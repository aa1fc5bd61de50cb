------------------------------ MODULE CaptureCall ------------------------------
(***************************************************************************)
(* What each capture run of the Java client promises: it connects, waits,  *)
(* and reports what was captured while it waited.  Once connected it       *)
(* leaves without an answer only if there was one it could not read, the   *)
(* server has ended, or another run that was about to end has closed its   *)
(* connection.                                                             *)
(***************************************************************************)
CONSTANT Callers

VARIABLES phase,   \* where each caller's run is
          made,    \* the callers for which a capture was made since they connected
          up       \* the server accepts connections

Init == /\ phase = [c \in Callers |-> "none"]
        /\ made = {}
        /\ up = FALSE

Server == up' \in BOOLEAN /\ up' # up /\ UNCHANGED <<phase, made>>

Move(c, from, to) ==
  /\ phase[c] = from
  /\ phase' = [phase EXCEPT ![c] = to]
  /\ made' = made \ {c}
  /\ UNCHANGED up

Begin(c) == \E ended \in {"none", "reported", "lost"} : Move(c, ended, "connecting")

Connect(c) == up /\ Move(c, "connecting", "waiting")

NoConnection(c) == Move(c, "connecting", "unanswered")

Capture(c) ==
  /\ phase[c] = "waiting" /\ up /\ c \notin made
  /\ made' = made \union {c}
  /\ UNCHANGED <<phase, up>>

Answered(c) == c \in made /\ Move(c, "waiting", "answered")

Unanswered(c) == (c \in made \/ ~up) /\ Move(c, "waiting", "unanswered")

\* Another run, which has its answer or has given up, closes the connection as its own.
Disturb(c) ==
  /\ \E d \in Callers \ {c} : phase[d] \in {"answered", "unanswered"}
  /\ Move(c, "waiting", "disturbed")

Notice(c) == Move(c, "disturbed", "unanswered")

End(c) == \/ Move(c, "answered", "reported")
          \/ Move(c, "answered", "lost")
          \/ Move(c, "unanswered", "lost")

Next == Server \/ \E c \in Callers : \/ Begin(c) \/ Connect(c) \/ NoConnection(c)
                                     \/ Capture(c) \/ Answered(c) \/ Unanswered(c)
                                     \/ Disturb(c) \/ Notice(c) \/ End(c)

Spec == Init /\ [][Next]_<<phase, made, up>>
=============================================================================
