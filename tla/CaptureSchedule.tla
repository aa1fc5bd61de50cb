--------------------------- MODULE CaptureSchedule ---------------------------
(***************************************************************************)
(* What ConfigSyncJob promises: at most one capture schedule runs, it      *)
(* follows the wanted configuration, and a schedule is stopped only when   *)
(* another configuration is wanted, and before its successor starts.       *)
(***************************************************************************)
CONSTANTS Configs, ValidConfigs

VARIABLES wanted,     \* {} or the configuration wanted
          running     \* {} or the configuration whose schedule runs

Init == wanted = {} /\ running = {}

Adopt(c) == {c} # wanted /\ wanted' = {c} /\ UNCHANGED running

Stop == /\ running # {}
        /\ running # wanted
        /\ running' = {}
        /\ UNCHANGED wanted

Start(c) == /\ running = {}
            /\ wanted = {c}
            /\ running' = {c}
            /\ UNCHANGED wanted

Next == \/ \E c \in Configs : Adopt(c)
        \/ Stop
        \/ \E c \in ValidConfigs : Start(c)

Spec == Init /\ [][Next]_<<wanted, running>>
=============================================================================
