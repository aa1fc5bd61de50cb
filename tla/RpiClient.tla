------------------------------- MODULE RpiClient -------------------------------
(***************************************************************************)
(* The Java side of a capture, together with CaptureServer: Timer threads  *)
(* run PacketCaptureTimerTask, which calls getNetworkInfoFromClient and    *)
(* posts what it returns.  RpiServiceImpl is one object, and its socket,   *)
(* out and in are FIELDS: all threads share them.  A step is a statement;  *)
(* the fields are sequentially consistent here.                            *)
(*                                                                         *)
(* A cancelled Timer lets its task finish (ConfigSync), so two threads can *)
(* be in the method at once.  Connections outside JavaConns belong to      *)
(* other local clients of the server.                                      *)
(***************************************************************************)
EXTENDS CaptureServer

CONSTANTS
  Threads,           \* Timer threads whose task may run
  JavaConns,         \* connections this process can have
  ClientFailures     \* what may go wrong here: "parse", "post"

ASSUME ClientAssumption ==
  /\ JavaConns \subseteq Conns /\ "capture" \in Commands
  /\ ClientFailures \subseteq {"parse", "post"}

VARIABLES
  socket, out, in,   \* the fields; a stream is named by its connection
  tpc,               \* where each thread is; "posted" or "failed" after a run
  reading,           \* the stream on which in.read was called
  data,              \* what the thread's capture returned
  own                \* history: the connection this run opened

fields == <<socket, out, in>>
locals == <<reading, data, own>>
java == <<fields, tpc, locals>>
vars == <<svars, java>>

Init ==
  /\ ServerInit
  /\ socket = NoConn /\ out = NoConn /\ in = NoConn
  /\ tpc = [t \in Threads |-> "idle"]
  /\ reading = [t \in Threads |-> NoConn]
  /\ data = [t \in Threads |-> "null"]
  /\ own = [t \in Threads |-> NoConn]

Ended == {"idle", "posted", "failed"}

At(t, here, next) == tpc[t] = here /\ tpc' = [tpc EXCEPT ![t] = next]

IsOpen(c) == c # NoConn /\ net[c].client = "open"

PeerGone(c) == net[c].server # "open" \/ spc = "exited"

\* IOException: the closes are skipped, and line 96 comes next.
Throws(t) == tpc' = [tpc EXCEPT ![t] = "setDevId"] /\ UNCHANGED <<fields, locals>>

-----------------------------------------------------------------------------
\* Mutant: data is a field, never reset.
NewRun_KeepsData(t) == UNCHANGED data

NewRun(t) == data' = [data EXCEPT ![t] = "null"]

\* run() of the task.
BeginRun(t) ==
  /\ tpc[t] \in Ended
  /\ tpc' = [tpc EXCEPT ![t] = "socket"]
  /\ NewRun(t)
  /\ UNCHANGED <<svars, fields, reading, own>>

\* Connections an object of this process still refers to.
Held == {socket, out, in} \union {reading[t] : t \in {u \in Threads : tpc[u] = "await"}}

Fresh == {c \in JavaConns : net[c].client = "none" /\ \A t \in Threads : own[t] # c} \ Held

NewSocket(t) ==
  /\ At(t, "socket", "output")
  /\ \E c \in Fresh : /\ Connect(c)
                      /\ socket' = c
                      /\ own' = [own EXCEPT ![t] = c]
  /\ UNCHANGED <<out, in, reading, data>>

\* Nobody listens, or no connection is left.
NewSocketFails(t) ==
  /\ tpc[t] = "socket"
  /\ ~Listening \/ Fresh = {}
  /\ Throws(t)
  /\ UNCHANGED svars

GetOutput(t) ==
  /\ At(t, "output", "send")
  /\ IsOpen(socket)
  /\ out' = socket
  /\ UNCHANGED <<svars, socket, in, locals>>

\* Mutant: the command stays in a buffer.
Sends_Nothing == UNCHANGED svars

\* To a server that has closed or exited the bytes are lost.
Sends == IF PeerGone(out) THEN UNCHANGED svars ELSE Send(out, "capture")

SendCapture(t) ==
  /\ At(t, "send", "input")
  /\ IsOpen(out)
  /\ Sends
  /\ UNCHANGED <<fields, locals>>

GetInput(t) ==
  /\ At(t, "input", "read")
  /\ IsOpen(socket)
  /\ in' = socket
  /\ UNCHANGED <<svars, socket, out, locals>>

\* "Socket is closed", or a broken pipe.
StreamThrows(t) ==
  /\ \/ tpc[t] \in {"output", "input"} /\ ~IsOpen(socket)
     \/ tpc[t] = "send" /\ (~IsOpen(out) \/ PeerGone(out))
  /\ Throws(t)
  /\ UNCHANGED svars

\* The field is read, then the thread blocks.
StartRead(t) ==
  /\ At(t, "read", "await")
  /\ reading' = [reading EXCEPT ![t] = in]
  /\ UNCHANGED <<svars, fields, data, own>>

\* Mutant: readCount > 0 is not asked.
HasAnswer_Unchecked(c) == TRUE

HasAnswer(c) == net[c].answer \in {"old", "new"}

\* readCount > 0, and the JSON parses.
ReadAnswer(t) ==
  /\ At(t, "await", "closeIn")
  /\ IsOpen(reading[t]) /\ HasAnswer(reading[t])
  /\ data' = [data EXCEPT ![t] = net[reading[t]].answer]
  /\ TakeAnswer(reading[t])
  /\ UNCHANGED <<fields, reading, own>>

\* Half the JSON, or malformed: JsonParseException is an IOException, not the
\* JsonGenerationException that is caught beside it.
ReadGarbled(t) ==
  /\ tpc[t] = "await" /\ "parse" \in ClientFailures
  /\ IsOpen(reading[t]) /\ HasAnswer(reading[t])
  /\ TakeAnswer(reading[t])
  /\ Throws(t)

\* Mutant: read returns 0 when there is nothing yet.
AtEnd_NothingYet(c) == ~HasAnswer(c)

AtEnd(c) == ~HasAnswer(c) /\ PeerGone(c)

\* readCount is -1.
ReadNothing(t) ==
  /\ At(t, "await", "closeIn")
  /\ IsOpen(reading[t]) /\ AtEnd(reading[t])
  /\ UNCHANGED <<svars, fields, locals>>

\* Another thread closed the socket, or the server closed with bytes unread.
ReadThrows(t) ==
  /\ tpc[t] = "await"
  /\ \/ ~IsOpen(reading[t])
     \/ PeerGone(reading[t]) /\ (spc = "exited" \/ net[reading[t]].inbox # << >>)
  /\ Throws(t)
  /\ UNCHANGED svars

\* Closing a stream closes its socket; closing it again does nothing.
CloseStream(c) == IF IsOpen(c) THEN CloseEnd(c) ELSE UNCHANGED net

Close(t) ==
  /\ \/ At(t, "closeIn", "closeOut") /\ CloseStream(in)
     \/ At(t, "closeOut", "setDevId") /\ CloseStream(out)
  /\ UNCHANGED <<server, queue, fields, locals>>

\* The run is over, and its local variables are gone.
EndRun(t, here, end) ==
  /\ At(t, here, end)
  /\ reading' = [reading EXCEPT ![t] = NoConn]
  /\ own' = [own EXCEPT ![t] = NoConn]
  /\ UNCHANGED <<svars, fields, data>>

SetDevId(t) ==
  /\ At(t, "setDevId", "post")
  /\ data[t] # "null"
  /\ UNCHANGED <<svars, fields, locals>>

\* data.setDevId on null: an exception that run() catches.
NoData(t) == data[t] = "null" /\ EndRun(t, "setDevId", "failed")

Post(t) == EndRun(t, "post", "posted")

\* RestClientException: what was captured is lost.
PostFails(t) == "post" \in ClientFailures /\ EndRun(t, "post", "failed")

Run(t) ==
  \/ NewSocket(t) \/ NewSocketFails(t) \/ GetOutput(t) \/ SendCapture(t) \/ GetInput(t)
  \/ StreamThrows(t) \/ StartRead(t) \/ ReadAnswer(t) \/ ReadGarbled(t) \/ ReadNothing(t)
  \/ ReadThrows(t) \/ Close(t) \/ SetDevId(t) \/ NoData(t) \/ Post(t) \/ PostFails(t)

\* The garbage collector closes a socket nobody refers to, when it runs.
Collect(c) == IsOpen(c) /\ c \notin Held /\ CloseClient(c)

OtherClients ==
  \E c \in Conns \ JavaConns : \/ Connect(c)
                               \/ \E cmd \in Commands : Send(c, cmd)
                               \/ CloseClient(c)

Outside == ServerStep \/ ServerFails \/ OtherClients \/ \E c \in JavaConns : Collect(c)

SystemNext ==
  \/ Outside /\ UNCHANGED java
  \/ \E t \in Threads : BeginRun(t) \/ Run(t)

SystemSpec == Init /\ [][SystemNext]_vars

\* Threads and server run on, other clients close in the end; nothing is said of when
\* the Timer begins a run or the collector runs.
FairSystem ==
  /\ SystemSpec
  /\ WF_vars(ServerStep /\ UNCHANGED java)
  /\ WF_vars(OpenFails /\ UNCHANGED java)
  /\ \A c \in Conns \ JavaConns : WF_vars(CloseClient(c) /\ UNCHANGED java)
  /\ \A t \in Threads : WF_vars(Run(t))

-----------------------------------------------------------------------------
Steps == Ended \union {"socket", "output", "send", "input", "read", "await",
                       "closeIn", "closeOut", "setDevId", "post"}

\* Also: a thread waits on a stream, and no field is read before it was assigned.
ClientTypeOK ==
  /\ {socket, out, in} \subseteq JavaConns \union {NoConn}
  /\ tpc \in [Threads -> Steps]
  /\ reading \in [Threads -> JavaConns \union {NoConn}]
  /\ data \in [Threads -> {"null", "old", "new"}]
  /\ own \in [Threads -> JavaConns \union {NoConn}]
  /\ \A t \in Threads : /\ tpc[t] \in {"output", "send", "input"} => socket # NoConn
                        /\ tpc[t] \in {"send", "input", "read", "await", "closeIn", "closeOut"}
                             => out # NoConn
                        /\ tpc[t] \in {"read", "await", "closeIn"} => in # NoConn
                        /\ tpc[t] = "await" => reading[t] # NoConn

\* No two runs are in the statements that open a connection and send the command over
\* it, although old runs may still wait for an answer, close streams or post.  Device has
\* it if what can outlast the sleep is none of these statements.
Asking == {"socket", "output", "send", "input", "read"}

OneAsks == \A t, u \in Threads : tpc[t] \in Asking /\ tpc[u] \in Asking => t = u

\* What a run posts was captured for that run, over its own connection, although
\* data goes through shared fields and the server's shared buffer.
PostsOwnCapture ==
  \A t \in Threads :
    tpc[t] = "post" => data[t] = "new" /\ reading[t] = own[t]

\* The server reads without a timeout and serves nobody meanwhile.  The Java side never
\* leaves it reading from a connection that stays silent: the run that opened it has yet to
\* send, also when an old run closes streams that a new one has put into the fields, and
\* when the collector has not run.
ServerNotHeld ==
  (spc = "read" /\ connfd \in JavaConns /\ IsOpen(connfd) /\ net[connfd].inbox = << >>) =>
     \E t \in Threads : own[t] = connfd /\ tpc[t] \in {"output", "send"}

\* A run implements CaptureCall: it reports only what was captured after it connected,
\* and no other client of the server makes it leave without an answer.  What does is an
\* answer cut short, the end of the server, or an older run that closes the streams the
\* shared fields hold; nothing else that happens to the fields.
Waiting == {"output", "send", "input", "read", "await"}

Phase(t) == CASE tpc[t] = "idle" -> "none"
              [] tpc[t] = "socket" -> "connecting"
              [] tpc[t] \in Waiting -> IF IsOpen(own[t]) THEN "waiting" ELSE "disturbed"
              [] tpc[t] = "posted" -> "reported"
              [] tpc[t] = "failed" -> "lost"
              [] OTHER -> IF data[t] = "new" THEN "answered" ELSE "unanswered"

CapturedFor(t) ==
  /\ tpc[t] \in Waiting /\ IsOpen(own[t])
  /\ \/ net[own[t]].answer = "new"
     \/ connfd = own[t] /\ net[own[t]].asked = "capture" /\ output_buff = "new"

Call == INSTANCE CaptureCall WITH
  Callers <- Threads,
  phase <- [t \in Threads |-> Phase(t)],
  made <- {t \in Threads : CapturedFor(t)},
  up <- Listening

ImplementsCall == Call!Spec

\* A run that begins ends, whether it could post or not, so the Timer can start the next.
RunsEnd == \A t \in Threads : tpc[t] = "socket" ~> tpc[t] \in Ended
=============================================================================
