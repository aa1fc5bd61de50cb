---------------------------- MODULE CaptureServer ----------------------------
(***************************************************************************)
(* main and process_client_command of the C server: one thread that        *)
(* accepts a connection, reads one command, obeys it, writes the global    *)
(* output_buff and closes, over and over.  A capture is one step here      *)
(* (BeaconCapture has its inside); what matters is whose capture           *)
(* output_buff holds.                                                      *)
(*                                                                         *)
(* Connect, Send and CloseClient are what any local program can do with    *)
(* a TCP connection to the port; the kernel queues connections, keeps what *)
(* was sent, and delivers it in order.                                     *)
(***************************************************************************)
EXTENDS Naturals, Sequences

CONSTANTS
  Conns,           \* connections that may exist at the same time
  Commands,        \* what a client may send: "capture", "exit" or anything else
  Failures,        \* what may go wrong: "start", "accept", "lookup", "peer", "device"
  BACKLOG,         \* the 5 of listen()
  MaxHandles,      \* libpcap handles the process can have open
  MaxSends,        \* bound on the commands sent over one connection
  NoConn

ASSUME ServerAssumption ==
  /\ NoConn \notin Conns /\ "nothing" \notin Commands
  /\ Failures \subseteq {"start", "accept", "lookup", "peer", "device"}
  /\ BACKLOG \in Nat /\ MaxHandles \in Nat /\ MaxSends \in Nat

VARIABLES
  spc,             \* where main is; "exited" for good
  connfd,
  handles,         \* libpcap handles opened, none is ever closed
  output_buff,     \* "empty", or JSON captured for this connection or an older one
  queue,           \* connections the kernel holds for accept
  net              \* the two ends of each connection

server == <<spc, connfd, handles, output_buff>>
svars == <<server, queue, net>>

\* client, server: "none" (no connection), "open", "closed".
\* inbox: sent and not yet read; asked: what main read; answer: written, not yet read.
BothEnds(state) == [client |-> state, server |-> state, inbox |-> << >>,
                    asked |-> "nothing", answer |-> "nothing"]

Unused == BothEnds("none")

ServerInit ==
  /\ spc = "starting"
  /\ connfd = NoConn
  /\ handles = 0
  /\ output_buff = "empty"
  /\ queue = << >>
  /\ net = [c \in Conns |-> Unused]

Goto(from, to) == spc = from /\ spc' = to

\* exit() in any of its callers: the kernel closes what the process had open.
Exit == spc' = "exited" /\ UNCHANGED <<connfd, handles, output_buff, queue, net>>

-----------------------------------------------------------------------------
\* socket, bind and listen.
Start ==
  /\ Goto("starting", "accept")
  /\ UNCHANGED <<connfd, handles, output_buff, queue, net>>

\* A wrong argument count, no socket, or the port is taken.
StartFails == spc = "starting" /\ "start" \in Failures /\ Exit

\* Mutant: the connection stays at the head of the queue.
Accepted_StaysQueued == connfd' = Head(queue) /\ UNCHANGED queue

Accepted == connfd' = Head(queue) /\ queue' = Tail(queue)

Accept ==
  /\ Goto("accept", "read")
  /\ queue # << >>
  /\ Accepted
  /\ UNCHANGED <<handles, output_buff, net>>

AcceptFails == spc = "accept" /\ "accept" \in Failures /\ Exit

\* gethostbyaddr finds no name for the peer: error() ends the process.
LookupFails == spc = "read" /\ "lookup" \in Failures /\ Exit

\* What strcmp sees: everything that had arrived, as one string.
CommandOf(inbox) == IF Len(inbox) = 1 THEN Head(inbox) ELSE "unknown"

\* read blocks until there is something or the client has closed.
ReadCommand ==
  /\ spc = "read"
  /\ net[connfd].inbox # << >> \/ net[connfd].client = "closed"
  /\ LET cmd == CommandOf(net[connfd].inbox)
     IN  /\ net' = [net EXCEPT ![connfd].inbox = << >>, ![connfd].asked = cmd]
         /\ spc' = CASE cmd = "exit" -> "exited"
                     [] cmd = "capture" -> "capture"
                     [] OTHER -> "write"
  /\ UNCHANGED <<connfd, handles, output_buff, queue>>

\* read or write fails because the client reset the connection: error() again.
ReadFails == spc = "read" /\ "peer" \in Failures /\ Exit

WriteFails == spc = "write" /\ "peer" \in Failures /\ Exit

\* capture_packets opens the device.
OpenDevice ==
  /\ Goto("capture", "loop")
  /\ handles < MaxHandles
  /\ handles' = handles + 1
  /\ UNCHANGED <<connfd, output_buff, queue, net>>

\* pcap_open_live, pcap_compile or pcap_setfilter fails: exit(1).
OpenFails ==
  /\ spc = "capture"
  /\ handles = MaxHandles \/ "device" \in Failures
  /\ Exit

\* Mutant: the buffer is not written anew.
Generated_Nothing == UNCHANGED output_buff

\* generateJson.
Generated == output_buff' = "new"

\* pcap_loop has returned.
CaptureEnds ==
  /\ Goto("loop", "write")
  /\ Generated
  /\ UNCHANGED <<connfd, handles, queue, net>>

\* pcap_loop reaches a frame that ends the process (BeaconCapture, pc = "dead").
CaptureDies == spc = "loop" /\ "device" \in Failures /\ Exit

\* Whatever the command was, output_buff is written.
WriteAnswer ==
  /\ Goto("write", "close")
  /\ net' = [net EXCEPT ![connfd].answer = output_buff]
  /\ UNCHANGED <<connfd, handles, output_buff, queue>>

\* Mutant: the connection is never closed.
CloseServerEnd_Open == UNCHANGED net

\* A connection both ends have closed is gone.
CloseServerEnd ==
  net' = [net EXCEPT ![connfd] =
            IF @.client = "closed" THEN Unused ELSE [@ EXCEPT !.server = "closed"]]

CloseConn ==
  /\ Goto("close", "accept")
  /\ CloseServerEnd
  /\ connfd' = NoConn
  /\ output_buff' = IF output_buff = "new" THEN "old" ELSE output_buff
  /\ UNCHANGED <<handles, queue>>

ServerStep ==
  \/ Start \/ Accept \/ ReadCommand \/ OpenDevice \/ CaptureEnds \/ WriteAnswer \/ CloseConn

ServerFails ==
  \/ StartFails \/ AcceptFails \/ LookupFails \/ ReadFails \/ WriteFails
  \/ OpenFails \/ CaptureDies

-----------------------------------------------------------------------------
Listening == spc \notin {"starting", "exited"}

\* The kernel completes the connection and queues it.
Connect(c) ==
  /\ Listening
  /\ net[c].client = "none"
  /\ Len(queue) < BACKLOG
  /\ net' = [net EXCEPT ![c] = BothEnds("open")]
  /\ queue' = Append(queue, c)
  /\ UNCHANGED server

Send(c, cmd) ==
  /\ net[c].client = "open"
  /\ net[c].server = "open"
  /\ Len(net[c].inbox) < MaxSends
  /\ net' = [net EXCEPT ![c].inbox = Append(@, cmd)]
  /\ UNCHANGED <<server, queue>>

\* The client closes its end; what it has sent can still be read.
CloseEnd(c) ==
  net' = [net EXCEPT ![c] =
            IF @.server = "closed" THEN Unused ELSE [@ EXCEPT !.client = "closed"]]

CloseClient(c) ==
  /\ net[c].client = "open"
  /\ CloseEnd(c)
  /\ UNCHANGED <<server, queue>>

\* The client reads what was written to it.
TakeAnswer(c) ==
  /\ net[c].client = "open"
  /\ net' = [net EXCEPT ![c].answer = "nothing"]
  /\ UNCHANGED <<server, queue>>

Clients == \E c \in Conns : \/ Connect(c)
                            \/ \E cmd \in Commands : Send(c, cmd)
                            \/ TakeAnswer(c)
                            \/ CloseClient(c)

Next == ServerStep \/ ServerFails \/ Clients

Spec == ServerInit /\ [][Next]_svars

\* The server runs on; captures end (beacons keep coming); a client does not keep a
\* connection open for ever.
FairSpec ==
  /\ Spec
  /\ WF_svars(ServerStep)
  /\ WF_svars(OpenFails)
  /\ \A c \in Conns : WF_svars(CloseClient(c))

-----------------------------------------------------------------------------
\* The kernel queues a connection once, and what main holds is not queued.
NoneTwice ==
  \A i \in 1 .. Len(queue) :
    queue[i] # connfd /\ \A j \in 1 .. Len(queue) : queue[i] = queue[j] => i = j

TypeOK ==
  /\ spc \in {"starting", "accept", "read", "capture", "loop", "write", "close", "exited"}
  /\ connfd \in Conns \union {NoConn}
  /\ handles \in 0 .. MaxHandles
  /\ output_buff \in {"empty", "old", "new"}
  /\ queue \in Seq(Conns)
  /\ Len(queue) <= BACKLOG
  /\ NoneTwice
  /\ net \in [Conns -> [client : {"none", "open", "closed"},
                        server : {"none", "open", "closed"},
                        inbox : Seq(Commands),
                        asked : Commands \union {"nothing", "unknown"},
                        answer : {"nothing", "empty", "old", "new"}]]

\* A connection that asked for a capture is answered from that very capture, although
\* the buffer is shared by all connections and never cleared.
CaptureAnsweredFresh ==
  \A c \in Conns :
    net[c].asked = "capture" => net[c].answer \in {"nothing", "new"}

\* No way through the loop leaves a connection behind: what is open is queued or served,
\* so that who waits for an answer waits for something.
NobodyForgotten ==
  spc # "exited" =>
    \A c \in Conns : net[c].server = "open" => connfd = c \/ \E i \in 1 .. Len(queue) : queue[i] = c

\* Every connection is answered and closed in the end, or the server has exited.
EveryoneServed ==
  \A c \in Conns : net[c].server = "open" ~> (net[c].server # "open" \/ spc = "exited")

=============================================================================
