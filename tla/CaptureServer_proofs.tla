------------------------- MODULE CaptureServer_proofs -------------------------
(***************************************************************************)
(* Proofs about CaptureServer, for every number of connections, commands,  *)
(* handles and failures.                                                   *)
(***************************************************************************)
EXTENDS CaptureServer, TLAPS

Ends == [client : {"none", "open", "closed"},
         server : {"none", "open", "closed"},
         inbox : Seq(Commands),
         asked : Commands \union {"nothing", "unknown"},
         answer : {"nothing", "empty", "old", "new"}]

\* main has a connection exactly while it serves one.
Serving == spc \in {"read", "capture", "loop", "write", "close"}

ServingHolds == /\ Serving => connfd \in Conns
                /\ spc \in {"starting", "accept"} => connfd = NoConn

\* The server's end of a connection stays open while it waits and while it is served, and
\* until it is read from nothing has been asked over it.
HeldOpen ==
  /\ \A i \in 1 .. Len(queue) : /\ net[queue[i]].client # "none"
                                /\ net[queue[i]].server = "open"
                                /\ net[queue[i]].asked = "nothing"
                                /\ net[queue[i]].answer = "nothing"
  /\ Serving => net[connfd].client # "none" /\ net[connfd].server = "open"
  /\ spc = "read" => net[connfd].asked = "nothing" /\ net[connfd].answer = "nothing"

\* Between the capture and the write nothing else touches the buffer.
BufferIsOurs == spc = "write" /\ net[connfd].asked = "capture" => output_buff = "new"

IInv == TypeOK /\ ServingHolds /\ HeldOpen /\ BufferIsOurs /\ CaptureAnsweredFresh

-----------------------------------------------------------------------------
LEMMA InitInv == ServerInit => IInv
<1> SUFFICES ASSUME ServerInit PROVE IInv
  OBVIOUS
<1> USE ServerAssumption DEF ServerInit
<1>1. Unused \in Ends /\ Unused.asked = "nothing" /\ Unused.answer = "nothing"
  BY DEF Unused, BothEnds, Ends
<1>2. TypeOK
  BY <1>1 DEF TypeOK, NoneTwice, Ends
<1>3. ServingHolds /\ HeldOpen /\ BufferIsOurs /\ CaptureAnsweredFresh
  BY <1>1 DEF ServingHolds, Serving, HeldOpen, BufferIsOurs, CaptureAnsweredFresh
<1> QED BY <1>2, <1>3 DEF IInv

\* A connection enters the queue at its end, and only if it was not in use.
LEMMA ConnectInv == ASSUME IInv, NEW c \in Conns, Connect(c) PROVE IInv'
<1> DEFINE n == BothEnds("open")
<1>1. n \in Ends /\ n.client = "open" /\ n.server = "open" /\ n.asked = "nothing"
        /\ n.answer = "nothing"
  BY DEF BothEnds, Ends
<1> USE ServerAssumption DEF IInv, Connect, server
<1>2. net' = [net EXCEPT ![c] = n] /\ net' \in [Conns -> Ends]
  BY <1>1 DEF TypeOK, Ends
<1>3. queue' \in Seq(Conns) /\ Len(queue') = Len(queue) + 1 /\ queue'[Len(queue) + 1] = c
        /\ \A i \in 1 .. Len(queue) : queue'[i] = queue[i] /\ queue[i] \in Conns
  BY DEF TypeOK
<1>4. connfd # c /\ \A i \in 1 .. Len(queue) : queue[i] # c
  BY DEF HeldOpen, ServingHolds, Serving, TypeOK, Listening
<1>5. TypeOK'
  BY <1>2, <1>3, <1>4 DEF TypeOK, NoneTwice, Ends
<1> HIDE DEF n
<1>6. HeldOpen'
  <2>1. ASSUME NEW i \in 1 .. Len(queue')
        PROVE  /\ net'[queue'[i]].client # "none" /\ net'[queue'[i]].server = "open"
               /\ net'[queue'[i]].asked = "nothing" /\ net'[queue'[i]].answer = "nothing"
    BY <1>1, <1>2, <1>3, <1>4 DEF HeldOpen, TypeOK
  <2>2. Serving => net'[connfd] = net[connfd]
    BY <1>2, <1>4 DEF ServingHolds, TypeOK
  <2> QED BY <2>1, <2>2 DEF HeldOpen, Serving
<1>7. ServingHolds' /\ BufferIsOurs' /\ CaptureAnsweredFresh'
  BY <1>1, <1>2, <1>4 DEF ServingHolds, Serving, BufferIsOurs, CaptureAnsweredFresh, TypeOK
<1> QED BY <1>5, <1>6, <1>7

LEMMA ClientInv ==
  ASSUME IInv, NEW c \in Conns, CloseClient(c) \/ \E cmd \in Commands : Send(c, cmd)
  PROVE  IInv'
<1> USE ServerAssumption DEF IInv, server
<1>1. PICK e \in Ends : /\ net' = [net EXCEPT ![c] = e]
                        /\ e = Unused \/ (e.asked = net[c].asked /\ e.answer = net[c].answer)
                        /\ net[c].server = "open" => e.server = "open" /\ e.client # "none"
                                                     /\ e.answer = net[c].answer
                                                     /\ e.asked = net[c].asked
  <2>1. CASE CloseClient(c)
    <3>1. CASE net[c].server = "closed"
      <4>1. Unused \in Ends /\ net' = [net EXCEPT ![c] = Unused]
        BY <2>1, <3>1 DEF CloseClient, CloseEnd, TypeOK, Ends, Unused, BothEnds
      <4> QED BY <3>1, <4>1
    <3>2. CASE net[c].server # "closed"
      <4> DEFINE e == [net[c] EXCEPT !.client = "closed"]
      <4>1. e \in Ends /\ net' = [net EXCEPT ![c] = e]
        BY <2>1, <3>2 DEF CloseClient, CloseEnd, TypeOK, Ends
      <4> QED BY <4>1 DEF TypeOK, Ends
    <3> QED BY <3>1, <3>2
  <2>2. ASSUME NEW cmd \in Commands, Send(c, cmd)
        PROVE  \E e \in Ends : /\ net' = [net EXCEPT ![c] = e]
                               /\ e.server = net[c].server /\ e.client = net[c].client
                               /\ e.asked = net[c].asked /\ e.answer = net[c].answer
    <3> DEFINE e == [net[c] EXCEPT !.inbox = Append(@, cmd)]
    <3>1. net[c] \in Ends
      BY DEF TypeOK, Ends
    <3>2. Append(net[c].inbox, cmd) \in Seq(Commands)
      BY <3>1 DEF Ends
    <3>3. e \in Ends /\ e.server = net[c].server /\ e.client = net[c].client
            /\ e.asked = net[c].asked /\ e.answer = net[c].answer
      BY <3>1, <3>2 DEF Ends
    <3>4. net' = [net EXCEPT ![c] = e]
      BY <2>2 DEF Send
    <3> HIDE DEF e
    <3> QED BY <3>3, <3>4
  <2>3. ASSUME NEW cmd \in Commands, Send(c, cmd) PROVE net[c].client = "open"
    BY <2>3 DEF Send
  <2> QED BY <2>1, <2>2, <2>3
<1>2. UNCHANGED <<spc, connfd, handles, output_buff, queue>>
  BY DEF CloseClient, Send
<1>3. TypeOK'
  BY <1>1, <1>2 DEF TypeOK, NoneTwice, Ends
<1>4. HeldOpen'
  <2>1. ASSUME NEW i \in 1 .. Len(queue)
        PROVE  /\ net'[queue[i]].client # "none" /\ net'[queue[i]].server = "open"
               /\ net'[queue[i]].asked = "nothing" /\ net'[queue[i]].answer = "nothing"
    BY <1>1 DEF HeldOpen, TypeOK
  <2>2. Serving => net'[connfd].client # "none" /\ net'[connfd].server = "open"
                   /\ net'[connfd].asked = net[connfd].asked
                   /\ net'[connfd].answer = net[connfd].answer
    BY <1>1 DEF HeldOpen, TypeOK, ServingHolds
  <2> QED BY <1>2, <2>1, <2>2 DEF HeldOpen, Serving
<1>5. Unused.asked = "nothing"
  BY DEF Unused, BothEnds
<1>6. ServingHolds' /\ BufferIsOurs' /\ CaptureAnsweredFresh'
  BY <1>1, <1>2, <1>5 DEF ServingHolds, Serving, BufferIsOurs, CaptureAnsweredFresh, TypeOK
<1> QED BY <1>3, <1>4, <1>6

LEMMA TakeInv == ASSUME IInv, NEW c \in Conns, TakeAnswer(c) PROVE IInv'
<1> DEFINE e == [net[c] EXCEPT !.answer = "nothing"]
<1> USE DEF IInv, server
<1>1. /\ e \in Ends /\ e.client = net[c].client /\ e.server = net[c].server
      /\ e.answer = "nothing" /\ net' = [net EXCEPT ![c] = e]
  BY DEF TakeAnswer, TypeOK, Ends
<1>2. UNCHANGED <<spc, connfd, handles, output_buff, queue>>
  BY DEF TakeAnswer
<1>3. net[c] \in Ends /\ e.asked = net[c].asked
  BY DEF TypeOK, Ends
<1> HIDE DEF e
<1>4. TypeOK'
  BY <1>1, <1>2 DEF TypeOK, NoneTwice, Ends
<1>5. HeldOpen'
  <2>1. \A i \in 1 .. Len(queue) : queue[i] \in Conns
    BY DEF TypeOK
  <2> QED BY <1>1, <1>2, <1>3, <2>1 DEF HeldOpen, TypeOK, ServingHolds, Serving
<1>6. ServingHolds' /\ BufferIsOurs' /\ CaptureAnsweredFresh'
  BY <1>1, <1>2, <1>3 DEF ServingHolds, Serving, BufferIsOurs, CaptureAnsweredFresh, TypeOK
<1> QED BY <1>4, <1>5, <1>6

\* main keeps its connection: only queue, net and the buffer could disturb the rest.
LEMMA ServerInv == ASSUME IInv, ServerStep PROVE IInv'
<1> USE ServerAssumption DEF IInv, Goto, Serving
<1>1. CASE Start
  BY <1>1 DEF Start, TypeOK, NoneTwice, ServingHolds, HeldOpen, BufferIsOurs,
              CaptureAnsweredFresh
<1>2. CASE Accept
  <2> USE DEF Accept, Accepted
  <2>1. connfd = NoConn /\ queue # << >> /\ queue' = Tail(queue) /\ connfd' = queue[1]
    BY <1>2 DEF ServingHolds, TypeOK
  <2>2. queue' \in Seq(Conns) /\ Len(queue') = Len(queue) - 1 /\ queue[1] \in Conns
          /\ \A i \in 1 .. Len(queue') : i + 1 \in 1 .. Len(queue) /\ queue'[i] = queue[i + 1]
    BY <2>1 DEF TypeOK
  <2>3. NoneTwice'
    BY <2>1, <2>2 DEF NoneTwice, TypeOK
  <2>4. TypeOK'
    BY <1>2, <2>1, <2>2, <2>3 DEF TypeOK
  <2>5. 1 \in 1 .. Len(queue)
    BY <2>1 DEF TypeOK
  <2>6. HeldOpen'
    BY <1>2, <2>1, <2>2, <2>5 DEF HeldOpen
  <2>7. ServingHolds' /\ BufferIsOurs' /\ CaptureAnsweredFresh'
    BY <1>2, <2>1, <2>2 DEF ServingHolds, BufferIsOurs, CaptureAnsweredFresh
  <2> QED BY <2>4, <2>6, <2>7
<1>3. CASE ReadCommand
  <2> DEFINE cmd == CommandOf(net[connfd].inbox)
             unread == << >>
             e == [net[connfd] EXCEPT !.inbox = unread, !.asked = cmd]
  <2>1. connfd \in Conns /\ net[connfd] \in Ends
    BY <1>3 DEF ReadCommand, ServingHolds, TypeOK, Ends
  <2>2. cmd \in Commands \union {"unknown"}
    BY <2>1 DEF CommandOf, Ends
  <2> HIDE DEF cmd
  <2>0. unread \in Seq(Commands)
    OBVIOUS
  <2> HIDE DEF unread
  <2>3. e \in Ends /\ e.server = net[connfd].server /\ e.client = net[connfd].client
          /\ e.asked = cmd /\ e.answer = net[connfd].answer
    BY ONLY <2>0, <2>1, <2>2 DEF e, Ends
  <2>4. net' = [net EXCEPT ![connfd] = e]
    BY <1>3 DEF ReadCommand, cmd, unread
  <2>5. /\ spc = "read"
        /\ spc' = "exited" \/ (spc' = "capture" /\ cmd = "capture")
             \/ (spc' = "write" /\ cmd # "capture")
        /\ UNCHANGED <<connfd, handles, output_buff, queue>>
    BY <1>3 DEF ReadCommand, cmd
  <2> HIDE DEF e
  <2>6. TypeOK'
    BY <2>1, <2>3, <2>4, <2>5 DEF TypeOK, NoneTwice, Ends
  <2>7. HeldOpen'
    BY <2>1, <2>3, <2>4, <2>5 DEF HeldOpen, TypeOK, NoneTwice
  <2>8. ServingHolds' /\ BufferIsOurs' /\ CaptureAnsweredFresh'
    BY <2>1, <2>3, <2>4, <2>5
       DEF ServingHolds, BufferIsOurs, CaptureAnsweredFresh, HeldOpen, TypeOK
  <2> QED BY <2>6, <2>7, <2>8
<1>4. CASE OpenDevice \/ CaptureEnds
  BY <1>4 DEF OpenDevice, CaptureEnds, Generated, TypeOK, NoneTwice, ServingHolds, HeldOpen,
              BufferIsOurs, CaptureAnsweredFresh
<1>5. CASE WriteAnswer
  <2> DEFINE e == [net[connfd] EXCEPT !.answer = output_buff]
  <2>1. connfd \in Conns /\ net[connfd] \in Ends
    BY <1>5 DEF WriteAnswer, ServingHolds, TypeOK, Ends
  <2>2. e \in Ends /\ e.server = net[connfd].server /\ e.client = net[connfd].client
          /\ e.asked = net[connfd].asked /\ e.answer = output_buff
    BY <2>1 DEF Ends, TypeOK
  <2>3. /\ net' = [net EXCEPT ![connfd] = e]
        /\ spc = "write" /\ spc' = "close"
        /\ UNCHANGED <<connfd, handles, output_buff, queue>>
    BY <1>5 DEF WriteAnswer
  <2> HIDE DEF e
  <2>4. TypeOK'
    BY <2>1, <2>2, <2>3 DEF TypeOK, NoneTwice, Ends
  <2>5. HeldOpen'
    BY <2>1, <2>2, <2>3 DEF HeldOpen, TypeOK, NoneTwice
  <2>6. ServingHolds' /\ BufferIsOurs' /\ CaptureAnsweredFresh'
    BY <2>1, <2>2, <2>3 DEF ServingHolds, BufferIsOurs, CaptureAnsweredFresh, TypeOK
  <2> QED BY <2>4, <2>5, <2>6
<1>6. CASE CloseConn
  <2>1. connfd \in Conns /\ net[connfd] \in Ends
    BY <1>6 DEF CloseConn, ServingHolds, TypeOK, Ends
  <2>2. PICK e \in Ends : /\ net' = [net EXCEPT ![connfd] = e]
                          /\ e = Unused \/ (e.asked = net[connfd].asked
                                            /\ e.answer = net[connfd].answer)
    <3>1. CASE net[connfd].client = "closed"
      <4>1. Unused \in Ends /\ net' = [net EXCEPT ![connfd] = Unused]
        BY <1>6, <2>1, <3>1 DEF CloseConn, CloseServerEnd, Ends, Unused, BothEnds
      <4> QED BY <4>1
    <3>2. CASE net[connfd].client # "closed"
      <4> DEFINE e == [net[connfd] EXCEPT !.server = "closed"]
      <4>1. e \in Ends /\ net' = [net EXCEPT ![connfd] = e]
        BY <1>6, <2>1, <3>2 DEF CloseConn, CloseServerEnd, Ends
      <4> QED BY <2>1, <4>1 DEF Ends
    <3> QED BY <3>1, <3>2
  <2>3. /\ connfd' = NoConn /\ spc' = "accept" /\ UNCHANGED <<handles, queue>>
        /\ output_buff' \in {"empty", "old", "new"}
    BY <1>6 DEF CloseConn, TypeOK
  <2>4. TypeOK'
    <3>1. NoneTwice'
      <4>1. \A i \in 1 .. Len(queue) : queue[i] \in Conns
        BY DEF TypeOK
      <4> QED BY <2>3, <4>1 DEF TypeOK, NoneTwice
    <3>2. net' \in [Conns -> Ends]
      BY <2>1, <2>2 DEF TypeOK, Ends
    <3> QED BY <2>3, <3>1, <3>2 DEF TypeOK, Ends
  <2>5. HeldOpen'
    BY <2>1, <2>2, <2>3 DEF HeldOpen, TypeOK, NoneTwice
  <2>6. Unused.asked = "nothing"
    BY DEF Unused, BothEnds
  <2>7. ServingHolds' /\ BufferIsOurs' /\ CaptureAnsweredFresh'
    BY <2>1, <2>2, <2>3, <2>6 DEF ServingHolds, BufferIsOurs, CaptureAnsweredFresh, TypeOK
  <2> QED BY <2>4, <2>5, <2>7
<1> QED BY <1>1, <1>2, <1>3, <1>4, <1>5, <1>6 DEF ServerStep

\* exit() leaves everything as it was; so does a stuttering step.
LEMMA FailInv == ASSUME IInv, ServerFails \/ UNCHANGED svars PROVE IInv'
BY DEF ServerFails, StartFails, AcceptFails, LookupFails, ReadFails, WriteFails, OpenFails,
       CaptureDies, Exit, svars, server, IInv, TypeOK, NoneTwice, ServingHolds, Serving,
       HeldOpen, BufferIsOurs, CaptureAnsweredFresh

LEMMA StepInv == ASSUME IInv, [Next]_svars PROVE IInv'
BY ConnectInv, ClientInv, TakeInv, ServerInv, FailInv DEF Next, Clients

-----------------------------------------------------------------------------
\* No connection is queued twice or queued while served, whatever clients do.
THEOREM TypeCorrect == Spec => []TypeOK
<1>1. IInv => TypeOK
  BY DEF IInv
<1> QED BY InitInv, StepInv, <1>1, PTL DEF Spec

\* Who asked for a capture is never answered from an older one.
THEOREM CapturesFresh == Spec => []CaptureAnsweredFresh
<1>1. IInv => CaptureAnsweredFresh
  BY DEF IInv
<1> QED BY InitInv, StepInv, <1>1, PTL DEF Spec

-----------------------------------------------------------------------------
(* Nobody is forgotten.                                                    *)

Kept(c) == connfd = c \/ \E i \in 1 .. Len(queue) : queue[i] = c

\* A server's end is opened only for the queue, and closed when its turn is over.
LEMMA KeptStep ==
  ASSUME IInv, NobodyForgotten, [Next]_svars
  PROVE  NobodyForgotten'
<1> SUFFICES ASSUME spc' # "exited", NEW c \in Conns, net'[c].server = "open"
             PROVE  Kept(c)'
  BY DEF NobodyForgotten, Kept
<1> USE DEF Goto
<1>0. /\ net \in [Conns -> Ends] /\ queue \in Seq(Conns) /\ Len(queue) \in Nat
      /\ spc # "exited" /\ net[c].server = "open" => Kept(c)
  BY DEF IInv, TypeOK, NobodyForgotten, Kept, Ends
<1>1. ASSUME NEW o \in Conns, Connect(o) PROVE Kept(c)'
  <2>1. /\ queue' \in Seq(Conns) /\ Len(queue') = Len(queue) + 1
        /\ queue'[Len(queue) + 1] = o
        /\ \A i \in 1 .. Len(queue) : queue'[i] = queue[i]
    BY <1>0, <1>1 DEF Connect
  <2>2. CASE o = c
    BY <1>0, <2>1, <2>2 DEF Kept
  <2>3. CASE o # c
    <3>1. Kept(c) /\ connfd' = connfd
      BY <1>0, <1>1, <2>3 DEF Connect, server
    <3> QED BY <1>0, <2>1, <3>1 DEF Kept
  <2> QED BY <2>2, <2>3
<1>2. ASSUME NEW o \in Conns, CloseClient(o) \/ TakeAnswer(o) \/ \E cmd \in Commands : Send(o, cmd)
      PROVE  Kept(c)'
  <2>1. UNCHANGED <<spc, connfd, queue>>
    BY <1>2 DEF CloseClient, TakeAnswer, Send, server
  <2>2. CASE CloseClient(o)
    <3>1. net[c].server = "open"
      BY <1>0, <2>2 DEF CloseClient, CloseEnd, Unused, BothEnds, Ends
    <3> QED BY <1>0, <2>1, <3>1 DEF Kept
  <2>3. CASE TakeAnswer(o)
    <3>1. net'[c].server = net[c].server
      BY <1>0, <2>3 DEF TakeAnswer, Ends
    <3> QED BY <1>0, <2>1, <3>1 DEF Kept
  <2>4. ASSUME NEW cmd \in Commands, Send(o, cmd) PROVE Kept(c)'
    <3>1. net'[c].server = net[c].server
      BY <1>0, <2>4 DEF Send, Ends
    <3> QED BY <1>0, <2>1, <3>1 DEF Kept
  <2> QED BY <1>2, <2>2, <2>3, <2>4
<1>3. CASE Accept
  <2>1. connfd = NoConn /\ queue # << >> /\ queue' = Tail(queue) /\ connfd' = queue[1]
          /\ net' = net /\ spc # "exited"
    BY <1>0, <1>3 DEF Accept, Accepted, IInv, ServingHolds
  <2>2. Len(queue') = Len(queue) - 1 /\ \A i \in 1 .. Len(queue') : queue'[i] = queue[i + 1]
    BY <1>0, <2>1
  <2>3. PICK i \in 1 .. Len(queue) : queue[i] = c
    BY <1>0, <2>1, ServerAssumption DEF Kept
  <2>4. CASE i = 1
    BY <2>1, <2>3, <2>4 DEF Kept
  <2>5. CASE i # 1
    <3>1. i - 1 \in 1 .. Len(queue') /\ queue'[i - 1] = c
      BY <1>0, <2>2, <2>3, <2>5
    <3> QED BY <3>1 DEF Kept
  <2> QED BY <2>4, <2>5
<1>4. CASE ReadCommand \/ WriteAnswer
  <2>1. spc # "exited" /\ UNCHANGED <<connfd, queue>>
    BY <1>4 DEF ReadCommand, WriteAnswer
  <2>2. net[c].server = "open"
    <3> DEFINE cmd == CommandOf(net[connfd].inbox)
    <3>1. CASE ReadCommand
      <4>1. net' = [net EXCEPT ![connfd].inbox = << >>, ![connfd].asked = cmd]
        BY <3>1 DEF ReadCommand
      <4> HIDE DEF cmd
      <4> QED BY <1>0, <4>1 DEF Ends
    <3>2. CASE WriteAnswer
      BY <1>0, <3>2 DEF WriteAnswer, Ends
    <3> QED BY <1>4, <3>1, <3>2
  <2> QED BY <1>0, <2>1, <2>2 DEF Kept
<1>5. CASE CloseConn
  <2>1. connfd \in Conns /\ spc # "exited" /\ UNCHANGED queue
    BY <1>5 DEF CloseConn, IInv, ServingHolds, Serving
  <2>2. c # connfd /\ net'[c] = net[c]
    BY <1>0, <1>5, <2>1 DEF CloseConn, CloseServerEnd, Unused, BothEnds, Ends
  <2> QED BY <1>0, <2>1, <2>2 DEF Kept
<1>6. CASE Start \/ OpenDevice \/ CaptureEnds
  BY <1>0, <1>6 DEF Start, OpenDevice, CaptureEnds, Kept
<1>7. CASE ServerFails
  BY <1>7 DEF ServerFails, StartFails, AcceptFails, LookupFails, ReadFails, WriteFails,
              OpenFails, CaptureDies, Exit
<1>8. CASE UNCHANGED svars
  BY <1>0, <1>8 DEF svars, server, Kept
<1> QED BY <1>1, <1>2, <1>3, <1>4, <1>5, <1>6, <1>7, <1>8 DEF Next, ServerStep, Clients

\* The server never forgets a connection it has open: the half of EveryoneServed that is
\* a matter of safety.
THEOREM NoneForgotten == Spec => []NobodyForgotten
<1>1. ServerInit => NobodyForgotten
  BY DEF ServerInit, NobodyForgotten, Unused, BothEnds
<1> QED BY <1>1, InitInv, StepInv, KeptStep, PTL DEF Spec
=============================================================================
