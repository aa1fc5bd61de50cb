---------------------------- MODULE RpiClient_proofs ----------------------------
(***************************************************************************)
(* Proofs about RpiClient, for every number of Timer threads, connections, *)
(* other clients and failures.                                             *)
(***************************************************************************)
EXTENDS RpiClient, CaptureServer_proofs

-----------------------------------------------------------------------------
LEMMA ClientInit == Init => ClientTypeOK
BY DEF Init, ClientTypeOK, Steps, Ended

\* A step of the server, of another client or of the collector is none of a thread.
LEMMA OutsideStep ==
  ASSUME ClientTypeOK, Outside, UNCHANGED java
  PROVE  ClientTypeOK'
BY DEF java, fields, locals, ClientTypeOK

LEMMA RunTypes ==
  ASSUME ClientTypeOK, NEW t \in Threads, BeginRun(t) \/ Run(t)
  PROVE  ClientTypeOK'
<1> USE DEF ClientTypeOK, Steps, Ended, At, fields, locals
<1>1. CASE BeginRun(t)
  BY <1>1 DEF BeginRun, NewRun
<1>2. CASE NewSocket(t)
  <2>1. PICK c \in JavaConns : socket' = c /\ own' = [own EXCEPT ![t] = c]
    BY <1>2, ClientAssumption, ServerAssumption DEF NewSocket, Fresh
  <2>2. c # NoConn
    BY ClientAssumption, ServerAssumption
  <2> QED BY <1>2, <2>1, <2>2 DEF NewSocket
<1>3. CASE NewSocketFails(t) \/ StreamThrows(t) \/ ReadGarbled(t) \/ ReadThrows(t)
  BY <1>3 DEF NewSocketFails, StreamThrows, ReadGarbled, ReadThrows, Throws
<1>4. CASE GetOutput(t) \/ GetInput(t)
  BY <1>4 DEF GetOutput, GetInput, IsOpen
<1>5. CASE SendCapture(t) \/ ReadNothing(t) \/ Close(t) \/ SetDevId(t)
  BY <1>5 DEF SendCapture, ReadNothing, Close, SetDevId
<1>6. CASE StartRead(t)
  BY <1>6 DEF StartRead
<1>7. CASE ReadAnswer(t)
  BY <1>7 DEF ReadAnswer, HasAnswer
<1>8. CASE NoData(t) \/ Post(t) \/ PostFails(t)
  BY <1>8 DEF NoData, Post, PostFails, EndRun
<1> QED BY <1>1, <1>2, <1>3, <1>4, <1>5, <1>6, <1>7, <1>8 DEF Run

LEMMA ClientStep ==
  ASSUME ClientTypeOK, [SystemNext]_vars
  PROVE  ClientTypeOK'
<1>1. CASE UNCHANGED vars
  BY <1>1 DEF vars, java, fields, locals, ClientTypeOK
<1> QED BY <1>1, OutsideStep, RunTypes DEF SystemNext

\* However many threads share the fields, no thread uses one before some thread has
\* assigned it, and a thread that waits, waits on a stream.
THEOREM ClientTypes == SystemSpec => []ClientTypeOK
BY ClientInit, ClientStep, PTL DEF SystemSpec

-----------------------------------------------------------------------------
\* What the Java threads do to the server is what any client may do.
LEMMA ThreadIsClient ==
  ASSUME ClientTypeOK, NEW t \in Threads, BeginRun(t) \/ Run(t)
  PROVE  [Next]_svars
<1> USE ClientAssumption DEF ClientTypeOK, At
<1>1. ASSUME NEW c \in JavaConns, Connect(c) \/ Send(c, "capture") \/ TakeAnswer(c)
                                   \/ CloseClient(c)
      PROVE  Next
  BY <1>1 DEF Next, Clients
<1>2. CASE NewSocket(t)
  BY <1>1, <1>2 DEF NewSocket, Fresh
<1>3. CASE SendCapture(t)
  BY <1>1, <1>3 DEF SendCapture, Sends, IsOpen
<1>4. CASE ReadAnswer(t) \/ ReadGarbled(t)
  BY <1>1, <1>4 DEF ReadAnswer, ReadGarbled, IsOpen
<1>5. CASE Close(t)
  <2>1. PICK c \in JavaConns \union {NoConn} : CloseStream(c) /\ UNCHANGED <<server, queue>>
    BY <1>5 DEF Close
  <2>2. CASE IsOpen(c)
    BY <1>1, <2>1, <2>2 DEF CloseStream, CloseClient, IsOpen
  <2>3. CASE ~ IsOpen(c)
    BY <2>1, <2>3 DEF CloseStream, svars
  <2> QED BY <2>2, <2>3
<1>6. CASE \/ BeginRun(t) \/ NewSocketFails(t) \/ GetOutput(t) \/ GetInput(t) \/ StreamThrows(t)
           \/ StartRead(t) \/ ReadNothing(t) \/ ReadThrows(t) \/ SetDevId(t) \/ NoData(t)
           \/ Post(t) \/ PostFails(t)
  BY <1>6 DEF BeginRun, NewSocketFails, GetOutput, GetInput, StreamThrows, StartRead,
              ReadNothing, ReadThrows, SetDevId, NoData, Post, PostFails, EndRun
<1> QED BY <1>2, <1>3, <1>4, <1>5, <1>6 DEF Run

LEMMA SystemIsServer ==
  ASSUME ClientTypeOK, [SystemNext]_vars
  PROVE  [Next]_svars
<1>1. ASSUME Outside PROVE Next
  BY <1>1, ClientAssumption DEF Outside, OtherClients, Collect, Next, Clients
<1>2. CASE UNCHANGED vars
  BY <1>2 DEF vars
<1> QED BY <1>1, <1>2, ThreadIsClient DEF SystemNext

\* The server with the Java client and others is the server with any clients.
THEOREM ServerRefined == SystemSpec => Spec
<1>1. Init => ServerInit
  BY DEF Init
<1> QED BY <1>1, ClientInit, ClientStep, SystemIsServer, PTL DEF SystemSpec, Spec

\* So also to the Java client a capture is never answered from an older one.
THEOREM JavaAnsweredFresh == SystemSpec => []CaptureAnsweredFresh
BY ServerRefined, CapturesFresh, PTL

-----------------------------------------------------------------------------
(***************************************************************************)
(* Runs that overlap, but do not ask at once (OneAsks).  What a run posts  *)
(* is its own because its request goes through the server as if nobody     *)
(* else were there: from unread to obeyed, over a connection that is sent  *)
(* over and read from by nobody else.  Another run may close it, and the   *)
(* request is lost then.                                                   *)
(***************************************************************************)

\* What an older connection left in the buffer is not taken for a new capture.
BufferOld == spc \in {"starting", "accept", "read", "capture", "loop"} => output_buff # "new"

Unread(c) == /\ net[c].inbox \in {<< >>, <<"capture">>}
             /\ net[c].answer = "nothing"
             /\ net[c].server = "open"
             /\ connfd = c => spc \in {"read", "exited"}

Obeyed(c) == /\ net[c].asked = "capture"
             /\ net[c].inbox = << >>
             /\ net[c].server # "open" \/ (connfd = c /\ spc = "close") => net[c].answer = "new"

Unsent(c) == net[c].inbox = << >> /\ net[c].asked = "nothing"

Request(c) == IF net[c].asked = "nothing" THEN Unread(c) ELSE Obeyed(c)

\* What the server does to the request of a connection whose client stays.
LEMMA ServerRequest ==
  ASSUME IInv, NEW c \in Conns, net[c].client = "open", Request(c), ServerStep \/ ServerFails
  PROVE  net'[c].client = "open" /\ Request(c)' /\ (Unsent(c) => Unsent(c)')
<1> USE DEF Request, Unread, Obeyed, Unsent, Goto
<1>0. net[c] \in Ends /\ net \in [Conns -> Ends] /\ NoConn \notin Conns
  BY ServerAssumption DEF IInv, TypeOK, Ends
<1>1. CASE ServerFails
  BY <1>1 DEF ServerFails, StartFails, AcceptFails, LookupFails, ReadFails, WriteFails,
              OpenFails, CaptureDies, Exit
<1>2. CASE Start \/ OpenDevice \/ CaptureEnds
  BY <1>2 DEF Start, OpenDevice, CaptureEnds, IInv, ServingHolds, server
<1>3. CASE Accept
  <2>1. net' = net /\ spc' = "read"
    BY <1>3 DEF Accept
  <2> QED BY <2>1
<1>4. CASE ReadCommand
  <2> DEFINE cmd == CommandOf(net[connfd].inbox)
  <2>1. /\ spc = "read" /\ connfd' = connfd /\ connfd \in Conns
        /\ net' = [net EXCEPT ![connfd].inbox = << >>, ![connfd].asked = cmd]
        /\ spc' = (CASE cmd = "exit" -> "exited"
                     [] cmd = "capture" -> "capture"
                     [] OTHER -> "write")
        /\ net[connfd].inbox # << >> \/ net[connfd].client = "closed"
    BY <1>4 DEF ReadCommand, IInv, ServingHolds, Serving
  <2>2. CASE connfd = c
    <3>1. net[c].inbox = <<"capture">> /\ net[c].asked = "nothing"
      BY <2>1, <2>2
    <3>2. cmd = "capture"
      BY <2>2, <3>1 DEF CommandOf
    <3>3. net'[c] = [net[c] EXCEPT !.inbox = << >>, !.asked = "capture"]
      BY <1>0, <2>1, <2>2, <3>2
    <3> HIDE DEF cmd
    <3>4. /\ net'[c].inbox = << >> /\ net'[c].asked = "capture"
          /\ net'[c].client = net[c].client /\ net'[c].server = net[c].server
      BY <1>0, <3>3 DEF Ends
    <3> QED BY <2>1, <2>2, <3>1, <3>2, <3>4
  <2>3. CASE connfd # c
    <3>1. net'[c] = net[c]
      BY <1>0, <2>1, <2>3
    <3> QED BY <2>1, <2>3, <3>1
  <2> QED BY <2>2, <2>3
<1>5. CASE WriteAnswer
  <2>1. /\ spc = "write" /\ spc' = "close" /\ connfd' = connfd /\ connfd \in Conns
        /\ net' = [net EXCEPT ![connfd].answer = output_buff]
        /\ net[connfd].asked = "capture" => output_buff = "new"
    BY <1>5 DEF WriteAnswer, IInv, ServingHolds, Serving, BufferIsOurs
  <2>2. CASE connfd = c
    <3>1. net'[c] = [net[c] EXCEPT !.answer = output_buff]
      BY <1>0, <2>1, <2>2
    <3>2. /\ net'[c].inbox = net[c].inbox /\ net'[c].asked = net[c].asked
          /\ net'[c].client = net[c].client /\ net'[c].server = net[c].server
          /\ net'[c].answer = output_buff
      BY <1>0, <3>1 DEF Ends
    <3> QED BY <2>1, <2>2, <3>2
  <2>3. CASE connfd # c
    <3>1. net'[c] = net[c]
      BY <1>0, <2>1, <2>3
    <3> QED BY <2>1, <2>3, <3>1
  <2> QED BY <2>2, <2>3
<1>6. CASE CloseConn
  <2>1. /\ spc = "close" /\ spc' = "accept" /\ connfd' = NoConn /\ connfd \in Conns
        /\ net' = [net EXCEPT ![connfd] = IF @.client = "closed" THEN Unused
                                          ELSE [@ EXCEPT !.server = "closed"]]
    BY <1>6 DEF CloseConn, CloseServerEnd, IInv, ServingHolds, Serving
  <2>2. CASE connfd = c
    <3>1. net'[c] = [net[c] EXCEPT !.server = "closed"]
      BY <1>0, <2>1, <2>2
    <3>2. /\ net'[c].inbox = net[c].inbox /\ net'[c].asked = net[c].asked
          /\ net'[c].client = net[c].client /\ net'[c].answer = net[c].answer
      BY <1>0, <3>1 DEF Ends
    <3> QED BY <1>0, <2>1, <2>2, <3>2
  <2>3. CASE connfd # c
    <3>1. net'[c] = net[c]
      BY <1>0, <2>1, <2>3
    <3> QED BY <1>0, <2>1, <2>3, <3>1
  <2> QED BY <2>2, <2>3
<1> QED BY <1>1, <1>2, <1>3, <1>4, <1>5, <1>6 DEF ServerStep

LEMMA ServerOpensNothing ==
  ASSUME IInv, NEW c \in Conns, net[c].client # "open", ServerStep \/ ServerFails
  PROVE  net'[c].client # "open"
<1>1. net \in [Conns -> Ends]
  BY DEF IInv, TypeOK, Ends
<1>2. CASE ReadCommand
  <2> DEFINE cmd == CommandOf(net[connfd].inbox)
  <2>1. net' = [net EXCEPT ![connfd].inbox = << >>, ![connfd].asked = cmd]
    BY <1>2 DEF ReadCommand
  <2> HIDE DEF cmd
  <2>2. net'[c].client = net[c].client
    BY <1>1, <2>1 DEF Ends
  <2> QED BY <2>2
<1>4. CASE WriteAnswer
  <2>1. net'[c].client = net[c].client
    BY <1>1, <1>4 DEF WriteAnswer, Ends
  <2> QED BY <2>1
<1>5. CASE CloseConn
  BY <1>1, <1>5 DEF CloseConn, CloseServerEnd, Unused, BothEnds, Ends
<1>3. CASE Start \/ Accept \/ OpenDevice \/ CaptureEnds \/ ServerFails
  BY <1>3 DEF Start, Accept, OpenDevice, CaptureEnds, ServerFails, StartFails, AcceptFails,
              LookupFails, ReadFails, WriteFails, OpenFails, CaptureDies, Exit
<1> QED BY <1>2, <1>3, <1>4, <1>5 DEF ServerStep

LEMMA BufferStep == ASSUME BufferOld, [Next]_svars PROVE BufferOld'
<1> USE DEF BufferOld, Goto, server
<1>1. CASE Clients \/ UNCHANGED svars
  BY <1>1 DEF Clients, Connect, Send, TakeAnswer, CloseClient, svars
<1>2. CASE ServerFails
  BY <1>2 DEF ServerFails, StartFails, AcceptFails, LookupFails, ReadFails, WriteFails,
              OpenFails, CaptureDies, Exit
<1>3. CASE Start \/ Accept \/ OpenDevice \/ CaptureEnds \/ WriteAnswer \/ CloseConn
  BY <1>3 DEF Start, Accept, OpenDevice, CaptureEnds, Generated, WriteAnswer, CloseConn
<1>4. CASE ReadCommand
  BY <1>4 DEF ReadCommand
<1> QED BY <1>1, <1>2, <1>3, <1>4 DEF Next, ServerStep

-----------------------------------------------------------------------------
(* The thread's part of it.                                                *)

\* The fields a run still needs are what it has assigned: nobody else assigns them while
\* it asks, and the stream it waits on is its own.
OwnFields(t) ==
  /\ tpc[t] \in Waiting => own[t] \in JavaConns
  /\ tpc[t] \in {"output", "send", "input", "read"} => socket = own[t]
  /\ tpc[t] \in {"send", "input", "read"} => out = own[t]
  /\ tpc[t] = "read" => in = own[t]
  /\ tpc[t] = "await" => reading[t] = own[t]

OwnOpen(t) == tpc[t] \in Waiting => net[own[t]].client = "open"

OwnRequest(t) ==
  (tpc[t] \in Waiting /\ net[own[t]].client = "open") =>
    Request(own[t]) /\ (tpc[t] \in {"output", "send"} => Unsent(own[t]))

Leaving == {"closeIn", "closeOut", "setDevId", "post"}

OwnData(t) ==
  /\ tpc[t] \in Waiting \union {"socket"} => data[t] = "null"
  /\ tpc[t] \in Leaving => data[t] = "null" \/ (data[t] = "new" /\ reading[t] = own[t])
  /\ tpc[t] = "post" => data[t] # "null"

OwnRun(t) == OwnFields(t) /\ OwnRequest(t) /\ OwnData(t)

OwnApart == \A t, u \in Threads : own[t] = own[u] /\ own[t] # NoConn => t = u

RunsInv == IInv /\ ClientTypeOK /\ BufferOld /\ OwnApart /\ \A t \in Threads : OwnRun(t)

\* Nothing outside touches the connection of a run that waits.
LEMMA OwnOutside ==
  ASSUME RunsInv, NEW t \in Threads, Outside, UNCHANGED java
  PROVE  OwnRun(t)' /\ (OwnOpen(t) => OwnOpen(t)')
<1> USE ClientAssumption DEF RunsInv, java, fields, locals, OwnOpen
<1>1. OwnFields(t)' /\ OwnData(t)'
  BY DEF OwnRun, OwnFields, OwnData
<1>2. CASE tpc[t] \notin Waiting
  BY <1>1, <1>2 DEF OwnRun, OwnRequest, Waiting
<1>3. CASE tpc[t] \in Waiting
  <2> DEFINE c == own[t]
  <2>1. /\ c \in JavaConns /\ c \in Conns /\ c \in Held /\ net \in [Conns -> Ends]
        /\ net[c].client = "open" => /\ Request(c)
                                     /\ tpc[t] \in {"output", "send"} => Unsent(c)
    BY <1>3 DEF OwnRun, OwnFields, OwnRequest, Held, Waiting, IInv, TypeOK, Ends
  <2>2. CASE ServerStep \/ ServerFails
    <3>1. CASE net[c].client = "open"
      BY <1>1, <2>1, <2>2, <3>1, ServerRequest DEF OwnRun, OwnRequest
    <3>2. CASE net[c].client # "open"
      <4>1. net'[c].client # "open"
        BY <2>1, <2>2, <3>2, ServerOpensNothing
      <4> QED BY <1>1, <1>3, <3>2, <4>1 DEF OwnRun, OwnRequest
    <3> QED BY <3>1, <3>2
  <2>3. ASSUME net'[c] = net[c], UNCHANGED server
        PROVE  OwnRun(t)' /\ (OwnOpen(t) => OwnOpen(t)')
    BY <1>1, <2>1, <2>3 DEF OwnRun, OwnRequest, Request, Unread, Obeyed, Unsent, server
  <2>4. CASE OtherClients
    <3>1. PICK o \in Conns \ JavaConns : \/ Connect(o)
                                         \/ \E cmd \in Commands : Send(o, cmd)
                                         \/ CloseClient(o)
      BY <2>4 DEF OtherClients
    <3>2. o # c /\ net'[c] = net[c] /\ UNCHANGED server
      BY <2>1, <3>1 DEF Connect, Send, CloseClient, CloseEnd
    <3> QED BY <2>3, <3>2
  <2>5. ASSUME NEW o \in JavaConns, Collect(o)
        PROVE  OwnRun(t)' /\ (OwnOpen(t) => OwnOpen(t)')
    <3>1. o # c /\ net'[c] = net[c] /\ UNCHANGED server
      BY <2>1, <2>5 DEF Collect, CloseClient, CloseEnd
    <3> QED BY <2>3, <3>1
  <2> QED BY <2>2, <2>4, <2>5 DEF Outside
<1> QED BY <1>2, <1>3

\* A fresh connection is not one the server holds.
LEMMA FreshRequest ==
  ASSUME RunsInv, NEW c \in Fresh, Connect(c)
  PROVE  net'[c].client = "open" /\ Request(c)' /\ Unsent(c)'
<1>1. c \in Conns /\ net[c].client = "none" /\ connfd # c /\ connfd' = connfd
  <2>1. c \in Conns /\ net[c].client = "none" /\ connfd' = connfd /\ Listening
    BY ClientAssumption DEF Fresh, Connect, server
  <2>2. CASE Serving
    BY <2>1, <2>2 DEF RunsInv, IInv, HeldOpen
  <2>3. CASE ~ Serving
    <3>1. connfd = NoConn
      BY <2>1, <2>3 DEF RunsInv, IInv, TypeOK, ServingHolds, Serving, Listening
    <3> QED BY <2>1, <3>1, ServerAssumption
  <2> QED BY <2>1, <2>2, <2>3
<1>2. net'[c] = BothEnds("open")
  BY <1>1 DEF Connect, RunsInv, IInv, TypeOK
<1> QED BY <1>1, <1>2 DEF BothEnds, Request, Unread, Unsent

LEMMA SentRequest ==
  ASSUME RunsInv, NEW t \in Threads, SendCapture(t)
  PROVE  net'[own[t]].client = "open" /\ Request(own[t])'
<1> DEFINE c == own[t]
<1> USE ClientAssumption DEF RunsInv, Request, Unread, Unsent
<1>1. /\ out = c /\ own' = own /\ c \in Conns /\ net[c].client = "open"
      /\ Request(c) /\ net[c].inbox = << >> /\ net[c].asked = "nothing"
      /\ net[c] \in Ends
  BY DEF SendCapture, At, IsOpen, locals, OwnRun, OwnFields, OwnRequest, Waiting, IInv, TypeOK,
         Ends
<1>2. CASE UNCHANGED svars
  BY <1>1, <1>2 DEF svars, server, Obeyed
<1>3. CASE Send(c, "capture")
  <2>1. net'[c] = [net[c] EXCEPT !.inbox = Append(@, "capture")] /\ UNCHANGED server
    BY <1>1, <1>3 DEF Send, IInv, TypeOK
  <2>2. Append(net[c].inbox, "capture") = <<"capture">>
    BY <1>1
  <2>3. /\ net'[c].inbox = <<"capture">> /\ net'[c].asked = net[c].asked
        /\ net'[c].client = net[c].client /\ net'[c].server = net[c].server
        /\ net'[c].answer = net[c].answer
    BY <1>1, <2>1, <2>2 DEF Ends
  <2> QED BY <1>1, <2>1, <2>3 DEF server
<1> QED BY <1>1, <1>2, <1>3 DEF SendCapture, Sends

\* What a run that waits finds on its stream was captured for it.
LEMMA AnswerNew ==
  ASSUME RunsInv, NEW t \in Threads, tpc[t] = "await", IsOpen(reading[t]),
         HasAnswer(reading[t])
  PROVE  reading[t] = own[t] /\ net[own[t]].answer = "new"
BY ClientAssumption DEF RunsInv, OwnRun, OwnFields, OwnRequest, Waiting, IsOpen, HasAnswer, Request,
   Unread, Obeyed, IInv, CaptureAnsweredFresh

LEMMA OwnStep ==
  ASSUME RunsInv, NEW t \in Threads, BeginRun(t) \/ Run(t)
  PROVE  OwnRun(t)'
<1> USE DEF OwnRun, OwnFields, OwnRequest, OwnData, Waiting, Leaving, At, fields, locals
<1>0. ClientTypeOK /\ OwnRun(t) /\ tpc \in [Threads -> Steps]
        /\ data \in [Threads -> {"null", "old", "new"}]
        /\ own \in [Threads -> JavaConns \union {NoConn}]
        /\ reading \in [Threads -> JavaConns \union {NoConn}]
  BY DEF RunsInv, ClientTypeOK
<1>1. CASE BeginRun(t)
  BY <1>0, <1>1 DEF BeginRun, NewRun
<1>2. CASE NewSocket(t)
  <2>1. PICK c \in Fresh : Connect(c) /\ socket' = c /\ own' = [own EXCEPT ![t] = c]
    BY <1>2 DEF NewSocket
  <2>2. own'[t] = c /\ c \in JavaConns /\ tpc'[t] = "output" /\ tpc[t] = "socket" /\ data' = data
    BY <1>0, <1>2, <2>1 DEF NewSocket, Fresh
  <2> QED BY <1>0, <2>1, <2>2, FreshRequest
<1>3. CASE NewSocketFails(t) \/ StreamThrows(t) \/ ReadGarbled(t) \/ ReadThrows(t)
  <2>1. /\ tpc[t] \in Waiting \union {"socket"} /\ tpc'[t] = "setDevId"
        /\ data' = data
    BY <1>0, <1>3 DEF NewSocketFails, StreamThrows, ReadGarbled, ReadThrows, Throws
  <2> QED BY <1>0, <2>1
<1>4. CASE GetOutput(t) \/ GetInput(t) \/ StartRead(t)
  <2>1. UNCHANGED svars /\ UNCHANGED <<data, own, socket>>
    BY <1>4 DEF GetOutput, GetInput, StartRead
  <2>2. /\ tpc[t] \in {"output", "input", "read"} /\ net' = net
        /\ Request(own[t]) => Request(own[t])'
        /\ Unsent(own[t]) => Unsent(own[t])'
    BY <1>0, <1>4, <2>1 DEF GetOutput, GetInput, StartRead, Request, Unread, Obeyed, Unsent,
                            svars, server
  <2> QED BY <1>0, <1>4, <2>1, <2>2 DEF GetOutput, GetInput, StartRead
<1>5. CASE SendCapture(t)
  <2>1. tpc[t] = "send" /\ tpc'[t] = "input" /\ UNCHANGED <<socket, out, in, reading, data, own>>
    BY <1>0, <1>5 DEF SendCapture
  <2> QED BY <1>0, <1>5, <2>1, SentRequest
<1>6. CASE ReadAnswer(t)
  <2>1. /\ tpc[t] = "await" /\ tpc'[t] = "closeIn" /\ reading' = reading /\ own' = own
        /\ data'[t] = net[reading[t]].answer /\ HasAnswer(reading[t]) /\ IsOpen(reading[t])
    BY <1>0, <1>6 DEF ReadAnswer
  <2> QED BY <2>1, AnswerNew
<1>7. CASE ReadNothing(t) \/ Close(t) \/ SetDevId(t)
  BY <1>0, <1>7 DEF ReadNothing, Close, SetDevId
<1>8. CASE NoData(t) \/ Post(t) \/ PostFails(t)
  BY <1>0, <1>8 DEF NoData, Post, PostFails, EndRun
<1> QED BY <1>1, <1>2, <1>3, <1>4, <1>5, <1>6, <1>7, <1>8 DEF Run

\* A run sends over its own connection and reads from it only, and another that it
\* touches it closes.
LEMMA RunTouches ==
  ASSUME RunsInv, NEW u \in Threads, BeginRun(u) \/ Run(u),
         NEW c \in Conns, c # own[u], c # own'[u]
  PROVE  UNCHANGED server /\ (net'[c].client = "open" => net'[c] = net[c])
<1> USE DEF At
<1>0. /\ net \in [Conns -> Ends] /\ ClientTypeOK /\ OwnRun(u) /\ u \in Threads
  BY DEF RunsInv, IInv, TypeOK, Ends
<1>1. CASE NewSocket(u)
  <2>1. PICK d \in Fresh : Connect(d) /\ own' = [own EXCEPT ![u] = d]
    BY <1>1 DEF NewSocket
  <2>2. own'[u] = d
    BY <1>0, <2>1 DEF ClientTypeOK
  <2> QED BY <1>0, <2>1, <2>2 DEF Connect
<1>2. CASE SendCapture(u)
  <2>1. out = own[u]
    BY <1>0, <1>2 DEF SendCapture, OwnRun, OwnFields
  <2> QED BY <1>0, <1>2, <2>1 DEF SendCapture, Sends, Send, svars
<1>3. CASE ReadAnswer(u) \/ ReadGarbled(u)
  <2>1. reading[u] = own[u]
    BY <1>0, <1>3 DEF ReadAnswer, ReadGarbled, OwnRun, OwnFields
  <2> QED BY <1>0, <1>3, <2>1 DEF ReadAnswer, ReadGarbled, TakeAnswer
<1>4. CASE Close(u)
  <2>1. PICK d : CloseStream(d) /\ UNCHANGED server
    BY <1>4 DEF Close
  <2>2. CASE CloseEnd(d)
    BY <1>0, <2>1, <2>2 DEF CloseEnd, Unused, BothEnds, Ends
  <2> QED BY <2>1, <2>2 DEF CloseStream
<1>5. CASE \/ BeginRun(u) \/ NewSocketFails(u) \/ GetOutput(u) \/ GetInput(u) \/ StreamThrows(u)
           \/ StartRead(u) \/ ReadNothing(u) \/ ReadThrows(u) \/ SetDevId(u) \/ NoData(u)
           \/ Post(u) \/ PostFails(u)
  BY <1>5 DEF BeginRun, NewSocketFails, GetOutput, GetInput, StreamThrows, StartRead,
              ReadNothing, ReadThrows, SetDevId, NoData, Post, PostFails, EndRun, svars
<1> QED BY <1>1, <1>2, <1>3, <1>4, <1>5 DEF Run

\* The fields are assigned by a run that asks, and a run leaves the locals of others alone.
LEMMA RunAssigns ==
  ASSUME ClientTypeOK, NEW u \in Threads, BeginRun(u) \/ Run(u)
  PROVE  /\ tpc[u] \notin Asking => UNCHANGED fields
         /\ \A t \in Threads \ {u} : /\ tpc'[t] = tpc[t] /\ reading'[t] = reading[t]
                                     /\ data'[t] = data[t] /\ own'[t] = own[t]
<1> USE DEF ClientTypeOK, At, fields, locals, Asking
<1>1. CASE BeginRun(u) \/ NewSocket(u) \/ NewSocketFails(u) \/ GetOutput(u) \/ SendCapture(u)
  BY <1>1 DEF BeginRun, NewRun, NewSocket, NewSocketFails, GetOutput, SendCapture, Throws
<1>2. CASE GetInput(u) \/ StreamThrows(u) \/ StartRead(u) \/ ReadAnswer(u) \/ ReadGarbled(u)
  BY <1>2 DEF GetInput, StreamThrows, StartRead, ReadAnswer, ReadGarbled, Throws
<1>3. CASE ReadNothing(u) \/ ReadThrows(u) \/ Close(u) \/ SetDevId(u)
  BY <1>3 DEF ReadNothing, ReadThrows, Close, SetDevId, Throws
<1>4. CASE NoData(u) \/ Post(u) \/ PostFails(u)
  BY <1>4 DEF NoData, Post, PostFails, EndRun
<1> QED BY <1>1, <1>2, <1>3, <1>4 DEF Run

\* A run opens a connection that no run has opened.
LEMMA ApartStep ==
  ASSUME ClientTypeOK, OwnApart, NEW u \in Threads, BeginRun(u) \/ Run(u)
  PROVE  OwnApart'
<1>1. \A t \in Threads \ {u} : own'[t] = own[t]
  BY RunAssigns
<1>2. own'[u] \in {own[u], NoConn} \/ \A t \in Threads : own'[u] # own[t]
  BY DEF Run, BeginRun, NewSocket, Fresh, NewSocketFails, GetOutput, SendCapture, GetInput,
         StreamThrows, StartRead, ReadAnswer, ReadGarbled, ReadNothing, ReadThrows, Close,
         SetDevId, NoData, Post, PostFails, EndRun, Throws, fields, locals, ClientTypeOK
<1> QED BY <1>1, <1>2 DEF OwnApart

\* While another run makes a step.
LEMMA OwnOther ==
  ASSUME RunsInv, OneAsks, NEW u \in Threads, BeginRun(u) \/ Run(u),
         NEW t \in Threads, t # u
  PROVE  OwnRun(t)'
<1>1. /\ ClientTypeOK /\ OwnApart /\ OwnApart' /\ OwnRun(t)
      /\ tpc'[t] = tpc[t] /\ reading'[t] = reading[t] /\ data'[t] = data[t] /\ own'[t] = own[t]
  BY ApartStep, RunAssigns DEF RunsInv
<1>2. OwnFields(t)'
  <2>1. CASE tpc[t] \in Asking
    <3>1. tpc[u] \notin Asking
      BY <2>1 DEF OneAsks
    <3> QED BY <1>1, <3>1, RunAssigns DEF OwnRun, OwnFields, fields
  <2>2. CASE tpc[t] \notin Asking
    BY <1>1, <2>2 DEF OwnRun, OwnFields, Asking
  <2> QED BY <2>1, <2>2
<1>3. OwnData(t)'
  BY <1>1 DEF OwnRun, OwnData
<1>4. ASSUME tpc[t] \in Waiting, net'[own[t]].client = "open"
      PROVE  /\ Request(own[t])'
             /\ tpc[t] \in {"output", "send"} => Unsent(own[t])'
  <2>1. own[t] \in JavaConns /\ own[t] \in Conns /\ own[t] # NoConn
    BY <1>1, <1>4, ClientAssumption, ServerAssumption DEF OwnRun, OwnFields
  <2>2. own[t] # own[u] /\ own[t] # own'[u]
    BY <1>1, <2>1 DEF OwnApart
  <2>3. UNCHANGED server /\ net'[own[t]] = net[own[t]]
    BY <1>4, <2>1, <2>2, RunTouches
  <2> QED BY <1>1, <1>4, <2>3 DEF OwnRun, OwnRequest, Request, Unread, Obeyed, Unsent, server
<1> QED BY <1>1, <1>2, <1>3, <1>4 DEF OwnRun, OwnRequest

LEMMA RunsStep ==
  ASSUME RunsInv, OneAsks, [SystemNext]_vars
  PROVE  RunsInv'
<1>1. IInv' /\ ClientTypeOK' /\ BufferOld'
  BY ClientStep, SystemIsServer, StepInv, BufferStep DEF RunsInv
<1>2. CASE Outside /\ UNCHANGED java
  BY <1>1, <1>2, OwnOutside DEF RunsInv, OwnApart, java, locals
<1>3. ASSUME NEW u \in Threads, BeginRun(u) \/ Run(u) PROVE RunsInv'
  <2>1. OwnApart'
    BY <1>3, ApartStep DEF RunsInv
  <2>2. \A t \in Threads : OwnRun(t)'
    BY <1>3, OwnStep, OwnOther
  <2> QED BY <1>1, <2>1, <2>2 DEF RunsInv
<1>4. CASE UNCHANGED vars
  BY <1>1, <1>4
     DEF RunsInv, OwnApart, OwnRun, OwnFields, OwnRequest, OwnData, Request, Unread, Obeyed,
         Unsent, vars, svars, server, java, fields, locals
<1> QED BY <1>2, <1>3, <1>4 DEF SystemNext

LEMMA RunsInit == Init => RunsInv
<1> SUFFICES ASSUME Init PROVE RunsInv
  OBVIOUS
<1>1. ServerInit /\ BufferOld
  BY DEF Init, ServerInit, BufferOld
<1>2. OwnApart /\ \A t \in Threads : OwnRun(t)
  BY DEF Init, OwnApart, OwnRun, OwnFields, OwnRequest, OwnData, Waiting, Leaving
<1> QED BY <1>1, <1>2, InitInv, ClientInit DEF RunsInv

\* As long as no two runs ask at once, what a run posts was captured for that run, over
\* its own connection, whatever older runs do to the shared fields.
THEOREM OwnCapturePosted == SystemSpec /\ []OneAsks => []PostsOwnCapture
<1>1. RunsInv => PostsOwnCapture
  BY DEF RunsInv, PostsOwnCapture, OwnRun, OwnData, Leaving
<1> QED BY <1>1, RunsInit, RunsStep, PTL DEF SystemSpec

\* So it is with a single Timer thread.
THEOREM AlonePostsOwn == ASSUME NEW t, Threads = {t} PROVE SystemSpec => []PostsOwnCapture
<1>1. OneAsks
  BY DEF OneAsks
<1> QED BY <1>1, OwnCapturePosted, PTL

-----------------------------------------------------------------------------
(* The server is not held.                                                 *)

\* The server has this connection, and nothing has ever been sent over it.
Quiet(c) == /\ net[c].client = "open" /\ net[c].server = "open" /\ spc # "exited"
            /\ net[c].inbox = << >> /\ net[c].asked = "nothing"

Opener(c) == \E t \in Threads : own[t] = c /\ tpc[t] \in {"output", "send"}

\* Who leaves a connection quiet is about to send over it: it does not throw before,
\* and what it sends arrives.
QuietHasOpener == \A c \in JavaConns : Quiet(c) => Opener(c)

\* Neither the server nor another client makes a connection of the Java side quiet.
LEMMA QuietOutside ==
  ASSUME IInv, NEW c \in JavaConns, Outside, Quiet(c)'
  PROVE  Quiet(c)
<1> USE ClientAssumption DEF Goto, Ends
<1>0. c \in Conns /\ net \in [Conns -> Ends]
  BY DEF IInv, TypeOK
<1>1. CASE ServerFails
  BY <1>1 DEF ServerFails, StartFails, AcceptFails, LookupFails, ReadFails, WriteFails,
              OpenFails, CaptureDies, Exit, Quiet
<1>2. CASE Start \/ Accept \/ OpenDevice \/ CaptureEnds
  BY <1>2 DEF Start, Accept, OpenDevice, CaptureEnds, Quiet
<1>3. CASE ReadCommand
  <2> DEFINE cmd == CommandOf(net[connfd].inbox)
  <2>1. connfd \in Conns /\ spc = "read"
          /\ net' = [net EXCEPT ![connfd].inbox = << >>, ![connfd].asked = cmd]
    BY <1>3 DEF ReadCommand, IInv, ServingHolds, Serving
  <2>2. cmd # "nothing"
    BY <1>0, <2>1, ServerAssumption DEF CommandOf
  <2> HIDE DEF cmd
  <2>3. connfd # c
    BY <1>0, <2>1, <2>2 DEF Quiet
  <2> QED BY <1>0, <2>1, <2>3 DEF Quiet
<1>4. CASE WriteAnswer \/ CloseConn
  BY <1>0, <1>4 DEF WriteAnswer, CloseConn, CloseServerEnd, Quiet, Unused, BothEnds
<1>5. CASE OtherClients
  BY <1>0, <1>5 DEF OtherClients, Connect, Send, CloseClient, CloseEnd, Quiet, server
<1>6. ASSUME NEW o \in JavaConns, Collect(o) PROVE Quiet(c)
  BY <1>0, <1>6 DEF Collect, CloseClient, CloseEnd, Quiet, Unused, BothEnds, server
<1> QED BY <1>1, <1>2, <1>3, <1>4, <1>5, <1>6 DEF Outside, ServerStep

\* A run that is about to send leaves its connection quiet only by going on to send.
LEMMA OpenerStep ==
  ASSUME RunsInv, NEW u \in Threads, Run(u), tpc[u] \in {"output", "send"},
         NEW c \in JavaConns, own[u] = c, Quiet(c), Quiet(c)'
  PROVE  own'[u] = c /\ tpc'[u] \in {"output", "send"}
<1> USE DEF At
<1>0. /\ ClientTypeOK /\ OwnRun(u) /\ c \in Conns /\ c # NoConn
      /\ net \in [Conns -> Ends] /\ socket = c /\ (tpc[u] = "send" => out = c)
      /\ IsOpen(c) /\ ~ PeerGone(c)
  BY ClientAssumption, ServerAssumption
     DEF RunsInv, OwnRun, OwnFields, Waiting, IInv, TypeOK, Ends, IsOpen, PeerGone, Quiet
<1>1. CASE GetOutput(u)
  BY <1>0, <1>1 DEF GetOutput, locals, ClientTypeOK
<1>2. CASE SendCapture(u)
  <2>1. Send(c, "capture")
    BY <1>0, <1>2 DEF SendCapture, Sends
  <2>2. net[c].inbox = << >> /\ net'[c].inbox = << >>
    BY DEF Quiet
  <2>3. net'[c].inbox = Append(net[c].inbox, "capture")
    BY <1>0, <2>1 DEF Send, Ends
  <2>4. Append(<< >>, "capture") # << >>
    OBVIOUS
  <2> QED BY <2>2, <2>3, <2>4
<1>3. ~ StreamThrows(u)
  BY <1>0 DEF StreamThrows
<1> QED BY <1>0, <1>1, <1>2, <1>3
        DEF Run, NewSocket, NewSocketFails, GetInput, StartRead, ReadAnswer, ReadGarbled,
            ReadNothing, ReadThrows, Close, SetDevId, NoData, Post, PostFails, EndRun

LEMMA QuietThread ==
  ASSUME RunsInv, QuietHasOpener, NEW u \in Threads, BeginRun(u) \/ Run(u),
         NEW c \in JavaConns, Quiet(c)'
  PROVE  Opener(c)'
<1> USE DEF At
<1>0. /\ ClientTypeOK /\ c \in Conns /\ net \in [Conns -> Ends]
      /\ \A t \in Threads \ {u} : tpc'[t] = tpc[t] /\ own'[t] = own[t]
  BY ClientAssumption, RunAssigns DEF RunsInv, IInv, TypeOK, Ends
<1>1. ASSUME Quiet(c) PROVE Opener(c)'
  <2>1. PICK t \in Threads : own[t] = c /\ tpc[t] \in {"output", "send"}
    BY <1>1 DEF QuietHasOpener, Opener
  <2>2. CASE t # u
    BY <1>0, <2>1, <2>2 DEF Opener
  <2>3. CASE t = u
    <3>1. Run(u)
      BY <2>1, <2>3 DEF BeginRun, Ended
    <3>2. own'[u] = c /\ tpc'[u] \in {"output", "send"}
      BY <1>1, <2>1, <2>3, <3>1, OpenerStep
    <3> QED BY <3>2 DEF Opener
  <2> QED BY <2>2, <2>3
<1>2. CASE NewSocket(u)
  <2>1. PICK d \in Fresh : Connect(d) /\ own' = [own EXCEPT ![u] = d]
    BY <1>2 DEF NewSocket
  <2>2. CASE d = c
    BY <1>0, <1>2, <2>1, <2>2 DEF NewSocket, Opener, ClientTypeOK
  <2>3. CASE d # c
    BY <1>0, <1>1, <2>1, <2>3 DEF Connect, Quiet, server
  <2> QED BY <2>2, <2>3
<1>3. CASE SendCapture(u)
  <2>1. CASE UNCHANGED svars
    BY <1>1, <2>1 DEF Quiet, svars, server
  <2>2. CASE Send(out, "capture")
    BY <1>0, <1>1, <2>2 DEF Send, Quiet, server
  <2> QED BY <1>3, <2>1, <2>2 DEF SendCapture, Sends
<1>4. CASE ReadAnswer(u) \/ ReadGarbled(u)
  <2>1. TakeAnswer(reading[u])
    BY <1>4 DEF ReadAnswer, ReadGarbled
  <2>2. /\ net'[c].client = net[c].client /\ net'[c].server = net[c].server
        /\ net'[c].inbox = net[c].inbox /\ net'[c].asked = net[c].asked /\ spc' = spc
    BY <1>0, <2>1 DEF TakeAnswer, Ends, server
  <2>3. Quiet(c)
    BY <2>2 DEF Quiet
  <2> QED BY <1>1, <2>3
<1>5. CASE Close(u)
  BY <1>0, <1>1, <1>5
     DEF Close, CloseStream, CloseEnd, Quiet, Unused, BothEnds, server, Ends
<1>6. CASE \/ BeginRun(u) \/ NewSocketFails(u) \/ GetOutput(u) \/ GetInput(u) \/ StreamThrows(u)
           \/ StartRead(u) \/ ReadNothing(u) \/ ReadThrows(u) \/ SetDevId(u) \/ NoData(u)
           \/ Post(u) \/ PostFails(u)
  <2>1. UNCHANGED svars
    BY <1>6 DEF BeginRun, NewSocketFails, GetOutput, GetInput, StreamThrows, StartRead,
                ReadNothing, ReadThrows, SetDevId, NoData, Post, PostFails, EndRun
  <2> QED BY <1>1, <2>1 DEF Quiet, svars, server
<1> QED BY <1>2, <1>3, <1>4, <1>5, <1>6 DEF Run

LEMMA QuietStep ==
  ASSUME RunsInv, QuietHasOpener, [SystemNext]_vars
  PROVE  QuietHasOpener'
<1>1. CASE Outside /\ UNCHANGED java
  BY <1>1, QuietOutside DEF RunsInv, QuietHasOpener, Opener, java, locals
<1>2. ASSUME NEW u \in Threads, BeginRun(u) \/ Run(u) PROVE QuietHasOpener'
  BY <1>2, QuietThread DEF QuietHasOpener
<1>3. CASE UNCHANGED vars
  BY <1>3 DEF QuietHasOpener, Quiet, Opener, vars, svars, server, java, locals
<1> QED BY <1>1, <1>2, <1>3 DEF SystemNext

\* As long as no two runs ask at once, the Java side never leaves the server reading from
\* a silent connection, although old runs close streams that are not theirs.
THEOREM NotHeld == SystemSpec /\ []OneAsks => []ServerNotHeld
<1>1. Init => QuietHasOpener
  BY ClientAssumption DEF Init, ServerInit, QuietHasOpener, Quiet, Unused, BothEnds
<1>2. RunsInv /\ QuietHasOpener => ServerNotHeld
  BY ClientAssumption
     DEF RunsInv, QuietHasOpener, Quiet, Opener, ServerNotHeld, IsOpen, IInv, HeldOpen, Serving
<1>3. RunsInv /\ QuietHasOpener /\ [SystemNext]_vars => QuietHasOpener'
  BY QuietStep
<1> QED BY <1>1, <1>2, <1>3, RunsInit, RunsStep, PTL DEF SystemSpec

-----------------------------------------------------------------------------
(* A run implements CaptureCall, also while older runs close what it needs *)

phases == [t \in Threads |-> Phase(t)]
mades == {t \in Threads : CapturedFor(t)}

\* Only the thread t moves, in the abstract call as in the code.
LEMMA MoveOf ==
  ASSUME NEW t \in Threads, NEW from, NEW to,
         \A u \in Threads \ {t} : Phase(u)' = Phase(u) /\ (CapturedFor(u)' <=> CapturedFor(u)),
         Phase(t) = from, Phase(t)' = to, ~ CapturedFor(t)', Listening' <=> Listening
  PROVE  Call!Move(t, from, to)
<1>1. phases[t] = from /\ phases' = [phases EXCEPT ![t] = to]
  BY DEF phases
<1>2. mades' = mades \ {t}
  BY DEF mades
<1> QED BY <1>1, <1>2 DEF Call!Move, phases, mades

LEMMA StutterOf ==
  ASSUME \A u \in Threads : Phase(u)' = Phase(u) /\ (CapturedFor(u)' <=> CapturedFor(u))
  PROVE  phases' = phases /\ mades' = mades
BY DEF phases, mades

\* Nothing outside closes the connection of a run that waits, and nothing opens it again.
LEMMA OpenOutside ==
  ASSUME RunsInv, NEW t \in Threads, tpc[t] \in Waiting, Outside, UNCHANGED java
  PROVE  IsOpen(own[t])' <=> IsOpen(own[t])
<1> DEFINE c == own[t]
<1> USE ClientAssumption DEF java, fields, locals, IsOpen
<1>1. /\ c \in JavaConns /\ c \in Conns /\ c \in Held /\ c # NoConn /\ own' = own
      /\ net \in [Conns -> Ends]
  BY ServerAssumption DEF RunsInv, OwnRun, OwnFields, Held, Waiting, IInv, TypeOK, Ends
<1>2. CASE net[c].client = "open"
  BY <1>1, <1>2, OwnOutside DEF OwnOpen
<1>3. CASE net[c].client # "open"
  <2>1. CASE ServerStep \/ ServerFails
    BY <1>1, <1>3, <2>1, ServerOpensNothing DEF RunsInv
  <2>2. CASE OtherClients
    <3>1. PICK o \in Conns \ JavaConns : \/ Connect(o)
                                         \/ \E cmd \in Commands : Send(o, cmd)
                                         \/ CloseClient(o)
      BY <2>2 DEF OtherClients
    <3>2. net'[c] = net[c]
      BY <1>1, <3>1 DEF Connect, Send, CloseClient, CloseEnd
    <3> QED BY <1>1, <1>3, <3>2
  <2>3. ASSUME NEW o \in JavaConns, Collect(o) PROVE net'[c] = net[c]
    BY <1>1, <2>3 DEF Collect, CloseClient, CloseEnd
  <2> QED BY <1>1, <1>3, <2>1, <2>2, <2>3 DEF Outside
<1> QED BY <1>2, <1>3

\* A step of one run leaves the call of another as it is, unless it closes its connection.
LEMMA OtherSame ==
  ASSUME RunsInv, NEW t \in Threads, BeginRun(t) \/ Run(t), NEW u \in Threads, u # t,
         tpc[u] \in Waiting /\ IsOpen(own[u]) => IsOpen(own[u])'
  PROVE  Phase(u)' = Phase(u) /\ (CapturedFor(u)' <=> CapturedFor(u))
<1>1. tpc'[u] = tpc[u] /\ data'[u] = data[u] /\ own'[u] = own[u]
  BY RunAssigns DEF RunsInv
<1>2. CASE tpc[u] \notin Waiting
  BY <1>1, <1>2 DEF Phase, CapturedFor, Waiting
<1>3. CASE tpc[u] \in Waiting
  <2>1. own[u] \in Conns /\ own[u] # NoConn /\ own[u] # own[t] /\ own[u] # own'[t]
    <3>1. OwnApart' /\ OwnRun(u)
      BY ApartStep DEF RunsInv
    <3> QED BY <1>1, <1>3, <3>1, ClientAssumption, ServerAssumption
            DEF RunsInv, OwnApart, OwnRun, OwnFields
  <2>2. UNCHANGED server /\ (net'[own[u]].client = "open" => net'[own[u]] = net[own[u]])
    BY <2>1, RunTouches
  <2>3. IsOpen(own[u])' <=> IsOpen(own[u])
    BY <1>1, <1>3, <2>1, <2>2 DEF IsOpen
  <2> QED BY <1>1, <1>3, <2>1, <2>2, <2>3 DEF Phase, CapturedFor, Waiting, IsOpen, server
<1> QED BY <1>2, <1>3

\* The connection of a run that waits is closed by another in its closes, and no second
\* one with it.
LEMMA ClosesOne ==
  ASSUME RunsInv, NEW t \in Threads, BeginRun(t) \/ Run(t), NEW u \in Threads, u # t,
         tpc[u] \in Waiting, IsOpen(own[u]), ~ IsOpen(own[u])'
  PROVE  /\ Close(t)
         /\ \A v \in Threads \ {u} : tpc[v] \in Waiting /\ IsOpen(own[v]) => IsOpen(own[v])'
<1>0. /\ net \in [Conns -> Ends] /\ ClientTypeOK /\ OwnRun(t) /\ OwnApart
      /\ own'[u] = own[u] /\ own[u] \in Conns /\ own[u] # NoConn /\ own[u] # own[t]
      /\ net[own[u]].client = "open" /\ net'[own[u]].client # "open"
  BY RunAssigns, ClientAssumption, ServerAssumption
     DEF RunsInv, IInv, TypeOK, Ends, OwnRun, OwnFields, OwnApart, IsOpen
<1>1. Close(t)
  <2> USE DEF At
  <2>1. CASE NewSocket(t)
    BY <1>0, <2>1 DEF NewSocket, Fresh, Connect, BothEnds
  <2>2. CASE SendCapture(t)
    BY <1>0, <2>2 DEF SendCapture, Sends, Send, svars, Ends
  <2>3. CASE ReadAnswer(t) \/ ReadGarbled(t)
    BY <1>0, <2>3 DEF ReadAnswer, ReadGarbled, TakeAnswer, OwnRun, OwnFields
  <2>4. CASE \/ BeginRun(t) \/ NewSocketFails(t) \/ GetOutput(t) \/ GetInput(t)
             \/ StreamThrows(t) \/ StartRead(t) \/ ReadNothing(t) \/ ReadThrows(t)
             \/ SetDevId(t) \/ NoData(t) \/ Post(t) \/ PostFails(t)
    BY <1>0, <2>4 DEF BeginRun, NewSocketFails, GetOutput, GetInput, StreamThrows, StartRead,
                ReadNothing, ReadThrows, SetDevId, NoData, Post, PostFails, EndRun, svars
  <2> QED BY <2>1, <2>2, <2>3, <2>4 DEF Run
<1>2. PICK d : CloseStream(d)
  BY <1>1 DEF Close
<1>3. d = own[u] /\ net' = [net EXCEPT ![d] = IF @.server = "closed" THEN Unused
                                             ELSE [@ EXCEPT !.client = "closed"]]
  BY <1>0, <1>2 DEF CloseStream, CloseEnd
<1>4. own' = own
  BY <1>1 DEF Close, locals
<1> QED BY <1>0, <1>1, <1>3, <1>4 DEF OwnApart, IsOpen

\* The steps of the server and of the others: a capture is made, the server comes or
\* goes, or nobody's call changes.
LEMMA OutsideCall ==
  ASSUME RunsInv, Outside, UNCHANGED java
  PROVE  [Call!Next]_<<phases, mades, Listening>>
<1> USE ClientAssumption DEF RunsInv, java, fields, locals
<1>0. \A u \in Threads : tpc[u] \in Waiting => (IsOpen(own[u])' <=> IsOpen(own[u]))
  BY OpenOutside
<1>1. \A u \in Threads : Phase(u)' = Phase(u)
  BY <1>0 DEF Phase
<1>2. phases' = phases
  BY <1>1 DEF phases
<1>3. ASSUME mades' = mades PROVE [Call!Next]_<<phases, mades, Listening>>
  <2>1. CASE Listening' = Listening
    BY <1>2, <1>3, <2>1
  <2>2. CASE Listening' # Listening
    <3>1. Listening' \in BOOLEAN
      BY DEF Listening
    <3>2. Call!Server
      BY <1>2, <1>3, <2>2, <3>1 DEF Call!Server, phases, mades
    <3> QED BY <3>2 DEF Call!Next
  <2> QED BY <2>1, <2>2
<1>4. CASE CaptureEnds
  <2>1. /\ spc = "loop" /\ spc' = "write" /\ output_buff' = "new"
        /\ UNCHANGED <<connfd, net>>
    BY <1>4 DEF CaptureEnds, Generated, Goto
  <2>2. Listening /\ Listening'
    BY <2>1 DEF Listening
  <2>3. \A u \in Threads : CapturedFor(u) => CapturedFor(u)'
    BY <2>1 DEF CapturedFor, IsOpen
  <2>4. ASSUME NEW t \in Threads, CapturedFor(t)', ~ CapturedFor(t)
        PROVE  Call!Capture(t)
    <3>1. tpc[t] \in Waiting /\ Phase(t) = "waiting"
      BY <1>0, <2>4 DEF CapturedFor, Phase, Waiting
    <3>2. ASSUME NEW u \in Threads, u # t, CapturedFor(u)' PROVE CapturedFor(u)
      <4>1. connfd = own[t] /\ own[t] # NoConn
        BY <2>1, <2>4 DEF CapturedFor, IsOpen
      <4>2. own[u] # own[t]
        BY <3>2, <4>1 DEF OwnApart
      <4> QED BY <2>1, <3>2, <4>1, <4>2 DEF CapturedFor, IsOpen
    <3>3. t \notin mades /\ mades' = mades \union {t} /\ phases[t] = "waiting"
      BY <2>3, <2>4, <3>1, <3>2 DEF mades, phases
    <3> QED BY <1>2, <2>2, <3>3 DEF Call!Capture, phases, mades
  <2> QED BY <1>3, <2>3, <2>4 DEF mades, Call!Next
<1>5. CASE ~ CaptureEnds
  <2> SUFFICES ASSUME NEW t \in Threads PROVE CapturedFor(t)' <=> CapturedFor(t)
    BY <1>3 DEF mades
  <2>1. CASE tpc[t] \notin Waiting \/ ~ IsOpen(own[t])
    BY <1>0, <2>1 DEF CapturedFor
  <2>2. CASE tpc[t] \in Waiting /\ IsOpen(own[t])
    <3> DEFINE c == own[t]
    <3>1. /\ c \in JavaConns /\ c \in Conns /\ c \in Held /\ net[c] \in Ends
          /\ net[c].client = "open" /\ Request(c)
      BY <2>2 DEF IsOpen, OwnRun, OwnFields, OwnRequest, Waiting, Held, IInv, TypeOK, Ends
    <3>2. OwnRun(t)' /\ BufferOld /\ net'[c].client = "open" /\ Request(c)'
      BY <2>2, OwnOutside DEF IsOpen, OwnOpen, OwnRun, OwnRequest
    <3> USE DEF CapturedFor, Goto, IsOpen
    <3>3. CASE ServerFails \/ Start \/ OpenDevice \/ Accept
      BY <1>5, <3>1, <3>2, <3>3
         DEF ServerFails, StartFails, AcceptFails, LookupFails, ReadFails, WriteFails,
             OpenFails, CaptureDies, Exit, Start, OpenDevice, Accept, BufferOld
    <3>4. CASE ReadCommand
      <4>1. /\ net'[c].answer = net[c].answer /\ UNCHANGED <<connfd, output_buff>>
            /\ output_buff # "new"
        BY <3>1, <3>2, <3>4 DEF ReadCommand, IInv, TypeOK, BufferOld, Ends
      <4> QED BY <2>2, <3>2, <4>1
    <3>5. CASE WriteAnswer
      <4>1. CASE connfd = c
        <5>1. net[c].asked = "capture" /\ output_buff = "new"
          BY <3>1, <3>5, <4>1 DEF WriteAnswer, Request, Unread, Obeyed, IInv, BufferIsOurs
        <5>2. net'[c].asked = "capture" /\ UNCHANGED <<connfd, output_buff>>
          BY <3>1, <3>5, <4>1, <5>1 DEF WriteAnswer, IInv, TypeOK, Ends
        <5> QED BY <2>2, <3>2, <4>1, <5>1, <5>2
      <4>2. CASE connfd # c
        <5>1. net'[c] = net[c] /\ connfd' = connfd
          BY <3>1, <3>5, <4>2 DEF WriteAnswer, IInv, TypeOK
        <5> QED BY <4>2, <5>1
      <4> QED BY <4>1, <4>2
    <3>6. CASE CloseConn
      <4>1. net'[c].answer = net[c].answer
        BY <3>1, <3>6 DEF CloseConn, CloseServerEnd, IInv, TypeOK, Ends, Request
      <4>2. connfd' = NoConn /\ c # NoConn
        BY <3>1, <3>6, ServerAssumption DEF CloseConn
      <4>3. connfd = c /\ net[c].asked = "capture" => net[c].answer = "new"
        BY <3>1, <3>6 DEF CloseConn, Request, Obeyed
      <4> QED BY <2>2, <3>2, <4>1, <4>2, <4>3
    <3>7. ASSUME UNCHANGED server, net'[c] = net[c] PROVE CapturedFor(t)' <=> CapturedFor(t)
      BY <3>7 DEF server
    <3>8. CASE OtherClients
      BY <3>1, <3>7, <3>8 DEF OtherClients, Connect, Send, CloseClient, CloseEnd, IInv, TypeOK
    <3>9. ASSUME NEW o \in JavaConns, Collect(o) PROVE CapturedFor(t)' <=> CapturedFor(t)
      BY <3>1, <3>7, <3>9 DEF Collect, CloseClient, CloseEnd, IInv, TypeOK
    <3> QED BY <1>5, <3>3, <3>4, <3>5, <3>6, <3>8, <3>9 DEF Outside, ServerStep
  <2> QED BY <2>1, <2>2
<1> QED BY <1>4, <1>5

\* A step of a thread that closes the connection of another's run disturbs that.
LEMMA DisturbCall ==
  ASSUME RunsInv, NEW t \in Threads, BeginRun(t) \/ Run(t), NEW u \in Threads, u # t,
         tpc[u] \in Waiting, IsOpen(own[u]), ~ IsOpen(own[u])'
  PROVE  Call!Disturb(u)
<1>1. /\ Close(t) /\ ClientTypeOK /\ UNCHANGED server
      /\ \A v \in Threads \ {u} : tpc[v] \in Waiting /\ IsOpen(own[v]) => IsOpen(own[v])'
  BY ClosesOne DEF RunsInv, Close
<1>2. /\ Phase(t)' = Phase(t) /\ Phase(t) \in {"answered", "unanswered"}
      /\ ~ CapturedFor(t) /\ ~ CapturedFor(t)'
  BY <1>1 DEF Close, At, Phase, CapturedFor, Waiting, fields, locals, ClientTypeOK
<1>3. \A v \in Threads \ {u} : Phase(v)' = Phase(v) /\ (CapturedFor(v)' <=> CapturedFor(v))
  BY <1>1, <1>2, OtherSame
<1>4. tpc'[u] = tpc[u]
  BY <1>1, RunAssigns
<1>5. Phase(u) = "waiting" /\ Phase(u)' = "disturbed" /\ ~ CapturedFor(u)'
  BY <1>4 DEF Phase, CapturedFor, Waiting
<1>6. Listening' <=> Listening
  BY <1>1 DEF Listening, server
<1>7. Call!Move(u, "waiting", "disturbed")
  BY <1>3, <1>5, <1>6, MoveOf
<1> QED BY <1>2, <1>7 DEF Call!Disturb

\* A step of a thread that does not: its own call moves, or nothing is seen of it.
LEMMA ThreadCall ==
  ASSUME RunsInv, NEW t \in Threads, BeginRun(t) \/ Run(t),
         \A u \in Threads \ {t} : tpc[u] \in Waiting /\ IsOpen(own[u]) => IsOpen(own[u])'
  PROVE  [Call!Next]_<<phases, mades, Listening>>
<1> USE DEF At, fields, locals, Ended, Waiting
<1>0. /\ ClientTypeOK /\ OwnRun(t) /\ OwnRun(t)' /\ tpc \in [Threads -> Steps]
      /\ data \in [Threads -> {"null", "old", "new"}] /\ t \in Threads
      /\ tpc[t] \in Waiting => own[t] # NoConn
  BY OwnStep, ClientAssumption, ServerAssumption DEF RunsInv, ClientTypeOK, OwnRun, OwnFields
<1>1. \A u \in Threads \ {t} : Phase(u)' = Phase(u) /\ (CapturedFor(u)' <=> CapturedFor(u))
  BY OtherSame
<1>2. Listening' <=> Listening
  BY DEF BeginRun, Run, NewSocket, Connect, NewSocketFails, GetOutput, SendCapture, Sends, Send,
         GetInput, StreamThrows, StartRead, ReadAnswer, TakeAnswer, ReadGarbled, ReadNothing,
         ReadThrows, Close, SetDevId, NoData, Post, PostFails, EndRun, Listening, svars, server
<1>3. ASSUME NEW from, NEW to, Phase(t) = from, Phase(t)' = to, tpc'[t] \notin Waiting
      PROVE  Call!Move(t, from, to)
  BY <1>1, <1>2, <1>3, MoveOf DEF CapturedFor
<1>4. ASSUME Phase(t)' = Phase(t), CapturedFor(t)' <=> CapturedFor(t)
      PROVE  [Call!Next]_<<phases, mades, Listening>>
  <2>1. phases' = phases /\ mades' = mades
    BY <1>1, <1>4, StutterOf
  <2>2. Listening' = Listening
    BY <1>2 DEF Listening
  <2> QED BY <2>1, <2>2
<1>5. ASSUME tpc[t] = "await", IsOpen(own[t]), PeerGone(reading[t]), ~ CapturedFor(t)
      PROVE  ~ Listening
  BY <1>0, <1>5 DEF CapturedFor, IsOpen, PeerGone, Listening, OwnRun, OwnFields, OwnRequest, Request,
                    Unread, Obeyed
<1>6. CASE BeginRun(t)
  <2>1. /\ Phase(t) \in {"none", "reported", "lost"} /\ Phase(t)' = "connecting"
        /\ tpc'[t] \notin Waiting
    BY <1>0, <1>6 DEF BeginRun, Phase
  <2> QED BY <1>3, <2>1 DEF Call!Next, Call!Begin
<1>7. CASE NewSocket(t)
  <2>1. PICK c \in Fresh : Connect(c) /\ own' = [own EXCEPT ![t] = c]
    BY <1>7 DEF NewSocket
  <2>2. /\ own'[t] = c /\ c # NoConn /\ tpc[t] = "socket" /\ tpc'[t] = "output"
        /\ net'[c].client = "open" /\ Listening
    BY <1>0, <1>7, <2>1, FreshRequest, ClientAssumption, ServerAssumption
       DEF NewSocket, Connect, ClientTypeOK, Fresh
  <2>3. ~ CapturedFor(t)'
    BY <2>1, <2>2, FreshRequest DEF CapturedFor, Request, Unread, Unsent
  <2>4. Phase(t) = "connecting" /\ Phase(t)' = "waiting"
    BY <2>2 DEF Phase, IsOpen
  <2>5. Call!Move(t, "connecting", "waiting")
    BY <1>1, <1>2, <2>3, <2>4, MoveOf
  <2> QED BY <2>2, <2>5 DEF Call!Next, Call!Connect
<1>8. CASE NewSocketFails(t)
  <2>1. Phase(t) = "connecting" /\ Phase(t)' = "unanswered" /\ tpc'[t] \notin Waiting
    BY <1>0, <1>8 DEF NewSocketFails, Throws, Phase, OwnRun, OwnData
  <2> QED BY <1>3, <2>1 DEF Call!Next, Call!NoConnection
<1>9. CASE GetOutput(t) \/ GetInput(t) \/ StartRead(t)
  <2>1. tpc[t] \in Waiting /\ tpc'[t] \in Waiting /\ UNCHANGED <<svars, own>>
    BY <1>0, <1>9 DEF GetOutput, GetInput, StartRead
  <2>2. Phase(t)' = Phase(t) /\ (CapturedFor(t)' <=> CapturedFor(t))
    BY <2>1 DEF Phase, CapturedFor, IsOpen, svars, server
  <2> QED BY <1>4, <2>2
<1>10. CASE SendCapture(t)
  <2>1. /\ tpc[t] = "send" /\ tpc'[t] = "input" /\ out = own[t] /\ own' = own
        /\ net[own[t]].client = "open" /\ net'[own[t]].client = "open"
    BY <1>0, <1>10, SentRequest DEF SendCapture, IsOpen, OwnRun, OwnFields
  <2>2. net[own[t]].asked = "nothing" /\ net[own[t]].answer = "nothing"
    BY <1>0, <2>1 DEF OwnRun, OwnRequest, Request, Unread, Unsent
  <2>3. net'[own[t]].answer = net[own[t]].answer /\ net'[own[t]].asked = net[own[t]].asked
    <3>1. net \in [Conns -> Ends] /\ own[t] \in Conns /\ out = own[t]
      BY <1>0, <2>1, ClientAssumption DEF OwnRun, OwnFields, RunsInv, IInv, TypeOK, Ends
    <3>2. CASE UNCHANGED svars
      BY <3>2 DEF svars
    <3>3. CASE Send(out, "capture")
      <4>1. net' = [net EXCEPT ![own[t]].inbox = Append(@, "capture")]
        BY <3>1, <3>3 DEF Send
      <4> QED BY <3>1, <4>1 DEF Ends
    <3> QED BY <1>10, <3>2, <3>3 DEF SendCapture, Sends
  <2>4. ~ CapturedFor(t) /\ ~ CapturedFor(t)'
    BY <2>1, <2>2, <2>3 DEF CapturedFor
  <2>5. Phase(t)' = Phase(t)
    BY <1>0, <2>1 DEF Phase, IsOpen
  <2> QED BY <1>4, <2>4, <2>5
<1>11. CASE StreamThrows(t) \/ ReadGarbled(t) \/ ReadThrows(t)
  <2>1. tpc[t] \in Waiting /\ tpc'[t] = "setDevId" /\ data' = data /\ data[t] = "null"
    BY <1>0, <1>11 DEF StreamThrows, ReadGarbled, ReadThrows, Throws, OwnRun, OwnData
  <2>2. CASE IsOpen(own[t])
    <3>1. Phase(t) = "waiting" /\ Phase(t)' = "unanswered"
      BY <2>1, <2>2 DEF Phase
    <3>2. CapturedFor(t) \/ ~ Listening
      <4>1. CASE StreamThrows(t)
        BY <1>0, <2>2, <4>1
           DEF StreamThrows, IsOpen, PeerGone, Listening, OwnRun, OwnFields, OwnRequest,
               Request, Unread, Unsent, ClientTypeOK
      <4>2. CASE ReadGarbled(t)
        BY <1>0, <2>2, <4>2, AnswerNew DEF ReadGarbled, CapturedFor
      <4>3. CASE ReadThrows(t)
        BY <1>0, <1>5, <2>2, <4>3 DEF ReadThrows, OwnRun, OwnFields
      <4> QED BY <1>11, <4>1, <4>2, <4>3
    <3>3. Call!Move(t, "waiting", "unanswered")
      BY <1>3, <2>1, <3>1
    <3> QED BY <3>2, <3>3 DEF Call!Next, Call!Unanswered
  <2>3. CASE ~ IsOpen(own[t])
    <3>1. Call!Move(t, "disturbed", "unanswered")
      BY <1>3, <2>1, <2>3 DEF Phase
    <3> QED BY <3>1 DEF Call!Next, Call!Notice
  <2> QED BY <2>2, <2>3
<1>12. CASE ReadAnswer(t)
  <2>1. /\ tpc[t] = "await" /\ tpc'[t] = "closeIn" /\ data'[t] = "new" /\ CapturedFor(t)
        /\ IsOpen(own[t])
    BY <1>0, <1>12, AnswerNew DEF ReadAnswer, CapturedFor
  <2>2. Call!Move(t, "waiting", "answered")
    BY <1>3, <2>1 DEF Phase
  <2> QED BY <2>1, <2>2 DEF Call!Next, Call!Answered
<1>13. CASE ReadNothing(t)
  <2>1. tpc[t] = "await" /\ tpc'[t] = "closeIn" /\ data'[t] = "null" /\ PeerGone(reading[t])
        /\ IsOpen(own[t])
    BY <1>0, <1>13 DEF ReadNothing, AtEnd, OwnRun, OwnData, OwnFields
  <2>2. Call!Move(t, "waiting", "unanswered")
    BY <1>3, <2>1 DEF Phase
  <2> QED BY <1>5, <2>1, <2>2 DEF Call!Next, Call!Unanswered
<1>14. CASE Close(t) \/ SetDevId(t)
  <2>1. Phase(t)' = Phase(t) /\ ~ CapturedFor(t) /\ ~ CapturedFor(t)'
    BY <1>0, <1>14 DEF Close, SetDevId, Phase, CapturedFor
  <2> QED BY <1>4, <2>1
<1>15. CASE NoData(t) \/ PostFails(t)
  <2>1. /\ Phase(t) \in {"answered", "unanswered"} /\ Phase(t)' = "lost"
        /\ tpc'[t] \notin Waiting
    BY <1>0, <1>15 DEF NoData, PostFails, EndRun, Phase
  <2> QED BY <1>3, <2>1 DEF Call!Next, Call!End
<1>16. CASE Post(t)
  <2>1. Phase(t) = "answered" /\ Phase(t)' = "reported" /\ tpc'[t] \notin Waiting
    BY <1>0, <1>16 DEF Post, EndRun, Phase, OwnRun, OwnData, Leaving
  <2> QED BY <1>3, <2>1 DEF Call!Next, Call!End
<1> QED BY <1>6, <1>7, <1>8, <1>9, <1>10, <1>11, <1>12, <1>13, <1>14, <1>15, <1>16 DEF Run

LEMMA CallStep ==
  ASSUME RunsInv, [SystemNext]_vars
  PROVE  [Call!Next]_<<phases, mades, Listening>>
<1>1. CASE UNCHANGED vars
  BY <1>1 DEF vars, svars, server, java, locals, phases, mades, Phase, CapturedFor, IsOpen,
              Listening
<1>2. ASSUME NEW t \in Threads, BeginRun(t) \/ Run(t)
      PROVE  [Call!Next]_<<phases, mades, Listening>>
  BY <1>2, DisturbCall, ThreadCall DEF Call!Next
<1> QED BY <1>1, <1>2, OutsideCall DEF SystemNext

\* As long as no two runs ask at once, and however many older ones still wait, close or
\* post, every run implements CaptureCall: once connected it gives up without an answer
\* only if there was one it could not read, the server has ended, or an older run has
\* closed its connection.
THEOREM CallImplemented == SystemSpec /\ []OneAsks => ImplementsCall
<1>1. Init => Call!Init
  BY DEF Init, ServerInit, Call!Init, Phase, CapturedFor, Listening, Waiting
<1>2. RunsInv /\ [SystemNext]_vars => [Call!Next]_<<phases, mades, Listening>>
  BY CallStep
<1> QED BY <1>1, <1>2, RunsInit, RunsStep, PTL
        DEF SystemSpec, ImplementsCall, Call!Spec, phases, mades
=============================================================================
