----------------------- MODULE WebSocketSession_proofs -----------------------
(***************************************************************************)
(* Proofs of the safety properties of WebSocketSession, for any sets of    *)
(* node ids, pings and jobs, any capacity of the channels and any number   *)
(* of messages.                                                            *)
(***************************************************************************)
EXTENDS WebSocketSession, SequenceTheorems, TLAPS

USE DEF TransportAssumption, ClientAssumption

(***************************************************************************)
(* Types.                                                                  *)
(***************************************************************************)
TypeInv == TypeOK /\ InHand

(* What a goroutine has in hand is the one item of a sequence.             *)
LEMMA HeadOfOne == \A m : Head(<<m>>) = m
  OBVIOUS

(* The reader keeps the types.                                             *)
LEMMA ReaderTypes ==
    ASSUME TypeInv, Reader
    PROVE  TypeInv'
  <1> USE DEF TypeInv, TypeOK
  <1>1. UNCHANGED <<serviceVars, reactorVars>>
    BY DEF Reader
  <1>2. ServiceTypeOK' /\ ReactorTypeOK'
    BY <1>1 DEF serviceVars, reactorVars, ServiceTypeOK, ReactorTypeOK
  <1>3. /\ Handshaking' => \E m \in HiMsg : current' = <<m>>
        /\ reactor' = "answer" =>
              \E m \in PayloadMsg : m.inResponseTo \in PingId /\ current' = <<m>>
    BY <1>1 DEF reactorVars, InHand, Handshaking
  <1>4. ASSUME NEW m \in Message, ReaderMessage(m) PROVE TypeInv'
    <2>1. <<m>> \in Seq(Message)
      OBVIOUS
    <2>2. his' \in 0 .. MaxHi /\ received' \in 0 .. MaxIncoming
      BY <1>4, ClientAssumption DEF ReaderMessage, ClientTypeOK
    <2>3. ClientTypeOK' /\ TransportTypeOK'
      BY <1>4, <2>1, <2>2 DEF ReaderMessage, ClientTypeOK, TransportTypeOK, transportVars, writerVars
    <2>4. InHand'
      BY <1>3, <1>4 DEF ReaderMessage, InHand
    <2> QED
      BY <1>2, <2>3, <2>4
  <1>5. CASE ReaderPass
    <2>1. PICK m \in Message : holding = <<m>>
      BY <1>5 DEF ReaderPass, InHand
    <2>2. recv' = Append(recv, m)
      BY <1>5, <2>1 DEF ReaderPass
    <2>3. recv' \in Seq(Message) /\ Len(recv') <= BufferedChannelSize
      BY <1>5, <2>2, TransportAssumption DEF ReaderPass, Room, TransportTypeOK
    <2>4. TransportTypeOK'
      BY <1>5, <2>3 DEF ReaderPass, TransportTypeOK
    <2>5. ClientTypeOK' /\ InHand'
      BY <1>3, <1>5 DEF ReaderPass, ClientTypeOK, writerVars, InHand
    <2> QED
      BY <1>2, <2>4, <2>5
  <1>6. CASE ReaderExit
    BY <1>2, <1>3, <1>6 DEF ReaderExit, ClientTypeOK, TransportTypeOK, writerVars, InHand
  <1> QED
    BY <1>4, <1>5, <1>6 DEF Reader, ClientReader, ReaderError, ReaderDone

(* The writer keeps the types, and so does the send on the error channel.  *)
LEMMA WriterTypes ==
    ASSUME TypeInv, Writer \/ ErrorChannel
    PROVE  TypeInv'
  <1> USE DEF TypeInv, TypeOK
  <1>1. UNCHANGED <<serviceVars, readerVars, handlerNode, registered>>
    BY DEF Writer, ErrorChannel, ClientWriter, reactorVars, WriterDone, WriterControl,
           WriterSend, WriterPingFails, WriterExit, MessageGetsOut, MessageIsLost
  <1>2. ServiceTypeOK'
    BY <1>1 DEF serviceVars, ServiceTypeOK
  <1>3. ReactorTypeOK' /\ InHand'
    <2>1. CASE UNCHANGED reactorVars
      BY <1>1, <2>1 DEF ReactorTypeOK, InHand, Handshaking, reactorVars, readerVars
    <2>2. CASE Return
      BY <1>1, <2>2 DEF ReactorTypeOK, InHand, Handshaking, Return, readerVars
    <2> QED
      BY <2>1, <2>2 DEF Writer, ErrorChannel
  <1>4. /\ writer' \in {"select", "failing", "exit"} /\ socket' \in {"open", "closed"}
        /\ ctxDone' = ctxDone /\ recv' = recv
    BY DEF Writer, ErrorChannel, ClientWriter, WriterDone, WriterControl, WriterSend,
           WriterPingFails, WriterExit, MessageGetsOut, MessageIsLost,
           ClientTypeOK, TransportTypeOK
  <1>5. /\ control' \in Seq(PingId \cup {Hi}) /\ Len(control') <= BufferedChannelSize
        /\ controlOut' \in Seq(PingId \cup {Hi})
    <2>1. CASE UNCHANGED <<control, controlOut>>
      BY <2>1 DEF TransportTypeOK, ClientTypeOK
    <2>2. CASE WriterControl
      <3>1. /\ Head(control) \in PingId \cup {Hi} /\ Tail(control) \in Seq(PingId \cup {Hi})
            /\ Len(Tail(control)) <= BufferedChannelSize
        BY <2>2, TransportAssumption, HeadTailProperties DEF WriterControl, TransportTypeOK
      <3>2. Append(controlOut, Head(control)) \in Seq(PingId \cup {Hi})
        BY <3>1, AppendProperties DEF ClientTypeOK
      <3>3. control' = Tail(control) /\ controlOut' \in {controlOut, Append(controlOut, Head(control))}
        BY <2>2 DEF WriterControl
      <3> QED
        BY <3>1, <3>2, <3>3, Zenon DEF ClientTypeOK
    <2> QED
      BY <2>1, <2>2 DEF Writer, ErrorChannel, ClientWriter, WriterDone, WriterSend, WriterPingFails
  <1>6. /\ send' \in Seq(JobId) /\ Len(send') <= BufferedChannelSize
        /\ sendOut' \in Seq(JobId)
    <2>1. CASE UNCHANGED <<send, sendOut>>
      BY <2>1 DEF TransportTypeOK, ClientTypeOK
    <2>2. CASE WriterSend
      <3>1. /\ Head(send) \in JobId /\ Tail(send) \in Seq(JobId)
            /\ Len(Tail(send)) <= BufferedChannelSize
        BY <2>2, TransportAssumption, HeadTailProperties DEF WriterSend, TransportTypeOK
      <3>2. Append(sendOut, Head(send)) \in Seq(JobId)
        BY <3>1, AppendProperties DEF ClientTypeOK
      <3>3. send' = Tail(send) /\ sendOut' \in {sendOut, Append(sendOut, Head(send))}
        BY <2>2 DEF WriterSend
      <3> QED
        BY <3>1, <3>2, <3>3, Zenon DEF ClientTypeOK
    <2> QED
      BY <2>1, <2>2 DEF Writer, ErrorChannel, ClientWriter, WriterDone, WriterControl, WriterPingFails
  <1>7. TransportTypeOK' /\ ClientTypeOK'
    BY <1>1, <1>4, <1>5, <1>6 DEF TransportTypeOK, ClientTypeOK, readerVars
  <1> QED
    BY <1>2, <1>3, <1>7

(* The reactor keeps the types: it hands over what it took from Recv.      *)
LEMMA ReactorTypes ==
    ASSUME TypeInv, Reactor
    PROVE  TypeInv'
  <1> USE DEF TypeInv, TypeOK
  <1>1. UNCHANGED clientVars
    BY DEF Reactor
  <1>2. ClientTypeOK'
    BY <1>1 DEF clientVars, ClientTypeOK
  <1>3. /\ reader' = "recv" => \E m \in Message : holding' = <<m>>
        /\ reader' # "recv" => holding' = <<>>
    BY <1>1 DEF clientVars, InHand
  <1>4. ASSUME UNCHANGED transportVars PROVE TransportTypeOK'
    BY <1>4 DEF transportVars, TransportTypeOK
  <1>5. ASSUME UNCHANGED serviceVars PROVE ServiceTypeOK'
    BY <1>5 DEF serviceVars, ServiceTypeOK
  <1>6. CASE ReactorDone
    BY <1>2, <1>3, <1>4, <1>5, <1>6 DEF ReactorDone, ReactorTypeOK, InHand, Handshaking
  <1>7. CASE ReactorTake
    <2> DEFINE m == Head(recv)
    <2>1. m \in Message /\ recv' \in Seq(Message) /\ Len(recv') <= BufferedChannelSize
      BY <1>7, TransportAssumption, HeadTailProperties DEF ReactorTake, TransportTypeOK
    <2>2. TransportTypeOK'
      BY <1>7, <2>1 DEF ReactorTake, TransportTypeOK
    <2>3. m.type = "hi" => m \in HiMsg
      BY <2>1 DEF Message, HiMsg, PayloadMsg, RouteMsg
    <2>4. m.type = "payload" => m \in PayloadMsg
      BY <2>1 DEF Message, HiMsg, PayloadMsg, RouteMsg
    <2>5. CASE UNCHANGED <<reactor, current, serviceVars>>
      BY <1>2, <1>3, <1>5, <1>7, <2>2, <2>5 DEF ReactorTake, ReactorTypeOK, InHand, Handshaking
    <2>6. CASE m.type = "hi" /\ reactor' = "hello" /\ current' = <<m>> /\ UNCHANGED serviceVars
      <3>1. ReactorTypeOK'
        BY <1>7, <2>1, <2>6 DEF ReactorTake, ReactorTypeOK
      <3>2. InHand'
        BY <1>3, <2>3, <2>6 DEF InHand, Handshaking
      <3> QED
        BY <1>2, <1>5, <2>2, <2>6, <3>1, <3>2
    <2>7. CASE /\ m.type = "payload" /\ HasWaiter(handlerNode, m)
               /\ reactor' = "answer" /\ current' = <<m>> /\ UNCHANGED serviceVars
      <3>1. ReactorTypeOK'
        BY <1>7, <2>1, <2>7 DEF ReactorTake, ReactorTypeOK
      <3>2. m.inResponseTo \in PingId
        BY <2>7 DEF HasWaiter, ServiceTypeOK
      <3>3. InHand'
        BY <1>3, <2>4, <2>7, <3>2 DEF InHand, Handshaking
      <3> QED
        BY <1>2, <1>5, <2>2, <2>7, <3>1, <3>3
    <2>8. CASE /\ m.type = "payload" /\ ~Discarded(m)
               /\ DispatchToKafka(m) /\ UNCHANGED <<reactor, current>>
      <3>1. m.inResponseTo \in PingId \cup JobId
        BY <2>4, <2>8 DEF Discarded, PayloadMsg
      <3>2. ServiceTypeOK'
        BY <2>8, <3>1 DEF DispatchToKafka, ServiceTypeOK, pingVars, jobVars
      <3>3. ReactorTypeOK' /\ InHand'
        BY <1>3, <1>7, <2>8 DEF ReactorTake, ReactorTypeOK, InHand, Handshaking
      <3> QED
        BY <1>2, <2>2, <3>2, <3>3
    <2> QED
      BY <1>7, <2>5, <2>6, <2>7, <2>8 DEF ReactorTake
  <1>8. CASE HandshakeReply
    <2>1. control' \in Seq(PingId \cup {Hi}) /\ Len(control') <= BufferedChannelSize
      BY <1>8, TransportAssumption, AppendProperties DEF HandshakeReply, Room, TransportTypeOK
    <2> QED
      BY <1>2, <1>3, <1>5, <1>8, <2>1
      DEF HandshakeReply, TransportTypeOK, ReactorTypeOK, InHand, Handshaking
  <1>9. CASE HandshakeGivesUp
    BY <1>2, <1>3, <1>4, <1>5, <1>9
    DEF HandshakeGivesUp, Return, ReactorTypeOK, InHand, Handshaking
  <1>10. CASE HandshakeRegister
    <2>1. Head(current).node \in Node
      BY <1>10 DEF HandshakeRegister, InHand, Handshaking, HiMsg
    <2> QED
      BY <1>2, <1>3, <1>4, <1>5, <1>10, <2>1
      DEF HandshakeRegister, Return, ReactorTypeOK, InHand, Handshaking
  <1>11. CASE HandshakeRejected
    BY <1>2, <1>3, <1>4, <1>5, <1>11
    DEF HandshakeRejected, ReactorTypeOK, InHand, Handshaking
  <1> QED
    BY <1>6, <1>7, <1>8, <1>9, <1>10, <1>11 DEF Reactor, ReactorStep

(* The calls of the API keep the types.                                    *)
LEMMA CallTypes ==
    ASSUME TypeInv,
           \/ \E i \in PingId : PingCall(i)
           \/ \E j \in JobId : JobCall(j)
           \/ \E i \in PingId \cup JobId : Kafka(i)
    PROVE  TypeInv'
  <1> USE DEF TypeInv, TypeOK
  <1>1. UNCHANGED <<clientVars, reactorVars>>
    BY DEF PingCall, JobCall, Kafka
  <1>2. ClientTypeOK' /\ ReactorTypeOK' /\ InHand'
    BY <1>1 DEF clientVars, reactorVars, ClientTypeOK, ReactorTypeOK, InHand, Handshaking
  <1>3. ASSUME UNCHANGED transportVars PROVE TransportTypeOK'
    BY <1>3 DEF transportVars, TransportTypeOK
  <1>4. ASSUME NEW i \in PingId, PingCall(i) PROVE TypeInv'
    <2>1. Callable \subseteq Node
      BY DEF Callable, ReactorTypeOK
    <2>2. ASSUME NEW n \in Callable, PingStart(i, n) PROVE TypeInv'
      BY <1>2, <1>3, <2>1, <2>2
      DEF PingStart, PingGoto, ServiceTypeOK, jobVars, kafkaVars
    <2>3. CASE PingSend(i)
      <3>1. control' \in Seq(PingId \cup {Hi}) /\ Len(control') <= BufferedChannelSize
        BY <2>3, TransportAssumption, AppendProperties DEF PingSend, Room, TransportTypeOK
      <3> QED
        BY <1>2, <2>3, <3>1, Zenon
        DEF PingSend, PingGoto, TransportTypeOK, ServiceTypeOK, jobVars, kafkaVars
    <2>4. CASE PingGivesUp(i)
      BY <1>2, <1>3, <2>4 DEF PingGivesUp, PingGoto, ServiceTypeOK, jobVars, kafkaVars
    <2>5. CASE PingReturn(i)
      BY <1>2, <1>3, <2>5 DEF PingReturn, PingGoto, ServiceTypeOK, jobVars, kafkaVars
    <2> QED
      BY <1>4, <2>2, <2>3, <2>4, <2>5 DEF PingCall
  <1>5. ASSUME NEW j \in JobId, JobCall(j) PROVE TypeInv'
    <2>1. CASE JobStart(j)
      BY <1>2, <1>3, <2>1 DEF JobStart, ServiceTypeOK, pingVars, kafkaVars
    <2>2. CASE JobSend(j)
      <3>1. /\ send' \in Seq(JobId) /\ Len(send') <= BufferedChannelSize
            /\ accepted' \in Seq(JobId)
        BY <2>2, TransportAssumption, AppendProperties
        DEF JobSend, Room, TransportTypeOK, ServiceTypeOK
      <3> QED
        BY <1>2, <2>2, <3>1 DEF JobSend, TransportTypeOK, ServiceTypeOK, pingVars, kafkaVars
    <2>3. CASE JobGivesUp(j)
      BY <1>2, <1>3, <2>3 DEF JobGivesUp, ServiceTypeOK, pingVars, kafkaVars
    <2> QED
      BY <1>5, <2>1, <2>2, <2>3 DEF JobCall
  <1>6. ASSUME NEW i \in PingId \cup JobId, Kafka(i) PROVE TypeInv'
    BY <1>2, <1>3, <1>6 DEF Kafka, KafkaWrite, ServiceTypeOK, pingVars, jobVars
  <1> QED
    BY <1>4, <1>5, <1>6

(* When DispatchResponse panics, everything in the process ends.           *)
LEMMA PanicEnds ==
    ASSUME TypeInv, DispatchPanics
    PROVE  /\ reactor' = "crashed" /\ reader' = "exit" /\ writer' = "exit"
           /\ ctxDone' = TRUE /\ socket' = "closed"
           /\ holding' = <<>> /\ recv' = <<>> /\ control' = <<>> /\ send' = <<>>
           /\ dispatchTable' = {} /\ toKafka' = {}
           /\ ping' \in [PingId -> {"idle", "done"}]
           /\ \A i \in PingId : ping'[i] = "idle" <=> ping[i] = "idle"
           /\ job' \in [JobId -> {"idle", "send", "accepted", "failed"}]
           /\ UNCHANGED <<controlOut, sendOut, received, his, pingNode, accepted,
                          published, current, handlerNode, registered>>
           /\ reactor = "select"
  <1>1. /\ ping' = [i \in PingId |-> IF ping[i] = "idle" THEN "idle" ELSE "done"]
        /\ job' = [j \in JobId |-> IF job[j] = "send" THEN "failed" ELSE job[j]]
    BY Zenon DEF DispatchPanics
  <1>2. job \in [JobId -> {"idle", "send", "accepted", "failed"}]
    BY Zenon DEF TypeInv, TypeOK, ServiceTypeOK
  <1>3. /\ ping' \in [PingId -> {"idle", "done"}]
        /\ \A i \in PingId : ping'[i] = "idle" <=> ping[i] = "idle"
        /\ job' \in [JobId -> {"idle", "send", "accepted", "failed"}]
    BY <1>1, <1>2
  <1> QED
    BY <1>3, Zenon DEF DispatchPanics

(* It keeps the types.                                                     *)
LEMMA PanicTypes ==
    ASSUME TypeInv, DispatchPanics
    PROVE  TypeInv'
  <1> USE DEF TypeInv, TypeOK
  <1>1. /\ <<>> \in Seq(Message) /\ <<>> \in Seq(PingId \cup {Hi}) /\ <<>> \in Seq(JobId)
        /\ Len(<<>>) <= BufferedChannelSize
    <2>1. Len(<<>>) = 0 /\ 0 <= BufferedChannelSize
      BY EmptySeq, TransportAssumption
    <2>2. /\ <<>> \in Seq(Message) /\ <<>> \in Seq(PingId \cup {Hi}) /\ <<>> \in Seq(JobId)
      BY EmptySeq
    <2> QED
      BY <2>1, <2>2
  <1>2. TransportTypeOK'
    BY <1>1, PanicEnds, Zenon DEF TransportTypeOK
  <1>3. ClientTypeOK'
    BY <1>1, PanicEnds, Zenon DEF ClientTypeOK
  <1>4. ServiceTypeOK'
    <2>1. ping' \in [PingId -> {"idle", "send", "wait", "answered", "failed", "done"}]
      BY PanicEnds
    <2>2. /\ dispatchTable' = {} /\ toKafka' = {}
          /\ job' \in [JobId -> {"idle", "send", "accepted", "failed"}]
          /\ UNCHANGED <<pingNode, accepted, published>>
      BY PanicEnds, Zenon
    <2> QED
      BY <2>1, <2>2, Zenon DEF ServiceTypeOK
  <1>5. ReactorTypeOK'
    BY PanicEnds, Zenon DEF ReactorTypeOK
  <1>6. InHand'
    BY PanicEnds, Zenon DEF InHand, Handshaking
  <1> QED
    BY <1>2, <1>3, <1>4, <1>5, <1>6, Zenon

(***************************************************************************)
(* The types of the session are right, no channel holds more than its      *)
(* capacity, and the message a goroutine handles is of the kind its place  *)
(* calls for.                                                              *)
(***************************************************************************)
THEOREM SessionTypeInvariance == Spec => []TypeInv
  <1>1. Init => TypeInv
    <2> SUFFICES ASSUME Init PROVE TypeInv
      OBVIOUS
    <2>1. TransportTypeOK
      <3>1. Len(<<>>) = 0
        BY EmptySeq
      <3>2. /\ <<>> \in Seq(Message) /\ <<>> \in Seq(PingId \cup {Hi}) /\ <<>> \in Seq(JobId)
        BY EmptySeq
      <3>3. 0 <= BufferedChannelSize
        BY TransportAssumption
      <3>4. recv = <<>> /\ control = <<>> /\ send = <<>> /\ ctxDone = FALSE /\ socket = "open"
        BY DEF Init, TransportInit
      <3>5. ctxDone \in BOOLEAN
        BY <3>4, Zenon
      <3>6. Len(<<>>) <= BufferedChannelSize
        BY <3>1, <3>3
      <3> QED
        BY <3>2, <3>4, <3>5, <3>6, Zenon DEF TransportTypeOK
    <2>2. ClientTypeOK
      BY ClientAssumption DEF Init, ClientInit, ClientTypeOK
    <2>3. ServiceTypeOK
      BY DEF Init, ServiceInit, ServiceTypeOK
    <2>4. ReactorTypeOK /\ InHand
      BY DEF Init, ClientInit, ReactorInit, ReactorTypeOK, InHand, Handshaking
    <2> QED
      BY <2>1, <2>2, <2>3, <2>4 DEF TypeInv, TypeOK
  <1>2. TypeInv /\ [Next]_vars => TypeInv'
    <2> SUFFICES ASSUME TypeInv, [Next]_vars PROVE TypeInv'
      OBVIOUS
    <2>1. CASE Peer
      BY <2>1, SMTT(30) DEF Peer, PeerCloses, TypeInv, TypeOK, InHand, Handshaking, TransportTypeOK,
                  ClientTypeOK, ServiceTypeOK, ReactorTypeOK, clientVars, serviceVars, reactorVars
    <2>2. CASE CloseCall
      BY <2>2, SMTT(30) DEF CloseCall, Cancel, TypeInv, TypeOK, InHand, Handshaking, TransportTypeOK,
                  ClientTypeOK, ServiceTypeOK, ReactorTypeOK, clientVars, serviceVars, reactorVars
    <2>3. CASE ResponseChannel
      <3>1. Head(current).inResponseTo \in PingId
        BY <2>3 DEF ResponseChannel, TypeInv, InHand
      <3> QED
        BY <2>3, <3>1, SMTT(30)
        DEF ResponseChannel, PingGoto, Return, TypeInv, TypeOK, InHand, Handshaking,
            TransportTypeOK, ClientTypeOK, ServiceTypeOK, ReactorTypeOK, transportVars,
            clientVars, jobVars, kafkaVars
    <2>4. CASE UNCHANGED vars
      BY <2>4, SMTT(30) DEF vars, TypeInv, TypeOK, InHand, Handshaking, TransportTypeOK, ClientTypeOK,
                  ServiceTypeOK, ReactorTypeOK, transportVars, clientVars, serviceVars, reactorVars
    <2> QED
      BY <2>1, <2>2, <2>3, <2>4, ReaderTypes, WriterTypes, ReactorTypes, CallTypes, PanicTypes DEF Next
  <1> QED
    BY <1>1, <1>2, PTL DEF Spec

(* The type invariant the runs check.                                      *)
THEOREM SessionTypeCorrect == Spec => []TypeOK
  BY SessionTypeInvariance, PTL DEF TypeInv

-----------------------------------------------------------------------------
(***************************************************************************)
(* Jobs.                                                                   *)
(***************************************************************************)
\* JobsAreWrittenInOrder, element by element.
JobsInv ==
    /\ Len(sendOut) <= Len(accepted)
    /\ \A n \in 1 .. Len(sendOut) : sendOut[n] = accepted[n]
    /\ writer = "select" =>
          /\ Len(accepted) = Len(sendOut) + Len(send)
          /\ \A n \in 1 .. Len(send) : accepted[Len(sendOut) + n] = send[n]

(* A step that leaves the three sequences alone, and does not revive the   *)
(* writer, keeps the order of the jobs.                                    *)
LEMMA JobsUntouched ==
    ASSUME JobsInv, UNCHANGED <<send, sendOut, accepted>>,
           writer' = "select" => writer = "select"
    PROVE  JobsInv'
  BY DEF JobsInv

(* The writer takes the oldest job queued, and SendMessage adds the newest.*)
LEMMA JobsStep ==
    ASSUME TypeInv, JobsInv, [Next]_vars
    PROVE  JobsInv'
  <1>1. /\ send \in Seq(JobId) /\ sendOut \in Seq(JobId) /\ accepted \in Seq(JobId)
        /\ Len(send) \in Nat /\ Len(sendOut) \in Nat /\ Len(accepted) \in Nat
    BY LenProperties DEF TypeInv, TypeOK, TransportTypeOK, ClientTypeOK, ServiceTypeOK
  <1>2. CASE WriterSend /\ UNCHANGED serviceVars
    <2>1. /\ Head(send) \in JobId /\ Head(send) = send[1]
          /\ Len(send') = Len(send) - 1
          /\ \A n \in 1 .. Len(send') : send'[n] = send[n + 1]
          /\ Len(send) > 0 /\ accepted' = accepted
      BY <1>1, <1>2, HeadTailProperties, EmptySeq DEF WriterSend, serviceVars
    <2>2. CASE MessageIsLost /\ UNCHANGED sendOut
      BY <2>1, <2>2 DEF JobsInv, MessageIsLost, WriterExit
    <2>3. CASE MessageGetsOut /\ sendOut' = Append(sendOut, Head(send))
      <3>1. /\ Len(sendOut') = Len(sendOut) + 1
            /\ \A n \in 1 .. Len(sendOut) : sendOut'[n] = sendOut[n]
            /\ sendOut'[Len(sendOut) + 1] = send[1]
        BY <1>1, <2>1, <2>3, AppendProperties, SMTT(30)
      <3>2. /\ Len(accepted) = Len(sendOut) + Len(send)
            /\ \A n \in 1 .. Len(send) : accepted[Len(sendOut) + n] = send[n]
        BY <2>3, Zenon DEF JobsInv, MessageGetsOut
      <3>3. ASSUME NEW n \in 1 .. Len(sendOut') PROVE sendOut'[n] = accepted'[n]
        <4>1. accepted[Len(sendOut) + 1] = send[1]
          BY <1>1, <2>1, <3>2
        <4>2. CASE n = Len(sendOut) + 1
          BY <2>1, <3>1, <4>1, <4>2
        <4>3. CASE n \in 1 .. Len(sendOut)
          BY <2>1, <3>1, <4>3 DEF JobsInv
        <4> QED
          BY <1>1, <3>1, <4>2, <4>3, SMTT(30)
      <3>4. ASSUME NEW n \in 1 .. Len(send')
            PROVE  accepted'[Len(sendOut') + n] = send'[n]
        <4>1. n + 1 \in 1 .. Len(send) /\ Len(sendOut') + n = Len(sendOut) + (n + 1)
          BY <1>1, <2>1, <3>1
        <4> QED
          BY <2>1, <3>2, <4>1
      <3>5. Len(sendOut') <= Len(accepted') /\ Len(accepted') = Len(sendOut') + Len(send')
        BY <1>1, <2>1, <3>1, <3>2
      <3> QED
        BY <3>3, <3>4, <3>5, Zenon DEF JobsInv
    <2> QED
      BY <1>2, <2>2, <2>3 DEF WriterSend
  <1>3. ASSUME NEW j \in JobId, JobSend(j), UNCHANGED clientVars
        PROVE  JobsInv'
    <2>1. /\ Len(send') = Len(send) + 1
          /\ \A n \in 1 .. Len(send) : send'[n] = send[n]
          /\ send'[Len(send) + 1] = j
      BY <1>1, <1>3, AppendProperties, SMTT(30) DEF JobSend
    <2>2. /\ Len(accepted') = Len(accepted) + 1
          /\ \A n \in 1 .. Len(accepted) : accepted'[n] = accepted[n]
          /\ accepted'[Len(accepted) + 1] = j
      BY <1>1, <1>3, AppendProperties DEF JobSend
    <2>3. sendOut' = sendOut /\ writer' = writer
      BY <1>3 DEF clientVars
    <2>4. \A n \in 1 .. Len(sendOut) : sendOut[n] = accepted'[n]
      BY <1>1, <2>2 DEF JobsInv
    <2>5. ASSUME writer = "select"
          PROVE  /\ Len(accepted') = Len(sendOut) + Len(send')
                 /\ \A n \in 1 .. Len(send') : accepted'[Len(sendOut) + n] = send'[n]
      <3>1. Len(accepted) = Len(sendOut) + Len(send)
        BY <2>5 DEF JobsInv
      <3>2. ASSUME NEW n \in 1 .. Len(send') PROVE accepted'[Len(sendOut) + n] = send'[n]
        <4>1. CASE n = Len(send) + 1
          BY <1>1, <2>1, <2>2, <3>1, <4>1
        <4>2. CASE n \in 1 .. Len(send)
          <5>1. Len(sendOut) + n \in 1 .. Len(accepted)
            BY <1>1, <3>1, <4>2
          <5>2. accepted[Len(sendOut) + n] = send[n]
            BY <2>5, <4>2 DEF JobsInv
          <5> QED
            BY <2>1, <2>2, <4>2, <5>1, <5>2, Zenon
        <4> QED
          BY <1>1, <2>1, <4>1, <4>2
      <3>3. Len(accepted') = Len(sendOut) + Len(send')
        BY <1>1, <2>1, <2>2, <3>1, SMTT(30)
      <3> QED
        BY <3>2, <3>3
    <2>6. Len(sendOut) <= Len(accepted')
      BY <1>1, <2>2 DEF JobsInv
    <2> QED
      BY <2>3, <2>4, <2>5, <2>6 DEF JobsInv
  <1>4. CASE Reader \/ Peer \/ Reactor \/ ErrorChannel \/ ResponseChannel \/ CloseCall
    <2>1. UNCHANGED <<send, sendOut, accepted>> /\ (writer' = "select" => writer = "select")
      BY <1>4, Zenon
      DEF Reader, ClientReader, ReaderMessage, ReaderPass, ReaderError, ReaderDone, ReaderExit,
          Peer, PeerCloses, Reactor, ReactorStep, ReactorDone, ReactorTake, HandshakeReply,
          HandshakeGivesUp, HandshakeRegister, HandshakeRejected, DispatchToKafka,
          ErrorChannel, WriterExit, ResponseChannel, CloseCall, Cancel, transportVars,
          clientVars, writerVars, serviceVars, jobVars
    <2> QED
      BY <2>1, JobsUntouched, Zenon
  <1>5. ASSUME Writer, ~WriterSend PROVE JobsInv'
    <2>1. UNCHANGED <<send, sendOut, accepted>> /\ (writer' = "select" => writer = "select")
      BY <1>5 DEF Writer, ClientWriter, WriterDone, WriterControl, WriterPingFails, WriterExit,
                  MessageGetsOut, MessageIsLost, serviceVars
    <2> QED
      BY <2>1, JobsUntouched
  <1>6. ASSUME NEW i \in PingId \cup JobId, PingCall(i) \/ Kafka(i) PROVE JobsInv'
    <2>1. UNCHANGED <<send, sendOut, accepted, writer>>
      BY <1>6 DEF PingCall, PingStart, PingSend, PingGivesUp, PingReturn, Kafka, KafkaWrite,
                  transportVars, clientVars, jobVars
    <2> QED
      BY <2>1, JobsUntouched, Zenon
  <1>7. ASSUME NEW j \in JobId, JobStart(j) \/ JobGivesUp(j), UNCHANGED clientVars PROVE JobsInv'
    <2>1. UNCHANGED <<send, sendOut, accepted, writer>>
      BY <1>7 DEF JobStart, JobGivesUp, transportVars, clientVars
    <2> QED
      BY <2>1, JobsUntouched
  <1>8. CASE UNCHANGED vars
    BY <1>8, JobsUntouched DEF vars, transportVars, clientVars, serviceVars
  <1>9. CASE DispatchPanics
    BY <1>9, PanicEnds, Zenon DEF JobsInv
  <1> QED
    BY <1>2, <1>3, <1>4, <1>5, <1>6, <1>7, <1>8, <1>9 DEF Next, Writer, JobCall

(***************************************************************************)
(* The jobs SendMessage accepted are written in the order of the calls,    *)
(* none twice and none left out before a write fails.                      *)
(***************************************************************************)
THEOREM JobsInOrder == Spec => []JobsAreWrittenInOrder
  <1>1. Init => JobsInv
    BY EmptySeq DEF Init, TransportInit, ClientInit, ServiceInit, JobsInv
  <1>2. TypeInv /\ JobsInv => JobsAreWrittenInOrder
    <2> SUFFICES ASSUME TypeInv, JobsInv PROVE JobsAreWrittenInOrder
      OBVIOUS
    <2>1. /\ send \in Seq(JobId) /\ sendOut \in Seq(JobId) /\ accepted \in Seq(JobId)
          /\ Len(send) \in Nat /\ Len(sendOut) \in Nat /\ Len(accepted) \in Nat
      BY LenProperties DEF TypeInv, TypeOK, TransportTypeOK, ClientTypeOK, ServiceTypeOK
    <2>2. sendOut = SubSeq(accepted, 1, Len(sendOut))
      <3> DEFINE written == SubSeq(accepted, 1, Len(sendOut))
      <3>1. \A n \in 1 .. Len(sendOut) : accepted[n] \in JobId
        BY <2>1, LenProperties DEF JobsInv
      <3>2. /\ written \in Seq(JobId)
            /\ Len(written) = IF 1 <= Len(sendOut) THEN Len(sendOut) - 1 + 1 ELSE 0
            /\ \A n \in 1 .. Len(sendOut) - 1 + 1 : written[n] = accepted[1 + n - 1]
        BY <2>1, <3>1, SubSeqProperties
      <3>3. Len(sendOut) = Len(written) /\ \A n \in 1 .. Len(sendOut) : sendOut[n] = written[n]
        BY <2>1, <3>2 DEF JobsInv
      <3> HIDE DEF written
      <3>4. sendOut = written
        BY <2>1, <3>2, <3>3, SeqEqual
      <3> QED
        BY <3>4 DEF written
    <2>3. ASSUME writer = "select" PROVE accepted = sendOut \o send
      <3> DEFINE both == sendOut \o send
      <3>1. /\ both \in Seq(JobId)
            /\ Len(both) = Len(sendOut) + Len(send)
            /\ \A n \in 1 .. Len(sendOut) + Len(send) :
                  both[n] = IF n <= Len(sendOut) THEN sendOut[n] ELSE send[n - Len(sendOut)]
        BY <2>1, ConcatProperties
      <3> HIDE DEF both
      <3>2. Len(accepted) = Len(both)
        BY <2>3, <3>1 DEF JobsInv
      <3>3. ASSUME NEW n \in 1 .. Len(accepted) PROVE accepted[n] = both[n]
        <4>1. CASE n <= Len(sendOut)
          BY <2>1, <3>1, <3>2, <4>1 DEF JobsInv
        <4>2. CASE n > Len(sendOut)
          <5>1. /\ n - Len(sendOut) \in 1 .. Len(send)
                /\ Len(sendOut) + (n - Len(sendOut)) = n
            BY <2>1, <3>1, <3>2, <4>2
          <5>2. accepted[Len(sendOut) + (n - Len(sendOut))] = send[n - Len(sendOut)]
            BY <2>3, <5>1 DEF JobsInv
          <5> QED
            BY <2>1, <3>1, <3>2, <4>2, <5>1, <5>2
        <4> QED
          BY <2>1, <4>1, <4>2
      <3>4. accepted = both
        BY <2>1, <3>1, <3>2, <3>3, SeqEqual, Zenon
      <3> QED
        BY <3>4 DEF both
    <2> QED
      BY <2>2, <2>3 DEF JobsAreWrittenInOrder
  <1> QED
    BY <1>1, <1>2, JobsStep, SessionTypeInvariance, PTL DEF Spec

-----------------------------------------------------------------------------
(***************************************************************************)
(* The reply of the handshake.                                             *)
(***************************************************************************)
ReplyInv == ReplyPrecedesPings /\ ReplyIsAhead

\* Somebody can send a ping, or will be able to without another reply.
PingsMayCome ==
    \/ reactor \in {"register", "error"}
    \/ Callable # {}
    \/ \E i \in PingId : ping[i] # "idle"

\* The reply is written, or in the control channel.
HiSent == HiOut \/ \E k \in 1 .. Len(control) : control[k] = Hi

(* A step that neither writes to the control channel or from it, nor lets  *)
(* somebody new send a ping, keeps the reply ahead of the pings.           *)
LEMMA ReplyUntouched ==
    ASSUME ReplyInv, UNCHANGED <<control, controlOut>>, writer' = "select" => writer = "select",
           writer' = "select" => (PingsMayCome' => PingsMayCome)
    PROVE  ReplyInv'
  BY DEF ReplyInv, ReplyPrecedesPings, ReplyIsAhead, PingsMayCome, HiOut

(* What is added to the control channel comes after the reply, or is it.   *)
LEMMA ReplyAppended ==
    ASSUME TypeInv, ReplyInv, NEW e \in PingId \cup {Hi}, control' = Append(control, e),
           UNCHANGED <<controlOut, writer>>, e = Hi \/ PingsMayCome
    PROVE  ReplyInv'
  <1>1. control \in Seq(PingId \cup {Hi}) /\ Len(control) \in Nat
    BY LenProperties DEF TypeInv, TypeOK, TransportTypeOK
  <1>2. /\ Len(control') = Len(control) + 1
        /\ \A k \in 1 .. Len(control) : control'[k] = control[k]
        /\ control'[Len(control) + 1] = e
    BY <1>1, AppendProperties
  <1>3. ReplyPrecedesPings' /\ (HiOut' <=> HiOut)
    BY Zenon DEF ReplyInv, ReplyPrecedesPings, HiOut
  <1>4. SUFFICES ASSUME writer = "select" PROVE ReplyIsAhead'
    BY <1>3, Zenon DEF ReplyInv, ReplyIsAhead
  <1>5. e = Hi \/ HiSent
    BY <1>4 DEF ReplyInv, ReplyIsAhead, PingsMayCome, HiSent
  <1>6. HiSent'
    BY <1>1, <1>2, <1>3, <1>5, SMTT(30) DEF HiSent
  <1>7. ASSUME NEW n \in 1 .. Len(control'), control'[n] \in PingId
        PROVE  HiOut' \/ \E k \in 1 .. n - 1 : control'[k] = Hi
    <2>1. CASE n = Len(control) + 1
      <3>1. e # Hi
        BY <1>2, <1>7, <2>1, TransportAssumption, Zenon
      <3> QED
        BY <1>1, <1>2, <1>3, <1>5, <2>1, <3>1 DEF HiSent
    <2>2. CASE n \in 1 .. Len(control)
      <3>1. HiOut \/ \E k \in 1 .. n - 1 : control[k] = Hi
        BY <1>2, <1>4, <1>7, <2>2 DEF ReplyInv, ReplyIsAhead
      <3> QED
        BY <1>1, <1>2, <1>3, <2>2, <3>1, SMTT(30)
    <2> QED
      BY <1>1, <1>2, <2>1, <2>2, SMTT(30)
  <1> QED
    BY <1>6, <1>7 DEF ReplyIsAhead, HiSent

(* The writer takes the head of the control channel: the reply, or a ping  *)
(* before which the reply was written.                                     *)
LEMMA ReplyWritten ==
    ASSUME TypeInv, ReplyInv, WriterControl, UNCHANGED <<serviceVars, reactorVars>>
    PROVE  ReplyInv'
  <1>1. /\ control \in Seq(PingId \cup {Hi}) /\ controlOut \in Seq(PingId \cup {Hi})
        /\ Len(control) \in Nat /\ Len(controlOut) \in Nat
    BY LenProperties, Zenon DEF TypeInv, TypeOK, TransportTypeOK, ClientTypeOK
  <1>2. /\ Len(control) > 0 /\ Head(control) = control[1]
        /\ Head(control) \in PingId \cup {Hi}
        /\ Len(control') = Len(control) - 1
        /\ \A k \in 1 .. Len(control') : control'[k] = control[k + 1]
    BY <1>1, HeadTailProperties, EmptySeq, SMTT(30) DEF WriterControl
  <1>3. CASE MessageIsLost /\ UNCHANGED controlOut
    BY <1>3, Zenon DEF MessageIsLost, WriterExit, ReplyInv, ReplyPrecedesPings, ReplyIsAhead, HiOut
  <1>4. CASE MessageGetsOut /\ controlOut' = Append(controlOut, Head(control))
    <2>1. /\ Len(controlOut') = Len(controlOut) + 1
          /\ \A k \in 1 .. Len(controlOut) : controlOut'[k] = controlOut[k]
          /\ controlOut'[Len(controlOut) + 1] = control[1]
      BY <1>1, <1>2, <1>4, AppendProperties
    <2>2. HiOut => HiOut'
      BY <1>1, <2>1 DEF HiOut
    <2>3. control[1] = Hi => HiOut'
      BY <1>1, <2>1, SMTT(30) DEF HiOut
    <2>4. control[1] \in PingId => HiOut
      BY <1>1, <1>2, <1>4 DEF ReplyInv, ReplyIsAhead, MessageGetsOut
    <2>5. HiOut'
      BY <1>2, <2>2, <2>3, <2>4, Zenon
    <2>6. ASSUME NEW n \in 1 .. Len(controlOut'), controlOut'[n] \in PingId
          PROVE  \E k \in 1 .. n : controlOut'[k] = Hi
      <3>1. CASE n = Len(controlOut) + 1
        BY <1>1, <2>1, <2>5, <3>1 DEF HiOut
      <3>2. CASE n \in 1 .. Len(controlOut)
        <4>1. \E k \in 1 .. n : controlOut[k] = Hi
          BY <2>1, <2>6, <3>2 DEF ReplyInv, ReplyPrecedesPings
        <4> QED
          BY <1>1, <2>1, <3>2, <4>1
      <3> QED
        BY <1>1, <2>1, <3>1, <3>2
    <2> QED
      BY <2>5, <2>6 DEF ReplyInv, ReplyPrecedesPings, ReplyIsAhead
  <1> QED
    BY <1>3, <1>4 DEF WriterControl

(* The reply stays ahead of the pings, whoever takes the step.             *)
LEMMA ReplyStep ==
    ASSUME TypeInv, ReplyInv, [Next]_vars
    PROVE  ReplyInv'
  <1>1. CASE Reader \/ Peer \/ CloseCall
    <2>1. UNCHANGED <<control, controlOut, writer, reactor, registered, handlerNode, ping>>
      BY <1>1 DEF Reader, ClientReader, ReaderMessage, ReaderPass, ReaderError, ReaderDone,
                  ReaderExit, Peer, PeerCloses, CloseCall, Cancel, transportVars, clientVars,
                  writerVars, serviceVars, reactorVars
    <2> QED
      BY <2>1, ReplyUntouched, Zenon DEF PingsMayCome, Callable
  <1>2. CASE Writer
    <2>1. ASSUME WriterDone \/ WriterSend \/ WriterPingFails PROVE ReplyInv'
      <3>1. /\ UNCHANGED <<control, controlOut, reactor, registered, handlerNode, ping>>
            /\ writer' = "select" => writer = "select"
        BY <1>2, <2>1 DEF Writer, WriterDone, WriterSend, WriterPingFails, WriterExit,
                          MessageGetsOut, MessageIsLost, serviceVars, reactorVars
      <3> QED
        BY <3>1, ReplyUntouched, Zenon DEF PingsMayCome, Callable
    <2> QED
      BY <1>2, <2>1, ReplyWritten DEF Writer, ClientWriter
  <1>3. CASE ErrorChannel
    BY <1>3, ReplyUntouched DEF ErrorChannel, WriterExit
  <1>4. CASE Reactor
    <2>1. UNCHANGED <<controlOut, writer, ping>>
      BY <1>4, Zenon DEF Reactor, clientVars, ReactorStep, ReactorDone, ReactorTake, HandshakeReply,
                  HandshakeGivesUp, HandshakeRegister, HandshakeRejected, DispatchToKafka,
                  serviceVars, pingVars
    <2>2. CASE HandshakeReply
      BY <2>1, <2>2, ReplyAppended DEF HandshakeReply
    <2>3. CASE ReactorDone \/ ReactorTake \/ HandshakeGivesUp
      <3>1. /\ control' = control /\ handlerNode' = handlerNode /\ registered' \subseteq registered
            /\ reactor' \notin {"register", "error"} \/ reactor' = reactor
            /\ reactor # "crashed"
        BY <2>3 DEF ReactorDone, ReactorTake, HandshakeGivesUp, Return, transportVars
      <3> QED
        BY <2>1, <3>1, ReplyUntouched DEF PingsMayCome, Callable
    <2>4. CASE HandshakeRegister \/ HandshakeRejected
      <3>1. control' = control /\ PingsMayCome
        BY <2>4 DEF HandshakeRegister, HandshakeRejected, transportVars, PingsMayCome
      <3> QED
        BY <2>1, <3>1, ReplyUntouched, Zenon
    <2> QED
      BY <1>4, <2>2, <2>3, <2>4, Zenon DEF Reactor, ReactorStep
  <1>5. CASE ResponseChannel
    <2>1. Head(current).inResponseTo \in PingId
      BY <1>5, SMTT(30) DEF ResponseChannel, TypeInv, InHand
    <2>2. PingsMayCome /\ UNCHANGED <<control, controlOut, writer>>
      BY <1>5, <2>1, Zenon DEF ResponseChannel, PingsMayCome, transportVars, clientVars
    <2> QED
      BY <2>2, ReplyUntouched, Zenon
  <1>6. ASSUME NEW i \in PingId, PingCall(i) PROVE ReplyInv'
    <2>1. PingsMayCome /\ UNCHANGED <<controlOut, writer>>
      BY <1>6 DEF PingCall, PingStart, PingSend, PingGivesUp, PingReturn, PingsMayCome, clientVars
    <2>2. CASE control' = control
      BY <2>1, <2>2, ReplyUntouched
    <2>3. CASE PingSend(i)
      BY <2>1, <2>3, ReplyAppended, Zenon DEF PingSend
    <2> QED
      BY <1>6, <2>2, <2>3, Zenon DEF PingCall, PingStart, PingGivesUp, PingReturn, transportVars
  <1>7. ASSUME NEW i \in PingId \cup JobId, JobCall(i) \/ Kafka(i) PROVE ReplyInv'
    <2>1. UNCHANGED <<control, controlOut, writer, reactor, registered, handlerNode, ping>>
      BY <1>7, Zenon DEF JobCall, JobStart, JobSend, JobGivesUp, Kafka, KafkaWrite, transportVars,
                  clientVars, pingVars, reactorVars
    <2> QED
      BY <2>1, ReplyUntouched, Zenon DEF PingsMayCome, Callable
  <1>8. CASE UNCHANGED vars
    BY <1>8, ReplyUntouched DEF vars, transportVars, clientVars, serviceVars, reactorVars,
                                PingsMayCome, Callable
  <1>9. CASE DispatchPanics
    BY <1>9, PanicEnds, Zenon DEF ReplyInv, ReplyPrecedesPings, ReplyIsAhead
  <1> QED
    BY <1>1, <1>2, <1>3, <1>4, <1>5, <1>6, <1>7, <1>8, <1>9, Zenon DEF Next

(***************************************************************************)
(* No ping is written before the reply of the handshake, however often the *)
(* peer says HI.                                                           *)
(***************************************************************************)
THEOREM RepliesComeFirst == Spec => []ReplyPrecedesPings
  <1>1. Init => ReplyInv
    BY EmptySeq DEF Init, TransportInit, ClientInit, ServiceInit, ReactorInit, ReplyInv,
                    ReplyPrecedesPings, ReplyIsAhead, HiOut, Callable
  <1>2. ReplyInv => ReplyPrecedesPings
    BY Zenon DEF ReplyInv
  <1> QED
    BY <1>1, <1>2, ReplyStep, SessionTypeInvariance, PTL DEF Spec

-----------------------------------------------------------------------------
(***************************************************************************)
(* One HI for a session.                                                   *)
(***************************************************************************)
OneHiInv == OneHi /\ NoRegistrationLeft

(* A step that leaves the HI where it is and the registration alone keeps  *)
(* the invariant; the HI may get lost.                                     *)
LEMMA HiUntouched ==
    ASSUME OneHiInv, UNCHANGED <<recv, handlerNode, registered>>,
           his' = his, HiInHand' => HiInHand, Handshaking' => Handshaking,
           reactor' = "exit" => reactor = "exit"
    PROVE  OneHiInv'
  BY DEF OneHiInv, OneHi, NoRegistrationLeft, HiQueued

(* The reader reads at most one HI, and passes it on.                      *)
LEMMA HiRead ==
    ASSUME MaxHi <= 1, TypeInv, OneHiInv, Reader
    PROVE  OneHiInv'
  <1>1. UNCHANGED <<reactor, handlerNode, registered>>
    BY DEF Reader, reactorVars
  <1>2. his \in Nat /\ MaxHi \in Nat
    BY ClientAssumption DEF TypeInv, TypeOK, ClientTypeOK
  <1>3. ASSUME NEW m \in Message, ReaderMessage(m) PROVE OneHiInv'
    <2>1. recv' = recv /\ (HiInHand' <=> IsHi(m))
      BY <1>3, SMTT(30) DEF ReaderMessage, transportVars, HiInHand
    <2>2. CASE IsHi(m)
      <3>1. his = 0 /\ his' = 1
        BY <1>2, <1>3, <2>2 DEF ReaderMessage
      <3> QED
        BY <1>1, <2>1, <3>1 DEF OneHiInv, OneHi, NoRegistrationLeft, HiQueued, Handshaking
    <2>3. CASE ~IsHi(m)
      <3>1. his' = his
        BY <1>3, <2>3, Zenon DEF ReaderMessage
      <3> QED
        BY <1>1, <2>1, <2>3, <3>1, HiUntouched DEF Handshaking
    <2> QED
      BY <2>2, <2>3
  <1>4. CASE ReaderPass
    <2>1. PICK m \in Message : holding = <<m>>
      BY <1>4 DEF ReaderPass, TypeInv, InHand
    <2>2. recv \in Seq(Message) /\ Len(recv) \in Nat
      BY LenProperties, Zenon DEF TypeInv, TypeOK, TransportTypeOK
    <2>3. /\ Len(recv') = Len(recv) + 1
          /\ \A k \in 1 .. Len(recv) : recv'[k] = recv[k]
          /\ recv'[Len(recv) + 1] = m
      BY <1>4, <2>1, <2>2, AppendProperties DEF ReaderPass
    <2>4. his' = his /\ ~HiInHand' /\ (HiInHand <=> IsHi(m)) /\ (Handshaking' <=> Handshaking)
      BY <1>1, <1>4, <2>1, SMTT(30) DEF ReaderPass, HiInHand, Handshaking
    <2>5. ASSUME NEW k \in 1 .. Len(recv'), HiQueued(k)'
          PROVE  (k \in 1 .. Len(recv) /\ HiQueued(k)) \/ (k = Len(recv) + 1 /\ HiInHand)
      BY <2>2, <2>3, <2>4, <2>5, SMTT(30) DEF HiQueued
    <2> QED
      BY <1>1, <2>2, <2>3, <2>4, <2>5, Zenon DEF OneHiInv, OneHi, NoRegistrationLeft
  <1>5. CASE ReaderError \/ ReaderDone
    BY <1>1, <1>5, HiUntouched DEF ReaderError, ReaderDone, ReaderExit, HiInHand, Handshaking
  <1> QED
    BY <1>3, <1>4, <1>5 DEF Reader, ClientReader

(* The reactor takes the HI from the queue and registers its node once.    *)
LEMMA HiHandled ==
    ASSUME TypeInv, OneHiInv, Reactor
    PROVE  OneHiInv'
  <1>1. his' = his /\ (HiInHand' <=> HiInHand)
    BY Zenon DEF Reactor, clientVars, HiInHand
  <1>2. CASE ReactorDone
    BY <1>1, <1>2, Zenon DEF ReactorDone, transportVars, OneHiInv, OneHi, NoRegistrationLeft, HiQueued,
                      Handshaking
  <1>3. CASE ReactorTake
    <2>1. /\ recv \in Seq(Message) /\ Len(recv) \in Nat /\ Len(recv) > 0
          /\ Head(recv) = recv[1] /\ Len(recv') = Len(recv) - 1
          /\ \A k \in 1 .. Len(recv') : recv'[k] = recv[k + 1]
      BY <1>3, LenProperties, HeadTailProperties, EmptySeq, SMTT(30)
      DEF ReactorTake, TypeInv, TypeOK, TransportTypeOK
    <2>2. UNCHANGED <<handlerNode, registered>> /\ reactor' # "exit" /\ ~Handshaking
      BY <1>3 DEF ReactorTake, Handshaking
    <2>3. ASSUME NEW k \in 1 .. Len(recv'), HiQueued(k)' PROVE k + 1 \in 1 .. Len(recv) /\ HiQueued(k + 1)
      BY <2>1, <2>3 DEF HiQueued
    <2>4. Handshaking' => 1 \in 1 .. Len(recv) /\ HiQueued(1)
      BY <1>3, <2>1 DEF ReactorTake, Handshaking, HiQueued, IsHi
    <2>5. \A k \in 1 .. Len(recv') : k + 1 # 1 /\ k \in Nat
      BY <2>1, SMTT(30)
    <2>6. ASSUME Handshaking'
          PROVE  ~HiInHand /\ handlerNode = NoNode /\ \A k \in 1 .. Len(recv') : ~HiQueued(k)'
      BY <2>1, <2>3, <2>4, <2>5, <2>6 DEF OneHiInv, OneHi
    <2>7. ASSUME NEW k \in 1 .. Len(recv'), HiQueued(k)'
          PROVE  /\ ~Handshaking' /\ handlerNode = NoNode /\ ~HiInHand /\ his # 0
                 /\ \A n \in 1 .. Len(recv') : HiQueued(n)' => n = k
      <3>1. k + 1 \in 1 .. Len(recv) /\ HiQueued(k + 1)
        BY <2>3, <2>7
      <3>2. ~Handshaking' /\ handlerNode = NoNode /\ ~HiInHand /\ his # 0
        BY <2>6, <2>7, <3>1 DEF OneHiInv, OneHi
      <3>3. ASSUME NEW n \in 1 .. Len(recv'), HiQueued(n)' PROVE n = k
        <4>1. n + 1 \in 1 .. Len(recv) /\ HiQueued(n + 1)
          BY <2>3, <3>3, Zenon
        <4>2. n + 1 = k + 1
          BY <3>1, <4>1 DEF OneHiInv, OneHi
        <4> QED
          BY <2>5, <4>2
      <3> QED
        BY <3>2, <3>3
    <2>8. his = 0 => ~Handshaking'
      BY <2>4 DEF OneHiInv, OneHi
    <2> QED
      BY <1>1, <2>2, <2>6, <2>7, <2>8, Zenon DEF OneHiInv, OneHi, NoRegistrationLeft
  <1>4. CASE HandshakeReply \/ HandshakeGivesUp \/ HandshakeRejected
    <2>1. /\ UNCHANGED <<recv, handlerNode, registered>>
          /\ Handshaking /\ reactor' # "exit"
      BY <1>4, Zenon DEF HandshakeReply, HandshakeGivesUp, HandshakeRejected, Return, transportVars,
                  Handshaking
    <2> QED
      BY <1>1, <2>1, HiUntouched, Zenon
  <1>5. CASE HandshakeRegister
    <2>1. /\ recv' = recv /\ Handshaking /\ ~Handshaking' /\ reactor' # "exit"
          /\ handlerNode' = Head(current).node
          /\ registered' = registered \cup {Head(current).node}
      BY <1>5, Zenon DEF HandshakeRegister, Return, transportVars, Handshaking
    <2>2. Head(current).node \in Node /\ Head(current).node # NoNode
      BY <2>1, TransportAssumption, SMTT(30) DEF TypeInv, InHand, HiMsg
    <2>3. handlerNode = NoNode /\ registered = {} /\ ~HiInHand /\ his # 0
      BY <2>1, Zenon DEF OneHiInv, OneHi
    <2>4. \A n \in 1 .. Len(recv) : ~HiQueued(n)
      BY <2>1, Zenon DEF OneHiInv, OneHi
    <2> QED
      BY <1>1, <2>1, <2>2, <2>3, <2>4, Zenon DEF OneHiInv, OneHi, NoRegistrationLeft, HiQueued
  <1> QED
    BY <1>2, <1>3, <1>4, <1>5 DEF Reactor, ReactorStep

(* The HI of a session stays in one place, whoever takes the step.         *)
LEMMA HiStep ==
    ASSUME MaxHi <= 1, TypeInv, OneHiInv, [Next]_vars
    PROVE  OneHiInv'
  <1>1. CASE Writer \/ Peer \/ CloseCall
    <2>1. UNCHANGED <<recv, handlerNode, registered, his, holding, reactor>>
      BY <1>1 DEF Writer, ClientWriter, WriterDone, WriterControl, WriterSend, WriterPingFails,
                  WriterExit, MessageGetsOut, MessageIsLost, Peer, PeerCloses, CloseCall, Cancel,
                  clientVars, readerVars, reactorVars
    <2> QED
      BY <2>1, HiUntouched, Zenon DEF HiInHand, Handshaking
  <1>2. CASE ErrorChannel \/ ResponseChannel
    <2>1. /\ UNCHANGED <<recv, handlerNode, registered, his, holding>>
          /\ reactor' = "select"
      BY <1>2, Zenon DEF ErrorChannel, ResponseChannel, WriterExit, Return, transportVars, clientVars,
                  readerVars
    <2> QED
      BY <2>1, HiUntouched, Zenon DEF HiInHand, Handshaking
  <1>3. ASSUME NEW i \in PingId \cup JobId, PingCall(i) \/ JobCall(i) \/ Kafka(i) PROVE OneHiInv'
    <2>1. UNCHANGED <<recv, handlerNode, registered, his, holding, reactor>>
      BY <1>3, Zenon DEF PingCall, PingStart, PingSend, PingGivesUp, PingReturn, JobCall, JobStart,
                  JobSend, JobGivesUp, Kafka, KafkaWrite, transportVars, clientVars, reactorVars
    <2> QED
      BY <2>1, HiUntouched, Zenon DEF HiInHand, Handshaking
  <1>4. CASE UNCHANGED vars
    BY <1>4, HiUntouched DEF vars, transportVars, clientVars, reactorVars, HiInHand, Handshaking
  <1>5. CASE DispatchPanics
    <2>1. ~\E n \in 1 .. Len(recv') : TRUE
      <3>1. recv' = <<>> /\ Len(<<>>) = 0
        BY <1>5, PanicEnds, EmptySeq, Zenon
      <3> QED
        BY <3>1
    <2>2. ~HiInHand' /\ ~Handshaking' /\ reactor' # "exit" /\ UNCHANGED <<his, handlerNode, registered>>
      BY <1>5, PanicEnds, Zenon DEF HiInHand, Handshaking
    <2> QED
      BY <2>1, <2>2, Zenon DEF OneHiInv, OneHi, NoRegistrationLeft
  <1> QED
    BY <1>1, <1>2, <1>3, <1>4, <1>5, HiRead, HiHandled, Zenon DEF Next

(* With one HI, it is in one place and then registered once.               *)
LEMMA OneHiInvariance ==
    ASSUME MaxHi <= 1
    PROVE  Spec => []OneHiInv
  <1>1. Init => OneHiInv
    BY EmptySeq DEF Init, TransportInit, ClientInit, ReactorInit, OneHiInv, OneHi,
                    NoRegistrationLeft, HiInHand, Handshaking, HiQueued
  <1>2. TypeInv /\ OneHiInv /\ [Next]_vars => OneHiInv'
    BY HiStep
  <1> QED
    BY <1>1, <1>2, SessionTypeInvariance, PTL DEF Spec

(***************************************************************************)
(* A session whose peer says HI once leaves no registration behind when    *)
(* its reactor returns.                                                    *)
(***************************************************************************)
THEOREM SessionsUnregister ==
    ASSUME MaxHi <= 1
    PROVE  Spec => []NoRegistrationLeft
  <1>1. OneHiInv => NoRegistrationLeft
    BY Zenon DEF OneHiInv
  <1> QED
    BY <1>1, OneHiInvariance, PTL

-----------------------------------------------------------------------------
(***************************************************************************)
(* Answers.                                                                *)
(***************************************************************************)
AwaitInv == PingsAreAwaited /\ AnswersReachTheirPing

\* The ping, or an answer to it, is on its way.
PingOut(i) ==
    \/ \E n \in 1 .. Len(control) : control[n] = i
    \/ OnWire(i)
    \/ AnswerIncoming(i)

(* A step that leaves callers and table alone, sends no ping and publishes *)
(* no answer keeps the invariant.                                          *)
LEMMA AwaitUntouched ==
    ASSUME AwaitInv, UNCHANGED <<ping, pingNode, dispatchTable, handlerNode>>,
           toKafka' \cup published' \subseteq toKafka \cup published,
           \A i \in PingId : PingOut(i)' => PingOut(i)
    PROVE  AwaitInv'
  BY Zenon DEF AwaitInv, PingsAreAwaited, AnswersReachTheirPing, PingOut

(* The peer answers only pings it was sent, and the reader passes them on. *)
LEMMA AnswerRead ==
    ASSUME TypeInv, AwaitInv, Reader
    PROVE  AwaitInv'
  <1>1. UNCHANGED <<ping, pingNode, dispatchTable, handlerNode, toKafka, published>>
    BY Zenon DEF Reader, serviceVars, reactorVars
  <1>2. UNCHANGED <<control, controlOut, sendOut>>
    BY DEF Reader, ClientReader, ReaderMessage, ReaderPass, ReaderError, ReaderDone, ReaderExit,
           transportVars, writerVars
  <1>3. recv \in Seq(Message) /\ Len(recv) \in Nat
    BY LenProperties DEF TypeInv, TypeOK, TransportTypeOK
  <1>4. ASSUME NEW i \in PingId, AnswerIncoming(i)' PROVE AnswerIncoming(i) \/ OnWire(i)
    <2>1. ASSUME NEW m \in Message, ReaderMessage(m) PROVE AnswerIncoming(i) \/ OnWire(i)
      <3>1. recv' = recv /\ holding' = <<m>>
        BY <2>1, Zenon DEF ReaderMessage, transportVars
      <3>2. Answers(m, i) => OnWire(i)
        BY <2>1, TransportAssumption DEF ReaderMessage, Answers
      <3> QED
        BY <1>4, <3>1, <3>2, SMTT(30) DEF AnswerIncoming
    <2>2. CASE ReaderPass
      <3>1. PICK m \in Message : holding = <<m>>
        BY <2>2, Zenon DEF ReaderPass, TypeInv, InHand
      <3>2. /\ Len(recv') = Len(recv) + 1
            /\ \A k \in 1 .. Len(recv) : recv'[k] = recv[k]
            /\ recv'[Len(recv) + 1] = m
        <4>1. recv' = Append(recv, m)
          BY <2>2, <3>1, HeadOfOne, Zenon DEF ReaderPass
        <4> QED
          BY <1>3, <4>1, AppendProperties, SMTT(30)
      <3>3. PICK n \in 1 .. Len(recv') : Answers(recv'[n], i)
        BY <1>4, <2>2, Zenon DEF AnswerIncoming, ReaderPass
      <3>4. CASE n = Len(recv) + 1
        BY <3>1, <3>2, <3>3, <3>4, SMTT(30) DEF AnswerIncoming
      <3>5. CASE n \in 1 .. Len(recv)
        BY <3>2, <3>3, <3>5 DEF AnswerIncoming
      <3>6. n = Len(recv) + 1 \/ n \in 1 .. Len(recv)
        BY <1>3, <3>2, SMTT(30)
      <3> QED
        BY <3>4, <3>5, <3>6, Zenon
    <2>3. CASE ReaderError \/ ReaderDone
      BY <1>4, <2>3, Zenon DEF ReaderError, ReaderDone, ReaderExit, AnswerIncoming
    <2> QED
      BY <2>1, <2>2, <2>3 DEF Reader, ClientReader
  <1>5. \A i \in PingId : OnWire(i)' <=> OnWire(i)
    BY <1>2 DEF OnWire
  <1> QED
    BY <1>1, <1>2, <1>4, <1>5, AwaitUntouched DEF PingOut

(* The writer moves a ping from the control channel to the wire.           *)
LEMMA PingWritten ==
    ASSUME TypeInv, AwaitInv, Writer
    PROVE  AwaitInv'
  <1>1. UNCHANGED <<ping, pingNode, dispatchTable, handlerNode, toKafka, published>>
    BY DEF Writer, serviceVars, reactorVars
  <1>2. UNCHANGED <<recv, holding>>
    BY DEF Writer, ClientWriter, WriterDone, WriterControl, WriterSend, WriterPingFails,
           WriterExit, MessageGetsOut, MessageIsLost, readerVars
  <1>3. TypeInv'
    BY WriterTypes
  <1>4. ASSUME NEW i \in PingId PROVE \A n \in 1 .. Len(sendOut') : sendOut'[n] # i
    <2>1. sendOut' \in Seq(JobId)
      BY <1>3 DEF TypeInv, TypeOK, ClientTypeOK
    <2>2. \A n \in 1 .. Len(sendOut') : sendOut'[n] \in JobId
      BY <2>1, LenProperties, Zenon
    <2> QED
      BY <2>2, TransportAssumption
  <1>5. ASSUME UNCHANGED <<control, controlOut>> PROVE AwaitInv'
    BY <1>1, <1>2, <1>4, <1>5, AwaitUntouched, ZenonT(30) DEF PingOut, OnWire, AnswerIncoming
  <1>6. CASE WriterControl
    <2>1. /\ control \in Seq(PingId \cup {Hi}) /\ controlOut \in Seq(PingId \cup {Hi})
          /\ Len(control) \in Nat /\ Len(controlOut) \in Nat
      BY LenProperties DEF TypeInv, TypeOK, TransportTypeOK, ClientTypeOK
    <2>2. /\ Len(control) > 0 /\ Head(control) = control[1]
          /\ Head(control) \in PingId \cup {Hi}
          /\ Len(control') = Len(control) - 1
          /\ \A k \in 1 .. Len(control') : control'[k] = control[k + 1]
      BY <1>6, <2>1, HeadTailProperties, EmptySeq, SMTT(30) DEF WriterControl
    <2>3. \/ controlOut' = controlOut
          \/ /\ Len(controlOut') = Len(controlOut) + 1
             /\ \A k \in 1 .. Len(controlOut) : controlOut'[k] = controlOut[k]
             /\ controlOut'[Len(controlOut) + 1] = control[1]
      <3>1. controlOut' \in {controlOut, Append(controlOut, control[1])}
        BY <1>6, <2>2 DEF WriterControl
      <3>2. control[1] \in PingId \cup {Hi}
        BY <2>2, Zenon
      <3>3. /\ Len(Append(controlOut, control[1])) = Len(controlOut) + 1
            /\ \A k \in 1 .. Len(controlOut) : Append(controlOut, control[1])[k] = controlOut[k]
            /\ Append(controlOut, control[1])[Len(controlOut) + 1] = control[1]
        BY <2>1, <3>2, AppendProperties, SMTT(30)
      <3> QED
        BY <3>1, <3>3, Zenon
    <2>4. ASSUME NEW i \in PingId, \E n \in 1 .. Len(control') : control'[n] = i
          PROVE  \E n \in 1 .. Len(control) : control[n] = i
      BY <2>1, <2>2, <2>4, SMTT(30)
    <2>5. ASSUME NEW i \in PingId, OnWire(i)'
          PROVE  OnWire(i) \/ \E n \in 1 .. Len(control) : control[n] = i
      <3>1. PICK n \in 1 .. Len(controlOut') : controlOut'[n] = i
        BY <1>4, <2>5, Zenon DEF OnWire
      <3>2. controlOut'[n] = control[1] \/ (n \in 1 .. Len(controlOut) /\ controlOut[n] = i)
        BY <2>1, <2>3, <3>1
      <3> QED
        BY <2>1, <2>2, <3>1, <3>2 DEF OnWire
    <2>6. \A i \in PingId : AnswerIncoming(i)' <=> AnswerIncoming(i)
      BY <1>2 DEF AnswerIncoming
    <2> QED
      BY <1>1, <2>4, <2>5, <2>6, AwaitUntouched, Zenon DEF PingOut
  <1> QED
    BY <1>5, <1>6, Zenon DEF Writer, ClientWriter, WriterDone, WriterSend, WriterPingFails

(* The reactor publishes the answer of a ping only if its caller is done.  *)
LEMMA AnswerHandled ==
    ASSUME TypeInv, OneHiInv, AwaitInv, Reactor
    PROVE  AwaitInv'
  <1>1. UNCHANGED <<controlOut, sendOut, holding, ping, pingNode, dispatchTable, published>>
    BY Zenon DEF Reactor, clientVars, ReactorStep, ReactorDone, ReactorTake, HandshakeReply,
           HandshakeGivesUp, HandshakeRegister, HandshakeRejected, DispatchToKafka,
           serviceVars, pingVars
  <1>2. CASE ReactorDone \/ HandshakeGivesUp \/ HandshakeRejected
    <2>1. UNCHANGED <<control, recv, handlerNode, toKafka>>
      BY <1>2, Zenon DEF ReactorDone, HandshakeGivesUp, HandshakeRejected, transportVars, serviceVars
    <2> QED
      BY <1>1, <2>1, AwaitUntouched, Zenon DEF PingOut, OnWire, AnswerIncoming
  <1>3. CASE HandshakeReply
    <2>1. control \in Seq(PingId \cup {Hi}) /\ Len(control) \in Nat
      BY LenProperties DEF TypeInv, TypeOK, TransportTypeOK
    <2>2. /\ Len(control') = Len(control) + 1
          /\ \A k \in 1 .. Len(control) : control'[k] = control[k]
          /\ control'[Len(control) + 1] = Hi
      BY <1>3, <2>1, AppendProperties DEF HandshakeReply
    <2>3. ASSUME NEW i \in PingId, \E n \in 1 .. Len(control') : control'[n] = i
          PROVE  \E n \in 1 .. Len(control) : control[n] = i
      BY <2>1, <2>2, <2>3, TransportAssumption
    <2>4. UNCHANGED <<recv, handlerNode, toKafka>>
      BY <1>3, Zenon DEF HandshakeReply, serviceVars
    <2> QED
      BY <1>1, <2>3, <2>4, AwaitUntouched DEF PingOut, OnWire, AnswerIncoming
  <1>4. CASE HandshakeRegister
    <2>1. UNCHANGED <<control, recv, toKafka>>
      BY <1>4 DEF HandshakeRegister, transportVars, serviceVars
    <2>2. handlerNode = NoNode
      BY <1>4 DEF OneHiInv, OneHi, HandshakeRegister, Handshaking
    <2>3. \A i \in PingId : ping[i] = "idle"
      BY <2>2, Zenon DEF AwaitInv, PingsAreAwaited
    <2> QED
      BY <1>1, <2>1, <2>3, Zenon
      DEF AwaitInv, PingsAreAwaited, AnswersReachTheirPing, OnWire, AnswerIncoming
  <1>5. CASE ReactorTake
    <2>1. /\ recv \in Seq(Message) /\ Len(recv) \in Nat /\ Len(recv) > 0
          /\ Head(recv) = recv[1] /\ Len(recv') = Len(recv) - 1
          /\ \A k \in 1 .. Len(recv') : recv'[k] = recv[k + 1]
      BY <1>5, LenProperties, HeadTailProperties, EmptySeq
      DEF ReactorTake, TypeInv, TypeOK, TransportTypeOK
    <2>2. control' = control /\ handlerNode' = handlerNode
      BY <1>5 DEF ReactorTake
    <2>3. ASSUME NEW i \in PingId, \E n \in 1 .. Len(recv') : Answers(recv'[n], i)
          PROVE  \E n \in 1 .. Len(recv) : Answers(recv[n], i)
      <3>1. PICK n \in 1 .. Len(recv') : Answers(recv'[n], i)
        BY <2>3
      <3>2. n + 1 \in 1 .. Len(recv) /\ Answers(recv[n + 1], i)
        BY <2>1, <3>1, SMTT(30)
      <3> QED
        BY <3>2
    <2>4. PingsAreAwaited'
      BY <1>1, <2>2, <2>3, Zenon DEF AwaitInv, PingsAreAwaited, OnWire, AnswerIncoming
    <2>5. ASSUME NEW i \in PingId, i \in toKafka', i \notin toKafka PROVE ping[i] = "done"
      <3>1. /\ recv[1].type = "payload" /\ recv[1].inResponseTo = i
            /\ <<handlerNode, i>> \notin dispatchTable
        BY <1>5, <2>1, <2>5, Zenon DEF ReactorTake, DispatchToKafka, HasWaiter, serviceVars
      <3>2. AnswerIncoming(i)
        <4>1. 1 \in 1 .. Len(recv) /\ Answers(recv[1], i)
          BY <2>1, <3>1 DEF Answers
        <4> QED
          BY <4>1 DEF AnswerIncoming
      <3>3. ping[i] # "idle" /\ pingNode[i] = handlerNode
        BY <3>2, ZenonT(30) DEF AwaitInv, PingsAreAwaited
      <3> QED
        BY <3>1, <3>3, Zenon DEF AwaitInv, PingsAreAwaited
    <2>6. AnswersReachTheirPing'
      BY <1>1, <2>5 DEF AwaitInv, AnswersReachTheirPing
    <2> QED
      BY <2>4, <2>6 DEF AwaitInv
  <1> QED
    BY <1>2, <1>3, <1>4, <1>5, Zenon DEF Reactor, ReactorStep

(* A caller registers before it sends, and unregisters when it is done.    *)
LEMMA PingCalled ==
    ASSUME TypeInv, OneHiInv, AwaitInv, NEW i \in PingId, PingCall(i)
    PROVE  AwaitInv'
  <1>1. UNCHANGED <<controlOut, sendOut, recv, holding, handlerNode, toKafka, published>>
    BY DEF PingCall, PingStart, PingSend, PingGivesUp, PingReturn, transportVars, clientVars,
           reactorVars, kafkaVars
  <1>2. ping \in [PingId -> {"idle", "send", "wait", "answered", "failed", "done"}]
        /\ pingNode \in [PingId -> Node \cup {NoNode}]
    BY DEF TypeInv, TypeOK, ServiceTypeOK
  <1>3. \A k \in PingId : /\ OnWire(k)' <=> OnWire(k)
                          /\ AnswerIncoming(k)' <=> AnswerIncoming(k)
    BY <1>1, ZenonT(30) DEF OnWire, AnswerIncoming
  <1>4. ASSUME NEW n \in Callable, PingStart(i, n) PROVE AwaitInv'
    <2>1. n = handlerNode /\ handlerNode # NoNode
      BY Zenon DEF Callable, OneHiInv, OneHi
    <2> QED
      BY <1>1, <1>2, <1>3, <1>4, <2>1
      DEF PingStart, PingGoto, transportVars, AwaitInv, PingsAreAwaited, AnswersReachTheirPing
  <1>5. CASE PingSend(i)
    <2>1. control \in Seq(PingId \cup {Hi}) /\ Len(control) \in Nat
      BY LenProperties DEF TypeInv, TypeOK, TransportTypeOK
    <2>2. /\ Len(control') = Len(control) + 1
          /\ \A k \in 1 .. Len(control) : control'[k] = control[k]
          /\ control'[Len(control) + 1] = i
      <3>1. control' = Append(control, i) /\ i \in PingId \cup {Hi}
        BY <1>5, Zenon DEF PingSend
      <3> QED
        BY <2>1, <3>1, AppendProperties, SMTT(30)
    <2>3. ASSUME NEW k \in PingId, \E n \in 1 .. Len(control') : control'[n] = k
          PROVE  k = i \/ \E n \in 1 .. Len(control) : control[n] = k
      BY <2>1, <2>2, <2>3, SMTT(30)
    <2> QED
      BY <1>1, <1>2, <1>3, <1>5, <2>3, Zenon
      DEF PingSend, PingGoto, AwaitInv, PingsAreAwaited, AnswersReachTheirPing
  <1>6. CASE PingGivesUp(i)
    BY <1>1, <1>2, <1>3, <1>6, Zenon
    DEF PingGivesUp, PingGoto, transportVars, AwaitInv, PingsAreAwaited, AnswersReachTheirPing
  <1>7. CASE PingReturn(i)
    BY <1>1, <1>2, <1>3, <1>7
    DEF PingReturn, PingGoto, transportVars, AwaitInv, PingsAreAwaited, AnswersReachTheirPing
  <1> QED
    BY <1>4, <1>5, <1>6, <1>7 DEF PingCall

(* Every ping that left its caller is awaited, whoever takes the step.     *)
LEMMA AwaitStep ==
    ASSUME TypeInv, OneHiInv, AwaitInv, [Next]_vars
    PROVE  AwaitInv'
  <1>1. CASE Peer \/ CloseCall \/ ErrorChannel
    <2>1. UNCHANGED <<ping, pingNode, dispatchTable, handlerNode, toKafka, published,
                      control, controlOut, sendOut, recv, holding>>
      BY <1>1, Zenon DEF Peer, PeerCloses, CloseCall, Cancel, ErrorChannel, WriterExit, clientVars,
                  readerVars, serviceVars, reactorVars
    <2> QED
      BY <2>1, AwaitUntouched, Zenon DEF PingOut, OnWire, AnswerIncoming
  <1>2. CASE ResponseChannel
    <2> DEFINE a == Head(current).inResponseTo
    <2>1. a \in PingId /\ ping[a] = "wait" /\ ping' = [ping EXCEPT ![a] = "answered"]
      <3>1. PICK m \in PayloadMsg : m.inResponseTo \in PingId /\ current = <<m>>
        BY <1>2, Zenon DEF ResponseChannel, TypeInv, InHand
      <3>2. Head(current) = m
        BY <3>1, HeadOfOne, Zenon
      <3> QED
        BY <1>2, <3>1, <3>2, Zenon DEF ResponseChannel, PingGoto
    <2>2. UNCHANGED <<pingNode, dispatchTable, handlerNode, toKafka, published,
                      control, controlOut, sendOut, recv, holding>>
      BY <1>2, Zenon DEF ResponseChannel, transportVars, clientVars, kafkaVars
    <2>3. ping \in [PingId -> {"idle", "send", "wait", "answered", "failed", "done"}]
      BY Zenon DEF TypeInv, TypeOK, ServiceTypeOK
    <2> HIDE DEF a
    <2> QED
      BY <2>1, <2>2, <2>3, ZenonT(30)
      DEF AwaitInv, PingsAreAwaited, AnswersReachTheirPing, OnWire, AnswerIncoming
  <1>3. ASSUME NEW i \in PingId \cup JobId, JobCall(i) \/ Kafka(i) PROVE AwaitInv'
    <2>1. /\ UNCHANGED <<ping, pingNode, dispatchTable, handlerNode,
                         control, controlOut, sendOut, recv, holding>>
          /\ toKafka' \cup published' \subseteq toKafka \cup published
      BY <1>3, Zenon DEF JobCall, JobStart, JobSend, JobGivesUp, Kafka, KafkaWrite, transportVars,
                  clientVars, pingVars, kafkaVars, reactorVars
    <2> QED
      BY <2>1, AwaitUntouched, Zenon DEF PingOut, OnWire, AnswerIncoming
  <1>4. CASE UNCHANGED vars
    BY <1>4, AwaitUntouched, Zenon DEF vars, transportVars, clientVars, serviceVars, reactorVars,
                                PingOut, OnWire, AnswerIncoming
  <1>5. CASE DispatchPanics
    <2>1. /\ ~\E n \in 1 .. Len(recv') : TRUE
          /\ ~\E n \in 1 .. Len(control') : TRUE
      <3>1. recv' = <<>> /\ control' = <<>> /\ Len(<<>>) = 0
        BY <1>5, PanicEnds, EmptySeq, Zenon
      <3> QED
        BY <3>1
    <2>2. \A i \in PingId : PingOut(i)' => PingOut(i)
      BY <1>5, <2>1, PanicEnds, Zenon DEF PingOut, OnWire, AnswerIncoming
    <2>3. \A i \in PingId : ping'[i] \in {"idle", "done"} /\ (ping'[i] = "idle" <=> ping[i] = "idle")
      BY <1>5, PanicEnds, Zenon
    <2>4. UNCHANGED <<pingNode, handlerNode, published>> /\ toKafka' = {}
      BY <1>5, PanicEnds, Zenon
    <2>5. PingsAreAwaited'
      BY <2>2, <2>3, <2>4, Zenon DEF AwaitInv, PingsAreAwaited, PingOut
    <2>6. AnswersReachTheirPing'
      <3>1. ASSUME NEW i \in PingId, i \in published PROVE ping'[i] = "done"
        <4>1. ping[i] = "done"
          BY <3>1, Zenon DEF AwaitInv, AnswersReachTheirPing
        <4> QED
          BY <2>3, <4>1
      <3> QED
        BY <2>4, <3>1, Zenon DEF AnswersReachTheirPing
    <2> QED
      BY <2>5, <2>6, Zenon DEF AwaitInv
  <1> QED
    BY <1>1, <1>2, <1>3, <1>4, <1>5, AnswerRead, PingWritten, AnswerHandled, PingCalled, Zenon DEF Next

(***************************************************************************)
(* In a session whose peer says HI once, the answer of a ping goes to its  *)
(* caller as long as that waits, and to Kafka only afterwards.             *)
(***************************************************************************)
THEOREM AnswersAreNotOvertaken ==
    ASSUME MaxHi <= 1
    PROVE  Spec => []AnswersReachTheirPing
  <1>1. Init => AwaitInv
    BY EmptySeq, SMTT(30) DEF Init, TransportInit, ClientInit, ServiceInit, ReactorInit, AwaitInv,
                    PingsAreAwaited, AnswersReachTheirPing, OnWire, AnswerIncoming
  <1>2. AwaitInv => AnswersReachTheirPing
    BY DEF AwaitInv
  <1> QED
    BY <1>1, <1>2, AwaitStep, OneHiInvariance, SessionTypeInvariance, PTL DEF Spec

-----------------------------------------------------------------------------
(***************************************************************************)
(* Who may block for ever.                                                 *)
(***************************************************************************)
(* A step that leaves table and calls alone, and ends no reader without    *)
(* cancelling the context.                                                 *)
LEMMA EndsUntouched ==
    ASSUME EndsAreSeen, UNCHANGED <<dispatchTable, ping, reactor, current>>,
           reader' = "exit" => ctxDone'
    PROVE  EndsAreSeen'
  BY Zenon DEF EndsAreSeen

(* The reactor takes an answer for a ping whose channel is in the table.   *)
LEMMA AnswerTaken ==
    ASSUME TypeInv, EndsAreSeen, Reactor
    PROVE  EndsAreSeen'
  <1>1. UNCHANGED <<reader, ctxDone, ping, dispatchTable>>
    BY Zenon DEF Reactor, ReactorStep, ReactorDone, ReactorTake, HandshakeReply, HandshakeGivesUp,
           HandshakeRegister, HandshakeRejected, DispatchToKafka, Return, clientVars, transportVars,
           serviceVars, pingVars
  <1>2. reactor' = "answer" => ping[Head(current').inResponseTo] # "idle"
    <2>1. CASE ReactorTake
      <3> SUFFICES ASSUME reactor' = "answer" PROVE ping[Head(current').inResponseTo] # "idle"
        OBVIOUS
      <3>1. reactor = "select" /\ handlerNode # NoNode /\ HasWaiter(handlerNode, Head(recv))
            /\ current' = <<Head(recv)>>
        BY <2>1 DEF ReactorTake
      <3>2. handlerNode \in Node /\ dispatchTable \subseteq Node \X PingId
        BY <3>1 DEF TypeInv, TypeOK, ServiceTypeOK, ReactorTypeOK
      <3>3. Head(recv).inResponseTo \in PingId
        BY <3>1, <3>2, Zenon DEF HasWaiter
      <3> QED
        BY <3>1, <3>2, <3>3 DEF HasWaiter, EndsAreSeen
    <2>2. CASE ~ReactorTake
      BY <2>2, Zenon DEF Reactor, ReactorStep, ReactorDone, HandshakeReply, HandshakeGivesUp,
                  HandshakeRegister, HandshakeRejected, Return
    <2> QED
      BY <2>1, <2>2
  <1> QED
    BY <1>1, <1>2, Zenon DEF EndsAreSeen

(* A ping enters its channel in the table as it begins.                    *)
LEMMA PingEnds ==
    ASSUME TypeInv, EndsAreSeen, NEW i \in PingId, PingCall(i)
    PROVE  EndsAreSeen'
  <1>1. UNCHANGED <<reader, ctxDone, reactor, current>>
    BY DEF PingCall, PingStart, PingSend, PingGivesUp, PingReturn, clientVars, reactorVars,
           transportVars
  <1>2. ping \in [PingId -> {"idle", "send", "wait", "answered", "failed", "done"}]
    BY Zenon DEF TypeInv, TypeOK, ServiceTypeOK
  <1>3. \A k \in PingId : ping[k] # "idle" => ping'[k] # "idle"
    BY <1>2, Zenon DEF PingCall, PingStart, PingSend, PingGivesUp, PingReturn, PingGoto
  <1>4. ping'[i] # "idle" /\ \A n, k : <<n, k>> \in dispatchTable' => <<n, k>> \in dispatchTable \/ k = i
    BY <1>2 DEF PingCall, PingStart, PingSend, PingGivesUp, PingReturn, PingGoto
  <1>5. reactor = "answer" => Head(current).inResponseTo \in PingId
    BY DEF TypeInv, InHand
  <1> QED
    BY <1>1, <1>3, <1>4, <1>5, Zenon DEF EndsAreSeen

(* Every step keeps the invariant.                                         *)
LEMMA EndsStep ==
    ASSUME TypeInv, EndsAreSeen, [Next]_vars
    PROVE  EndsAreSeen'
  <1>1. CASE Reader
    <2>1. /\ UNCHANGED <<dispatchTable, current, reactor, ping>>
          /\ reader' = "exit" => ctxDone'
      BY <1>1, Zenon DEF Reader, ClientReader, ReaderMessage, ReaderPass, ReaderError, ReaderDone,
                  ReaderExit, serviceVars, reactorVars
    <2> QED
      BY <2>1, EndsUntouched, Zenon
  <1>2. CASE Writer \/ Peer \/ CloseCall
    <2>1. /\ UNCHANGED <<dispatchTable, current, reactor, ping, reader>>
          /\ ctxDone => ctxDone'
      BY <1>2 DEF Writer, ClientWriter, WriterDone, WriterControl, WriterSend, WriterPingFails,
                  WriterExit, MessageGetsOut, MessageIsLost, Peer, PeerCloses, CloseCall, Cancel,
                  clientVars, readerVars, serviceVars, reactorVars
    <2> QED
      BY <2>1, EndsUntouched, Zenon DEF EndsAreSeen
  <1>3. CASE ErrorChannel \/ ResponseChannel
    <2>1. /\ UNCHANGED <<dispatchTable, reader, ctxDone>> /\ reactor' = "select"
      BY <1>3, ZenonT(30) DEF ErrorChannel, ResponseChannel, WriterExit, Return, serviceVars, transportVars,
                  clientVars, readerVars
    <2>2. \A k \in PingId : ping[k] # "idle" => ping'[k] # "idle"
      BY <1>3, Zenon DEF ErrorChannel, ResponseChannel, PingGoto, serviceVars, TypeInv, TypeOK, ServiceTypeOK
    <2> QED
      BY <2>1, <2>2, Zenon DEF EndsAreSeen
  <1>4. ASSUME NEW i \in PingId \cup JobId, JobCall(i) \/ Kafka(i) PROVE EndsAreSeen'
    <2>1. UNCHANGED <<dispatchTable, current, reactor, ping, reader, ctxDone>>
      BY <1>4, Zenon DEF JobCall, JobStart, JobSend, JobGivesUp, Kafka, KafkaWrite, transportVars,
                  clientVars, reactorVars, pingVars
    <2> QED
      BY <2>1, Zenon DEF EndsAreSeen
  <1>5. CASE UNCHANGED vars
    BY <1>5, Zenon DEF vars, transportVars, clientVars, serviceVars, reactorVars, EndsAreSeen
  <1>6. CASE DispatchPanics
    BY <1>6, PanicEnds, Zenon DEF EndsAreSeen
  <1> QED
    BY <1>1, <1>2, <1>3, <1>4, <1>5, <1>6, AnswerTaken, PingEnds DEF Next

(***************************************************************************)
(* OnlyBareSendsBlock, for any number of HIs.  A reader that cannot go on  *)
(* has returned, and then the context is done, or faces a full queue: in   *)
(* either case a reactor in its select can go on.  A reactor that sends on *)
(* the channel of a ping does so after the ping has begun, so that, with   *)
(* all callers returned, the ping is over.                                 *)
(***************************************************************************)
THEOREM NobodyElseBlocks == Spec => []OnlyBareSendsBlock
  <1>1. Init => EndsAreSeen
    BY DEF Init, ClientInit, ServiceInit, ReactorInit, EndsAreSeen
  <1>2. TypeInv /\ EndsAreSeen /\ [Next]_vars => EndsAreSeen'
    BY EndsStep
  <1>3. TypeInv /\ EndsAreSeen => OnlyBareSendsBlock
    <2> SUFFICES ASSUME TypeInv, EndsAreSeen, AtRest PROVE reactor = "exit" \/ Stranded \/ Unheard
      BY DEF OnlyBareSendsBlock
    <2>1. CASE reactor = "select" /\ recv = <<>> /\ ~ctxDone
      <3>1. Len(recv) = 0 /\ Room(recv)
        BY <2>1, TransportAssumption, SMTT(30) DEF Room
      <3> QED
        BY <2>1, <3>1 DEF AtRest, EndsAreSeen
    <2>2. CASE reactor = "answer"
      <3>1. Head(current).inResponseTo \in PingId
        BY <2>2 DEF TypeInv, InHand
      <3> QED
        BY <2>2, <3>1 DEF AtRest, EndsAreSeen, Stranded
    <2> QED
      BY <2>1, <2>2 DEF AtRest
  <1> QED
    BY <1>1, <1>2, <1>3, SessionTypeInvariance, PTL DEF Spec

(***************************************************************************)
(* The same for the registration, with one HI: a session that is closed    *)
(* and cannot go on is unregistered, unless it is stranded with the answer *)
(* of a ping.  A rejected handshake blocks before anything is registered.  *)
(***************************************************************************)
THEOREM OnlyStrandedStayRegistered ==
    ASSUME MaxHi <= 1
    PROVE  Spec => [](AtRest => registered = {} \/ Stranded)
  <1>1. OneHiInv /\ OnlyBareSendsBlock => (AtRest => registered = {} \/ Stranded)
    BY DEF OneHiInv, OneHi, NoRegistrationLeft, Handshaking, OnlyBareSendsBlock, Unheard
  <1> QED
    BY <1>1, OneHiInvariance, NobodyElseBlocks, PTL
=============================================================================
