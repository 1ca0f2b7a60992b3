-------------------------- MODULE WebSocketSession --------------------------
(***************************************************************************)
(* One websocket session of a gateway pod: reader, writer and reactor, the *)
(* API calls made on the connection, and the peer.                         *)
(***************************************************************************)
EXTENDS WebSocketClient, ResponseReactor

vars == <<transportVars, clientVars, serviceVars, reactorVars>>

(***************************************************************************)
(* Every variable of the transport, the goroutines and the calls has its   *)
(* type; no channel ever holds more than its capacity.                     *)
(***************************************************************************)
TypeOK ==
    /\ TransportTypeOK
    /\ ClientTypeOK
    /\ ServiceTypeOK
    /\ ReactorTypeOK

Init ==
    /\ TransportInit
    /\ ClientInit
    /\ ServiceInit
    /\ ReactorInit

Reader == ClientReader /\ UNCHANGED <<serviceVars, reactorVars>>

Writer == ClientWriter /\ UNCHANGED <<serviceVars, reactorVars>>

Peer == PeerCloses /\ UNCHANGED <<serviceVars, reactorVars>>

Reactor == ReactorStep /\ UNCHANGED clientVars

\* The send on the error channel: the writer closes the socket and returns.
ErrorChannel ==
    /\ reactor = "error"
    /\ writer # "exit"
    /\ WriterExit
    /\ Return
    /\ UNCHANGED <<control, send, controlOut, sendOut, serviceVars, handlerNode, registered>>

\* The send on the channel of a ping, which has to be in waitForResponse.
ResponseChannel ==
    LET i == Head(current).inResponseTo IN
    /\ reactor = "answer"
    /\ ping[i] = "wait"
    /\ PingGoto(i, "answered")
    /\ Return
    /\ UNCHANGED <<transportVars, clientVars, dispatchTable, pingNode, jobVars,
                   kafkaVars, handlerNode, registered>>

(***************************************************************************)
(* DispatchResponse panics on a payload without routing information, once  *)
(* a handshake has given it a handler.  Nobody recovers, so the process of *)
(* the pod ends, with the goroutines and the calls of this session and of  *)
(* all others; what they registered in Redis stays there (the Crash of     *)
(* ConnectionRegistry).                                                    *)
(***************************************************************************)
DispatchPanics ==
    LET m == Head(recv) IN
    /\ reactor = "select"
    /\ recv # <<>>
    /\ m.type = "payload" /\ handlerNode # NoNode /\ ~HasRouting(m)
    /\ reactor' = "crashed"
    /\ reader' = "exit" /\ holding' = <<>>
    /\ writer' = "exit"
    /\ ctxDone' = TRUE /\ socket' = "closed"
    /\ recv' = <<>> /\ control' = <<>> /\ send' = <<>>
    /\ ping' = [i \in PingId |-> IF ping[i] = "idle" THEN "idle" ELSE "done"]
    /\ dispatchTable' = {}
    /\ job' = [j \in JobId |-> IF job[j] = "send" THEN "failed" ELSE job[j]]
    /\ toKafka' = {}
    /\ UNCHANGED <<controlOut, sendOut, received, his, pingNode, accepted,
                   published, current, handlerNode, registered>>

(***************************************************************************)
(* The connections the API may call: those of the registered nodes, and    *)
(* one that was looked up before it was unregistered.                      *)
(***************************************************************************)
Callable ==
    {n \in registered \cup {handlerNode} : n # NoNode /\ reactor # "crashed"}

PingCall(i) ==
    /\ \/ \E n \in Callable : PingStart(i, n)
       \/ PingSend(i)
       \/ PingGivesUp(i)
       \/ PingReturn(i)
    /\ UNCHANGED <<clientVars, reactorVars>>

JobCall(j) ==
    /\ \/ Callable # {} /\ JobStart(j)
       \/ JobSend(j)
       \/ JobGivesUp(j)
    /\ UNCHANGED <<clientVars, reactorVars>>

\* Close, by /connection/disconnect, a shutdown or the registrar.
CloseCall ==
    /\ Callable # {}
    /\ Cancel
    /\ UNCHANGED <<clientVars, serviceVars, reactorVars>>

Kafka(i) == KafkaWrite(i) /\ UNCHANGED <<clientVars, reactorVars>>

Next ==
    \/ Reader
    \/ Writer
    \/ Peer
    \/ Reactor
    \/ ErrorChannel
    \/ ResponseChannel
    \/ DispatchPanics
    \/ CloseCall
    \/ \E i \in PingId : PingCall(i)
    \/ \E j \in JobId : JobCall(j)
    \/ \E i \in PingId \cup JobId : Kafka(i)

Spec == Init /\ [][Next]_vars

(***************************************************************************)
(* Goroutines that can go on do; a read on a closed socket fails; a call   *)
(* that has begun times out or gets through.  The peer need not send or    *)
(* close, and nobody need call.                                            *)
(***************************************************************************)
Fairness ==
    /\ WF_vars(Reader /\ (reader = "recv" \/ socket = "closed"))
    /\ WF_vars(WriterDone /\ Writer)
    /\ WF_vars((WriterControl \/ WriterSend) /\ Writer)
    /\ WF_vars(Reactor \/ DispatchPanics)
    /\ WF_vars(ErrorChannel)
    /\ WF_vars(ResponseChannel)
    /\ \A i \in PingId : WF_vars(ping[i] # "idle" /\ PingCall(i))
    /\ \A j \in JobId : WF_vars(job[j] # "idle" /\ JobCall(j))
    /\ \A i \in PingId \cup JobId : WF_vars(Kafka(i))

FairSpec == Spec /\ Fairness

-----------------------------------------------------------------------------
(***************************************************************************)
(* Safety.                                                                 *)
(***************************************************************************)
(***************************************************************************)
(* A job that SendMessage reports as sent is written, exactly once and in  *)
(* the order of the calls, or still queued, as long as no write fails; and *)
(* once one has failed no later job gets out, so that the node never sees  *)
(* a gap in the jobs it was sent.                                          *)
(***************************************************************************)
JobsAreWrittenInOrder ==
    /\ sendOut = SubSeq(accepted, 1, Len(sendOut))
    /\ writer = "select" => accepted = sendOut \o send

(***************************************************************************)
(* The answer of a ping is put on the Kafka topic only after the caller of *)
(* the ping has returned: the channel is registered before the ping can    *)
(* reach the node, so no answer overtakes its registration.  (One HI for a *)
(* session.)                                                               *)
(***************************************************************************)
AnswersReachTheirPing ==
    \A i \in PingId \cap (toKafka \cup published) : ping[i] = "done"

(***************************************************************************)
(* When the reactor has returned, the session holds no registration in the *)
(* connection manager.  (One HI for a session.)                            *)
(***************************************************************************)
NoRegistrationLeft == reactor = "exit" => registered = {}

(***************************************************************************)
(* No ping is written before the reply of the handshake: a node is only    *)
(* registered, and so reachable through the API, once the reply is in the  *)
(* control channel, which is a queue.                                      *)
(***************************************************************************)
ReplyPrecedesPings ==
    \A n \in 1 .. Len(controlOut) :
        controlOut[n] \in PingId => \E k \in 1 .. n : controlOut[k] = Hi

\* The reactor sends on the channel of a ping that has given up: for ever.
Stranded ==
    /\ reactor = "answer"
    /\ ping[Head(current).inResponseTo] \in {"failed", "done"}

\* The reactor reports a failed handshake to a writer that has returned.
Unheard == reactor = "error" /\ writer = "exit"

\* The socket is closed, all callers have returned and no goroutine can go on.
AtRest ==
    /\ socket = "closed"
    /\ \A i \in PingId : ping[i] \in {"idle", "done"}
    /\ \/ reader = "exit"
       \/ reader = "recv" /\ ~Room(recv) /\ ~ctxDone
    /\ \/ reactor = "exit"
       \/ reactor = "select" /\ recv = <<>> /\ ~ctxDone
       \/ reactor = "answer" /\ ping[Head(current).inResponseTo] # "wait"
       \/ Unheard

(***************************************************************************)
(* When the socket is closed and nobody can go on, whoever has ended first *)
(* and however full the channels are, the reactor has returned, or it is   *)
(* in one of the two sends without a select: the answer of a ping that     *)
(* gave up, or the error of a handshake after the writer has returned.     *)
(* Reader and reactor never wait for each other.                           *)
(***************************************************************************)
OnlyBareSendsBlock == AtRest => reactor = "exit" \/ Stranded \/ Unheard

-----------------------------------------------------------------------------
(***************************************************************************)
(* Strengthenings that make the invariants above inductive.                *)
(***************************************************************************)
Handshaking == reactor \in {"hello", "register", "error"}

\* What the reader passes on and what the reactor handles.
InHand ==
    /\ reader = "recv" => \E m \in Message : holding = <<m>>
    /\ reader # "recv" => holding = <<>>
    /\ Handshaking => \E m \in HiMsg : current = <<m>>
    /\ reactor = "answer" =>
          \E m \in PayloadMsg : m.inResponseTo \in PingId /\ current = <<m>>

HiInHand == holding # <<>> /\ IsHi(Head(holding))

HiQueued(n) == n \in 1 .. Len(recv) /\ IsHi(recv[n])

\* With one HI for a session, it is in one place, and then it is registered.
OneHi ==
    /\ his = 0 => /\ ~HiInHand /\ ~Handshaking /\ handlerNode = NoNode
                  /\ \A n \in 1 .. Len(recv) : ~HiQueued(n)
    /\ HiInHand => /\ ~Handshaking /\ handlerNode = NoNode
                   /\ \A n \in 1 .. Len(recv) : ~HiQueued(n)
    /\ \A n \in 1 .. Len(recv) : HiQueued(n) =>
          /\ ~Handshaking /\ handlerNode = NoNode
          /\ \A k \in 1 .. Len(recv) : HiQueued(k) => k = n
    /\ Handshaking => handlerNode = NoNode
    /\ registered \subseteq {handlerNode} \ {NoNode}

\* An answer to ping i is on its way to the reactor.
Answers(m, i) == m.type = "payload" /\ m.inResponseTo = i

AnswerIncoming(i) ==
    \/ holding # <<>> /\ Answers(Head(holding), i)
    \/ \E n \in 1 .. Len(recv) : Answers(recv[n], i)

\* A ping that left its caller was registered for its answer before.
PingsAreAwaited ==
    \A i \in PingId :
        /\ ping[i] # "idle" => pingNode[i] = handlerNode /\ handlerNode # NoNode
        /\ ping[i] \notin {"idle", "done"} => <<pingNode[i], i>> \in dispatchTable
        /\ \/ \E n \in 1 .. Len(control) : control[n] = i
           \/ OnWire(i)
           \/ AnswerIncoming(i)
           => ping[i] # "idle"

HiOut == \E k \in 1 .. Len(controlOut) : controlOut[k] = Hi

\* As long as nothing is lost, the reply is ahead of every ping.
ReplyIsAhead ==
    writer = "select" =>
        /\ \A n \in 1 .. Len(control) : control[n] \in PingId =>
              HiOut \/ \E k \in 1 .. n - 1 : control[k] = Hi
        /\ \/ reactor \in {"register", "error"}
           \/ Callable # {}
           \/ \E i \in PingId : ping[i] # "idle"
           => HiOut \/ \E k \in 1 .. Len(control) : control[k] = Hi

\* The handler of a reader that returned has cancelled the context; a channel
\* is in the table, and the reactor sends on it, only once its ping has begun.
EndsAreSeen ==
    /\ reader = "exit" => ctxDone
    /\ \A n \in Node, i \in PingId : <<n, i>> \in dispatchTable => ping[i] # "idle"
    /\ reactor = "answer" => ping[Head(current).inResponseTo] # "idle"

-----------------------------------------------------------------------------
(***************************************************************************)
(* Liveness.                                                               *)
(***************************************************************************)
(***************************************************************************)
(* Once the socket is closed, whoever closed it, the session is            *)
(* unregistered in the end, unless DispatchResponse is stranded with the   *)
(* answer of a ping that gave up, or has panicked: no other order in which *)
(* reader, writer, reactor and callers end keeps the registration.  (One   *)
(* HI for a session.)                                                      *)
(***************************************************************************)
OnlyDispatchBlocksUnregister ==
    socket = "closed" ~> registered = {} \/ Stranded \/ reactor = "crashed"

(***************************************************************************)
(* README.md: "Redis is responsible for maintaining a mapping of where the *)
(* websocket connections live": once the socket is closed, the session is  *)
(* unregistered in the end, as long as the process lives.                  *)
(***************************************************************************)
ClosedSessionsUnregister ==
    socket = "closed" ~> registered = {} \/ reactor = "crashed"

(***************************************************************************)
(* Every ping sent through the API returns to its caller, whether or not   *)
(* it got on the control channel, was answered or lost its connection, or  *)
(* ends with the process.                                                  *)
(***************************************************************************)
CallsReturn == \A i \in PingId : ping[i] = "send" ~> ping[i] = "done"
=============================================================================
