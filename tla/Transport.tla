------------------------------ MODULE Transport ------------------------------
(***************************************************************************)
(* What the goroutines of one websocket session share: its channels, its   *)
(* context and its socket (internal/controller/transport.go, and           *)
(* handleWebSocket in internal/controller/ws/handler.go, which makes them).*)
(*                                                                         *)
(* A message on its way to the node is Hi (the reply of the handshake), a  *)
(* ping or a job; pings and jobs are named by the uuid of their message.   *)
(* The error channel and the channel a ping waits on are unbuffered: a     *)
(* transfer over one is a joint step of its two ends in WebSocketSession.  *)
(***************************************************************************)
EXTENDS Naturals, Sequences

CONSTANTS
    Node,                   \* node ids the peer may announce
    NoNode,
    PingId,                 \* uuids of the pings, one caller each
    JobId,                  \* uuids of the jobs, one caller each
    NoId,                   \* an in_response_to that is not a uuid
    Hi,                     \* the reply of the handshake
    BufferedChannelSize     \* capacity of send, control and recv

ASSUME TransportAssumption ==
    /\ NoNode \notin Node
    /\ PingId \cap JobId = {}
    /\ Hi \notin PingId \cup JobId
    /\ NoId \notin PingId \cup JobId
    /\ BufferedChannelSize \in Nat \ {0}

VARIABLES
    ctxDone,    \* Ctx is cancelled
    socket,     \* "open", or "closed" by either side
    recv,       \* Recv: from the reader to the reactor
    control,    \* ControlChannel
    send        \* Send

transportVars == <<ctxDone, socket, recv, control, send>>

\* What the peer sends, after ReadMessage.  The recipient of a payload is the
\* controller ("us") or "other"; ReadMessage returns a payload frame that came
\* without a header frame with no routing information at all ("none").  Only
\* of the first kind is in_response_to looked at.
HiMsg == [type : {"hi"}, node : Node]

PayloadMsg ==
    [type : {"payload"}, recipient : {"us"}, inResponseTo : PingId \cup JobId \cup {NoId}]
    \cup [type : {"payload"}, recipient : {"other", "none"}, inResponseTo : {NoId}]

RouteMsg == [type : {"route"}]

Message == HiMsg \cup PayloadMsg \cup RouteMsg

TransportTypeOK ==
    /\ ctxDone \in BOOLEAN
    /\ socket \in {"open", "closed"}
    /\ recv \in Seq(Message) /\ Len(recv) <= BufferedChannelSize
    /\ control \in Seq(PingId \cup {Hi}) /\ Len(control) <= BufferedChannelSize
    /\ send \in Seq(JobId) /\ Len(send) <= BufferedChannelSize

TransportInit ==
    /\ ctxDone = FALSE
    /\ socket = "open"
    /\ recv = <<>>
    /\ control = <<>>
    /\ send = <<>>

Room(channel) == Len(channel) < BufferedChannelSize

\* ReceptorService.Close: Transport.Cancel().
Cancel ==
    /\ ~ctxDone
    /\ ctxDone' = TRUE
    /\ UNCHANGED <<socket, recv, control, send>>
=============================================================================
