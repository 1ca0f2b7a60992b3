--------------------------- MODULE ResponseReactor ---------------------------
(***************************************************************************)
(* The goroutine that handles what the reader passes on                    *)
(* (internal/controller/response_reactor.go) and its handlers: handshake,  *)
(* route table, payload and disconnect.                                    *)
(*                                                                         *)
(* reactor is the place of the goroutine:                                  *)
(*   select    in Run's select                                             *)
(*   hello     handshake: replying on the control channel                  *)
(*   register  handshake: in ConnectionMgr.Register                        *)
(*   error     handshake: in the send on the error channel                 *)
(*   answer    DispatchResponse: in the send on a ping's channel           *)
(*   exit      returned                                                    *)
(*   crashed   panicked, which ends the process                            *)
(* current is the message it handles.  The connection manager is the       *)
(* registry of the other modules; of it only the set of nodes that this    *)
(* session has registered is kept here.                                    *)
(***************************************************************************)
EXTENDS ReceptorService

VARIABLES
    reactor,        \* its place
    current,        \* the message it handles, in a sequence
    handlerNode,    \* the node of the disconnect, route and payload handlers
    registered      \* the nodes this session has registered

reactorVars == <<reactor, current, handlerNode, registered>>

ReactorTypeOK ==
    /\ reactor \in {"select", "hello", "register", "error", "answer", "exit", "crashed"}
    /\ current \in Seq(Message)
    /\ handlerNode \in Node \cup {NoNode}
    /\ registered \subseteq Node

ReactorInit ==
    /\ reactor = "select"
    /\ current = <<>>
    /\ handlerNode = NoNode
    /\ registered = {}

Return ==
    /\ reactor' = "select"
    /\ current' = <<>>

\* Mutant: Run returns without calling the disconnect handler.
ReactorDone_NoHandler ==
    /\ reactor = "select"
    /\ ctxDone
    /\ reactor' = "exit"
    /\ UNCHANGED <<transportVars, serviceVars, current, handlerNode, registered>>

\* Run: the context is done; the disconnect handler unregisters its node.
ReactorDone ==
    /\ reactor = "select"
    /\ ctxDone
    /\ reactor' = "exit"
    /\ registered' = registered \ {handlerNode}
    /\ UNCHANGED <<transportVars, serviceVars, current, handlerNode>>

\* Run takes a message; until a handshake succeeds only HI has a handler.  The
\* payload that DispatchResponse panics on is left to WebSocketSession.
ReactorTake ==
    LET m == Head(recv) IN
    /\ reactor = "select"
    /\ recv # <<>>
    /\ recv' = Tail(recv)
    /\ UNCHANGED <<ctxDone, socket, control, send, handlerNode, registered>>
    /\ \/ /\ m.type = "hi"
          /\ reactor' = "hello"
          /\ current' = <<m>>
          /\ UNCHANGED serviceVars
       \/ /\ \/ m.type = "route"
             \/ m.type = "payload" /\ handlerNode = NoNode
             \/ m.type = "payload" /\ HasRouting(m) /\ Discarded(m)
          /\ UNCHANGED <<reactor, current, serviceVars>>
       \/ /\ m.type = "payload" /\ handlerNode # NoNode
          /\ HasRouting(m) /\ ~Discarded(m)
          /\ IF HasWaiter(handlerNode, m)
             THEN /\ reactor' = "answer"
                  /\ current' = <<m>>
                  /\ UNCHANGED serviceVars
             ELSE /\ DispatchToKafka(m)
                  /\ UNCHANGED <<reactor, current>>

\* Mutant: the node is registered without a reply.
HandshakeReply_Skipped ==
    /\ reactor = "hello"
    /\ reactor' = "register"
    /\ UNCHANGED <<transportVars, serviceVars, current, handlerNode, registered>>

\* HandshakeHandler: the reply, or the context or ten seconds run out.
HandshakeReply ==
    /\ reactor = "hello"
    /\ Room(control)
    /\ control' = Append(control, Hi)
    /\ reactor' = "register"
    /\ UNCHANGED <<ctxDone, socket, recv, send, serviceVars, current, handlerNode, registered>>

HandshakeGivesUp ==
    /\ reactor = "hello"
    /\ ctxDone \/ ~Room(control)
    /\ Return
    /\ UNCHANGED <<transportVars, serviceVars, handlerNode, registered>>

\* Register succeeds: the handlers of the new service replace the old ones.
HandshakeRegister ==
    LET n == Head(current).node IN
    /\ reactor = "register"
    /\ n \notin registered
    /\ registered' = registered \cup {n}
    /\ handlerNode' = n
    /\ Return
    /\ UNCHANGED <<transportVars, serviceVars>>

\* Register fails: the node is registered, here or elsewhere, or Redis failed.
HandshakeRejected ==
    /\ reactor = "register"
    /\ reactor' = "error"
    /\ UNCHANGED <<transportVars, serviceVars, current, handlerNode, registered>>

ReactorStep ==
    \/ ReactorDone
    \/ ReactorTake
    \/ HandshakeReply
    \/ HandshakeGivesUp
    \/ HandshakeRegister
    \/ HandshakeRejected
=============================================================================
