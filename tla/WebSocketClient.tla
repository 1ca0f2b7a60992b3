--------------------------- MODULE WebSocketClient ---------------------------
(***************************************************************************)
(* The goroutine that reads from the socket and the one that writes to it  *)
(* (internal/controller/ws/client.go).  The reader runs in the HTTP        *)
(* handler: when it returns, the handler's deferred calls close the socket *)
(* and cancel the context.                                                 *)
(***************************************************************************)
EXTENDS Transport

CONSTANTS
    MaxIncoming,    \* bound on the messages the peer sends
    MaxHi           \* bound on how many of them are HI

ASSUME ClientAssumption == MaxIncoming \in Nat /\ MaxHi \in Nat

VARIABLES
    reader,         \* "next": in NextReader; "recv": passing a message on; "exit"
    holding,        \* the message the reader passes on, in a sequence
    writer,         \* "select", "failing": nothing it writes gets out, or "exit"
    controlOut,     \* what was written to the socket from the control channel
    sendOut,        \* and from the send channel; no order holds between the two
    received,       \* how many messages were read so far
    his             \* how many of them were HI

clientVars == <<reader, holding, writer, controlOut, sendOut, received, his>>

readerVars == <<reader, holding, received, his>>
writerVars == <<writer, controlOut, sendOut>>

ClientTypeOK ==
    /\ reader \in {"next", "recv", "exit"}
    /\ holding \in Seq(Message)
    /\ writer \in {"select", "failing", "exit"}
    /\ controlOut \in Seq(PingId \cup {Hi})
    /\ sendOut \in Seq(JobId)
    /\ received \in 0 .. MaxIncoming
    /\ his \in 0 .. MaxHi

ClientInit ==
    /\ reader = "next"
    /\ holding = <<>>
    /\ writer = "select"
    /\ controlOut = <<>>
    /\ sendOut = <<>>
    /\ received = 0
    /\ his = 0

IsHi(m) == m.type = "hi"

OnWire(id) ==
    \/ \E n \in 1 .. Len(controlOut) : controlOut[n] = id
    \/ \E n \in 1 .. Len(sendOut) : sendOut[n] = id

-----------------------------------------------------------------------------
(***************************************************************************)
(* The reader.  The peer answers what it was sent, as often as it likes    *)
(* ("response", then "eof"); the other messages come at any time.          *)
(***************************************************************************)
ReaderMessage(m) ==
    /\ reader = "next"
    /\ socket = "open"
    /\ received < MaxIncoming
    /\ IsHi(m) => his < MaxHi
    /\ m.type = "payload" /\ m.inResponseTo # NoId => OnWire(m.inResponseTo)
    /\ reader' = "recv"
    /\ holding' = <<m>>
    /\ received' = received + 1
    /\ his' = IF IsHi(m) THEN his + 1 ELSE his
    /\ UNCHANGED <<transportVars, writerVars>>

ReaderPass ==
    /\ reader = "recv"
    /\ Room(recv)
    /\ recv' = Append(recv, Head(holding))
    /\ reader' = "next"
    /\ holding' = <<>>
    /\ UNCHANGED <<ctxDone, socket, control, send, received, his, writerVars>>

\* Mutant: the handler returns without cancelling the context.
ReaderExit_NoCancel ==
    /\ reader' = "exit"
    /\ holding' = <<>>
    /\ socket' = "closed"
    /\ UNCHANGED <<ctxDone, recv, control, send, received, his, writerVars>>

\* The reader returns, and with it the handler: socket.Close and cancel.
ReaderExit ==
    /\ reader' = "exit"
    /\ holding' = <<>>
    /\ socket' = "closed"
    /\ ctxDone' = TRUE
    /\ UNCHANGED <<recv, control, send, received, his, writerVars>>

\* NextReader or ReadMessage failed, or the read deadline expired.
ReaderError ==
    /\ reader = "next"
    /\ ReaderExit

ReaderDone ==
    /\ reader = "recv"
    /\ ctxDone
    /\ ReaderExit

-----------------------------------------------------------------------------
(***************************************************************************)
(* The writer: its select takes any case that is ready.                    *)
(***************************************************************************)
WriterExit ==
    /\ writer' = "exit"
    /\ socket' = "closed"
    /\ UNCHANGED <<ctxDone, recv, readerVars>>

WriterDone ==
    /\ writer # "exit"
    /\ ctxDone
    /\ WriterExit
    /\ UNCHANGED <<control, send, controlOut, sendOut>>

(***************************************************************************)
(* writeMessage: the message gets out; or it is lost without an error,     *)
(* because that of w.Close, which flushes it, is dropped or because the    *)
(* peer is gone; or the error is seen and write returns.  A write that has *)
(* failed makes the later ones on the connection fail.                     *)
(***************************************************************************)
MessageGetsOut ==
    /\ socket = "open"
    /\ writer = "select"
    /\ UNCHANGED <<ctxDone, socket, recv, writer, readerVars>>

MessageIsLost ==
    \/ /\ writer' = "failing"
       /\ UNCHANGED <<ctxDone, socket, recv, readerVars>>
    \/ WriterExit

WriterControl ==
    /\ writer # "exit"
    /\ control # <<>>
    /\ control' = Tail(control)
    /\ \/ MessageGetsOut /\ controlOut' = Append(controlOut, Head(control))
       \/ MessageIsLost /\ UNCHANGED controlOut
    /\ UNCHANGED <<send, sendOut>>

WriterSend ==
    /\ writer # "exit"
    /\ send # <<>>
    /\ send' = Tail(send)
    /\ \/ MessageGetsOut /\ sendOut' = Append(sendOut, Head(send))
       \/ MessageIsLost /\ UNCHANGED sendOut
    /\ UNCHANGED <<control, controlOut>>

\* A websocket ping could not be written; one that could changes nothing.
WriterPingFails ==
    /\ writer # "exit"
    /\ WriterExit
    /\ UNCHANGED <<control, send, controlOut, sendOut>>

\* The peer or the network closes the connection.
PeerCloses ==
    /\ socket = "open"
    /\ socket' = "closed"
    /\ UNCHANGED <<ctxDone, recv, control, send, clientVars>>

ClientReader ==
    \/ \E m \in Message : ReaderMessage(m)
    \/ ReaderPass
    \/ ReaderError
    \/ ReaderDone

ClientWriter ==
    \/ WriterDone
    \/ WriterControl
    \/ WriterSend
    \/ WriterPingFails
=============================================================================
