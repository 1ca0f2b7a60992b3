-------------------------- MODULE ReceptorProtocol --------------------------
(***************************************************************************)
(* The messages of the receptor network on a websocket: frame.go and       *)
(* messages.go of internal/receptor/protocol.  One end writes with         *)
(* WriteMessage, the other reads with ReadMessage while it is written; the *)
(* connection may break in between.  A websocket message holds one message *)
(* of the protocol, and NextReader skips what ReadMessage leaves of it.    *)
(*                                                                         *)
(* The text of a frame's data is abstracted to a record of                 *)
(*   id       what it says                                                 *)
(*   words    which of "HI" and "ROUTE" occur in it, anywhere              *)
(*   size     its length, in units                                         *)
(*   json     whether it is JSON that fits the message it is parsed as     *)
(***************************************************************************)
EXTENDS Naturals, Sequences

CONSTANTS
    Message,        \* what is written with WriteMessage
    Raw,            \* frames of a peer that does not keep to the protocol
    NoRouting,      \* a nil *RoutingMessage
    MaxWritten      \* bound on the messages written

HeaderFrameType == 0
PayloadFrameType == 1
CommandFrameType == 2

Data == [id : STRING, words : SUBSET {"HI", "ROUTE"}, size : Nat, json : BOOLEAN]

HiMessage == [type : {"hi"}, data : Data]
RouteTableMessage == [type : {"route"}, data : Data]
CommandMessage == HiMessage \cup RouteTableMessage

RoutingMessage == Data
PayloadMessage == [type : {"payload"}, routing : RoutingMessage \cup {NoRouting}, data : Data]

\* A frame says how long its data is; that of a foreign peer need not be so.
FrameRecord == [type : Nat, length : Nat, data : Data]

RawMessage == [type : {"raw"}, frames : Seq(FrameRecord)]

\* A text jsonMarshal makes.
IsJson(d) == d.json /\ d.size # 0

\* The data of a message is what jsonMarshal makes of it; "cmd" is in it.
Marshalled(m) ==
    /\ IsJson(m.data)
    /\ m.type = "hi" => "HI" \in m.data.words
    /\ m.type = "route" => "ROUTE" \in m.data.words
    /\ m.type = "payload" => m.routing # NoRouting /\ IsJson(m.routing)

ASSUME ProtocolAssumption ==
    /\ Message \subseteq CommandMessage \cup PayloadMessage
    /\ \A m \in Message : Marshalled(m)
    /\ Raw \subseteq RawMessage
    /\ NoRouting \notin RoutingMessage
    /\ MaxWritten \in Nat

VARIABLES
    written,    \* the messages written, the current one included
    frames,     \* the frames of the current one that are to be written
    writer,     \* "idle", "header", "data" or "close", of WriteMessage
    stream,     \* what the reader has not read yet
    broken,     \* the connection is gone; what is in the stream can be read
    reader,     \* place of the reader, see below
    frame,      \* the last frame header it read
    routing,    \* what it parsed from a header frame
    delivered   \* the messages ReadMessage returned

vars == <<written, frames, writer, stream, broken, reader, frame, routing, delivered>>

writeVars == <<written, frames, writer>>
readVars == <<reader, frame, routing, delivered>>

(***************************************************************************)
(* The stream is made of frame headers, units of data and the ends of      *)
(* websocket messages.                                                     *)
(***************************************************************************)
Header(type, length) == [unit |-> "header", type |-> type, length |-> length]
Unit(d, n) == [unit |-> "data", of |-> d, n |-> n]
End == [unit |-> "end"]

Units(d) == [n \in 1 .. d.size |-> Unit(d, n)]

(***************************************************************************)
(* Places of the reader: "frame", "data": reading the first frame of a     *)
(* message; "payloadFrame", "payloadData": the one after a header frame;   *)
(* "rest": in NextReader, skipping; "exit": ReadMessage failed, read       *)
(* returned.                                                               *)
(***************************************************************************)
TypeOK ==
    /\ written \in Seq(Message \cup Raw) /\ Len(written) <= MaxWritten
    /\ frames \in Seq(FrameRecord)
    /\ writer \in {"idle", "header", "data", "close"}
    /\ writer \in {"header", "data"} <=> frames # <<>>
    /\ broken \in BOOLEAN
    /\ reader \in {"frame", "data", "payloadFrame", "payloadData", "rest", "exit"}
    /\ reader \in {"data", "payloadData"} => frame.length \in Nat
    /\ routing \in RoutingMessage \cup {NoRouting}
    /\ delivered \in Seq(CommandMessage \cup PayloadMessage)

Init ==
    /\ written = <<>>
    /\ frames = <<>>
    /\ writer = "idle"
    /\ stream = <<>>
    /\ broken = FALSE
    /\ reader = "frame"
    /\ frame = End
    /\ routing = NoRouting
    /\ delivered = <<>>

-----------------------------------------------------------------------------
(***************************************************************************)
(* Writing: WriteMessage, writePayloadMessage and writeFrame.              *)
(***************************************************************************)
\* Mutant: the length is one short.
Frame_OneShort(type, d) == [type |-> type, length |-> d.size - 1, data |-> d]

\* writeFrame puts the length of the data in the header.
Frame(type, d) == [type |-> type, length |-> d.size, data |-> d]

FramesOf(m) ==
    IF m.type = "raw" THEN m.frames
    ELSE IF m.type = "payload"
    THEN <<Frame(HeaderFrameType, m.routing), Frame(PayloadFrameType, m.data)>>
    ELSE <<Frame(CommandFrameType, m.data)>>

WriteMessage(m) ==
    /\ writer = "idle"
    /\ ~broken
    /\ Len(written) < MaxWritten
    /\ written' = Append(written, m)
    /\ frames' = FramesOf(m)
    /\ writer' = IF FramesOf(m) = <<>> THEN "close" ELSE "header"
    /\ UNCHANGED <<stream, broken, readVars>>

WriteFrameHeader ==
    /\ writer = "header"
    /\ ~broken
    /\ stream' = Append(stream, Header(Head(frames).type, Head(frames).length))
    /\ writer' = "data"
    /\ UNCHANGED <<written, frames, broken, readVars>>

WriteFrameData ==
    /\ writer = "data"
    /\ ~broken
    /\ stream' = stream \o Units(Head(frames).data)
    /\ frames' = Tail(frames)
    /\ writer' = IF Tail(frames) = <<>> THEN "close" ELSE "header"
    /\ UNCHANGED <<written, broken, readVars>>

\* w.Close ends the websocket message.
WriteClose ==
    /\ writer = "close"
    /\ ~broken
    /\ stream' = Append(stream, End)
    /\ writer' = "idle"
    /\ UNCHANGED <<written, frames, broken, readVars>>

\* A write fails, an end closes or the network does: the end of the stream
\* may get lost.
Break ==
    /\ ~broken
    /\ broken' = TRUE
    /\ \E n \in 0 .. Len(stream) : stream' = SubSeq(stream, 1, n)
    /\ UNCHANGED <<writeVars, readVars>>

-----------------------------------------------------------------------------
(***************************************************************************)
(* Reading.  io.ReadFull waits for n units of the websocket message; it    *)
(* fails when the message or the connection ends first, and has then read  *)
(* what there was.                                                         *)
(***************************************************************************)
EndsAt(n) == n \in 1 .. Len(stream) /\ stream[n] = End

CanRead(n) == Len(stream) >= n /\ \A k \in 1 .. n : ~EndsAt(k)

\* Mutant: the end of the connection goes unnoticed.
IsShort_Hangs(n) == ~CanRead(n) /\ \E k \in 1 .. Len(stream) : EndsAt(k)

IsShort(n) == ~CanRead(n) /\ (broken \/ \E k \in 1 .. Len(stream) : EndsAt(k))

After(n) == SubSeq(stream, n + 1, Len(stream))

\* A ReadFull that fails leaves the end of the message, if it is there.
ReadShort(n) ==
    /\ IsShort(n)
    /\ \/ \E e \in 1 .. Len(stream) :
             /\ EndsAt(e)
             /\ \A k \in 1 .. e - 1 : ~EndsAt(k)
             /\ stream' = After(e - 1)
       \/ (\A k \in 1 .. Len(stream) : ~EndsAt(k)) /\ stream' = <<>>

ReadFull(n) == CanRead(n) /\ stream' = After(n)

ReadFails ==
    /\ reader' = "exit"
    /\ UNCHANGED <<frame, routing, delivered>>

(***************************************************************************)
(* readFrame, and isValidType: the text of data is read as a frame of an   *)
(* unknown type.                                                           *)
(***************************************************************************)
ReadFrameHeader(place, types, next) ==
    /\ reader = place
    /\ \/ /\ ReadFull(1)
          /\ IF Head(stream).unit = "header" /\ Head(stream).type \in types
             THEN /\ reader' = next
                  /\ frame' = Head(stream)
                  /\ UNCHANGED <<routing, delivered>>
             ELSE ReadFails
       \/ ReadShort(1) /\ ReadFails
    /\ UNCHANGED <<writeVars, broken>>

ReadFrame ==
    ReadFrameHeader("frame", {HeaderFrameType, PayloadFrameType, CommandFrameType}, "data")

\* After a header frame a payload frame has to follow.
ReadPayloadFrame ==
    ReadFrameHeader("payloadFrame", {PayloadFrameType}, "payloadData")

\* unmarshal succeeds on what was read if it is all of a fitting text.
Parses(buf) == buf # <<>> /\ \E d \in {buf[1].of} : d.json /\ buf = Units(d)

Text(buf) == buf[1].of

\* buildCommandMessage: which message the text of a command is parsed as.
CommandType(d) ==
    IF "HI" \in d.words THEN "hi"
    ELSE IF "ROUTE" \in d.words THEN "route"
    ELSE "unrecognized"

\* Mutant: the error for a command of another name is lost.
IsCommand_NoError(d) == TRUE

\* Whether buildCommandMessage knows the command.
IsCommand(d) == CommandType(d) # "unrecognized"

Deliver(m) ==
    /\ delivered' = Append(delivered, m)
    /\ reader' = "rest"
    /\ UNCHANGED frame

\* parseFrameData on the first frame; its error is dropped for a header frame.
ReadData ==
    LET n == frame.length
        buf == SubSeq(stream, 1, n)
        parsed == CanRead(n) /\ Parses(buf)
    IN
    /\ reader = "data"
    /\ ReadFull(n) \/ ReadShort(n)
    /\ IF frame.type = HeaderFrameType
       THEN /\ reader' = "payloadFrame"
            /\ routing' = IF parsed THEN Text(buf) ELSE NoRouting
            /\ UNCHANGED <<frame, delivered>>
       ELSE IF frame.type = PayloadFrameType /\ parsed
       THEN /\ Deliver([type |-> "payload", routing |-> NoRouting, data |-> Text(buf)])
            /\ UNCHANGED routing
       ELSE IF parsed /\ IsCommand(Text(buf))
       THEN /\ Deliver([type |-> CommandType(Text(buf)), data |-> Text(buf)])
            /\ UNCHANGED routing
       ELSE ReadFails
    /\ UNCHANGED <<writeVars, broken>>

\* Mutant: a header frame that could not be parsed is passed over.
ReadPayloadData_NilRouting ==
    LET n == frame.length
        buf == SubSeq(stream, 1, n)
    IN
    /\ reader = "payloadData"
    /\ ReadFull(n) \/ ReadShort(n)
    /\ IF CanRead(n) /\ Parses(buf)
       THEN /\ Deliver([type |-> "payload", routing |-> routing, data |-> Text(buf)])
            /\ routing' = NoRouting
       ELSE ReadFails
    /\ UNCHANGED <<writeVars, broken>>

\* parseFrameData on the payload frame.  Without a parsed header the type
\* assertion on its message panics, and the handler ends as after an error.
ReadPayloadData ==
    LET n == frame.length
        buf == SubSeq(stream, 1, n)
    IN
    /\ reader = "payloadData"
    /\ ReadFull(n) \/ ReadShort(n)
    /\ IF CanRead(n) /\ Parses(buf) /\ routing # NoRouting
       THEN /\ Deliver([type |-> "payload", routing |-> routing, data |-> Text(buf)])
            /\ routing' = NoRouting
       ELSE ReadFails
    /\ UNCHANGED <<writeVars, broken>>

\* NextReader skips the rest of the message it read last; it fails when the
\* connection is gone.
NextReader ==
    /\ reader = "rest"
    /\ \/ /\ stream # <<>>
          /\ stream' = Tail(stream)
          /\ reader' = IF Head(stream) = End THEN "frame" ELSE "rest"
       \/ /\ stream = <<>> /\ broken
          /\ reader' = "exit"
          /\ UNCHANGED stream
    /\ UNCHANGED <<writeVars, broken, frame, routing, delivered>>

Writer ==
    \/ WriteFrameHeader
    \/ WriteFrameData
    \/ WriteClose

Reader ==
    \/ ReadFrame
    \/ ReadData
    \/ ReadPayloadFrame
    \/ ReadPayloadData
    \/ NextReader

Next ==
    \/ \E m \in Message \cup Raw : WriteMessage(m)
    \/ Writer
    \/ Break
    \/ Reader

Spec == Init /\ [][Next]_vars

\* An end that can go on with a message does; nobody need begin one.
FairSpec == Spec /\ WF_vars(Writer) /\ WF_vars(Reader)

-----------------------------------------------------------------------------
(***************************************************************************)
(* ReadMessage as a function of all the frames of a message: whether it    *)
(* returns something, and what.  It looks no further than the payload      *)
(* frame or the command; a payload frame needs no header frame before it,  *)
(* and comes without routing information then (messages.go:45).            *)
(***************************************************************************)
Fits(f) == IsJson(f.data) /\ f.length = f.data.size

Accepts(m) ==
    LET fs == FramesOf(m)
    IN  /\ fs # <<>> /\ Fits(fs[1])
        /\ \/ /\ fs[1].type = HeaderFrameType
              /\ Len(fs) >= 2 /\ fs[2].type = PayloadFrameType /\ Fits(fs[2])
           \/ fs[1].type = PayloadFrameType
           \/ fs[1].type = CommandFrameType /\ CommandType(fs[1].data) # "unrecognized"

Reading(m) ==
    LET fs == FramesOf(m)
    IN  IF fs[1].type = HeaderFrameType
        THEN [type |-> "payload", routing |-> fs[1].data, data |-> fs[2].data]
        ELSE IF fs[1].type = PayloadFrameType
        THEN [type |-> "payload", routing |-> NoRouting, data |-> fs[1].data]
        ELSE [type |-> CommandType(fs[1].data), data |-> fs[1].data]

\* A ROUTE message with HI in its text, see RouteTablesAreReadAsSuch.
LooksLikeHi(m) == m.type = "route" /\ "HI" \in m.data.words

(***************************************************************************)
(* ReadMessage returns the messages in the order they were written, none   *)
(* left out.  A message of the protocol is returned as it was written,     *)
(* with the routing information written in front of it (unless it looks    *)
(* like a HI).  Of a peer that does not keep to the protocol a message is  *)
(* returned only if its first frames, taken whole, are JSON of the length  *)
(* they say and form a payload or a command, and as what they say: nothing *)
(* is made of parts of frames, of frames of two messages, or of what comes *)
(* after a message that was cut or refused.                                *)
(***************************************************************************)
ReadAsWritten ==
    /\ Len(delivered) <= Len(written)
    /\ \A n \in 1 .. Len(delivered) :
         IF written[n].type # "raw" /\ ~LooksLikeHi(written[n])
         THEN delivered[n] = written[n]
         ELSE Accepts(written[n]) /\ delivered[n] = Reading(written[n])

(***************************************************************************)
(* ReadMessage fails, and with it the session, only when the connection is *)
(* gone or the message being read is a foreign one it does not accept:     *)
(* however the frames arrive, it never reads a good message as a bad one,  *)
(* and never takes the end of one message for the beginning of the next.   *)
(***************************************************************************)
OnlyFaultsEndReading ==
    reader = "exit" =>
        \/ broken
        \/ /\ Len(delivered) < Len(written)
           /\ written[Len(delivered) + 1].type = "raw"
           /\ ~Accepts(written[Len(delivered) + 1])

\* A read of the reader blocks.
ReaderWaits ==
    \/ reader \in {"frame", "payloadFrame"} /\ ~(CanRead(1) \/ IsShort(1))
    \/ reader \in {"data", "payloadData"} /\ ~(CanRead(frame.length) \/ IsShort(frame.length))
    \/ reader = "rest" /\ stream = <<>> /\ ~broken

(***************************************************************************)
(* Between two messages of the writer, and when the connection is gone,    *)
(* the reader is never left blocked within a message, whatever the message *)
(* is and however much data its headers announce: it blocks only for the   *)
(* next one, when it has returned all that were written.                   *)
(***************************************************************************)
BlocksOnlyBetweenMessages ==
    ReaderWaits /\ (writer = "idle" \/ broken) =>
        ~broken /\ reader = "frame" /\ Len(delivered) = Len(written)

(***************************************************************************)
(* Every message that is written is returned in the end, unless reading    *)
(* has failed: ReadMessage never waits for more than was written.          *)
(***************************************************************************)
WrittenIsRead ==
    \A n \in 1 .. MaxWritten :
        Len(written) >= n ~> Len(delivered) >= n \/ reader = "exit"

(***************************************************************************)
(* TestReadCommandMessageRouteTable (protocol_test.go): a ROUTE command is *)
(* read as a RouteTableMessage.                                            *)
(***************************************************************************)
RouteTablesAreReadAsSuch ==
    \A n \in 1 .. Len(delivered) : written[n].type = "route" => delivered[n].type = "route"
=============================================================================
