----------------------- MODULE ReceptorProtocol_proofs -----------------------
(***************************************************************************)
(* Proofs of the safety properties of ReceptorProtocol, for any messages,  *)
(* any frames of a peer that does not keep to the protocol, whatever       *)
(* length their headers state, and any number of messages.                 *)
(***************************************************************************)
EXTENDS ReceptorProtocol, SequenceTheorems, TLAPS

(***************************************************************************)
(* Types.                                                                  *)
(***************************************************************************)
HeaderItem == [unit : {"header"}, type : Nat, length : Nat]

UnitItem == [unit : {"data"}, of : Data, n : Nat]

Item == HeaderItem \cup UnitItem \cup {End}

TypeInv == TypeOK /\ stream \in Seq(Item)

(* WriteMessage writes a message as a sequence of frames.                  *)
LEMMA FramesOfType ==
    ASSUME NEW m \in Message \cup Raw
    PROVE  FramesOf(m) \in Seq(FrameRecord)
  <1>1. CASE m.type = "raw"
    BY <1>1, ProtocolAssumption, Zenon
    DEF FramesOf, ProtocolAssumption, RawMessage, CommandMessage, HiMessage, RouteTableMessage,
        PayloadMessage, FrameRecord
  <1>2. CASE m.type = "payload"
    <2>1. m \in PayloadMessage /\ m.routing # NoRouting
      BY <1>2, ProtocolAssumption
      DEF ProtocolAssumption, RawMessage, CommandMessage, HiMessage, RouteTableMessage,
          PayloadMessage, Marshalled
    <2>2. m.data \in Data /\ m.routing \in Data
      BY <2>1 DEF PayloadMessage, RoutingMessage
    <2>3. /\ Frame(HeaderFrameType, m.routing) \in FrameRecord
          /\ Frame(PayloadFrameType, m.data) \in FrameRecord
      BY <2>2 DEF Frame, FrameRecord, Data, HeaderFrameType, PayloadFrameType
    <2>4. FramesOf(m) = <<Frame(HeaderFrameType, m.routing), Frame(PayloadFrameType, m.data)>>
      BY <1>2 DEF FramesOf
    <2> QED
      BY <2>3, <2>4
  <1>3. CASE m.type \notin {"raw", "payload"}
    <2>1. m.data \in Data
      BY <1>3, ProtocolAssumption
      DEF ProtocolAssumption, RawMessage, CommandMessage, HiMessage, RouteTableMessage,
          PayloadMessage
    <2>2. Frame(CommandFrameType, m.data) \in FrameRecord
      BY <2>1 DEF Frame, FrameRecord, Data, CommandFrameType
    <2>3. FramesOf(m) = <<Frame(CommandFrameType, m.data)>>
      BY <1>3 DEF FramesOf
    <2> QED
      BY <2>2, <2>3
  <1> QED
    BY <1>1, <1>2, <1>3

(* The units of the data of a frame.                                       *)
LEMMA UnitsType ==
    ASSUME NEW d \in Data
    PROVE  /\ Units(d) \in Seq(Item)
           /\ Len(Units(d)) = d.size
           /\ \A n \in 1 .. d.size : Units(d)[n] = Unit(d, n)
  <1>1. d.size \in Nat
    BY DEF Data
  <1>2. \A n \in 1 .. d.size : Unit(d, n) \in Item
    BY <1>1 DEF Unit, Item, UnitItem
  <1>3. Units(d) \in [1 .. d.size -> Item]
    BY <1>2 DEF Units
  <1> QED
    BY <1>1, <1>3 DEF Units

(* unmarshal succeeds on nothing but all the units of one text.            *)
LEMMA ParsedText ==
    ASSUME NEW buf \in Seq(Item), Parses(buf)
    PROVE  /\ Text(buf) \in Data
           /\ Text(buf).json
           /\ Text(buf).size = Len(buf)
           /\ Len(buf) >= 1
           /\ buf[1] = Unit(Text(buf), 1)
  <1>1. Len(buf) >= 1 /\ DOMAIN buf = 1 .. Len(buf) /\ Len(buf) \in Nat
    BY EmptySeq DEF Parses
  <1>2. buf = Units(Text(buf)) /\ Text(buf).json
    BY DEF Parses, Text
  <1>3. 1 \in 1 .. Text(buf).size
    <2>1. 1 \in DOMAIN buf
      BY <1>1
    <2>2. DOMAIN Units(Text(buf)) = 1 .. Text(buf).size
      BY Zenon DEF Units
    <2> QED
      BY <1>2, <2>1, <2>2, Zenon
  <1>4. buf[1] = Unit(Text(buf), 1)
    BY <1>2, <1>3 DEF Units
  <1>5. buf[1] \in Item /\ buf[1].unit = "data"
    BY <1>1, <1>4 DEF Unit
  <1>6. buf[1] \in UnitItem
    BY <1>5 DEF Item, HeaderItem, UnitItem, End
  <1>7. Text(buf) \in Data
    BY <1>6 DEF UnitItem, Text
  <1>8. Text(buf).size = Len(buf)
    BY <1>2, <1>7, UnitsType
  <1> QED
    BY <1>1, <1>2, <1>4, <1>7, <1>8

(* A read leaves the end of the stream.                                    *)
LEMMA ReadLeaves ==
    ASSUME TypeInv, NEW n \in Nat, ReadFull(n) \/ ReadShort(n)
    PROVE  /\ stream' \in Seq(Item)
           /\ CanRead(n) => stream' = After(n) /\ SubSeq(stream, 1, n) \in Seq(Item)
  <1>1. stream \in Seq(Item) /\ Len(stream) \in Nat
    BY DEF TypeInv
  <1>2. ASSUME NEW i \in 1 .. Len(stream) + 1 PROVE SubSeq(stream, i, Len(stream)) \in Seq(Item)
    <2>1. \A k \in i .. Len(stream) : stream[k] \in Item
      BY <1>1
    <2>2. i \in Int /\ Len(stream) \in Int
      BY <1>1
    <2> QED
      BY <2>1, <2>2, SubSeqProperties
  <1>3. CASE CanRead(n)
    <2>1. n + 1 \in 1 .. Len(stream) + 1
      BY <1>1, <1>3 DEF CanRead
    <2>2. stream' = After(n)
      BY <1>3 DEF ReadFull, ReadShort, IsShort
    <2>3. \A k \in 1 .. n : stream[k] \in Item
      BY <1>1, <1>3 DEF CanRead
    <2>4. SubSeq(stream, 1, n) \in Seq(Item)
      BY <2>3, SubSeqProperties
    <2> QED
      BY <1>2, <2>1, <2>2, <2>4 DEF After
  <1>4. CASE ~CanRead(n)
    <2>1. CASE \E e \in 1 .. Len(stream) : stream' = After(e - 1)
      <3>1. PICK e \in 1 .. Len(stream) : stream' = After(e - 1)
        BY <2>1
      <3>2. stream' = SubSeq(stream, e, Len(stream)) /\ e \in 1 .. Len(stream) + 1
        BY <1>1, <3>1 DEF After
      <3> QED
        BY <1>2, <1>4, <3>2
    <2>2. CASE stream' = <<>>
      BY <1>4, <2>2, EmptySeq
    <2> QED
      BY <1>4, <2>1, <2>2 DEF ReadFull, ReadShort
  <1> QED
    BY <1>3, <1>4

(* ReadFrame and ReadPayloadFrame keep the types.                          *)
LEMMA FrameHeaderTypes ==
    ASSUME TypeInv,
           NEW place, NEW types, NEW next \in {"data", "payloadData"},
           ReadFrameHeader(place, types, next)
    PROVE  TypeInv'
  <1>1. stream' \in Seq(Item)
    BY ReadLeaves DEF ReadFrameHeader
  <1>2. UNCHANGED <<written, frames, writer, broken, routing, delivered>>
    BY DEF ReadFrameHeader, ReadFails, writeVars
  <1>3. CASE reader' = "exit"
    BY <1>1, <1>2, <1>3 DEF TypeInv, TypeOK
  <1>4. CASE reader' # "exit"
    <2>1. /\ CanRead(1) /\ Head(stream).unit = "header"
          /\ reader' = next /\ frame' = Head(stream)
      BY <1>4 DEF ReadFrameHeader, ReadFails, ReadFull
    <2>2. Head(stream) \in Item
      BY <2>1, HeadTailProperties, EmptySeq DEF TypeInv, CanRead
    <2>3. frame'.length \in Nat
      BY <2>1, <2>2 DEF Item, HeaderItem, UnitItem, End
    <2> QED
      BY <1>1, <1>2, <2>1, <2>3 DEF TypeInv, TypeOK
  <1> QED
    BY <1>3, <1>4

(* A frame's length is a natural number.                                   *)
LEMMA LengthIsNat ==
    ASSUME TypeInv, reader \in {"data", "payloadData"}
    PROVE  frame.length \in Nat
  BY DEF TypeInv, TypeOK

(* parseFrameData and what is made of its result keep the types.           *)
LEMMA FrameDataTypes ==
    ASSUME TypeInv, ReadData \/ ReadPayloadData
    PROVE  TypeInv'
  <1> DEFINE n == frame.length
             buf == SubSeq(stream, 1, n)
  <1>1. n \in Nat
    BY LengthIsNat DEF ReadData, ReadPayloadData
  <1>2. ReadFull(n) \/ ReadShort(n)
    BY DEF ReadData, ReadPayloadData
  <1>3. stream' \in Seq(Item) /\ (CanRead(n) => buf \in Seq(Item))
    BY <1>1, <1>2, ReadLeaves
  <1>4. UNCHANGED <<written, frames, writer, broken>>
    BY DEF ReadData, ReadPayloadData, writeVars
  <1>5. CanRead(n) /\ Parses(buf) => Text(buf) \in Data
    BY <1>3, ParsedText, Zenon
  <1>6. routing \in RoutingMessage \cup {NoRouting}
    BY DEF TypeInv, TypeOK
  <1>7. routing' \in RoutingMessage \cup {NoRouting}
    BY <1>5, <1>6 DEF ReadData, ReadPayloadData, Deliver, ReadFails, RoutingMessage
  <1>8. \/ delivered' = delivered
        \/ \E m \in CommandMessage \cup PayloadMessage : delivered' = Append(delivered, m)
    <2>1. CASE delivered' = delivered
      BY <2>1
    <2>2. CASE delivered' # delivered
      <3>1. CanRead(n) /\ Parses(buf)
        BY <2>2 DEF ReadData, ReadPayloadData, ReadFails
      <3>2. PICK m : /\ delivered' = Append(delivered, m)
                     /\ \/ \E r \in {NoRouting, routing} :
                              m = [type |-> "payload", routing |-> r, data |-> Text(buf)]
                        \/ /\ CommandType(Text(buf)) # "unrecognized"
                           /\ m = [type |-> CommandType(Text(buf)), data |-> Text(buf)]
        BY <2>2 DEF ReadData, ReadPayloadData, ReadFails, Deliver, IsCommand
      <3>3. m \in CommandMessage \cup PayloadMessage
        BY <1>5, <1>6, <3>1, <3>2
        DEF CommandMessage, PayloadMessage, HiMessage, RouteTableMessage, CommandType
      <3> QED
        BY <3>2, <3>3
    <2> QED
      BY <2>1, <2>2
  <1>9. delivered' \in Seq(CommandMessage \cup PayloadMessage)
    <2>1. delivered \in Seq(CommandMessage \cup PayloadMessage)
      BY DEF TypeInv, TypeOK
    <2> QED
      BY <1>8, <2>1, AppendProperties
  <1>10. reader' \in {"payloadFrame", "rest", "exit"}
    BY DEF ReadData, ReadPayloadData, ReadFails, Deliver
  <1> QED
    BY <1>3, <1>4, <1>7, <1>9, <1>10 DEF TypeInv, TypeOK

(* The writer keeps the types.                                             *)
LEMMA WriterTypes ==
    ASSUME TypeInv, Writer
    PROVE  TypeInv'
  <1>1. stream \in Seq(Item) /\ frames \in Seq(FrameRecord)
    BY DEF TypeInv, TypeOK, FrameRecord
  <1>2. frames # <<>> => /\ Head(frames) \in FrameRecord
                         /\ Tail(frames) \in Seq(FrameRecord)
    BY <1>1, HeadTailProperties
  <1>3. UNCHANGED <<written, broken, readVars>>
    BY DEF Writer, WriteFrameHeader, WriteFrameData, WriteClose
  <1>4. CASE WriteFrameHeader
    <2>1. Head(frames) \in FrameRecord
      BY <1>2, <1>4 DEF WriteFrameHeader, TypeInv, TypeOK
    <2>2. Header(Head(frames).type, Head(frames).length) \in Item
      BY <2>1 DEF Header, Item, HeaderItem, FrameRecord
    <2>3. stream' \in Seq(Item)
      BY <1>1, <1>4, <2>2, AppendProperties DEF WriteFrameHeader
    <2> QED
      BY <1>3, <1>4, <2>3 DEF WriteFrameHeader, TypeInv, TypeOK, readVars
  <1>5. CASE WriteFrameData
    <2>1. Head(frames) \in FrameRecord /\ frames' \in Seq(FrameRecord)
      BY <1>2, <1>5 DEF WriteFrameData, TypeInv, TypeOK
    <2>2. Head(frames).data \in Data
      BY <2>1 DEF FrameRecord
    <2>3. stream' \in Seq(Item)
      BY <1>1, <1>5, <2>2, UnitsType, ConcatProperties DEF WriteFrameData
    <2> QED
      BY <1>3, <1>5, <2>1, <2>3, Zenon DEF WriteFrameData, TypeInv, TypeOK, readVars, FrameRecord
  <1>6. CASE WriteClose
    <2>1. stream' \in Seq(Item)
      BY <1>1, <1>6, AppendProperties DEF WriteClose, Item
    <2> QED
      BY <1>3, <1>6, <2>1 DEF WriteClose, TypeInv, TypeOK, readVars
  <1> QED
    BY <1>4, <1>5, <1>6 DEF Writer

(* Every step keeps the types.                                             *)
LEMMA TypesPreserved ==
    ASSUME TypeInv, [Next]_vars
    PROVE  TypeInv'
  <1>1. ASSUME NEW m \in Message \cup Raw, WriteMessage(m) PROVE TypeInv'
    <2>1. FramesOf(m) \in Seq(FrameRecord)
      BY FramesOfType
    <2>2. written' \in Seq(Message \cup Raw) /\ Len(written') <= MaxWritten
      BY <1>1, AppendProperties, ProtocolAssumption
      DEF WriteMessage, TypeInv, TypeOK, ProtocolAssumption
    <2> QED
      BY <1>1, <2>1, <2>2 DEF WriteMessage, TypeInv, TypeOK, readVars
  <1>2. CASE Break
    <2>1. PICK n \in 0 .. Len(stream) : stream' = SubSeq(stream, 1, n)
      BY <1>2 DEF Break
    <2>2. \A k \in 1 .. n : stream[k] \in Item
      BY DEF TypeInv
    <2>3. n \in Int
      BY DEF TypeInv
    <2>4. stream' \in Seq(Item)
      BY <2>1, <2>2, <2>3, SubSeqProperties
    <2> QED
      BY <1>2, <2>4 DEF Break, TypeInv, TypeOK, readVars, writeVars
  <1>3. CASE ReadFrame \/ ReadPayloadFrame
    BY <1>3, FrameHeaderTypes DEF ReadFrame, ReadPayloadFrame
  <1>4. CASE NextReader
    <2>1. stream' \in Seq(Item)
      BY <1>4, HeadTailProperties DEF NextReader, TypeInv
    <2> QED
      BY <1>4, <2>1 DEF NextReader, TypeInv, TypeOK, writeVars
  <1>5. CASE UNCHANGED vars
    BY <1>5 DEF vars, TypeInv, TypeOK
  <1> QED
    BY <1>1, <1>2, <1>3, <1>4, <1>5, WriterTypes, FrameDataTypes DEF Next, Reader

(* Spec => []TypeOK: the type invariant the runs check.                    *)
THEOREM ProtocolTypeCorrect == Spec => []TypeOK
  <1>1. Init => TypeInv
    <2>1. Len(<<>>) <= MaxWritten
      BY ProtocolAssumption DEF ProtocolAssumption
    <2>2. \A S : <<>> \in Seq(S)
      OBVIOUS
    <2>3. Init => TypeOK
      BY <2>1, <2>2, Zenon DEF Init, TypeOK
    <2> QED
      BY <2>2, <2>3 DEF Init, TypeInv
  <1>2. TypeInv /\ [Next]_vars => TypeInv'
    BY TypesPreserved
  <1>3. TypeInv => TypeOK
    BY DEF TypeInv
  <1> QED
    BY <1>1, <1>2, <1>3, PTL DEF Spec

-----------------------------------------------------------------------------
(***************************************************************************)
(* Places in what is written: the message, its frame, and how much of the  *)
(* frame comes before: 0 at its header, n at the n-th unit of its data.    *)
(* The frame after the last one of a message stands for its end.           *)
(***************************************************************************)
Place == [msg : Nat \ {0}, frame : Nat \ {0}, off : Nat]

At(m, f, o) == [msg |-> m, frame |-> f, off |-> o]

FrameAt(w, p) == FramesOf(w[p.msg])[p.frame]

SizeAt(w, p) == FrameAt(w, p).data.size

InFrame(w, p) == p.msg <= Len(w) /\ p.frame <= Len(FramesOf(w[p.msg]))

HeaderOf(f) == Header(f.type, f.length)

ItemAt(w, p) ==
    IF ~InFrame(w, p) THEN End
    ELSE IF p.off = 0 THEN HeaderOf(FrameAt(w, p))
    ELSE Unit(FrameAt(w, p).data, p.off)

NextPlace(w, p) ==
    IF ~InFrame(w, p) THEN At(p.msg + 1, 1, 0)
    ELSE IF p.off < SizeAt(w, p) THEN At(p.msg, p.frame, p.off + 1)
    ELSE At(p.msg, p.frame + 1, 0)

(***************************************************************************)
(* s is a piece of what writing the messages w puts on the stream, from    *)
(* place pos[1] to before place pos[Len(s) + 1].  The last conjuncts say   *)
(* that places advance one by one within a frame, and that a message goes  *)
(* on to its end.                                                          *)
(***************************************************************************)
Aligned(w, s, pos) ==
    /\ pos \in [1 .. Len(s) + 1 -> Place]
    /\ \A k \in 1 .. Len(s) :
         /\ pos[k].msg <= Len(w)
         /\ s[k] = ItemAt(w, pos[k])
         /\ pos[k + 1] = NextPlace(w, pos[k])
    /\ \A j, k \in 1 .. Len(s) + 1 :
         j <= k /\ InFrame(w, pos[j]) /\ pos[j].off + (k - j) <= SizeAt(w, pos[j])
         => pos[k] = At(pos[j].msg, pos[j].frame, pos[j].off + (k - j))
    /\ \A j, k \in 1 .. Len(s) + 1 :
         j <= k /\ (\A i \in j .. k - 1 : s[i] # End) => pos[k].msg = pos[j].msg

Spans(w, s, from, to) == \E pos : Aligned(w, s, pos) /\ pos[1] = from /\ pos[Len(s) + 1] = to

(* The place after one of a frame is in the same message.                  *)
LEMMA NextInMessage ==
    /\ \A w, p : InFrame(w, p) => NextPlace(w, p).msg = p.msg
    /\ \A m, f, o : At(m, f, o).msg = m
  <1>1. \A m, f, o : At(m, f, o).msg = m
    BY DEF At
  <1> QED
    BY <1>1, Zenon DEF NextPlace

(* The frames, the sizes and the items of places in what is written.       *)
LEMMA PlaceFacts ==
    ASSUME NEW w \in Seq(Message \cup Raw), NEW p \in Place
    PROVE  /\ InFrame(w, p) => FrameAt(w, p) \in FrameRecord /\ SizeAt(w, p) \in Nat
           /\ NextPlace(w, p) \in Place
           /\ ItemAt(w, p) \in Item
  <1>1. ASSUME InFrame(w, p) PROVE FrameAt(w, p) \in FrameRecord
    <2>1. w[p.msg] \in Message \cup Raw
      BY <1>1, ElementOfSeq DEF InFrame, Place
    <2>2. FramesOf(w[p.msg]) \in Seq(FrameRecord)
      BY <2>1, FramesOfType
    <2> QED
      BY <1>1, <2>2, ElementOfSeq DEF InFrame, Place, FrameAt
  <1>2. InFrame(w, p) => SizeAt(w, p) \in Nat /\ FrameAt(w, p).data \in Data /\ FrameAt(w, p).type \in Nat
    BY <1>1 DEF SizeAt, FrameRecord, Data
  <1>3. NextPlace(w, p) \in Place
    BY <1>2 DEF NextPlace, Place, At
  <1>4. InFrame(w, p) => HeaderOf(FrameAt(w, p)) \in Item
    BY <1>1, <1>2 DEF HeaderOf, Header, Item, HeaderItem, FrameRecord
  <1>5. ItemAt(w, p) \in Item
    BY <1>2, <1>4 DEF ItemAt, Item, UnitItem, Unit, Place
  <1> QED
    BY <1>1, <1>2, <1>3, <1>5

(* Writing one more item, at the place the stream has come to.             *)
LEMMA AlignedAppend ==
    ASSUME NEW w \in Seq(Message \cup Raw), NEW s \in Seq(Item), NEW pos, Aligned(w, s, pos),
           pos[Len(s) + 1].msg <= Len(w)
    PROVE  Spans(w, Append(s, ItemAt(w, pos[Len(s) + 1])), pos[1], NextPlace(w, pos[Len(s) + 1]))
  <1> DEFINE n == Len(s) + 1
             it == ItemAt(w, pos[n])
             t == Append(s, it)
             nxt == NextPlace(w, pos[n])
             q == [k \in 1 .. n + 1 |-> IF k <= n THEN pos[k] ELSE nxt]
  <1>1. n \in Nat \ {0} /\ Len(s) = n - 1 /\ Len(s) + 2 = n + 1
    BY LenProperties
  <1>2. /\ pos \in [1 .. n -> Place]
        /\ \A k \in 1 .. Len(s) :
             pos[k].msg <= Len(w) /\ s[k] = ItemAt(w, pos[k]) /\ pos[k + 1] = NextPlace(w, pos[k])
        /\ \A j, k \in 1 .. n :
             j <= k /\ InFrame(w, pos[j]) /\ pos[j].off + (k - j) <= SizeAt(w, pos[j])
             => pos[k] = At(pos[j].msg, pos[j].frame, pos[j].off + (k - j))
        /\ pos[n].msg <= Len(w)
    BY DEF Aligned
  <1>3. \A j, k \in 1 .. n :
           j <= k /\ (\A i \in j .. k - 1 : s[i] # End) => pos[k].msg = pos[j].msg
    BY DEF Aligned
  <1> HIDE DEF n
  <1>4. pos[n] \in Place
    BY <1>1, <1>2
  <1>5. it \in Item /\ nxt \in Place
    BY <1>4, PlaceFacts, Zenon
  <1>6. /\ t \in Seq(Item) /\ Len(t) = n
        /\ \A k \in 1 .. Len(s) : t[k] = s[k]
        /\ t[n] = it
    BY <1>5, AppendProperties DEF n
  <1> HIDE DEF t, nxt
  <1>7. /\ q \in [1 .. n + 1 -> Place]
        /\ q[n + 1] = nxt
        /\ \A k \in 1 .. n : q[k] = pos[k]
    BY <1>1, <1>2, <1>5
  <1> HIDE DEF q
  <1>8. ASSUME NEW k \in 1 .. n
        PROVE  q[k].msg <= Len(w) /\ t[k] = ItemAt(w, q[k]) /\ q[k + 1] = NextPlace(w, q[k])
    <2>1. CASE k = n
      BY <1>1, <1>2, <1>6, <1>7, <2>1, Zenon DEF nxt
    <2>2. CASE k # n
      <3>1. k \in 1 .. Len(s) /\ k + 1 \in 1 .. n
        BY <1>1, <2>2
      <3> QED
        BY <1>2, <1>6, <1>7, <3>1, Zenon
    <2> QED
      BY <2>1, <2>2, Zenon
  <1>9. ASSUME NEW j \in 1 .. n + 1, NEW k \in 1 .. n + 1,
               j <= k, InFrame(w, q[j]), q[j].off + (k - j) <= SizeAt(w, q[j])
        PROVE  q[k] = At(q[j].msg, q[j].frame, q[j].off + (k - j))
    <2>1. q[j] \in Place /\ SizeAt(w, q[j]) \in Nat
      BY <1>7, <1>9, PlaceFacts, Zenon
    <2>2. CASE j = k
      <3>1. q[j] = At(q[j].msg, q[j].frame, q[j].off) /\ q[j].off + (k - j) = q[j].off
        BY <1>1, <2>1, <2>2 DEF At, Place
      <3> QED
        BY <2>2, <3>1
    <2>3. CASE k <= n
      <3>1. j \in 1 .. n /\ k \in 1 .. n
        BY <1>1, <1>9, <2>3
      <3> QED
        BY <1>2, <1>7, <1>9, <3>1, Zenon
    <2>4. CASE k = n + 1 /\ j <= n
      <3>1. j \in 1 .. n /\ n \in 1 .. n
        BY <1>1, <2>4
      <3>2. q[j].off \in Nat /\ n \in Nat /\ j \in Nat /\ k = n + 1
        BY <1>1, <2>1, <2>4, SMTT(30) DEF Place
      <3>3. q[j].off + (n - j) < SizeAt(w, q[j]) /\ q[j].off + (k - j) = q[j].off + (n - j) + 1
        BY <1>9, <2>1, <3>2, SMTT(30)
      <3>4. q[n] = At(q[j].msg, q[j].frame, q[j].off + (n - j))
        <4>1. q[j].off + (n - j) <= SizeAt(w, q[j]) /\ j <= n
          BY <2>1, <2>4, <3>2, <3>3, SMTT(30)
        <4> QED
          BY <1>2, <1>7, <1>9, <3>1, <4>1, Zenon
      <3>5. /\ InFrame(w, q[n]) /\ SizeAt(w, q[n]) = SizeAt(w, q[j])
            /\ q[n].msg = q[j].msg /\ q[n].frame = q[j].frame
            /\ q[n].off = q[j].off + (n - j)
        BY <1>9, <3>4 DEF InFrame, SizeAt, FrameAt, At
      <3>6. q[k] = NextPlace(w, q[n])
        BY <1>8, <2>4, <3>1
      <3>7. NextPlace(w, q[n]) = At(q[n].msg, q[n].frame, q[n].off + 1)
        BY <3>3, <3>5 DEF NextPlace
      <3> QED
        BY <3>3, <3>5, <3>6, <3>7
    <2> QED
      BY <1>1, <1>9, <2>2, <2>3, <2>4
  <1>10. ASSUME NEW j \in 1 .. n + 1, NEW k \in 1 .. n + 1,
                j <= k, \A i \in j .. k - 1 : t[i] # End
         PROVE  q[k].msg = q[j].msg
    <2>1. CASE k <= n
      <3>1. j \in 1 .. n /\ k \in 1 .. n /\ \A i \in j .. k - 1 : i \in 1 .. Len(s)
        BY <1>1, <1>10, <2>1
      <3>2. \A i \in j .. k - 1 : s[i] # End
        BY <1>6, <1>10, <3>1
      <3>3. pos[k].msg = pos[j].msg
        BY <1>3, <1>10, <3>1, <3>2
      <3> QED
        BY <1>7, <3>1, <3>3
    <2>2. CASE k = n + 1 /\ j <= n
      <3>1. j \in 1 .. n /\ n \in 1 .. n /\ n \in j .. k - 1
            /\ \A i \in j .. n - 1 : i \in j .. k - 1 /\ i \in 1 .. Len(s)
        BY <1>1, <2>2
      <3>2. q[n].msg = q[j].msg
        <4>1. \A i \in j .. n - 1 : s[i] # End
          BY <1>6, <1>10, <3>1
        <4>2. pos[n].msg = pos[j].msg
          BY <1>3, <2>2, <3>1, <4>1
        <4> QED
          BY <1>7, <3>1, <4>2
      <3>3. t[n] = ItemAt(w, q[n]) /\ t[n] # End /\ q[k] = NextPlace(w, q[n])
        BY <1>8, <1>10, <2>2, <3>1, Zenon
      <3>4. q[k].msg = q[n].msg
        BY <3>3 DEF ItemAt, NextPlace, At
      <3> QED
        BY <3>2, <3>4
    <2>3. CASE j = k
      BY <2>3, Zenon
    <2> QED
      BY <1>1, <1>10, <2>1, <2>2, <2>3
  <1>11. Aligned(w, t, q)
    BY <1>6, <1>7, <1>8, <1>9, <1>10, Zenon DEF Aligned
  <1>12. q[1] = pos[1] /\ q[Len(t) + 1] = nxt
    BY <1>1, <1>6, <1>7
  <1>13. Spans(w, t, pos[1], nxt)
    BY <1>11, <1>12 DEF Spans
  <1> QED
    BY <1>13 DEF t, it, nxt, n

(* Writing the data of a frame, when its header has been written.          *)
LEMMA AlignedUnits ==
    ASSUME NEW w \in Seq(Message \cup Raw), NEW s \in Seq(Item), NEW pos, Aligned(w, s, pos),
           NEW m \in Nat \ {0}, NEW f \in Nat \ {0}, InFrame(w, At(m, f, 0)),
           pos[Len(s) + 1] = NextPlace(w, At(m, f, 0))
    PROVE  Spans(w, s \o Units(FrameAt(w, At(m, f, 0)).data), pos[1], At(m, f + 1, 0))
  <1> DEFINE d == FrameAt(w, At(m, f, 0)).data
             z == d.size
             l == Len(s)
             t == s \o Units(d)
             q == [k \in 1 .. l + z + 1 |-> IF k <= l + 1 THEN pos[k]
                                            ELSE IF k <= l + z THEN At(m, f, k - l)
                                            ELSE At(m, f + 1, 0)]
  <1>1. l \in Nat /\ At(m, f, 0) \in Place /\ \A o \in Nat : At(m, f, o) \in Place /\ At(m, f + 1, 0) \in Place
    BY DEF At, Place
  <1>2. d \in Data /\ z \in Nat
    BY <1>1, PlaceFacts, Zenon DEF FrameRecord, Data
  <1>3. \A o \in Nat : InFrame(w, At(m, f, o)) /\ FrameAt(w, At(m, f, o)).data = d /\ SizeAt(w, At(m, f, o)) = z
    BY Zenon DEF InFrame, FrameAt, SizeAt, At
  <1>4. /\ t \in Seq(Item) /\ Len(t) = l + z
        /\ \A k \in 1 .. l : t[k] = s[k]
        /\ \A i \in 1 .. z : t[l + i] = Unit(d, i)
    <2>1. Units(d) \in Seq(Item) /\ Len(Units(d)) = z /\ \A i \in 1 .. z : Units(d)[i] = Unit(d, i)
      BY <1>2, UnitsType
    <2>2. /\ t \in Seq(Item) /\ Len(t) = Len(s) + Len(Units(d))
          /\ \A i \in 1 .. Len(s) + Len(Units(d)) :
               t[i] = IF i <= Len(s) THEN s[i] ELSE Units(d)[i - Len(s)]
      BY <2>1, ConcatProperties, Zenon
    <2>3. t \in Seq(Item) /\ Len(t) = l + z /\ \A i \in 1 .. l + z : t[i] = IF i <= l THEN s[i] ELSE Units(d)[i - l]
      BY <2>1, <2>2, Zenon
    <2>4. \A k \in 1 .. l : k \in 1 .. l + z /\ k <= l
      BY <1>1, <1>2, SMTT(30)
    <2>5. \A i \in 1 .. z : l + i \in 1 .. l + z /\ ~(l + i <= l) /\ (l + i) - l = i
      BY <1>1, <1>2, SMTT(30)
    <2> QED
      BY <2>1, <2>3, <2>4, <2>5, Zenon
  <1>5. /\ pos \in [1 .. l + 1 -> Place]
        /\ \A k \in 1 .. l :
             pos[k].msg <= Len(w) /\ s[k] = ItemAt(w, pos[k]) /\ pos[k + 1] = NextPlace(w, pos[k])
        /\ \A j, k \in 1 .. l + 1 :
             j <= k /\ InFrame(w, pos[j]) /\ pos[j].off + (k - j) <= SizeAt(w, pos[j])
             => pos[k] = At(pos[j].msg, pos[j].frame, pos[j].off + (k - j))
    BY DEF Aligned
  <1>6. \A j, k \in 1 .. l + 1 :
           j <= k /\ (\A i \in j .. k - 1 : s[i] # End) => pos[k].msg = pos[j].msg
    BY DEF Aligned
  <1>7. pos[l + 1] = IF z > 0 THEN At(m, f, 1) ELSE At(m, f + 1, 0)
    <2>1. (0 < z <=> z > 0) /\ 0 + 1 = 1
      BY <1>2, SMTT(30)
    <2>2. NextPlace(w, At(m, f, 0)) = IF 0 < z THEN At(m, f, 0 + 1) ELSE At(m, f + 1, 0)
      BY <1>3 DEF NextPlace, At, SizeAt
    <2> QED
      BY <2>1, <2>2, Zenon
  <1> HIDE DEF l, d, t, z
  <1>8. \A k \in 1 .. l + z + 1 : IF k <= l + 1 THEN pos[k] \in Place
                                  ELSE k - l \in Nat
    BY <1>1, <1>2, <1>5, SMTT(30)
  <1>9. /\ q \in [1 .. l + z + 1 -> Place]
        /\ \A k \in 1 .. l + 1 : q[k] = pos[k]
        /\ \A k \in l + 1 .. l + z : q[k] = At(m, f, k - l)
        /\ q[l + z + 1] = At(m, f + 1, 0)
    <2>1. q \in [1 .. l + z + 1 -> Place]
      BY <1>1, <1>8
    <2>2. ASSUME NEW k \in 1 .. l + 1 PROVE q[k] = pos[k]
      <3>1. k \in 1 .. l + z + 1 /\ k <= l + 1
        BY <1>1, <1>2
      <3> QED
        BY <3>1
    <2>3. ASSUME NEW k \in l + 1 .. l + z PROVE q[k] = At(m, f, k - l)
      <3>1. k \in 1 .. l + z + 1 /\ k <= l + z /\ (k <= l + 1 => k = l + 1 /\ k - l = 1 /\ z > 0)
        BY <1>1, <1>2
      <3> QED
        BY <1>7, <3>1
    <2>4. q[l + z + 1] = At(m, f + 1, 0)
      <3>1. l + z + 1 \in 1 .. l + z + 1 /\ ~(l + z + 1 <= l + z) /\ (l + z + 1 <= l + 1 => z = 0 /\ l + z + 1 = l + 1)
        BY <1>1, <1>2
      <3> QED
        BY <1>2, <1>7, <3>1
    <2> QED
      BY <2>1, <2>2, <2>3, <2>4
  <1> HIDE DEF q
  <1>10. ASSUME NEW k \in 1 .. l + z
        PROVE  q[k].msg <= Len(w) /\ t[k] = ItemAt(w, q[k]) /\ q[k + 1] = NextPlace(w, q[k])
    <2>1. CASE k <= l
      <3>1. k \in 1 .. l /\ k \in 1 .. l + 1 /\ k + 1 \in 1 .. l + 1
        BY <1>1, <2>1
      <3> QED
        BY <1>4, <1>5, <1>9, <3>1, Zenon
    <2>2. CASE k > l
      <3> DEFINE i == k - l
      <3>1. i \in 1 .. z /\ i \in Nat /\ i # 0 /\ l + i = k /\ k \in l + 1 .. l + z
        BY <1>1, <1>2, <2>2
      <3>2. q[k] = At(m, f, i) /\ t[k] = Unit(d, i)
        BY <1>4, <1>9, <3>1, Zenon
      <3>3. InFrame(w, q[k]) /\ q[k].msg = m /\ q[k].frame = f /\ q[k].off = i
            /\ FrameAt(w, q[k]).data = d /\ SizeAt(w, q[k]) = z
        BY <1>3, <3>1, <3>2, SMTT(30) DEF At
      <3>4. q[k].msg <= Len(w)
        BY <3>3, Zenon DEF InFrame
      <3>5. t[k] = ItemAt(w, q[k])
        BY <3>1, <3>2, <3>3, Zenon DEF ItemAt
      <3>6. q[k + 1] = NextPlace(w, q[k])
        <4>1. CASE i < z
          <5>1. k + 1 \in l + 1 .. l + z /\ (k + 1) - l = i + 1
            BY <1>1, <1>2, <3>1, <4>1
          <5>2. q[k + 1] = At(m, f, i + 1)
            BY <1>9, <5>1, Zenon
          <5> QED
            BY <3>3, <4>1, <5>2 DEF NextPlace
        <4>2. CASE ~(i < z)
          <5>1. k + 1 = l + z + 1
            BY <1>1, <1>2, <3>1, <4>2, SMTT(30)
          <5> QED
            BY <1>9, <3>3, <4>2, <5>1 DEF NextPlace
        <4> QED
          BY <4>1, <4>2, Zenon
      <3> QED
        BY <3>4, <3>5, <3>6
    <2> QED
      BY <1>1, <1>2, <2>1, <2>2, SMTT(30)
  <1>11. ASSUME NEW j \in 1 .. l + z + 1, NEW k \in 1 .. l + z + 1,
                j <= k, InFrame(w, q[j]), q[j].off + (k - j) <= SizeAt(w, q[j])
         PROVE  q[k] = At(q[j].msg, q[j].frame, q[j].off + (k - j))
    <2>1. q[j] \in Place /\ SizeAt(w, q[j]) \in Nat
      BY <1>9, <1>11, PlaceFacts, Zenon
    <2>2. q[j].off \in Nat /\ j \in Nat /\ k \in Nat
      <3>1. q[j].off \in Nat
        BY <2>1 DEF Place
      <3>2. j \in Nat /\ k \in Nat
        BY <1>1, <1>2, SMTT(30)
      <3> QED
        BY <3>1, <3>2
    <2>3. CASE j = k
      <3>1. q[j] = At(q[j].msg, q[j].frame, q[j].off)
        BY <2>1, Zenon DEF At, Place
      <3>2. q[j].off + (k - j) = q[j].off
        BY <2>2, <2>3, SMTT(30)
      <3> QED
        BY <2>3, <3>1, <3>2
    <2>4. CASE k <= l + 1
      <3>1. j \in 1 .. l + 1 /\ k \in 1 .. l + 1
        BY <1>1, <1>11, <2>2, <2>4, SMTT(30)
      <3> QED
        BY <1>5, <1>9, <1>11, <3>1, Zenon
    <2>5. CASE j # k /\ k > l + 1
      <3>1. q[j].msg = m /\ q[j].frame = f /\ q[j].off = j - l
        <4>1. CASE j <= l + 1
          <5>1. j \in 1 .. l + 1 /\ l + 1 \in 1 .. l + 1 /\ q[j] = pos[j] /\ q[l + 1] = pos[l + 1]
            BY <1>1, <1>9, <2>2, <4>1, SMTT(30)
          <5>2. q[j].off + ((l + 1) - j) <= SizeAt(w, q[j])
            BY <1>1, <1>11, <2>1, <2>2, <2>5, <4>1, SMTT(30)
          <5>3. pos[l + 1] = At(q[j].msg, q[j].frame, q[j].off + ((l + 1) - j))
            BY <1>5, <1>11, <4>1, <5>1, <5>2, Zenon
          <5>4. l + 1 \in l + 1 .. l + z
            BY <1>1, <1>2, <2>2, <2>5
          <5>5. q[l + 1] = At(m, f, (l + 1) - l)
            BY <1>9, <5>4, Zenon
          <5>6. q[j].msg = m /\ q[j].frame = f /\ q[j].off + ((l + 1) - j) = (l + 1) - l
            BY <5>1, <5>3, <5>5 DEF At
          <5> QED
            BY <1>1, <2>2, <5>6, SMTT(30)
        <4>2. CASE j > l + 1
          <5>1. j \in l + 1 .. l + z
            BY <1>1, <1>2, <1>11, <2>2, <2>5, <4>2
          <5>2. q[j] = At(m, f, j - l)
            BY <1>9, <5>1, Zenon
          <5> QED
            BY <5>2 DEF At
        <4> QED
          BY <1>1, <2>2, <4>1, <4>2, SMTT(30)
      <3>2. SizeAt(w, q[j]) = z
        BY <1>3, <3>1, Zenon DEF SizeAt, FrameAt, At
      <3>3. q[j].off + (k - j) = k - l
        BY <1>1, <2>2, <3>1, SMTT(30)
      <3>4. k \in l + 1 .. l + z
        BY <1>1, <1>2, <1>11, <2>2, <2>5, <3>2, <3>3, SMTT(30)
      <3> QED
        BY <1>9, <3>1, <3>3, <3>4, Zenon
    <2> QED
      BY <1>1, <2>2, <2>3, <2>4, <2>5
  <1>12. ASSUME NEW j \in 1 .. l + z + 1, NEW k \in 1 .. l + z + 1,
                j <= k, \A i \in j .. k - 1 : t[i] # End
         PROVE  q[k].msg = q[j].msg
    <2>1. \A e \in l + 1 .. l + z + 1 : q[e].msg = m
      <3>1. \A e \in l + 1 .. l + z + 1 : e \in l + 1 .. l + z \/ e = l + z + 1
        BY <1>1, <1>2
      <3>2. q[l + z + 1].msg = m /\ \A e \in l + 1 .. l + z : q[e].msg = m
        <4>1. \A g, o : At(m, g, o).msg = m
          BY Zenon DEF At
        <4>2. ASSUME NEW e \in l + 1 .. l + z PROVE q[e].msg = m
          <5>1. q[e] = At(m, f, e - l)
            BY <1>9
          <5> QED
            BY <4>1, <5>1
        <4>3. q[l + z + 1].msg = m
          BY <1>9, <4>1
        <4> QED
          BY <4>2, <4>3
      <3> QED
        BY <3>1, <3>2
    <2>2. ASSUME NEW e \in 1 .. l + 1, j <= e, e <= k PROVE q[e].msg = q[j].msg
      <3>1. j \in 1 .. l + 1 /\ \A i \in j .. e - 1 : i \in j .. k - 1 /\ i \in 1 .. l
        BY <1>1, <1>2, <2>2, SMTT(30)
      <3>2. \A i \in j .. e - 1 : s[i] # End
        BY <1>4, <1>12, <3>1, Zenon
      <3>3. pos[e].msg = pos[j].msg
        BY <1>6, <2>2, <3>1, <3>2
      <3> QED
        BY <1>9, <3>1, <3>3
    <2>3. CASE k <= l + 1
      BY <1>1, <1>2, <1>12, <2>2, <2>3
    <2>4. CASE j > l + 1
      BY <1>1, <1>2, <1>12, <2>1, <2>4, SMTT(30)
    <2>5. CASE j <= l + 1 /\ k > l + 1
      <3>1. l + 1 \in 1 .. l + 1 /\ l + 1 \in l + 1 .. l + z + 1 /\ k \in l + 1 .. l + z + 1 /\ l + 1 <= k
        BY <1>1, <1>2, <2>5
      <3>2. q[l + 1].msg = q[j].msg
        BY <2>2, <2>5, <3>1, Zenon
      <3> QED
        BY <2>1, <3>1, <3>2
    <2> QED
      BY <1>1, <1>2, <2>3, <2>4, <2>5
  <1>13. Aligned(w, t, q)
    BY <1>4, <1>9, <1>10, <1>11, <1>12, ZenonT(30) DEF Aligned
  <1>14. q[1] = pos[1] /\ q[Len(t) + 1] = At(m, f + 1, 0)
    BY <1>1, <1>4, <1>9
  <1>15. Spans(w, t, pos[1], At(m, f + 1, 0))
    BY <1>13, <1>14 DEF Spans
  <1> QED
    BY <1>15 DEF t, d

(* What is left of the stream when some of it is read or lost.             *)
LEMMA AlignedPiece ==
    ASSUME NEW w \in Seq(Message \cup Raw), NEW s \in Seq(Item), NEW pos, Aligned(w, s, pos),
           NEW a \in 1 .. Len(s) + 1, NEW b \in a - 1 .. Len(s)
    PROVE  Spans(w, SubSeq(s, a, b), pos[a], pos[b + 1])
  <1> DEFINE c == a - 1
             l == b - c
             t == SubSeq(s, a, b)
             q == [k \in 1 .. l + 1 |-> pos[k + c]]
  <1>1. Len(s) \in Nat /\ a \in Nat /\ b \in Nat /\ c \in Nat /\ l \in Nat
    BY LenProperties
  <1>2. \A k \in 1 .. l : k + c \in 1 .. Len(s) /\ k + c \in a .. b
    BY <1>1
  <1>3. \A k \in 1 .. l + 1 : k + c \in 1 .. Len(s) + 1
    BY <1>1
  <1>4. t \in Seq(Item) /\ Len(t) = l /\ \A k \in 1 .. l : t[k] = s[k + c]
    <2>1. \A k \in a .. b : s[k] \in Item
      BY <1>1
    <2>2. /\ t \in Seq(Item)
          /\ Len(t) = IF a <= b THEN b - a + 1 ELSE 0
          /\ \A k \in 1 .. b - a + 1 : t[k] = s[a + k - 1]
      BY <1>1, <2>1, SubSeqProperties
    <2>3. b - a + 1 = l /\ (~(a <= b) => l = 0) /\ \A k \in 1 .. l : a + k - 1 = k + c
      BY <1>1
    <2> QED
      BY <2>2, <2>3
  <1>5. /\ pos \in [1 .. Len(s) + 1 -> Place]
        /\ \A k \in 1 .. Len(s) :
             pos[k].msg <= Len(w) /\ s[k] = ItemAt(w, pos[k]) /\ pos[k + 1] = NextPlace(w, pos[k])
        /\ \A j, k \in 1 .. Len(s) + 1 :
             j <= k /\ InFrame(w, pos[j]) /\ pos[j].off + (k - j) <= SizeAt(w, pos[j])
             => pos[k] = At(pos[j].msg, pos[j].frame, pos[j].off + (k - j))
    BY Zenon DEF Aligned
  <1>6. \A j, k \in 1 .. Len(s) + 1 :
           j <= k /\ (\A i \in j .. k - 1 : s[i] # End) => pos[k].msg = pos[j].msg
    BY DEF Aligned
  <1>7. q \in [1 .. l + 1 -> Place] /\ \A k \in 1 .. l + 1 : q[k] = pos[k + c]
    BY <1>3, <1>5, Zenon
  <1> HIDE DEF c, l, t, q
  <1>8. ASSUME NEW k \in 1 .. l
        PROVE  q[k].msg <= Len(w) /\ t[k] = ItemAt(w, q[k]) /\ q[k + 1] = NextPlace(w, q[k])
    <2>1. k \in 1 .. l + 1 /\ k + 1 \in 1 .. l + 1 /\ (k + 1) + c = (k + c) + 1
      BY <1>1
    <2>2. q[k] = pos[k + c] /\ q[k + 1] = pos[(k + c) + 1]
      BY <1>7, <2>1, SMTT(30)
    <2> QED
      BY <1>2, <1>4, <1>5, <2>2, Zenon
  <1>9. ASSUME NEW j \in 1 .. l + 1, NEW k \in 1 .. l + 1,
               j <= k, InFrame(w, q[j]), q[j].off + (k - j) <= SizeAt(w, q[j])
        PROVE  q[k] = At(q[j].msg, q[j].frame, q[j].off + (k - j))
    <2>1. q[j] = pos[j + c] /\ q[k] = pos[k + c]
      BY <1>7
    <2>2. (k + c) - (j + c) = k - j /\ j + c <= k + c
      BY <1>1, <1>9
    <2> QED
      BY <1>3, <1>5, <1>9, <2>1, <2>2, Zenon
  <1>10. ASSUME NEW j \in 1 .. l + 1, NEW k \in 1 .. l + 1,
                j <= k, \A i \in j .. k - 1 : t[i] # End
         PROVE  q[k].msg = q[j].msg
    <2>1. \A i \in j + c .. (k + c) - 1 : s[i] # End
      <3>1. ASSUME NEW i \in j + c .. (k + c) - 1 PROVE s[i] # End
        <4>1. i - c \in j .. k - 1 /\ i - c \in 1 .. l /\ (i - c) + c = i
          BY <1>1
        <4> QED
          BY <1>4, <1>10, <4>1, Zenon
      <3> QED
        BY <3>1
    <2>2. j + c <= k + c /\ j + c \in 1 .. Len(s) + 1 /\ k + c \in 1 .. Len(s) + 1
      BY <1>1, <1>3, <1>10
    <2>3. pos[k + c].msg = pos[j + c].msg
      BY <1>6, <2>1, <2>2, Zenon
    <2> QED
      BY <1>7, <2>3
  <1>11. Aligned(w, t, q)
    BY <1>4, <1>7, <1>8, <1>9, <1>10, Zenon DEF Aligned
  <1>12. 1 + c = a /\ (l + 1) + c = b + 1 /\ 1 \in 1 .. l + 1 /\ l + 1 \in 1 .. l + 1
    BY <1>1 DEF l, c
  <1>13. q[1] = pos[a] /\ q[Len(t) + 1] = pos[b + 1]
    BY <1>4, <1>7, <1>12
  <1>14. Spans(w, t, pos[a], pos[b + 1])
    BY <1>11, <1>13 DEF Spans
  <1> QED
    BY <1>14 DEF t

(* What is left of the stream when n items of it are read.                 *)
LEMMA AlignedAfter ==
    ASSUME NEW w \in Seq(Message \cup Raw), NEW s \in Seq(Item), NEW pos, Aligned(w, s, pos),
           NEW n \in 0 .. Len(s)
    PROVE  Spans(w, SubSeq(s, n + 1, Len(s)), pos[n + 1], pos[Len(s) + 1])
  <1> DEFINE a == n + 1
             b == Len(s)
  <1>1. a \in 1 .. Len(s) + 1 /\ b \in a - 1 .. Len(s)
    BY LenProperties
  <1> HIDE DEF a, b
  <1>2. Spans(w, SubSeq(s, a, b), pos[a], pos[b + 1])
    BY <1>1, AlignedPiece, ZenonT(30)
  <1> QED
    BY <1>2 DEF a, b

(* Beginning a message changes nothing of what was written before it.      *)
LEMMA AlignedGrow ==
    ASSUME NEW w \in Seq(Message \cup Raw), NEW s \in Seq(Item), NEW pos, Aligned(w, s, pos),
           NEW m \in Message \cup Raw
    PROVE  Aligned(Append(w, m), s, pos)
  <1> DEFINE v == Append(w, m)
  <1>1. Len(s) \in Nat /\ Len(w) \in Nat
    BY LenProperties
  <1>2. Len(v) = Len(w) + 1 /\ \A i \in 1 .. Len(w) : v[i] = w[i]
    BY AppendProperties
  <1> HIDE DEF v
  <1>3. pos \in [1 .. Len(s) + 1 -> Place]
    BY Zenon DEF Aligned
  <1>4. ASSUME NEW p \in Place, p.msg <= Len(w)
        PROVE  /\ InFrame(v, p) <=> InFrame(w, p)
               /\ SizeAt(v, p) = SizeAt(w, p)
               /\ ItemAt(v, p) = ItemAt(w, p)
               /\ NextPlace(v, p) = NextPlace(w, p)
    <2>1. p.msg \in 1 .. Len(w) /\ p.msg <= Len(v)
      BY <1>1, <1>2, <1>4 DEF Place
    <2>2. v[p.msg] = w[p.msg]
      BY <1>2, <2>1
    <2>3. (InFrame(v, p) <=> InFrame(w, p)) /\ FrameAt(v, p) = FrameAt(w, p)
      BY <1>4, <2>1, <2>2, Zenon DEF InFrame, FrameAt
    <2> QED
      BY <2>3, Zenon DEF SizeAt, ItemAt, NextPlace
  <1>5. ASSUME NEW k \in 1 .. Len(s)
        PROVE  /\ pos[k] \in Place /\ pos[k].msg <= Len(w) /\ pos[k].msg <= Len(v)
               /\ s[k] = ItemAt(v, pos[k]) /\ pos[k + 1] = NextPlace(v, pos[k])
    <2>1. pos[k] \in Place /\ pos[k].msg \in Nat
      BY <1>1, <1>3, SMTT(30) DEF Place
    <2>2. pos[k].msg <= Len(w) /\ s[k] = ItemAt(w, pos[k]) /\ pos[k + 1] = NextPlace(w, pos[k])
      BY Zenon DEF Aligned
    <2>3. pos[k].msg <= Len(v)
      BY <1>1, <1>2, <2>1, <2>2, SMTT(30)
    <2> QED
      BY <1>4, <2>1, <2>2, <2>3
  <1>6. ASSUME NEW j \in 1 .. Len(s) + 1, NEW k \in 1 .. Len(s) + 1,
               j <= k, InFrame(v, pos[j]), pos[j].off + (k - j) <= SizeAt(v, pos[j])
        PROVE  pos[k] = At(pos[j].msg, pos[j].frame, pos[j].off + (k - j))
    <2>1. pos[j] \in Place
      BY <1>3
    <2>2. CASE j = k
      <3>1. pos[j] = At(pos[j].msg, pos[j].frame, pos[j].off)
        BY <2>1 DEF At, Place
      <3>2. pos[j].off \in Nat
        BY <2>1 DEF Place
      <3>3. pos[j].off + (k - j) = pos[j].off
        BY <1>1, <2>2, <3>2
      <3> QED
        BY <2>2, <3>1, <3>3, Zenon
    <2>3. CASE j # k
      <3>1. j \in 1 .. Len(s)
        BY <1>1, <1>6, <2>3, SMTT(30)
      <3>2. InFrame(w, pos[j]) /\ SizeAt(v, pos[j]) = SizeAt(w, pos[j])
        BY <1>4, <1>5, <1>6, <2>1, <3>1
      <3> QED
        BY <1>6, <3>2, Zenon DEF Aligned
    <2> QED
      BY <2>2, <2>3
  <1>7. \A j, k \in 1 .. Len(s) + 1 :
          j <= k /\ (\A i \in j .. k - 1 : s[i] # End) => pos[k].msg = pos[j].msg
    BY DEF Aligned
  <1> QED
    BY <1>3, <1>5, <1>6, <1>7 DEF Aligned, v

-----------------------------------------------------------------------------
(* ReadMessage accepts every message WriteMessage writes.                  *)
LEMMA WrittenIsAccepted ==
    ASSUME NEW m \in Message \cup Raw, m.type # "raw"
    PROVE  Accepts(m) /\ m \in Message
  <1>1. m \in Message /\ Marshalled(m) /\ m \in CommandMessage \cup PayloadMessage
    BY ProtocolAssumption, Zenon DEF ProtocolAssumption, RawMessage
  <1>2. CASE m.type = "payload"
    <2>1. FramesOf(m) = <<Frame(HeaderFrameType, m.routing), Frame(PayloadFrameType, m.data)>>
      BY <1>2 DEF FramesOf
    <2>2. /\ Len(FramesOf(m)) = 2 /\ FramesOf(m) # <<>>
          /\ FramesOf(m)[1] = Frame(HeaderFrameType, m.routing)
          /\ FramesOf(m)[2] = Frame(PayloadFrameType, m.data)
      BY <2>1
    <2>3. IsJson(m.routing) /\ IsJson(m.data)
      BY <1>1, <1>2 DEF Marshalled
    <2> QED
      BY <1>1, <2>2, <2>3 DEF Accepts, Fits, Frame
  <1>3. CASE m.type # "payload"
    <2>1. m.type \in {"hi", "route"}
      BY <1>1, <1>3, Zenon DEF CommandMessage, PayloadMessage, HiMessage, RouteTableMessage
    <2>2. FramesOf(m) = <<Frame(CommandFrameType, m.data)>>
      BY <2>1 DEF FramesOf
    <2>3. FramesOf(m) # <<>> /\ FramesOf(m)[1] = Frame(CommandFrameType, m.data)
      BY <2>2
    <2>4. IsJson(m.data) /\ CommandType(m.data) # "unrecognized"
      BY <1>1, <2>1 DEF Marshalled, CommandType
    <2> QED
      BY <1>1, <2>3, <2>4 DEF Accepts, Fits, Frame
  <1> QED
    BY <1>2, <1>3

-----------------------------------------------------------------------------
(***************************************************************************)
(* The inductive invariant.  WritePlace is where WriteMessage is; Current  *)
(* is the message the reader reads, Parts its frames.                      *)
(***************************************************************************)
LastFrames == FramesOf(written[Len(written)])

WritePlace ==
    IF writer = "idle" THEN At(Len(written) + 1, 1, 0)
    ELSE LET p == At(Len(written), Len(LastFrames) - Len(frames) + 1, 0)
         IN  IF writer = "data" THEN NextPlace(written, p) ELSE p

WriterInv ==
    writer # "idle" =>
        /\ written # <<>>
        /\ Len(frames) <= Len(LastFrames)
        /\ \A k \in 1 .. Len(frames) :
             frames[k] = LastFrames[Len(LastFrames) - Len(frames) + k]

Current == Len(delivered) + 1

Parts == FramesOf(written[Current])

\* What ReadMessage holds of the frames it has read is what was written.
ReaderHolds ==
    /\ reader \in {"data", "payloadFrame", "payloadData"} => Current <= Len(written) /\ Len(Parts) >= 1
    /\ reader = "data" =>
         /\ frame = HeaderOf(Parts[1])
         /\ frame.type \in {HeaderFrameType, PayloadFrameType, CommandFrameType}
    /\ reader \in {"payloadFrame", "payloadData"} =>
         Parts[1].type = HeaderFrameType /\ Fits(Parts[1]) /\ routing = Parts[1].data
    /\ reader = "payloadData" =>
         /\ Len(Parts) >= 2
         /\ frame = HeaderOf(Parts[2])
         /\ frame.type = PayloadFrameType

AtReader(p) ==
    /\ reader = "frame" => p = At(Current, 1, 0)
    /\ reader = "data" => p = NextPlace(written, At(Current, 1, 0))
    /\ reader = "payloadFrame" => p = At(Current, 2, 0)
    /\ reader = "payloadData" => p = NextPlace(written, At(Current, 2, 0))
    /\ reader = "rest" => p.msg = Len(delivered)

\* Nothing more is returned: reading has failed, or is bound to.
Lost == reader = "exit" \/ (reader \in {"payloadFrame", "payloadData"} /\ routing = NoRouting)

ReadPlace(p) ==
    /\ ~Lost => AtReader(p)
    /\ reader \in {"payloadFrame", "payloadData"} => p.msg = Current

\* The stream is what was written between the two.
StreamInv ==
    \E from, to : /\ Spans(written, stream, from, to)
                  /\ ReadPlace(from)
                  /\ ~broken => to = WritePlace

Fault == broken \/ (Current <= Len(written) /\ ~Accepts(written[Current]))

ReaderInv ==
    /\ IF Lost THEN Fault ELSE ReaderHolds
    /\ reader # "exit" => StreamInv

(***************************************************************************)
(* ReadMessage returns the written messages in order, none left out, each  *)
(* one it accepts, and as what its whole frames are read as.               *)
(***************************************************************************)
WholeMessagesAreReturned ==
    /\ Len(delivered) <= Len(written)
    /\ \A n \in 1 .. Len(delivered) :
         Accepts(written[n]) /\ delivered[n] = Reading(written[n])

IInv == TypeInv /\ WriterInv /\ ReaderInv /\ WholeMessagesAreReturned

(* What the parts of the invariant say of written, stream and delivered.   *)
LEMMA Basics ==
    ASSUME TypeInv
    PROVE  /\ written \in Seq(Message \cup Raw) /\ Len(written) \in Nat
           /\ stream \in Seq(Item) /\ Len(stream) \in Nat
           /\ Len(delivered) \in Nat /\ Current \in Nat \ {0}
           /\ frames \in Seq(FrameRecord) /\ Len(frames) \in Nat
  <1>1. /\ written \in Seq(Message \cup Raw) /\ stream \in Seq(Item)
        /\ delivered \in Seq(CommandMessage \cup PayloadMessage)
        /\ frames \in Seq(FrameRecord)
    BY DEF TypeInv, TypeOK, FrameRecord
  <1>2. Len(delivered) \in Nat
    BY <1>1, LenProperties
  <1> QED
    BY <1>1, <1>2, LenProperties DEF Current

(* Reading the header of a frame at the place it was written.              *)
LEMMA HeaderRead ==
    ASSUME TypeInv, NEW pos, Aligned(written, stream, pos),
           NEW m \in Nat \ {0}, NEW f \in Nat \ {0}, pos[1] = At(m, f, 0)
    PROVE  /\ ReadFull(1) =>
                /\ InFrame(written, At(m, f, 0))
                /\ Head(stream) = HeaderOf(FrameAt(written, At(m, f, 0)))
                /\ Spans(written, stream', NextPlace(written, At(m, f, 0)), pos[Len(stream) + 1])
           /\ ReadShort(1) => broken \/ (m <= Len(written) /\ ~InFrame(written, At(m, f, 0)))
  <1> DEFINE p == At(m, f, 0)
  <1>1. /\ written \in Seq(Message \cup Raw) /\ Len(written) \in Nat
        /\ stream \in Seq(Item) /\ Len(stream) \in Nat
    BY Basics
  <1>2. p \in Place /\ p.msg = m /\ p.off = 0
    BY Zenon DEF At, Place
  <1>3. Len(stream) >= 1 => m <= Len(written) /\ stream[1] = ItemAt(written, p) /\ pos[2] = NextPlace(written, p)
    <2>1. Len(stream) >= 1 => 1 \in 1 .. Len(stream) /\ 1 + 1 = 2
      BY <1>1, SMTT(30)
    <2> QED
      BY <1>2, <2>1 DEF Aligned
  <1>4. ASSUME ReadFull(1)
        PROVE  /\ InFrame(written, p)
               /\ Head(stream) = HeaderOf(FrameAt(written, p))
               /\ Spans(written, stream', NextPlace(written, p), pos[Len(stream) + 1])
    <2>1. Len(stream) >= 1 /\ stream[1] # End /\ stream' = SubSeq(stream, 2, Len(stream))
      BY <1>1, <1>4 DEF ReadFull, CanRead, EndsAt, After
    <2>2. Head(stream) = stream[1]
      BY <1>1, <2>1, SMTT(30)
    <2>3. InFrame(written, p) /\ stream[1] = HeaderOf(FrameAt(written, p))
      BY <1>2, <1>3, <2>1 DEF ItemAt
    <2>4. 1 \in 0 .. Len(stream) /\ stream' = SubSeq(stream, 1 + 1, Len(stream)) /\ 1 + 1 = 2
      BY <1>1, <2>1
    <2>5. Spans(written, SubSeq(stream, 1 + 1, Len(stream)), pos[1 + 1], pos[Len(stream) + 1])
      BY <1>1, <2>4, AlignedAfter, ZenonT(30)
    <2> QED
      BY <1>3, <2>1, <2>2, <2>3, <2>4, <2>5, Zenon
  <1>5. ASSUME ReadShort(1), ~broken PROVE m <= Len(written) /\ ~InFrame(written, p)
    <2>1. ~CanRead(1) /\ \E k \in 1 .. Len(stream) : EndsAt(k)
      BY <1>5 DEF ReadShort, IsShort
    <2>2. Len(stream) >= 1
      BY <1>1, <2>1
    <2>3. stream[1] = End
      BY <2>1, <2>2, SMTT(30) DEF CanRead, EndsAt
    <2> QED
      BY <1>2, <1>3, <2>2, <2>3 DEF ItemAt, End, HeaderOf, Header
  <1> QED
    BY <1>4, <1>5

(* The data of a frame on the stream, after its header.                    *)
LEMMA UnitsOnStream ==
    ASSUME TypeInv, NEW pos, Aligned(written, stream, pos),
           NEW m \in Nat \ {0}, NEW f \in Nat \ {0}, InFrame(written, At(m, f, 0)),
           pos[1] = NextPlace(written, At(m, f, 0)),
           NEW k \in 1 .. Len(stream), k <= SizeAt(written, At(m, f, 0))
    PROVE  stream[k] = Unit(FrameAt(written, At(m, f, 0)).data, k) /\ pos[k] = At(m, f, k)
  <1> DEFINE p == At(m, f, 0)
  <1>1. written \in Seq(Message \cup Raw) /\ stream \in Seq(Item) /\ Len(stream) \in Nat
    BY Basics
  <1>2. p \in Place /\ p.msg = m /\ p.frame = f /\ p.off = 0 /\ 0 + 1 = 1
    BY DEF At, Place
  <1>3. SizeAt(written, p) \in Nat
    BY <1>1, <1>2, PlaceFacts, Zenon
  <1>4. 0 < SizeAt(written, p) /\ k \in Nat \ {0}
    BY <1>1, <1>3
  <1>5. pos[1] = At(m, f, 1)
    BY <1>2, <1>4, ZenonT(30) DEF NextPlace
  <1>6. \A o : /\ InFrame(written, At(m, f, o)) /\ SizeAt(written, At(m, f, o)) = SizeAt(written, p)
               /\ FrameAt(written, At(m, f, o)) = FrameAt(written, p)
               /\ At(m, f, o).off = o
    BY Zenon DEF InFrame, SizeAt, FrameAt, At
  <1>7. pos[k] = At(m, f, k)
    <2>1. 1 \in 1 .. Len(stream) + 1 /\ k \in 1 .. Len(stream) + 1 /\ 1 <= k /\ 1 + (k - 1) = k
      BY <1>1, <1>4, SMTT(30)
    <2>2. pos[1].msg = m /\ pos[1].frame = f /\ pos[1].off = 1
      BY <1>5, SMTT(30) DEF At
    <2>3. InFrame(written, pos[1]) /\ pos[1].off + (k - 1) <= SizeAt(written, pos[1])
      BY <1>5, <1>6, <2>1, <2>2, SMTT(30)
    <2> QED
      BY <2>1, <2>2, <2>3, SMTT(30) DEF Aligned
  <1>8. stream[k] = ItemAt(written, At(m, f, k))
    BY <1>7 DEF Aligned
  <1> QED
    BY <1>4, <1>6, <1>7, <1>8 DEF ItemAt

(* unmarshal succeeds on the data that was read only if that is the data   *)
(* of the frame, whole, and the reader has then come to the next frame.    *)
LEMMA ParsedIsWritten ==
    ASSUME TypeInv, NEW pos, Aligned(written, stream, pos),
           NEW m \in Nat \ {0}, NEW f \in Nat \ {0}, InFrame(written, At(m, f, 0)),
           pos[1] = NextPlace(written, At(m, f, 0)),
           NEW n, n = FrameAt(written, At(m, f, 0)).length,
           CanRead(n), Parses(SubSeq(stream, 1, n))
    PROVE  LET g == FrameAt(written, At(m, f, 0))
           IN  /\ Fits(g)
               /\ Text(SubSeq(stream, 1, n)) = g.data
               /\ Spans(written, After(n), At(m, f + 1, 0), pos[Len(stream) + 1])
  <1> DEFINE p == At(m, f, 0)
             g == FrameAt(written, p)
             buf == SubSeq(stream, 1, n)
             z == SizeAt(written, p)
  <1>1. written \in Seq(Message \cup Raw) /\ stream \in Seq(Item) /\ Len(stream) \in Nat
    BY Basics
  <1>2. p \in Place
    BY DEF At, Place
  <1>3. g \in FrameRecord /\ z \in Nat /\ z = g.data.size
    BY <1>1, <1>2, PlaceFacts, ZenonT(30) DEF SizeAt
  <1>4. n = g.length /\ n \in Nat
    BY <1>3 DEF FrameRecord
  <1>5. n \in Nat /\ n <= Len(stream)
    BY <1>4, SMTT(30) DEF CanRead
  <1>6. buf \in Seq(Item) /\ Len(buf) = n /\ (n >= 1 => buf[1] = stream[1])
    <2>1. \A i \in 1 .. n : stream[i] \in Item
      BY <1>1, <1>5, SMTT(30)
    <2>2. /\ buf \in Seq(Item) /\ Len(buf) = IF 1 <= n THEN n - 1 + 1 ELSE 0
          /\ \A i \in 1 .. n - 1 + 1 : buf[i] = stream[1 + i - 1]
      BY <1>5, <2>1, SubSeqProperties
    <2>3. (IF 1 <= n THEN n - 1 + 1 ELSE 0) = n /\ (n >= 1 => 1 \in 1 .. n - 1 + 1) /\ 1 + 1 - 1 = 1
      BY <1>5
    <2> QED
      BY <2>2, <2>3
  <1>7. /\ Text(buf) \in Data /\ Text(buf).json /\ Text(buf).size = n
        /\ n >= 1 /\ buf[1] = Unit(Text(buf), 1)
    BY <1>6, ParsedText, ZenonT(30)
  <1>8. 1 \in 1 .. Len(stream) /\ 1 <= z
    <2>1. 1 \in 1 .. Len(stream)
      BY <1>1, <1>5, <1>7, SMTT(30)
    <2>2. stream[1].unit = "data"
      BY <1>6, <1>7 DEF Unit
    <2>3. z = 0 => pos[1] = At(m, f + 1, 0)
      <3>1. p.msg = m /\ p.frame = f /\ p.off = 0
        BY DEF At
      <3> HIDE DEF p
      <3>2. SUFFICES ASSUME z = 0 PROVE pos[1] = At(m, f + 1, 0)
        OBVIOUS
      <3>3. ~(p.off < z)
        BY <3>1, <3>2
      <3>4. InFrame(written, p) /\ pos[1] = NextPlace(written, p)
        BY DEF p
      <3> HIDE DEF z
      <3>5. z = SizeAt(written, p)
        BY DEF z
      <3> QED
        BY <3>1, <3>3, <3>4, <3>5, Zenon DEF NextPlace
    <2>4. stream[1] = ItemAt(written, pos[1])
      BY <2>1 DEF Aligned
    <2>5. z # 0
      <3>1. At(m, f + 1, 0).off = 0
        BY DEF At
      <3> QED
        BY <2>2, <2>3, <2>4, <3>1 DEF ItemAt, HeaderOf, Header, End
    <2> QED
      BY <1>3, <2>1, <2>5
  <1>9. stream[1] = Unit(g.data, 1)
    BY <1>8, UnitsOnStream, ZenonT(30)
  <1>10. Text(buf) = g.data
    BY <1>6, <1>7, <1>9 DEF Unit
  <1>11. n = z /\ Fits(g)
    BY <1>3, <1>4, <1>7, <1>10, SMTT(30) DEF Fits, IsJson
  <1>12. pos[n + 1] = At(m, f + 1, 0)
    <2>1. n \in 1 .. Len(stream)
      BY <1>5, <1>7, SMTT(30)
    <2>2. pos[n] = At(m, f, n)
      BY <1>3, <1>11, <2>1, UnitsOnStream
    <2>3. pos[n + 1] = NextPlace(written, pos[n])
      BY <2>1, ZenonT(30) DEF Aligned
    <2>4. ~(n < z)
      BY <1>3, <1>11, SMTT(30)
    <2>5. /\ pos[n].msg = m /\ pos[n].frame = f /\ pos[n].off = n
          /\ p.msg = m /\ p.frame = f
      BY <2>2 DEF At
    <2> HIDE DEF p
    <2>6. InFrame(written, pos[n]) /\ SizeAt(written, pos[n]) = z
      <3>1. InFrame(written, p)
        BY DEF p
      <3> QED
        BY <2>5, <3>1, Zenon DEF InFrame, SizeAt, FrameAt, g
    <2> QED
      BY <2>3, <2>4, <2>5, <2>6, Zenon DEF NextPlace
  <1>13. n \in 0 .. Len(stream)
    BY <1>1, <1>5
  <1>14. Spans(written, After(n), pos[n + 1], pos[Len(stream) + 1])
    BY <1>1, <1>13, AlignedAfter, Zenon DEF After
  <1> QED
    BY <1>10, <1>11, <1>12, <1>14

(* Data that fits is read and parsed, unless the connection is gone.       *)
LEMMA FittingIsParsed ==
    ASSUME TypeInv, NEW pos, Aligned(written, stream, pos), ~broken,
           NEW m \in Nat \ {0}, NEW f \in Nat \ {0}, InFrame(written, At(m, f, 0)),
           pos[1] = NextPlace(written, At(m, f, 0)),
           Fits(FrameAt(written, At(m, f, 0))),
           NEW n, n = FrameAt(written, At(m, f, 0)).length,
           ReadFull(n) \/ ReadShort(n)
    PROVE  CanRead(n) /\ Parses(SubSeq(stream, 1, n))
  <1> DEFINE p == At(m, f, 0)
             g == FrameAt(written, p)
             buf == SubSeq(stream, 1, n)
  <1>1. written \in Seq(Message \cup Raw) /\ stream \in Seq(Item) /\ Len(stream) \in Nat
    BY Basics
  <1>2. p \in Place
    BY DEF At, Place
  <1>3. g \in FrameRecord /\ g.data.size = SizeAt(written, p)
    BY <1>1, <1>2, PlaceFacts, ZenonT(30) DEF SizeAt
  <1>4. n = g.data.size /\ n \in Nat \ {0} /\ g.data \in Data /\ g.data.json
    BY <1>3 DEF Fits, IsJson, FrameRecord, Data
  <1>5. \A k \in 1 .. Len(stream) : k <= n => stream[k] = Unit(g.data, k) /\ ~EndsAt(k)
    <2>1. \A k \in 1 .. Len(stream) : k <= n => stream[k] = Unit(g.data, k)
      BY <1>3, <1>4, UnitsOnStream, SMTT(20)
    <2> QED
      BY <2>1, SMTT(20) DEF EndsAt, Unit, End
  <1>6. CanRead(n)
    <2>1. SUFFICES ASSUME \E k \in 1 .. Len(stream) : EndsAt(k) PROVE CanRead(n)
      BY Zenon DEF ReadFull, ReadShort, IsShort
    <2>2. Len(stream) >= n
      BY <1>1, <1>4, <1>5, <2>1
    <2> QED
      BY <1>1, <1>4, <1>5, <2>2 DEF CanRead
  <1>7. /\ buf \in Seq(Item) /\ Len(buf) = n
        /\ \A i \in 1 .. n : buf[i] = Unit(g.data, i)
    <2>1. n <= Len(stream) /\ \A i \in 1 .. n : stream[i] \in Item /\ stream[i] = Unit(g.data, i)
      BY <1>1, <1>4, <1>5, <1>6, SMTT(20) DEF CanRead
    <2>2. /\ buf \in Seq(Item) /\ Len(buf) = IF 1 <= n THEN n - 1 + 1 ELSE 0
          /\ \A i \in 1 .. n - 1 + 1 : buf[i] = stream[1 + i - 1]
      BY <1>4, <2>1, SubSeqProperties, SMTT(30)
    <2>3. (IF 1 <= n THEN n - 1 + 1 ELSE 0) = n /\ n - 1 + 1 = n /\ \A i \in 1 .. n : 1 + i - 1 = i
      BY <1>4
    <2> QED
      BY <2>1, <2>2, <2>3, ZenonT(30)
  <1>8. buf = Units(g.data)
    <2>1. /\ Units(g.data) \in Seq(Item) /\ Len(Units(g.data)) = n
          /\ \A i \in 1 .. n : Units(g.data)[i] = Unit(g.data, i)
      BY <1>4, UnitsType, ZenonT(30)
    <2> HIDE DEF buf
    <2> QED
      BY <1>7, <2>1, SeqEqual, Zenon
  <1>9. buf # <<>> /\ buf[1].of = g.data
    <2> HIDE DEF buf, g
    <2>1. 1 \in 1 .. n /\ Len(buf) # 0
      BY <1>4, <1>7
    <2>2. buf[1] = Unit(g.data, 1)
      BY <1>7, <2>1, Zenon
    <2>3. Unit(g.data, 1).of = g.data
      BY DEF Unit
    <2> QED
      BY <2>1, <2>2, <2>3, SMTT(30)
  <1> QED
    BY <1>4, <1>6, <1>8, <1>9, Zenon DEF Parses

(* A fault stays one.                                                      *)
LEMMA FaultStays ==
    ASSUME TypeInv, Fault, broken => broken', delivered' = delivered,
           \/ written' = written
           \/ \E m \in Message \cup Raw : written' = Append(written, m)
    PROVE  Fault'
  <1>1. written \in Seq(Message \cup Raw) /\ Len(written) \in Nat /\ Current \in Nat \ {0}
    BY Basics
  <1>2. Current' = Current
    BY DEF Current
  <1>3. CASE written' = written
    BY <1>2, <1>3 DEF Fault
  <1>4. ASSUME NEW m \in Message \cup Raw, written' = Append(written, m) PROVE Fault'
    <2>1. Len(written') = Len(written) + 1 /\ \A i \in 1 .. Len(written) : written'[i] = written[i]
      BY <1>1, <1>4, AppendProperties
    <2>2. Current <= Len(written) => Current \in 1 .. Len(written) /\ Current <= Len(written')
      BY <1>1, <2>1
    <2> QED
      BY <1>2, <2>1, <2>2 DEF Fault
  <1> QED
    BY <1>3, <1>4

(* WriteMessage begins a message: the reader's part of the invariant.      *)
LEMMA WriteMessageKeeps ==
    ASSUME IInv, NEW m \in Message \cup Raw, WriteMessage(m)
    PROVE  WriterInv' /\ ReaderInv' /\ WholeMessagesAreReturned'
  <1> USE DEF IInv
  <1>1. /\ written \in Seq(Message \cup Raw) /\ Len(written) \in Nat
        /\ stream \in Seq(Item) /\ Len(stream) \in Nat
        /\ Len(delivered) \in Nat /\ Current \in Nat \ {0}
    BY Basics
  <1>2. written' = Append(written, m) /\ UNCHANGED <<stream, broken, reader, frame, routing, delivered>>
    BY DEF WriteMessage, readVars
  <1>3. /\ Len(written') = Len(written) + 1 /\ written'[Len(written) + 1] = m
        /\ \A i \in 1 .. Len(written) : written'[i] = written[i]
    BY <1>1, <1>2, AppendProperties
  <1>4. frames' = FramesOf(m) /\ LastFrames' = FramesOf(m) /\ FramesOf(m) \in Seq(FrameRecord)
    BY <1>3, FramesOfType DEF WriteMessage, LastFrames
  <1>5. Len(FramesOf(m)) \in Nat
    BY <1>4, LenProperties
  <1>6. WriterInv'
    <2>1. Len(frames') <= Len(LastFrames') /\ \A k \in 1 .. Len(frames') :
             frames'[k] = LastFrames'[Len(LastFrames') - Len(frames') + k]
      <3>1. \A k \in 1 .. Len(FramesOf(m)) : Len(FramesOf(m)) - Len(FramesOf(m)) + k = k
        BY <1>5
      <3> QED
        BY <1>4, <1>5, <3>1
    <2>2. written' # <<>>
      BY <1>1, <1>2, AppendProperties
    <2> QED
      BY <2>1, <2>2 DEF WriterInv
  <1>7. Current' = Current /\ (Lost' <=> Lost)
    BY <1>2 DEF Current, Lost
  <1>8. Current <= Len(written) => Current <= Len(written') /\ written'[Current] = written[Current] /\ Parts' = Parts
    BY <1>1, <1>3, <1>7 DEF Parts
  <1>9. ReaderInv'
    <2>1. Lost => Fault'
      BY <1>2, FaultStays, Zenon DEF ReaderInv
    <2>2. ~Lost => ReaderHolds /\ ReaderHolds'
      BY <1>2, <1>7, <1>8 DEF ReaderInv, ReaderHolds
    <2>3. ASSUME reader # "exit" PROVE StreamInv'
      <3>1. PICK from, to : Spans(written, stream, from, to) /\ ReadPlace(from) /\ (~broken => to = WritePlace)
        BY <2>3 DEF ReaderInv, StreamInv
      <3>2. PICK pos : Aligned(written, stream, pos) /\ pos[1] = from /\ pos[Len(stream) + 1] = to
        BY <3>1 DEF Spans
      <3>3. Aligned(written', stream, pos)
        BY <1>1, <1>2, <3>2, AlignedGrow, Zenon
      <3>4. Spans(written', stream', from, to)
        BY <1>2, <3>2, <3>3 DEF Spans
      <3>5. ~Lost => AtReader(from)'
        <4>1. ASSUME NEW f \in Nat, Current <= Len(written)
              PROVE  NextPlace(written', At(Current, f, 0)) = NextPlace(written, At(Current, f, 0))
          <5>1. Current <= Len(written') /\ written'[Current] = written[Current]
            BY <1>8, <4>1, ZenonT(30)
          <5>2. /\ InFrame(written', At(Current, f, 0)) <=> InFrame(written, At(Current, f, 0))
                /\ FrameAt(written', At(Current, f, 0)) = FrameAt(written, At(Current, f, 0))
            BY <4>1, <5>1, Zenon DEF InFrame, FrameAt, At
          <5> QED
            BY <5>2 DEF NextPlace, SizeAt
        <4>2. ~Lost /\ reader \in {"data", "payloadData"} => Current <= Len(written)
          BY <2>2 DEF ReaderHolds
        <4> QED
          BY <1>2, <1>7, <3>1, <4>1, <4>2, ZenonT(30) DEF AtReader, ReadPlace
      <3>6. ReadPlace(from)'
        BY <1>2, <1>7, <3>1, <3>5 DEF ReadPlace
      <3>7. ~broken' => to = WritePlace'
        <4>1. WritePlace = At(Len(written) + 1, 1, 0)
          BY DEF WriteMessage, WritePlace
        <4>2. writer' # "idle" /\ writer' # "data"
          BY DEF WriteMessage
        <4>3. WritePlace' = At(Len(written'), Len(LastFrames') - Len(frames') + 1, 0)
          BY <4>2 DEF WritePlace
        <4>4. Len(FramesOf(m)) - Len(FramesOf(m)) + 1 = 1
          BY <1>5
        <4>5. WritePlace' = At(Len(written) + 1, 1, 0)
          BY <1>3, <1>4, <4>3, <4>4
        <4> QED
          BY <1>2, <3>1, <4>1, <4>5
      <3> QED
        BY <3>4, <3>6, <3>7 DEF StreamInv
    <2> QED
      BY <1>2, <1>7, <2>1, <2>2, <2>3 DEF ReaderInv
  <1>10. WholeMessagesAreReturned'
    <2>1. \A n \in 1 .. Len(delivered) : n \in 1 .. Len(written)
      BY <1>1, SMTT(30) DEF WholeMessagesAreReturned
    <2>2. Len(delivered) <= Len(written')
      BY <1>1, <1>3 DEF WholeMessagesAreReturned
    <2> QED
      BY <1>2, <1>3, <2>1, <2>2 DEF WholeMessagesAreReturned
  <1> QED
    BY <1>6, <1>9, <1>10

(* Steps of the writer that append to the stream what is written at        *)
(* WritePlace keep the reader's part of the invariant.                     *)
LEMMA WriterKeeps ==
    ASSUME IInv, Writer
    PROVE  WriterInv' /\ ReaderInv' /\ WholeMessagesAreReturned'
  <1> USE DEF IInv
  <1> DEFINE nf == Len(LastFrames)
             l == Len(written)
             f == nf - Len(frames) + 1
  <1>1. /\ written \in Seq(Message \cup Raw) /\ l \in Nat
        /\ stream \in Seq(Item) /\ Len(stream) \in Nat
        /\ frames \in Seq(FrameRecord) /\ Len(frames) \in Nat
    BY Basics
  <1>2. UNCHANGED <<written, broken, reader, frame, routing, delivered>> /\ ~broken /\ writer # "idle"
    BY DEF Writer, WriteFrameHeader, WriteFrameData, WriteClose, readVars
  <1>3. l \in Nat \ {0} /\ written # <<>>
    BY <1>1, <1>2, EmptySeq DEF WriterInv
  <1>4. LastFrames \in Seq(FrameRecord) /\ nf \in Nat
    <2>1. l \in 1 .. Len(written)
      BY <1>3
    <2>2. written[l] \in Message \cup Raw
      BY <1>1, <2>1, ElementOfSeq
    <2>3. LastFrames \in Seq(FrameRecord)
      BY <2>2, FramesOfType DEF LastFrames
    <2> QED
      BY <2>3, LenProperties
  <1>5. Len(frames) <= nf /\ \A k \in 1 .. Len(frames) : frames[k] = LastFrames[nf - Len(frames) + k]
    BY <1>2 DEF WriterInv
  <1>6. f \in Nat \ {0} /\ LastFrames' = LastFrames
    BY <1>1, <1>2, <1>4, <1>5 DEF LastFrames
  <1>7. frames # <<>> => /\ f <= nf /\ Head(frames) = LastFrames[f]
                         /\ Len(Tail(frames)) = Len(frames) - 1
                         /\ \A k \in 1 .. Len(Tail(frames)) : Tail(frames)[k] = frames[k + 1]
    <2> SUFFICES ASSUME frames # <<>>
                 PROVE  /\ f <= nf /\ Head(frames) = LastFrames[f]
                        /\ Len(Tail(frames)) = Len(frames) - 1
                        /\ \A k \in 1 .. Len(Tail(frames)) : Tail(frames)[k] = frames[k + 1]
      OBVIOUS
    <2>1. Len(frames) \in Nat \ {0} /\ 1 \in 1 .. Len(frames) /\ Head(frames) = frames[1]
      BY <1>1, EmptySeq
    <2>2. f <= nf /\ frames[1] = LastFrames[f]
      BY <1>1, <1>4, <1>5, <2>1
    <2> QED
      BY <1>1, <2>1, <2>2, HeadTailProperties
  <1>8. At(l, f, 0).msg = l /\ At(l, f, 0).frame = f /\ At(l, f, 0).off = 0
    BY DEF At
  <1>9. WritePlace = IF writer = "data" THEN NextPlace(written, At(l, f, 0)) ELSE At(l, f, 0)
    BY <1>2, Zenon DEF WritePlace
  <1>10. (InFrame(written, At(l, f, 0)) <=> f <= nf) /\ FrameAt(written, At(l, f, 0)) = LastFrames[f]
    BY <1>1, <1>8, SMTT(30) DEF InFrame, FrameAt, LastFrames
  <1> HIDE DEF nf, l, f
  <1>11. /\ WriterInv'
         /\ \A pos : Aligned(written, stream, pos) /\ pos[Len(stream) + 1] = WritePlace
               => Spans(written, stream', pos[1], WritePlace')
    <2>1. CASE WriteFrameHeader
      <3>1. writer = "header" /\ writer' = "data" /\ frames' = frames /\ frames # <<>>
        BY <2>1 DEF WriteFrameHeader, TypeInv, TypeOK
      <3>2. WriterInv'
        BY <1>2, <1>6, <3>1 DEF WriterInv
      <3>3. stream' = Append(stream, ItemAt(written, At(l, f, 0)))
        BY <1>7, <1>8, <1>10, <2>1, <3>1 DEF WriteFrameHeader, ItemAt, HeaderOf
      <3>4. WritePlace = At(l, f, 0) /\ WritePlace' = NextPlace(written, At(l, f, 0))
        BY <1>2, <1>6, <1>9, <3>1, Zenon DEF WritePlace, l, f, nf
      <3>5. ASSUME NEW pos, Aligned(written, stream, pos), pos[Len(stream) + 1] = WritePlace
            PROVE  Spans(written, stream', pos[1], WritePlace')
        <4>1. pos[Len(stream) + 1].msg <= Len(written)
          BY <1>1, <1>8, <3>4, <3>5 DEF l
        <4> QED
          BY <1>1, <3>3, <3>4, <3>5, <4>1, AlignedAppend, Zenon
      <3> QED
        BY <3>2, <3>5
    <2>2. CASE WriteFrameData
      <3>1. writer = "data" /\ writer' \in {"header", "close"} /\ frames' = Tail(frames) /\ frames # <<>>
        BY <2>2 DEF WriteFrameData, TypeInv, TypeOK
      <3>2. Len(frames) \in Nat \ {0} /\ Len(frames') = Len(frames) - 1
        BY <1>1, <1>7, <3>1, EmptySeq
      <3>3. WriterInv'
        <4>1. ASSUME NEW k \in 1 .. Len(frames')
              PROVE  frames'[k] = LastFrames[nf - Len(frames') + k]
          <5>1. k + 1 \in 1 .. Len(frames) /\ nf - Len(frames) + (k + 1) = nf - Len(frames') + k
            BY <1>4, <3>2
          <5> QED
            BY <1>5, <1>7, <3>1, <5>1
        <4>2. Len(frames') <= nf
          BY <1>4, <1>5, <3>2
        <4> QED
          BY <1>2, <1>3, <1>6, <4>1, <4>2, SMTT(30) DEF WriterInv, nf
      <3>4. stream' = stream \o Units(FrameAt(written, At(l, f, 0)).data)
        BY <1>7, <1>10, <2>2, <3>1, Zenon DEF WriteFrameData
      <3>5. WritePlace = NextPlace(written, At(l, f, 0)) /\ WritePlace' = At(l, f + 1, 0)
        <4>1. nf - Len(frames') + 1 = f + 1
          BY <1>4, <3>2 DEF f
        <4>2. WritePlace' = At(l, nf - Len(frames') + 1, 0)
          BY <1>2, <1>6, <3>1 DEF WritePlace, l, nf
        <4> QED
          BY <1>9, <3>1, <4>1, <4>2
      <3>6. ASSUME NEW pos, Aligned(written, stream, pos), pos[Len(stream) + 1] = WritePlace
            PROVE  Spans(written, stream', pos[1], WritePlace')
        <4>1. InFrame(written, At(l, f, 0))
          BY <1>7, <1>10, <3>1
        <4> QED
          BY <1>1, <1>3, <1>6, <3>4, <3>5, <3>6, <4>1, AlignedUnits, Zenon
      <3> QED
        BY <3>3, <3>6
    <2>3. CASE WriteClose
      <3>1. writer = "close" /\ writer' = "idle" /\ frames' = frames /\ frames = <<>>
        BY <2>3 DEF WriteClose, TypeInv, TypeOK
      <3>2. WriterInv'
        BY <3>1 DEF WriterInv
      <3>3. Len(frames) = 0 /\ f = nf + 1 /\ ~(f <= nf)
        BY <1>4, <3>1 DEF f
      <3>4. stream' = Append(stream, ItemAt(written, At(l, f, 0)))
        BY <1>10, <2>3, <3>3, ZenonT(30) DEF WriteClose, ItemAt
      <3>5. WritePlace = At(l, f, 0) /\ WritePlace' = NextPlace(written, At(l, f, 0))
        <4>1. WritePlace = At(l, f, 0) /\ WritePlace' = At(l + 1, 1, 0)
          BY <1>2, <1>9, <3>1, Zenon DEF WritePlace, l
        <4>2. NextPlace(written, At(l, f, 0)) = At(l + 1, 1, 0)
          BY <1>8, <1>10, <3>3, Zenon DEF NextPlace
        <4> QED
          BY <4>1, <4>2, Zenon
      <3>6. ASSUME NEW pos, Aligned(written, stream, pos), pos[Len(stream) + 1] = WritePlace
            PROVE  Spans(written, stream', pos[1], WritePlace')
        <4>1. pos[Len(stream) + 1].msg <= Len(written)
          BY <1>1, <1>8, <3>5, <3>6 DEF l
        <4> QED
          BY <1>1, <3>4, <3>5, <3>6, <4>1, AlignedAppend, Zenon
      <3> QED
        BY <3>2, <3>6
    <2> QED
      BY <2>1, <2>2, <2>3 DEF Writer
  <1>12. ReaderInv'
    <2>1. /\ Lost' <=> Lost
          /\ Fault' <=> Fault
          /\ ReaderHolds' <=> ReaderHolds
          /\ \A p : ReadPlace(p)' <=> ReadPlace(p)
      BY <1>2, Zenon DEF Lost, Fault, ReaderHolds, AtReader, ReadPlace, Current, Parts
    <2>2. StreamInv => StreamInv'
      <3> SUFFICES ASSUME StreamInv PROVE StreamInv'
        OBVIOUS
      <3>1. PICK from, to : Spans(written, stream, from, to) /\ ReadPlace(from) /\ to = WritePlace
        BY <1>2 DEF StreamInv
      <3>2. PICK pos : Aligned(written, stream, pos) /\ pos[1] = from /\ pos[Len(stream) + 1] = to
        BY <3>1 DEF Spans
      <3>3. Spans(written', stream', from, WritePlace')
        BY <1>2, <1>11, <3>1, <3>2
      <3> QED
        BY <2>1, <3>1, <3>3 DEF StreamInv
    <2> QED
      BY <1>2, <2>1, <2>2 DEF ReaderInv
  <1>13. WholeMessagesAreReturned'
    BY <1>2 DEF WholeMessagesAreReturned
  <1> QED
    BY <1>11, <1>12, <1>13

(* Losing the end of the stream keeps the reader's part.                   *)
LEMMA BreakKeeps ==
    ASSUME IInv, Break
    PROVE  WriterInv' /\ ReaderInv' /\ WholeMessagesAreReturned'
  <1> USE DEF IInv
  <1>1. written \in Seq(Message \cup Raw) /\ stream \in Seq(Item) /\ Len(stream) \in Nat
    BY Basics
  <1>2. UNCHANGED <<written, frames, writer, reader, frame, routing, delivered>> /\ broken'
    BY Zenon DEF Break, readVars, writeVars
  <1>3. /\ WriterInv' /\ WholeMessagesAreReturned' /\ Fault'
        /\ Lost' <=> Lost
        /\ ReaderHolds' <=> ReaderHolds
        /\ \A p : ReadPlace(p)' <=> ReadPlace(p)
    BY <1>2, ZenonT(30) DEF WriterInv, LastFrames, WholeMessagesAreReturned, Fault, Lost, ReaderHolds, AtReader, ReadPlace,
                Current, Parts
  <1>4. StreamInv => StreamInv'
    <2> SUFFICES ASSUME StreamInv PROVE StreamInv'
      OBVIOUS
    <2>1. PICK from, to : Spans(written, stream, from, to) /\ ReadPlace(from)
      BY DEF StreamInv
    <2>2. PICK pos : Aligned(written, stream, pos) /\ pos[1] = from
      BY <2>1 DEF Spans
    <2>3. PICK n \in 0 .. Len(stream) : stream' = SubSeq(stream, 1, n)
      BY DEF Break
    <2>4. 1 \in 1 .. Len(stream) + 1 /\ n \in 1 - 1 .. Len(stream)
      BY <1>1
    <2>5. Spans(written, stream', from, pos[n + 1])
      BY <1>1, <2>2, <2>3, <2>4, AlignedPiece, Zenon
    <2> QED
      BY <1>2, <1>3, <2>1, <2>5 DEF StreamInv
  <1> QED
    BY <1>2, <1>3, <1>4 DEF ReaderInv

(* What a step of the reader leaves alone.                                 *)
LEMMA ReaderLeaves ==
    ASSUME IInv, Reader
    PROVE  /\ UNCHANGED <<written, frames, writer, broken>>
           /\ WriterInv' /\ WritePlace' = WritePlace
  <1>1. UNCHANGED <<written, frames, writer, broken>>
    BY DEF Reader, ReadFrame, ReadPayloadFrame, ReadFrameHeader, ReadData, ReadPayloadData, NextReader, writeVars
  <1> QED
    BY <1>1, ZenonT(30) DEF IInv, WriterInv, WritePlace, LastFrames

(* The frames of the message being read, by their places.                  *)
LEMMA PartsAt ==
    ASSUME TypeInv, NEW f \in Nat \ {0}
    PROVE  /\ InFrame(written, At(Current, f, 0)) <=> Current <= Len(written) /\ f <= Len(Parts)
           /\ FrameAt(written, At(Current, f, 0)) = Parts[f]
           /\ Current <= Len(written) =>
                /\ written[Current] \in Message \cup Raw
                /\ Parts \in Seq(FrameRecord) /\ Len(Parts) \in Nat
  <1>1. written \in Seq(Message \cup Raw) /\ Len(written) \in Nat /\ Current \in Nat \ {0}
    BY Basics
  <1>2. ASSUME Current <= Len(written)
        PROVE  /\ written[Current] \in Message \cup Raw
               /\ Parts \in Seq(FrameRecord) /\ Len(Parts) \in Nat
    <2>1. Current \in 1 .. Len(written)
      BY <1>1, <1>2
    <2>2. written[Current] \in Message \cup Raw
      BY <1>1, <2>1, ElementOfSeq
    <2>3. Parts \in Seq(FrameRecord)
      BY <2>2, FramesOfType, Zenon DEF Parts
    <2> QED
      BY <2>2, <2>3, LenProperties
  <1> QED
    BY <1>2 DEF InFrame, FrameAt, At, Parts

(* Whether a read succeeds or not, what it leaves was written at places    *)
(* that begin in the same message.                                         *)
LEMMA ReadSpans ==
    ASSUME TypeInv, NEW pos, Aligned(written, stream, pos), NEW n \in Nat, ReadFull(n) \/ ReadShort(n)
    PROVE  \E from, to : /\ Spans(written, stream', from, to) /\ from.msg = pos[1].msg
                         /\ ~broken => to = pos[Len(stream) + 1]
  <1>1. written \in Seq(Message \cup Raw) /\ stream \in Seq(Item) /\ Len(stream) \in Nat
    BY Basics
  <1>2. ASSUME NEW k \in 0 .. Len(stream), \A i \in 1 .. k : ~EndsAt(i), stream' = After(k)
        PROVE  /\ Spans(written, stream', pos[k + 1], pos[Len(stream) + 1])
               /\ pos[k + 1].msg = pos[1].msg
    <2>1. Spans(written, stream', pos[k + 1], pos[Len(stream) + 1])
      BY <1>1, <1>2, AlignedAfter, Zenon DEF After
    <2>2. 1 \in 1 .. Len(stream) + 1 /\ k + 1 \in 1 .. Len(stream) + 1 /\ 1 <= k + 1
      BY <1>1
    <2>3. \A i \in 1 .. (k + 1) - 1 : stream[i] # End
      BY <1>1, <1>2 DEF EndsAt
    <2>4. \A j, h \in 1 .. Len(stream) + 1 :
            j <= h /\ (\A i \in j .. h - 1 : stream[i] # End) => pos[h].msg = pos[j].msg
      BY DEF Aligned
    <2> QED
      BY <2>1, <2>2, <2>3, <2>4
  <1>3. CASE ReadFull(n)
    <2>1. n \in 0 .. Len(stream) /\ (\A i \in 1 .. n : ~EndsAt(i)) /\ stream' = After(n)
      BY <1>1, <1>3 DEF ReadFull, CanRead
    <2> QED
      BY <1>2, <2>1
  <1>4. CASE ReadShort(n) /\ \E e \in 1 .. Len(stream) : EndsAt(e)
    <2>1. PICK e \in 1 .. Len(stream) : (\A k \in 1 .. e - 1 : ~EndsAt(k)) /\ stream' = After(e - 1)
      BY <1>4 DEF ReadShort
    <2>2. e - 1 \in 0 .. Len(stream)
      BY <1>1
    <2> QED
      BY <1>2, <2>1, <2>2
  <1>5. CASE ReadShort(n) /\ ~\E e \in 1 .. Len(stream) : EndsAt(e)
    <2>1. broken /\ stream' = <<>>
      BY <1>5 DEF ReadShort, IsShort
    <2>2. 1 \in 1 .. Len(stream) + 1 /\ 0 \in 1 - 1 .. Len(stream)
      BY <1>1
    <2>3. Spans(written, SubSeq(stream, 1, 0), pos[1], pos[0 + 1])
      BY <1>1, <2>2, AlignedPiece, Zenon
    <2>4. SubSeq(stream, 1, 0) = <<>>
      BY SubSeqEmpty
    <2> QED
      BY <2>1, <2>3, <2>4, Zenon
  <1> QED
    BY <1>3, <1>4, <1>5

(* readFrame on the first frame of a message.                              *)
LEMMA ReadFrameKeeps ==
    ASSUME IInv, ReadFrame
    PROVE  ReaderInv'
  <1> USE DEF IInv
  <1>1. reader = "frame" /\ ~Lost /\ UNCHANGED <<written, broken, routing, delivered>> /\ WritePlace' = WritePlace
    BY ReaderLeaves DEF ReadFrame, ReadFrameHeader, ReadFails, Lost, Reader
  <1>2. Current \in Nat \ {0} /\ Current' = Current /\ Parts' = Parts
    BY <1>1, Basics DEF Current, Parts
  <1>3. PICK from, to : /\ Spans(written, stream, from, to) /\ from = At(Current, 1, 0)
                        /\ ~broken => to = WritePlace
    BY <1>1 DEF ReaderInv, StreamInv, ReadPlace, AtReader, Lost
  <1>4. PICK pos : Aligned(written, stream, pos) /\ pos[1] = from /\ pos[Len(stream) + 1] = to
    BY <1>3, Zenon DEF Spans
  <1>5. /\ ReadFull(1) =>
             /\ InFrame(written, At(Current, 1, 0))
             /\ Head(stream) = HeaderOf(FrameAt(written, At(Current, 1, 0)))
             /\ Spans(written, stream', NextPlace(written, At(Current, 1, 0)), to)
        /\ ReadShort(1) => broken \/ (Current <= Len(written) /\ ~InFrame(written, At(Current, 1, 0)))
    BY <1>2, <1>3, <1>4, HeaderRead
  <1>6. /\ ReadFull(1) => /\ Current <= Len(written) /\ Len(Parts) >= 1
                          /\ Head(stream) = HeaderOf(Parts[1])
        /\ ReadShort(1) => broken \/ (Current <= Len(written) /\ ~(1 <= Len(Parts)))
    BY <1>5, PartsAt
  <1>7. Current <= Len(written) /\ Accepts(written[Current]) =>
          /\ 1 <= Len(Parts)
          /\ Parts[1].type \in {HeaderFrameType, PayloadFrameType, CommandFrameType}
    <2> SUFFICES ASSUME Current <= Len(written), Accepts(written[Current])
                 PROVE  /\ 1 <= Len(Parts)
                        /\ Parts[1].type \in {HeaderFrameType, PayloadFrameType, CommandFrameType}
      OBVIOUS
    <2>1. written[Current] \in Message \cup Raw /\ Parts \in Seq(FrameRecord)
      BY PartsAt
    <2>2. /\ Parts # <<>>
          /\ Parts[1].type \in {HeaderFrameType, PayloadFrameType, CommandFrameType}
      BY Zenon DEF Accepts, Parts
    <2> QED
      BY <2>1, <2>2, EmptySeq
  <1>8. HeaderOf(Parts[1]).unit = "header" /\ HeaderOf(Parts[1]).type = Parts[1].type
    BY DEF HeaderOf, Header
  <1>9. CASE reader' = "exit"
    <2>1. \/ ReadFull(1) /\ Head(stream).type \notin {HeaderFrameType, PayloadFrameType, CommandFrameType}
          \/ ReadShort(1)
      BY <1>6, <1>8, <1>9, Zenon DEF ReadFrame, ReadFrameHeader
    <2>2. Fault
      BY <1>6, <1>7, <1>8, <2>1 DEF Fault
    <2> QED
      BY <1>1, <1>2, <1>9, <2>2, Zenon DEF ReaderInv, Lost, Fault
  <1>10. CASE reader' # "exit"
    <2>1. /\ ReadFull(1) /\ reader' = "data" /\ frame' = Head(stream)
          /\ Head(stream).type \in {HeaderFrameType, PayloadFrameType, CommandFrameType}
      BY <1>10, Zenon DEF ReadFrame, ReadFrameHeader, ReadFails
    <2>2. ReaderHolds' /\ ~Lost'
      BY <1>1, <1>2, <1>6, <2>1, Zenon DEF ReaderHolds, Lost
    <2>3. StreamInv'
      BY <1>1, <1>2, <1>3, <1>5, <2>1 DEF StreamInv, ReadPlace, AtReader, Lost
    <2> QED
      BY <2>2, <2>3 DEF ReaderInv
  <1> QED
    BY <1>9, <1>10, Zenon

(* readFrame on the frame after a header frame.                            *)
LEMMA ReadPayloadFrameKeeps ==
    ASSUME IInv, ReadPayloadFrame
    PROVE  ReaderInv'
  <1> USE DEF IInv
  <1>1. /\ reader = "payloadFrame" /\ reader' \in {"payloadData", "exit"}
        /\ UNCHANGED <<written, broken, routing, delivered>> /\ WritePlace' = WritePlace
    BY ReaderLeaves, Zenon DEF ReadPayloadFrame, ReadFrameHeader, ReadFails, Reader
  <1>2. Current \in Nat \ {0} /\ Current' = Current /\ Parts' = Parts /\ (Fault' <=> Fault)
    BY <1>1, Basics DEF Current, Parts, Fault
  <1>3. CASE Lost
    <2>1. PICK from, to : Spans(written, stream, from, to) /\ from.msg = Current /\ (~broken => to = WritePlace)
      BY <1>1 DEF ReaderInv, StreamInv, ReadPlace
    <2>2. PICK pos : Aligned(written, stream, pos) /\ pos[1] = from /\ pos[Len(stream) + 1] = to
      BY <2>1 DEF Spans
    <2>3. ReadFull(1) \/ ReadShort(1)
      BY Zenon DEF ReadPayloadFrame, ReadFrameHeader
    <2>4. PICK from1, to1 : /\ Spans(written, stream', from1, to1) /\ from1.msg = pos[1].msg
                            /\ ~broken => to1 = pos[Len(stream) + 1]
      BY <2>2, <2>3, ReadSpans
    <2>5. Lost' /\ Fault'
      BY <1>1, <1>2, <1>3, ZenonT(30) DEF ReaderInv, Lost
    <2>6. StreamInv'
      BY <1>1, <1>2, <2>1, <2>2, <2>4, <2>5, Zenon DEF StreamInv, ReadPlace
    <2> QED
      BY <2>5, <2>6 DEF ReaderInv
  <1>4. CASE ~Lost
    <2>1. PICK from, to : /\ Spans(written, stream, from, to) /\ from = At(Current, 2, 0)
                          /\ ~broken => to = WritePlace
      BY <1>1, <1>4 DEF ReaderInv, StreamInv, ReadPlace, AtReader, Lost
    <2>2. PICK pos : Aligned(written, stream, pos) /\ pos[1] = from /\ pos[Len(stream) + 1] = to
      BY <2>1, Zenon DEF Spans
    <2>3. /\ ReadFull(1) =>
               /\ InFrame(written, At(Current, 2, 0))
               /\ Head(stream) = HeaderOf(FrameAt(written, At(Current, 2, 0)))
               /\ Spans(written, stream', NextPlace(written, At(Current, 2, 0)), to)
          /\ ReadShort(1) => broken \/ (Current <= Len(written) /\ ~InFrame(written, At(Current, 2, 0)))
      BY <1>2, <2>1, <2>2, HeaderRead
    <2>4. /\ Current <= Len(written) /\ Len(Parts) >= 1 /\ routing # NoRouting
          /\ Parts[1].type = HeaderFrameType /\ Fits(Parts[1]) /\ routing = Parts[1].data
      BY <1>1, <1>4, Zenon DEF ReaderInv, ReaderHolds, Lost
    <2>5. Parts \in Seq(FrameRecord) /\ Len(Parts) \in Nat /\ written[Current] \in Message \cup Raw
      BY <2>4, PartsAt
    <2>6. /\ ReadFull(1) => Len(Parts) >= 2 /\ Head(stream) = HeaderOf(Parts[2])
          /\ ReadShort(1) => broken \/ ~(Len(Parts) >= 2)
      BY <2>3, <2>5, PartsAt, SMTT(30)
    <2>7. Accepts(written[Current]) => Len(Parts) >= 2 /\ Parts[2].type = PayloadFrameType
      BY <2>4, <2>5
      DEF Accepts, Parts, HeaderFrameType, PayloadFrameType, CommandFrameType
    <2>8. HeaderOf(Parts[2]).unit = "header" /\ HeaderOf(Parts[2]).type = Parts[2].type
      BY DEF HeaderOf, Header
    <2>9. CASE reader' = "exit"
      <3>1. (ReadFull(1) /\ Head(stream).type # PayloadFrameType) \/ ReadShort(1)
        BY <2>6, <2>8, <2>9 DEF ReadPayloadFrame, ReadFrameHeader
      <3>2. Fault
        BY <2>4, <2>6, <2>7, <2>8, <3>1, ZenonT(30) DEF Fault
      <3> QED
        BY <1>2, <2>9, <3>2, ZenonT(30) DEF ReaderInv, Lost
    <2>10. CASE reader' # "exit"
      <3>1. /\ ReadFull(1) /\ reader' = "payloadData" /\ frame' = Head(stream)
            /\ Head(stream).type = PayloadFrameType
        BY <2>10, Zenon DEF ReadPayloadFrame, ReadFrameHeader, ReadFails
      <3>2. ReaderHolds' /\ ~Lost'
        BY <1>1, <1>2, <2>4, <2>6, <3>1, ZenonT(30) DEF ReaderHolds, Lost
      <3>3. StreamInv'
        BY <1>1, <1>2, <2>1, <2>3, <3>1, Zenon DEF NextPlace, At, StreamInv, ReadPlace, AtReader, Lost
      <3> QED
        BY <3>2, <3>3 DEF ReaderInv
    <2> QED
      BY <2>9, <2>10
  <1> QED
    BY <1>3, <1>4, ZenonT(30)

(* ReadMessage returns the message it was reading.                         *)
LEMMA DeliverKeeps ==
    ASSUME IInv, written' = written, Current <= Len(written), Accepts(written[Current]),
           delivered' = Append(delivered, Reading(written[Current]))
    PROVE  WholeMessagesAreReturned' /\ Len(delivered') = Current
  <1> DEFINE r == Reading(written[Current])
             S == CommandMessage \cup PayloadMessage \cup {r}
  <1>1. Len(written) \in Nat /\ Len(delivered) \in Nat
    BY Basics DEF IInv
  <1>2. delivered \in Seq(S) /\ r \in S
    BY DEF IInv, TypeInv, TypeOK
  <1> HIDE DEF r, S
  <1>3. delivered' = Append(delivered, r)
    BY DEF r
  <1>4. /\ Len(delivered') = Len(delivered) + 1
        /\ \A i \in 1 .. Len(delivered) : delivered'[i] = delivered[i]
        /\ delivered'[Len(delivered) + 1] = r
    BY <1>2, <1>3, AppendProperties
  <1>5. \A n \in 1 .. Len(delivered) + 1 : n \in 1 .. Len(delivered) \/ n = Current
    BY <1>1, SMTT(30) DEF Current
  <1>6. ASSUME NEW n \in 1 .. Len(delivered')
        PROVE  Accepts(written[n]) /\ delivered'[n] = Reading(written[n])
    <2>1. CASE n = Current
      BY <1>4, <2>1, Zenon DEF Current, r
    <2>2. CASE n \in 1 .. Len(delivered)
      BY <1>4, <2>2 DEF IInv, WholeMessagesAreReturned
    <2> QED
      BY <1>4, <1>5, <2>1, <2>2, Zenon
  <1> QED
    BY <1>4, <1>6 DEF WholeMessagesAreReturned, Current

(* parseFrameData on the first frame of a message.                         *)
LEMMA ReadDataKeeps ==
    ASSUME IInv, ReadData
    PROVE  ReaderInv' /\ WholeMessagesAreReturned'
  <1> USE DEF IInv
  <1> DEFINE n == frame.length
             buf == SubSeq(stream, 1, n)
             parsed == CanRead(n) /\ Parses(buf)
  <1>1. /\ reader = "data" /\ ~Lost /\ UNCHANGED <<written, broken>> /\ WritePlace' = WritePlace
        /\ ReadFull(n) \/ ReadShort(n)
    BY ReaderLeaves, Zenon DEF ReadData, Lost, Reader
  <1>2. Current \in Nat \ {0}
    BY Basics
  <1>3. PICK from, to : /\ Spans(written, stream, from, to) /\ from = NextPlace(written, At(Current, 1, 0))
                        /\ ~broken => to = WritePlace
    BY <1>1 DEF ReaderInv, StreamInv, ReadPlace, AtReader, Lost
  <1>4. PICK pos : Aligned(written, stream, pos) /\ pos[1] = from /\ pos[Len(stream) + 1] = to
    BY <1>3 DEF Spans
  <1>5. /\ Current <= Len(written) /\ Len(Parts) >= 1 /\ frame = HeaderOf(Parts[1])
        /\ frame.type \in {HeaderFrameType, PayloadFrameType, CommandFrameType}
    BY <1>1, Zenon DEF ReaderInv, ReaderHolds
  <1>6. frame.type = Parts[1].type /\ n = Parts[1].length
    BY <1>5 DEF HeaderOf, Header
  <1>7. /\ Parts \in Seq(FrameRecord) /\ Len(Parts) \in Nat /\ written[Current] \in Message \cup Raw
        /\ InFrame(written, At(Current, 1, 0)) /\ FrameAt(written, At(Current, 1, 0)) = Parts[1]
    <2>1. 1 <= Len(Parts) /\ Parts \in Seq(FrameRecord) /\ Len(Parts) \in Nat /\ written[Current] \in Message \cup Raw
      BY <1>5, PartsAt
    <2> QED
      BY <1>5, <2>1, PartsAt
  <1>8. Parts[1].data \in Data /\ Parts[1].data # NoRouting
    <2>1. 1 \in 1 .. Len(Parts)
      BY <1>5, <1>7
    <2>2. Parts[1] \in FrameRecord
      BY <1>7, <2>1, ElementOfSeq, Zenon
    <2> QED
      BY <2>2, ProtocolAssumption DEF FrameRecord, ProtocolAssumption, RoutingMessage
  <1> HIDE DEF n, buf
  <1>9. parsed => /\ Fits(Parts[1]) /\ Text(buf) = Parts[1].data
                  /\ Spans(written, After(n), At(Current, 1 + 1, 0), to)
    <2> SUFFICES ASSUME parsed
                 PROVE  /\ Fits(Parts[1]) /\ Text(buf) = Parts[1].data
                        /\ Spans(written, After(n), At(Current, 1 + 1, 0), to)
      BY Zenon
    <2>1. n = FrameAt(written, At(Current, 1, 0)).length /\ CanRead(n) /\ Parses(SubSeq(stream, 1, n))
      BY <1>6, <1>7 DEF buf
    <2>2. pos[1] = NextPlace(written, At(Current, 1, 0))
      BY <1>3, <1>4, ZenonT(30)
    <2>3. LET g == FrameAt(written, At(Current, 1, 0))
          IN  /\ Fits(g)
              /\ Text(SubSeq(stream, 1, n)) = g.data
              /\ Spans(written, After(n), At(Current, 1 + 1, 0), pos[Len(stream) + 1])
      BY <1>2, <1>4, <1>7, <2>1, <2>2, ParsedIsWritten, SMTT(30)
    <2> QED
      BY <1>4, <1>7, <2>3 DEF buf
  <1>10. ~parsed => broken \/ ~Fits(Parts[1])
    <2>1. n = FrameAt(written, At(Current, 1, 0)).length
      BY <1>6, <1>7, Zenon
    <2>2. pos[1] = NextPlace(written, At(Current, 1, 0))
      BY <1>3, <1>4
    <2> QED
      BY <1>1, <1>2, <1>4, <1>7, <2>1, <2>2, FittingIsParsed DEF buf
  <1>11. parsed => stream' = After(n)
    BY <1>1 DEF ReadFull, ReadShort, IsShort
  <1>12. Accepts(written[Current]) => /\ Fits(Parts[1])
                                      /\ Parts[1].type = CommandFrameType =>
                                           CommandType(Parts[1].data) # "unrecognized"
    <2>1. CommandFrameType # HeaderFrameType /\ CommandFrameType # PayloadFrameType
      BY DEF HeaderFrameType, PayloadFrameType, CommandFrameType
    <2> QED
      BY <2>1, Zenon DEF Accepts, Parts
  <1>13. ~parsed => Fault
    BY <1>5, <1>10, <1>12, Zenon DEF Fault
  <1>14. CASE frame.type = HeaderFrameType
    <2>1. /\ reader' = "payloadFrame" /\ delivered' = delivered
          /\ routing' = IF parsed THEN Text(buf) ELSE NoRouting
      BY <1>14 DEF ReadData, n, buf
    <2>2. Current' = Current /\ Parts' = Parts /\ (Fault' <=> Fault) /\ WholeMessagesAreReturned'
      BY <1>1, <2>1 DEF Current, Parts, Fault, WholeMessagesAreReturned
    <2>3. CASE ~parsed
      <3>1. Lost' /\ Fault'
        BY <1>13, <2>1, <2>2, <2>3, Zenon DEF Lost
      <3>2. pos[1].msg = Current
        <4>1. NextPlace(written, At(Current, 1, 0)).msg = At(Current, 1, 0).msg
          BY <1>7, NextInMessage, Zenon
        <4>2. At(Current, 1, 0).msg = Current
          BY NextInMessage, Zenon
        <4>3. pos[1] = NextPlace(written, At(Current, 1, 0))
          BY <1>3, <1>4, Zenon
        <4> QED
          BY <4>1, <4>2, <4>3, Zenon
      <3>3. n \in Nat
        BY <1>1, LengthIsNat, Zenon DEF n
      <3>4. PICK from1, to1 : /\ Spans(written, stream', from1, to1) /\ from1.msg = pos[1].msg
                              /\ ~broken => to1 = pos[Len(stream) + 1]
        BY <1>1, <1>4, <3>3, ReadSpans, Zenon
      <3>5. StreamInv'
        BY <1>1, <1>3, <1>4, <2>2, <3>1, <3>2, <3>4 DEF StreamInv, ReadPlace
      <3> QED
        BY <2>2, <3>1, <3>5 DEF ReaderInv
    <2>4. CASE parsed
      <3>1. routing' = Parts[1].data /\ ~Lost'
        BY <1>8, <1>9, <2>1, <2>4 DEF Lost
      <3>2. ReaderHolds'
        BY <1>1, <1>5, <1>6, <1>9, <1>14, <2>1, <2>2, <2>4, <3>1, Zenon DEF ReaderHolds
      <3>3. Spans(written', stream', At(Current, 2, 0), to) /\ (~broken' => to = WritePlace')
        <4>1. 1 + 1 = 2
          BY SMTT(30)
        <4> QED
          BY <1>1, <1>3, <1>9, <1>11, <2>4, <4>1
      <3>4. StreamInv'
        BY <2>1, <2>2, <3>3 DEF At, StreamInv, ReadPlace, AtReader, Lost
      <3> QED
        BY <2>2, <3>1, <3>2, <3>4, Zenon DEF ReaderInv
    <2> QED
      BY <2>3, <2>4, ZenonT(30)
  <1>15. CASE frame.type # HeaderFrameType /\ reader' = "rest"
    <2>1. /\ parsed
          /\ delivered' = Append(delivered,
               IF frame.type = PayloadFrameType
               THEN [type |-> "payload", routing |-> NoRouting, data |-> Text(buf)]
               ELSE [type |-> CommandType(Text(buf)), data |-> Text(buf)])
          /\ frame.type # PayloadFrameType => CommandType(Text(buf)) # "unrecognized"
      BY <1>15 DEF ReadData, Deliver, ReadFails, IsCommand, n, buf, HeaderFrameType, PayloadFrameType
    <2>2. delivered' = Append(delivered, Reading(written[Current]))
      BY <1>6, <1>9, <1>15, <2>1, Zenon DEF Reading, Parts
    <2>3. Parts # <<>>
      BY <1>5
    <2>4. Accepts(written[Current])
      BY <1>5, <1>6, <1>9, <1>15, <2>1, <2>3, Zenon DEF Accepts, Parts
    <2>5. WholeMessagesAreReturned' /\ Len(delivered') = Current
      BY <1>1, <1>5, <2>2, <2>4, DeliverKeeps, Zenon
    <2>6. ReaderHolds' /\ ~Lost'
      BY <1>15 DEF ReaderHolds, Lost
    <2>7. At(Current, 1 + 1, 0).msg = Len(delivered')
      BY <2>5, ZenonT(30) DEF At
    <2>8. StreamInv'
      BY <1>1, <1>3, <1>9, <1>11, <1>15, <2>1, <2>7, Zenon DEF StreamInv, ReadPlace, AtReader, Lost
    <2> QED
      BY <2>5, <2>6, <2>8, ZenonT(30) DEF ReaderInv
  <1>16. CASE frame.type # HeaderFrameType /\ reader' # "rest"
    <2>1. /\ reader' = "exit" /\ delivered' = delivered
          /\ ~parsed \/ (frame.type = CommandFrameType /\ CommandType(Text(buf)) = "unrecognized")
      BY <1>5, <1>16 DEF ReadData, Deliver, ReadFails, IsCommand, n, buf
    <2>2. Fault
      BY <1>5, <1>6, <1>9, <1>12, <1>13, <2>1, Zenon DEF Fault
    <2>3. (Fault' <=> Fault) /\ WholeMessagesAreReturned'
      BY <1>1, <2>1 DEF Current, Fault, WholeMessagesAreReturned
    <2> QED
      BY <2>1, <2>2, <2>3, Zenon DEF ReaderInv, Lost
  <1> QED
    BY <1>14, <1>15, <1>16

(* parseFrameData on the payload frame.                                    *)
LEMMA ReadPayloadDataKeeps ==
    ASSUME IInv, ReadPayloadData
    PROVE  ReaderInv' /\ WholeMessagesAreReturned'
  <1> USE DEF IInv
  <1> DEFINE n == frame.length
             buf == SubSeq(stream, 1, n)
             parsed == CanRead(n) /\ Parses(buf)
  <1>1. /\ reader = "payloadData" /\ UNCHANGED <<written, broken>> /\ WritePlace' = WritePlace
        /\ ReadFull(n) \/ ReadShort(n)
    BY ReaderLeaves DEF ReadPayloadData, Reader
  <1>2. Current \in Nat \ {0}
    BY Basics
  <1>3. ASSUME reader' = "exit", delivered' = delivered, Fault PROVE ReaderInv' /\ WholeMessagesAreReturned'
    <2>1. Fault' /\ WholeMessagesAreReturned'
      BY <1>1, <1>3 DEF Current, Fault, WholeMessagesAreReturned
    <2> QED
      BY <1>3, <2>1 DEF ReaderInv, Lost
  <1>4. CASE Lost
    <2>1. reader' = "exit" /\ delivered' = delivered /\ Fault
      BY <1>1, <1>4 DEF ReadPayloadData, ReadFails, ReaderInv, Lost
    <2> QED
      BY <1>3, <2>1, Zenon
  <1>5. CASE ~Lost
    <2>1. PICK from, to : /\ Spans(written, stream, from, to) /\ from = NextPlace(written, At(Current, 2, 0))
                          /\ ~broken => to = WritePlace
      BY <1>1, <1>5 DEF ReaderInv, StreamInv, ReadPlace, AtReader, Lost
    <2>2. PICK pos : Aligned(written, stream, pos) /\ pos[1] = from /\ pos[Len(stream) + 1] = to
      BY <2>1, Zenon DEF Spans
    <2>3. /\ Current <= Len(written) /\ Len(Parts) >= 2 /\ frame = HeaderOf(Parts[2])
          /\ frame.type = PayloadFrameType /\ Parts[1].type = HeaderFrameType
          /\ Fits(Parts[1]) /\ routing = Parts[1].data /\ routing # NoRouting
      BY <1>1, <1>5 DEF ReaderInv, ReaderHolds, Lost
    <2>4. Parts[2].type = PayloadFrameType /\ n = Parts[2].length
      BY <2>3 DEF HeaderOf, Header
    <2>5. /\ Parts \in Seq(FrameRecord) /\ Len(Parts) \in Nat /\ written[Current] \in Message \cup Raw
          /\ InFrame(written, At(Current, 2, 0)) /\ FrameAt(written, At(Current, 2, 0)) = Parts[2]
      <3>1. Parts \in Seq(FrameRecord) /\ Len(Parts) \in Nat /\ written[Current] \in Message \cup Raw
        BY <2>3, PartsAt
      <3>2. 2 <= Len(Parts)
        BY <2>3, <3>1, Zenon
      <3> QED
        BY <2>3, <3>1, <3>2, PartsAt
    <2> HIDE DEF n, buf
    <2>6. n = FrameAt(written, At(Current, 2, 0)).length /\ pos[1] = NextPlace(written, At(Current, 2, 0))
      BY <2>1, <2>2, <2>4, <2>5, Zenon
    <2>7. parsed => /\ Fits(Parts[2]) /\ Text(buf) = Parts[2].data
                    /\ Spans(written, After(n), At(Current, 2 + 1, 0), to)
      <3> SUFFICES ASSUME parsed
                   PROVE  /\ Fits(Parts[2]) /\ Text(buf) = Parts[2].data
                          /\ Spans(written, After(n), At(Current, 2 + 1, 0), to)
        OBVIOUS
      <3>1. CanRead(n) /\ Parses(SubSeq(stream, 1, n))
        BY Zenon DEF buf
      <3>2. LET g == FrameAt(written, At(Current, 2, 0))
            IN  /\ Fits(g)
                /\ Text(SubSeq(stream, 1, n)) = g.data
                /\ Spans(written, After(n), At(Current, 2 + 1, 0), pos[Len(stream) + 1])
        BY <1>2, <2>2, <2>5, <2>6, <3>1, ParsedIsWritten, SMTT(30)
      <3> QED
        BY <2>2, <2>5, <3>2 DEF buf
    <2>8. ~parsed => broken \/ ~Fits(Parts[2])
      BY <1>1, <1>2, <2>2, <2>5, <2>6, FittingIsParsed DEF buf
    <2>9. CASE ~parsed
      <3>1. Accepts(written[Current]) => Fits(Parts[2])
        BY <2>3, <2>5
        DEF Accepts, Parts, HeaderFrameType, PayloadFrameType, CommandFrameType
      <3>2. Fault
        BY <2>3, <2>8, <2>9, <3>1 DEF Fault
      <3>3. reader' = "exit" /\ delivered' = delivered
        BY <2>9, Zenon DEF ReadPayloadData, ReadFails, n, buf
      <3> QED
        BY <1>3, <3>2, <3>3, Zenon
    <2>10. CASE parsed
      <3>1. /\ delivered' = Append(delivered, [type |-> "payload", routing |-> routing, data |-> Text(buf)])
            /\ reader' = "rest" /\ stream' = After(n)
        BY <1>1, <2>3, <2>10, Zenon DEF ReadPayloadData, Deliver, ReadFull, ReadShort, IsShort, n, buf
      <3>2. delivered' = Append(delivered, Reading(written[Current]))
        BY <2>3, <2>7, <2>10, <3>1 DEF Reading, Parts
      <3>3. Parts # <<>>
        BY <2>3, SMTT(30)
      <3>4. Accepts(written[Current])
        BY <2>3, <2>4, <2>7, <2>10, <3>3 DEF Accepts, Parts
      <3>5. WholeMessagesAreReturned' /\ Len(delivered') = Current
        BY <1>1, <2>3, <3>2, <3>4, DeliverKeeps, ZenonT(30)
      <3>6. ReaderHolds' /\ ~Lost'
        BY <3>1, Zenon DEF ReaderHolds, Lost
      <3>7. At(Current, 2 + 1, 0).msg = Len(delivered')
        BY <3>5, Zenon DEF At
      <3>8. StreamInv'
        BY <1>1, <2>1, <2>7, <2>10, <3>1, <3>7 DEF StreamInv, ReadPlace, AtReader, Lost
      <3> QED
        BY <3>5, <3>6, <3>8, Zenon DEF ReaderInv
    <2> QED
      BY <2>9, <2>10
  <1> QED
    BY <1>4, <1>5, Zenon

(* NextReader goes on to the next message at the end of one, no earlier.   *)
LEMMA NextReaderKeeps ==
    ASSUME IInv, NextReader
    PROVE  ReaderInv'
  <1> USE DEF IInv
  <1>1. /\ reader = "rest" /\ ~Lost /\ UNCHANGED <<written, broken, routing, delivered>>
        /\ WritePlace' = WritePlace
    BY ReaderLeaves DEF NextReader, Lost, Reader
  <1>2. /\ written \in Seq(Message \cup Raw) /\ stream \in Seq(Item) /\ Len(stream) \in Nat
        /\ Current' = Current /\ Current = Len(delivered) + 1
    BY <1>1, Basics DEF Current
  <1>3. CASE stream = <<>>
    <2>1. reader' = "exit" /\ Fault'
      BY <1>1, <1>3 DEF NextReader, Fault
    <2> QED
      BY <2>1 DEF ReaderInv, Lost
  <1>4. CASE stream # <<>>
    <2>1. /\ stream' = SubSeq(stream, 1 + 1, Len(stream)) /\ Head(stream) = stream[1]
          /\ reader' = IF stream[1] = End THEN "frame" ELSE "rest"
      <3>1. Tail(stream) = SubSeq(stream, 2, Len(stream)) /\ 1 + 1 = 2 /\ Head(stream) = stream[1]
        BY <1>2, <1>4, TailIsSubSeq
      <3> QED
        BY <1>4, <3>1 DEF NextReader
    <2>2. 1 \in 0 .. Len(stream) /\ 1 \in 1 .. Len(stream)
      BY <1>2, <1>4, EmptySeq, SMTT(30)
    <2>3. PICK from, to : /\ Spans(written, stream, from, to) /\ from.msg = Len(delivered)
                          /\ ~broken => to = WritePlace
      BY <1>1 DEF ReaderInv, StreamInv, ReadPlace, AtReader, Lost
    <2>4. PICK pos : Aligned(written, stream, pos) /\ pos[1] = from /\ pos[Len(stream) + 1] = to
      BY <2>3 DEF Spans
    <2>5. Spans(written, stream', pos[1 + 1], to)
      BY <1>2, <2>1, <2>2, <2>4, AlignedAfter, Zenon
    <2>6. pos[1 + 1] = NextPlace(written, pos[1]) /\ stream[1] = ItemAt(written, pos[1])
      BY <2>2, <2>4 DEF Aligned
    <2>7. /\ stream[1] = End => pos[1 + 1] = At(Current, 1, 0)
          /\ stream[1] # End => pos[1 + 1].msg = Len(delivered)
      <3>1. InFrame(written, pos[1]) => stream[1] # End
        BY <2>6 DEF ItemAt, HeaderOf, Header, Unit, End
      <3>2. ~InFrame(written, pos[1]) => stream[1] = End
        BY <2>6, Zenon DEF ItemAt
      <3>3. InFrame(written, pos[1]) => pos[1 + 1].msg = Len(delivered)
        <4>1. InFrame(written, pos[1]) => NextPlace(written, pos[1]).msg = pos[1].msg
          BY NextInMessage, Zenon
        <4> QED
          BY <2>3, <2>4, <2>6, <4>1, Zenon
      <3>4. ~InFrame(written, pos[1]) => pos[1 + 1] = At(Current, 1, 0)
        BY <1>2, <2>3, <2>4, <2>6, Zenon DEF NextPlace
      <3> QED
        BY <3>1, <3>2, <3>3, <3>4, ZenonT(30)
    <2>8. ReaderHolds' /\ ~Lost' /\ reader' \in {"frame", "rest"}
      BY <2>1, ZenonT(30) DEF ReaderHolds, Lost
    <2>9. ReadPlace(pos[1 + 1])'
      BY <1>1, <1>2, <2>1, <2>7, <2>8, Zenon DEF ReadPlace, AtReader
    <2>10. StreamInv'
      BY <1>1, <2>3, <2>5, <2>9 DEF StreamInv
    <2> QED
      BY <2>8, <2>10 DEF ReaderInv
  <1> QED
    BY <1>3, <1>4, Zenon

(* The invariant holds initially: nothing is written, nothing on the       *)
(* stream, and both ends are at the first frame of the first message.      *)
LEMMA InvInit == Init => IInv
  <1> SUFFICES ASSUME Init PROVE IInv
    OBVIOUS
  <1>1. Len(<<>>) = 0 /\ \A S : <<>> \in Seq(S)
    OBVIOUS
  <1>2. TypeInv
    <2>1. Len(<<>>) <= MaxWritten
      BY ProtocolAssumption DEF ProtocolAssumption
    <2>2. TypeOK
      BY <1>1, <2>1, Zenon DEF Init, TypeOK
    <2> QED
      BY <1>1, <2>2 DEF Init, TypeInv
  <1>3. WriterInv
    BY DEF Init, WriterInv
  <1>4. WholeMessagesAreReturned
    BY <1>1, SMTT(30) DEF Init, WholeMessagesAreReturned
  <1>5. ReaderHolds /\ ~Lost /\ Len(written) = 0 /\ Len(delivered) = 0 /\ Current = 1
    BY <1>1 DEF Init, ReaderHolds, Lost, Current
  <1>6. Spans(written, stream, At(1, 1, 0), At(1, 1, 0))
    <2> DEFINE pos == [k \in 1 .. 1 |-> At(1, 1, 0)]
    <2>1. At(1, 1, 0) \in Place
      BY DEF At, Place
    <2>2. pos \in [1 .. 1 -> Place] /\ pos[1] = At(1, 1, 0)
      BY <2>1
    <2>3. pos[1].msg = 1 /\ pos[1].frame = 1 /\ pos[1].off = 0
      BY <2>2 DEF At
    <2> HIDE DEF pos
    <2>4. Len(stream) = 0 /\ Len(stream) + 1 = 1
      BY <1>1 DEF Init
    <2>5. ~InFrame(written, pos[1])
      BY <1>5, <2>3 DEF InFrame
    <2>6. \A j, k \in 1 .. 1 : j = 1 /\ k = 1
      BY SMTT(30)
    <2>7. Aligned(written, stream, pos)
      BY <2>2, <2>4, <2>5, <2>6, SMTT(30) DEF Aligned
    <2> QED
      BY <2>2, <2>4, <2>7 DEF Spans
  <1>7. WritePlace = At(1, 1, 0) /\ ReadPlace(At(1, 1, 0))
    BY <1>5 DEF Init, WritePlace, ReadPlace, AtReader
  <1>8. ReaderInv
    BY <1>5, <1>6, <1>7 DEF ReaderInv, StreamInv
  <1> QED
    BY <1>2, <1>3, <1>4, <1>8 DEF IInv

(* Every step keeps the invariant.                                         *)
LEMMA InvPreserved ==
    ASSUME IInv, [Next]_vars
    PROVE  IInv'
  <1>1. TypeInv'
    BY TypesPreserved DEF IInv
  <1>2. ASSUME NEW m \in Message \cup Raw, WriteMessage(m) PROVE IInv'
    BY <1>1, <1>2, WriteMessageKeeps DEF IInv
  <1>3. CASE Writer
    BY <1>1, <1>3, WriterKeeps DEF IInv
  <1>4. CASE Break
    BY <1>1, <1>4, BreakKeeps DEF IInv
  <1>5. CASE Reader
    <2>1. WriterInv' /\ written' = written
      BY <1>5, ReaderLeaves
    <2>2. CASE ReadFrame \/ ReadPayloadFrame \/ NextReader
      <3>1. delivered' = delivered
        BY <2>2 DEF ReadFrame, ReadPayloadFrame, ReadFrameHeader, ReadFails, NextReader
      <3>2. WholeMessagesAreReturned'
        BY <2>1, <3>1 DEF IInv, WholeMessagesAreReturned
      <3> QED
        BY <1>1, <2>1, <2>2, <3>2, ReadFrameKeeps, ReadPayloadFrameKeeps, NextReaderKeeps, ZenonT(30) DEF IInv
    <2>3. CASE ReadData \/ ReadPayloadData
      BY <1>1, <2>1, <2>3, ReadDataKeeps, ReadPayloadDataKeeps DEF IInv
    <2> QED
      BY <1>5, <2>2, <2>3 DEF Reader
  <1>6. CASE UNCHANGED vars
    <2>1. /\ WriterInv' /\ WholeMessagesAreReturned' /\ WritePlace' = WritePlace
          /\ (Lost' <=> Lost) /\ (Fault' <=> Fault) /\ (ReaderHolds' <=> ReaderHolds)
          /\ \A p : ReadPlace(p)' <=> ReadPlace(p)
      BY <1>6, Zenon DEF vars, IInv, WriterInv, WholeMessagesAreReturned, WritePlace, LastFrames, Lost, Fault,
                  ReaderHolds, ReadPlace, AtReader, Current, Parts
    <2>2. StreamInv => StreamInv'
      BY <1>6, <2>1 DEF vars, StreamInv
    <2> QED
      BY <1>1, <1>6, <2>1, <2>2 DEF vars, IInv, ReaderInv
  <1> QED
    BY <1>2, <1>3, <1>4, <1>5, <1>6 DEF Next

-----------------------------------------------------------------------------
(***************************************************************************)
(* ReadMessage fails only when the connection is gone or the message being *)
(* read is not of the protocol and one it does not accept.                 *)
(***************************************************************************)
THEOREM FailsOnlyOnFaults == Spec => []OnlyFaultsEndReading
  <1>1. IInv => OnlyFaultsEndReading
    <2> SUFFICES ASSUME IInv, reader = "exit", ~broken
                 PROVE  /\ Len(delivered) < Len(written)
                        /\ written[Len(delivered) + 1].type = "raw"
                        /\ ~Accepts(written[Len(delivered) + 1])
      BY DEF OnlyFaultsEndReading
    <2>1. Current <= Len(written) /\ ~Accepts(written[Current])
      BY DEF IInv, ReaderInv, Lost, Fault
    <2>2. Len(delivered) \in Nat /\ Len(written) \in Nat
      BY Basics DEF IInv
    <2>3. written[Current] \in Message \cup Raw
      BY <2>1, PartsAt, SMTT(30) DEF IInv
    <2>4. written[Current].type = "raw"
      BY <2>1, <2>3, WrittenIsAccepted, Zenon
    <2> QED
      BY <2>1, <2>2, <2>4 DEF Current
  <1> QED
    BY <1>1, InvInit, InvPreserved, PTL DEF Spec

(* A message of the protocol is read as what it is, if it does not look    *)
(* like a HI (see RouteTablesAreReadAsSuch).                               *)
LEMMA ReadingOfWritten ==
    ASSUME NEW m \in Message, ~LooksLikeHi(m)
    PROVE  Reading(m) = m
  <1>1. Marshalled(m) /\ m \in CommandMessage \cup PayloadMessage
    BY ProtocolAssumption, Zenon DEF ProtocolAssumption
  <1>2. CASE m.type = "payload"
    <2>1. m = [type |-> "payload", routing |-> m.routing, data |-> m.data]
      BY <1>1, <1>2, ZenonT(30) DEF CommandMessage, PayloadMessage, HiMessage, RouteTableMessage
    <2>2. FramesOf(m)[1] = Frame(HeaderFrameType, m.routing)
          /\ FramesOf(m)[2] = Frame(PayloadFrameType, m.data)
      BY <1>2 DEF FramesOf
    <2> QED
      BY <2>1, <2>2 DEF Reading, Frame
  <1>3. CASE m.type # "payload"
    <2>1. m.type \in {"hi", "route"} /\ m = [type |-> m.type, data |-> m.data]
      BY <1>1, <1>3 DEF CommandMessage, PayloadMessage, HiMessage, RouteTableMessage
    <2>2. FramesOf(m)[1] = Frame(CommandFrameType, m.data)
      BY <2>1, Zenon DEF FramesOf
    <2>3. CommandType(m.data) = m.type
      BY <1>1, <2>1, SMTT(20) DEF Marshalled, CommandType, LooksLikeHi
    <2>4. /\ FramesOf(m)[1].type # HeaderFrameType /\ FramesOf(m)[1].type # PayloadFrameType
          /\ FramesOf(m)[1].data = m.data
      BY <2>2 DEF Frame, HeaderFrameType, PayloadFrameType, CommandFrameType
    <2>5. Reading(m) = [type |-> CommandType(m.data), data |-> m.data]
      BY <2>4, Zenon DEF Reading
    <2> QED
      BY <2>1, <2>3, <2>5, Zenon
  <1> QED
    BY <1>2, <1>3, Zenon

(***************************************************************************)
(* ReadMessage returns what was written, in order and none left out: every *)
(* message of the protocol as it is (unless it looks like a HI), and of a  *)
(* foreign peer only what it accepts, as what its whole frames say.  It    *)
(* holds whatever the peer writes and wherever the connection breaks.      *)
(***************************************************************************)
THEOREM ReadsWhatWasWritten == Spec => []ReadAsWritten
  <1>1. IInv => ReadAsWritten
    <2> SUFFICES ASSUME IInv PROVE ReadAsWritten
      OBVIOUS
    <2>1. written \in Seq(Message \cup Raw) /\ Len(written) \in Nat /\ Len(delivered) \in Nat
      BY Basics, Zenon DEF IInv
    <2>2. Len(delivered) <= Len(written)
      BY Zenon DEF IInv, WholeMessagesAreReturned
    <2>3. ASSUME NEW n \in 1 .. Len(delivered)
          PROVE  IF written[n].type # "raw" /\ ~LooksLikeHi(written[n])
                 THEN delivered[n] = written[n]
                 ELSE Accepts(written[n]) /\ delivered[n] = Reading(written[n])
      <3>1. Accepts(written[n]) /\ delivered[n] = Reading(written[n])
        BY DEF IInv, WholeMessagesAreReturned
      <3>2. n \in 1 .. Len(written)
        BY <2>1, <2>2
      <3>3. written[n] \in Message \cup Raw
        BY <2>1, <3>2, ElementOfSeq
      <3>4. written[n].type # "raw" => written[n] \in Message
        BY <3>3, WrittenIsAccepted, Zenon
      <3>5. written[n].type # "raw" /\ ~LooksLikeHi(written[n]) => Reading(written[n]) = written[n]
        BY <3>4, ReadingOfWritten, Zenon
      <3> QED
        BY <3>1, <3>5, Zenon
    <2> QED
      BY <2>2, <2>3 DEF ReadAsWritten
  <1> QED
    BY <1>1, InvInit, InvPreserved, PTL DEF Spec

(***************************************************************************)
(* With the writer between two messages, or the connection gone, a read of *)
(* the reader blocks only for the next message, when all are returned.     *)
(***************************************************************************)
THEOREM ReaderBlocksOnlyBetweenMessages == Spec => []BlocksOnlyBetweenMessages
  <1>1. IInv => BlocksOnlyBetweenMessages
    <2> SUFFICES ASSUME IInv, ReaderWaits, writer = "idle" \/ broken
                 PROVE  ~broken /\ reader = "frame" /\ Len(delivered) = Len(written)
      BY DEF BlocksOnlyBetweenMessages
    <2>1. /\ written \in Seq(Message \cup Raw) /\ Len(written) \in Nat
          /\ stream \in Seq(Item) /\ Len(stream) \in Nat
          /\ Len(delivered) \in Nat /\ Current = Len(delivered) + 1 /\ Current \in Nat \ {0}
      BY Basics DEF IInv, Current
    <2>2. ~broken /\ writer = "idle" /\ reader # "exit"
      BY DEF ReaderWaits, IsShort
    <2>3. PICK from, to : /\ Spans(written, stream, from, to) /\ ReadPlace(from)
                          /\ to = At(Len(written) + 1, 1, 0)
      BY <2>2 DEF IInv, ReaderInv, StreamInv, WritePlace
    <2>4. PICK pos : Aligned(written, stream, pos) /\ pos[1] = from /\ pos[Len(stream) + 1] = to
      BY <2>3 DEF Spans
    <2>5. to.msg = Len(written) + 1
      BY <2>3 DEF At
    <2>6. Len(stream) = 0
      <3> SUFFICES ASSUME Len(stream) # 0 PROVE FALSE
        OBVIOUS
      <3> DEFINE e == Len(stream)
      <3>1. e \in 1 .. Len(stream) /\ stream # <<>>
        BY <2>1
      <3>2. pos[e].msg <= Len(written) /\ stream[e] = ItemAt(written, pos[e]) /\ pos[e + 1] = NextPlace(written, pos[e])
        BY <2>4, <3>1, Zenon DEF Aligned
      <3>3. pos[e] \in Place /\ pos[e].msg \in Nat
        BY <2>1, <2>4, <3>1 DEF Aligned, Place
      <3>4. InFrame(written, pos[e]) => pos[e + 1].msg = pos[e].msg
        <4>1. InFrame(written, pos[e]) => NextPlace(written, pos[e]).msg = pos[e].msg
          BY NextInMessage, Zenon
        <4> QED
          BY <3>2, <4>1, Zenon
      <3>5. ~InFrame(written, pos[e])
        <4>1. pos[e + 1].msg = Len(written) + 1
          BY <2>4, <2>5, Zenon
        <4>2. InFrame(written, pos[e]) => pos[e].msg = Len(written) + 1
          BY <3>4, <4>1, Zenon
        <4>3. \A k \in Nat : k <= Len(written) => k # Len(written) + 1
          BY <2>1
        <4> QED
          BY <3>2, <3>3, <4>2, <4>3, Zenon
      <3>6. EndsAt(e)
        BY <3>1, <3>2, <3>5, Zenon DEF ItemAt, EndsAt
      <3> QED
        BY <3>1, <3>6 DEF ReaderWaits, IsShort
    <2>7. from.msg = Len(written) + 1 /\ from = At(Len(written) + 1, 1, 0)
      BY <2>3, <2>4, <2>5, <2>6
    <2>8. Lost => Current <= Len(written)
      BY <2>2 DEF IInv, ReaderInv, Fault
    <2>9. reader \notin {"payloadFrame", "payloadData"}
      <3>1. reader \in {"payloadFrame", "payloadData"} => from.msg = Current /\ Current <= Len(written)
        BY <2>3, <2>8 DEF ReadPlace, IInv, ReaderInv, ReaderHolds
      <3> QED
        BY <2>1, <2>7, <3>1, SMTT(30)
    <2>10. reader # "data"
      <3> SUFFICES ASSUME reader = "data" PROVE FALSE
        OBVIOUS
      <3>1. ~Lost /\ Current <= Len(written) /\ Len(Parts) >= 1
        BY DEF Lost, IInv, ReaderInv, ReaderHolds
      <3>2. 1 <= Len(Parts)
        BY <3>1, PartsAt DEF IInv
      <3>3. InFrame(written, At(Current, 1, 0))
        BY <3>1, <3>2, PartsAt DEF IInv
      <3>4. from = NextPlace(written, At(Current, 1, 0))
        BY <2>3, <3>1 DEF ReadPlace, AtReader
      <3>5. from.msg = Current
        <4>1. NextPlace(written, At(Current, 1, 0)).msg = At(Current, 1, 0).msg
          BY <3>3, NextInMessage, Zenon
        <4>2. At(Current, 1, 0).msg = Current
          BY NextInMessage, Zenon
        <4> QED
          BY <3>4, <4>1, <4>2, Zenon
      <3> QED
        BY <2>1, <2>7, <3>1, <3>5
    <2>11. reader # "rest"
      <3>1. reader = "rest" => from.msg = Len(delivered)
        BY <2>3 DEF ReadPlace, AtReader, Lost
      <3>2. Len(delivered) <= Len(written)
        BY DEF IInv, WholeMessagesAreReturned
      <3> QED
        BY <2>1, <2>7, <3>1, <3>2
    <2>12. reader = "frame"
      BY <2>9, <2>10, <2>11 DEF ReaderWaits
    <2>13. from = At(Current, 1, 0)
      BY <2>3, <2>12 DEF ReadPlace, AtReader, Lost
    <2>14. Current = Len(written) + 1
      BY <2>7, <2>13 DEF At
    <2> QED
      BY <2>1, <2>2, <2>12, <2>14
  <1> QED
    BY <1>1, InvInit, InvPreserved, PTL DEF Spec
=============================================================================
