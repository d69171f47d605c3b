-------------------------- MODULE PacketFormatProofs --------------------------
(***************************************************************************)
(* What PacketFormat promises for every packet and every length.           *)
(***************************************************************************)
EXTENDS PacketFormat, RoutingProofs

LEMMA ControlByteRead ==
  ASSUME NEW ntype \in 0..3, NEW response \in 0..7
  PROVE  /\ TypeBit(ControlByte(ntype, response)) = 0
         /\ NodeTypeBits(ControlByte(ntype, response)) = ntype
         /\ ResponseBits(ControlByte(ntype, response)) = response
BY SMT DEF TypeBit, NodeTypeBits, ResponseBits, ControlByte

LEMMA DataByteRead ==
  ASSUME NEW up \in 0..1, NEW group \in 0..15, NEW flags \in 0..3
  PROVE  /\ TypeBit(DataByte(up, group, flags)) = 1
         /\ UpBit(DataByte(up, group, flags)) = up
         /\ GroupBits(DataByte(up, group, flags)) = group
         /\ FlagBits(DataByte(up, group, flags)) = flags
BY SMT DEF TypeBit, UpBit, GroupBits, FlagBits, DataByte

\* Every packet, whatever its fields, is read as what it was packed from: no two
\* fields of the header byte overlap, and none is cut.
THEOREM HeaderRoundTrip ==
  ASSUME NEW p \in Packet
  PROVE  ReadAs(FirstByte(p), p)
<1>1. p.kind \in Kinds /\ p.ntype \in 0..3 /\ p.group \in 0..15 /\ p.flag \in Flags
  BY DEF Packet, Groups, NODE, SUB_GATEWAY, GATEWAY
<1>2. CASE p.kind \in ControlKinds
  <2>1. ResponseCode[p.kind] \in 0..7
    BY <1>2 DEF ControlKinds, ResponseCode
  <2>2. QED
    BY <1>1, <1>2, <2>1, ControlByteRead DEF ReadAs, FirstByte
<1>3. CASE p.kind \notin ControlKinds
  <2> DEFINE up == IF p.kind = "DATA_UP" THEN 1 ELSE 0
  <2>1. up \in 0..1 /\ FlagCode[p.flag] \in 0..3
    BY <1>1 DEF Flags, FlagCode
  <2>2. FirstByte(p) = DataByte(up, p.group, FlagCode[p.flag])
    BY <1>3 DEF FirstByte
  <2> HIDE DEF up
  <2>3. /\ TypeBit(FirstByte(p)) = 1 /\ UpBit(FirstByte(p)) = up
        /\ GroupBits(FirstByte(p)) = p.group /\ FlagBits(FirstByte(p)) = FlagCode[p.flag]
    BY <1>1, <2>1, <2>2, DataByteRead
  <2>4. QED
    BY <1>3, <2>3 DEF ReadAs, up
<1>4. QED
  BY <1>2, <1>3

\* So every frame under way is, in every network and whatever is lost.
THEOREM HeadersAlwaysRead == Spec => []HeadersRead
<1>1. TypeOK => HeadersRead
  <2> SUFFICES ASSUME TypeOK, NEW c \in Channel, NEW i \in DOMAIN chan[c]
               PROVE  ReadAs(FirstByte(chan[c][i]), chan[c][i])
    BY DEF HeadersRead
  <2>1. chan[c][i] \in Packet
    BY DEF TypeOK
  <2>2. QED
    BY <2>1, HeaderRoundTrip
<1>2. QED
  BY <1>1, TypeCorrect, PTL

\* A packet that is turned round gains a destination: the buffer of the
\* sub-gateway has room for it, and is filled to the last byte.
THEOREM TurnedFits ==
  ASSUME NEW lt \in Nat, NEW ld \in Nat
  PROVE  PackedLength(0, lt, ld) = TurnedBuffer(lt, ld)
BY DEF PackedLength, TurnedBuffer, LenDataHeader, AddrLength

\* The light sensor packs an answer of its own into a buffer measured for the
\* mobile's query: it fits, for every intensity and every size of a pointer.
THEOREM AnswerFits ==
  ASSUME NEW intensity \in 0..255, NEW pointer \in PointerSizes
  PROVE  PackedLength(1, AnswerTopic, Digits(intensity)) <= TurnedBuffer(QueryTopic, pointer)
BY DEF PackedLength, TurnedBuffer, LenDataHeader, AddrLength, AnswerTopic, QueryTopic,
       Digits, PointerSizes
===============================================================================
