----------------------------- MODULE PacketFormat -----------------------------
(***************************************************************************)
(* How routing/custom-routing.c lays the packets of Routing out: the       *)
(* fields packed into the first byte after the two addresses of a frame,   *)
(* and the lengths of the buffers data packets are packed into.            *)
(***************************************************************************)
EXTENDS Routing

ControlKinds == {"SETUP", "RESPONSE", "SETUP_ACK", "DATA_ACK", "CHILD_RM"}
DataKinds    == {"DATA_UP", "DATA_DOWN"}

\* custom-routing.h: the codes of response_type and of mobile_flags.
ResponseCode ==
  [SETUP |-> 0, RESPONSE |-> 1, SETUP_ACK |-> 2, DATA_ACK |-> 3, CHILD_RM |-> 4]
FlagCode == [NOT_MOBILE |-> 0, DATA_QUERY |-> 1, DATA_RESPONSE |-> 2]

\* packing_control_packet: type (0), node_type and response_type.
ControlByte(ntype, response) == ntype * 32 + response * 4
\* packing_data_packet: type (1), up, multicast_group and mobile_flags.
DataByte(up, group, flags) == 128 + up * 64 + group * 4 + flags

\* packing_control_packet or packing_data_packet, of a packet of Routing.
FirstByte(p) ==
  IF p.kind \in ControlKinds
  THEN ControlByte(p.ntype, ResponseCode[p.kind])
  ELSE DataByte(IF p.kind = "DATA_UP" THEN 1 ELSE 0, p.group, FlagCode[p.flag])

\* process_control_header, and head >> 7 in the handlers.
TypeBit(h) == h \div 128
NodeTypeBits(h) == (h \div 32) % 4
ResponseBits(h) == (h \div 4) % 8

\* A fault: the flags are taken to be one bit.
FlagBit(h) == h % 2

\* process_data_packet
UpBit(h) == (h \div 64) % 2
GroupBits(h) == (h \div 4) % 16
FlagBits(h) == h % 4

\* The receiver's view of h is the packet p.
ReadAs(h, p) ==
  IF p.kind \in ControlKinds
  THEN /\ TypeBit(h) = 0
       /\ NodeTypeBits(h) = p.ntype
       /\ ResponseBits(h) = ResponseCode[p.kind]
  ELSE /\ TypeBit(h) = 1
       /\ UpBit(h) = (IF p.kind = "DATA_UP" THEN 1 ELSE 0)
       /\ GroupBits(h) = p.group
       /\ FlagBits(h) = FlagCode[p.flag]

-------------------------------------------------------------------------------
(* Lengths, in bytes: lt and ld are those of topic and data *)

AddrLength    == 8    \* sizeof(linkaddr_t)
LenDataHeader == 5

\* packing_data_packet: what it writes; only a packet that goes down has a
\* destination.
PackedLength(up, lt, ld) == LenDataHeader + (IF up = 0 THEN AddrLength ELSE 0) + lt + ld

\* new_data in process_sub_gateway_packet, and in the light sensor's callback: the
\* lengths are those of the packet that came in.
TurnedBuffer(lt, ld) == ld + lt + LenDataHeader + AddrLength

\* mobile.c's query: the topic "mobile" and as many bytes of data as a pointer has.
QueryTopic == 6
PointerSizes == {2, 4, 8}

\* The light sensor's answer: the topic "light" and light_intensity in decimal.
AnswerTopic == 5
Digits(intensity) == IF intensity < 10 THEN 1 ELSE IF intensity < 100 THEN 2 ELSE 3

-------------------------------------------------------------------------------
\* Every frame under way is read as what it was sent as, though control and data
\* packets share the first byte and tell their fields apart by position alone,
\* and relays rewrite some of them.
HeadersRead ==
  \A c \in Channel : \A i \in DOMAIN chan[c] : ReadAs(FirstByte(chan[c][i]), chan[c][i])
===============================================================================
