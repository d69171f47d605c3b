------------------------------ MODULE BarnProofs ------------------------------
(***************************************************************************)
(* What is known of the barns in every network: queries stay in them,      *)
(* whatever is lost and whoever restarts; and as long as the frames of     *)
(* sub-gateways to their gateway arrive, every barn number is routed and   *)
(* every sub-gateway gets one.                                             *)
(*                                                                         *)
(* Both rest on who may send what to whom, so a step's frames are followed *)
(* once, for any sets of permitted frames, one per channel.                *)
(***************************************************************************)
EXTENDS RoutingProofs

\* Channel c of ch only carries packets of P[c].
Carries(ch, P) ==
  /\ ch = [c \in Channel |-> ch[c]]
  /\ \A c \in Channel : ch[c] \in Seq(P[c])

\* A packet put on channels that permit it; sent to one device; to several; and
\* the first one of a channel taken off it.
LEMMA QueuedCarries ==
  ASSUME NEW P, NEW ch, Carries(ch, P), NEW m, NEW C, \A c \in Channel : c \in C => m \in P[c]
  PROVE  Carries(Queued(ch, C, m), P)
<1>1. ASSUME NEW c \in Channel
      PROVE  Queued(ch, C, m)[c] \in Seq(P[c])
  <2>1. CASE c \in C /\ Len(ch[c]) < QueueSize
    <3>1. Queued(ch, C, m)[c] = Append(ch[c], m)
      BY <2>1 DEF Queued
    <3>2. ch[c] \in Seq(P[c]) /\ m \in P[c]
      BY <2>1 DEF Carries
    <3> DEFINE S == P[c]
               q == ch[c]
    <3> HIDE DEF S, q
    <3>3. q \in Seq(S) /\ m \in S
      BY <3>2 DEF S, q
    <3>4. Append(q, m) \in Seq(S)
      BY <3>3, AppendProperties
    <3>5. QED
      BY <3>1, <3>4 DEF S, q
  <2>2. CASE ~(c \in C /\ Len(ch[c]) < QueueSize)
    BY <2>2 DEF Queued, Carries
  <2>3. QED
    BY <2>1, <2>2
<1>2. Queued(ch, C, m) = [c \in Channel |-> Queued(ch, C, m)[c]]
  BY DEF Queued
<1>3. QED
  BY <1>1, <1>2 DEF Carries

LEMMA OutputCarries ==
  ASSUME NEW P, NEW ch, Carries(ch, P), NEW s, NEW dest, NEW m,
         \A c \in Channel : Reaches(c, s, dest) => m \in P[c]
  PROVE  Carries(Output(ch, s, dest, m), P)
BY QueuedCarries DEF Output

LEMMA OutputAllCarries ==
  ASSUME NEW P, NEW ch, Carries(ch, P), NEW s, NEW hops, NEW m,
         \A c \in Channel : \A hop \in hops : Reaches(c, s, hop) => m \in P[c]
  PROVE  Carries(OutputAll(ch, s, hops, m), P)
BY QueuedCarries DEF OutputAll

LEMMA TakenCarries ==
  ASSUME NEW P, Carries(chan, P), NEW c \in Channel, chan[c] # <<>>
  PROVE  Carries(Taken(c), P) /\ Head(chan[c]) \in P[c]
<1>1. chan[c] \in Seq(P[c])
  BY DEF Carries
<1>2. Head(chan[c]) \in P[c] /\ Tail(chan[c]) \in Seq(P[c])
  BY <1>1, HeadTailProperties
<1>3. Taken(c) = [e \in Channel |-> IF e = c THEN Tail(chan[c]) ELSE chan[e]]
  BY DEF Taken, Carries
<1>4. \A e \in Channel : Taken(c)[e] \in Seq(P[e])
  BY <1>2, <1>3 DEF Carries
<1>5. Taken(c) = [e \in Channel |-> Taken(c)[e]]
  BY <1>3
<1>6. QED
  BY <1>2, <1>4, <1>5 DEF Carries

-------------------------------------------------------------------------------
(* The frames of a step *)

\* What everyone may send to everyone: all but offers, announcements, and the
\* exchange between a mobile and the sensors, which only gateways may not be sent.
Permits(P) ==
  \A c \in Channel, p \in Packet :
    /\ p.kind \notin {"RESPONSE", "SETUP_ACK"} /\ p.flag = "NOT_MOBILE" => p \in P[c]
    /\ p.kind \in {"DATA_UP", "DATA_DOWN"} /\ (c[2] \notin Gateways \/ c[3] # "unicast") => p \in P[c]

\* Offers come from gateways and from devices that are set up.
PermitsOffers(P) ==
  \A c \in Channel, p \in Packet :
    /\ p.kind = "RESPONSE" /\ p.flag = "NOT_MOBILE"
    /\ c[1] \in Gateways \/ setup[c[1]] = 1
    => p \in P[c]

\* A control packet that is no offer and no announcement is permitted.
LEMMA ControlPermitted ==
  ASSUME NEW P, Permits(P), NEW s \in Device, NEW a \in Device \cup {NullAddr}, NEW group \in Groups,
         NEW kind \in {"SETUP", "DATA_ACK", "CHILD_RM"}, NEW ntype \in {NODE, SUB_GATEWAY, GATEWAY}
  PROVE  \A c \in Channel : Control(kind, s, ntype, a, group) \in P[c]
<1>1. Control(kind, s, ntype, a, group) \in Packet
  BY DEF Control, Packet, Kinds, Flags
<1>2. /\ Control(kind, s, ntype, a, group).kind = kind
      /\ Control(kind, s, ntype, a, group).flag = "NOT_MOBILE"
  BY DEF Control
<1>3. QED
  BY <1>1, <1>2 DEF Permits

\* So is a SETUP.
LEMMA SetupPermitted ==
  ASSUME NEW P, Permits(P), NEW d \in Device
  PROVE  \A c \in Channel : SetupOf(d) \in P[c]
BY ControlPermitted, TypeOfRole DEF SetupOf, UNICAST_GROUP, Groups

\* So is a data packet of no mobile.
LEMMA DataPermitted ==
  ASSUME NEW P, Permits(P), NEW s \in Device, NEW group \in Groups,
         NEW kind \in {"DATA_UP", "DATA_DOWN"}
  PROVE  \A c \in Channel : Data(kind, s, group, "NOT_MOBILE") \in P[c]
<1>1. Data(kind, s, group, "NOT_MOBILE") \in Packet
  BY DEF Data, Packet, Kinds, Flags, NODE
<1>2. /\ Data(kind, s, group, "NOT_MOBILE").kind = kind
      /\ Data(kind, s, group, "NOT_MOBILE").flag = "NOT_MOBILE"
  BY DEF Data
<1>3. QED
  BY <1>1, <1>2 DEF Permits

\* The packet received, and what is left of its channel.
LEMMA ReceivesCarries ==
  ASSUME IInv, NEW P, Carries(chan, P), NEW c \in Channel, NEW D, NEW kinds, Receives(c, D, kinds)
  PROVE  /\ Carries(Taken(c), P) /\ Head(chan[c]) \in P[c]
         /\ Head(chan[c]) \in PacketFrom(c[1]) /\ Head(chan[c]) \in Packet
         /\ Head(chan[c]).kind \in kinds
         /\ c[1] \in Device /\ c[2] \in Device /\ c[2] \in D
<1>1. chan \in Channels
  BY DEF IInv
<1>2. Carries(Taken(c), P) /\ Head(chan[c]) \in P[c]
  BY TakenCarries DEF Receives
<1>3. QED
  BY <1>1, <1>2, ReceivesGenuine DEF PacketFrom

\* Handlers that at most pass on a removal or an acknowledgement.
LEMMA RelaysCarry ==
  ASSUME IInv, NEW P, Carries(chan, P), Permits(P), NEW c \in Channel,
         \/ NodeChildRm(c) \/ NodeDataAck(c) \/ SubGatewayChildRm(c) \/ SubGatewayDataAck(c)
         \/ MobileDataAck(c) \/ GatewayData(c)
  PROVE  Carries(chan', P)
<1> DEFINE d == c[2]
           m == Head(chan[c])
<1>1. /\ Carries(Taken(c), P) /\ m \in Packet /\ d \in Device
      /\ GatewayData(c) => m.src \in Device
  BY ReceivesCarries
     DEF NodeChildRm, NodeDataAck, SubGatewayChildRm, SubGatewayDataAck, MobileDataAck, GatewayData,
         Packet
<1>2. m.addr \in Device \cup {NullAddr} /\ m.src \in Device
  BY <1>1 DEF Packet
<1>3. \A e \in Channel :
        /\ Control("CHILD_RM", d, NODE, m.addr, UNICAST_GROUP) \in P[e]
        /\ Control("DATA_ACK", d, NODE, m.addr, UNICAST_GROUP) \in P[e]
        /\ Control("DATA_ACK", d, GATEWAY, m.src, UNICAST_GROUP) \in P[e]
  BY <1>1, <1>2, ControlPermitted DEF UNICAST_GROUP, Groups
<1>4. CASE NodeChildRm(c) \/ SubGatewayChildRm(c)
  <2>1. ForgetChild(d, Taken(c), m)
    BY <1>4 DEF NodeChildRm, SubGatewayChildRm
  <2>2. QED
    BY <1>1, <1>3, <2>1, OutputCarries DEF ForgetChild
<1>5. CASE NodeDataAck(c) \/ SubGatewayDataAck(c) \/ MobileDataAck(c)
  <2>1. PassAck(d, Taken(c), m)
    BY <1>5 DEF NodeDataAck, SubGatewayDataAck, MobileDataAck
  <2>2. QED
    BY <1>1, <1>3, <2>1, OutputCarries DEF PassAck
<1>6. CASE GatewayData(c)
  BY <1>1, <1>3, <1>6, OutputCarries DEF GatewayData, AcknowledgeVia
<1>7. QED
  BY <1>4, <1>5, <1>6

\* Handlers that ignore the packet, and a gateway's, which registers a child.
LEMMA IgnoredCarries ==
  ASSUME IInv, NEW P, Carries(chan, P), Permits(P), NEW c \in Channel,
         GatewaySetupAck(c) \/ GatewayIgnore(c) \/ MobileIgnore(c)
  PROVE  Carries(chan', P)
<1> DEFINE d == c[2]
           m == Head(chan[c])
<1>1. Carries(Taken(c), P) /\ m \in Packet /\ d \in Device
  BY ReceivesCarries DEF GatewaySetupAck, GatewayIgnore, MobileIgnore
<1>2. CASE GatewaySetupAck(c)
  <2>1. \A e \in Channel : Control("CHILD_RM", d, NODE, m.addr, UNICAST_GROUP) \in P[e]
    BY <1>1, ControlPermitted DEF Packet, UNICAST_GROUP, Groups
  <2>2. chan' = AfterSetChild(d, Taken(c), m)
    BY <1>2 DEF GatewaySetupAck
  <2>3. QED
    BY <1>1, <2>1, <2>2, OutputCarries DEF AfterSetChild
<1>3. CASE GatewayIgnore(c) \/ MobileIgnore(c)
  BY <1>1, <1>3 DEF GatewayIgnore, MobileIgnore
<1>4. QED
  BY <1>2, <1>3

\* Handlers of a SETUP, which may answer it with an offer.
LEMMA OffersCarry ==
  ASSUME IInv, NEW P, Carries(chan, P), PermitsOffers(P), NEW c \in Channel,
         NodeSetup(c) \/ SubGatewaySetup(c) \/ GatewaySetup(c)
  PROVE  Carries(chan', P)
<1> DEFINE d == c[2]
           m == Head(chan[c])
           Offer(ntype) == Control("RESPONSE", d, ntype, NullAddr, UNICAST_GROUP)
<1>1. Carries(Taken(c), P) /\ d \in Device /\ setup[d] \in {0, 1}
  BY ReceivesCarries DEF NodeSetup, SubGatewaySetup, GatewaySetup, IInv, AttachInv
<1>2. ASSUME NEW ntype \in {NODE, SUB_GATEWAY, GATEWAY}, d \in Gateways \/ setup[d] = 1
      PROVE  \A e \in Channel : e[1] = d => Offer(ntype) \in P[e]
  <2>1. Offer(ntype) \in Packet /\ Offer(ntype).kind = "RESPONSE" /\ Offer(ntype).flag = "NOT_MOBILE"
    BY <1>1 DEF Control, Packet, Kinds, Flags, UNICAST_GROUP, Groups
  <2>2. QED
    BY <1>2, <2>1 DEF PermitsOffers
<1>3. CASE chan' = Taken(c)
  BY <1>1, <1>3
<1>4. CASE \E ntype \in {NODE, SUB_GATEWAY, GATEWAY} :
             /\ d \in Gateways \/ setup[d] = 1
             /\ chan' = Output(Taken(c), d, m.src, Offer(ntype))
  <2>1. PICK ntype \in {NODE, SUB_GATEWAY, GATEWAY} :
             /\ d \in Gateways \/ setup[d] = 1
             /\ chan' = Output(Taken(c), d, m.src, Offer(ntype))
    BY <1>4
  <2>2. \A e \in Channel : Reaches(e, d, m.src) => Offer(ntype) \in P[e]
    BY <1>2, <2>1 DEF Reaches
  <2>3. QED
    BY <1>1, <2>1, <2>2, OutputCarries
<1>5. CASE NodeSetup(c)
  BY <1>1, <1>3, <1>4, <1>5 DEF NodeSetup, NotSetup
<1>6. CASE SubGatewaySetup(c)
  BY <1>1, <1>3, <1>4, <1>6 DEF SubGatewaySetup, NotSetup
<1>7. CASE GatewaySetup(c)
  BY <1>1, <1>3, <1>4, <1>7 DEF GatewaySetup, Receives
<1>8. QED
  BY <1>5, <1>6, <1>7

\* d may announce itself to p.
MayAnnounce(P, d, p) ==
  \A c \in Channel : c[1] = d /\ c[2] = p /\ c[3] = "unicast" =>
    Control("SETUP_ACK", d, TypeOf(d), d, GroupOf[d]) \in P[c]

\* Taking a parent: the frames are permitted when the announcement to it is.
LEMMA AdoptCarries ==
  ASSUME NEW P, NEW ch, Carries(ch, P), NEW d, NEW p \in Device, NEW ntype, Adopt(d, ch, p, ntype),
         MayAnnounce(P, d, p)
  PROVE  Carries(chan', P)
<1>1. p # NullAddr
  BY RolesAssumption
<1>2. \A c \in Channel : Reaches(c, d, p) => Control("SETUP_ACK", d, TypeOf(d), d, GroupOf[d]) \in P[c]
  BY <1>1 DEF Reaches, MayAnnounce
<1>3. QED
  BY <1>2, OutputCarries DEF Adopt

\* Registering a child: so is the announcement to the parent.
LEMMA RegisterCarries ==
  ASSUME NEW P, NEW ch, Carries(ch, P), Permits(P), NEW d \in Device, NEW m \in Packet,
         RegisterChild(d, ch, m),
         \A c \in Channel : Reaches(c, d, parent[d].addr) =>
           Control("SETUP_ACK", d, TypeOf(d), LastChild(children'[d]).addr, LastChild(children'[d]).group)
             \in P[c],
         children \in [Device -> Seq(Child)]
  PROVE  Carries(chan', P)
<1> DEFINE last == LastChild(children'[d])
<1>1. \A e \in Channel : Control("CHILD_RM", d, NODE, m.addr, UNICAST_GROUP) \in P[e]
  BY ControlPermitted DEF Packet, UNICAST_GROUP, Groups
<1>2. Carries(AfterSetChild(d, ch, m), P)
  BY <1>1, OutputCarries DEF AfterSetChild
<1>3. children'[d] = SetChild(children[d], ChildOf(m))
  BY DEF RegisterChild
<1>4. chan' = Output(AfterSetChild(d, ch, m), d, parent[d].addr,
                     Control("SETUP_ACK", d, TypeOf(d), last.addr, last.group))
  BY <1>3 DEF RegisterChild
<1>5. QED
  BY <1>2, <1>4, OutputCarries

\* What the loops, the gateway's commands and a restart send; and a lost frame.
LEMMA LoopsCarry ==
  ASSUME IInv, NEW P, Carries(chan, P), Permits(P), NEW d \in Device,
         SendSetup(d) \/ SendReport(d) \/ Reboot(d)
  PROVE  Carries(chan', P)
<1>1. \A c \in Channel : SetupOf(d) \in P[c]
  BY SetupPermitted
<1>2. \A c \in Channel : Data("DATA_UP", d, UNICAST_GROUP, "NOT_MOBILE") \in P[c]
  BY DataPermitted DEF UNICAST_GROUP, Groups
<1>3. CASE SendSetup(d)
  BY <1>1, <1>3, OutputCarries DEF SendSetup
<1>4. CASE SendReport(d)
  BY <1>2, <1>4, OutputCarries DEF SendReport, SendAcked
<1>5. CASE Reboot(d)
  BY <1>1, <1>5, OutputCarries DEF Reboot
<1>6. QED
  BY <1>3, <1>4, <1>5

\* A command of the gateway, whoever gave it.
Command(gw) ==
  /\ \/ CommandAll(gw)
     \/ \E i : \E group \in {LIGHT_BULB_GROUP, IRRIGATION_GROUP} : CommandOne(gw, i, group)
  /\ UNCHANGED <<setup, parent, children, data_counter, barns>>

LEMMA CommandsCarry ==
  ASSUME NEW P, Carries(chan, P), Permits(P), NEW gw \in Gateways, Command(gw)
  PROVE  Carries(chan', P)
<1>1. \A group \in {LIGHT_BULB_GROUP, IRRIGATION_GROUP} :
        \A c \in Channel : Data("DATA_DOWN", gw, group, "NOT_MOBILE") \in P[c]
  BY DataPermitted DEF Device, LIGHT_BULB_GROUP, IRRIGATION_GROUP, Groups
<1>2. CASE CommandAll(gw)
  BY <1>1, <1>2, OutputAllCarries DEF CommandAll
<1>3. ASSUME NEW i, NEW group \in {LIGHT_BULB_GROUP, IRRIGATION_GROUP}, CommandOne(gw, i, group)
      PROVE  Carries(chan', P)
  BY <1>1, <1>3, OutputCarries DEF CommandOne
<1>4. QED
  BY <1>2, <1>3 DEF Command

LEMMA LostCarries ==
  ASSUME NEW P, Carries(chan, P), NEW c \in Channel, Lose(c)
  PROVE  Carries(chan', P)
BY TakenCarries DEF Lose

\* Above a node or a mobile, and below anybody, there is no gateway.
ParentsBelow == \A d \in Nodes \cup Mobiles : parent[d].addr \notin Gateways
HopsBelow == \A d \in Device : \A i \in DOMAIN children[d] : children[d][i].from \notin Gateways

\* A data packet that is relayed stays away from the gateways, unless it is meant
\* for them.
LEMMA ForwardedCarries ==
  ASSUME HopsBelow, NEW P, NEW ch, Carries(ch, P), Permits(P),
         NEW d \in Device, NEW m \in Packet, m.kind \in {"DATA_UP", "DATA_DOWN"},
         m.kind = "DATA_UP" /\ m.flag # "NOT_MOBILE" => parent[d].addr \notin Gateways
  PROVE  Carries(Forwarded(d, ch, m), P)
<1>1. CASE m.kind = "DATA_UP"
  <2>1. \A c \in Channel : Reaches(c, d, parent[d].addr) => m \in P[c]
    BY <1>1 DEF Permits, Reaches
  <2>2. QED
    BY <1>1, <2>1, OutputCarries DEF Forwarded
<1>2. CASE m.kind # "DATA_UP"
  <2>1. \A hop \in GroupHops(children[d], m.group) : hop \notin Gateways
    BY DEF HopsBelow, GroupHops
  <2>2. \A c \in Channel : \A hop \in GroupHops(children[d], m.group) : Reaches(c, d, hop) => m \in P[c]
    BY <2>1 DEF Permits, Reaches
  <2>3. QED
    BY <1>2, <2>2, OutputAllCarries DEF Forwarded
<1>3. QED
  BY <1>1, <1>2

\* The applications' data packets.
LEMMA DataCarries ==
  ASSUME IInv, ParentsBelow, HopsBelow, NEW P, Carries(chan, P), Permits(P),
         \/ \E c \in Channel : NodeData(c) \/ SubGatewayData(c)
         \/ \E d \in Device : SendQuery(d)
  PROVE  Carries(chan', P)
<1>1. ASSUME NEW c \in Channel, NodeData(c)
      PROVE  Carries(chan', P)
  <2> DEFINE d == c[2]
             m == Head(chan[c])
             ch == IF NotSetup(d) THEN Taken(c) ELSE Forwarded(d, Taken(c), m)
             answer == Data("DATA_UP", d, UNICAST_GROUP, "DATA_RESPONSE")
  <2>1. /\ Carries(Taken(c), P) /\ m \in Packet /\ m.kind \in {"DATA_UP", "DATA_DOWN"}
        /\ d \in Device /\ d \in Nodes
    BY <1>1, ReceivesCarries DEF NodeData
  <2>2. parent[d].addr \notin Gateways
    BY <2>1 DEF ParentsBelow
  <2>3. Carries(ch, P)
    BY <2>1, <2>2, ForwardedCarries
  <2>4. \A e \in Channel : Data("DATA_UP", d, UNICAST_GROUP, "NOT_MOBILE") \in P[e]
    BY <2>1, DataPermitted DEF UNICAST_GROUP, Groups
  <2>5. answer \in Packet /\ answer.kind = "DATA_UP"
    BY <2>1 DEF Data, Packet, Kinds, Flags, NODE, UNICAST_GROUP, Groups
  <2>6. \A e \in Channel : Reaches(e, d, parent[d].addr) => answer \in P[e]
    BY <2>2, <2>5 DEF Permits, Reaches
  <2>7. \/ SendAcked(d, ch)
        \/ chan' = Output(ch, d, parent[d].addr, answer)
        \/ chan' = ch
    BY <1>1 DEF NodeData
  <2> HIDE DEF ch, answer
  <2>8. QED
    BY <2>3, <2>4, <2>6, <2>7, OutputCarries DEF SendAcked
<1>2. ASSUME NEW c \in Channel, SubGatewayData(c)
      PROVE  Carries(chan', P)
  <2> DEFINE d == c[2]
             m == Head(chan[c])
             turned == TurnedRound(m)
  <2>1. /\ Carries(Taken(c), P) /\ m \in Packet /\ m.kind \in {"DATA_UP", "DATA_DOWN"}
        /\ d \in Device
    BY <1>2, ReceivesCarries DEF SubGatewayData
  <2>2. /\ turned \in Packet /\ turned.kind \in {"DATA_UP", "DATA_DOWN"}
        /\ turned.kind = "DATA_UP" => turned.flag = "NOT_MOBILE"
    <3>1. m.flag \in Flags
      BY <2>1 DEF Packet
    <3>2. CASE m.flag = "NOT_MOBILE"
      BY <2>1, <3>2 DEF TurnedRound
    <3>3. CASE m.flag = "DATA_QUERY"
      <4>1. turned = [m EXCEPT !.kind = "DATA_DOWN", !.group = LIGHT_SENSOR_GROUP]
        BY <3>3 DEF TurnedRound
      <4>2. turned = [kind |-> "DATA_DOWN", src |-> m.src, ntype |-> m.ntype, addr |-> m.addr,
                      group |-> LIGHT_SENSOR_GROUP, flag |-> m.flag]
        BY <2>1, <4>1 DEF Packet
      <4>3. LIGHT_SENSOR_GROUP \in Groups /\ "DATA_DOWN" \in Kinds
        BY DEF LIGHT_SENSOR_GROUP, Groups, Kinds
      <4>4. QED
        BY <2>1, <4>2, <4>3 DEF Packet
    <3>4. CASE m.flag = "DATA_RESPONSE"
      <4>1. turned = [m EXCEPT !.kind = "DATA_DOWN"]
        BY <3>4 DEF TurnedRound
      <4>2. "DATA_DOWN" \in Kinds /\ m \in Packet
        BY <2>1 DEF Kinds
      <4>3. turned \in Packet /\ turned.kind = "DATA_DOWN"
        BY <4>1, <4>2 DEF Packet
      <4>4. QED
        BY <4>3
    <3>5. QED
      BY <3>1, <3>2, <3>3, <3>4 DEF Flags
  <2>3. chan' = Taken(c) \/ chan' = Forwarded(d, Taken(c), turned)
    BY <1>2 DEF SubGatewayData
  <2> HIDE DEF turned
  <2>4. QED
    BY <2>1, <2>2, <2>3, ForwardedCarries
<1>3. ASSUME NEW d \in Device, SendQuery(d)
      PROVE  Carries(chan', P)
  <2> DEFINE query == Data("DATA_UP", d, UNICAST_GROUP, "DATA_QUERY")
  <2>1. query \in Packet /\ query.kind = "DATA_UP"
    BY DEF Data, Packet, Kinds, Flags, NODE, UNICAST_GROUP, Groups
  <2>2. parent[d].addr \notin Gateways
    BY <1>3 DEF SendQuery, ParentsBelow
  <2>3. \A e \in Channel : Reaches(e, d, parent[d].addr) => query \in P[e]
    BY <2>1, <2>2 DEF Permits, Reaches
  <2>4. QED
    BY <1>3, <2>3, OutputCarries DEF SendQuery
<1>4. QED
  BY <1>1, <1>2, <1>3

\* The steps that neither take a parent nor register a child below the gateway:
\* all but these are about the frames alone.
Relays(c) ==
  \/ NodeSetup(c) \/ NodeDataAck(c) \/ NodeData(c)
  \/ SubGatewaySetup(c) \/ SubGatewayDataAck(c) \/ SubGatewayData(c)
  \/ GatewaySetup(c) \/ GatewayIgnore(c) \/ GatewayData(c)
  \/ MobileDataAck(c) \/ MobileIgnore(c)

\* Steps that neither take a parent nor register or forget a child.
LEMMA RelaysUnchanged ==
  ASSUME \/ \E c \in Channel : Relays(c) \/ Lose(c)
         \/ \E d \in Device : Act(d)
         \/ \E gw \in Gateways : Command(gw)
  PROVE  UNCHANGED <<parent, children, barns>>
BY DEF Relays, Lose, Act, Command, NodeSetup, NodeDataAck, NodeData, SubGatewaySetup, SubGatewayDataAck,
       SubGatewayData, GatewaySetup, GatewayIgnore, GatewayData, MobileDataAck, MobileIgnore,
       SendSetup, SendReport, SendQuery

\* Every step but the offers taken and the children registered by relays.
LEMMA OthersCarry ==
  ASSUME IInv, ParentsBelow, HopsBelow, NEW P, Carries(chan, P), Permits(P), PermitsOffers(P),
         \/ \E c \in Channel : Relays(c) \/ GatewaySetupAck(c) \/ NodeChildRm(c) \/ SubGatewayChildRm(c)
                               \/ Lose(c)
         \/ \E d \in Device : Act(d)
         \/ \E gw \in Gateways : Command(gw)
  PROVE  Carries(chan', P)
<1>1. ASSUME NEW c \in Channel, Relays(c)
      PROVE  Carries(chan', P)
  <2>1. CASE NodeSetup(c) \/ SubGatewaySetup(c) \/ GatewaySetup(c)
    BY <2>1, OffersCarry
  <2>2. CASE NodeDataAck(c) \/ SubGatewayDataAck(c) \/ MobileDataAck(c) \/ GatewayData(c)
    BY <2>2, RelaysCarry
  <2>3. CASE GatewayIgnore(c) \/ MobileIgnore(c)
    BY <2>3, IgnoredCarries
  <2>4. CASE NodeData(c) \/ SubGatewayData(c)
    BY <2>4, DataCarries
  <2>5. QED
    BY <1>1, <2>1, <2>2, <2>3, <2>4 DEF Relays
<1>2. ASSUME NEW c \in Channel, NodeChildRm(c) \/ SubGatewayChildRm(c)
      PROVE  Carries(chan', P)
  BY <1>2, RelaysCarry
<1>3. ASSUME NEW c \in Channel, GatewaySetupAck(c)
      PROVE  Carries(chan', P)
  BY <1>3, IgnoredCarries
<1>4. ASSUME NEW c \in Channel, Lose(c)
      PROVE  Carries(chan', P)
  BY <1>4, LostCarries
<1>5. ASSUME NEW d \in Device, Act(d)
      PROVE  Carries(chan', P)
  <2>1. CASE SendSetup(d) \/ SendReport(d)
    BY <2>1, LoopsCarry
  <2>2. CASE SendQuery(d)
    BY <2>2, DataCarries
  <2>3. QED
    BY <1>5, <2>1, <2>2 DEF Act
<1>6. ASSUME NEW gw \in Gateways, Command(gw)
      PROVE  Carries(chan', P)
  BY <1>6, CommandsCarry
<1>7. QED
  BY <1>1, <1>2, <1>3, <1>4, <1>5, <1>6

-------------------------------------------------------------------------------
(* Entries of the tables after a SETUP_ACK or a CHILD_RM *)

\* set_child of child in the table of d.
Enters(d, child) == children' = [children EXCEPT ![d] = SetChild(children[d], child)]

\* Each entry after set_child was there before or is the new one; the last entry,
\* which the callers look at, is one of them.
LEMMA SetChildEntries ==
  ASSUME TableInv, NEW d \in Device, NEW child \in Child, Enters(d, child)
  PROVE  /\ \A e \in Device : \A i \in DOMAIN children'[e] :
              \/ e = d /\ children'[e][i] = child
              \/ \E j \in DOMAIN children[e] : children'[e][i] = children[e][j]
         /\ \E i \in DOMAIN children'[d] : LastChild(children'[d]) = children'[d][i]
         /\ \A e \in Device : \A a : Has(children[e], a) => Has(children'[e], a)
         /\ Has(children'[d], child.addr)
         /\ ~Has(children[d], child.addr) => LastChild(children'[d]) = child
<1> DEFINE old == children[d]
           new == SetChild(old, child)
<1>1. old \in Seq(Child) /\ UniqueAddrs(old)
  BY DEF TableInv, NoDuplicateChild
<1>2. \A e \in Device : children'[e] = IF e = d THEN new ELSE children[e]
  BY DEF TableInv, Enters
<1> HIDE DEF old
<1>3. /\ new \in Seq(Child) /\ new # <<>>
      /\ \A i \in DOMAIN new : new[i] = child \/ \E j \in DOMAIN old : new[i] = old[j]
  BY <1>1, SetChildKeeps
<1>4. /\ Has(new, child.addr) /\ \A a : Has(old, a) => Has(new, a)
      /\ ~Has(old, child.addr) => LastChild(new) = child
  BY <1>1, SetChildHolds
<1> HIDE DEF new
<1>5. Len(new) \in DOMAIN new
  BY <1>3, EmptySeq, LenProperties
<1>6. \E i \in DOMAIN new : LastChild(new) = new[i]
  BY <1>5 DEF LastChild
<1>7. children'[d] = new /\ \A e \in Device : e # d => children'[e] = children[e]
  BY <1>2
<1>8. ASSUME NEW e \in Device
      PROVE  /\ \A i \in DOMAIN children'[e] :
                  \/ e = d /\ children'[e][i] = child
                  \/ \E j \in DOMAIN children[e] : children'[e][i] = children[e][j]
             /\ \A a : Has(children[e], a) => Has(children'[e], a)
  <2>1. CASE e = d
    BY <1>3, <1>4, <1>7, <2>1 DEF old
  <2>2. CASE e # d
    <3>1. children'[e] = children[e]
      BY <1>7, <2>2
    <3>2. QED
      BY <3>1
  <2>3. QED
    BY <2>1, <2>2
<1>9. QED
  BY <1>4, <1>6, <1>7, <1>8 DEF old

\* The entry the callers look at has its type.
LEMMA LastChildTyped ==
  ASSUME TableInv, NEW d \in Device, NEW child \in Child, Enters(d, child)
  PROVE  LastChild(children'[d]) \in Child
<1>1. \E i \in DOMAIN children'[d] :
        /\ LastChild(children'[d]) = children'[d][i]
        /\ children'[d][i] = child \/ \E j \in DOMAIN children[d] : children'[d][i] = children[d][j]
  BY SetChildEntries
<1> DEFINE q == children[d]
<1>2. q \in Seq(Child)
  BY DEF TableInv
<1>3. \A j \in DOMAIN q : q[j] \in Child
  <2> HIDE DEF q
  <2>1. QED
    BY <1>2, ElementOfSeq, LenProperties
<1>4. QED
  BY <1>1, <1>3

\* After rm_child or a restart there are only entries that were there before.
LEMMA FewerEntries ==
  ASSUME TableInv,
         \/ \E d \in Device : \E ch, m : ForgetChild(d, ch, m)
         \/ \E d \in Device : Reboot(d)
  PROVE  \A e \in Device : \A i \in DOMAIN children'[e] :
           \E j \in DOMAIN children[e] : children'[e][i] = children[e][j]
<1>1. ASSUME NEW d \in Device, NEW ch, NEW m, ForgetChild(d, ch, m), NEW e \in Device,
             NEW i \in DOMAIN children'[e]
      PROVE  \E j \in DOMAIN children[e] : children'[e][i] = children[e][j]
  <2> DEFINE old == children[d]
             new == RemoveChild(old, m.addr)
  <2>1. \A x \in Device : children'[x] = IF x = d THEN new ELSE children[x]
    BY <1>1 DEF ForgetChild, TableInv
  <2>2. old \in Seq(Child) /\ UniqueAddrs(old)
    BY DEF TableInv, NoDuplicateChild
  <2>3. \A k \in DOMAIN new : \E j \in DOMAIN old : new[k] = old[j]
    <3> HIDE DEF old
    <3>1. QED
      BY <2>2, RemoveChildKeeps
  <2> HIDE DEF new
  <2>4. QED
    BY <1>1, <2>1, <2>3
<1>2. ASSUME NEW d \in Device, Reboot(d), NEW e \in Device, NEW i \in DOMAIN children'[e]
      PROVE  \E j \in DOMAIN children[e] : children'[e][i] = children[e][j]
  <2>1. children'[e] = IF e = d THEN <<>> ELSE children[e]
    BY <1>2 DEF Reboot, TableInv
  <2>2. DOMAIN <<>> = {}
    OBVIOUS
  <2>3. QED
    BY <1>2, <2>1, <2>2
<1>3. QED
  BY <1>1, <1>2

-------------------------------------------------------------------------------
(* Whatever is lost and whoever restarts *)

\* No announcement comes from a gateway; one of a sub-gateway comes from itself,
\* to a gateway; and no frame of a mobile's exchange is for a gateway.
Told ==
  [c \in Channel |->
     {p \in Packet :
        /\ p.kind = "SETUP_ACK" =>
             /\ c[1] \notin Gateways
             /\ p.addr \in SubGateways => c[1] = p.addr /\ c[2] \in Gateways /\ c[3] = "unicast"
        /\ c[2] \in Gateways /\ c[3] = "unicast" => p.flag = "NOT_MOBILE"}]

\* Only a gateway has a sub-gateway below it, one hop away.
SubGatewaysDirect ==
  \A d \in Device : \A i \in DOMAIN children[d] :
    children[d][i].addr \in SubGateways => d \in Gateways /\ children[d][i].from = children[d][i].addr

\* Every sub-gateway a gateway knows is one of its barns.
BarnsKnown ==
  \A gw \in Gateways, b \in SubGateways :
    Has(children[gw], b) => \E i \in DOMAIN barns[gw] : barns[gw][i] = b

KnownInv ==
  Carries(chan, Told) /\ ParentsBelow /\ HopsBelow /\ SubGatewaysDirect /\ BarnsKnown

\* Told permits what everyone may send, and offers.
LEMMA ToldPermits == Permits(Told) /\ PermitsOffers(Told)
BY DEF Permits, PermitsOffers, Told

\* The rest of the invariant only depends on parents, tables and barns.
LEMMA KnownUnchanged ==
  ASSUME KnownInv, UNCHANGED <<parent, children, barns>>, Carries(chan', Told)
  PROVE  KnownInv'
BY DEF KnownInv, ParentsBelow, HopsBelow, SubGatewaysDirect, BarnsKnown, Has, Carries, Told

\* A node or a mobile takes no gateway for its parent.
LEMMA OffersKeepKnown ==
  ASSUME IInv, KnownInv, NEW c \in Channel,
         NodeResponse(c) \/ MobileResponse(c) \/ SubGatewayOffer(c)
  PROVE  KnownInv'
<1> DEFINE d == c[2]
           m == Head(chan[c])
<1>1. /\ Carries(Taken(c), Told) /\ m \in PacketFrom(c[1]) /\ c[1] \in Device /\ d \in Device
      /\ m.kind \in {"SETUP", "RESPONSE"}
      /\ d \in Nodes \cup Mobiles \/ d \in SubGateways
  BY ReceivesCarries DEF KnownInv, NodeResponse, MobileResponse, SubGatewayOffer
<1>2. m.src = c[1] /\ m.ntype = TypeOf(c[1]) /\ m.src \in Device
  BY <1>1 DEF PacketFrom
<1>3. Control("SETUP_ACK", d, TypeOf(d), d, GroupOf[d]) \in Packet
  BY <1>1, TypeOfRole, GroupAssumption DEF Control, Packet, Kinds, Flags
<1>4. ASSUME Adopt(d, Taken(c), m.src, m.ntype), NEW e \in Channel,
             e[1] = d, e[2] = m.src, e[3] = "unicast",
             d \in SubGateways => m.src \in Gateways
      PROVE  Control("SETUP_ACK", d, TypeOf(d), d, GroupOf[d]) \in Told[e]
  BY <1>1, <1>3, <1>4, RolesAssumption DEF Told, Control
<1>5. UNCHANGED <<children, barns>>
  BY DEF NodeResponse, MobileResponse, SubGatewayOffer
<1>6. CASE Adopt(d, Taken(c), m.src, m.ntype)
           /\ (d \in SubGateways <=> m.src \in Gateways)
  <2>1. Carries(chan', Told)
    <3>1. MayAnnounce(Told, d, m.src)
      BY <1>4, <1>6 DEF MayAnnounce
    <3>2. Carries(Taken(c), Told) /\ m.src \in Device /\ Adopt(d, Taken(c), m.src, m.ntype)
      BY <1>1, <1>2, <1>6
    <3> HIDE DEF d, m
    <3>3. QED
      BY <3>1, <3>2, AdoptCarries
  <2>2. \A e \in Device : parent'[e].addr = IF e = d THEN m.src ELSE parent[e].addr
    BY <1>1, <1>6 DEF Adopt, IInv, AttachInv
  <2>3. ParentsBelow'
    BY <1>1, <1>6, <2>2, RolesAssumption DEF ParentsBelow, KnownInv, Device
  <2>4. QED
    BY <1>5, <2>1, <2>3 DEF KnownInv, HopsBelow, SubGatewaysDirect, BarnsKnown, Has, Carries, Told
<1>7. CASE chan' = Taken(c) /\ UNCHANGED <<parent, setup>>
  BY <1>1, <1>5, <1>7, KnownUnchanged
<1>8. CASE NodeResponse(c) \/ MobileResponse(c)
  <2>1. CheckParentNode(d, Taken(c), m) /\ d \notin SubGateways
    BY <1>8, RolesAssumption DEF NodeResponse, MobileResponse, Receives
  <2>2. m.ntype # GATEWAY => m.src \notin Gateways
    BY <1>1, <1>2, TypeOfRole
  <2>3. QED
    BY <1>6, <1>7, <2>1, <2>2 DEF CheckParentNode
<1>9. CASE SubGatewayOffer(c)
  <2>1. CheckParentSubGateway(d, Taken(c), m) /\ d \in SubGateways
    BY <1>9 DEF SubGatewayOffer, Receives
  <2>2. m.ntype = GATEWAY => m.src \in Gateways
    BY <1>1, <1>2, TypeOfRole
  <2>3. QED
    BY <1>6, <1>7, <2>1, <2>2 DEF CheckParentSubGateway
<1>10. QED
  BY <1>8, <1>9

\* The new entry leads to a device below this one.
LEMMA EntriesStayBelow ==
  ASSUME TableInv, KnownInv, NEW d \in Device, NEW c \in Channel, d = c[2],
         NEW m \in Told[c] \cap PacketFrom(c[1]), m.kind = "SETUP_ACK", Enters(d, ChildOf(m))
  PROVE  HopsBelow' /\ SubGatewaysDirect' /\ ChildOf(m) \in Child
<1>1. /\ m.src = c[1] /\ c[1] \notin Gateways /\ m.addr \in Device
      /\ m.addr \in SubGateways => c[1] = m.addr /\ d \in Gateways
  BY DEF Told, PacketFrom
<1>2. ChildOf(m) \in Child /\ ChildOf(m).from = c[1] /\ ChildOf(m).addr = m.addr
  BY <1>1 DEF PacketFrom, Packet, ChildOf, Child
<1>3. \A e \in Device : \A i \in DOMAIN children'[e] :
        \/ e = d /\ children'[e][i] = ChildOf(m)
        \/ \E j \in DOMAIN children[e] : children'[e][i] = children[e][j]
  BY <1>2, SetChildEntries
<1>4. HopsBelow'
  BY <1>1, <1>2, <1>3 DEF KnownInv, HopsBelow
<1>5. SubGatewaysDirect'
  BY <1>1, <1>2, <1>3 DEF KnownInv, SubGatewaysDirect
<1>6. QED
  BY <1>2, <1>4, <1>5

\* What a relay announces after a SETUP_ACK is about no sub-gateway.
LEMMA RegisterKeepsKnown ==
  ASSUME IInv, KnownInv, NEW c \in Channel,
         NodeSetupAck(c) \/ SubGatewaySetupAck(c) \/ MobileSetupAck(c)
  PROVE  KnownInv'
<1> DEFINE d == c[2]
           m == Head(chan[c])
           last == LastChild(children'[d])
<1>1. /\ Carries(Taken(c), Told) /\ m \in PacketFrom(c[1]) /\ m \in Told[c] /\ m \in Packet
      /\ d \in Device /\ m.kind = "SETUP_ACK" /\ d \notin Gateways
  BY ReceivesCarries, RolesAssumption DEF KnownInv, NodeSetupAck, SubGatewaySetupAck, MobileSetupAck
<1>2. RegisterChild(d, Taken(c), m) /\ UNCHANGED <<parent, barns>>
  BY DEF NodeSetupAck, SubGatewaySetupAck, MobileSetupAck
<1>3. Enters(d, ChildOf(m))
  BY <1>2 DEF RegisterChild, Enters
<1>4. TableInv /\ children \in [Device -> Seq(Child)]
  BY DEF IInv, TableInv
<1>5. HopsBelow' /\ SubGatewaysDirect' /\ ChildOf(m) \in Child
  BY <1>1, <1>3, <1>4, EntriesStayBelow
<1>6. /\ \A e \in Device : \A i \in DOMAIN children'[e] :
           \/ e = d /\ children'[e][i] = ChildOf(m)
           \/ \E j \in DOMAIN children[e] : children'[e][i] = children[e][j]
      /\ \E i \in DOMAIN children'[d] : last = children'[d][i]
      /\ \A e \in Device : \A a : Has(children[e], a) => Has(children'[e], a)
  BY <1>1, <1>3, <1>4, <1>5, SetChildEntries
<1>7. last \in Child /\ last.addr \notin SubGateways
  <2>1. PICK i \in DOMAIN children'[d] : last = children'[d][i]
    BY <1>6
  <2>2. last \in Child
    BY <1>1, <1>3, <1>4, <1>5, LastChildTyped
  <2>3. QED
    BY <1>1, <1>5, <2>1, <2>2 DEF SubGatewaysDirect
<1>8. ASSUME NEW e \in Channel, Reaches(e, d, parent[d].addr)
      PROVE  Control("SETUP_ACK", d, TypeOf(d), last.addr, last.group) \in Told[e]
  <2>1. Control("SETUP_ACK", d, TypeOf(d), last.addr, last.group) \in Packet
    BY <1>1, <1>7, TypeOfRole DEF Control, Packet, Kinds, Flags, Child
  <2>2. QED
    BY <1>1, <1>7, <1>8, <2>1 DEF Reaches, Told, Control
<1>9. Carries(chan', Told)
  BY <1>1, <1>2, <1>4, <1>8, ToldPermits, RegisterCarries
<1>10. ParentsBelow'
  BY <1>2 DEF ParentsBelow, KnownInv
<1>11. BarnsKnown'
  <2>1. ASSUME NEW gw \in Gateways
        PROVE  children'[gw] = children[gw]
    BY <1>1, <1>3, <1>4, <2>1 DEF Device, Enters
  <2>2. QED
    BY <1>2, <2>1 DEF BarnsKnown, KnownInv
<1>12. QED
  BY <1>5, <1>9, <1>10, <1>11 DEF KnownInv, Carries, Told

\* The gateway takes the sub-gateway it did not know for a barn: it is the last
\* entry of the table, and announced itself.
LEMMA GatewaySetupAckKeepsKnown ==
  ASSUME IInv, KnownInv, NEW c \in Channel, GatewaySetupAck(c)
  PROVE  KnownInv'
<1> DEFINE gw == c[2]
           m == Head(chan[c])
           last == LastChild(children'[gw])
<1>1. /\ m \in PacketFrom(c[1]) /\ m \in Told[c] /\ m.kind = "SETUP_ACK"
      /\ gw \in Device /\ gw \in Gateways /\ m.src \in Device
  <2>1. /\ m \in PacketFrom(c[1]) /\ m \in Told[c] /\ m.kind = "SETUP_ACK"
        /\ gw \in Device /\ gw \in Gateways /\ m \in Packet
    BY ReceivesCarries DEF KnownInv, GatewaySetupAck
  <2>2. QED
    BY <2>1 DEF Packet
<1>2. Enters(gw, ChildOf(m))
  BY DEF GatewaySetupAck, Enters
<1>3. TableInv /\ barns \in [Gateways -> Seq(Device)]
  BY DEF IInv, BarnInv
<1>4. HopsBelow' /\ SubGatewaysDirect' /\ ChildOf(m) \in Child
  BY <1>1, <1>2, <1>3, EntriesStayBelow
<1>5. /\ \A e \in Device : \A i \in DOMAIN children'[e] :
           \/ e = gw /\ children'[e][i] = ChildOf(m)
           \/ \E j \in DOMAIN children[e] : children'[e][i] = children[e][j]
      /\ ~Has(children[gw], m.addr) => last = ChildOf(m)
  BY <1>1, <1>2, <1>3, <1>4, SetChildEntries DEF ChildOf
<1>6. Carries(chan', Told)
  BY ToldPermits, IgnoredCarries DEF KnownInv
<1>7. children'[gw] = SetChild(children[gw], ChildOf(m))
  BY <1>1, <1>2, <1>3 DEF TableInv, Enters
<1>8. \A h \in Gateways : barns'[h] = IF h = gw THEN BarnsWith(barns[gw], last, m.src) ELSE barns[h]
  BY <1>3, <1>7 DEF GatewaySetupAck
<1>9. \A h \in Gateways : \A i \in DOMAIN barns[h] : i \in DOMAIN barns'[h] /\ barns'[h][i] = barns[h][i]
  <2>1. \A i \in DOMAIN barns[gw] : /\ i \in DOMAIN BarnsWith(barns[gw], last, m.src)
                                    /\ BarnsWith(barns[gw], last, m.src)[i] = barns[gw][i]
    <3>1. barns[gw] \in Seq(Device)
      BY <1>1, <1>3
    <3> HIDE DEF last
    <3>2. QED
      BY <1>1, <3>1, BarnsWithAppends
  <2> HIDE DEF last
  <2>2. QED
    BY <1>1, <1>8, <2>1
<1>10. BarnsKnown'
  <2> SUFFICES ASSUME NEW h \in Gateways, NEW b \in SubGateways, Has(children'[h], b)
               PROVE  \E i \in DOMAIN barns'[h] : barns'[h][i] = b
    BY DEF BarnsKnown
  <2>1. CASE Has(children[h], b)
    BY <1>9, <2>1 DEF KnownInv, BarnsKnown
  <2>2. CASE ~Has(children[h], b)
    <3>1. PICK i \in DOMAIN children'[h] : children'[h][i].addr = b
      BY DEF Has
    <3>2. h = gw /\ ChildOf(m).addr = b
      BY <1>5, <2>2, <3>1 DEF Has, Device
    <3>3. m.addr = b /\ m.src = b
      BY <1>1, <3>2 DEF ChildOf, Told, PacketFrom
    <3>4. last.addr = last.from
      BY <1>5, <2>2, <3>2, <3>3 DEF ChildOf
    <3>5. barns'[h] = BarnsWith(barns[gw], last, b)
      BY <1>8, <3>2, <3>3
    <3>6. barns[gw] \in Seq(Device) /\ b \in Device
      BY <1>1, <1>3 DEF Device
    <3> HIDE DEF last
    <3>7. \/ \E k \in DOMAIN barns[gw] : barns[gw][k] = b
          \/ barns'[h] = Append(barns[gw], b)
      BY <3>4, <3>5 DEF BarnsWith
    <3>8. CASE \E k \in DOMAIN barns[gw] : barns[gw][k] = b
      BY <1>9, <3>2, <3>8
    <3>9. CASE barns'[h] = Append(barns[gw], b)
      <4> DEFINE q == barns[gw]
      <4> HIDE DEF q
      <4>1. q \in Seq(Device) => Len(q) + 1 \in DOMAIN Append(q, b) /\ Append(q, b)[Len(q) + 1] = b
        BY <3>6, AppendProperties, LenProperties
      <4>2. QED
        BY <3>6, <3>9, <4>1 DEF q
    <3>10. QED
      BY <3>7, <3>8, <3>9
  <2>3. QED
    BY <2>1, <2>2
<1>11. ParentsBelow'
  BY DEF ParentsBelow, KnownInv, GatewaySetupAck
<1>12. QED
  BY <1>4, <1>6, <1>10, <1>11 DEF KnownInv, Carries, Told

\* A removal only shortens the table of a device that is no gateway.
LEMMA ChildRmKeepsKnown ==
  ASSUME IInv, KnownInv, NEW c \in Channel, NodeChildRm(c) \/ SubGatewayChildRm(c)
  PROVE  KnownInv'
<1> DEFINE d == c[2]
<1>1. d \in Device /\ d \notin Gateways
  BY ReceivesCarries, RolesAssumption DEF KnownInv, NodeChildRm, SubGatewayChildRm
<1>2. ForgetChild(d, Taken(c), Head(chan[c])) /\ UNCHANGED <<parent, barns>>
  BY DEF NodeChildRm, SubGatewayChildRm
<1>3. TableInv
  BY DEF IInv
<1>4. \A e \in Device : \A i \in DOMAIN children'[e] :
        \E j \in DOMAIN children[e] : children'[e][i] = children[e][j]
  BY <1>1, <1>2, <1>3, FewerEntries
<1>5. HopsBelow' /\ SubGatewaysDirect'
  BY <1>4 DEF KnownInv, HopsBelow, SubGatewaysDirect
<1>6. ParentsBelow'
  BY <1>2 DEF KnownInv, ParentsBelow
<1>7. BarnsKnown'
  <2>1. ASSUME NEW gw \in Gateways
        PROVE  children'[gw] = children[gw]
    BY <1>1, <1>2, <1>3, <2>1 DEF ForgetChild, TableInv, Device
  <2>2. QED
    BY <1>2, <2>1 DEF KnownInv, BarnsKnown
<1>8. Carries(chan', Told)
  BY ToldPermits, RelaysCarry DEF KnownInv
<1>9. QED
  BY <1>5, <1>6, <1>7, <1>8 DEF KnownInv, Carries, Told

\* A gateway that restarts forgets its barns with its children.
LEMMA RebootKeepsKnown ==
  ASSUME IInv, KnownInv, NEW d \in Device, Reboot(d)
  PROVE  KnownInv'
<1>1. TableInv
  BY DEF IInv
<1>2. \A e \in Device : \A i \in DOMAIN children'[e] :
        \E j \in DOMAIN children[e] : children'[e][i] = children[e][j]
  BY <1>1, FewerEntries
<1>3. HopsBelow' /\ SubGatewaysDirect'
  BY <1>2 DEF KnownInv, HopsBelow, SubGatewaysDirect
<1>4. \A e \in Device : parent'[e].addr = IF e = d THEN NullAddr ELSE parent[e].addr
  BY DEF Reboot, NoParent, IInv, AttachInv
<1>5. ParentsBelow'
  BY <1>4, RolesAssumption DEF KnownInv, ParentsBelow, Device
<1>6. BarnsKnown'
  <2>1. ASSUME NEW gw \in Gateways
        PROVE  /\ children'[gw] = IF gw = d THEN <<>> ELSE children[gw]
               /\ barns'[gw] = IF gw = d THEN <<>> ELSE barns[gw]
    BY <1>1 DEF Reboot, TableInv, Device
  <2>2. \A a : ~Has(<<>>, a)
    BY DEF Has
  <2>3. QED
    BY <2>1, <2>2 DEF KnownInv, BarnsKnown
<1>7. Carries(chan', Told)
  BY ToldPermits, LoopsCarry DEF KnownInv
<1>8. QED
  BY <1>3, <1>5, <1>6, <1>7 DEF KnownInv, Carries, Told

\* Steps that touch no parent, no table and no barn.
LEMMA RelayKeepsKnown ==
  ASSUME IInv, KnownInv,
         \/ \E c \in Channel : Relays(c) \/ Lose(c)
         \/ \E d \in Device : Act(d)
         \/ \E gw \in Gateways : Command(gw)
  PROVE  KnownInv'
<1>1. Carries(chan', Told)
  BY ToldPermits, OthersCarry DEF KnownInv
<1>2. UNCHANGED <<parent, children, barns>>
  BY RelaysUnchanged
<1>3. QED
  BY <1>1, <1>2, KnownUnchanged

LEMMA InitKnown == Init => KnownInv
<1> SUFFICES ASSUME Init
             PROVE  KnownInv
  OBVIOUS
<1>1. chan = [c \in Channel |->
                IF c[1] \in Gateways /\ c[3] = "broadcast" THEN <<SetupOf(c[1])>> ELSE <<>>]
  BY DEF Init
<1>2. ASSUME NEW c \in Channel
      PROVE  chan[c] \in Seq(Told[c])
  <2>1. SetupOf(c[1]) \in Told[c]
    BY ChannelEnds, SetupPermitted, ToldPermits
  <2> DEFINE S == Told[c]
             m == SetupOf(c[1])
  <2> HIDE DEF S, m
  <2>2. m \in S => <<m>> \in Seq(S) /\ <<>> \in Seq(S)
    OBVIOUS
  <2>3. chan[c] = <<m>> \/ chan[c] = <<>>
    BY <1>1 DEF m
  <2>4. QED
    BY <2>1, <2>2, <2>3 DEF S, m
<1>3. Carries(chan, Told)
  BY <1>1, <1>2 DEF Carries
<1>4. ParentsBelow
  BY RolesAssumption DEF Init, ParentsBelow, NoParent, Device
<1>5. \A d \in Device : DOMAIN children[d] = {}
  BY DEF Init
<1>6. HopsBelow /\ SubGatewaysDirect /\ BarnsKnown
  BY <1>5 DEF HopsBelow, SubGatewaysDirect, BarnsKnown, Has, Device
<1>7. QED
  BY <1>3, <1>4, <1>6 DEF KnownInv

\* Every packet received, one handler after the other.
LEMMA ReceiveKeepsKnown ==
  ASSUME IInv, KnownInv, NEW c \in Channel, Receive(c)
  PROVE  KnownInv'
<1>1. CASE Relays(c)
  BY <1>1, RelayKeepsKnown
<1>2. CASE ~Relays(c)
  <2>1. \/ NodeResponse(c) \/ MobileResponse(c) \/ SubGatewayOffer(c)
        \/ NodeSetupAck(c) \/ SubGatewaySetupAck(c) \/ MobileSetupAck(c)
        \/ GatewaySetupAck(c) \/ NodeChildRm(c) \/ SubGatewayChildRm(c)
    BY <1>2 DEF Receive, Relays
  <2>2. QED
    BY <2>1, OffersKeepKnown, RegisterKeepsKnown, GatewaySetupAckKeepsKnown, ChildRmKeepsKnown
<1>3. QED
  BY <1>1, <1>2

\* So every step keeps the invariant.
LEMMA NextKnown == IInv /\ KnownInv /\ [Next]_vars => KnownInv'
<1> SUFFICES ASSUME IInv, KnownInv, [Next]_vars
             PROVE  KnownInv'
  OBVIOUS
<1>1. ASSUME NEW gw \in Gateways, CommandBarn(gw) \/ IrrigateAll(gw)
      PROVE  Command(gw)
  BY <1>1 DEF Command, CommandBarn, IrrigateAll
<1>2. CASE UNCHANGED vars
  BY <1>2 DEF vars, KnownInv, Carries, Told, ParentsBelow, HopsBelow, SubGatewaysDirect, BarnsKnown, Has
<1>3. CASE \E c \in Channel : Receive(c)
  BY <1>3, ReceiveKeepsKnown
<1>4. CASE \E d \in Device : Reboot(d)
  BY <1>4, RebootKeepsKnown
<1>5. QED
  BY <1>1, <1>2, <1>3, <1>4, RelayKeepsKnown DEF Next

LEMMA Known == Spec => []KnownInv
<1>1. Init => KnownInv
  BY InitKnown
<1>2. IInv /\ KnownInv /\ [Next]_vars => KnownInv'
  BY NextKnown
<1>3. QED
  BY <1>1, <1>2, Invariance, PTL DEF Spec

\* The exchange of mobiles and sensors stays in the barn (process_sub_gateway_packet
\* turns it round): a sensor or a mobile never has a gateway for a parent, and no
\* table leads up to one, whatever is lost and whoever restarts.
THEOREM QueriesInBarn == Spec => []QueriesStayInBarn
<1>1. KnownInv => QueriesStayInBarn
  <2> SUFFICES ASSUME KnownInv, NEW c \in Channel, c[2] \in Gateways, c[3] = "unicast",
                      NEW i \in DOMAIN chan[c]
               PROVE  chan[c][i].flag = "NOT_MOBILE"
    BY DEF QueriesStayInBarn
  <2>1. chan[c] \in Seq(Told[c])
    BY DEF KnownInv, Carries
  <2> DEFINE S == Told[c]
             q == chan[c]
  <2> HIDE DEF S, q
  <2>2. q \in Seq(S) => \A k \in DOMAIN q : q[k] \in S
    BY ElementOfSeq, LenProperties
  <2>3. chan[c][i] \in Told[c]
    BY <2>1, <2>2 DEF S, q
  <2>4. QED
    BY <2>3 DEF Told
<1>2. QED
  BY <1>1, Known, PTL

-------------------------------------------------------------------------------
(* As long as the frames of sub-gateways to their gateways arrive and nobody   *)
(* restarts                                                                    *)

\* The channels on which a sub-gateway announces itself and what is below it.
Up == {c \in Channel : c[1] \in SubGateways /\ c[2] \in Gateways /\ c[3] = "unicast"}

\* The MAC never has to drop a frame on one of them.
Roomy == \A c \in Up : Len(chan[c]) < QueueSize

\* The steps of such a network, whatever the stimuli have cost.
UndisturbedNext ==
  /\ budget' \in [Stimuli -> Int]
  /\ \/ \E c \in Channel : Receive(c)
     \/ \E c \in Channel \ Up : Lose(c)
     \/ \E d \in Device : Act(d)
     \/ \E gw \in Gateways : Command(gw)
     \/ UNCHANGED <<setup, parent, children, data_counter, barns, chan>>

\* The devices that have had a parent.
Attached == {d \in Device : parent[d].addr # NullAddr}

\* Offers come from a gateway or a device of A, and announcements go to one.
Rooted(A) ==
  [c \in Channel |->
     {p \in Packet :
        /\ p.kind = "RESPONSE" => c[1] \in Gateways \cup A
        /\ p.kind = "SETUP_ACK" => c[3] = "unicast" /\ c[2] \in Gateways \cup A}]

\* So nobody announces anything before it has a parent to announce it to: a
\* sub-gateway without one would tell every gateway around.
RootedInv ==
  /\ Carries(chan, Rooted(Attached))
  /\ \A d \in Attached : parent[d].addr \in Gateways \cup Attached

\* These channels permit what everyone may send, and offers of who has a parent.
LEMMA RootedPermits ==
  ASSUME IInv, NEW A
  PROVE  /\ Permits(Rooted(A))
         /\ Attached \subseteq A => PermitsOffers(Rooted(A))
<1>1. Permits(Rooted(A))
  BY DEF Permits, Rooted
<1>2. \A d \in Device : setup[d] = 1 => d \in Attached
  <2>1. ASSUME NEW d \in Device, setup[d] = 1
        PROVE  parent[d].addr \in Device
    BY <2>1, RadioAssumption DEF IInv, AttachInv, ParentRole
  <2>2. QED
    BY <2>1, RolesAssumption DEF Attached
<1>3. Attached \subseteq A => PermitsOffers(Rooted(A))
  BY <1>2, ChannelEnds DEF PermitsOffers, Rooted
<1>4. QED
  BY <1>1, <1>3

\* The more devices have a parent, the more is permitted.
LEMMA RootedWider ==
  ASSUME NEW A, NEW B, A \subseteq B, NEW ch, Carries(ch, Rooted(A))
  PROVE  Carries(ch, Rooted(B))
<1>1. ASSUME NEW c \in Channel
      PROVE  ch[c] \in Seq(Rooted(B)[c])
  <2> DEFINE S == Rooted(A)[c]
             T == Rooted(B)[c]
             q == ch[c]
  <2>1. S \subseteq T
    BY DEF Rooted
  <2>2. q \in Seq(S)
    BY DEF Carries
  <2> HIDE DEF S, T, q
  <2>3. q \in Seq(T)
    BY <2>1, <2>2
  <2>4. QED
    BY <2>3 DEF T, q
<1>2. QED
  BY <1>1 DEF Carries

LEMMA RootedKept ==
  ASSUME RootedInv, UNCHANGED parent, Carries(chan', Rooted(Attached))
  PROVE  RootedInv'
BY DEF RootedInv, Attached, Rooted, Carries

\* A new parent is a gateway, or made its offer after it had a parent.
LEMMA OffersKeepRooted ==
  ASSUME IInv, RootedInv, NEW c \in Channel,
         NodeResponse(c) \/ MobileResponse(c) \/ SubGatewayOffer(c)
  PROVE  RootedInv'
<1> DEFINE d == c[2]
           m == Head(chan[c])
           A == Attached \cup {d}
<1>1. /\ Carries(Taken(c), Rooted(Attached)) /\ m \in PacketFrom(c[1]) /\ m \in Rooted(Attached)[c]
      /\ c[1] \in Device /\ d \in Device /\ m.kind \in {"SETUP", "RESPONSE"}
  BY ReceivesCarries DEF RootedInv, NodeResponse, MobileResponse, SubGatewayOffer
<1>2. m.src = c[1] /\ m.ntype = TypeOf(c[1]) /\ m.src \in Device
  BY <1>1 DEF PacketFrom
<1>3. m.src \in Gateways \cup Attached
  <2>1. CASE m.kind = "RESPONSE"
    BY <1>1, <1>2, <2>1 DEF Rooted
  <2>2. CASE m.kind # "RESPONSE"
    BY <1>1, <1>2, <2>2, TypeOfRole DEF NodeResponse, MobileResponse, SubGatewayOffer, Receives
  <2>3. QED
    BY <2>1, <2>2
<1>4. \/ Adopt(d, Taken(c), m.src, m.ntype)
      \/ chan' = Taken(c) /\ UNCHANGED <<parent, setup>>
  BY DEF NodeResponse, MobileResponse, SubGatewayOffer, CheckParentNode, CheckParentSubGateway
<1>5. CASE Adopt(d, Taken(c), m.src, m.ntype)
  <2>1. \A e \in Device : parent'[e].addr = IF e = d THEN m.src ELSE parent[e].addr
    BY <1>1, <1>5 DEF Adopt, IInv, AttachInv
  <2>2. Attached' = A
    BY <1>1, <1>2, <2>1, RolesAssumption DEF Attached
  <2>3. \A e \in Attached' : parent'[e].addr \in Gateways \cup Attached'
    BY <1>3, <2>1, <2>2 DEF RootedInv, Attached
  <2>4. MayAnnounce(Rooted(A), d, m.src)
    <3>1. Control("SETUP_ACK", d, TypeOf(d), d, GroupOf[d]) \in Packet
      BY <1>1, TypeOfRole, GroupAssumption DEF Control, Packet, Kinds, Flags
    <3>2. QED
      BY <1>3, <3>1 DEF MayAnnounce, Rooted, Control
  <2>5. Carries(Taken(c), Rooted(A))
    BY <1>1, RootedWider
  <2>6. Carries(chan', Rooted(A))
    <3>1. m.src \in Device /\ Adopt(d, Taken(c), m.src, m.ntype)
      BY <1>2, <1>5
    <3> HIDE DEF d, m, A
    <3>2. QED
      BY <2>4, <2>5, <3>1, AdoptCarries
  <2>7. Carries(chan', Rooted(Attached'))
    BY <2>2, <2>6
  <2>8. QED
    BY <2>3, <2>7 DEF RootedInv, Carries, Rooted
<1>6. CASE chan' = Taken(c) /\ UNCHANGED parent
  BY <1>1, <1>6, RootedKept
<1>7. QED
  BY <1>4, <1>5, <1>6

\* Who is told about a child has a parent to pass it on to.
LEMMA RegisterKeepsRooted ==
  ASSUME IInv, RootedInv, NEW c \in Channel,
         NodeSetupAck(c) \/ SubGatewaySetupAck(c) \/ MobileSetupAck(c)
  PROVE  RootedInv'
<1> DEFINE d == c[2]
           m == Head(chan[c])
           last == LastChild(children'[d])
<1>1. /\ Carries(Taken(c), Rooted(Attached)) /\ m \in PacketFrom(c[1]) /\ m \in Packet
      /\ m \in Rooted(Attached)[c]
      /\ d \in Device /\ m.kind = "SETUP_ACK" /\ d \notin Gateways
  BY ReceivesCarries, RolesAssumption DEF RootedInv, NodeSetupAck, SubGatewaySetupAck, MobileSetupAck
<1>2. RegisterChild(d, Taken(c), m) /\ UNCHANGED parent
  BY DEF NodeSetupAck, SubGatewaySetupAck, MobileSetupAck
<1>3. parent[d].addr \in Gateways \cup Attached /\ parent[d].addr # NullAddr
  BY <1>1, RolesAssumption DEF Rooted, RootedInv, Attached, Device
<1>4. last.addr \in Device /\ last.group \in Groups
  <2>1. Enters(d, ChildOf(m)) /\ ChildOf(m) \in Child /\ TableInv
    BY <1>1, <1>2 DEF RegisterChild, Enters, ChildOf, Child, PacketFrom, Packet, IInv
  <2>2. last \in Child
    BY <1>1, <2>1, LastChildTyped
  <2>3. QED
    BY <2>2 DEF Child
<1>5. ASSUME NEW e \in Channel, Reaches(e, d, parent[d].addr)
      PROVE  Control("SETUP_ACK", d, TypeOf(d), last.addr, last.group) \in Rooted(Attached)[e]
  <2>1. Control("SETUP_ACK", d, TypeOf(d), last.addr, last.group) \in Packet
    BY <1>1, <1>4, TypeOfRole DEF Control, Packet, Kinds, Flags
  <2>2. QED
    BY <1>3, <1>5, <2>1 DEF Reaches, Rooted, Control
<1>6. Carries(chan', Rooted(Attached))
  <2>1. children \in [Device -> Seq(Child)] /\ Permits(Rooted(Attached))
    BY RootedPermits DEF IInv, TableInv
  <2>2. QED
    BY <1>1, <1>2, <1>5, <2>1, RegisterCarries
<1>7. QED
  BY <1>2, <1>6, RootedKept

\* In an undisturbed network no device forgets that it had a parent.
LEMMA UndisturbedRooted ==
  ASSUME IInv, KnownInv, RootedInv, UndisturbedNext
  PROVE  RootedInv'
<1>1. CASE \/ \E c \in Channel : \/ Relays(c) \/ GatewaySetupAck(c) \/ NodeChildRm(c)
                                 \/ SubGatewayChildRm(c) \/ Lose(c)
           \/ \E d \in Device : Act(d)
           \/ \E gw \in Gateways : Command(gw)
  <2>1. Carries(chan', Rooted(Attached))
    <3>1. Permits(Rooted(Attached)) /\ PermitsOffers(Rooted(Attached))
      BY RootedPermits
    <3>2. Carries(chan, Rooted(Attached)) /\ ParentsBelow /\ HopsBelow
      BY DEF RootedInv, KnownInv
    <3>3. QED
      BY <1>1, <3>1, <3>2, OthersCarry
  <2>2. UNCHANGED parent
    BY <1>1, RelaysUnchanged DEF GatewaySetupAck, NodeChildRm, SubGatewayChildRm
  <2>3. QED
    BY <2>1, <2>2, RootedKept
<1>2. CASE \E c \in Channel : NodeResponse(c) \/ MobileResponse(c) \/ SubGatewayOffer(c)
  BY <1>2, OffersKeepRooted
<1>3. CASE \E c \in Channel : NodeSetupAck(c) \/ SubGatewaySetupAck(c) \/ MobileSetupAck(c)
  BY <1>3, RegisterKeepsRooted
<1>4. CASE UNCHANGED <<parent, chan>>
  BY <1>4, RootedKept DEF RootedInv
<1>5. ASSUME NEW c \in Channel, Receive(c)
      PROVE  \/ Relays(c) \/ GatewaySetupAck(c) \/ NodeChildRm(c) \/ SubGatewayChildRm(c)
             \/ NodeResponse(c) \/ MobileResponse(c) \/ SubGatewayOffer(c)
             \/ NodeSetupAck(c) \/ SubGatewaySetupAck(c) \/ MobileSetupAck(c)
  BY <1>5 DEF Receive, Relays
<1>6. QED
  BY <1>1, <1>2, <1>3, <1>4, <1>5 DEF UndisturbedNext

LEMMA InitRooted == Init => RootedInv
<1> SUFFICES ASSUME Init
             PROVE  RootedInv
  OBVIOUS
<1>1. Attached = {}
  BY DEF Init, NoParent, Attached
<1>2. ASSUME NEW c \in Channel
      PROVE  chan[c] \in Seq(Rooted(Attached)[c])
  <2>1. SetupOf(c[1]) \in Rooted(Attached)[c]
    <3>1. SetupOf(c[1]) \in Told[c]
      BY ChannelEnds, SetupPermitted, ToldPermits
    <3>2. QED
      BY <3>1 DEF Told, Rooted, SetupOf, Control
  <2> DEFINE S == Rooted(Attached)[c]
             m == SetupOf(c[1])
  <2>2. chan[c] = <<m>> \/ chan[c] = <<>>
    BY DEF Init
  <2> HIDE DEF S, m
  <2>3. m \in S => <<m>> \in Seq(S) /\ <<>> \in Seq(S)
    OBVIOUS
  <2>4. QED
    BY <2>1, <2>2, <2>3 DEF S, m
<1>3. chan = [c \in Channel |-> chan[c]]
  BY DEF Init
<1>4. QED
  BY <1>1, <1>2, <1>3 DEF RootedInv, Carries

-------------------------------------------------------------------------------
(* The first announcement on a channel to a gateway is of the sub-gateway itself *)

About(q, b) == \E j \in DOMAIN q : q[j].kind = "SETUP_ACK" /\ q[j].addr = b

\* Before any announcement of q there is one of b.
Led(q, b) ==
  \A i \in DOMAIN q : q[i].kind = "SETUP_ACK" =>
    \E j \in DOMAIN q : j <= i /\ q[j].kind = "SETUP_ACK" /\ q[j].addr = b

\* The gateway knows the sub-gateway, or will hear of it before it hears anything
\* else from it; and it will when the sub-gateway has taken it for its parent.
Introduced(c) ==
  \/ Has(children[c[2]], c[1])
  \/ /\ Led(chan[c], c[1])
     /\ parent[c[1]].addr = c[2] => About(chan[c], c[1])

BarnsHeld == \A gw \in Gateways : \A i \in DOMAIN barns[gw] : Has(children[gw], barns[gw][i])

\* Adding a packet: b's announcement stays the first, if it was there or comes now.
LEMMA LedAppend ==
  ASSUME NEW q \in Seq(Packet), NEW m, NEW b
  PROVE  /\ About(q, b) => About(Append(q, m), b)
         /\ m.kind = "SETUP_ACK" /\ m.addr = b => About(Append(q, m), b)
         /\ Led(q, b) /\ (m.kind = "SETUP_ACK" => m.addr = b \/ About(q, b)) => Led(Append(q, m), b)
<1> DEFINE r == Append(q, m)
<1>1. /\ DOMAIN q = 1..Len(q) /\ Len(q) \in Nat
      /\ DOMAIN r = 1..(Len(q) + 1)
      /\ \A i \in 1..Len(q) : r[i] = q[i]
      /\ r[Len(q) + 1] = m
  <2>1. q \in Seq(Packet \cup {m})
    OBVIOUS
  <2>2. QED
    BY <2>1, AppendProperties, LenProperties
<1> HIDE DEF r
<1>2. /\ \A i \in DOMAIN q : i \in DOMAIN r /\ r[i] = q[i]
      /\ Len(q) + 1 \in DOMAIN r
      /\ \A i \in DOMAIN r : i \in DOMAIN q \/ i = Len(q) + 1
      /\ \A j \in DOMAIN q : j <= Len(q) + 1
  BY <1>1
<1>3. About(q, b) => About(r, b)
  BY <1>2 DEF About
<1>4. m.kind = "SETUP_ACK" /\ m.addr = b => About(r, b)
  BY <1>1, <1>2 DEF About
<1>5. ASSUME Led(q, b), m.kind = "SETUP_ACK" => m.addr = b \/ About(q, b),
             NEW i \in DOMAIN r, r[i].kind = "SETUP_ACK"
      PROVE  \E j \in DOMAIN r : j <= i /\ r[j].kind = "SETUP_ACK" /\ r[j].addr = b
  <2>1. CASE i \in DOMAIN q
    BY <1>2, <1>5, <2>1 DEF Led
  <2>2. CASE i = Len(q) + 1 /\ m.addr = b
    BY <1>1, <1>5, <2>2
  <2>3. CASE i = Len(q) + 1 /\ About(q, b)
    BY <1>2, <2>3 DEF About
  <2>4. QED
    BY <1>1, <1>2, <1>5, <2>1, <2>2, <2>3
<1>6. Led(q, b) /\ (m.kind = "SETUP_ACK" => m.addr = b \/ About(q, b)) => Led(r, b)
  BY <1>5 DEF Led
<1>7. QED
  BY <1>3, <1>4, <1>6 DEF r

\* When the first packet is taken off and it was not the announcement, the
\* announcement is still first of its kind.
LEMMA LedTail ==
  ASSUME NEW q \in Seq(Packet), q # <<>>, NEW b, Led(q, b)
  PROVE  /\ Head(q).kind = "SETUP_ACK" => Head(q).addr = b
         /\ Head(q).kind # "SETUP_ACK" => Led(Tail(q), b)
         /\ Head(q).kind # "SETUP_ACK" /\ About(q, b) => About(Tail(q), b)
<1> DEFINE r == Tail(q)
<1>1. /\ DOMAIN q = 1..Len(q) /\ Len(q) \in Nat \ {0}
      /\ Head(q) = q[1]
      /\ DOMAIN r = 1..(Len(q) - 1)
      /\ \A i \in 1..(Len(q) - 1) : r[i] = q[i + 1]
  BY HeadTailProperties, EmptySeq, LenProperties
<1> HIDE DEF r
<1>2. Head(q).kind = "SETUP_ACK" => Head(q).addr = b
  BY <1>1 DEF Led
<1>3. ASSUME Head(q).kind # "SETUP_ACK", NEW k \in DOMAIN q, q[k].kind = "SETUP_ACK"
      PROVE  k - 1 \in DOMAIN r /\ r[k - 1] = q[k]
  BY <1>1, <1>3
<1>4. ASSUME Head(q).kind # "SETUP_ACK", NEW i \in DOMAIN r, r[i].kind = "SETUP_ACK"
      PROVE  \E j \in DOMAIN r : j <= i /\ r[j].kind = "SETUP_ACK" /\ r[j].addr = b
  <2>1. i + 1 \in DOMAIN q /\ q[i + 1].kind = "SETUP_ACK"
    BY <1>1, <1>4
  <2>2. PICK k \in DOMAIN q : k <= i + 1 /\ q[k].kind = "SETUP_ACK" /\ q[k].addr = b
    BY <2>1 DEF Led
  <2>3. k - 1 \in DOMAIN r /\ r[k - 1] = q[k] /\ k - 1 <= i
    BY <1>1, <1>3, <1>4, <2>2
  <2>4. QED
    BY <2>2, <2>3
<1>5. Head(q).kind # "SETUP_ACK" => Led(r, b)
  BY <1>4 DEF Led
<1>6. Head(q).kind # "SETUP_ACK" /\ About(q, b) => About(r, b)
  BY <1>3 DEF About
<1>7. QED
  BY <1>2, <1>5, <1>6 DEF r

\* What a step may do to a channel of Up.
Quiet(c) ==
  /\ chan'[c] = chan[c] \/ \E m : m.kind # "SETUP_ACK" /\ chan'[c] = Append(chan[c], m)
  /\ parent'[c[1]].addr = parent[c[1]].addr
Introduces(c) == \E m : m.kind = "SETUP_ACK" /\ m.addr = c[1] /\ chan'[c] = Append(chan[c], m)
Leaves(c) == chan'[c] = chan[c] /\ parent'[c[1]].addr # c[2]
Passes(c) ==
  /\ parent[c[1]].addr = c[2] /\ UNCHANGED parent
  /\ \E m : chan'[c] = Append(chan[c], m)
Arrives(c) ==
  /\ UNCHANGED parent
  /\ chan[c] # <<>> /\ chan'[c] = Tail(chan[c])
  /\ Head(chan[c]).kind = "SETUP_ACK" => Has(children'[c[2]], Head(chan[c]).addr)

\* A sub-gateway stays introduced, whatever of these happens to its channel, as long
\* as the gateway keeps its entry.
LEMMA IntroducedKept ==
  ASSUME NEW c \in Up, chan[c] \in Seq(Packet), Introduced(c),
         Has(children[c[2]], c[1]) => Has(children'[c[2]], c[1]),
         Quiet(c) \/ Introduces(c) \/ Leaves(c) \/ Passes(c) \/ Arrives(c)
  PROVE  Introduced(c)'
<1> DEFINE q == chan[c]
           b == c[1]
<1>1. CASE Has(children[c[2]], b)
  BY <1>1 DEF Introduced
<1>2. CASE ~Has(children[c[2]], b)
  <2>1. Led(q, b) /\ (parent[b].addr = c[2] => About(q, b))
    BY <1>2 DEF Introduced
  <2>2. SUFFICES \/ Has(children'[c[2]], b)
                 \/ /\ Led(chan'[c], b)
                    /\ parent'[b].addr = c[2] => About(chan'[c], b)
    BY DEF Introduced
  <2>3. q \in Seq(Packet)
    OBVIOUS
  <2>4. CASE chan'[c] = q /\ (parent'[b].addr = c[2] => parent[b].addr = c[2])
    BY <2>1, <2>4
  <2>5. ASSUME NEW m, chan'[c] = Append(q, m),
               m.kind = "SETUP_ACK" => m.addr = b \/ About(q, b),
               parent'[b].addr = c[2] => About(q, b) \/ (m.kind = "SETUP_ACK" /\ m.addr = b)
        PROVE  Led(chan'[c], b) /\ (parent'[b].addr = c[2] => About(chan'[c], b))
    <3> HIDE DEF q
    <3>1. QED
      BY <2>1, <2>3, <2>5, LedAppend
  <2>6. CASE Quiet(c)
    BY <2>1, <2>4, <2>5, <2>6 DEF Quiet
  <2>7. CASE Introduces(c)
    BY <2>5, <2>7 DEF Introduces
  <2>8. CASE Leaves(c)
    BY <2>4, <2>8 DEF Leaves
  <2>9. CASE Passes(c)
    BY <2>1, <2>5, <2>9 DEF Passes
  <2>10. CASE Arrives(c)
    <3>1. q # <<>> /\ chan'[c] = Tail(q) /\ parent'[b].addr = parent[b].addr
          /\ (Head(q).kind = "SETUP_ACK" => Has(children'[c[2]], Head(q).addr))
      BY <2>10 DEF Arrives
    <3>2. /\ Head(q).kind = "SETUP_ACK" => Head(q).addr = b
          /\ Head(q).kind # "SETUP_ACK" => Led(Tail(q), b)
          /\ Head(q).kind # "SETUP_ACK" /\ About(q, b) => About(Tail(q), b)
      <4> HIDE DEF q
      <4>1. QED
        BY <2>1, <2>3, <3>1, LedTail
    <3>3. CASE Head(q).kind = "SETUP_ACK"
      BY <3>1, <3>2, <3>3
    <3>4. CASE Head(q).kind # "SETUP_ACK"
      BY <2>1, <3>1, <3>2, <3>4
    <3>5. QED
      BY <3>3, <3>4
  <2>11. QED
    BY <2>6, <2>7, <2>8, <2>9, <2>10
<1>3. QED
  BY <1>1, <1>2

\* A frame is put on the channel it is for, if there is room.
LEMMA Delivered ==
  ASSUME NEW ch, NEW c \in Channel, NEW s, NEW dest, NEW m, Reaches(c, s, dest), Len(ch[c]) < QueueSize
  PROVE  Output(ch, s, dest, m)[c] = Append(ch[c], m)
BY DEF Output, Queued

\* Channels of Up lead from sub-gateways to gateways, and are typed.
LEMMA UpChannel ==
  ASSUME IInv, NEW c \in Up
  PROVE  /\ c \in Channel /\ c[1] \in SubGateways /\ c[2] \in Gateways /\ c[3] = "unicast"
         /\ c[1] \in Device /\ c[2] \in Device
         /\ c[1] \notin Gateways \cup Nodes \cup Mobiles
         /\ chan[c] \in Seq(Packet)
         /\ \A e \in Channel : e # c => Taken(e)[c] = chan[c]
<1>1. c \in Channel /\ c[1] \in SubGateways /\ c[2] \in Gateways /\ c[3] = "unicast"
  BY DEF Up
<1>2. chan \in [Channel -> Seq(Packet)]
  BY DEF IInv, Channels
<1>3. QED
  BY <1>1, <1>2, RolesAssumption DEF Device, Taken

\* Nodes and mobiles send nothing on it.
LEMMA BelowIsQuiet ==
  ASSUME IInv, NEW c \in Up, NEW e \in Channel,
         \/ NodeSetup(e) \/ NodeResponse(e) \/ NodeSetupAck(e) \/ NodeChildRm(e)
         \/ NodeDataAck(e) \/ NodeData(e)
         \/ MobileResponse(e) \/ MobileSetupAck(e) \/ MobileDataAck(e) \/ MobileIgnore(e)
  PROVE  Quiet(c)
<1> DEFINE d == e[2]
           m == Head(chan[e])
<1>1. d \in Nodes \cup Mobiles /\ d \in Device
  BY ChannelEnds
     DEF Receives, NodeSetup, NodeResponse, NodeSetupAck, NodeChildRm, NodeDataAck, NodeData,
         MobileResponse, MobileSetupAck, MobileDataAck, MobileIgnore
<1>2. c \in Channel /\ c[1] # d /\ Taken(e)[c] = chan[c]
  BY <1>1, UpChannel, RolesAssumption
<1>3. \A ch, p : /\ \A dest : Output(ch, d, dest, p)[c] = ch[c]
                 /\ \A hops : OutputAll(ch, d, hops, p)[c] = ch[c]
  <2> HIDE DEF d
  <2>1. ASSUME NEW ch, NEW p, NEW dest
        PROVE  Output(ch, d, dest, p)[c] = ch[c]
    BY <1>2 DEF Output, Queued, Reaches
  <2>2. ASSUME NEW ch, NEW p, NEW hops
        PROVE  OutputAll(ch, d, hops, p)[c] = ch[c]
    BY <1>2 DEF OutputAll, Queued, Reaches
  <2>3. QED
    BY <2>1, <2>2
<1>4. parent \in [Device -> Parent] /\ c[1] \in Device
  BY UpChannel DEF IInv, AttachInv
<1> HIDE DEF d, m
<1>5. CASE NodeSetup(e) \/ NodeChildRm(e) \/ NodeDataAck(e) \/ MobileDataAck(e) \/ MobileIgnore(e)
  <2>1. CASE NodeSetup(e) \/ MobileIgnore(e)
    BY <1>2, <1>3, <2>1 DEF NodeSetup, MobileIgnore, Quiet, d
  <2>2. CASE NodeChildRm(e)
    <3>1. parent' = parent
      BY <2>2 DEF NodeChildRm
    <3>2. ForgetChild(d, Taken(e), Head(chan[e]))
      BY <2>2 DEF NodeChildRm, d
    <3>3. chan'[c] = chan[c]
      BY <1>2, <1>3, <3>2 DEF ForgetChild
    <3>4. QED
      BY <3>1, <3>3 DEF Quiet
  <2>3. CASE NodeDataAck(e) \/ MobileDataAck(e)
    BY <1>2, <1>3, <2>3 DEF NodeDataAck, MobileDataAck, PassAck, Quiet, d
  <2>4. QED
    BY <1>5, <2>1, <2>2, <2>3
<1>6. CASE NodeSetupAck(e) \/ MobileSetupAck(e)
  BY <1>2, <1>3, <1>6 DEF NodeSetupAck, MobileSetupAck, RegisterChild, AfterSetChild, Quiet, d
<1>7. CASE NodeResponse(e) \/ MobileResponse(e)
  <2>1. CheckParentNode(d, Taken(e), m)
    BY <1>7 DEF NodeResponse, MobileResponse, d, m
  <2>2. CASE Adopt(d, Taken(e), m.src, m.ntype)
    <3>1. chan'[c] = chan[c]
      BY <1>2, <1>3, <2>2 DEF Adopt
    <3>2. parent'[c[1]] = parent[c[1]]
      BY <1>2, <1>4, <2>2 DEF Adopt
    <3>3. QED
      BY <3>1, <3>2 DEF Quiet
  <2>3. CASE chan' = Taken(e) /\ UNCHANGED <<parent, setup>>
    BY <1>2, <2>3 DEF Quiet
  <2>4. QED
    BY <2>1, <2>2, <2>3 DEF CheckParentNode
<1>8. CASE NodeData(e)
  <2> DEFINE ch == IF NotSetup(d) THEN Taken(e) ELSE Forwarded(d, Taken(e), m)
  <2>1. ch[c] = chan[c]
    BY <1>2, <1>3 DEF Forwarded
  <2>2. \/ SendAcked(d, ch)
        \/ chan' = Output(ch, d, parent[d].addr, Data("DATA_UP", d, UNICAST_GROUP, "DATA_RESPONSE"))
        \/ chan' = ch
    BY <1>8 DEF NodeData, d, m
  <2> HIDE DEF ch
  <2>3. chan'[c] = chan[c]
    BY <1>3, <2>1, <2>2 DEF SendAcked
  <2>4. UNCHANGED parent
    BY <1>8 DEF NodeData
  <2>5. QED
    BY <2>3, <2>4 DEF Quiet
<1>9. QED
  BY <1>5, <1>6, <1>7, <1>8

\* A data packet stays one when it is turned round.
LEMMA TurnedKind ==
  ASSUME NEW m \in Packet, m.kind \in {"DATA_UP", "DATA_DOWN"}
  PROVE  TurnedRound(m).kind \in {"DATA_UP", "DATA_DOWN"}
<1>1. m.flag \in Flags
  BY DEF Packet
<1>2. CASE m.flag = "NOT_MOBILE"
  BY <1>2 DEF TurnedRound
<1>3. CASE m.flag = "DATA_QUERY"
  BY <1>3 DEF TurnedRound, Packet
<1>4. CASE m.flag = "DATA_RESPONSE"
  BY <1>4 DEF TurnedRound, Packet
<1>5. QED
  BY <1>1, <1>2, <1>3, <1>4 DEF Flags

\* A sub-gateway announces nothing but children and itself.
LEMMA SubGatewayIsQuiet ==
  ASSUME IInv, NEW c \in Up, NEW e \in Channel,
         SubGatewaySetup(e) \/ SubGatewayChildRm(e) \/ SubGatewayDataAck(e) \/ SubGatewayData(e)
  PROVE  Quiet(c)
<1> DEFINE d == e[2]
           m == Head(chan[e])
<1>1. d \in SubGateways /\ m \in Packet
  BY ReceivesGenuine DEF IInv, Receives, SubGatewaySetup, SubGatewayChildRm, SubGatewayDataAck, SubGatewayData, PacketFrom
<1>2. c \in Channel /\ Taken(e)[c] = chan[c]
  BY <1>1, UpChannel, RolesAssumption
<1>3. \A p : p.kind # "SETUP_ACK" =>
        /\ \A dest : LET q == Output(Taken(e), d, dest, p)[c]
                     IN q = chan[c] \/ \E x : x.kind # "SETUP_ACK" /\ q = Append(chan[c], x)
        /\ \A hops : LET q == OutputAll(Taken(e), d, hops, p)[c]
                     IN q = chan[c] \/ \E x : x.kind # "SETUP_ACK" /\ q = Append(chan[c], x)
  <2> SUFFICES ASSUME NEW p, p.kind # "SETUP_ACK"
               PROVE  /\ \A dest : LET q == Output(Taken(e), d, dest, p)[c]
                                   IN q = chan[c] \/ \E x : x.kind # "SETUP_ACK" /\ q = Append(chan[c], x)
                      /\ \A hops : LET q == OutputAll(Taken(e), d, hops, p)[c]
                                   IN q = chan[c] \/ \E x : x.kind # "SETUP_ACK" /\ q = Append(chan[c], x)
    OBVIOUS
  <2> HIDE DEF d
  <2>1. ASSUME NEW dest
        PROVE  Output(Taken(e), d, dest, p)[c] \in {chan[c], Append(chan[c], p)}
    BY <1>2 DEF Output, Queued
  <2>2. ASSUME NEW hops
        PROVE  OutputAll(Taken(e), d, hops, p)[c] \in {chan[c], Append(chan[c], p)}
    BY <1>2 DEF OutputAll, Queued
  <2>3. QED
    BY <2>1, <2>2
<1>4. UNCHANGED parent
  BY DEF SubGatewaySetup, SubGatewayChildRm, SubGatewayDataAck, SubGatewayData
<1>5. ASSUME NEW p, p.kind # "SETUP_ACK",
             \/ \E dest : chan' = Output(Taken(e), d, dest, p)
             \/ \E hops : chan' = OutputAll(Taken(e), d, hops, p)
      PROVE  Quiet(c)
  BY <1>3, <1>4, <1>5 DEF Quiet
<1>6. CASE chan' = Taken(e)
  BY <1>2, <1>4, <1>6 DEF Quiet
<1>7. CASE SubGatewaySetup(e)
  <2>1. Control("RESPONSE", d, SUB_GATEWAY, NullAddr, UNICAST_GROUP).kind # "SETUP_ACK"
    BY DEF Control
  <2>2. QED
    BY <1>5, <1>6, <1>7, <2>1 DEF SubGatewaySetup
<1>8. CASE SubGatewayChildRm(e)
  <2>1. Control("CHILD_RM", d, NODE, m.addr, UNICAST_GROUP).kind # "SETUP_ACK"
    BY DEF Control
  <2>2. QED
    BY <1>5, <1>6, <1>8, <2>1 DEF SubGatewayChildRm, ForgetChild
<1>9. CASE SubGatewayDataAck(e)
  <2>1. Control("DATA_ACK", d, NODE, m.addr, UNICAST_GROUP).kind # "SETUP_ACK"
    BY DEF Control
  <2>2. QED
    BY <1>5, <1>6, <1>9, <2>1 DEF SubGatewayDataAck, PassAck
<1>10. CASE SubGatewayData(e)
  <2>1. TurnedRound(m).kind # "SETUP_ACK"
    BY <1>1, <1>10, TurnedKind DEF SubGatewayData, Receives
  <2>2. QED
    BY <1>5, <1>6, <1>10, <2>1 DEF SubGatewayData, Forwarded
<1>11. QED
  BY <1>7, <1>8, <1>9, <1>10

\* A sub-gateway that takes a gateway for its parent announces itself to it, and
\* to nobody else.
LEMMA OfferIntroduces ==
  ASSUME IInv, Roomy, NEW c \in Up, NEW e \in Channel, SubGatewayOffer(e)
  PROVE  Quiet(c) \/ Introduces(c) \/ Leaves(c)
<1> DEFINE d == e[2]
           m == Head(chan[e])
           ack == Control("SETUP_ACK", d, TypeOf(d), d, GroupOf[d])
<1>1. /\ d \in SubGateways /\ d \in Device /\ m.src \in Device
      /\ CheckParentSubGateway(d, Taken(e), m)
  <2>1. d \in SubGateways /\ d \in Device /\ m \in Packet
    BY ReceivesGenuine DEF IInv, SubGatewayOffer, PacketFrom
  <2>2. QED
    BY <2>1 DEF SubGatewayOffer, Packet
<1>2. /\ c \in Channel /\ c[3] = "unicast" /\ Taken(e)[c] = chan[c]
      /\ c[1] \in Device /\ c[2] \in Gateways
  BY <1>1, UpChannel, RolesAssumption
<1>3. parent \in [Device -> Parent]
  BY DEF IInv, AttachInv
<1> HIDE DEF d, m
<1>4. CASE chan' = Taken(e) /\ UNCHANGED parent
  BY <1>2, <1>4 DEF Quiet
<1>5. CASE Adopt(d, Taken(e), m.src, m.ntype)
  <2>1. chan' = Output(Taken(e), d, m.src, ack)
    BY <1>5 DEF Adopt
  <2>2. \A x \in Device : parent'[x].addr = IF x = d THEN m.src ELSE parent[x].addr
    BY <1>1, <1>3, <1>5 DEF Adopt
  <2>3. ack.kind = "SETUP_ACK" /\ ack.addr = d
    BY DEF Control
  <2> HIDE DEF ack
  <2>4. CASE c[1] = d /\ c[2] = m.src
    <3>1. Reaches(c, d, m.src) /\ Len(Taken(e)[c]) < QueueSize
      BY <1>1, <1>2, <2>4, RolesAssumption DEF Reaches, Roomy
    <3>2. chan'[c] = Append(chan[c], ack)
      BY <1>2, <2>1, <3>1, Delivered
    <3>3. QED
      BY <2>3, <2>4, <3>2 DEF Introduces
  <2>5. CASE ~(c[1] = d /\ c[2] = m.src)
    <3>1. ~Reaches(c, d, m.src)
      BY <1>1, <1>2, <2>5, RolesAssumption DEF Reaches
    <3>2. chan'[c] = chan[c]
      BY <1>2, <2>1, <3>1 DEF Output, Queued
    <3>3. QED
      BY <1>2, <2>2, <2>5, <3>2 DEF Quiet, Leaves
  <2>6. QED
    BY <2>4, <2>5
<1>6. QED
  BY <1>1, <1>4, <1>5 DEF CheckParentSubGateway

\* It only announces a child to its parent; the removal a child's move calls for
\* goes down.
LEMMA RegisterPasses ==
  ASSUME IInv, HopsBelow, NEW c \in Up, NEW e \in Channel, SubGatewaySetupAck(e)
  PROVE  Quiet(c) \/ Passes(c)
<1> DEFINE d == e[2]
           m == Head(chan[e])
           last == LastChild(SetChild(children[d], ChildOf(m)))
           ack == Control("SETUP_ACK", d, TypeOf(d), last.addr, last.group)
           after == AfterSetChild(d, Taken(e), m)
<1>1. d \in SubGateways /\ d \in Device
  BY ReceivesGenuine DEF IInv, SubGatewaySetupAck
<1>2. /\ c \in Channel /\ c[3] = "unicast" /\ Taken(e)[c] = chan[c]
      /\ c[1] \in Device /\ c[2] \in Gateways
  BY <1>1, UpChannel, RolesAssumption
<1>3. UNCHANGED parent /\ chan' = Output(after, d, parent[d].addr, ack)
  BY DEF SubGatewaySetupAck, RegisterChild
<1>4. after[c] = chan[c]
  <2>1. CASE ~Superseded(children[d], ChildOf(m))
    BY <1>2, <2>1 DEF AfterSetChild
  <2>2. CASE Superseded(children[d], ChildOf(m))
    <3> DEFINE hop == NextHop(children[d], m.addr)
    <3>1. hop \notin Gateways
      <4>1. Has(children[d], m.addr)
        BY <2>2 DEF Superseded, ChildOf
      <4>2. children[d] \in Seq(Child) /\ UniqueAddrs(children[d])
        BY <1>1 DEF IInv, TableInv, NoDuplicateChild
      <4>3. \E i \in DOMAIN children[d] : hop = children[d][i].from
        BY <4>1, <4>2, NextHopInTable
      <4>4. QED
        BY <1>1, <4>3 DEF HopsBelow
    <3>2. ~Reaches(c, d, hop)
      BY <1>2, <3>1 DEF Reaches
    <3>3. after = Output(Taken(e), d, hop, Control("CHILD_RM", d, NODE, m.addr, UNICAST_GROUP))
      BY <2>2 DEF AfterSetChild
    <3>4. QED
      BY <1>2, <3>2, <3>3 DEF Output, Queued
  <2>3. QED
    BY <2>1, <2>2
<1> HIDE DEF after, ack, d
<1>5. CASE Reaches(c, d, parent[d].addr)
  <2>1. parent[c[1]].addr = c[2]
    BY <1>2, <1>5 DEF Reaches
  <2>2. chan'[c] \in {chan[c], Append(chan[c], ack)}
    BY <1>2, <1>3, <1>4 DEF Output, Queued
  <2>3. QED
    BY <1>3, <2>1, <2>2 DEF Quiet, Passes
<1>6. CASE ~Reaches(c, d, parent[d].addr)
  <2>1. chan'[c] = chan[c]
    BY <1>2, <1>3, <1>4, <1>6 DEF Output, Queued
  <2>2. QED
    BY <1>3, <2>1 DEF Quiet
<1>7. QED
  BY <1>5, <1>6

\* A gateway registers whom a sub-gateway announces to it.
LEMMA GatewayArrives ==
  ASSUME IInv, NEW c \in Up, NEW e \in Channel,
         GatewaySetup(e) \/ GatewaySetupAck(e) \/ GatewayIgnore(e) \/ GatewayData(e)
  PROVE  Quiet(c) \/ Arrives(c)
<1> DEFINE gw == e[2]
           m == Head(chan[e])
<1>1. /\ gw \in Gateways /\ gw \in Device /\ chan[e] # <<>> /\ m \in PacketFrom(e[1]) /\ m \in Packet
  BY ReceivesGenuine DEF IInv, Receives, PacketFrom, GatewaySetup, GatewaySetupAck, GatewayIgnore, GatewayData
<1>2. c \in Channel /\ c[1] # gw /\ c[1] \in Device /\ c[1] \in SubGateways
  BY <1>1, UpChannel, RolesAssumption
<1>3. UNCHANGED parent
  BY DEF GatewaySetup, GatewaySetupAck, GatewayIgnore, GatewayData
<1>4. chan'[c] = Taken(e)[c]
  <2> HIDE DEF gw, m
  <2>1. \A p, dest : Output(Taken(e), gw, dest, p)[c] = Taken(e)[c]
    BY <1>2 DEF Output, Queued, Reaches
  <2>2. \/ chan' = Taken(e)
        \/ \E p, dest : chan' = Output(Taken(e), gw, dest, p)
    BY DEF GatewaySetup, GatewaySetupAck, GatewayIgnore, GatewayData, AcknowledgeVia, AfterSetChild, gw
  <2>3. QED
    BY <2>1, <2>2
<1>5. CASE e # c
  BY <1>3, <1>4, <1>5, UpChannel DEF Quiet
<1>6. CASE e = c
  <2>1. chan'[c] = Tail(chan[c]) /\ chan[c] # <<>>
    BY <1>1, <1>4, <1>6 DEF Taken, IInv, Channels
  <2>2. ASSUME m.kind = "SETUP_ACK"
        PROVE  Has(children'[gw], m.addr)
    <3>1. m.ntype = SUB_GATEWAY
      BY <1>1, <1>2, <1>6, <2>2, TypeOfRole DEF PacketFrom
    <3>2. GatewaySetupAck(e)
      BY <2>2, <3>1 DEF GatewaySetup, GatewayIgnore, GatewayData, Receives
    <3>3. Enters(gw, ChildOf(m)) /\ ChildOf(m) \in Child /\ ChildOf(m).addr = m.addr /\ TableInv
      BY <1>1, <2>2, <3>2 DEF GatewaySetupAck, Enters, ChildOf, Child, PacketFrom, Packet, IInv
    <3>4. QED
      BY <1>1, <3>3, SetChildEntries
  <2>3. QED
    BY <1>3, <1>6, <2>1, <2>2 DEF Arrives
<1>7. QED
  BY <1>5, <1>6

\* The loops, the commands and the losses elsewhere announce nothing.
LEMMA RestIsQuiet ==
  ASSUME IInv, NEW c \in Up,
         \/ \E d \in Device : Act(d)
         \/ \E gw \in Gateways : Command(gw)
         \/ \E e \in Channel \ Up : Lose(e)
         \/ UNCHANGED <<parent, chan>>
  PROVE  Quiet(c)
<1>1. c \in Channel
  BY UpChannel
<1>2. ASSUME NEW s, NEW p, p.kind # "SETUP_ACK",
             \/ \E dest : chan' = Output(chan, s, dest, p)
             \/ \E hops : chan' = OutputAll(chan, s, hops, p)
      PROVE  chan'[c] = chan[c] \/ \E x : x.kind # "SETUP_ACK" /\ chan'[c] = Append(chan[c], x)
  <2>1. chan'[c] \in {chan[c], Append(chan[c], p)}
    BY <1>1, <1>2 DEF Output, OutputAll, Queued
  <2>2. QED
    BY <1>2, <2>1
<1>3. ASSUME NEW d \in Device, Act(d)
      PROVE  Quiet(c)
  <2>1. /\ SetupOf(d).kind # "SETUP_ACK"
        /\ Data("DATA_UP", d, UNICAST_GROUP, "NOT_MOBILE").kind # "SETUP_ACK"
        /\ Data("DATA_UP", d, UNICAST_GROUP, "DATA_QUERY").kind # "SETUP_ACK"
    BY DEF SetupOf, Control, Data
  <2>2. CASE SendSetup(d)
    BY <1>2, <2>1, <2>2 DEF SendSetup, Quiet
  <2>3. CASE SendReport(d)
    BY <1>2, <2>1, <2>3 DEF SendReport, SendAcked, Quiet
  <2>4. CASE SendQuery(d)
    BY <1>2, <2>1, <2>4 DEF SendQuery, Quiet
  <2>5. QED
    BY <1>3, <2>2, <2>3, <2>4 DEF Act
<1>4. ASSUME NEW gw \in Gateways, Command(gw)
      PROVE  Quiet(c)
  <2>1. \A group : Data("DATA_DOWN", gw, group, "NOT_MOBILE").kind # "SETUP_ACK"
    BY DEF Data
  <2>2. CASE CommandAll(gw)
    <3> DEFINE p == Data("DATA_DOWN", gw, IRRIGATION_GROUP, "NOT_MOBILE")
    <3>1. /\ p.kind # "SETUP_ACK" /\ UNCHANGED parent
          /\ chan' = OutputAll(chan, gw, {barns[gw][i] : i \in DOMAIN barns[gw]}, p)
      BY <1>4, <2>1, <2>2 DEF CommandAll, Command
    <3> HIDE DEF p
    <3>2. QED
      BY <1>2, <3>1 DEF Quiet
  <2>3. ASSUME NEW i, NEW group, CommandOne(gw, i, group)
        PROVE  Quiet(c)
    <3> DEFINE p == Data("DATA_DOWN", gw, group, "NOT_MOBILE")
    <3>1. p.kind # "SETUP_ACK" /\ chan' = Output(chan, gw, BarnAddr(gw, i), p) /\ UNCHANGED parent
      BY <1>4, <2>1, <2>3 DEF CommandOne, Command
    <3> HIDE DEF p
    <3>2. QED
      BY <1>2, <3>1 DEF Quiet
  <2>4. QED
    BY <1>4, <2>2, <2>3 DEF Command
<1>5. ASSUME NEW e \in Channel \ Up, Lose(e)
      PROVE  Quiet(c)
  BY <1>5, UpChannel DEF Lose, Quiet
<1>6. CASE UNCHANGED <<parent, chan>>
  BY <1>6 DEF Quiet
<1>7. QED
  BY <1>3, <1>4, <1>5, <1>6

-------------------------------------------------------------------------------
(* The invariant of such a network *)

RoutedInv == RootedInv /\ (\A c \in Up : Introduced(c)) /\ BarnsHeld

\* The invariant of RoutingProofs holds here as well; and so does KnownInv.
LEMMA UndisturbedTyped ==
  ASSUME IInv, UndisturbedNext
  PROVE  IInv'
<1>1. BudgetInv'
  BY DEF UndisturbedNext, BudgetInv
<1>2. ASSUME NEW c \in Channel, Receive(c)
      PROVE  IInv'
  BY <1>2, NodeSteps, SubGatewaySteps, GatewaySteps, MobileSteps DEF Receive
<1>3. ASSUME NEW gw \in Gateways, Command(gw)
      PROVE  IInv'
  <2>1. chan \in Channels /\ gw \in Device
    BY DEF IInv, Device
  <2>2. \A group \in {LIGHT_BULB_GROUP, IRRIGATION_GROUP} :
          Data("DATA_DOWN", gw, group, "NOT_MOBILE") \in PacketFrom(gw)
    BY <2>1, DataFrom DEF LIGHT_BULB_GROUP, IRRIGATION_GROUP, Groups, Flags
  <2>3. CASE CommandAll(gw)
    <3>1. chan' \in Channels
      BY <2>1, <2>2, <2>3, OutputAllGenuine DEF CommandAll
    <3>2. QED
      BY <1>1, <1>3, <3>1, AttachUnchanged, TableUnchanged, BarnUnchanged, CounterUnchanged DEF Command, IInv
  <2>4. ASSUME NEW i, NEW group \in {LIGHT_BULB_GROUP, IRRIGATION_GROUP}, CommandOne(gw, i, group)
        PROVE  IInv'
    <3>1. chan' \in Channels
      BY <2>1, <2>2, <2>4, OutputGenuine DEF CommandOne
    <3>2. QED
      BY <1>1, <1>3, <3>1, AttachUnchanged, TableUnchanged, BarnUnchanged, CounterUnchanged DEF Command, IInv
  <2>5. QED
    BY <1>3, <2>3, <2>4 DEF Command
<1>4. CASE UNCHANGED <<setup, parent, children, data_counter, barns, chan>>
  BY <1>1, <1>4, AttachUnchanged, TableUnchanged, BarnUnchanged, CounterUnchanged DEF IInv
<1>5. QED
  BY <1>2, <1>3, <1>4, ProcessSteps, FaultSteps DEF UndisturbedNext

LEMMA UndisturbedKnown ==
  ASSUME IInv, KnownInv, UndisturbedNext
  PROVE  KnownInv'
<1>1. CASE UNCHANGED <<parent, children, barns, chan>>
  <2>1. Carries(chan', Told)
    BY <1>1 DEF KnownInv
  <2>2. QED
    BY <1>1, <2>1, KnownUnchanged
<1>2. QED
  BY <1>1, ReceiveKeepsKnown, RelayKeepsKnown DEF UndisturbedNext

\* The handlers, by what they are about.
LEMMA Handlers ==
  ASSUME NEW c, Receive(c)
  PROVE  \/ Relays(c)
         \/ NodeResponse(c) \/ MobileResponse(c) \/ SubGatewayOffer(c)
         \/ NodeSetupAck(c) \/ SubGatewaySetupAck(c) \/ MobileSetupAck(c)
         \/ GatewaySetupAck(c) \/ NodeChildRm(c) \/ SubGatewayChildRm(c)
BY DEF Receive, Relays

\* A gateway that does not restart forgets no child.
LEMMA GatewaysRemember ==
  ASSUME IInv, UndisturbedNext, NEW gw \in Gateways
  PROVE  \A a : Has(children[gw], a) => Has(children'[gw], a)
<1>0. TableInv /\ gw \in Device
  BY DEF IInv, Device
<1>1. CASE UNCHANGED children
  BY <1>1
<1>2. ASSUME NEW c \in Channel,
             NodeSetupAck(c) \/ SubGatewaySetupAck(c) \/ MobileSetupAck(c) \/ GatewaySetupAck(c)
      PROVE  \A a : Has(children[gw], a) => Has(children'[gw], a)
  <2> DEFINE d == c[2]
             child == ChildOf(Head(chan[c]))
  <2>1. d \in Device /\ Head(chan[c]) \in PacketFrom(c[1]) /\ Head(chan[c]).kind = "SETUP_ACK"
    <3>1. c \in Channel /\ chan \in Channels
      BY <1>2 DEF IInv
    <3>2. /\ chan[c] # <<>> /\ Head(chan[c]).kind = "SETUP_ACK"
      BY <1>2 DEF NodeSetupAck, SubGatewaySetupAck, MobileSetupAck, GatewaySetupAck, Receives
    <3>3. d \in Device
      BY <3>1, ChannelEnds
    <3>4. Head(chan[c]) \in PacketFrom(c[1])
      BY <3>1, <3>2, TakenGenuine
    <3>5. QED
      BY <3>2, <3>3, <3>4
  <2>2. child \in Child
    BY <2>1 DEF ChildOf, Child, PacketFrom, Packet
  <2>3. Enters(d, child)
    BY <1>2 DEF Enters, RegisterChild, NodeSetupAck, SubGatewaySetupAck, MobileSetupAck, GatewaySetupAck
  <2> HIDE DEF d, child
  <2>4. d \in Device
    BY <2>1 DEF d
  <2>5. QED
    BY <1>0, <2>2, <2>3, <2>4, SetChildEntries
<1>3. ASSUME NEW c \in Channel, NodeChildRm(c) \/ SubGatewayChildRm(c)
      PROVE  children'[gw] = children[gw]
  <2>1. c[2] # gw
    BY <1>3, RolesAssumption DEF NodeChildRm, SubGatewayChildRm, Receives
  <2>2. QED
    BY <1>0, <1>3, <2>1 DEF NodeChildRm, SubGatewayChildRm, ForgetChild, TableInv
<1>4. ASSUME NEW c \in Channel, NodeResponse(c) \/ MobileResponse(c) \/ SubGatewayOffer(c)
      PROVE  UNCHANGED children
  BY <1>4 DEF NodeResponse, MobileResponse, SubGatewayOffer
<1>5. QED
  BY <1>1, <1>2, <1>3, <1>4, Handlers, RelaysUnchanged DEF UndisturbedNext

\* Every step, for every channel to a gateway.
LEMMA StaysIntroduced ==
  ASSUME IInv, KnownInv, Roomy, UndisturbedNext, NEW c \in Up, Introduced(c)
  PROVE  Introduced(c)'
<1>1. Quiet(c) \/ Introduces(c) \/ Leaves(c) \/ Passes(c) \/ Arrives(c)
  <2>1. ASSUME NEW e \in Channel, Receive(e)
        PROVE  Quiet(c) \/ Introduces(c) \/ Leaves(c) \/ Passes(c) \/ Arrives(c)
    <3>1. CASE \/ NodeSetup(e) \/ NodeResponse(e) \/ NodeSetupAck(e) \/ NodeChildRm(e)
               \/ NodeDataAck(e) \/ NodeData(e)
               \/ MobileResponse(e) \/ MobileSetupAck(e) \/ MobileDataAck(e) \/ MobileIgnore(e)
      BY <3>1, BelowIsQuiet
    <3>2. CASE SubGatewaySetup(e) \/ SubGatewayChildRm(e) \/ SubGatewayDataAck(e) \/ SubGatewayData(e)
      BY <3>2, SubGatewayIsQuiet
    <3>3. CASE SubGatewayOffer(e)
      BY <3>3, OfferIntroduces
    <3>4. CASE SubGatewaySetupAck(e)
      BY <3>4, RegisterPasses DEF KnownInv
    <3>5. CASE GatewaySetup(e) \/ GatewaySetupAck(e) \/ GatewayIgnore(e) \/ GatewayData(e)
      BY <3>5, GatewayArrives
    <3>6. QED
      BY <2>1, <3>1, <3>2, <3>3, <3>4, <3>5 DEF Receive
  <2>2. QED
    BY <2>1, RestIsQuiet DEF UndisturbedNext
<1>2. Has(children[c[2]], c[1]) => Has(children'[c[2]], c[1])
  BY GatewaysRemember, UpChannel
<1>3. chan[c] \in Seq(Packet)
  BY UpChannel
<1>4. QED
  BY <1>1, <1>2, <1>3, IntroducedKept

\* A new barn has announced itself first.
LEMMA BarnsStayHeld ==
  ASSUME IInv, RoutedInv, UndisturbedNext
  PROVE  BarnsHeld'
<1>1. BarnsHeld /\ barns \in [Gateways -> Seq(Device)]
  BY DEF RoutedInv, IInv, BarnInv
<1>2. CASE UNCHANGED barns
  BY <1>1, <1>2, GatewaysRemember DEF BarnsHeld
<1>3. ASSUME NEW c \in Channel, GatewaySetupAck(c)
      PROVE  BarnsHeld'
  <2> DEFINE gw == c[2]
             m == Head(chan[c])
             last == LastChild(SetChild(children[gw], ChildOf(m)))
  <2>1. /\ gw \in Gateways /\ m \in Packet /\ m \in PacketFrom(c[1]) /\ m \in Rooted(Attached)[c]
        /\ c[1] \in Device /\ m.kind = "SETUP_ACK" /\ chan[c] # <<>>
    BY <1>3, ReceivesCarries DEF RoutedInv, RootedInv, GatewaySetupAck, Receives
  <2>2. c \in Up /\ m.src = c[1]
    <3>1. m.ntype = SUB_GATEWAY /\ m.ntype = TypeOf(c[1]) /\ m.src = c[1] /\ c[3] = "unicast"
      BY <1>3, <2>1 DEF GatewaySetupAck, PacketFrom, Rooted
    <3>2. QED
      BY <2>1, <3>1, TypeOfRole DEF Up
  <2>3. Has(children'[gw], c[1])
    <3>1. Introduced(c)
      BY <2>2 DEF RoutedInv
    <3>2. CASE Has(children[gw], c[1])
      BY <2>1, <3>2, GatewaysRemember
    <3>3. CASE ~Has(children[gw], c[1])
      <4>1. m.addr = c[1]
        <5>1. chan[c] \in Seq(Packet) /\ chan[c] # <<>> /\ Led(chan[c], c[1])
          BY <2>1, <2>2, <3>1, <3>3, UpChannel DEF Introduced
        <5>2. QED
          BY <2>1, <5>1, LedTail
      <4>2. Enters(gw, ChildOf(m)) /\ ChildOf(m) \in Child /\ ChildOf(m).addr = m.addr
        BY <1>3, <2>1 DEF GatewaySetupAck, Enters, ChildOf, Child, PacketFrom, Packet
      <4>3. TableInv /\ gw \in Device
        BY <2>1 DEF IInv, Device
      <4>4. QED
        BY <4>1, <4>2, <4>3, SetChildEntries
    <3>4. QED
      BY <3>2, <3>3
  <2>4. barns' = [barns EXCEPT ![gw] = BarnsWith(barns[gw], last, c[1])]
    BY <1>3, <2>2 DEF GatewaySetupAck
  <2>5. \A i \in DOMAIN barns'[gw] : barns'[gw][i] = c[1] \/ \E j \in DOMAIN barns[gw] : barns'[gw][i] = barns[gw][j]
    <3> DEFINE q == barns[gw]
    <3>1. q \in Seq(Device) /\ barns'[gw] \in {q, Append(q, c[1])}
      BY <1>1, <2>1, <2>4 DEF BarnsWith
    <3> HIDE DEF q
    <3>2. \A i \in DOMAIN Append(q, c[1]) : Append(q, c[1])[i] = c[1] \/ (i \in DOMAIN q /\ Append(q, c[1])[i] = q[i])
      BY <2>1, <3>1, AppendProperties, LenProperties
    <3>3. QED
      BY <3>1, <3>2 DEF q
  <2>6. \A h \in Gateways : h # gw => barns'[h] = barns[h]
    BY <1>1, <2>4
  <2> HIDE DEF gw, last, m
  <2>7. ASSUME NEW h \in Gateways, NEW i \in DOMAIN barns'[h]
        PROVE  Has(children'[h], barns'[h][i])
    <3>1. CASE \E j \in DOMAIN barns[h] : barns'[h][i] = barns[h][j]
      BY <1>1, <3>1, GatewaysRemember DEF BarnsHeld
    <3>2. CASE h = gw /\ barns'[h][i] = c[1]
      BY <2>3, <3>2
    <3>3. QED
      BY <2>5, <2>6, <2>7, <3>1, <3>2
  <2>8. QED
    BY <2>7 DEF BarnsHeld
<1>4. ASSUME NEW c \in Channel, Receive(c), ~GatewaySetupAck(c)
      PROVE  UNCHANGED barns
  BY <1>4, Handlers, RelaysUnchanged
     DEF NodeResponse, MobileResponse, SubGatewayOffer, NodeSetupAck, SubGatewaySetupAck, MobileSetupAck,
         NodeChildRm, SubGatewayChildRm
<1>5. QED
  BY <1>2, <1>3, <1>4, RelaysUnchanged DEF UndisturbedNext

\* The three parts together.
LEMMA UndisturbedRouted ==
  ASSUME IInv, KnownInv, RoutedInv, Roomy, UndisturbedNext
  PROVE  RoutedInv'
<1>1. RootedInv'
  BY UndisturbedRooted DEF RoutedInv
<1>2. ASSUME NEW c \in Up
      PROVE  Introduced(c)'
  BY StaysIntroduced DEF RoutedInv
<1>3. BarnsHeld'
  BY BarnsStayHeld
<1>4. QED
  BY <1>1, <1>2, <1>3 DEF RoutedInv, Up

LEMMA InitRouted == Init => RoutedInv
<1> SUFFICES ASSUME Init
             PROVE  RoutedInv
  OBVIOUS
<1>1. ASSUME NEW c \in Up
      PROVE  Introduced(c)
  <2>1. chan[c] = <<>> /\ parent[c[1]].addr # c[2]
    BY RolesAssumption DEF Init, Up, NoParent, Channel, Device
  <2>2. DOMAIN <<>> = {}
    OBVIOUS
  <2>3. QED
    BY <2>1, <2>2 DEF Introduced, Led
<1>2. BarnsHeld
  BY DEF Init, BarnsHeld
<1>3. QED
  BY <1>1, <1>2, InitRooted DEF RoutedInv

\* Under any specification whose steps are those of an undisturbed network.
LEMMA UndisturbedInvariance ==
  Init /\ [][UndisturbedNext]_vars /\ []Roomy => [](IInv /\ KnownInv /\ RoutedInv)
<1> DEFINE I == IInv /\ KnownInv /\ RoutedInv
<1>1. Init => I
  BY InitIInv, InitKnown, InitRouted
<1>2. I /\ Roomy /\ [UndisturbedNext]_vars => I'
  <2> SUFFICES ASSUME IInv, KnownInv, RoutedInv, Roomy, [UndisturbedNext]_vars
               PROVE  IInv' /\ KnownInv' /\ RoutedInv'
    OBVIOUS
  <2>1. UndisturbedNext
    BY DEF UndisturbedNext, vars, IInv, BudgetInv
  <2>2. QED
    BY <2>1, UndisturbedTyped, UndisturbedKnown, UndisturbedRouted
<1> HIDE DEF I
<1>3. Init /\ [][UndisturbedNext]_vars /\ []Roomy => []I
  BY <1>1, <1>2, PTL
<1>4. QED
  BY <1>3 DEF I

\* The entries of the barns' sub-gateways are direct.
LEMMA RoutedBarns == IInv /\ KnownInv /\ RoutedInv => BarnRouted
<1> SUFFICES ASSUME IInv, KnownInv, RoutedInv, NEW gw \in Gateways, NEW i \in DOMAIN barns[gw]
             PROVE  /\ Has(children[gw], barns[gw][i])
                    /\ NextHop(children[gw], barns[gw][i]) = barns[gw][i]
  BY DEF BarnRouted
<1> DEFINE b == barns[gw][i]
           table == children[gw]
<1>1. Has(table, b) /\ b \in SubGateways /\ gw \in Device
  BY DEF RoutedInv, BarnsHeld, IInv, BarnInv, BarnsDistinct, Device
<1>2. table \in Seq(Child) /\ UniqueAddrs(table)
  BY <1>1 DEF IInv, TableInv, NoDuplicateChild
<1>3. \A k \in DOMAIN table : table[k].addr \in SubGateways => table[k].from = table[k].addr
  BY <1>1 DEF KnownInv, SubGatewaysDirect
<1> HIDE DEF b, table
<1>4. IndexOf(table, b) \in DOMAIN table /\ table[IndexOf(table, b)].addr = b
  BY <1>1, <1>2, IndexOfFound
<1>5. NextHop(table, b) = b
  BY <1>1, <1>3, <1>4 DEF NextHop
<1>6. QED
  BY <1>1, <1>5 DEF b, table

\* Nothing is ever lost and nobody ever restarts.
Calm == budget \in [Stimuli -> Int] /\ budget["losses"] = 0 /\ budget["reboots"] = 0

LEMMA ReceiveSpendsNothing == ASSUME NEW c, Receive(c) PROVE UNCHANGED budget
BY DEF Receive, NodeSetup, NodeResponse, NodeSetupAck, NodeChildRm, NodeDataAck, NodeData,
       SubGatewaySetup, SubGatewayOffer, SubGatewaySetupAck, SubGatewayChildRm, SubGatewayDataAck,
       SubGatewayData, GatewaySetup, GatewaySetupAck, GatewayIgnore, GatewayData,
       MobileResponse, MobileSetupAck, MobileDataAck, MobileIgnore

\* A budget without losses and restarts has neither, ever.
LEMMA CalmNext == Calm /\ [Next]_vars => Calm' /\ [UndisturbedNext]_vars
<1> SUFFICES ASSUME Calm, [Next]_vars
             PROVE  Calm' /\ [UndisturbedNext]_vars
  OBVIOUS
<1>1. ASSUME NEW x \in Stimuli, Spend(x)
      PROVE  Calm'
  BY <1>1 DEF Calm, Spend
<1>2. ASSUME UNCHANGED budget
      PROVE  Calm'
  BY <1>2 DEF Calm
<1>3. CASE \E c \in Channel : Receive(c)
  <2>1. UNCHANGED budget
    BY <1>3, ReceiveSpendsNothing
  <2>2. QED
    BY <1>2, <1>3, <2>1 DEF UndisturbedNext, Calm
<1>4. CASE \E d \in Device : Act(d)
  <2>1. Calm'
    BY <1>1, <1>4 DEF Act, SendSetup, SendReport, SendQuery, Stimuli
  <2>2. QED
    BY <1>4, <2>1 DEF UndisturbedNext, Calm
<1>5. CASE \E gw \in Gateways : CommandBarn(gw) \/ IrrigateAll(gw)
  <2>1. Calm'
    BY <1>1, <1>5 DEF CommandBarn, IrrigateAll, Stimuli
  <2>2. \E gw \in Gateways : Command(gw)
    BY <1>5 DEF Command, CommandBarn, IrrigateAll
  <2>3. QED
    BY <2>1, <2>2 DEF UndisturbedNext, Calm
<1>6. CASE UNCHANGED vars
  BY <1>2, <1>6 DEF vars
<1>7. ~ \E c \in Channel : Lose(c)
  BY DEF Lose, Spend, Calm
<1>8. ~ \E d \in Device : Reboot(d)
  BY DEF Reboot, Spend, Calm
<1>9. QED
  BY <1>3, <1>4, <1>5, <1>6, <1>7, <1>8 DEF Next

LEMMA CalmInvariance ==
  ASSUME Budget["losses"] = 0, Budget["reboots"] = 0
  PROVE  Spec /\ []Roomy => [](IInv /\ KnownInv /\ RoutedInv)
<1>1. Init => Calm
  BY SizeAssumption DEF Init, Calm
<1>2. QED
  BY <1>1, CalmNext, UndisturbedInvariance, PTL DEF Spec

\* Every barn number leads to a sub-gateway: the gateway (its SETUP_ACK branch)
\* gives a number to the sender of any SETUP_ACK that leaves a direct child at the
\* end of the table, whoever it is about.  That this only happens to a
\* sub-gateway the gateway already has, or just got, in its table is because a
\* sub-gateway announces itself before anything else: in a network that loses
\* nothing, where nobody restarts and no queue towards a gateway is full.
THEOREM BarnsRouted ==
  ASSUME Budget["losses"] = 0, Budget["reboots"] = 0
  PROVE  Spec /\ []Roomy => []BarnRouted
BY CalmInvariance, RoutedBarns, PTL
===============================================================================
