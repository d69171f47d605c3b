---------------------------- MODULE RoutingProofs -----------------------------
(***************************************************************************)
(* Safety of Routing for every network, radio graph and budget, whatever   *)
(* is lost and whoever reboots.                                            *)
(*                                                                         *)
(* The invariants are proved together, as IInv: a parent is accepted, and  *)
(* an entry put in a table, on the word of the packet at the head of a     *)
(* channel, so what the tables hold is only known if every packet under    *)
(* way is genuine (ControlGenuine) and typed.                              *)
(***************************************************************************)
EXTENDS Routing, ChildTableProofs

\* What a device s may put on the air.
PacketFrom(s) ==
  {p \in Packet :
     /\ p.kind \notin {"DATA_UP", "DATA_DOWN"} => p.src = s
     /\ p.kind \in {"SETUP", "RESPONSE", "SETUP_ACK"} => p.ntype = TypeOf(s)
     /\ p.kind = "RESPONSE" => s \notin Mobiles
     /\ p.kind = "SETUP_ACK" => p.addr \in Device}

Channels ==
  {ch \in [Channel -> Seq(Packet)] :
     \A c \in Channel : \A i \in DOMAIN ch[c] : ch[c][i] \in PacketFrom(c[1])}

\* The inductive invariant, one part per variable or group of variables.
AttachInv ==
  /\ setup \in [Device -> {0, 1}]
  /\ parent \in [Device -> Parent]
  /\ ParentRole
TableInv ==
  /\ children \in [Device -> Seq(Child)]
  /\ NoDuplicateChild
  /\ NextHopHeard
BarnInv ==
  /\ barns \in [Gateways -> Seq(Device)]
  /\ BarnsDistinct
CounterInv == data_counter \in [Device -> 0..(CounterSize - 1)]
BudgetInv == budget \in [Stimuli -> Int]

IInv == AttachInv /\ TableInv /\ BarnInv /\ CounterInv /\ BudgetInv /\ chan \in Channels

-------------------------------------------------------------------------------
(* Roles, packets, channels *)

\* A role determines the type a device announces, and the other way round.
LEMMA TypeOfRole ==
  ASSUME NEW d \in Device
  PROVE  /\ TypeOf(d) \in {NODE, SUB_GATEWAY, GATEWAY}
         /\ TypeOf(d) = GATEWAY <=> d \in Gateways
         /\ TypeOf(d) = SUB_GATEWAY <=> d \in SubGateways
         /\ TypeOf(d) = NODE <=> d \in Nodes \cup Mobiles
BY RolesAssumption DEF TypeOf, NODE, SUB_GATEWAY, GATEWAY, Device

\* The ends of a channel are devices, the second of which hears the first.
LEMMA ChannelEnds ==
  ASSUME NEW c \in Channel
  PROVE  c[1] \in Device /\ c[2] \in Device /\ <<c[1], c[2]>> \in Link
BY DEF Channel

\* A control packet a device builds about a device is one it may send.
LEMMA ControlFrom ==
  ASSUME NEW s \in Device, NEW a \in Device \cup {NullAddr}, NEW group \in Groups,
         NEW kind \in {"SETUP", "RESPONSE", "SETUP_ACK", "DATA_ACK", "CHILD_RM"},
         NEW ntype \in {NODE, SUB_GATEWAY, GATEWAY},
         kind \in {"SETUP", "RESPONSE", "SETUP_ACK"} => ntype = TypeOf(s),
         kind = "RESPONSE" => s \notin Mobiles,
         kind = "SETUP_ACK" => a \in Device
  PROVE  Control(kind, s, ntype, a, group) \in PacketFrom(s)
BY DEF Control, PacketFrom, Packet, Kinds, Flags

\* A SETUP is one its sender may send.
LEMMA SetupFrom == ASSUME NEW d \in Device PROVE SetupOf(d) \in PacketFrom(d)
BY TypeOfRole, ControlFrom DEF SetupOf, UNICAST_GROUP, Groups

\* A data packet may be sent by anyone, its origin or a relay.
LEMMA DataFrom ==
  ASSUME NEW s, NEW o \in Device, NEW group \in Groups, NEW flag \in Flags,
         NEW kind \in {"DATA_UP", "DATA_DOWN"}
  PROVE  Data(kind, o, group, flag) \in PacketFrom(s)
BY DEF Data, PacketFrom, Packet, Kinds, NODE

\* Whoever relays a data packet may send it.
LEMMA RelayFrom ==
  ASSUME NEW s, NEW t, NEW m \in PacketFrom(t), m.kind \in {"DATA_UP", "DATA_DOWN"}
  PROVE  m \in PacketFrom(s)
BY DEF PacketFrom

\* Queueing what s may send on channels of s leaves the channels genuine.
LEMMA QueuedGenuine ==
  ASSUME NEW ch \in Channels, NEW s, NEW m \in PacketFrom(s),
         NEW C, \A c \in C : c[1] = s
  PROVE  Queued(ch, C, m) \in Channels
<1> DEFINE Q == Queued(ch, C, m)
<1>1. ASSUME NEW c \in Channel
      PROVE  Q[c] \in Seq(Packet) /\ \A i \in DOMAIN Q[c] : Q[c][i] \in PacketFrom(c[1])
  <2>1. ch[c] \in Seq(Packet) /\ \A i \in DOMAIN ch[c] : ch[c][i] \in PacketFrom(c[1])
    BY DEF Channels
  <2>2. CASE c \in C /\ Len(ch[c]) < QueueSize
    <3>1. Q[c] = Append(ch[c], m)
      BY <2>2 DEF Queued
    <3>2. m \in Packet /\ c[1] = s
      BY <2>2 DEF PacketFrom
    <3> DEFINE q == ch[c]
    <3>3. q \in Seq(Packet)
      BY <2>1
    <3> HIDE DEF q
    <3>4. /\ Append(q, m) \in Seq(Packet)
          /\ DOMAIN Append(q, m) = 1..(Len(q) + 1)
          /\ \A i \in 1..Len(q) : Append(q, m)[i] = q[i]
          /\ Append(q, m)[Len(q) + 1] = m
          /\ DOMAIN q = 1..Len(q) /\ Len(q) \in Nat
      BY <3>2, <3>3, AppendProperties, LenProperties
    <3>5. \A i \in DOMAIN Append(q, m) : i \in DOMAIN q \/ i = Len(q) + 1
      BY <3>4
    <3>6. \A i \in DOMAIN Append(q, m) : Append(q, m)[i] \in PacketFrom(c[1])
      BY <2>1, <3>2, <3>4, <3>5 DEF q
    <3>7. QED
      BY <3>1, <3>4, <3>6 DEF q
  <2>3. CASE ~(c \in C /\ Len(ch[c]) < QueueSize)
    BY <2>1, <2>3 DEF Queued
  <2>4. QED
    BY <2>2, <2>3
<1>2. Q = [c \in Channel |-> Q[c]]
  BY DEF Queued
<1>3. QED
  BY <1>1, <1>2 DEF Channels

\* A frame sent to one address leaves the channels genuine.
LEMMA OutputGenuine ==
  ASSUME NEW ch \in Channels, NEW s, NEW m \in PacketFrom(s), NEW dest
  PROVE  Output(ch, s, dest, m) \in Channels
BY QueuedGenuine DEF Output, Reaches

\* So does a packet sent to several next hops.
LEMMA OutputAllGenuine ==
  ASSUME NEW ch \in Channels, NEW s, NEW m \in PacketFrom(s), NEW hops
  PROVE  OutputAll(ch, s, hops, m) \in Channels
BY QueuedGenuine DEF OutputAll, Reaches

\* The packet taken from a channel is one its first end may send.
LEMMA TakenGenuine ==
  ASSUME chan \in Channels, NEW c \in Channel, chan[c] # <<>>
  PROVE  Taken(c) \in Channels /\ Head(chan[c]) \in PacketFrom(c[1])
<1> DEFINE q == chan[c]
<1>1. q \in Seq(Packet) /\ q # <<>> /\ \A i \in DOMAIN q : q[i] \in PacketFrom(c[1])
  BY DEF Channels
<1>2. Tail(q) \in Seq(Packet) /\ Head(q) = q[1] /\ 1 \in DOMAIN q
      /\ \A i \in DOMAIN Tail(q) : i + 1 \in DOMAIN q /\ Tail(q)[i] = q[i + 1]
  <2> HIDE DEF q
  <2>1. q \in Seq(Packet) /\ q # <<>>
    BY <1>1
  <2>2. QED
    BY <2>1, HeadTailProperties, LenProperties
<1>3. \A i \in DOMAIN Tail(q) : Tail(q)[i] \in PacketFrom(c[1])
  BY <1>1, <1>2
<1>4. Taken(c) = [e \in Channel |-> IF e = c THEN Tail(q) ELSE chan[e]]
  BY DEF Taken, Channels
<1> DEFINE T == [e \in Channel |-> IF e = c THEN Tail(q) ELSE chan[e]]
<1>5. ASSUME NEW e \in Channel
      PROVE  T[e] \in Seq(Packet) /\ \A i \in DOMAIN T[e] : T[e][i] \in PacketFrom(e[1])
  <2>1. CASE e = c
    BY <1>2, <1>3, <2>1
  <2>2. CASE e # c
    BY <2>2 DEF Channels
  <2>3. QED
    BY <2>1, <2>2
<1>6. T \in Channels
  <2>1. T = [e \in Channel |-> T[e]]
    OBVIOUS
  <2> HIDE DEF T
  <2>2. QED
    BY <1>5, <2>1 DEF Channels
<1>7. QED
  BY <1>1, <1>2, <1>4, <1>6

-------------------------------------------------------------------------------
(* The functions shared by the handlers *)

\* A parent that may serve d, adopted with its true type, keeps AttachInv.
LEMMA AdoptKeeps ==
  ASSUME AttachInv, NEW d \in Device, NEW p \in Device, <<p, d>> \in Link,
         NEW ch \in Channels, NEW ntype, ntype = TypeOf(p),
         \/ d \in SubGateways /\ p \in Gateways
         \/ d \in Nodes \cup Mobiles /\ p \in SubGateways \cup Nodes,
         Adopt(d, ch, p, ntype)
  PROVE  AttachInv' /\ chan' \in Channels
<1>1. ntype \in {NODE, SUB_GATEWAY, GATEWAY} /\ RSSI[<<p, d>>] \in -128..127
  BY TypeOfRole, RadioAssumption
<1>2. setup' \in [Device -> {0, 1}]
  BY DEF AttachInv, Adopt
<1>3. parent' \in [Device -> Parent]
  BY <1>1 DEF AttachInv, Adopt, Parent
<1>4. ParentRole'
  <2> SUFFICES ASSUME NEW e \in Device, setup'[e] = 1
               PROVE  LET q == parent'[e].addr
                      IN /\ <<q, e>> \in Link
                         /\ parent'[e].type = TypeOf(q) /\ parent'[e].rssi = RSSI[<<q, e>>]
                         /\ \/ e \in SubGateways /\ q \in Gateways
                            \/ e \in Nodes \cup Mobiles /\ q \in SubGateways \cup Nodes
    BY DEF ParentRole
  <2>1. CASE e = d
    <3>1. parent'[e] = [addr |-> p, type |-> ntype, rssi |-> RSSI[<<p, d>>]]
      BY <2>1 DEF AttachInv, Adopt
    <3>2. QED
      BY <2>1, <3>1
  <2>2. CASE e # d
    <3>1. parent'[e] = parent[e] /\ setup'[e] = setup[e]
      BY <2>2 DEF AttachInv, Adopt
    <3>2. QED
      BY <3>1 DEF AttachInv, ParentRole
  <2>3. QED
    BY <2>1, <2>2
<1>5. chan' \in Channels
  <2>1. GroupOf[d] \in Groups /\ TypeOf(d) \in {NODE, SUB_GATEWAY, GATEWAY}
    BY GroupAssumption, TypeOfRole
  <2>2. Control("SETUP_ACK", d, TypeOf(d), d, GroupOf[d]) \in PacketFrom(d)
    BY <2>1, ControlFrom
  <2>3. QED
    BY <2>2, OutputGenuine DEF Adopt
<1>6. QED
  BY <1>2, <1>3, <1>4, <1>5 DEF AttachInv

\* An answer to a node or mobile comes from a sub-gateway or a node.
LEMMA CheckNodeKeeps ==
  ASSUME AttachInv, NEW d \in Nodes \cup Mobiles, NEW p \in Device, <<p, d>> \in Link,
         NEW ch \in Channels, NEW m \in PacketFrom(p), m.kind = "RESPONSE",
         CheckParentNode(d, ch, m)
  PROVE  AttachInv' /\ chan' \in Channels
<1>1. m.src = p /\ m.ntype = TypeOf(p) /\ p \notin Mobiles
  BY DEF PacketFrom
<1>2. CASE m.ntype # GATEWAY /\ Adopt(d, ch, m.src, m.ntype)
  <2>1. p \in SubGateways \cup Nodes
    BY <1>1, <1>2, TypeOfRole DEF Device
  <2>2. QED
    BY <1>1, <1>2, <2>1, AdoptKeeps DEF Device
<1>3. CASE chan' = ch /\ UNCHANGED <<parent, setup>>
  BY <1>3 DEF AttachInv, ParentRole
<1>4. QED
  BY <1>2, <1>3 DEF CheckParentNode

\* A sub-gateway only takes a gateway's word.
LEMMA CheckSubGatewayKeeps ==
  ASSUME AttachInv, NEW d \in SubGateways, NEW p \in Device, <<p, d>> \in Link,
         NEW ch \in Channels, NEW m \in PacketFrom(p), m.kind \in {"SETUP", "RESPONSE"},
         CheckParentSubGateway(d, ch, m)
  PROVE  AttachInv' /\ chan' \in Channels
<1>1. m.src = p /\ m.ntype = TypeOf(p)
  BY DEF PacketFrom
<1>2. CASE m.ntype = GATEWAY /\ Adopt(d, ch, m.src, m.ntype)
  <2>1. p \in Gateways
    BY <1>1, <1>2, TypeOfRole
  <2>2. QED
    BY <1>1, <1>2, <2>1, AdoptKeeps DEF Device
<1>3. CASE chan' = ch /\ UNCHANGED <<parent, setup>>
  BY <1>3 DEF AttachInv, ParentRole
<1>4. QED
  BY <1>2, <1>3 DEF CheckParentSubGateway

\* A SETUP_ACK leaves a table of distinct devices behind heard next hops.
LEMMA SetChildKeepsTables ==
  ASSUME TableInv, NEW d \in Device, NEW p \in Device, <<p, d>> \in Link,
         d \in Gateways => p \in SubGateways,
         NEW m \in PacketFrom(p), m.kind = "SETUP_ACK",
         children' = [children EXCEPT ![d] = SetChild(children[d], ChildOf(m))]
  PROVE  /\ TableInv'
         /\ LastChild(SetChild(children[d], ChildOf(m))) \in Child
<1> DEFINE old == children[d]
           new == SetChild(old, ChildOf(m))
<1>1. ChildOf(m) \in Child /\ ChildOf(m).from = p
  BY DEF PacketFrom, Packet, ChildOf, Child
<1>2. old \in Seq(Child) /\ UniqueAddrs(old)
  BY DEF TableInv, NoDuplicateChild
<1>3. /\ new \in Seq(Child) /\ new # <<>> /\ UniqueAddrs(new)
      /\ \A i \in DOMAIN new : new[i] = ChildOf(m) \/ \E j \in DOMAIN old : new[i] = old[j]
  <2> HIDE DEF old
  <2>1. QED
    BY <1>1, <1>2, SetChildKeeps
<1>4. children' = [children EXCEPT ![d] = new]
  OBVIOUS
<1>5. LastChild(new) \in Child
  <2> HIDE DEF new
  <2>1. Len(new) \in 1..Len(new)
    BY <1>3, EmptySeq, LenProperties
  <2>2. QED
    BY <1>3, <2>1, ElementOfSeq DEF LastChild
<1> HIDE DEF new
<1>6. \A e \in Device : children'[e] = IF e = d THEN new ELSE children[e]
  BY <1>4 DEF TableInv
<1>7. children' \in [Device -> Seq(Child)]
  BY <1>3, <1>4 DEF TableInv
<1>8. NoDuplicateChild'
  BY <1>3, <1>6 DEF TableInv, NoDuplicateChild
<1>9. NextHopHeard'
  <2> SUFFICES ASSUME NEW e \in Device, NEW i \in DOMAIN children'[e]
               PROVE  /\ <<children'[e][i].from, e>> \in Link
                      /\ e \in Gateways => children'[e][i].from \in SubGateways
    BY DEF NextHopHeard
  <2>1. CASE e # d
    BY <1>6, <2>1 DEF TableInv, NextHopHeard
  <2>2. CASE e = d
    <3>1. CASE new[i] = ChildOf(m)
      BY <1>1, <1>6, <2>2, <3>1
    <3>2. CASE \E j \in DOMAIN old : new[i] = old[j]
      BY <1>6, <2>2, <3>2 DEF TableInv, NextHopHeard
    <3>3. QED
      BY <1>3, <1>6, <2>2, <3>1, <3>2
  <2>3. QED
    BY <2>1, <2>2
<1>10. QED
  BY <1>5, <1>7, <1>8, <1>9 DEF TableInv, new

\* The CHILD_RM that follows is genuine.
LEMMA AfterSetChildGenuine ==
  ASSUME NEW d \in Device, NEW ch \in Channels, NEW p, NEW m \in PacketFrom(p)
  PROVE  AfterSetChild(d, ch, m) \in Channels
<1>1. m.addr \in Device \cup {NullAddr}
  BY DEF PacketFrom, Packet
<1>2. Control("CHILD_RM", d, NODE, m.addr, UNICAST_GROUP) \in PacketFrom(d)
  BY <1>1, ControlFrom DEF UNICAST_GROUP, Groups
<1>3. QED
  BY <1>2, OutputGenuine DEF AfterSetChild

\* What a SETUP_ACK makes a relay send is genuine, too.
LEMMA RegisterKeeps ==
  ASSUME TableInv, NEW d \in Device \ Gateways, NEW p \in Device, <<p, d>> \in Link,
         NEW ch \in Channels, NEW m \in PacketFrom(p), m.kind = "SETUP_ACK",
         RegisterChild(d, ch, m)
  PROVE  TableInv' /\ chan' \in Channels
<1> DEFINE last == LastChild(SetChild(children[d], ChildOf(m)))
<1>1. TableInv' /\ last \in Child
  BY SetChildKeepsTables DEF RegisterChild
<1>2. chan' = Output(AfterSetChild(d, ch, m), d, parent[d].addr,
                     Control("SETUP_ACK", d, TypeOf(d), last.addr, last.group))
  BY DEF RegisterChild
<1> HIDE DEF last
<1>3. last.addr \in Device /\ last.group \in Groups
  BY <1>1 DEF Child
<1>4. Control("SETUP_ACK", d, TypeOf(d), last.addr, last.group) \in PacketFrom(d)
  BY <1>3, ControlFrom, TypeOfRole
<1>5. QED
  BY <1>1, <1>2, <1>4, AfterSetChildGenuine, OutputGenuine

\* A CHILD_RM only drops entries.
LEMMA ForgetKeeps ==
  ASSUME TableInv, NEW d \in Device, NEW ch \in Channels, NEW p, NEW m \in PacketFrom(p),
         ForgetChild(d, ch, m)
  PROVE  TableInv' /\ chan' \in Channels
<1> DEFINE old == children[d]
           new == RemoveChild(old, m.addr)
<1>1. children' = [children EXCEPT ![d] = new]
  BY DEF ForgetChild, TableInv
<1>2. old \in Seq(Child) /\ UniqueAddrs(old)
  BY DEF TableInv, NoDuplicateChild
<1>3. /\ new \in Seq(Child) /\ UniqueAddrs(new)
      /\ \A i \in DOMAIN new : \E j \in DOMAIN old : new[i] = old[j]
  <2> HIDE DEF old
  <2>1. QED
    BY <1>2, RemoveChildKeeps
<1> HIDE DEF new
<1>4. \A e \in Device : children'[e] = IF e = d THEN new ELSE children[e]
  BY <1>1 DEF TableInv
<1>5. children' \in [Device -> Seq(Child)]
  BY <1>1, <1>3 DEF TableInv
<1>6. NoDuplicateChild'
  BY <1>3, <1>4 DEF TableInv, NoDuplicateChild
<1>7. NextHopHeard'
  <2>1. ASSUME NEW e \in Device, NEW i \in DOMAIN children'[e]
        PROVE  \E j \in DOMAIN children[e] : children'[e][i] = children[e][j]
    BY <1>3, <1>4, <2>1
  <2>2. QED
    BY <2>1 DEF TableInv, NextHopHeard
<1>8. m.addr \in Device \cup {NullAddr}
  BY DEF PacketFrom, Packet
<1>9. Control("CHILD_RM", d, NODE, m.addr, UNICAST_GROUP) \in PacketFrom(d)
  BY <1>8, ControlFrom DEF UNICAST_GROUP, Groups
<1>10. chan' \in Channels
  BY <1>9, OutputGenuine DEF ForgetChild
<1>11. QED
  BY <1>5, <1>6, <1>7, <1>10 DEF TableInv

\* An acknowledgement keeps the counter a byte, or travels on.
LEMMA PassAckKeeps ==
  ASSUME CounterInv, NEW d \in Device, NEW ch \in Channels, NEW p, NEW m \in PacketFrom(p),
         PassAck(d, ch, m)
  PROVE  CounterInv' /\ chan' \in Channels
<1>1. m.addr \in Device \cup {NullAddr}
  BY DEF PacketFrom, Packet
<1>2. Control("DATA_ACK", d, NODE, m.addr, UNICAST_GROUP) \in PacketFrom(d)
  BY <1>1, ControlFrom DEF UNICAST_GROUP, Groups
<1>3. CASE m.addr = d
  <2>1. (data_counter[d] + CounterSize - 1) % CounterSize \in 0..(CounterSize - 1)
    BY DEF CounterInv, CounterSize
  <2>2. QED
    BY <1>3, <2>1 DEF PassAck, CounterInv
<1>4. CASE m.addr # d
  BY <1>2, <1>4, OutputGenuine DEF PassAck, CounterInv
<1>5. QED
  BY <1>3, <1>4

\* Relaying a data packet needs no more than its being one.
LEMMA ForwardedGenuine ==
  ASSUME NEW d, NEW ch \in Channels, NEW p, NEW m \in PacketFrom(p),
         m.kind \in {"DATA_UP", "DATA_DOWN"}
  PROVE  Forwarded(d, ch, m) \in Channels
BY RelayFrom, OutputGenuine, OutputAllGenuine DEF Forwarded

\* Sending a counted packet may cost the parent, never bring one.
LEMMA SendAckedKeeps ==
  ASSUME AttachInv, CounterInv, NEW d \in Device, NEW ch \in Channels,
         SendAcked(d, ch), UNCHANGED parent
  PROVE  AttachInv' /\ CounterInv' /\ chan' \in Channels
<1>1. Data("DATA_UP", d, UNICAST_GROUP, "NOT_MOBILE") \in PacketFrom(d)
  BY DataFrom DEF UNICAST_GROUP, Groups, Flags
<1>2. chan' \in Channels
  BY <1>1, OutputGenuine DEF SendAcked
<1>3. setup' \in [Device -> {0, 1}] /\ \A e \in Device : setup'[e] = 1 => setup[e] = 1
  BY DEF AttachInv, SendAcked
<1>4. AttachInv'
  BY <1>3 DEF AttachInv, ParentRole
<1>5. (data_counter[d] + 1) % CounterSize \in 0..(CounterSize - 1)
  BY DEF CounterInv, CounterSize
<1>6. CounterInv'
  BY <1>5 DEF CounterInv, SendAcked, CounterSize
<1>7. QED
  BY <1>2, <1>4, <1>6

-------------------------------------------------------------------------------
(* Each part of the invariant only depends on its own variables *)

\* AttachInv depends on setup and parent only.
LEMMA AttachUnchanged == AttachInv /\ UNCHANGED <<setup, parent>> => AttachInv'
BY DEF AttachInv, ParentRole

\* TableInv depends on the tables only.
LEMMA TableUnchanged == TableInv /\ UNCHANGED children => TableInv'
BY DEF TableInv, NoDuplicateChild, NextHopHeard

\* BarnInv depends on the barns only.
LEMMA BarnUnchanged == BarnInv /\ UNCHANGED barns => BarnInv'
BY DEF BarnInv, BarnsDistinct

\* CounterInv depends on the counters only.
LEMMA CounterUnchanged == CounterInv /\ UNCHANGED data_counter => CounterInv'
BY DEF CounterInv

\* BudgetInv depends on the budget only.
LEMMA BudgetUnchanged == BudgetInv /\ UNCHANGED budget => BudgetInv'
BY DEF BudgetInv

\* Spending from the budget keeps it a budget.
LEMMA SpendKeeps == ASSUME BudgetInv, NEW x \in Stimuli, Spend(x) PROVE BudgetInv'
<1>1. budget[x] - 1 \in Int
  BY DEF BudgetInv
<1>2. QED
  BY <1>1 DEF BudgetInv, Spend

\* What a handler knows of the packet it is called with.
LEMMA ReceivesGenuine ==
  ASSUME chan \in Channels, NEW c \in Channel, NEW D, NEW kinds, Receives(c, D, kinds)
  PROVE  /\ Taken(c) \in Channels
         /\ Head(chan[c]) \in PacketFrom(c[1]) /\ Head(chan[c]).kind \in kinds
         /\ c[1] \in Device /\ c[2] \in Device /\ c[2] \in D
         /\ <<c[1], c[2]>> \in Link
BY TakenGenuine, ChannelEnds DEF Receives

-------------------------------------------------------------------------------
(* The handlers keep the invariant *)

\* Every branch of process_node_packet keeps the invariant.
LEMMA NodeSteps ==
  ASSUME IInv, NEW c \in Channel,
         \/ NodeSetup(c) \/ NodeResponse(c) \/ NodeSetupAck(c)
         \/ NodeChildRm(c) \/ NodeDataAck(c) \/ NodeData(c)
  PROVE  IInv'
<1> DEFINE d == c[2]
           m == Head(chan[c])
<1> USE AttachUnchanged, TableUnchanged, BarnUnchanged, CounterUnchanged, BudgetUnchanged DEF IInv
<1>1. CASE NodeSetup(c)
  <2>1. Taken(c) \in Channels /\ d \in Nodes /\ d \in Device
    BY <1>1, ReceivesGenuine DEF NodeSetup
  <2>2. Control("RESPONSE", d, NODE, NullAddr, UNICAST_GROUP) \in PacketFrom(d)
    BY <2>1, TypeOfRole, RolesAssumption, ControlFrom DEF UNICAST_GROUP, Groups
  <2>3. chan' \in Channels
    BY <1>1, <2>1, <2>2, OutputGenuine DEF NodeSetup
  <2>4. QED
    BY <1>1, <2>3 DEF NodeSetup
<1>2. CASE NodeResponse(c)
  <2>1. /\ Taken(c) \in Channels /\ d \in Nodes /\ <<c[1], d>> \in Link
        /\ c[1] \in Device /\ m \in PacketFrom(c[1]) /\ m.kind = "RESPONSE"
    BY <1>2, ReceivesGenuine DEF NodeResponse
  <2>2. AttachInv' /\ chan' \in Channels
    BY <1>2, <2>1, CheckNodeKeeps DEF NodeResponse
  <2>3. QED
    BY <1>2, <2>2 DEF NodeResponse
<1>3. CASE NodeSetupAck(c)
  <2>1. /\ Taken(c) \in Channels /\ d \in Device \ Gateways /\ <<c[1], d>> \in Link
        /\ c[1] \in Device /\ m \in PacketFrom(c[1]) /\ m.kind = "SETUP_ACK"
    BY <1>3, ReceivesGenuine, RolesAssumption DEF NodeSetupAck
  <2>2. TableInv' /\ chan' \in Channels
    BY <1>3, <2>1, RegisterKeeps DEF NodeSetupAck
  <2>3. QED
    BY <1>3, <2>2 DEF NodeSetupAck
<1>4. CASE NodeChildRm(c)
  <2>1. Taken(c) \in Channels /\ d \in Device /\ m \in PacketFrom(c[1])
    BY <1>4, ReceivesGenuine DEF NodeChildRm
  <2>2. TableInv' /\ chan' \in Channels
    BY <1>4, <2>1, ForgetKeeps DEF NodeChildRm
  <2>3. QED
    BY <1>4, <2>2 DEF NodeChildRm
<1>5. CASE NodeDataAck(c)
  <2>1. Taken(c) \in Channels /\ d \in Device /\ m \in PacketFrom(c[1])
    BY <1>5, ReceivesGenuine DEF NodeDataAck
  <2>2. CounterInv' /\ chan' \in Channels
    BY <1>5, <2>1, PassAckKeeps DEF NodeDataAck
  <2>3. QED
    BY <1>5, <2>2 DEF NodeDataAck
<1>6. CASE NodeData(c)
  <2> DEFINE ch == IF NotSetup(d) THEN Taken(c) ELSE Forwarded(d, Taken(c), m)
  <2>1. /\ Taken(c) \in Channels /\ d \in Device
        /\ m \in PacketFrom(c[1]) /\ m.kind \in {"DATA_UP", "DATA_DOWN"}
    BY <1>6, ReceivesGenuine DEF NodeData
  <2>2. ch \in Channels
    BY <2>1, ForwardedGenuine
  <2>3. Data("DATA_UP", d, UNICAST_GROUP, "DATA_RESPONSE") \in PacketFrom(d)
    BY <2>1, DataFrom DEF UNICAST_GROUP, Groups, Flags
  <2>4. CASE StartsIrrigation(d, m)
    <3>1. SendAcked(d, ch) /\ UNCHANGED parent
      BY <1>6, <2>4 DEF NodeData
    <3> HIDE DEF ch
    <3>2. AttachInv' /\ CounterInv' /\ chan' \in Channels
      BY <2>1, <2>2, <3>1, SendAckedKeeps
    <3>3. QED
      BY <1>6, <3>2 DEF NodeData
  <2>5. CASE ~StartsIrrigation(d, m)
    <3>1. /\ chan' = IF AsksSensor(d, m)
                     THEN Output(ch, d, parent[d].addr,
                                 Data("DATA_UP", d, UNICAST_GROUP, "DATA_RESPONSE"))
                     ELSE ch
          /\ UNCHANGED <<setup, data_counter>>
      BY <1>6, <2>5 DEF NodeData
    <3> HIDE DEF ch
    <3>2. chan' \in Channels
      BY <2>2, <2>3, <3>1, OutputGenuine
    <3>3. QED
      BY <1>6, <3>1, <3>2 DEF NodeData
  <2>6. QED
    BY <2>4, <2>5
<1>7. QED
  BY <1>1, <1>2, <1>3, <1>4, <1>5, <1>6

\* Every branch of process_sub_gateway_packet keeps the invariant.
LEMMA SubGatewaySteps ==
  ASSUME IInv, NEW c \in Channel,
         \/ SubGatewaySetup(c) \/ SubGatewayOffer(c) \/ SubGatewaySetupAck(c)
         \/ SubGatewayChildRm(c) \/ SubGatewayDataAck(c) \/ SubGatewayData(c)
  PROVE  IInv'
<1> DEFINE d == c[2]
           m == Head(chan[c])
<1> USE AttachUnchanged, TableUnchanged, BarnUnchanged, CounterUnchanged, BudgetUnchanged DEF IInv
<1>1. CASE SubGatewaySetup(c)
  <2>1. Taken(c) \in Channels /\ d \in SubGateways /\ d \in Device
    BY <1>1, ReceivesGenuine DEF SubGatewaySetup
  <2>2. Control("RESPONSE", d, SUB_GATEWAY, NullAddr, UNICAST_GROUP) \in PacketFrom(d)
    BY <2>1, TypeOfRole, RolesAssumption, ControlFrom DEF UNICAST_GROUP, Groups
  <2>3. chan' \in Channels
    BY <1>1, <2>1, <2>2, OutputGenuine DEF SubGatewaySetup
  <2>4. QED
    BY <1>1, <2>3 DEF SubGatewaySetup
<1>2. CASE SubGatewayOffer(c)
  <2>1. /\ Taken(c) \in Channels /\ d \in SubGateways /\ <<c[1], d>> \in Link
        /\ c[1] \in Device /\ m \in PacketFrom(c[1]) /\ m.kind \in {"SETUP", "RESPONSE"}
    BY <1>2, ReceivesGenuine DEF SubGatewayOffer
  <2>2. AttachInv' /\ chan' \in Channels
    BY <1>2, <2>1, CheckSubGatewayKeeps DEF SubGatewayOffer
  <2>3. QED
    BY <1>2, <2>2 DEF SubGatewayOffer
<1>3. CASE SubGatewaySetupAck(c)
  <2>1. /\ Taken(c) \in Channels /\ d \in Device \ Gateways /\ <<c[1], d>> \in Link
        /\ c[1] \in Device /\ m \in PacketFrom(c[1]) /\ m.kind = "SETUP_ACK"
    BY <1>3, ReceivesGenuine, RolesAssumption DEF SubGatewaySetupAck
  <2>2. TableInv' /\ chan' \in Channels
    BY <1>3, <2>1, RegisterKeeps DEF SubGatewaySetupAck
  <2>3. QED
    BY <1>3, <2>2 DEF SubGatewaySetupAck
<1>4. CASE SubGatewayChildRm(c)
  <2>1. Taken(c) \in Channels /\ d \in Device /\ m \in PacketFrom(c[1])
    BY <1>4, ReceivesGenuine DEF SubGatewayChildRm
  <2>2. TableInv' /\ chan' \in Channels
    BY <1>4, <2>1, ForgetKeeps DEF SubGatewayChildRm
  <2>3. QED
    BY <1>4, <2>2 DEF SubGatewayChildRm
<1>5. CASE SubGatewayDataAck(c)
  <2>1. Taken(c) \in Channels /\ d \in Device /\ m \in PacketFrom(c[1])
    BY <1>5, ReceivesGenuine DEF SubGatewayDataAck
  <2>2. CounterInv' /\ chan' \in Channels
    BY <1>5, <2>1, PassAckKeeps DEF SubGatewayDataAck
  <2>3. QED
    BY <1>5, <2>2 DEF SubGatewayDataAck
<1>6. CASE SubGatewayData(c)
  <2>1. /\ Taken(c) \in Channels
        /\ m \in PacketFrom(c[1]) /\ m.kind \in {"DATA_UP", "DATA_DOWN"}
    BY <1>6, ReceivesGenuine DEF SubGatewayData
  <2>2. TurnedRound(m) \in PacketFrom(d) /\ TurnedRound(m).kind \in {"DATA_UP", "DATA_DOWN"}
    <3>1. m \in PacketFrom(d) /\ m \in Packet /\ m.flag \in Flags
      BY <2>1, RelayFrom DEF PacketFrom, Packet
    <3>2. CASE m.flag = "NOT_MOBILE"
      BY <2>1, <3>1, <3>2 DEF TurnedRound
    <3>3. CASE m.flag = "DATA_QUERY"
      <4>1. TurnedRound(m) = [m EXCEPT !.kind = "DATA_DOWN", !.group = LIGHT_SENSOR_GROUP]
        BY <3>3 DEF TurnedRound
      <4>2. TurnedRound(m) = [kind |-> "DATA_DOWN", src |-> m.src, ntype |-> m.ntype,
                              addr |-> m.addr, group |-> LIGHT_SENSOR_GROUP, flag |-> m.flag]
        BY <3>1, <4>1 DEF Packet
      <4>3. LIGHT_SENSOR_GROUP \in Groups /\ "DATA_DOWN" \in Kinds
        BY DEF LIGHT_SENSOR_GROUP, Groups, Kinds
      <4>4. QED
        BY <3>1, <4>2, <4>3 DEF PacketFrom, Packet
    <3>4. CASE m.flag = "DATA_RESPONSE"
      <4>1. TurnedRound(m) = [m EXCEPT !.kind = "DATA_DOWN"]
        BY <3>4 DEF TurnedRound
      <4>2. QED
        BY <3>1, <4>1 DEF PacketFrom, Packet, Kinds
    <3>5. QED
      BY <3>1, <3>2, <3>3, <3>4 DEF Flags
  <2>3. chan' \in Channels
    BY <1>6, <2>1, <2>2, ForwardedGenuine DEF SubGatewayData
  <2>4. QED
    BY <1>6, <2>3 DEF SubGatewayData
<1>7. QED
  BY <1>1, <1>2, <1>3, <1>4, <1>5, <1>6

\* A new barn is a sub-gateway the gateway has heard and did not have yet.
LEMMA BarnsWithKeeps ==
  ASSUME BarnInv, NEW g \in Gateways, NEW p \in SubGateways, <<p, g>> \in Link,
         NEW last, barns' = [barns EXCEPT ![g] = BarnsWith(barns[g], last, p)]
  PROVE  BarnInv'
<1> DEFINE old == barns[g]
           new == BarnsWith(old, last, p)
<1>1. CASE last.addr = last.from /\ ~ \E i \in DOMAIN old : old[i] = p
  <2>1. new = Append(old, p)
    BY <1>1 DEF BarnsWith
  <2>2. old \in Seq(Device) /\ p \in Device
    BY DEF BarnInv, Device
  <2>3. barns' = [barns EXCEPT ![g] = new]
    OBVIOUS
  <2>4. /\ new \in Seq(Device)
        /\ \A i \in DOMAIN new : i \in DOMAIN old \/ i = Len(old) + 1
        /\ \A i \in DOMAIN old : new[i] = old[i]
        /\ new[Len(old) + 1] = p
    <3> HIDE DEF old, new
    <3>1. QED
      BY <2>1, <2>2, AppendProperties, LenProperties
  <2> HIDE DEF new
  <2>5. \A i, j \in DOMAIN new : new[i] = new[j] => i = j
    BY <1>1, <2>4 DEF BarnInv, BarnsDistinct
  <2>6. \A i \in DOMAIN new : new[i] \in SubGateways /\ <<new[i], g>> \in Link
    BY <2>4 DEF BarnInv, BarnsDistinct
  <2>7. \A h \in Gateways : barns'[h] = IF h = g THEN new ELSE barns[h]
    BY <2>3 DEF BarnInv
  <2>8. barns' \in [Gateways -> Seq(Device)]
    BY <2>3, <2>4 DEF BarnInv
  <2>9. QED
    BY <2>5, <2>6, <2>7, <2>8 DEF BarnInv, BarnsDistinct
<1>2. CASE ~(last.addr = last.from /\ ~ \E i \in DOMAIN old : old[i] = p)
  <2>1. barns' = barns
    BY <1>2 DEF BarnsWith, BarnInv
  <2>2. QED
    BY <2>1, BarnUnchanged
<1>3. QED
  BY <1>1, <1>2

\* Every branch of process_gateway_packet keeps the invariant.
LEMMA GatewaySteps ==
  ASSUME IInv, NEW c \in Channel,
         GatewaySetup(c) \/ GatewaySetupAck(c) \/ GatewayIgnore(c) \/ GatewayData(c)
  PROVE  IInv'
<1> DEFINE d == c[2]
           m == Head(chan[c])
<1> USE AttachUnchanged, TableUnchanged, BarnUnchanged, CounterUnchanged, BudgetUnchanged DEF IInv
<1>1. CASE GatewaySetup(c)
  <2>1. Taken(c) \in Channels /\ d \in Gateways /\ d \in Device
    BY <1>1, ReceivesGenuine DEF GatewaySetup
  <2>2. Control("RESPONSE", d, GATEWAY, NullAddr, UNICAST_GROUP) \in PacketFrom(d)
    BY <2>1, TypeOfRole, RolesAssumption, ControlFrom DEF UNICAST_GROUP, Groups
  <2>3. chan' \in Channels
    BY <1>1, <2>1, <2>2, OutputGenuine DEF GatewaySetup
  <2>4. QED
    BY <1>1, <2>3 DEF GatewaySetup
<1>2. CASE GatewaySetupAck(c)
  <2>1. /\ Taken(c) \in Channels /\ d \in Gateways /\ d \in Device /\ <<c[1], d>> \in Link
        /\ c[1] \in Device /\ m \in PacketFrom(c[1]) /\ m.kind = "SETUP_ACK"
        /\ m.ntype = SUB_GATEWAY
    BY <1>2, ReceivesGenuine DEF GatewaySetupAck
  <2>2. m.src = c[1] /\ c[1] \in SubGateways
    BY <2>1, TypeOfRole DEF PacketFrom
  <2>3. TableInv'
    BY <1>2, <2>1, <2>2, SetChildKeepsTables DEF GatewaySetupAck
  <2>4. BarnInv'
    <3>1. PICK last : barns' = [barns EXCEPT ![d] = BarnsWith(barns[d], last, c[1])]
      BY <1>2, <2>2 DEF GatewaySetupAck
    <3>2. QED
      BY <2>1, <2>2, <3>1, BarnsWithKeeps
  <2>5. chan' \in Channels
    BY <1>2, <2>1, AfterSetChildGenuine DEF GatewaySetupAck
  <2>6. QED
    BY <1>2, <2>3, <2>4, <2>5 DEF GatewaySetupAck
<1>3. CASE GatewayIgnore(c)
  <2>1. chan' \in Channels
    BY <1>3, ReceivesGenuine DEF GatewayIgnore
  <2>2. QED
    BY <1>3, <2>1 DEF GatewayIgnore
<1>4. CASE GatewayData(c)
  <2>1. Taken(c) \in Channels /\ d \in Device /\ m \in PacketFrom(c[1])
        /\ d \in Gateways
    BY <1>4, ReceivesGenuine DEF GatewayData
  <2>2. m.src \in Device
    BY <2>1 DEF PacketFrom, Packet
  <2>3. Control("DATA_ACK", d, GATEWAY, m.src, UNICAST_GROUP) \in PacketFrom(d)
    BY <2>1, <2>2, ControlFrom DEF UNICAST_GROUP, Groups
  <2>4. chan' \in Channels
    BY <1>4, <2>1, <2>3, OutputGenuine DEF GatewayData, AcknowledgeVia
  <2>5. QED
    BY <1>4, <2>4 DEF GatewayData
<1>5. QED
  BY <1>1, <1>2, <1>3, <1>4

\* Every branch of process_mobile_packet keeps the invariant.
LEMMA MobileSteps ==
  ASSUME IInv, NEW c \in Channel,
         MobileResponse(c) \/ MobileSetupAck(c) \/ MobileDataAck(c) \/ MobileIgnore(c)
  PROVE  IInv'
<1> DEFINE d == c[2]
           m == Head(chan[c])
<1> USE AttachUnchanged, TableUnchanged, BarnUnchanged, CounterUnchanged, BudgetUnchanged DEF IInv
<1>1. CASE MobileResponse(c)
  <2>1. /\ Taken(c) \in Channels /\ d \in Mobiles /\ <<c[1], d>> \in Link
        /\ c[1] \in Device /\ m \in PacketFrom(c[1]) /\ m.kind = "RESPONSE"
    BY <1>1, ReceivesGenuine DEF MobileResponse
  <2>2. AttachInv' /\ chan' \in Channels
    BY <1>1, <2>1, CheckNodeKeeps DEF MobileResponse
  <2>3. QED
    BY <1>1, <2>2 DEF MobileResponse
<1>2. CASE MobileSetupAck(c)
  <2>1. /\ Taken(c) \in Channels /\ d \in Device \ Gateways /\ <<c[1], d>> \in Link
        /\ c[1] \in Device /\ m \in PacketFrom(c[1]) /\ m.kind = "SETUP_ACK"
    BY <1>2, ReceivesGenuine, RolesAssumption DEF MobileSetupAck
  <2>2. TableInv' /\ chan' \in Channels
    BY <1>2, <2>1, RegisterKeeps DEF MobileSetupAck
  <2>3. QED
    BY <1>2, <2>2 DEF MobileSetupAck
<1>3. CASE MobileDataAck(c)
  <2>1. Taken(c) \in Channels /\ d \in Device /\ m \in PacketFrom(c[1])
    BY <1>3, ReceivesGenuine DEF MobileDataAck
  <2>2. CounterInv' /\ chan' \in Channels
    BY <1>3, <2>1, PassAckKeeps DEF MobileDataAck
  <2>3. QED
    BY <1>3, <2>2 DEF MobileDataAck
<1>4. CASE MobileIgnore(c)
  <2>1. chan' \in Channels
    BY <1>4, ReceivesGenuine DEF MobileIgnore
  <2>2. QED
    BY <1>4, <2>1 DEF MobileIgnore
<1>5. QED
  BY <1>1, <1>2, <1>3, <1>4

-------------------------------------------------------------------------------
(* What happens without a packet being received keeps the invariant *)

\* What the process loops send keeps the invariant.
LEMMA ProcessSteps ==
  ASSUME IInv, NEW d \in Device, Act(d)
  PROVE  IInv'
<1> USE AttachUnchanged, TableUnchanged, BarnUnchanged, CounterUnchanged DEF IInv
<1>1. CASE SendSetup(d)
  <2>1. SetupOf(d) \in PacketFrom(d)
    BY SetupFrom
  <2>2. chan' \in Channels
    BY <1>1, <2>1, OutputGenuine DEF SendSetup
  <2>3. BudgetInv'
    BY <1>1, SpendKeeps DEF SendSetup, Stimuli
  <2>4. QED
    BY <1>1, <2>2, <2>3 DEF SendSetup
<1>2. CASE SendReport(d)
  <2>1. AttachInv' /\ CounterInv' /\ chan' \in Channels
    BY <1>2, SendAckedKeeps DEF SendReport
  <2>2. BudgetInv'
    BY <1>2, SpendKeeps DEF SendReport, Stimuli
  <2>3. QED
    BY <1>2, <2>1, <2>2 DEF SendReport
<1>3. CASE SendQuery(d)
  <2>1. Data("DATA_UP", d, UNICAST_GROUP, "DATA_QUERY") \in PacketFrom(d)
    BY DataFrom DEF UNICAST_GROUP, Groups, Flags
  <2>2. chan' \in Channels
    BY <1>3, <2>1, OutputGenuine DEF SendQuery
  <2>3. BudgetInv'
    BY <1>3, SpendKeeps DEF SendQuery, Stimuli
  <2>4. QED
    BY <1>3, <2>2, <2>3 DEF SendQuery
<1>4. QED
  BY <1>1, <1>2, <1>3 DEF Act

\* The gateway's commands keep the invariant.
LEMMA CommandSteps ==
  ASSUME IInv, NEW g \in Gateways, CommandBarn(g) \/ IrrigateAll(g)
  PROVE  IInv'
<1> USE AttachUnchanged, TableUnchanged, BarnUnchanged, CounterUnchanged DEF IInv
<1>1. \A group \in {LIGHT_BULB_GROUP, IRRIGATION_GROUP} :
        Data("DATA_DOWN", g, group, "NOT_MOBILE") \in PacketFrom(g)
  BY DataFrom DEF Device, LIGHT_BULB_GROUP, IRRIGATION_GROUP, Groups, Flags
<1>2. CASE CommandBarn(g)
  <2>1. chan' \in Channels
    BY <1>1, <1>2, OutputGenuine DEF CommandBarn, CommandOne
  <2>2. BudgetInv'
    BY <1>2, SpendKeeps DEF CommandBarn, Stimuli
  <2>3. QED
    BY <1>2, <2>1, <2>2 DEF CommandBarn
<1>3. CASE IrrigateAll(g)
  <2>1. chan' \in Channels
    BY <1>1, <1>3, OutputAllGenuine DEF IrrigateAll, CommandAll
  <2>2. BudgetInv'
    BY <1>3, SpendKeeps DEF IrrigateAll, Stimuli
  <2>3. QED
    BY <1>3, <2>1, <2>2 DEF IrrigateAll
<1>4. QED
  BY <1>2, <1>3

\* A lost frame or a restart keeps the invariant.
LEMMA FaultSteps ==
  ASSUME IInv,
         (\E c \in Channel : Lose(c)) \/ (\E d \in Device : Reboot(d))
  PROVE  IInv'
<1> USE AttachUnchanged, TableUnchanged, BarnUnchanged, CounterUnchanged DEF IInv
<1>1. ASSUME NEW c \in Channel, Lose(c) PROVE IInv'
  <2>1. chan' \in Channels
    BY <1>1, TakenGenuine DEF Lose
  <2>2. BudgetInv'
    BY <1>1, SpendKeeps DEF Lose, Stimuli
  <2>3. QED
    BY <1>1, <2>1, <2>2 DEF Lose
<1>2. ASSUME NEW d \in Device, Reboot(d) PROVE IInv'
  <2>1. SetupOf(d) \in PacketFrom(d)
    BY SetupFrom
  <2>2. chan' \in Channels
    BY <1>2, <2>1, OutputGenuine DEF Reboot
  <2>3. BudgetInv'
    BY <1>2, SpendKeeps DEF Reboot, Stimuli
  <2>4. AttachInv'
    <3>1. NoParent \in Parent
      BY DEF NoParent, Parent
    <3>2. setup' \in [Device -> {0, 1}] /\ parent' \in [Device -> Parent]
      BY <1>2, <3>1 DEF Reboot, AttachInv
    <3>3. \A e \in Device : setup'[e] = 1 => setup[e] = 1 /\ parent'[e] = parent[e]
      BY <1>2 DEF Reboot, AttachInv
    <3>4. QED
      BY <3>2, <3>3 DEF AttachInv, ParentRole
  <2>5. TableInv'
    <3>1. children' \in [Device -> Seq(Child)]
      BY <1>2 DEF Reboot, TableInv
    <3>2. \A e \in Device : children'[e] = children[e] \/ children'[e] = <<>>
      BY <1>2 DEF Reboot, TableInv
    <3>3. NoDuplicateChild'
      BY <3>2 DEF TableInv, NoDuplicateChild, UniqueAddrs
    <3>4. NextHopHeard'
      <4>1. NextHopHeard /\ DOMAIN <<>> = {}
        BY DEF TableInv
      <4> SUFFICES ASSUME NEW e \in Device, NEW i \in DOMAIN children'[e]
                   PROVE  /\ <<children'[e][i].from, e>> \in Link
                          /\ e \in Gateways => children'[e][i].from \in SubGateways
        BY DEF NextHopHeard
      <4>2. children'[e] = children[e]
        BY <3>2, <4>1
      <4>3. QED
        BY <4>1, <4>2 DEF NextHopHeard
    <3>5. QED
      BY <3>1, <3>3, <3>4 DEF TableInv
  <2>6. BarnInv'
    <3>1. barns' \in [Gateways -> Seq(Device)]
      BY <1>2 DEF Reboot, BarnInv
    <3>2. \A g \in Gateways : barns'[g] = barns[g] \/ barns'[g] = <<>>
      BY <1>2 DEF Reboot, BarnInv
    <3>3. QED
      BY <3>1, <3>2 DEF BarnInv, BarnsDistinct
  <2>7. CounterInv'
    BY <1>2 DEF Reboot, CounterInv, CounterSize
  <2>8. QED
    BY <2>2, <2>3, <2>4, <2>5, <2>6, <2>7
<1>3. QED
  BY <1>1, <1>2

-------------------------------------------------------------------------------
(* The theorems *)

\* The invariant holds when everyone has booted.
LEMMA InitIInv == Init => IInv
<1> SUFFICES ASSUME Init
             PROVE  IInv
  OBVIOUS
<1>1. AttachInv
  BY DEF Init, AttachInv, NoParent, Parent, ParentRole
<1>2. TableInv
  <2>1. \A d \in Device : children[d] = <<>>
    BY DEF Init
  <2>2. NoDuplicateChild /\ NextHopHeard
    BY <2>1 DEF NoDuplicateChild, NextHopHeard, UniqueAddrs
  <2>3. QED
    BY <2>2 DEF Init, TableInv
<1>3. BarnInv /\ CounterInv /\ BudgetInv
  BY SizeAssumption DEF Init, BarnInv, BarnsDistinct, CounterInv, CounterSize, BudgetInv
<1>4. chan \in Channels
  <2>1. ASSUME NEW c \in Channel
        PROVE  chan[c] \in Seq(Packet) /\ \A i \in DOMAIN chan[c] : chan[c][i] \in PacketFrom(c[1])
    <3>1. SetupOf(c[1]) \in PacketFrom(c[1]) /\ SetupOf(c[1]) \in Packet
      <4>1. SetupOf(c[1]) \in PacketFrom(c[1])
        BY ChannelEnds, SetupFrom
      <4>2. QED
        BY <4>1 DEF PacketFrom
    <3>2. chan[c] = <<SetupOf(c[1])>> \/ chan[c] = <<>>
      BY DEF Init
    <3>3. QED
      <4> DEFINE p == SetupOf(c[1])
      <4> HIDE DEF p
      <4>1. p \in Packet => <<p>> \in Seq(Packet) /\ DOMAIN <<p>> = {1} /\ <<p>>[1] = p
        OBVIOUS
      <4>2. <<>> \in Seq(Packet) /\ DOMAIN <<>> = {}
        OBVIOUS
      <4>3. QED
        BY <3>1, <3>2, <4>1, <4>2 DEF p
  <2>2. chan = [c \in Channel |-> chan[c]]
    BY DEF Init
  <2>3. QED
    BY <2>1, <2>2 DEF Channels
<1>5. QED
  BY <1>1, <1>2, <1>3, <1>4 DEF IInv

\* The invariant is inductive.
LEMMA StepIInv == IInv /\ [Next]_vars => IInv'
<1> SUFFICES ASSUME IInv, [Next]_vars
             PROVE  IInv'
  OBVIOUS
<1>1. ASSUME NEW c \in Channel, Receive(c) PROVE IInv'
  BY <1>1, NodeSteps, SubGatewaySteps, GatewaySteps, MobileSteps DEF Receive
<1>2. ASSUME NEW d \in Device, Act(d) PROVE IInv'
  BY <1>2, ProcessSteps
<1>3. ASSUME NEW g \in Gateways, CommandBarn(g) \/ IrrigateAll(g) PROVE IInv'
  BY <1>3, CommandSteps
<1>4. CASE (\E c \in Channel : Lose(c)) \/ (\E d \in Device : Reboot(d))
  BY <1>4, FaultSteps
<1>5. CASE UNCHANGED vars
  BY <1>5, AttachUnchanged, TableUnchanged, BarnUnchanged, CounterUnchanged, BudgetUnchanged
     DEF vars, IInv
<1>6. QED
  BY <1>1, <1>2, <1>3, <1>4, <1>5 DEF Next

\* The inductive invariant holds of every behaviour.
THEOREM Invariance == Spec => []IInv
BY InitIInv, StepIInv, PTL DEF Spec

\* The channels hold typed packets that are genuine.
LEMMA ChannelsGenuine == chan \in Channels => chan \in [Channel -> Seq(Packet)] /\ ControlGenuine
BY DEF Channels, ControlGenuine, PacketFrom

\* The variables always have their types, whatever an uninitialised address on
\* the stack made a gateway or a relay send.
THEOREM TypeCorrect == Spec => []TypeOK
<1>1. IInv => TypeOK
  BY ChannelsGenuine
     DEF IInv, AttachInv, TableInv, BarnInv, CounterInv, BudgetInv, TypeOK
<1>2. QED
  BY <1>1, Invariance, PTL

\* A control packet always carries the address and role of the device that sent it.
THEOREM AlwaysGenuine == Spec => []ControlGenuine
<1>1. IInv => ControlGenuine
  BY ChannelsGenuine DEF IInv
<1>2. QED
  BY <1>1, Invariance, PTL

\* set_child and rm_child never leave two entries for one device, in whatever
\* order SETUP_ACKs and CHILD_RMs arrive.
THEOREM ChildrenDistinct == Spec => []NoDuplicateChild
<1>1. IInv => NoDuplicateChild
  BY DEF IInv, TableInv
<1>2. QED
  BY <1>1, Invariance, PTL

\* A device that is set up always has a parent of the layer above, which it hears,
\* with the type and signal it recorded.
THEOREM ParentsServe == Spec => []ParentRole
<1>1. IInv => ParentRole
  BY DEF IInv, AttachInv
<1>2. QED
  BY <1>1, Invariance, PTL

\* Every route of every table starts with a neighbour, a sub-gateway for a gateway.
THEOREM RoutesHeard == Spec => []NextHopHeard
<1>1. IInv => NextHopHeard
  BY DEF IInv, TableInv
<1>2. QED
  BY <1>1, Invariance, PTL

\* Barn numbers of one gateway name distinct sub-gateways.
THEOREM BarnsApart == Spec => []BarnsDistinct
<1>1. IInv => BarnsDistinct
  BY DEF IInv, BarnInv
<1>2. QED
  BY <1>1, Invariance, PTL

\* In a network of at most MaxChildren devices neither children[] nor barns[] is
\* ever written beyond its end, although no code checks it.
THEOREM TablesFit == Spec => []TableFits
<1>1. IInv => TableFits
  <2> SUFFICES ASSUME IInv
               PROVE  TableFits
    OBVIOUS
  <2>1. IsFiniteSet(Device) /\ Cardinality(Device) <= MaxChildren /\ MaxChildren \in Nat
        /\ Cardinality(Device) \in Nat
    BY SizeAssumption, FS_CardinalityType
  <2>2. ASSUME NEW d \in Device
        PROVE  Len(children[d]) <= MaxChildren
    <3> DEFINE table == children[d]
    <3>1. table \in Seq(Child) /\ UniqueAddrs(table)
      BY DEF IInv, TableInv, NoDuplicateChild
    <3> HIDE DEF table
    <3>2. \A i \in DOMAIN table : table[i].addr \in Device
      <4>1. \A i \in DOMAIN table : table[i] \in Child
        BY <3>1, ElementOfSeq, LenProperties
      <4>2. QED
        BY <4>1 DEF Child
    <3>3. Len(table) <= Cardinality(Device) /\ Len(table) \in Nat
      BY <2>1, <3>1, <3>2, TableBound, LenProperties
    <3>4. QED
      BY <2>1, <3>3 DEF table
  <2>3. ASSUME NEW g \in Gateways
        PROVE  Len(barns[g]) <= MaxChildren
    <3> DEFINE list == barns[g]
    <3>1. list \in Seq(Device) /\ \A i, j \in DOMAIN list : list[i] = list[j] => i = j
      BY DEF IInv, BarnInv, BarnsDistinct
    <3> HIDE DEF list
    <3>2. DOMAIN list = 1..Len(list) /\ Len(list) \in Nat
      BY <3>1, LenProperties
    <3>3. list \in Injection(1..Len(list), Device)
      BY <3>1, <3>2, LenProperties DEF Injection, IsInjective
    <3>4. Cardinality(1..Len(list)) <= Cardinality(Device)
      BY <2>1, <3>3, FS_Injection
    <3>5. Cardinality(1..Len(list)) = Len(list)
      BY <3>2, IntervalSize
    <3>6. QED
      BY <2>1, <3>2, <3>4, <3>5 DEF list
  <2>4. QED
    BY <2>2, <2>3 DEF TableFits
<1>2. QED
  BY <1>1, Invariance, PTL

-------------------------------------------------------------------------------
(* Barn numbers *)

\* BarnsWith only ever appends.
LEMMA BarnsWithAppends ==
  ASSUME NEW list \in Seq(Device), NEW last, NEW p \in Device
  PROVE  \A i \in DOMAIN list : i \in DOMAIN BarnsWith(list, last, p)
                              /\ BarnsWith(list, last, p)[i] = list[i]
<1>1. CASE BarnsWith(list, last, p) = Append(list, p)
  BY <1>1, AppendProperties, LenProperties
<1>2. CASE BarnsWith(list, last, p) = list
  BY <1>2
<1>3. QED
  BY <1>1, <1>2 DEF BarnsWith

\* A barn keeps its number until its gateway restarts.
THEOREM BarnNumbersLast == Spec => BarnNumberStable
<1> DEFINE Kept(g) == \A i \in DOMAIN barns[g] : i \in DOMAIN barns'[g] /\ barns'[g][i] = barns[g][i]
<1>1. ASSUME IInv, NEW c \in Channel, Receive(c), NEW g \in Gateways
      PROVE  Kept(g)
  <2>1. CASE UNCHANGED barns
    BY <2>1
  <2>2. CASE GatewaySetupAck(c)
    <3>1. PICK last : barns' = [barns EXCEPT ![c[2]] = BarnsWith(@, last, Head(chan[c]).src)]
      BY <2>2 DEF GatewaySetupAck
    <3>2. /\ c[2] \in Gateways /\ Head(chan[c]).src \in Device
          /\ barns \in [Gateways -> Seq(Device)]
      <4>1. c[2] \in Gateways /\ Head(chan[c]) \in PacketFrom(c[1])
        BY <2>2, ReceivesGenuine, <1>1 DEF GatewaySetupAck, IInv
      <4>2. QED
        BY <1>1, <4>1 DEF PacketFrom, Packet, IInv, BarnInv
    <3>3. CASE g = c[2]
      <4>1. barns'[g] = BarnsWith(barns[g], last, Head(chan[c]).src) /\ barns[g] \in Seq(Device)
        BY <3>1, <3>2, <3>3
      <4>2. QED
        BY <3>2, <4>1, BarnsWithAppends
    <3>4. CASE g # c[2]
      BY <3>1, <3>2, <3>4
    <3>5. QED
      BY <3>3, <3>4
  <2>3. QED
    BY <1>1, <2>1, <2>2
       DEF Receive, NodeSetup, NodeResponse, NodeSetupAck, NodeChildRm, NodeDataAck, NodeData,
           SubGatewaySetup, SubGatewayOffer, SubGatewaySetupAck, SubGatewayChildRm,
           SubGatewayDataAck, SubGatewayData, GatewaySetup, GatewayIgnore, GatewayData,
           MobileResponse, MobileSetupAck, MobileDataAck, MobileIgnore
<1>2. ASSUME IInv, NEW d \in Device, Reboot(d), NEW g \in Gateways, ~Reboot(g)
      PROVE  Kept(g)
  BY <1>2 DEF Reboot
<1>3. ASSUME Next, NEW g \in Gateways,
             ~ \E c \in Channel : Receive(c), ~ \E d \in Device : Reboot(d)
      PROVE  Kept(g)
  BY <1>3 DEF Next, Act, SendSetup, SendReport, SendQuery, CommandBarn, IrrigateAll, Lose
<1>4. IInv /\ [Next]_vars =>
        [\A g \in Gateways : \A i \in DOMAIN barns[g] :
           \/ i \in DOMAIN barns'[g] /\ barns'[g][i] = barns[g][i]
           \/ Reboot(g)]_vars
  <2> SUFFICES ASSUME IInv, Next, NEW g \in Gateways, ~Reboot(g)
               PROVE  Kept(g)
    OBVIOUS
  <2>1. QED
    BY <1>1, <1>2, <1>3
<1>5. QED
  BY <1>4, Invariance, PTL DEF Spec, BarnNumberStable

-------------------------------------------------------------------------------
(* Routing implements Attachment *)

\* Without a parent, or with one that may serve.
LEMMA ParentOfServes ==
  ASSUME AttachInv, NEW d \in Device
  PROVE  /\ setup[d] = 0 => ParentOf[d] = NullAddr
         /\ setup[d] = 1 => /\ ParentOf[d] = parent[d].addr /\ ParentOf[d] \in Device
                           /\ <<ParentOf[d], d>> \in MayServe
                           /\ Quality(ParentOf[d], d) = <<parent[d].type, parent[d].rssi>>
         /\ ParentOf[d] = NullAddr <=> setup[d] = 0
<1>1. setup[d] \in {0, 1} /\ ParentOf[d] = IF setup[d] = 1 THEN parent[d].addr ELSE NullAddr
  BY DEF AttachInv, ParentOf
<1>2. CASE setup[d] = 1
  <2>1. <<parent[d].addr, d>> \in Link
    BY <1>2 DEF AttachInv, ParentRole
  <2>2. parent[d].addr \in Device /\ parent[d].addr # NullAddr
    BY <2>1, RadioAssumption, RolesAssumption
  <2>3. <<parent[d].addr, d>> \in MayServe
    BY <1>2, <2>1 DEF AttachInv, ParentRole, MayServe
  <2>4. Quality(parent[d].addr, d) = <<parent[d].type, parent[d].rssi>>
    BY <1>2 DEF AttachInv, ParentRole, Quality
  <2>5. QED
    BY <1>1, <1>2, <2>2, <2>3, <2>4
<1>3. QED
  BY <1>1, <1>2

\* A step that only concerns device d replaces the entry of d in ParentOf.
LEMMA ParentOfExcept ==
  ASSUME NEW d \in Device,
         \A e \in Device \ {d} : setup'[e] = setup[e] /\ parent'[e] = parent[e]
  PROVE  ParentOf' = [ParentOf EXCEPT ![d] = IF setup'[d] = 1 THEN parent'[d].addr ELSE NullAddr]
<1> DEFINE new(e) == IF setup'[e] = 1 THEN parent'[e].addr ELSE NullAddr
           old(e) == IF setup[e] = 1 THEN parent[e].addr ELSE NullAddr
<1>1. ParentOf' = [e \in Device |-> new(e)] /\ ParentOf = [e \in Device |-> old(e)]
  BY DEF ParentOf
<1>2. \A e \in Device \ {d} : new(e) = old(e)
  OBVIOUS
<1> HIDE DEF new, old
<1>3. ParentOf' = [ParentOf EXCEPT ![d] = new(d)]
  BY <1>1, <1>2
<1>4. QED
  BY <1>3 DEF new

\* Dropping the parent of one device is a Leave.
LEMMA LeaveStep ==
  ASSUME NEW d \in Device, setup'[d] = 0,
         \A e \in Device \ {d} : setup'[e] = setup[e] /\ parent'[e] = parent[e]
  PROVE  Attachment!Leave(d)
BY ParentOfExcept DEF Attachment!Leave

\* Taking a first parent is a Join; exchanging it for a better one an Upgrade.
LEMMA AdoptStep ==
  ASSUME AttachInv, AttachInv', NEW d \in Device, NEW ch, NEW p, NEW ntype, Adopt(d, ch, p, ntype),
         \/ setup[d] = 0
         \/ Attachment!Worse(<<parent[d].type, parent[d].rssi>>, <<ntype, RSSI[<<p, d>>]>>)
  PROVE  Attachment!Join(d) \/ Attachment!Upgrade(d)
<1>1. /\ setup'[d] = 1 /\ parent'[d] = [addr |-> p, type |-> ntype, rssi |-> RSSI[<<p, d>>]]
      /\ \A e \in Device \ {d} : setup'[e] = setup[e] /\ parent'[e] = parent[e]
  BY DEF Adopt, AttachInv
<1>2. p \in Device /\ <<p, d>> \in MayServe /\ Quality(p, d) = <<ntype, RSSI[<<p, d>>]>>
  <2>1. <<p, d>> \in Link /\ ntype = TypeOf(p)
    BY <1>1 DEF AttachInv, ParentRole
  <2>2. <<p, d>> \in MayServe
    BY <1>1, <2>1 DEF AttachInv, ParentRole, MayServe
  <2>3. p \in Device
    BY <2>1, RadioAssumption
  <2>4. QED
    BY <2>1, <2>2, <2>3 DEF Quality
<1>3. ParentOf' = [ParentOf EXCEPT ![d] = p]
  BY <1>1, ParentOfExcept
<1>4. CASE setup[d] = 0
  BY <1>2, <1>3, <1>4, ParentOfServes DEF Attachment!Join
<1>5. CASE setup[d] = 1 /\ Attachment!Worse(<<parent[d].type, parent[d].rssi>>, <<ntype, RSSI[<<p, d>>]>>)
  <2>1. ParentOf[d] # NullAddr /\ Quality(ParentOf[d], d) = <<parent[d].type, parent[d].rssi>>
    BY <1>5, ParentOfServes, RolesAssumption
  <2>2. Attachment!Worse(Quality(ParentOf[d], d), Quality(p, d))
    BY <1>2, <1>5, <2>1
  <2>3. QED
    BY <1>2, <1>3, <2>1, <2>2 DEF Attachment!Upgrade
<1>6. QED
  BY <1>4, <1>5 DEF AttachInv

\* A node or mobile takes an offer by rank; a sub-gateway, which only takes
\* gateways, by signal.
LEMMA OfferSteps ==
  ASSUME IInv, IInv', NEW c \in Channel,
         NodeResponse(c) \/ MobileResponse(c) \/ SubGatewayOffer(c)
  PROVE  \/ UNCHANGED <<setup, parent>>
         \/ Attachment!Join(c[2]) \/ Attachment!Upgrade(c[2])
<1> DEFINE d == c[2]
           m == Head(chan[c])
<1>1. d \in Device /\ AttachInv /\ AttachInv'
  BY ChannelEnds DEF IInv
<1>2. ASSUME NEW ch, CheckParentNode(d, ch, m)
      PROVE  UNCHANGED <<setup, parent>> \/ Attachment!Join(d) \/ Attachment!Upgrade(d)
  <2>1. CASE Adopt(d, ch, m.src, m.ntype) /\ (NotSetup(d) \/ BetterForNode(parent[d], m.ntype, RSSI[<<m.src, d>>]))
    <3>1. \/ setup[d] = 0
          \/ Attachment!Worse(<<parent[d].type, parent[d].rssi>>, <<m.ntype, RSSI[<<m.src, d>>]>>)
      BY <2>1 DEF NotSetup, BetterForNode, Attachment!Worse
    <3>2. QED
      BY <1>1, <2>1, <3>1, AdoptStep
  <2>2. CASE UNCHANGED <<parent, setup>>
    BY <2>2
  <2>3. QED
    BY <1>2, <2>1, <2>2 DEF CheckParentNode
<1>3. ASSUME NEW ch, d \in SubGateways, CheckParentSubGateway(d, ch, m)
      PROVE  UNCHANGED <<setup, parent>> \/ Attachment!Join(d) \/ Attachment!Upgrade(d)
  <2>1. CASE Adopt(d, ch, m.src, m.ntype) /\ m.ntype = GATEWAY
             /\ (NotSetup(d) \/ parent[d].rssi < RSSI[<<m.src, d>>])
    <3>1. setup[d] = 1 => parent[d].type = GATEWAY
      <4> SUFFICES ASSUME setup[d] = 1
                   PROVE  parent[d].type = GATEWAY
        OBVIOUS
      <4>1. d \notin Nodes \cup Mobiles
        BY <1>3, RolesAssumption
      <4>2. parent[d].type = TypeOf(parent[d].addr) /\ parent[d].addr \in Gateways
        BY <1>1, <4>1 DEF AttachInv, ParentRole
      <4>3. QED
        BY <4>2, TypeOfRole DEF Device
    <3>2. setup[d] \in {0, 1}
      BY <1>1 DEF AttachInv
    <3>3. \/ setup[d] = 0
          \/ Attachment!Worse(<<parent[d].type, parent[d].rssi>>, <<m.ntype, RSSI[<<m.src, d>>]>>)
      BY <2>1, <3>1, <3>2 DEF NotSetup, Attachment!Worse
    <3>4. QED
      BY <1>1, <2>1, <3>3, AdoptStep
  <2>2. CASE UNCHANGED <<parent, setup>>
    BY <2>2
  <2>3. QED
    BY <1>3, <2>1, <2>2 DEF CheckParentSubGateway
<1>4. CASE NodeResponse(c)
  BY <1>2, <1>4 DEF NodeResponse
<1>5. CASE MobileResponse(c)
  BY <1>2, <1>5 DEF MobileResponse
<1>6. CASE SubGatewayOffer(c)
  BY <1>3, <1>6 DEF SubGatewayOffer, Receives
<1>7. QED
  BY <1>4, <1>5, <1>6

\* A counted packet sent may cost the parent.
LEMMA SendAckedStep ==
  ASSUME AttachInv, NEW d \in Device, NEW ch, SendAcked(d, ch), UNCHANGED parent
  PROVE  UNCHANGED <<setup, parent>> \/ Attachment!Leave(d)
<1> DEFINE lost == (data_counter[d] + 1) % CounterSize >= UNACK_TRESH
<1>1. setup' = [setup EXCEPT ![d] = IF lost THEN 0 ELSE setup[d]]
  BY DEF SendAcked
<1>2. CASE lost
  <2>1. setup'[d] = 0 /\ \A e \in Device \ {d} : setup'[e] = setup[e] /\ parent'[e] = parent[e]
    BY <1>1, <1>2 DEF AttachInv
  <2>2. QED
    BY <2>1, LeaveStep
<1>3. CASE ~lost
  BY <1>1, <1>3 DEF AttachInv
<1>4. QED
  BY <1>2, <1>3

\* Every step moves the parents as Attachment allows, or leaves them.
LEMMA AttachmentStep == IInv /\ IInv' /\ [Next]_vars => [Attachment!Next]_ParentOf
<1> SUFFICES ASSUME IInv, IInv', Next
             PROVE  \/ UNCHANGED <<setup, parent>>
                    \/ \E d \in Device : Attachment!Join(d) \/ Attachment!Upgrade(d) \/ Attachment!Leave(d)
  <2>1. UNCHANGED <<setup, parent>> => UNCHANGED ParentOf
    BY DEF ParentOf
  <2>2. UNCHANGED vars => UNCHANGED <<setup, parent>>
    BY DEF vars
  <2>3. QED
    BY <2>1, <2>2 DEF Attachment!Next
<1>1. ASSUME NEW c \in Channel, NodeResponse(c) \/ MobileResponse(c) \/ SubGatewayOffer(c)
      PROVE  \/ UNCHANGED <<setup, parent>>
             \/ \E d \in Device : Attachment!Join(d) \/ Attachment!Upgrade(d)
  BY <1>1, OfferSteps, ChannelEnds
<1>2. ASSUME NEW c \in Channel, NodeData(c)
      PROVE  UNCHANGED <<setup, parent>> \/ \E d \in Device : Attachment!Leave(d)
  <2>1. UNCHANGED parent /\ (UNCHANGED setup \/ \E ch : SendAcked(c[2], ch))
    BY <1>2 DEF NodeData
  <2>2. QED
    BY <2>1, SendAckedStep, ChannelEnds DEF IInv
<1>3. ASSUME NEW c \in Channel, Receive(c), ~NodeData(c),
             ~(NodeResponse(c) \/ MobileResponse(c) \/ SubGatewayOffer(c))
      PROVE  UNCHANGED <<setup, parent>>
  BY <1>3 DEF Receive, NodeSetup, NodeSetupAck, NodeChildRm, NodeDataAck,
              SubGatewaySetup, SubGatewaySetupAck, SubGatewayChildRm, SubGatewayDataAck,
              SubGatewayData, GatewaySetup, GatewaySetupAck, GatewayIgnore, GatewayData,
              MobileSetupAck, MobileDataAck, MobileIgnore
<1>4. ASSUME NEW d \in Device, Act(d)
      PROVE  UNCHANGED <<setup, parent>> \/ Attachment!Leave(d)
  <2>1. CASE SendReport(d)
    BY <2>1, SendAckedStep DEF SendReport, IInv
  <2>2. CASE SendSetup(d) \/ SendQuery(d)
    BY <2>2 DEF SendSetup, SendQuery
  <2>3. QED
    BY <1>4, <2>1, <2>2 DEF Act
<1>5. ASSUME NEW d \in Device, Reboot(d)
      PROVE  Attachment!Leave(d)
  <2>1. setup'[d] = 0 /\ \A e \in Device \ {d} : setup'[e] = setup[e] /\ parent'[e] = parent[e]
    BY <1>5 DEF Reboot, IInv, AttachInv
  <2>2. QED
    BY <2>1, LeaveStep
<1>6. CASE \E g \in Gateways : CommandBarn(g) \/ IrrigateAll(g)
  BY <1>6 DEF CommandBarn, IrrigateAll
<1>7. CASE \E c \in Channel : Lose(c)
  BY <1>7 DEF Lose
<1>8. QED
  BY <1>1, <1>2, <1>3, <1>4, <1>5, <1>6, <1>7 DEF Next

\* Every device's parent moves as Attachment says: it joins a device that may
\* serve it, exchanges it for a strictly better one, or leaves it, although the
\* offers it compares cross in the air and the record of its parent is old.
THEOREM Refinement == Spec => AttachmentSpec
<1>1. Init => Attachment!Init
  BY DEF Init, ParentOf, Attachment!Init
<1>2. QED
  BY <1>1, AttachmentStep, Invariance, PTL DEF Spec, AttachmentSpec, Attachment!Spec
===============================================================================
