------------------------------- MODULE Routing --------------------------------
(***************************************************************************)
(* The tree routing protocol of routing/custom-routing.c together with the *)
(* process loops of the devices that drive it: gateways, sub-gateways (one *)
(* per barn), nodes (plain nodes, light sensors, light bulbs, irrigation   *)
(* valves) and mobiles.                                                    *)
(*                                                                         *)
(* A handler runs to completion (Contiki processes and the NullNet input   *)
(* callback are not preempted by one another), so a step is one packet     *)
(* handled by one device, one timer-driven send of a process, one command  *)
(* read from the serial line, or one fault: a lost frame or a reboot.      *)
(***************************************************************************)
EXTENDS ChildTable, Integers, FiniteSets

CONSTANTS
  Gateways,      \* devices running gateway.c
  SubGateways,   \* devices running sub-gateway.c
  Nodes,         \* devices running node.c, node-light-sensor.c, light-bulb.c or irrigation-valve.c
  Mobiles,       \* devices running mobile.c
  NullAddr,      \* the zero address: a broadcast for the MAC, and a parent never set
  StackAddrs,    \* what an uninitialised linkaddr_t on the stack may hold
  Link,          \* <<s, r>>: r hears s
  RSSI,          \* RSSI[<<s, r>>]: the strength at which r receives s
  GroupOf,       \* the multicast group each device announces itself with
  MaxChildren,   \* entries of children[] and of barns[]: 16 in the code
  QueueSize,     \* frames the MAC queues for one neighbour before it drops
  Budget         \* bound: how often each kind of stimulus and fault may occur, -1 for no bound

Device == Gateways \cup SubGateways \cup Nodes \cup Mobiles

\* Node types and control or data packet kinds (custom-routing.h).
NODE == 0
SUB_GATEWAY == 1
GATEWAY == 2

UNICAST_GROUP == 0
LIGHT_BULB_GROUP == 1
IRRIGATION_GROUP == 2
LIGHT_SENSOR_GROUP == 3
Groups == 0..15

Kinds == {"SETUP", "RESPONSE", "SETUP_ACK", "DATA_ACK", "CHILD_RM", "DATA_UP", "DATA_DOWN"}
Flags == {"NOT_MOBILE", "DATA_QUERY", "DATA_RESPONSE"}

UNACK_TRESH == 2
CounterSize == 256          \* data_counter is a uint8_t

Stimuli == {"setups", "reports", "queries", "commands", "losses", "reboots"}
Casts == {"unicast", "broadcast"}
Channel == {c \in Device \X Device \X Casts : <<c[1], c[2]>> \in Link}

ASSUME RolesAssumption ==
  /\ Gateways \cap (SubGateways \cup Nodes \cup Mobiles) = {}
  /\ SubGateways \cap (Nodes \cup Mobiles) = {}
  /\ Nodes \cap Mobiles = {}
  /\ NullAddr \notin Device
ASSUME RadioAssumption ==
  /\ Link \subseteq {p \in Device \X Device : p[1] # p[2]}
  /\ RSSI \in [Link -> -128..127]
  /\ StackAddrs # {}
ASSUME GroupAssumption ==
  /\ GroupOf \in [Device -> Groups]
  /\ \A d \in SubGateways \cup Mobiles : GroupOf[d] = UNICAST_GROUP
\* The network fits the tables, which the code never checks: see TableFits.
ASSUME SizeAssumption ==
  /\ IsFiniteSet(Device)
  /\ MaxChildren \in Nat /\ Cardinality(Device) <= MaxChildren
  /\ QueueSize \in Nat \ {0}
  /\ Budget \in [Stimuli -> Int]

VARIABLES
  setup,         \* setup[d]: 1 when d believes it has a parent
  parent,        \* parent[d]: parent_t [addr, type, rssi]
  children,      \* children[d]: the children table of d
  data_counter,  \* data_counter[d]: data packets sent minus acknowledgements received
  barns,         \* barns[g]: the barns of gateway g, first barns_size entries
  chan,          \* chan[c]: the frames queued or in the air on channel c
  budget         \* bound: stimuli and faults that may still occur

vars == <<setup, parent, children, data_counter, barns, chan, budget>>

-------------------------------------------------------------------------------
(* Packets and the radio *)

TypeOf(d) == IF d \in Gateways THEN GATEWAY
             ELSE IF d \in SubGateways THEN SUB_GATEWAY ELSE NODE

\* A packet as its receiver decodes it.  "src" is the first address of the
\* frame: its sender for a control packet, its origin for a data packet.
\* "addr" is the device a SETUP_ACK, CHILD_RM or DATA_ACK is about.
Control(kind, src, ntype, addr, group) ==
  [kind |-> kind, src |-> src, ntype |-> ntype, addr |-> addr, group |-> group,
   flag |-> "NOT_MOBILE"]
Data(kind, src, group, flag) ==
  [kind |-> kind, src |-> src, ntype |-> NODE, addr |-> NullAddr, group |-> group,
   flag |-> flag]

\* NETSTACK_NETWORK.output: a frame to the zero address is broadcast, any other
\* is for one neighbour.  One FIFO per pair of neighbours and kind of cast: CSMA
\* keeps a queue per destination and drops a frame when that queue is full.
Reaches(c, s, dest) ==
  /\ c[1] = s
  /\ IF dest = NullAddr THEN c[3] = "broadcast" ELSE c[3] = "unicast" /\ c[2] = dest

Queued(ch, C, m) ==
  [c \in Channel |->
     IF c \in C /\ Len(ch[c]) < QueueSize THEN Append(ch[c], m) ELSE ch[c]]

Output(ch, s, dest, m) == Queued(ch, {c \in Channel : Reaches(c, s, dest)}, m)

\* One unicast of m to each of the next hops.
OutputAll(ch, s, hops, m) ==
  Queued(ch, {c \in Channel : \E hop \in hops : Reaches(c, s, hop)}, m)

\* The frame at the head of channel c is one of these kinds and c ends at a
\* device of D; the rest of the channel once it is taken.
Receives(c, D, kinds) ==
  /\ c[2] \in D
  /\ chan[c] # <<>>
  /\ Head(chan[c]).kind \in kinds
Taken(c) == [chan EXCEPT ![c] = Tail(@)]

Spend(stimulus) ==
  /\ budget[stimulus] # 0
  /\ budget' = [budget EXCEPT ![stimulus] = IF @ > 0 THEN @ - 1 ELSE @]

-------------------------------------------------------------------------------
(* Functions shared by the handlers *)

NotSetup(d) == setup[d] = 0

\* get_children into an uninitialised nexthop: when there is no entry it keeps
\* whatever the stack held.
Hops(table, a) == IF Has(table, a) THEN {NextHop(table, a)} ELSE StackAddrs

\* A fault: set_parent leaves the signal strength of the previous parent.
AdoptKeepsSignal(d, ch, src, ntype) ==
  /\ parent' = [parent EXCEPT ![d] = [@ EXCEPT !.addr = src, !.type = ntype]]
  /\ setup' = [setup EXCEPT ![d] = 1]
  /\ chan' = Output(ch, d, src, Control("SETUP_ACK", d, TypeOf(d), d, GroupOf[d]))

\* A fault: the signal strength is taken for an unsigned byte.
AdoptUnsigned(d, ch, src, ntype) ==
  /\ parent' = [parent EXCEPT ![d] =
                  [addr |-> src, type |-> ntype, rssi |-> RSSI[<<src, d>>] + 256]]
  /\ setup' = [setup EXCEPT ![d] = 1]
  /\ chan' = Output(ch, d, src, Control("SETUP_ACK", d, TypeOf(d), d, GroupOf[d]))

\* A fault: the new parent is not told.
AdoptSilently(d, ch, src, ntype) ==
  /\ parent' = [parent EXCEPT ![d] =
                  [addr |-> src, type |-> ntype, rssi |-> RSSI[<<src, d>>]]]
  /\ setup' = [setup EXCEPT ![d] = 1]
  /\ chan' = ch

\* set_parent: remember the parent and announce ourselves to it.
Adopt(d, ch, src, ntype) ==
  /\ parent' = [parent EXCEPT ![d] =
                  [addr |-> src, type |-> ntype, rssi |-> RSSI[<<src, d>>]]]
  /\ setup' = [setup EXCEPT ![d] = 1]
  /\ chan' = Output(ch, d, src, Control("SETUP_ACK", d, TypeOf(d), d, GroupOf[d]))

\* A fault: the comparison of signals is the wrong way round.
BetterReversed(p, ntype, rssi) == p.type < ntype \/ (p.type = ntype /\ p.rssi > rssi)

\* When check_parent_node prefers an offer to the current parent.
BetterForNode(p, ntype, rssi) ==
  \/ p.type < ntype
  \/ p.type = ntype /\ p.rssi < rssi

\* A fault: a device without a parent compares the offer with the record of none.
CheckAlwaysCompares(d, ch, m) ==
  IF m.ntype # GATEWAY /\ BetterForNode(parent[d], m.ntype, RSSI[<<m.src, d>>])
  THEN Adopt(d, ch, m.src, m.ntype)
  ELSE chan' = ch /\ UNCHANGED <<parent, setup>>

CheckParentNode(d, ch, m) ==
  IF /\ m.ntype # GATEWAY
     /\ NotSetup(d) \/ BetterForNode(parent[d], m.ntype, RSSI[<<m.src, d>>])
  THEN Adopt(d, ch, m.src, m.ntype)
  ELSE chan' = ch /\ UNCHANGED <<parent, setup>>

CheckParentSubGateway(d, ch, m) ==
  IF /\ m.ntype = GATEWAY
     /\ NotSetup(d) \/ parent[d].rssi < RSSI[<<m.src, d>>]
  THEN Adopt(d, ch, m.src, m.ntype)
  ELSE chan' = ch /\ UNCHANGED <<parent, setup>>

\* A fault: the child is taken to be a neighbour.
ChildIsNeighbour(m) == [addr |-> m.addr, from |-> m.addr, group |-> m.group]

\* set_child on a SETUP_ACK: update the table and, when the child moved, tell the
\* hop it used to be behind.
ChildOf(m) == [addr |-> m.addr, from |-> m.src, group |-> m.group]

AfterSetChild(d, ch, m) ==
  IF Superseded(children[d], ChildOf(m))
  THEN Output(ch, d, NextHop(children[d], m.addr), Control("CHILD_RM", d, NODE, m.addr, UNICAST_GROUP))
  ELSE ch

\* A fault: the SETUP_ACK is relayed as it came, with its first sender.
RegisterVerbatim(d, ch, m) ==
  /\ children' = [children EXCEPT ![d] = SetChild(@, ChildOf(m))]
  /\ chan' = Output(AfterSetChild(d, ch, m), d, parent[d].addr, m)

\* set_child, then send_child of the last entry of the table to the parent.
RegisterChild(d, ch, m) ==
  LET table == SetChild(children[d], ChildOf(m))
      last  == LastChild(table)
  IN /\ children' = [children EXCEPT ![d] = table]
     /\ chan' = Output(AfterSetChild(d, ch, m), d, parent[d].addr,
                       Control("SETUP_ACK", d, TypeOf(d), last.addr, last.group))

\* rm_child: forget the entry and pass the removal on, unless the next hop read
\* was the removed device.
ForgetChild(d, ch, m) ==
  \E hop \in Hops(children[d], m.addr) :
    /\ children' = [children EXCEPT ![d] = RemoveChild(@, m.addr)]
    /\ chan' = IF hop = m.addr THEN ch
               ELSE Output(ch, d, hop, Control("CHILD_RM", d, NODE, m.addr, UNICAST_GROUP))

\* A fault: whoever receives an acknowledgement takes it for its own.
PassAckNever(d, ch, m) ==
  /\ data_counter' = [data_counter EXCEPT ![d] = (@ + CounterSize - 1) % CounterSize]
  /\ chan' = ch

\* process_data_ack: ours, or one more hop down.
PassAck(d, ch, m) ==
  IF m.addr = d
  THEN /\ data_counter' = [data_counter EXCEPT ![d] = (@ + CounterSize - 1) % CounterSize]
       /\ chan' = ch
  ELSE /\ \E hop \in Hops(children[d], m.addr) :
            chan' = Output(ch, d, hop, Control("DATA_ACK", d, NODE, m.addr, UNICAST_GROUP))
       /\ UNCHANGED data_counter

\* The channels after forward_data_packet: up to the parent, or down to every
\* next hop of the packet's group.
Forwarded(d, ch, m) ==
  IF m.kind = "DATA_UP" THEN Output(ch, d, parent[d].addr, m)
  ELSE OutputAll(ch, d, GroupHops(children[d], m.group), m)

\* send_data_packet with ack = 1, up to the parent: count the packet, and give
\* the parent up when too many are unanswered.
SendAcked(d, ch) ==
  LET sent == (data_counter[d] + 1) % CounterSize
      lost == sent >= UNACK_TRESH
  IN /\ chan' = Output(ch, d, parent[d].addr, Data("DATA_UP", d, UNICAST_GROUP, "NOT_MOBILE"))
     /\ data_counter' = [data_counter EXCEPT ![d] = IF lost THEN 0 ELSE sent]
     /\ setup' = [setup EXCEPT ![d] = IF lost THEN 0 ELSE @]

-------------------------------------------------------------------------------
(* What the processes do on their own *)

NoParent == [addr |-> NullAddr, type |-> NODE, rssi |-> 0]

SetupOf(d) == Control("SETUP", d, TypeOf(d), NullAddr, UNICAST_GROUP)

\* Everyone has booted; each gateway has broadcast its SETUP (init_gateway).
Init ==
  /\ setup = [d \in Device |-> 0]
  /\ parent = [d \in Device |-> NoParent]
  /\ children = [d \in Device |-> <<>>]
  /\ data_counter = [d \in Device |-> 0]
  /\ barns = [g \in Gateways |-> <<>>]
  /\ chan = [c \in Channel |->
               IF c[1] \in Gateways /\ c[3] = "broadcast" THEN <<SetupOf(c[1])>> ELSE <<>>]
  /\ budget = Budget

\* init_node, init_sub_gateway: the loop of a device that is not set up.
SendSetup(d) ==
  /\ d \notin Gateways
  /\ NotSetup(d)
  /\ Spend("setups")
  /\ chan' = Output(chan, d, NullAddr, SetupOf(d))
  /\ UNCHANGED <<setup, parent, children, data_counter, barns>>

\* keep_alive, or the light sensor's reading: the loop of a device that is set up.
SendReport(d) ==
  /\ d \notin Gateways
  /\ ~NotSetup(d)
  /\ Spend("reports")
  /\ SendAcked(d, chan)
  /\ UNCHANGED <<parent, children, barns>>

\* The mobile's query, which asks for no acknowledgement.
SendQuery(d) ==
  /\ d \in Mobiles
  /\ ~NotSetup(d)
  /\ Spend("queries")
  /\ chan' = Output(chan, d, parent[d].addr, Data("DATA_UP", d, UNICAST_GROUP, "DATA_QUERY"))
  /\ UNCHANGED <<setup, parent, children, data_counter, barns>>

\* Barn number i (from 1 here): one beyond barns_size reads a zero address.
BarnAddr(g, i) == IF i \in DOMAIN barns[g] THEN barns[g][i] ELSE NullAddr

\* decide_action, for one barn and for all.
CommandOne(g, i, group) ==
  chan' = Output(chan, g, BarnAddr(g, i), Data("DATA_DOWN", g, group, "NOT_MOBILE"))
CommandAll(g) ==
  chan' = OutputAll(chan, g, {barns[g][i] : i \in DOMAIN barns[g]},
                    Data("DATA_DOWN", g, IRRIGATION_GROUP, "NOT_MOBILE"))

CommandBarn(g) ==
  /\ Spend("commands")
  /\ \E i \in 1..MaxChildren, group \in {LIGHT_BULB_GROUP, IRRIGATION_GROUP} :
       CommandOne(g, i, group)
  /\ UNCHANGED <<setup, parent, children, data_counter, barns>>

IrrigateAll(g) ==
  /\ Spend("commands")
  /\ CommandAll(g)
  /\ UNCHANGED <<setup, parent, children, data_counter, barns>>

-------------------------------------------------------------------------------
(* process_node_packet: nodes *)

NodeSetup(c) ==
  LET d == c[2]
      m == Head(chan[c])
  IN /\ Receives(c, Nodes, {"SETUP"})
     /\ chan' = IF NotSetup(d) THEN Taken(c)
                ELSE Output(Taken(c), d, m.src, Control("RESPONSE", d, NODE, NullAddr, UNICAST_GROUP))
     /\ UNCHANGED <<setup, parent, children, data_counter, barns, budget>>

NodeResponse(c) ==
  /\ Receives(c, Nodes, {"RESPONSE"})
  /\ CheckParentNode(c[2], Taken(c), Head(chan[c]))
  /\ UNCHANGED <<children, data_counter, barns, budget>>

NodeSetupAck(c) ==
  /\ Receives(c, Nodes, {"SETUP_ACK"})
  /\ RegisterChild(c[2], Taken(c), Head(chan[c]))
  /\ UNCHANGED <<setup, parent, data_counter, barns, budget>>

NodeChildRm(c) ==
  /\ Receives(c, Nodes, {"CHILD_RM"})
  /\ ForgetChild(c[2], Taken(c), Head(chan[c]))
  /\ UNCHANGED <<setup, parent, data_counter, barns, budget>>

NodeDataAck(c) ==
  /\ Receives(c, Nodes, {"DATA_ACK"})
  /\ PassAck(c[2], Taken(c), Head(chan[c]))
  /\ UNCHANGED <<setup, parent, children, barns, budget>>

\* What the application of a node does with a data packet it received, after
\* process_node_packet: a valve acknowledges an irrigation command, and a light
\* sensor answers a mobile's query, whether or not they are set up.
StartsIrrigation(d, m) ==
  /\ GroupOf[d] = IRRIGATION_GROUP
  /\ m.kind = "DATA_DOWN" /\ m.group = IRRIGATION_GROUP /\ m.flag = "NOT_MOBILE"

AsksSensor(d, m) ==
  /\ GroupOf[d] = LIGHT_SENSOR_GROUP
  /\ m.group = LIGHT_SENSOR_GROUP /\ m.flag = "DATA_QUERY"

NodeData(c) ==
  LET d  == c[2]
      m  == Head(chan[c])
      ch == IF NotSetup(d) THEN Taken(c) ELSE Forwarded(d, Taken(c), m)
  IN /\ Receives(c, Nodes, {"DATA_UP", "DATA_DOWN"})
     /\ IF StartsIrrigation(d, m)
        THEN SendAcked(d, ch)
        ELSE /\ chan' = IF AsksSensor(d, m)
                        THEN Output(ch, d, parent[d].addr,
                                    Data("DATA_UP", d, UNICAST_GROUP, "DATA_RESPONSE"))
                        ELSE ch
             /\ UNCHANGED <<setup, data_counter>>
     /\ UNCHANGED <<parent, children, barns, budget>>

-------------------------------------------------------------------------------
(* process_sub_gateway_packet: sub-gateways *)

SubGatewaySetup(c) ==
  LET d == c[2]
      m == Head(chan[c])
  IN /\ Receives(c, SubGateways, {"SETUP"})
     /\ m.ntype # GATEWAY
     /\ chan' = IF NotSetup(d) \/ m.ntype = SUB_GATEWAY THEN Taken(c)
                ELSE Output(Taken(c), d, m.src,
                            Control("RESPONSE", d, SUB_GATEWAY, NullAddr, UNICAST_GROUP))
     /\ UNCHANGED <<setup, parent, children, data_counter, barns, budget>>

\* The broadcast or the answer of a gateway; a RESPONSE of anybody else is ignored.
SubGatewayOffer(c) ==
  LET m == Head(chan[c])
  IN /\ Receives(c, SubGateways, {"SETUP", "RESPONSE"})
     /\ m.kind = "RESPONSE" \/ m.ntype = GATEWAY
     /\ CheckParentSubGateway(c[2], Taken(c), m)
     /\ UNCHANGED <<children, data_counter, barns, budget>>

SubGatewaySetupAck(c) ==
  /\ Receives(c, SubGateways, {"SETUP_ACK"})
  /\ RegisterChild(c[2], Taken(c), Head(chan[c]))
  /\ UNCHANGED <<setup, parent, data_counter, barns, budget>>

SubGatewayChildRm(c) ==
  /\ Receives(c, SubGateways, {"CHILD_RM"})
  /\ ForgetChild(c[2], Taken(c), Head(chan[c]))
  /\ UNCHANGED <<setup, parent, data_counter, barns, budget>>

SubGatewayDataAck(c) ==
  /\ Receives(c, SubGateways, {"DATA_ACK"})
  /\ PassAck(c[2], Taken(c), Head(chan[c]))
  /\ UNCHANGED <<setup, parent, children, barns, budget>>

\* A fault: nothing is turned round.
NotTurned(m) == m

\* A sub-gateway turns a mobile's query round, down to the group it asks for
\* (mobile.c asks for the light sensors), and a sensor's answer down to the
\* group the answer carries.
TurnedRound(m) ==
  CASE m.flag = "NOT_MOBILE"    -> m
    [] m.flag = "DATA_QUERY"    -> [m EXCEPT !.kind = "DATA_DOWN", !.group = LIGHT_SENSOR_GROUP]
    [] m.flag = "DATA_RESPONSE" -> [m EXCEPT !.kind = "DATA_DOWN"]

SubGatewayData(c) ==
  LET d == c[2]
  IN /\ Receives(c, SubGateways, {"DATA_UP", "DATA_DOWN"})
     /\ chan' = IF NotSetup(d) THEN Taken(c)
                ELSE Forwarded(d, Taken(c), TurnedRound(Head(chan[c])))
     /\ UNCHANGED <<setup, parent, children, data_counter, barns, budget>>

-------------------------------------------------------------------------------
(* process_gateway_packet: gateways *)

GatewaySetup(c) ==
  LET d == c[2]
      m == Head(chan[c])
  IN /\ Receives(c, Gateways, {"SETUP"})
     /\ chan' = IF m.ntype # SUB_GATEWAY THEN Taken(c)
                ELSE Output(Taken(c), d, m.src,
                            Control("RESPONSE", d, GATEWAY, NullAddr, UNICAST_GROUP))
     /\ UNCHANGED <<setup, parent, children, data_counter, barns, budget>>

\* Faults: a sub-gateway that is known becomes a barn again; a new barn is put first.
BarnsRepeated(list, last, src) == IF last.addr = last.from THEN Append(list, src) ELSE list
BarnsNewestFirst(list, last, src) ==
  IF last.addr = last.from /\ ~ \E i \in DOMAIN list : list[i] = src
  THEN <<src>> \o list
  ELSE list

\* The barns after a SETUP_ACK: when the LAST entry of the children table is a
\* direct child, the sender becomes a barn unless it is one already.
BarnsWith(list, last, src) ==
  IF last.addr = last.from /\ ~ \E i \in DOMAIN list : list[i] = src
  THEN Append(list, src)
  ELSE list

\* A SETUP_ACK of a sub-gateway about itself or a device below it: register the
\* child and perhaps the barn; nothing is passed on.
GatewaySetupAck(c) ==
  LET d     == c[2]
      m     == Head(chan[c])
      table == SetChild(children[d], ChildOf(m))
  IN /\ Receives(c, Gateways, {"SETUP_ACK"})
     /\ m.ntype = SUB_GATEWAY
     /\ children' = [children EXCEPT ![d] = table]
     /\ chan' = AfterSetChild(d, Taken(c), m)
     /\ barns' = [barns EXCEPT ![d] = BarnsWith(@, LastChild(table), m.src)]
     /\ UNCHANGED <<setup, parent, data_counter, budget>>

\* Every other control packet: from a device that is no sub-gateway, or of a
\* kind the gateway has no branch for.
GatewayIgnore(c) ==
  /\ Receives(c, Gateways, {"SETUP_ACK", "RESPONSE", "CHILD_RM", "DATA_ACK"})
  /\ Head(chan[c]).kind = "SETUP_ACK" => Head(chan[c]).ntype # SUB_GATEWAY
  /\ chan' = Taken(c)
  /\ UNCHANGED <<setup, parent, children, data_counter, barns, budget>>

\* A data packet is acknowledged to its origin, through the next hop towards it.
AcknowledgeVia(c, hop) ==
  chan' = Output(Taken(c), c[2], hop,
                 Control("DATA_ACK", c[2], GATEWAY, Head(chan[c]).src, UNICAST_GROUP))

GatewayData(c) ==
  /\ Receives(c, Gateways, {"DATA_UP", "DATA_DOWN"})
  /\ \E hop \in Hops(children[c[2]], Head(chan[c]).src) : AcknowledgeVia(c, hop)
  /\ UNCHANGED <<setup, parent, children, data_counter, barns, budget>>

-------------------------------------------------------------------------------
(* process_mobile_packet: mobiles *)

MobileResponse(c) ==
  /\ Receives(c, Mobiles, {"RESPONSE"})
  /\ CheckParentNode(c[2], Taken(c), Head(chan[c]))
  /\ UNCHANGED <<children, data_counter, barns, budget>>

MobileSetupAck(c) ==
  /\ Receives(c, Mobiles, {"SETUP_ACK"})
  /\ RegisterChild(c[2], Taken(c), Head(chan[c]))
  /\ UNCHANGED <<setup, parent, data_counter, barns, budget>>

MobileDataAck(c) ==
  /\ Receives(c, Mobiles, {"DATA_ACK"})
  /\ PassAck(c[2], Taken(c), Head(chan[c]))
  /\ UNCHANGED <<setup, parent, children, barns, budget>>

MobileIgnore(c) ==
  /\ Receives(c, Mobiles, {"SETUP", "CHILD_RM", "DATA_UP", "DATA_DOWN"})
  /\ chan' = Taken(c)
  /\ UNCHANGED <<setup, parent, children, data_counter, barns, budget>>

-------------------------------------------------------------------------------
(* Faults *)

\* The MAC gives up on a frame.
Lose(c) ==
  /\ chan[c] # <<>>
  /\ Spend("losses")
  /\ chan' = Taken(c)
  /\ UNCHANGED <<setup, parent, children, data_counter, barns>>

\* A device restarts: nothing is kept in non-volatile memory, and a gateway
\* broadcasts its SETUP again.
Reboot(d) ==
  /\ Spend("reboots")
  /\ setup' = [setup EXCEPT ![d] = 0]
  /\ parent' = [parent EXCEPT ![d] = NoParent]
  /\ children' = [children EXCEPT ![d] = <<>>]
  /\ data_counter' = [data_counter EXCEPT ![d] = 0]
  /\ barns' = [g \in Gateways |-> IF g = d THEN <<>> ELSE barns[g]]
  /\ chan' = IF d \in Gateways THEN Output(chan, d, NullAddr, SetupOf(d)) ELSE chan

-------------------------------------------------------------------------------
Receive(c) ==
  \/ NodeSetup(c) \/ NodeResponse(c) \/ NodeSetupAck(c) \/ NodeChildRm(c)
  \/ NodeDataAck(c) \/ NodeData(c)
  \/ SubGatewaySetup(c) \/ SubGatewayOffer(c) \/ SubGatewaySetupAck(c)
  \/ SubGatewayChildRm(c) \/ SubGatewayDataAck(c) \/ SubGatewayData(c)
  \/ GatewaySetup(c) \/ GatewaySetupAck(c) \/ GatewayIgnore(c) \/ GatewayData(c)
  \/ MobileResponse(c) \/ MobileSetupAck(c) \/ MobileDataAck(c) \/ MobileIgnore(c)

Act(d) == SendSetup(d) \/ SendReport(d) \/ SendQuery(d)

Next ==
  \/ \E c \in Channel : Receive(c)
  \/ \E d \in Device : Act(d)
  \/ \E g \in Gateways : CommandBarn(g) \/ IrrigateAll(g)
  \/ \E c \in Channel : Lose(c)
  \/ \E d \in Device : Reboot(d)

Spec == Init /\ [][Next]_vars

\* A frame that is not lost is handled, and a device that is not set up keeps
\* broadcasting SETUP: the etimer loops never stop.
FairSpec ==
  /\ Spec
  /\ \A c \in Channel : WF_vars(Receive(c))
  /\ \A d \in Device : WF_vars(SendSetup(d))

-------------------------------------------------------------------------------
(* Types *)

Parent == [addr : Device \cup {NullAddr}, type : {NODE, SUB_GATEWAY, GATEWAY}, rssi : -128..127]
Child == [addr : Device, from : Device, group : Groups]
Packet == [kind : Kinds, src : Device, ntype : {NODE, SUB_GATEWAY, GATEWAY},
           addr : Device \cup {NullAddr}, group : Groups, flag : Flags]

\* The variables have their types: the counter stays a byte, and a table only
\* ever holds addresses of devices, never one read from the stack.
TypeOK ==
  /\ setup \in [Device -> {0, 1}]
  /\ parent \in [Device -> Parent]
  /\ children \in [Device -> Seq(Child)]
  /\ data_counter \in [Device -> 0..(CounterSize - 1)]
  /\ barns \in [Gateways -> Seq(Device)]
  /\ chan \in [Channel -> Seq(Packet)]
  /\ budget \in [Stimuli -> Int]

-------------------------------------------------------------------------------
(* Safety, whatever is lost and whoever restarts *)

\* A control packet is signed by the device it was received from and tells that
\* device's role, also when it relays what another device announced; only a
\* device that takes children offers itself.  Parents and next hops are chosen by
\* this signature alone.
ControlGenuine ==
  \A c \in Channel : \A i \in DOMAIN chan[c] :
    LET p == chan[c][i]
    IN /\ p.kind \notin {"DATA_UP", "DATA_DOWN"} => p.src = c[1]
       /\ p.kind \in {"SETUP", "RESPONSE", "SETUP_ACK"} => p.ntype = TypeOf(c[1])
       /\ p.kind = "RESPONSE" => c[1] \notin Mobiles
       /\ p.kind = "SETUP_ACK" => p.addr \in Device

\* A table never holds two entries for one device, whatever order the SETUP_ACKs
\* and CHILD_RMs about it arrive in: set_child and rm_child agree on which entry
\* is the device's, so get_children never answers with a shadowed route.
NoDuplicateChild == \A d \in Device : UniqueAddrs(children[d])

\* children[] and barns[], whose bound the code never checks (set_child and the
\* gateway's SETUP_ACK branch), are not overrun in a network of at most
\* MaxChildren devices.
TableFits ==
  /\ \A d \in Device : Len(children[d]) <= MaxChildren
  /\ \A g \in Gateways : Len(barns[g]) <= MaxChildren

\* The layers of the tree: a device that believes it has a parent has one it can
\* hear, whose role and signal it recorded: a gateway above a sub-gateway, a
\* sub-gateway or a node above a node or a mobile, and never a mobile above
\* anyone.  A gateway has no parent.
ParentRole ==
  \A d \in Device : setup[d] = 1 =>
    LET p == parent[d].addr
    IN /\ <<p, d>> \in Link
       /\ parent[d].type = TypeOf(p) /\ parent[d].rssi = RSSI[<<p, d>>]
       /\ \/ d \in SubGateways /\ p \in Gateways
          \/ d \in Nodes \cup Mobiles /\ p \in SubGateways \cup Nodes

\* Every route of every table starts with a hop to a neighbour this device has
\* heard, and the gateway only routes through sub-gateways: a device is never
\* reached around its barn.
NextHopHeard ==
  \A d \in Device : \A i \in DOMAIN children[d] :
    LET hop == children[d][i].from
    IN /\ <<hop, d>> \in Link
       /\ d \in Gateways => hop \in SubGateways

\* The barns of a gateway are distinct sub-gateways it has heard, so a barn
\* number names one barn.
BarnsDistinct ==
  \A g \in Gateways :
    /\ \A i, j \in DOMAIN barns[g] : barns[g][i] = barns[g][j] => i = j
    /\ \A i \in DOMAIN barns[g] : barns[g][i] \in SubGateways /\ <<barns[g][i], g>> \in Link

\* A barn keeps its number for as long as its gateway runs, however often its
\* sub-gateway reconnects or restarts.
BarnNumberStable ==
  [][\A g \in Gateways : \A i \in DOMAIN barns[g] :
       \/ i \in DOMAIN barns'[g] /\ barns'[g][i] = barns[g][i]
       \/ Reboot(g)]_vars

-------------------------------------------------------------------------------
(* What a device promises about its attachment: it joins a parent that may     *)
(* serve it, exchanges it only for a strictly better one, or leaves it.        *)

MayServe == Link \cap (Gateways \X SubGateways
                       \cup (SubGateways \cup Nodes) \X (Nodes \cup Mobiles))
Quality(p, d) == <<TypeOf(p), RSSI[<<p, d>>]>>
ParentOf == [d \in Device |-> IF setup[d] = 1 THEN parent[d].addr ELSE NullAddr]

Attachment == INSTANCE Attachment WITH
  Devices <- Device, None <- NullAddr, Offers <- MayServe, Rank <- Quality, up <- ParentOf

\* The parent of every device moves as the abstract specification says.
AttachmentSpec == Attachment!Spec

-------------------------------------------------------------------------------
(* Routes and acknowledgements, in a network that loses nothing *)

AtRest == \A c \in Channel : chan[c] = <<>>

\* Where a packet for d is after k hops from gateway g, each device consulting
\* its own table with get_children.
HopsTowards(g, d) ==
  LET walk[k \in 0..Cardinality(Device)] ==
        IF k = 0 THEN g
        ELSE LET at == walk[k - 1]
             IN IF at # d /\ Has(children[at], d) THEN NextHop(children[at], d) ELSE at
  IN walk

\* Once the traffic of a forming network is over, the tables of the devices from
\* some gateway down lead to every attached device, although each table was
\* filled from announcements that took different ways and may have crossed.
RoutesAtRest ==
  AtRest =>
    \A d \in Device : setup[d] = 1 =>
      \E g \in Gateways : HopsTowards(g, d)[Cardinality(Device)] = d

\* What goes up the tree (custom-routing.h:57) comes nearer to a gateway: no device
\* is, through its parents, below itself.
NoRoutingLoop ==
  ~ \E S \in (SUBSET Device) \ {{}} : \A d \in S : setup[d] = 1 /\ parent[d].addr \in S

\* Every barn number leads to a sub-gateway that announced itself: the table has
\* it as a direct child.
BarnRouted ==
  \A g \in Gateways : \A i \in DOMAIN barns[g] :
    LET b == barns[g][i]
    IN Has(children[g], b) /\ NextHop(children[g], b) = b

\* data_counter counts exactly the reports of a device that are still on their
\* way up and the acknowledgements still on their way down to it: however the
\* device changes its parent meanwhile, no report and no acknowledgement strays.
Concerns(p, d) ==
  \/ p.kind = "DATA_UP" /\ p.src = d /\ p.flag = "NOT_MOBILE"
  \/ p.kind = "DATA_ACK" /\ p.addr = d

AcksFindTheirWay ==
  LET frames == UNION {{c} \X DOMAIN chan[c] : c \in {c \in Channel : chan[c] # <<>>}}
  IN \A d \in Device :
       data_counter[d] = Cardinality({f \in frames : Concerns(chan[f[1]][f[2]], d)})

\* The exchange between a mobile and the sensors of a barn stays inside the barn:
\* no query and no answer is ever sent to a gateway, whoever restarts.  (A sensor
\* that restarted has no parent, and broadcasts its answer to all who hear it.)
QueriesStayInBarn ==
  \A c \in Channel : c[2] \in Gateways /\ c[3] = "unicast" =>
    \A i \in DOMAIN chan[c] : chan[c][i].flag = "NOT_MOBILE"

-------------------------------------------------------------------------------
(* Liveness *)

\* Every device that can reach a gateway ends up attached for good, though its
\* neighbours only answer once they are attached themselves and a frame is lost.
EveryoneAttaches == <>[](\A d \in Device \ Gateways : setup[d] = 1)

-------------------------------------------------------------------------------
(* What comments and messages of the code say of it, and the code does not do *)

\* The counter never passes below zero: "Connection to parent lost" is only said
\* when as many packets as UNACK_TRESH are unanswered.
NoCounterUnderflow == \A d \in Device : data_counter[d] <= UNACK_TRESH

\* "Forwarding child to gateway": the child a device was just told about.
ForwardsNewChild ==
  [][\A c \in Channel :
       LET child == Head(chan[c]).addr
       IN NodeSetupAck(c) \/ SubGatewaySetupAck(c) =>
            \A e \in Channel \ {c} :
              LET k == Len(chan'[e])
              IN k > Len(chan[e]) /\ chan'[e][k].kind = "SETUP_ACK" => chan'[e][k].addr = child]_vars

\* "No children found": nothing is sent when the origin has no entry.
NoAckWithoutRoute ==
  [][\A c \in Channel :
       GatewayData(c) /\ ~Has(children[c[2]], Head(chan[c]).src) => chan' = Taken(c)]_vars
===============================================================================
