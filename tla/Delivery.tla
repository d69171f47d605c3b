------------------------------- MODULE Delivery -------------------------------
(***************************************************************************)
(* Multicast in the network of Routing: the loop with which                *)
(* forward_data_packet sends a packet to the next hops of a group, and how *)
(* many copies of a command reach each device when every relay runs it.    *)
(***************************************************************************)
EXTENDS Routing, Functions

\* A fault: a next hop is sent a copy for each device behind it.
SentForEach(table, group) ==
  LET sent[i \in 0..Len(table)] ==
        IF i = 0 THEN <<>>
        ELSE IF table[i].group = group THEN Append(sent[i - 1], table[i].from) ELSE sent[i - 1]
  IN sent[Len(table)]

\* forward_data_packet: sent_nexthop after the entries up to i, an entry of the
\* group being skipped when its next hop was sent a copy before.
SentHops(table, group) ==
  LET sent[i \in 0..Len(table)] ==
        IF i = 0 THEN <<>>
        ELSE IF table[i].group = group /\ table[i].from \notin Range(sent[i - 1])
             THEN Append(sent[i - 1], table[i].from)
             ELSE sent[i - 1]
  IN sent[Len(table)]

\* The copies d passes on to e of one copy it gets.
Relayed(d, e, group) ==
  LET hops == SentHops(children[d], group)
  IN IF setup[d] = 1 /\ d \in SubGateways \cup Nodes
     THEN Cardinality({i \in DOMAIN hops : hops[i] = e})
     ELSE 0

\* The copies of a command to all barns of g that d gets, over k hops or fewer.
CopiesOf(g, d, group) ==
  LET copies[k \in 0..Cardinality(Device)] ==
        IF k = 0
        THEN [e \in Device |-> Cardinality({i \in DOMAIN barns[g] : barns[g][i] = e})]
        ELSE [e \in Device |-> SumFunction([r \in Device |-> copies[k - 1][r] * Relayed(r, e, group)])]
  IN SumFunction([k \in 0..Cardinality(Device) |-> copies[k][d]])

-------------------------------------------------------------------------------
\* The loop that filters next hops out of the table sends one copy to each, as
\* GroupHops says in a word, on every table that comes about.
HopsOnce ==
  \A d \in Device : \A i \in DOMAIN children[d] :
    LET hops == SentHops(children[d], children[d][i].group)
    IN IsInjective(hops) /\ Range(hops) = GroupHops(children[d], children[d][i].group)

\* Once the traffic of a forming network is over, a command to all barns reaches
\* each attached device of its group exactly once, through relays that may be of
\* the group themselves: no valve is opened twice, and none is left out.
CommandsReachOnce ==
  AtRest =>
    \A d \in Nodes : setup[d] = 1 /\ GroupOf[d] # UNICAST_GROUP =>
      SumFunction([gw \in Gateways |-> CopiesOf(gw, d, GroupOf[d])]) = 1
===============================================================================
