---------------------------- MODULE DeliveryProofs ----------------------------
(***************************************************************************)
(* The loop of forward_data_packet sends a packet once to each next hop of *)
(* its group, for tables of any length; and in flat farms every relay's    *)
(* loop together delivers a command once to each device of the group.      *)
(*                                                                         *)
(* The loop, the copies over the hops and the sums of the library are      *)
(* functions defined by recursion.  What such a function is, is proved by  *)
(* induction, with a set where the induction theorems of the library have  *)
(* a predicate.                                                            *)
(***************************************************************************)
EXTENDS Delivery, FarmProofs

-------------------------------------------------------------------------------
(* The recursion of SentHops *)

\* sent_nexthop after entry i, given what it was before.
WithEntry(table, group, i, before) ==
  IF table[i].group = group /\ table[i].from \notin Range(before)
  THEN Append(before, table[i].from) ELSE before

\* sent is sent_nexthop after each of the first n entries.
IsSent(table, group, n, sent) ==
  sent = [i \in 0..n |-> IF i = 0 THEN <<>> ELSE WithEntry(table, group, i, sent[i - 1])]

\* There is such a function for any number of entries.
LEMMA SentExists ==
  ASSUME NEW table, NEW group, NEW N \in Nat
  PROVE  \E sent : IsSent(table, group, N, sent)
<1> DEFINE T == {n \in 0..N : \E sent : IsSent(table, group, n, sent)}
<1>1. 0 \in T
  <2>1. IsSent(table, group, 0, [i \in 0..0 |-> <<>>])
    BY DEF IsSent
  <2>2. QED
    BY <2>1
<1>2. ASSUME NEW n \in 0..(N - 1), n \in T
      PROVE  n + 1 \in T
  <2>1. PICK sent : IsSent(table, group, n, sent)
    BY <1>2
  <2> DEFINE next == [i \in 0..(n + 1) |->
                        IF i = n + 1 THEN WithEntry(table, group, n + 1, sent[n]) ELSE sent[i]]
             right(i) == IF i = 0 THEN <<>> ELSE WithEntry(table, group, i, next[i - 1])
  <2>2. ASSUME NEW i \in 0..(n + 1)
        PROVE  next[i] = right(i)
    <3>1. CASE i = n + 1
      BY <3>1
    <3>2. CASE i # n + 1
      <4>1. i \in 0..n /\ next[i] = sent[i] /\ (i # 0 => next[i - 1] = sent[i - 1])
        BY <3>2
      <4>2. sent[i] = IF i = 0 THEN <<>> ELSE WithEntry(table, group, i, sent[i - 1])
        BY <2>1, <4>1 DEF IsSent
      <4>3. QED
        BY <4>1, <4>2
    <3>3. QED
      BY <3>1, <3>2
  <2>3. next = [i \in 0..(n + 1) |-> next[i]]
    OBVIOUS
  <2> HIDE DEF next
  <2>4. next = [i \in 0..(n + 1) |-> right(i)]
    BY <2>2, <2>3
  <2>5. IsSent(table, group, n + 1, next)
    BY <2>4 DEF IsSent
  <2>6. n + 1 \in 0..N
    OBVIOUS
  <2>7. QED
    BY <2>5, <2>6
<1> HIDE DEF T
<1>3. \A n \in 0..N : n \in T
  BY <1>1, <1>2, Induction
<1>4. QED
  BY <1>3 DEF T

\* So SentHops is what it says: the last value of that function.
LEMMA SentHopsIs ==
  ASSUME NEW S, NEW table \in Seq(S), NEW group
  PROVE  \E sent : /\ IsSent(table, group, Len(table), sent)
                   /\ SentHops(table, group) = sent[Len(table)]
<1> DEFINE N == Len(table)
           sent == CHOOSE sent : IsSent(table, group, N, sent)
<1>1. N \in Nat
  BY LenProperties
<1>2. IsSent(table, group, N, sent)
  BY <1>1, SentExists
<1>3. SentHops(table, group) = sent[N]
  BY DEF SentHops, IsSent, WithEntry
<1>4. QED
  BY <1>2, <1>3

-------------------------------------------------------------------------------
(* The loop is right *)

\* An entry of the group adds its next hop, once.
LEMMA WithEntryAdds ==
  ASSUME NEW X, NEW q \in Seq(X), IsInjective(q),
         NEW table, NEW group, NEW i, table[i].from \in X
  PROVE  /\ WithEntry(table, group, i, q) \in Seq(X)
         /\ IsInjective(WithEntry(table, group, i, q))
         /\ Range(WithEntry(table, group, i, q))
              = Range(q) \cup (IF table[i].group = group THEN {table[i].from} ELSE {})
<1> DEFINE hop == table[i].from
           new == WithEntry(table, group, i, q)
<1>1. CASE table[i].group = group /\ hop \notin Range(q)
  <2>1. new = Append(q, hop)
    BY <1>1 DEF WithEntry
  <2> HIDE DEF hop, new
  <2>2. /\ Append(q, hop) \in Seq(X)
        /\ DOMAIN q = 1..Len(q) /\ Len(q) \in Nat
        /\ DOMAIN Append(q, hop) = 1..(Len(q) + 1)
        /\ \A k \in 1..Len(q) : Append(q, hop)[k] = q[k]
        /\ Append(q, hop)[Len(q) + 1] = hop
    BY AppendProperties, LenProperties DEF hop
  <2>3. \A k \in DOMAIN new : k \in DOMAIN q \/ k = Len(q) + 1
    BY <2>1, <2>2
  <2>4. IsInjective(new)
    <3>1. \A k \in DOMAIN q : q[k] # hop
      BY <1>1 DEF Range
    <3>2. QED
      BY <2>1, <2>2, <2>3, <3>1 DEF IsInjective
  <2>5. Range(new) = Range(q) \cup {hop}
    BY <2>1, <2>2, <2>3 DEF Range
  <2>6. QED
    BY <1>1, <2>1, <2>2, <2>4, <2>5 DEF hop, new
<1>2. CASE ~(table[i].group = group /\ hop \notin Range(q))
  BY <1>2 DEF WithEntry
<1>3. QED
  BY <1>1, <1>2

\* The next hops of the entries of the group among the first n.
HopsUpTo(table, group, n) == {table[i].from : i \in {j \in 1..n : table[j].group = group}}

\* For every table: no next hop twice, and exactly those GroupHops names.
LEMMA SentHopsRight ==
  ASSUME NEW S, NEW table \in Seq(S), NEW group
  PROVE  /\ IsInjective(SentHops(table, group))
         /\ Range(SentHops(table, group)) = GroupHops(table, group)
<1> DEFINE N == Len(table)
           X == {table[i].from : i \in 1..N}
<1>1. N \in Nat /\ DOMAIN table = 1..N
  BY LenProperties
<1>2. PICK sent : IsSent(table, group, N, sent) /\ SentHops(table, group) = sent[N]
  BY SentHopsIs
<1> DEFINE Right(n) == /\ sent[n] \in Seq(X) /\ IsInjective(sent[n])
                       /\ Range(sent[n]) = HopsUpTo(table, group, n)
           T == {n \in 0..N : Right(n)}
<1>3. 0 \in T
  <2>1. sent[0] = <<>>
    BY <1>1, <1>2 DEF IsSent
  <2>2. <<>> \in Seq(X) /\ IsInjective(<<>>) /\ Range(<<>>) = {}
    BY DEF IsInjective, Range
  <2>3. HopsUpTo(table, group, 0) = {}
    BY DEF HopsUpTo
  <2>4. 0 \in 0..N
    BY <1>1
  <2>5. Right(0)
    <3> HIDE DEF X
    <3>1. sent[0] \in Seq(X) /\ IsInjective(sent[0])
      BY <2>1, <2>2
    <3>2. Range(sent[0]) = HopsUpTo(table, group, 0)
      BY <2>1, <2>2, <2>3
    <3>3. QED
      BY <3>1, <3>2
  <2>6. QED
    BY <2>4, <2>5
<1>4. ASSUME NEW n \in 0..(N - 1), n \in T
      PROVE  n + 1 \in T
  <2>1. n \in Nat /\ n + 1 \in 1..N /\ n + 1 \in 0..N /\ Right(n)
    BY <1>1, <1>4
  <2>2. sent[n + 1] = WithEntry(table, group, n + 1, sent[n])
    BY <1>1, <1>2, <2>1 DEF IsSent
  <2>3. table[n + 1].from \in X
    BY <2>1
  <2> DEFINE added == IF table[n + 1].group = group THEN {table[n + 1].from} ELSE {}
             q == sent[n]
  <2>4. q \in Seq(X) /\ IsInjective(q)
    BY <2>1
  <2> HIDE DEF q, X
  <2>5. /\ WithEntry(table, group, n + 1, q) \in Seq(X)
        /\ IsInjective(WithEntry(table, group, n + 1, q))
        /\ Range(WithEntry(table, group, n + 1, q)) = Range(q) \cup added
    BY <2>3, <2>4, WithEntryAdds
  <2>6. HopsUpTo(table, group, n + 1) = HopsUpTo(table, group, n) \cup added
    <3>1. \A j : j \in 1..(n + 1) <=> j \in 1..n \/ j = n + 1
      BY <2>1
    <3>2. QED
      BY <3>1 DEF HopsUpTo
  <2>7. QED
    BY <2>1, <2>2, <2>5, <2>6 DEF q
<1>5. N \in T
  <2> HIDE DEF T
  <2>1. N \in 0..N
    BY <1>1
  <2>2. QED
    BY <1>1, <1>3, <1>4, <2>1, Induction
<1>6. Right(N)
  BY <1>5
<1>7. HopsUpTo(table, group, N) = GroupHops(table, group)
  BY <1>1 DEF GroupHops, HopsUpTo
<1>8. QED
  BY <1>2, <1>6, <1>7

\* In every network, whatever is lost and whoever restarts, forward_data_packet
\* sends one copy of a packet to each next hop of its group.
THEOREM EachHopOnce == Spec => []HopsOnce
<1>1. IInv => HopsOnce
  <2> SUFFICES ASSUME IInv, NEW d \in Device, NEW group
               PROVE  /\ IsInjective(SentHops(children[d], group))
                      /\ Range(SentHops(children[d], group)) = GroupHops(children[d], group)
    BY DEF HopsOnce
  <2> DEFINE table == children[d]
  <2>1. table \in Seq(Child)
    BY DEF IInv, TableInv
  <2> HIDE DEF table
  <2>2. QED
    BY <2>1, SentHopsRight DEF table
<1>2. QED
  BY <1>1, Invariance, PTL

-------------------------------------------------------------------------------
(* Sums, and the copies over the hops *)

\* A sum with at most one term that is not zero is that term.
LEMMA SumOfOne ==
  ASSUME NEW f, IsFiniteSet(DOMAIN f), NEW z \in DOMAIN f, f[z] \in Nat,
         \A x \in DOMAIN f : x # z => f[x] = 0
  PROVE  SumFunction(f) = f[z]
<1> DEFINE D == DOMAIN f
           pick(s) == CHOOSE x \in s : TRUE
           right(it) == [s \in SUBSET D |-> IF s = {} THEN 0 ELSE f[pick(s)] + it[s \ {pick(s)}]]
           part(s) == IF z \in s THEN f[z] ELSE 0
           iter == CHOOSE it : it = right(it)
<1>1. SumFunction(f) = iter[D]
  BY DEF SumFunction, SumFunctionOnSet, FoldFunctionOnSet, MapThenFoldSet
<1>2. ASSUME NEW s \in SUBSET D, s # {}
      PROVE  /\ pick(s) \in s /\ s \ {pick(s)} \in SUBSET D
             /\ part(s) = f[pick(s)] + part(s \ {pick(s)})
  <2>1. pick(s) \in s
    BY <1>2
  <2> HIDE DEF pick
  <2>2. CASE pick(s) = z
    <3>1. part(s) = f[z] /\ part(s \ {pick(s)}) = 0
      BY <2>1, <2>2
    <3>2. QED
      BY <2>1, <2>2, <3>1
  <2>3. CASE pick(s) # z
    <3>1. part(s) = part(s \ {pick(s)}) /\ f[pick(s)] = 0 /\ part(s) \in Nat
      BY <2>1, <2>3
    <3>2. QED
      BY <2>1, <3>1
  <2>4. QED
    BY <2>2, <2>3
<1>3. iter = right(iter)
  <2> DEFINE sum == [s \in SUBSET D |-> part(s)]
  <2>1. part({}) = 0
    OBVIOUS
  <2> HIDE DEF part, pick
  <2>2. \A s \in SUBSET D : sum[s] = IF s = {} THEN 0 ELSE f[pick(s)] + sum[s \ {pick(s)}]
    BY <1>2, <2>1
  <2>3. sum = [s \in SUBSET D |-> sum[s]]
    OBVIOUS
  <2> HIDE DEF sum
  <2>4. sum = right(sum)
    BY <2>2, <2>3
  <2> HIDE DEF right
  <2>5. QED
    BY <2>4
<1> DEFINE N == Cardinality(D)
           T == {n \in 0..N : \A s \in SUBSET D : Cardinality(s) = n => iter[s] = part(s)}
<1>4. N \in Nat
  BY FS_CardinalityType
<1>5. \A s \in SUBSET D : IsFiniteSet(s) /\ Cardinality(s) <= N
  BY FS_Subset
<1>6. \A s \in SUBSET D : iter[s] = IF s = {} THEN 0 ELSE f[pick(s)] + iter[s \ {pick(s)}]
  <2> HIDE DEF iter, pick
  <2>1. QED
    BY <1>3
<1>7. 0 \in T
  <2>1. ASSUME NEW s \in SUBSET D, Cardinality(s) = 0
        PROVE  iter[s] = part(s)
    <3>1. s = {}
      BY <1>5, <2>1, FS_EmptySet
    <3> HIDE DEF iter, pick
    <3>2. QED
      BY <1>6, <3>1
  <2> HIDE DEF iter, part
  <2>2. QED
    BY <1>4, <2>1
<1>8. ASSUME NEW n \in 0..(N - 1), n \in T
      PROVE  n + 1 \in T
  <2>1. ASSUME NEW s \in SUBSET D, Cardinality(s) = n + 1
        PROVE  iter[s] = part(s)
    <3> DEFINE t == s \ {pick(s)}
    <3>1. s # {}
      BY <2>1, FS_EmptySet
    <3>2. pick(s) \in s /\ t \in SUBSET D /\ part(s) = f[pick(s)] + part(t)
      BY <1>2, <3>1
    <3>3. Cardinality(t) = n
      <4> HIDE DEF pick
      <4>1. Cardinality(s \ {pick(s)}) = Cardinality(s) - 1
        BY <1>5, <3>2, FS_RemoveElement
      <4>2. QED
        BY <2>1, <4>1
    <3> HIDE DEF iter, pick, part
    <3>4. iter[t] = part(t)
      BY <1>8, <3>2, <3>3
    <3>5. iter[s] = f[pick(s)] + iter[t]
      BY <1>6, <3>1
    <3>6. QED
      BY <3>2, <3>4, <3>5
  <2> HIDE DEF iter, part
  <2>2. n + 1 \in 0..N
    BY <1>4
  <2>3. QED
    BY <2>1, <2>2
<1>9. N \in T
  <2> HIDE DEF T, N
  <2>1. \A n \in 0..N : n \in T
    BY <1>4, <1>7, <1>8, Induction
  <2>2. QED
    BY <1>4, <2>1
<1>10. iter[D] = part(D)
  <2> HIDE DEF iter, part
  <2>1. QED
    BY <1>9
<1>11. QED
  BY <1>1, <1>10

\* What each device gets of a command from the gateway itself, and from the devices
\* that got c.
First(gw) == [e \in Device |-> Cardinality({i \in DOMAIN barns[gw] : barns[gw][i] = e})]
After(c, group) == [e \in Device |-> SumFunction([r \in Device |-> c[r] * Relayed(r, e, group)])]
Nobody == [e \in Device |-> 0]

\* Where nobody gets a command over more than one relay, its copies are those that
\* the barns relay.
LEMMA CopiesOfTwoLegs ==
  ASSUME NEW gw, NEW d \in Device, NEW group, First(gw)[d] = 0, After(First(gw), group)[d] = 1,
         After(After(First(gw), group), group) = Nobody, After(Nobody, group) = Nobody
  PROVE  CopiesOf(gw, d, group) = 1
<1> DEFINE N == Cardinality(Device)
           first == First(gw)
           after(c) == After(c, group)
           right(f) == [k \in 0..N |-> IF k = 0 THEN first ELSE after(f[k - 1])]
           at(k) == IF k = 0 THEN first ELSE IF k = 1 THEN after(first) ELSE Nobody
           copies == CHOOSE f : f = right(f)
<1>1. N \in Nat /\ N >= 1
  <2>1. N \in Nat
    BY SizeAssumption, FS_CardinalityType
  <2>2. N # 0
    BY SizeAssumption, FS_EmptySet
  <2>3. QED
    BY <2>1, <2>2
<1>2. CopiesOf(gw, d, group) = SumFunction([k \in 0..N |-> copies[k][d]])
  BY DEF CopiesOf, First, After
<1> HIDE DEF N
<1>3. ASSUME NEW k \in 0..N, k # 0
      PROVE  at(k) = after(at(k - 1))
  <2>1. CASE k = 1
    BY <2>1
  <2>2. CASE k = 2
    <3>1. k - 1 = 1
      BY <2>2
    <3>2. QED
      BY <2>2, <3>1
  <2>3. CASE k > 2
    <3>1. k - 1 > 1 /\ k > 1
      BY <1>1, <2>3
    <3>2. at(k - 1) = Nobody /\ at(k) = Nobody
      BY <3>1
    <3>3. QED
      BY <3>2
  <2>4. QED
    BY <1>1, <1>3, <2>1, <2>2, <2>3
<1>4. copies = right(copies)
  <2> DEFINE g == [k \in 0..N |-> at(k)]
  <2>1. at(0) = first
    OBVIOUS
  <2> HIDE DEF at, after, first
  <2>2. \A k \in 0..N : g[k] = IF k = 0 THEN first ELSE after(g[k - 1])
    <3> SUFFICES ASSUME NEW k \in 0..N, k # 0
                 PROVE  g[k] = after(g[k - 1])
      BY <2>1
    <3>1. k - 1 \in 0..N
      BY <1>1
    <3>2. QED
      BY <1>3, <3>1
  <2>3. g = right(g)
    <3>1. g = [k \in 0..N |-> g[k]]
      OBVIOUS
    <3> HIDE DEF g
    <3>2. QED
      BY <2>2, <3>1
  <2> HIDE DEF g, right
  <2>4. QED
    BY <2>3
<1>5. \A k \in 0..N : copies[k] = at(k)
  <2> DEFINE T == {k \in 0..N : copies[k] = at(k)}
  <2>1. at(0) = first
    OBVIOUS
  <2> HIDE DEF copies, after, at, first
  <2>2. \A j \in 0..N : copies[j] = IF j = 0 THEN first ELSE after(copies[j - 1])
    BY <1>4
  <2>3. 0 \in T
    <3>1. 0 \in 0..N
      BY <1>1
    <3>2. QED
      BY <2>1, <2>2, <3>1
  <2>4. ASSUME NEW k \in 0..(N - 1), k \in T
        PROVE  k + 1 \in T
    <3>1. k + 1 \in 0..N /\ k + 1 # 0 /\ (k + 1) - 1 = k
      BY <1>1
    <3>2. copies[k + 1] = after(copies[k])
      BY <2>2, <3>1
    <3>3. at(k + 1) = after(at(k))
      BY <1>3, <3>1
    <3>4. copies[k] = at(k)
      BY <2>4
    <3>5. QED
      BY <3>1, <3>2, <3>3, <3>4
  <2> HIDE DEF T
  <2>5. \A k \in 0..N : k \in T
    BY <1>1, <2>3, <2>4, Induction
  <2>6. QED
    BY <2>5 DEF T
<1> HIDE DEF copies
<1>6. \A k \in 0..N : copies[k][d] = IF k = 1 THEN 1 ELSE 0
  BY <1>5 DEF Nobody
<1> DEFINE f == [k \in 0..N |-> copies[k][d]]
<1>7. DOMAIN f = 0..N /\ IsFiniteSet(0..N) /\ 1 \in 0..N
  BY <1>1, FS_Interval
<1>8. f[1] = 1 /\ \A x \in 0..N : x # 1 => f[x] = 0
  BY <1>6, <1>7
<1> HIDE DEF f
<1>9. SumFunction(f) = 1
  <2>1. IsFiniteSet(DOMAIN f) /\ 1 \in DOMAIN f /\ f[1] \in Nat /\ \A x \in DOMAIN f : x # 1 => f[x] = 0
    BY <1>7, <1>8
  <2>2. SumFunction(f) = f[1]
    BY <2>1, SumOfOne
  <2>3. QED
    BY <1>8, <2>2
<1>10. QED
  BY <1>2, <1>9 DEF f

-------------------------------------------------------------------------------
(* The groups of the entries *)

\* An announcement bears the group of the device it is about.
Grouped ==
  [c \in Channel |-> {p \in Packet : p.kind = "SETUP_ACK" => p.group = GroupOf[p.addr]}]
EntriesGrouped ==
  \A d \in Device : \A i \in DOMAIN children[d] : children[d][i].group = GroupOf[children[d][i].addr]

GroupInv == Carries(chan, Grouped) /\ EntriesGrouped

LEMMA GroupedPermits == Permits(Grouped) /\ PermitsOffers(Grouped)
BY DEF Permits, PermitsOffers, Grouped

\* A device announces itself with its group.
LEMMA OffersKeepGroups ==
  ASSUME IInv, GroupInv, NEW c \in Channel,
         NodeResponse(c) \/ MobileResponse(c) \/ SubGatewayOffer(c)
  PROVE  GroupInv'
<1> DEFINE d == c[2]
           m == Head(chan[c])
<1>1. /\ Carries(Taken(c), Grouped) /\ m \in PacketFrom(c[1]) /\ c[1] \in Device /\ d \in Device
      /\ m.kind \in {"SETUP", "RESPONSE"}
  BY ReceivesCarries DEF GroupInv, NodeResponse, MobileResponse, SubGatewayOffer
<1>2. m.src \in Device
  BY <1>1 DEF PacketFrom
<1>3. MayAnnounce(Grouped, d, m.src)
  <2>1. Control("SETUP_ACK", d, TypeOf(d), d, GroupOf[d]) \in Packet
    BY <1>1, TypeOfRole, GroupAssumption DEF Control, Packet, Kinds, Flags
  <2>2. QED
    BY <2>1 DEF MayAnnounce, Grouped, Control
<1>4. Adopt(d, Taken(c), m.src, m.ntype) \/ chan' = Taken(c)
  BY DEF NodeResponse, MobileResponse, SubGatewayOffer, CheckParentNode, CheckParentSubGateway
<1>5. Carries(chan', Grouped)
  <2>1. CASE Adopt(d, Taken(c), m.src, m.ntype)
    <3>1. Carries(Taken(c), Grouped) /\ m.src \in Device /\ Adopt(d, Taken(c), m.src, m.ntype)
      BY <1>1, <1>2, <2>1
    <3> HIDE DEF d, m
    <3>2. QED
      BY <1>3, <3>1, AdoptCarries
  <2>2. QED
    BY <1>1, <1>4, <2>1
<1>6. UNCHANGED children
  BY DEF NodeResponse, MobileResponse, SubGatewayOffer
<1>7. QED
  BY <1>5, <1>6 DEF GroupInv, EntriesGrouped, Carries, Grouped

\* The new entry has the group of the announcement, the others had theirs before.
LEMMA EntersGrouped ==
  ASSUME TableInv, GroupInv, NEW d \in Device, NEW c \in Channel,
         NEW m \in Grouped[c] \cap PacketFrom(c[1]), m.kind = "SETUP_ACK", Enters(d, ChildOf(m))
  PROVE  EntriesGrouped' /\ ChildOf(m) \in Child
<1>1. /\ ChildOf(m) \in Child /\ ChildOf(m).addr = m.addr /\ ChildOf(m).group = m.group
      /\ m.group = GroupOf[m.addr]
  BY DEF PacketFrom, Packet, ChildOf, Child, Grouped
<1>2. \A e \in Device : \A i \in DOMAIN children'[e] :
        \/ e = d /\ children'[e][i] = ChildOf(m)
        \/ \E j \in DOMAIN children[e] : children'[e][i] = children[e][j]
  BY <1>1, SetChildEntries
<1>3. QED
  BY <1>1, <1>2 DEF GroupInv, EntriesGrouped

\* A relay announces its last entry with the group it has.
LEMMA RegisterKeepsGroups ==
  ASSUME IInv, GroupInv, NEW c \in Channel,
         NodeSetupAck(c) \/ SubGatewaySetupAck(c) \/ MobileSetupAck(c) \/ GatewaySetupAck(c)
  PROVE  GroupInv'
<1> DEFINE d == c[2]
           m == Head(chan[c])
           last == LastChild(children'[d])
<1>1. /\ Carries(Taken(c), Grouped) /\ m \in PacketFrom(c[1]) /\ m \in Grouped[c] /\ m \in Packet
      /\ d \in Device /\ m.kind = "SETUP_ACK"
  BY ReceivesCarries DEF GroupInv, NodeSetupAck, SubGatewaySetupAck, MobileSetupAck, GatewaySetupAck
<1>2. RegisterChild(d, Taken(c), m) \/ GatewaySetupAck(c)
  BY DEF NodeSetupAck, SubGatewaySetupAck, MobileSetupAck
<1>3. Enters(d, ChildOf(m))
  BY <1>2 DEF RegisterChild, Enters, GatewaySetupAck
<1>4. TableInv /\ children \in [Device -> Seq(Child)]
  BY DEF IInv, TableInv
<1>5. EntriesGrouped' /\ ChildOf(m) \in Child
  BY <1>1, <1>3, <1>4, EntersGrouped
<1>6. \E i \in DOMAIN children'[d] : last = children'[d][i]
  BY <1>1, <1>3, <1>4, <1>5, SetChildEntries
<1>7. last \in Child /\ last.group = GroupOf[last.addr]
  <2>1. last \in Child
    BY <1>1, <1>3, <1>4, <1>5, LastChildTyped
  <2>2. QED
    BY <1>1, <1>5, <1>6, <2>1 DEF EntriesGrouped
<1>8. CASE RegisterChild(d, Taken(c), m)
  <2>1. \A e \in Channel : Control("SETUP_ACK", d, TypeOf(d), last.addr, last.group) \in Grouped[e]
    <3>1. Control("SETUP_ACK", d, TypeOf(d), last.addr, last.group) \in Packet
      BY <1>1, <1>7, TypeOfRole DEF Control, Packet, Kinds, Flags, Child
    <3> HIDE DEF last
    <3>2. QED
      BY <1>7, <3>1 DEF Grouped, Control
  <2>2. Carries(chan', Grouped)
    BY <1>1, <1>4, <1>8, <2>1, GroupedPermits, RegisterCarries
  <2>3. QED
    BY <1>5, <2>2 DEF GroupInv, Carries, Grouped
<1>9. CASE GatewaySetupAck(c)
  <2>1. Carries(chan', Grouped)
    BY <1>9, GroupedPermits, IgnoredCarries DEF GroupInv
  <2>2. QED
    BY <1>5, <2>1 DEF GroupInv, Carries, Grouped
<1>10. QED
  BY <1>2, <1>8, <1>9

\* Removals, restarts and everything else enter nobody.
LEMMA OthersKeepGroups ==
  ASSUME IInv, KnownInv, GroupInv,
         \/ \E c \in Channel : Relays(c) \/ NodeChildRm(c) \/ SubGatewayChildRm(c) \/ Lose(c)
         \/ \E d \in Device : Act(d) \/ Reboot(d)
         \/ \E gw \in Gateways : Command(gw)
         \/ UNCHANGED <<children, chan>>
  PROVE  GroupInv'
<1>1. Carries(chan', Grouped)
  <2>1. CASE UNCHANGED chan
    BY <2>1 DEF GroupInv
  <2>2. CASE \E d \in Device : Reboot(d)
    BY <2>2, GroupedPermits, LoopsCarry DEF GroupInv
  <2>3. QED
    BY <2>1, <2>2, GroupedPermits, OthersCarry DEF GroupInv, KnownInv
<1>2. TableInv
  BY DEF IInv
<1>3. \A e \in Device : \A i \in DOMAIN children'[e] :
        \E j \in DOMAIN children[e] : children'[e][i] = children[e][j]
  <2>1. ASSUME NEW c \in Channel, NodeChildRm(c) \/ SubGatewayChildRm(c)
        PROVE  c[2] \in Device /\ ForgetChild(c[2], Taken(c), Head(chan[c]))
    BY <2>1, ChannelEnds DEF NodeChildRm, SubGatewayChildRm
  <2>2. CASE UNCHANGED children
    BY <2>2
  <2>3. QED
    BY <1>2, <2>1, <2>2, FewerEntries, RelaysUnchanged
<1>4. QED
  BY <1>1, <1>3 DEF GroupInv, EntriesGrouped, Carries, Grouped

LEMMA InitGroups == Init => GroupInv
<1> SUFFICES ASSUME Init
             PROVE  GroupInv
  OBVIOUS
<1>1. chan = [c \in Channel |->
                IF c[1] \in Gateways /\ c[3] = "broadcast" THEN <<SetupOf(c[1])>> ELSE <<>>]
  BY DEF Init
<1>2. ASSUME NEW c \in Channel
      PROVE  chan[c] \in Seq(Grouped[c])
  <2>1. SetupOf(c[1]) \in Grouped[c]
    BY ChannelEnds, SetupPermitted, GroupedPermits
  <2> DEFINE S == Grouped[c]
             m == SetupOf(c[1])
  <2> HIDE DEF S, m
  <2>2. m \in S => <<m>> \in Seq(S) /\ <<>> \in Seq(S)
    OBVIOUS
  <2>3. chan[c] = <<m>> \/ chan[c] = <<>>
    BY <1>1 DEF m
  <2>4. QED
    BY <2>1, <2>2, <2>3 DEF S, m
<1>3. \A d \in Device : DOMAIN children[d] = {}
  BY DEF Init
<1>4. QED
  BY <1>1, <1>2, <1>3 DEF GroupInv, Carries, EntriesGrouped

LEMMA UndisturbedGroups ==
  ASSUME IInv, KnownInv, GroupInv, UndisturbedNext
  PROVE  GroupInv'
<1>1. ASSUME NEW c \in Channel, Receive(c)
      PROVE  GroupInv'
  BY <1>1, Handlers, OffersKeepGroups, RegisterKeepsGroups, OthersKeepGroups
<1>2. QED
  BY <1>1, OthersKeepGroups DEF UndisturbedNext

\* Whatever is lost and whoever restarts, every entry of every table has the group of
\* its device, though set_child takes it from an announcement that each relay on the
\* way made anew, from the last entry of its own table (send_child).
THEOREM GroupsAsAnnounced == Spec => []EntriesGrouped
<1>1. Init => GroupInv
  BY InitGroups
<1>2. IInv /\ KnownInv /\ GroupInv /\ [Next]_vars => GroupInv'
  <2> SUFFICES ASSUME IInv, KnownInv, GroupInv, [Next]_vars
               PROVE  GroupInv'
    OBVIOUS
  <2>1. ASSUME NEW c \in Channel, Receive(c)
        PROVE  GroupInv'
    BY <2>1, Handlers, OffersKeepGroups, RegisterKeepsGroups, OthersKeepGroups
  <2>2. ASSUME NEW gw \in Gateways, CommandBarn(gw) \/ IrrigateAll(gw)
        PROVE  Command(gw)
    BY <2>2 DEF Command, CommandBarn, IrrigateAll
  <2>3. CASE UNCHANGED vars
    BY <2>3, OthersKeepGroups DEF vars
  <2>4. QED
    BY <2>1, <2>2, <2>3, OthersKeepGroups DEF Next
<1>3. GroupInv => EntriesGrouped
  BY DEF GroupInv
<1>4. QED
  BY <1>1, <1>2, <1>3, Invariance, Known, PTL DEF Spec

-------------------------------------------------------------------------------
(* Commands in flat farms *)

\* Whose sub-gateway a device has been below has a parent.
HomesServed == \A d \in Ends : homes[d] \subseteq Attached

LEMMA HomesStayServed ==
  ASSUME Flat, IInv, IInv', Lodged, HomesServed, RootedInv', HomesGrow, [FarmNext]_farm
  PROVE  HomesServed'
<1>1. Homely' /\ BarnParents'
  BY HomeOfWillBe
<1>2. CASE UNCHANGED homes
  BY <1>2 DEF HomesServed, HomesGrow
<1>3. CASE homes' = [d \in Device |-> homes[d] \cup HomeOf(d)']
  <2> SUFFICES ASSUME NEW d \in Ends, NEW b \in homes'[d]
               PROVE  b \in Attached'
    BY DEF HomesServed
  <2>1. d \in Device /\ d \notin SubGateways
    BY RolesAssumption DEF Ends, Device
  <2>2. CASE b \in homes[d]
    BY <2>2 DEF HomesServed, HomesGrow
  <2>3. CASE b \notin homes[d]
    <3>1. b \in HomeOf(d)'
      BY <1>3, <2>1, <2>3
    <3>2. setup'[d] = 1 /\ b = parent'[d].addr
      BY <1>1, <2>1, <3>1 DEF Homely
    <3>3. b \in SubGateways
      BY <1>1, <2>1, <3>2 DEF BarnParents
    <3>4. b \in Device /\ b # NullAddr /\ b \notin Gateways
      BY <3>3, RolesAssumption DEF Device
    <3>5. d \in Attached'
      BY <2>1, <3>2, <3>4 DEF Attached
    <3>6. QED
      BY <3>2, <3>4, <3>5 DEF RootedInv
  <2>4. QED
    BY <2>2, <2>3
<1>4. QED
  BY <1>2, <1>3, HomesFollow

\* A sub-gateway relays one copy to each neighbour of the group in its table; nobody
\* else relays any.
LEMMA BarnsRelay ==
  ASSUME Flat, FarmInv, EntriesGrouped, NEW r \in Device, NEW e \in Device, NEW group
  PROVE  Relayed(r, e, group)
           = IF r \in SubGateways /\ setup[r] = 1 /\ Has(children[r], e) /\ GroupOf[e] = group THEN 1 ELSE 0
<1> DEFINE table == children[r]
           hops == SentHops(table, group)
           at == {i \in DOMAIN hops : hops[i] = e}
<1>1. IInv /\ HomeInv
  BY DEF FarmInv
<1>2. table \in Seq(Child)
  BY <1>1 DEF IInv, TableInv
<1>3. IsInjective(hops) /\ Range(hops) = GroupHops(table, group)
  <2> HIDE DEF table
  <2>1. QED
    BY <1>2, SentHopsRight
<1>4. r \in Ends => e \notin GroupHops(table, group)
  BY <1>1 DEF HomeInv, FlatTables, GroupHops
<1>5. r \in SubGateways => (e \in GroupHops(table, group) <=> Has(table, e) /\ GroupOf[e] = group)
  <2> SUFFICES ASSUME r \in SubGateways
               PROVE  e \in GroupHops(table, group) <=> Has(table, e) /\ GroupOf[e] = group
    OBVIOUS
  <2>1. \A i \in DOMAIN table : table[i].from = table[i].addr /\ table[i].group = GroupOf[table[i].addr]
    BY <1>1 DEF HomeInv, FlatTables, EntriesGrouped
  <2> HIDE DEF table
  <2>2. e \in GroupHops(table, group) <=> \E i \in DOMAIN table : table[i].group = group /\ table[i].from = e
    BY DEF GroupHops
  <2>3. QED
    BY <2>1, <2>2 DEF Has
<1>6. Cardinality(at) = IF e \in GroupHops(table, group) THEN 1 ELSE 0
  <2> HIDE DEF hops
  <2>1. CASE e \in GroupHops(table, group)
    <3>1. PICK i \in DOMAIN hops : hops[i] = e
      BY <1>3, <2>1 DEF Range
    <3>2. at = {i}
      BY <1>3, <3>1 DEF IsInjective
    <3>3. QED
      BY <2>1, <3>2, FS_Singleton
  <2>2. CASE e \notin GroupHops(table, group)
    <3>1. at = {}
      BY <1>3, <2>2 DEF Range
    <3>2. QED
      BY <2>2, <3>1, FS_EmptySet
  <2>3. QED
    BY <2>1, <2>2
<1>7. Relayed(r, e, group) = IF setup[r] = 1 /\ r \in SubGateways \cup Nodes THEN Cardinality(at) ELSE 0
  BY DEF Relayed
<1> HIDE DEF at
<1>8. QED
  BY <1>4, <1>5, <1>6, <1>7, RolesAssumption DEF Ends

\* At rest, no device but the hop of the gateway's entry has an entry of the device.
LEMMA OneBarn ==
  ASSUME Flat, FarmInv, ReturnInv, Settled, Symmetric, AtRest,
         NEW b \in SubGateways, NEW e \in Device, Has(children[b], e)
  PROVE  b = NextHop(children[Served], e) /\ e \in Ends
<1>1. IInv /\ KnownInv /\ HomeInv
  BY DEF FarmInv
<1>2. e \in Ends
  BY <1>1, BarnHop
<1>3. \A s, x : \A S : ~On(s, x, S)
  <2>1. \A c \in Channel : DOMAIN chan[c] = {}
    BY DEF AtRest
  <2>2. QED
    BY <2>1 DEF On, Along, Holds
<1>4. Routed(e, b)
  BY <1>2, <1>3 DEF ReturnInv, Stage, Promoted, Revoked
<1>5. QED
  BY <1>1, <1>2, <1>4, RouteOf

\* The gateway sends one copy to each barn.
LEMMA BarnsFirst ==
  ASSUME IInv, NEW gw \in Gateways, NEW e \in Device
  PROVE  /\ First(gw)[e] = IF \E i \in DOMAIN barns[gw] : barns[gw][i] = e THEN 1 ELSE 0
         /\ First(gw)[e] # 0 => e \in SubGateways
<1> DEFINE at == {i \in DOMAIN barns[gw] : barns[gw][i] = e}
<1>1. /\ \A i, j \in DOMAIN barns[gw] : barns[gw][i] = barns[gw][j] => i = j
      /\ \A i \in DOMAIN barns[gw] : barns[gw][i] \in SubGateways
  BY DEF IInv, BarnInv, BarnsDistinct
<1>2. First(gw)[e] = Cardinality(at)
  BY DEF First
<1>3. CASE \E i \in DOMAIN barns[gw] : barns[gw][i] = e
  <2>1. PICK i \in DOMAIN barns[gw] : barns[gw][i] = e
    BY <1>3
  <2>2. at = {i}
    BY <1>1, <2>1
  <2> HIDE DEF at
  <2>3. QED
    BY <1>1, <1>2, <2>1, <2>2, FS_Singleton
<1>4. CASE ~\E i \in DOMAIN barns[gw] : barns[gw][i] = e
  <2>1. at = {}
    BY <1>4
  <2> HIDE DEF at
  <2>2. QED
    BY <1>2, <1>4, <2>1, FS_EmptySet
<1>5. QED
  BY <1>3, <1>4

\* What the barns relay: one copy to whom the gateway's entry leads to through a barn of
\* its own, if it is of the group.
LEMMA BarnsSecond ==
  ASSUME Flat, FarmInv, EntriesGrouped, ReturnInv, Settled, Symmetric, AtRest, NEW e \in Device, NEW group
  PROVE  LET c == After(First(Served), group)
             hop == NextHop(children[Served], e)
         IN /\ c[e] \in Nat
            /\ c[e] # 0 => e \in Ends
            /\ /\ hop \in SubGateways /\ setup[hop] = 1 /\ Has(children[hop], e) /\ GroupOf[e] = group
               /\ \E i \in DOMAIN barns[Served] : barns[Served][i] = hop
               => c[e] = 1
<1> DEFINE hop == NextHop(children[Served], e)
           term == [r \in Device |-> First(Served)[r] * Relayed(r, e, group)]
           z == IF hop \in Device THEN hop ELSE Served
<1>1. IInv /\ Served \in Gateways /\ Served \in Device /\ IsFiniteSet(Device)
  BY FarmAssumption, SizeAssumption DEF FarmInv, Device
<1>2. \A r \in Device :
        term[r] = IF /\ r \in SubGateways /\ setup[r] = 1 /\ Has(children[r], e) /\ GroupOf[e] = group
                     /\ \E i \in DOMAIN barns[Served] : barns[Served][i] = r
                  THEN 1 ELSE 0
  <2> SUFFICES ASSUME NEW r \in Device
               PROVE  term[r] = IF /\ r \in SubGateways /\ setup[r] = 1 /\ Has(children[r], e)
                                   /\ GroupOf[e] = group
                                   /\ \E i \in DOMAIN barns[Served] : barns[Served][i] = r
                                THEN 1 ELSE 0
    OBVIOUS
  <2> DEFINE x == First(Served)[r]
             y == Relayed(r, e, group)
  <2>1. x = IF \E i \in DOMAIN barns[Served] : barns[Served][i] = r THEN 1 ELSE 0
    BY <1>1, BarnsFirst
  <2>2. y = IF r \in SubGateways /\ setup[r] = 1 /\ Has(children[r], e) /\ GroupOf[e] = group
            THEN 1 ELSE 0
    BY BarnsRelay
  <2>3. term[r] = x * y
    OBVIOUS
  <2> HIDE DEF x, y, term
  <2>4. QED
    BY <2>1, <2>2, <2>3
<1>3. \A r \in Device : r # z => term[r] = 0
  <2> SUFFICES ASSUME NEW r \in Device, term[r] # 0
               PROVE  r = z
    OBVIOUS
  <2> HIDE DEF term, hop
  <2>1. r \in SubGateways /\ Has(children[r], e)
    BY <1>2
  <2>2. r = hop
    BY <2>1, OneBarn DEF hop
  <2>3. QED
    BY <2>2
<1>4. z \in Device /\ DOMAIN term = Device
  BY <1>1
<1>5. After(First(Served), group)[e] = SumFunction(term)
  BY DEF After
<1> HIDE DEF term, hop
<1>6. term[z] \in Nat
  BY <1>2, <1>4
<1>7. SumFunction(term) = term[z]
  BY <1>1, <1>3, <1>4, <1>6, SumOfOne
<1>8. term[z] # 0 => e \in Ends
  <2> HIDE DEF z
  <2>1. term[z] # 0 => z \in SubGateways /\ Has(children[z], e)
    BY <1>2, <1>4
  <2>2. QED
    BY <2>1, OneBarn
<1>9. ASSUME hop \in SubGateways, setup[hop] = 1, Has(children[hop], e), GroupOf[e] = group,
             \E i \in DOMAIN barns[Served] : barns[Served][i] = hop
      PROVE  term[z] = 1
  <2>1. z = hop /\ hop \in Device
    BY <1>9 DEF Device
  <2> HIDE DEF z
  <2>2. QED
    BY <1>2, <1>9, <2>1
<1> HIDE DEF z
<1>10. QED
  BY <1>5, <1>6, <1>7, <1>8, <1>9 DEF hop

\* Nobody relays what only nodes and mobiles get, or nobody.
LEMMA NobodyNext ==
  ASSUME Flat, FarmInv, EntriesGrouped, NEW c, NEW group,
         \A r \in Device : c[r] \in Nat /\ (c[r] # 0 => r \in Ends)
  PROVE  After(c, group) = Nobody
<1>1. ASSUME NEW e \in Device
      PROVE  After(c, group)[e] = 0
  <2> DEFINE term == [r \in Device |-> c[r] * Relayed(r, e, group)]
  <2>1. ASSUME NEW r \in Device
        PROVE  term[r] = 0
    <3> DEFINE x == c[r]
               y == Relayed(r, e, group)
    <3>1. y \in {0, 1} /\ (r \in Ends => y = 0)
      BY BarnsRelay, RolesAssumption DEF Ends
    <3>2. x \in Nat /\ (x # 0 => r \in Ends)
      OBVIOUS
    <3>3. term[r] = x * y
      OBVIOUS
    <3> HIDE DEF x, y, term
    <3>4. x = 0 \/ y = 0
      BY <3>1, <3>2
    <3>5. QED
      BY <3>1, <3>2, <3>3, <3>4
  <2>2. DOMAIN term = Device /\ IsFiniteSet(Device)
    BY SizeAssumption
  <2>3. After(c, group)[e] = SumFunction(term)
    BY DEF After
  <2> HIDE DEF term
  <2>4. SumFunction(term) = 0
    BY <2>1, <2>2, SumOfOne
  <2>5. QED
    BY <2>3, <2>4
<1>2. After(c, group) = [e \in Device |-> After(c, group)[e]]
  BY DEF After
<1>3. QED
  BY <1>1, <1>2 DEF Nobody

\* At rest every attached node of the group gets one copy: through the barn the
\* gateway's table leads to, which has it for a neighbour.
LEMMA OneCopy ==
  ASSUME Flat, FarmInv, EntriesGrouped, HomesServed, ReturnInv, Settled, Symmetric, AtRest,
         NEW d \in Nodes, setup[d] = 1
  PROVE  CopiesOf(Served, d, GroupOf[d]) = 1
<1> DEFINE group == GroupOf[d]
           hop == NextHop(children[Served], d)
           c == After(First(Served), group)
<1>1. IInv /\ KnownInv /\ RoutedInv /\ HomeInv
  BY DEF FarmInv
<1>2. /\ d \in Device /\ d \in Ends /\ d \notin SubGateways
      /\ Served \in Gateways /\ Served \in Device
  BY FarmAssumption, RolesAssumption DEF Ends, Device
<1>3. d \in Attached
  <2>1. parent[d].addr \in SubGateways
    BY <1>1, <1>2, ParentIsBarn DEF BarnParents
  <2>2. QED
    BY <1>2, <2>1, RolesAssumption DEF Attached, Device
<1>4. Listed(d) /\ (hop = d \/ Has(children[hop], d))
  BY <1>3, WayKnown DEF Listed
<1>5. hop \in SubGateways /\ hop \in homes[d] /\ Routed(d, hop)
  BY <1>1, <1>4, RouteOf
<1>6. \E i \in DOMAIN barns[Served] : barns[Served][i] = hop
  <2>1. PICK k \in DOMAIN children[Served] : children[Served][k].addr = d /\ children[Served][k].from = hop
    BY <1>5 DEF Routed, Leads
  <2>2. QED
    BY <1>1, <2>1 DEF HomeInv, FlatTables
<1>7. setup[hop] = 1
  BY <1>2, <1>5 DEF HomesServed, Settled
<1>8. Has(children[hop], d)
  BY <1>2, <1>4, <1>5
<1>9. c[d] = 1
  <2>1. /\ hop \in SubGateways /\ setup[hop] = 1 /\ Has(children[hop], d) /\ GroupOf[d] = group
        /\ \E i \in DOMAIN barns[Served] : barns[Served][i] = hop
    BY <1>5, <1>6, <1>7, <1>8
  <2>2. EntriesGrouped /\ ReturnInv /\ d \in Device
    BY <1>2
  <2>3. QED
    BY <2>1, <2>2, BarnsSecond
<1>10. First(Served)[d] = 0
  BY <1>1, <1>2, BarnsFirst
<1>11. After(c, group) = Nobody
  <2>1. \A e \in Device : c[e] \in Nat /\ (c[e] # 0 => e \in Ends)
    BY BarnsSecond
  <2> HIDE DEF c
  <2>2. QED
    BY <2>1, NobodyNext
<1>12. After(Nobody, group) = Nobody
  <2>1. \A e \in Device : Nobody[e] = 0
    BY DEF Nobody
  <2>2. QED
    BY <2>1, NobodyNext
<1>13. QED
  BY <1>2, <1>9, <1>10, <1>11, <1>12, CopiesOfTwoLegs

LEMMA CommandReaches ==
  ASSUME Flat, FarmInv, EntriesGrouped, HomesServed, ReturnInv, Settled, Symmetric
  PROVE  CommandsReachOnce
<1> SUFFICES ASSUME AtRest, NEW d \in Nodes, setup[d] = 1
             PROVE  SumFunction([gw \in Gateways |-> CopiesOf(gw, d, GroupOf[d])]) = 1
  BY DEF CommandsReachOnce
<1> DEFINE f == [gw \in Gateways |-> CopiesOf(gw, d, GroupOf[d])]
<1>1. DOMAIN f = {Served} /\ IsFiniteSet({Served})
  BY FS_Singleton DEF Flat
<1>2. f[Served] = 1
  BY OneCopy, FarmAssumption
<1> HIDE DEF f
<1>3. SumFunction(f) = f[Served]
  BY <1>1, <1>2, SumOfOne
<1>4. QED
  BY <1>2, <1>3 DEF f

\* In a flat farm without full queues, whose devices are heard by whom they hear and
\* keep some parent, a command to all barns reaches each attached device of its group
\* once, when nothing is on its way: however the devices moved before, one barn has
\* an entry of each, and forward_data_packet takes each next hop once
\* (CommandsReachOnce).
THEOREM CommandsArrive ==
  ASSUME Flat, Symmetric
  PROVE  FarmSpec /\ []Uncrowded /\ []Settled => []CommandsReachOnce
<1> DEFINE I == FarmInv /\ OrdersKnown /\ ReturnInv
           J == GroupInv /\ HomesServed
<1>1. FarmInit => J
  BY InitGroups DEF FarmInit, HomesServed, Ends, Device
<1>2. J /\ I /\ I' /\ Uncrowded /\ Settled /\ [FarmNext]_farm => J'
  <2> SUFFICES ASSUME J, I, I', Uncrowded, Settled, [FarmNext]_farm
               PROVE  J'
    OBVIOUS
  <2>1. UndisturbedNext
    BY FarmUndisturbed DEF FarmInv
  <2>2. GroupInv'
    BY <2>1, UndisturbedGroups DEF FarmInv
  <2>3. HomesGrow
    BY <2>1, HomesKept DEF FarmInv, HomeInv
  <2>4. HomesServed'
    BY <2>3, HomesStayServed DEF FarmInv, HomeInv, RoutedInv
  <2>5. QED
    BY <2>2, <2>4
<1>3. I /\ J /\ Settled => CommandsReachOnce
  BY CommandReaches DEF GroupInv
<1>4. FarmSpec /\ []Uncrowded /\ []Settled => []I
  BY ReturnInvariance
<1> HIDE DEF I, J
<1>5. QED
  BY <1>1, <1>2, <1>3, <1>4, PTL DEF FarmSpec

\* Without valves nobody ever gives a parent up.
THEOREM CommandsArriveWithoutValves ==
  ASSUME Flat, Symmetric, \A d \in Nodes : GroupOf[d] # IRRIGATION_GROUP
  PROVE  FarmSpec /\ []Uncrowded => []CommandsReachOnce
BY CommandsArrive, SettledAlways, PTL
===============================================================================
