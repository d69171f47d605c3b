------------------------------ MODULE FarmProofs ------------------------------
(***************************************************************************)
(* The barns of the whole farm, with the serial line and the server, for   *)
(* every network: what BarnProofs shows of a network in which nothing for  *)
(* a gateway is lost and nobody restarts, which Farm's is as long as no    *)
(* queue towards a gateway is full.  Then, for farms whose devices all     *)
(* attach directly to sub-gateways: which barn a measurement is filed      *)
(* under, that no acknowledgement strays though devices move from barn to  *)
(* barn meanwhile, and that the tables lead to everyone once they rest.    *)
(***************************************************************************)
EXTENDS Farm, BarnProofs

\* decide_action only ever reads orders the server writes, of which there are two.
OrdersKnown ==
  \E S : orders \in Seq(S) /\ \A o \in S : o.topic \in {"lights", "irrigation"}

\* A turn of the server's loop writes only those.
LEMMA TurnKeepsOrders ==
  ASSUME OrdersKnown, Turn
  PROVE  OrdersKnown'
<1>1. PICK S : orders \in Seq(S) /\ \A o \in S : o.topic \in {"lights", "irrigation"}
  BY DEF OrdersKnown
<1>2. PICK answer \in Answers(Head(printed)) :
        \/ orders' = orders \o answer \o Due(elapsed)
        \/ orders' = orders \o answer \o <<ClientOrder>> \o Due(elapsed)
  BY DEF Turn
<1> DEFINE l == Head(printed)
           light == TextLine("lights", l.barn, l.origin)
           all == TextLine("irrigation", All, NullAddr)
           T == S \cup {light, ClientOrder, all}
<1>3. light.topic = "lights" /\ ClientOrder.topic = "lights" /\ all.topic = "irrigation"
  BY DEF TextLine, ClientOrder
<1>4. answer \in {<<>>, <<light>>} /\ Due(elapsed) \in {<<>>, <<all>>}
  BY DEF Answers, Due
<1> HIDE DEF light, all
<1>5. \A o \in T : o.topic \in {"lights", "irrigation"}
  BY <1>1, <1>3
<1>6. orders \in Seq(T) /\ answer \in Seq(T) /\ <<ClientOrder>> \in Seq(T) /\ Due(elapsed) \in Seq(T)
  <2>1. light \in T /\ ClientOrder \in T /\ all \in T /\ S \subseteq T
    OBVIOUS
  <2> HIDE DEF T
  <2>2. \A x \in T : <<x>> \in Seq(T)
    OBVIOUS
  <2>3. <<>> \in Seq(T) /\ orders \in Seq(T)
    BY <1>1, <2>1
  <2>4. QED
    BY <1>4, <2>1, <2>2, <2>3
<1>7. orders' \in Seq(T)
  <2> HIDE DEF T
  <2>1. \A x, y \in Seq(T) : x \o y \in Seq(T)
    BY ConcatProperties
  <2> DEFINE due == Due(elapsed)
             order == <<ClientOrder>>
  <2> HIDE DEF due, order
  <2>2. orders \in Seq(T) /\ answer \in Seq(T) /\ order \in Seq(T) /\ due \in Seq(T)
    BY <1>6 DEF due, order
  <2>3. orders' = orders \o answer \o due \/ orders' = orders \o answer \o order \o due
    BY <1>2 DEF due, order
  <2>4. orders \o answer \in Seq(T)
    BY <2>1, <2>2
  <2>5. orders \o answer \o due \in Seq(T) /\ orders \o answer \o order \in Seq(T)
    BY <2>1, <2>2, <2>4
  <2>6. orders \o answer \o order \o due \in Seq(T)
    BY <2>1, <2>2, <2>5
  <2>7. QED
    BY <2>3, <2>5, <2>6
<1>8. QED
  BY <1>5, <1>7 DEF OrdersKnown

LEMMA OrdersStayKnown == OrdersKnown /\ [FarmNext]_farm => OrdersKnown'
<1> SUFFICES ASSUME OrdersKnown, [FarmNext]_farm
             PROVE  OrdersKnown'
  OBVIOUS
<1>1. CASE UNCHANGED orders
  BY <1>1 DEF OrdersKnown
<1>2. CASE Turn
  BY <1>2, TurnKeepsOrders
<1>3. CASE Obey
  <2>1. orders # <<>> /\ orders' = Tail(orders)
    BY <1>3 DEF Obey
  <2>2. PICK S : orders \in Seq(S) /\ \A o \in S : o.topic \in {"lights", "irrigation"}
    BY DEF OrdersKnown
  <2>3. orders' \in Seq(S)
    BY <2>1, <2>2, HeadTailProperties
  <2>4. QED
    BY <2>2, <2>3 DEF OrdersKnown
<1>4. \/ UNCHANGED orders \/ Turn \/ Obey
  BY DEF FarmNext, Work, Tick, Report, Search, FarmReceive, FarmData, FarmControl, farm, serial
<1>5. QED
  BY <1>1, <1>2, <1>3, <1>4

\* A step of the farm is one of an undisturbed network.
LEMMA FarmUndisturbed ==
  ASSUME IInv, OrdersKnown, [FarmNext]_farm
  PROVE  UndisturbedNext
<1>1. budget \in [Stimuli -> Int]
  BY DEF IInv, BudgetInv
<1>2. ASSUME NEW x \in Stimuli, Spend(x)
      PROVE  budget' \in [Stimuli -> Int]
  BY <1>1, <1>2 DEF Spend
<1>3. CASE UNCHANGED vars
  BY <1>1, <1>3 DEF vars, UndisturbedNext
<1>4. CASE Turn
  <2>1. budget' \in [Stimuli -> Int]
    BY <1>1, <1>2, <1>4 DEF Turn, Stimuli
  <2>2. QED
    BY <1>4, <2>1 DEF Turn, UndisturbedNext
<1>5. CASE Obey
  <2>1. orders # <<>> /\ Head(orders).topic \in {"lights", "irrigation"}
    <3>1. PICK S : orders \in Seq(S) /\ \A o \in S : o.topic \in {"lights", "irrigation"}
      BY DEF OrdersKnown
    <3>2. orders # <<>>
      BY <1>5 DEF Obey
    <3>3. Head(orders) \in S
      BY <3>1, <3>2, HeadTailProperties
    <3>4. QED
      BY <3>1, <3>2, <3>3
  <2>2. CASE Head(orders).topic = "lights"
    <3>1. CommandOne(Served, Head(orders).barn, LIGHT_BULB_GROUP)
      BY <1>5, <2>2 DEF Obey
    <3>2. QED
      BY <1>1, <1>5, <3>1, FarmAssumption DEF Obey, Command, UndisturbedNext
  <2>3. CASE Head(orders).topic = "irrigation"
    <3>1. CommandAll(Served)
      BY <1>5, <2>3 DEF Obey
    <3>2. QED
      BY <1>1, <1>5, <3>1, FarmAssumption DEF Obey, Command, UndisturbedNext
  <2>4. QED
    BY <2>1, <2>2, <2>3
<1>6. ASSUME NEW d \in Device, Report(d) \/ Search(d)
      PROVE  UndisturbedNext
  <2>1. Act(d)
    BY <1>6 DEF Report, Search, Act
  <2>2. budget' \in [Stimuli -> Int]
    BY <1>2, <1>6 DEF Report, Search, SendReport, SendSetup, Stimuli
  <2>3. QED
    BY <1>6, <2>1, <2>2 DEF UndisturbedNext
<1>7. ASSUME NEW c \in Channel, FarmReceive(c)
      PROVE  UndisturbedNext
  <2>1. Receive(c)
    <3>1. CASE FarmData(c)
      BY <3>1 DEF FarmData, GatewayData, Receive
    <3>2. CASE FarmControl(c)
      BY <3>2 DEF FarmControl, Receive
    <3>3. QED
      BY <1>7, <3>1, <3>2 DEF FarmReceive
  <2>2. UNCHANGED budget
    BY <2>1, ReceiveSpendsNothing
  <2>3. QED
    BY <1>1, <1>7, <2>1, <2>2 DEF UndisturbedNext
<1>8. \/ UNCHANGED vars \/ Turn \/ Obey
      \/ \E d \in Device : Report(d) \/ Search(d)
      \/ \E c \in Channel : FarmReceive(c)
  BY DEF FarmNext, Work, Tick, farm
<1>9. QED
  BY <1>3, <1>4, <1>5, <1>6, <1>7, <1>8

\* So all the invariants of BarnProofs hold in the farm.
LEMMA FarmInvariance ==
  FarmSpec /\ []Roomy => [](IInv /\ KnownInv /\ RoutedInv)
<1> DEFINE I == IInv /\ KnownInv /\ RoutedInv
           J == I /\ OrdersKnown
<1>1. FarmInit => J
  <2>1. FarmInit => OrdersKnown
    <3>1. <<>> \in Seq({}) /\ \A o \in {} : o.topic \in {"lights", "irrigation"}
      OBVIOUS
    <3>2. QED
      BY <3>1 DEF FarmInit, OrdersKnown
  <2>2. QED
    BY <2>1, InitIInv, InitKnown, InitRouted DEF FarmInit
<1>2. J /\ Roomy /\ [FarmNext]_farm => J'
  <2> SUFFICES ASSUME IInv, KnownInv, RoutedInv, OrdersKnown, Roomy, [FarmNext]_farm
               PROVE  (IInv' /\ KnownInv' /\ RoutedInv') /\ OrdersKnown'
    OBVIOUS
  <2>1. UndisturbedNext
    BY FarmUndisturbed
  <2>2. QED
    BY <2>1, OrdersStayKnown, UndisturbedTyped, UndisturbedKnown, UndisturbedRouted
<1>3. J => I
  OBVIOUS
<1> HIDE DEF I, J
<1>4. FarmSpec /\ []Roomy => []I
  BY <1>1, <1>2, <1>3, PTL DEF FarmSpec
<1>5. QED
  BY <1>4 DEF I

\* Every number the server may put in an order leads to a sub-gateway that is a
\* direct child of its gateway (BarnsRouted), also while it gives orders.
THEOREM BarnsRoutedInFarm == FarmSpec /\ []Roomy => []BarnRouted
BY FarmInvariance, RoutedBarns, PTL

\* Every sub-gateway that is attached when the traffic is over has a barn number:
\* its announcement is on its way, or its gateway knows it (GatewaySetupAck), and
\* whoever is known has a number.  A gateway that cannot hear the sub-gateway it
\* serves is the one exception.
THEOREM BarnsAllKnown ==
  ASSUME \A gw \in Gateways, b \in SubGateways : <<gw, b>> \in Link => <<b, gw>> \in Link
  PROVE  FarmSpec /\ []Roomy => []BarnsComplete
<1>1. IInv /\ KnownInv /\ RoutedInv => BarnsComplete
  <2> SUFFICES ASSUME IInv, KnownInv, RoutedInv, AtRest, NEW b \in SubGateways, setup[b] = 1
               PROVE  \E i \in DOMAIN barns[parent[b].addr] : barns[parent[b].addr][i] = b
    BY DEF BarnsComplete
  <2> DEFINE gw == parent[b].addr
             c == <<b, gw, "unicast">>
  <2>1. gw \in Gateways /\ <<gw, b>> \in Link /\ b \in Device
    BY RolesAssumption DEF IInv, AttachInv, ParentRole, Device
  <2>2. <<b, gw>> \in Link
    BY <2>1
  <2>3. c \in Channel
    BY <2>1, <2>2 DEF Channel, Casts, Device
  <2>4. c[1] = b /\ c[2] = gw /\ c[3] = "unicast"
    OBVIOUS
  <2> HIDE DEF c, gw
  <2>5. c \in Up
    BY <2>1, <2>3, <2>4 DEF Up
  <2>6. DOMAIN chan[c] = {}
    <3>1. chan[c] = <<>>
      BY <2>3 DEF AtRest
    <3>2. QED
      BY <3>1
  <2>7. Has(children[gw], b)
    <3>1. ~About(chan[c], b)
      BY <2>6 DEF About
    <3>2. Introduced(c) /\ parent[b].addr = gw
      BY <2>5 DEF RoutedInv, gw
    <3>3. QED
      BY <2>4, <3>1, <3>2 DEF Introduced
  <2>8. QED
    BY <2>1, <2>7 DEF KnownInv, BarnsKnown, gw
<1>2. QED
  BY <1>1, FarmInvariance, PTL

-------------------------------------------------------------------------------
(* Farms whose devices attach directly to the sub-gateways *)

\* One gateway, and no node is near enough to another device to take it for its
\* parent: every barn is in reach of its sub-gateway.
Ends == Nodes \cup Mobiles
Flat ==
  /\ Gateways = {Served}
  /\ \A l \in Link : l[1] \in Nodes => l[2] \notin Ends

\* No queue is ever full, so no frame is lost.
Uncrowded == \A c \in Channel : Len(chan[c]) < QueueSize

\* Where each device is then: a sub-gateway in its own barn, what is attached in
\* that of its parent.
Homely ==
  \A d \in Device :
    HomeOf(d) = IF d \in SubGateways THEN {d}
                ELSE IF d \in Ends /\ setup[d] = 1 THEN {parent[d].addr} ELSE {}

\* In a flat farm the parent of a node or mobile is a sub-gateway.
BarnParents ==
  \A d \in Device : setup[d] = 1 =>
    /\ d \notin Gateways
    /\ d \in Ends => parent[d].addr \in SubGateways
    /\ d \in SubGateways => parent[d].addr = Served

LEMMA ParentIsBarn ==
  ASSUME Flat
  PROVE  IInv => BarnParents
<1> SUFFICES ASSUME IInv, NEW d \in Device, setup[d] = 1
             PROVE  /\ d \notin Gateways
                    /\ d \in Ends => parent[d].addr \in SubGateways
                    /\ d \in SubGateways => parent[d].addr = Served
  BY DEF BarnParents
<1> DEFINE p == parent[d].addr
<1>1. /\ <<p, d>> \in Link
      /\ \/ d \in SubGateways /\ p \in Gateways
         \/ d \in Ends /\ p \in SubGateways \cup Nodes
  BY DEF IInv, AttachInv, ParentRole, Ends
<1>2. d \in Ends => p \notin Nodes
  <2>1. <<p, d>>[1] = p /\ <<p, d>>[2] = d
    OBVIOUS
  <2> HIDE DEF p
  <2>2. QED
    BY <1>1, <2>1 DEF Flat
<1>3. QED
  BY <1>1, <1>2, RolesAssumption DEF Flat, Ends

LEMMA HomeOfIs ==
  ASSUME Flat
  PROVE  IInv => Homely
<1> SUFFICES ASSUME IInv, NEW d \in Device
             PROVE  HomeOf(d) = IF d \in SubGateways THEN {d}
                                ELSE IF d \in Ends /\ setup[d] = 1 THEN {parent[d].addr} ELSE {}
  BY DEF Homely
<1> DEFINE N == Cardinality(Device)
           above(x) == IF x \in SubGateways \/ ParentOf[x] = NullAddr THEN x ELSE ParentOf[x]
           right(f) == [k \in 0..N |-> IF k = 0 THEN d ELSE above(f[k - 1])]
           top == above(d)
<1>1. N \in Nat /\ N # 0
  <2>1. Device # {}
    OBVIOUS
  <2>2. QED
    BY <2>1, SizeAssumption, FS_CardinalityType, FS_EmptySet
<1>2. above(top) = top
  <2>1. CASE d \in SubGateways \/ ParentOf[d] = NullAddr
    BY <2>1
  <2>2. CASE ~(d \in SubGateways \/ ParentOf[d] = NullAddr)
    <3>1. ParentOf[d] = parent[d].addr /\ setup[d] = 1
      BY <2>2 DEF ParentOf
    <3>2. parent[d].addr \in SubGateways
      BY <2>2, <3>1, ParentIsBarn DEF BarnParents, Device, Ends
    <3>3. QED
      BY <2>2, <3>1, <3>2
  <2>3. QED
    BY <2>1, <2>2
<1> DEFINE up == CHOOSE f : f = right(f)
<1>3. up = right(up)
  <2> DEFINE g == [k \in 0..N |-> IF k = 0 THEN d ELSE top]
  <2>1. \A k \in 0..N : g[k] = IF k = 0 THEN d ELSE above(g[k - 1])
    <3> HIDE DEF above
    <3> SUFFICES ASSUME NEW k \in 0..N, k # 0
                 PROVE  g[k] = above(g[k - 1])
      OBVIOUS
    <3>1. k - 1 \in 0..N /\ g[k] = top
      BY <1>1
    <3>2. g[k - 1] = IF k - 1 = 0 THEN d ELSE top
      BY <3>1
    <3>3. QED
      BY <1>2, <3>1, <3>2
  <2>2. g = right(g)
    <3>1. g = [k \in 0..N |-> g[k]]
      OBVIOUS
    <3> HIDE DEF g, above
    <3>2. QED
      BY <2>1, <3>1
  <2> HIDE DEF g, right
  <2>3. QED
    BY <2>2
<1>4. HomeOf(d) = {up[N]} \cap SubGateways
  BY DEF HomeOf
<1>5. up[N] = top
  <2> DEFINE T == {k \in 0..N : k # 0 => up[k] = top}
  <2> HIDE DEF up, above, top
  <2>1. 0 \in T
    BY <1>1
  <2>2. ASSUME NEW k \in 0..(N - 1), k \in T
        PROVE  k + 1 \in T
    <3>1. k + 1 \in 0..N /\ k \in 0..N /\ k + 1 # 0 /\ (k + 1) - 1 = k
      BY <1>1
    <3>2. \A j \in 0..N : up[j] = IF j = 0 THEN d ELSE above(up[j - 1])
      BY <1>3
    <3>3. up[k + 1] = above(up[k])
      BY <3>1, <3>2
    <3>4. up[k] = IF k = 0 THEN d ELSE top
      BY <2>2, <3>1, <3>2
    <3>5. above(up[k]) = top
      BY <1>2, <3>4 DEF top
    <3>6. QED
      BY <3>1, <3>3, <3>5
  <2> HIDE DEF T
  <2>3. \A k \in 0..N : k \in T
    BY <1>1, <2>1, <2>2, Induction
  <2>4. N \in T
    BY <1>1, <2>3
  <2>5. QED
    BY <1>1, <2>4 DEF T
<1>6. HomeOf(d) = {top} \cap SubGateways
  BY <1>4, <1>5
<1>7. CASE d \in SubGateways
  BY <1>6, <1>7
<1>8. CASE d \in Ends /\ setup[d] = 1
  <2>1. parent[d].addr \in SubGateways /\ ParentOf[d] = parent[d].addr /\ d \notin SubGateways
    BY <1>8, ParentIsBarn, RolesAssumption DEF BarnParents, ParentOf, Ends
  <2>2. top = parent[d].addr
    BY <2>1, RolesAssumption DEF Device
  <2>3. QED
    BY <1>6, <1>8, <2>1, <2>2
<1>9. CASE d \notin SubGateways /\ ~(d \in Ends /\ setup[d] = 1)
  <2>1. setup[d] # 1
    BY <1>9, ParentIsBarn DEF BarnParents, Device, Ends
  <2>2. ParentOf[d] = NullAddr
    BY <2>1 DEF ParentOf
  <2>3. QED
    BY <1>6, <1>9, <2>2
<1>10. QED
  BY <1>7, <1>8, <1>9

LEMMA HomeOfWillBe ==
  ASSUME Flat
  PROVE  IInv' => Homely' /\ BarnParents'
<1>1. IInv => Homely /\ BarnParents
  BY HomeOfIs, ParentIsBarn
<1>2. QED
  BY <1>1, PTL

-------------------------------------------------------------------------------
(* Packets of a queue *)

\* q holds a packet of S; every packet of T comes after one of S; none of T comes
\* after one of S; there is at most one of S.
Holds(q, S) == \E i \in DOMAIN q : q[i] \in S
Preceded(q, S, T) == \A i \in DOMAIN q : q[i] \in T => \E j \in DOMAIN q : j < i /\ q[j] \in S
Before(q, T, S) == \A i, j \in DOMAIN q : q[i] \in T /\ q[j] \in S => i < j
Once(q, S) == \A i, j \in DOMAIN q : q[i] \in S /\ q[j] \in S => i = j

\* How this is for a queue that gets a packet, and for one whose first is taken.
LEMMA AppendedPackets ==
  ASSUME NEW X, NEW q \in Seq(X), NEW m \in X, NEW S, NEW T
  PROVE  /\ Holds(Append(q, m), S) <=> Holds(q, S) \/ m \in S
         /\ Preceded(q, S, T) /\ (m \in T => Holds(q, S)) => Preceded(Append(q, m), S, T)
         /\ Before(q, T, S) /\ ~(m \in T /\ Holds(q, S)) /\ ~(m \in T /\ m \in S)
              => Before(Append(q, m), T, S)
         /\ Once(q, S) /\ ~(Holds(q, S) /\ m \in S) => Once(Append(q, m), S)
<1> DEFINE r == Append(q, m)
<1>1. /\ Len(q) \in Nat /\ DOMAIN q = 1..Len(q) /\ DOMAIN r = 1..(Len(q) + 1)
      /\ r[Len(q) + 1] = m /\ \A i \in 1..Len(q) : r[i] = q[i]
  BY AppendProperties, LenProperties
<1> HIDE DEF r
<1>2. /\ \A i \in DOMAIN r : i \in DOMAIN q \/ i = Len(q) + 1
      /\ Len(q) + 1 \in DOMAIN r /\ Len(q) + 1 \notin DOMAIN q
      /\ \A i \in DOMAIN q : i \in DOMAIN r /\ r[i] = q[i] /\ i < Len(q) + 1
  BY <1>1
<1>3. Holds(r, S) <=> Holds(q, S) \/ m \in S
  BY <1>1, <1>2 DEF Holds
<1>4. Preceded(q, S, T) /\ (m \in T => Holds(q, S)) => Preceded(r, S, T)
  <2> SUFFICES ASSUME Preceded(q, S, T), m \in T => Holds(q, S), NEW i \in DOMAIN r, r[i] \in T
               PROVE  \E j \in DOMAIN r : j < i /\ r[j] \in S
    BY DEF Preceded
  <2>1. CASE i \in DOMAIN q
    BY <1>2, <2>1 DEF Preceded
  <2>2. CASE i = Len(q) + 1
    BY <1>1, <1>2, <2>2 DEF Holds
  <2>3. QED
    BY <1>2, <2>1, <2>2
<1>5. Before(q, T, S) /\ ~(m \in T /\ Holds(q, S)) /\ ~(m \in T /\ m \in S) => Before(r, T, S)
  <2> SUFFICES ASSUME Before(q, T, S), ~(m \in T /\ Holds(q, S)), ~(m \in T /\ m \in S),
                      NEW i \in DOMAIN r, NEW j \in DOMAIN r, r[i] \in T, r[j] \in S
               PROVE  i < j
    BY DEF Before
  <2>1. CASE i \in DOMAIN q /\ j \in DOMAIN q
    BY <1>2, <2>1 DEF Before
  <2>2. CASE i \in DOMAIN q /\ j = Len(q) + 1
    BY <1>2, <2>2
  <2>3. CASE i = Len(q) + 1
    BY <1>1, <1>2, <2>3 DEF Holds
  <2>4. QED
    BY <1>2, <2>1, <2>2, <2>3
<1>6. Once(q, S) /\ ~(Holds(q, S) /\ m \in S) => Once(r, S)
  <2> SUFFICES ASSUME Once(q, S), ~(Holds(q, S) /\ m \in S),
                      NEW i \in DOMAIN r, NEW j \in DOMAIN r, r[i] \in S, r[j] \in S
               PROVE  i = j
    BY DEF Once
  <2>1. CASE i \in DOMAIN q /\ j \in DOMAIN q
    BY <1>2, <2>1 DEF Once
  <2>2. CASE i = Len(q) + 1 \/ j = Len(q) + 1
    BY <1>1, <1>2, <2>2 DEF Holds
  <2>3. QED
    BY <1>2, <2>1, <2>2
<1>7. QED
  BY <1>3, <1>4, <1>5, <1>6 DEF r

LEMMA RemainingPackets ==
  ASSUME NEW X, NEW q \in Seq(X), q # <<>>, NEW S, NEW T
  PROVE  /\ Holds(q, S) <=> Head(q) \in S \/ Holds(Tail(q), S)
         /\ Preceded(q, S, T) => Head(q) \notin T
         /\ Preceded(q, S, T) /\ Head(q) \notin S => Preceded(Tail(q), S, T)
         /\ Before(q, T, S) => Before(Tail(q), T, S) /\ (Head(q) \in S => ~Holds(Tail(q), T))
         /\ Once(q, S) => Once(Tail(q), S) /\ (Head(q) \in S => ~Holds(Tail(q), S))
<1> DEFINE r == Tail(q)
<1>1. /\ Len(q) \in Nat /\ Len(q) # 0 /\ DOMAIN q = 1..Len(q) /\ DOMAIN r = 1..(Len(q) - 1)
      /\ Head(q) = q[1] /\ \A i \in 1..(Len(q) - 1) : r[i] = q[i + 1]
  <2>1. /\ Tail(q) \in Seq(X) /\ Len(Tail(q)) = Len(q) - 1 /\ Head(q) = q[1]
        /\ \A i \in 1..Len(Tail(q)) : Tail(q)[i] = q[i + 1]
    BY HeadTailProperties
  <2>2. Len(q) \in Nat /\ DOMAIN q = 1..Len(q) /\ Len(q) # 0
    BY LenProperties, EmptySeq
  <2>3. DOMAIN r = 1..Len(r)
    BY <2>1, LenProperties
  <2>4. QED
    BY <2>1, <2>2, <2>3
<1> HIDE DEF r
<1>2. /\ 1 \in DOMAIN q
      /\ \A i \in DOMAIN r : i \in Int /\ i + 1 \in DOMAIN q /\ r[i] = q[i + 1] /\ i + 1 # 1
      /\ \A i \in DOMAIN q : i = 1 \/ (i - 1 \in DOMAIN r /\ r[i - 1] = q[i] /\ i > 1)
  <2>1. \A i \in 1..Len(q) : i = 1 \/ (i - 1 \in 1..(Len(q) - 1) /\ (i - 1) + 1 = i /\ i > 1)
    BY <1>1
  <2>2. \A i \in 1..(Len(q) - 1) : i + 1 \in 1..Len(q) /\ i + 1 # 1
    BY <1>1
  <2>3. QED
    BY <1>1, <2>1, <2>2
<1>3. Holds(q, S) <=> Head(q) \in S \/ Holds(r, S)
  BY <1>1, <1>2 DEF Holds
<1>4. Preceded(q, S, T) => Head(q) \notin T
  <2>1. ~ \E j \in DOMAIN q : j < 1
    BY <1>1
  <2>2. QED
    BY <1>1, <1>2, <2>1 DEF Preceded
<1>5. Preceded(q, S, T) /\ Head(q) \notin S => Preceded(r, S, T)
  <2> SUFFICES ASSUME Preceded(q, S, T), Head(q) \notin S, NEW i \in DOMAIN r, r[i] \in T
               PROVE  \E j \in DOMAIN r : j < i /\ r[j] \in S
    BY DEF Preceded
  <2>1. PICK k \in DOMAIN q : k < i + 1 /\ q[k] \in S
    BY <1>2 DEF Preceded
  <2>2. k # 1
    BY <1>1, <2>1
  <2>3. k - 1 \in DOMAIN r /\ r[k - 1] \in S
    BY <1>2, <2>1, <2>2
  <2>4. k - 1 < i
    BY <1>1, <1>2, <2>1
  <2>5. QED
    BY <2>3, <2>4
<1>6. Before(q, T, S) => Before(r, T, S) /\ (Head(q) \in S => ~Holds(r, T))
  <2> SUFFICES ASSUME Before(q, T, S)
               PROVE  Before(r, T, S) /\ (Head(q) \in S => ~Holds(r, T))
    OBVIOUS
  <2>1. ASSUME NEW i \in DOMAIN r, NEW j \in DOMAIN r, r[i] \in T, r[j] \in S
        PROVE  i < j
    <3>1. i + 1 < j + 1
      BY <1>2, <2>1 DEF Before
    <3>2. QED
      BY <1>2, <3>1
  <2>2. ASSUME Head(q) \in S, NEW i \in DOMAIN r, r[i] \in T
        PROVE  FALSE
    <3>1. i + 1 < 1 /\ i >= 1
      BY <1>1, <1>2, <2>2 DEF Before
    <3>2. QED
      BY <1>2, <3>1
  <2>3. QED
    BY <2>1, <2>2 DEF Before, Holds
<1>7. Once(q, S) => Once(r, S) /\ (Head(q) \in S => ~Holds(r, S))
  <2> SUFFICES ASSUME Once(q, S)
               PROVE  Once(r, S) /\ (Head(q) \in S => ~Holds(r, S))
    OBVIOUS
  <2>1. ASSUME NEW i \in DOMAIN r, NEW j \in DOMAIN r, r[i] \in S, r[j] \in S
        PROVE  i = j
    <3>1. i + 1 = j + 1
      BY <1>2, <2>1 DEF Once
    <3>2. QED
      BY <1>2, <3>1
  <2>2. ASSUME Head(q) \in S, NEW i \in DOMAIN r, r[i] \in S
        PROVE  FALSE
    BY <1>1, <1>2, <2>2 DEF Once
  <2>3. QED
    BY <2>1, <2>2 DEF Once, Holds
<1>8. QED
  BY <1>3, <1>4, <1>5, <1>6, <1>7 DEF r

-------------------------------------------------------------------------------
(* The frames a step puts on the channels *)

\* Each channel of ch has got at most one packet, from s, of those P permits there.
Puts(ch, s, P) ==
  /\ chan' = [c \in Channel |-> chan'[c]]
  /\ \A c \in Channel : \/ chan'[c] = ch[c]
                        \/ c[1] = s /\ \E p \in P[c] : chan'[c] = Append(ch[c], p)

LEMMA NothingPut ==
  ASSUME NEW P, NEW Q, NEW ch, NEW s, Carries(ch, Q), chan' = ch
  PROVE  Puts(ch, s, P)
BY DEF Puts, Carries

LEMMA QueuedPuts ==
  ASSUME NEW P, NEW ch, NEW s, NEW C, NEW m, chan' = Queued(ch, C, m),
         \A c \in Channel : c \in C => c[1] = s /\ m \in P[c]
  PROVE  Puts(ch, s, P)
<1>1. chan' = [c \in Channel |-> chan'[c]]
  BY DEF Queued
<1>2. ASSUME NEW c \in Channel
      PROVE  chan'[c] = ch[c] \/ (c[1] = s /\ \E p \in P[c] : chan'[c] = Append(ch[c], p))
  BY DEF Queued
<1>3. QED
  BY <1>1, <1>2 DEF Puts

LEMMA OutputPuts ==
  ASSUME NEW P, NEW ch, NEW s, NEW dest, NEW m, chan' = Output(ch, s, dest, m),
         \A c \in Channel : Reaches(c, s, dest) => m \in P[c]
  PROVE  Puts(ch, s, P)
BY QueuedPuts DEF Output, Reaches

LEMMA OutputAllPuts ==
  ASSUME NEW P, NEW ch, NEW s, NEW hops, NEW m, chan' = OutputAll(ch, s, hops, m),
         \A c \in Channel : \A hop \in hops : Reaches(c, s, hop) => m \in P[c]
  PROVE  Puts(ch, s, P)
BY QueuedPuts DEF OutputAll, Reaches

\* What is permitted afterwards holds what was on the channels and what was put.
LEMMA CarriesWider ==
  ASSUME NEW P, NEW Q, NEW ch, Carries(ch, P), \A c \in Channel : P[c] \subseteq Q[c]
  PROVE  Carries(ch, Q)
<1>1. ASSUME NEW c \in Channel
      PROVE  ch[c] \in Seq(Q[c])
  <2> DEFINE S == P[c]
             T == Q[c]
             q == ch[c]
  <2>1. S \subseteq T /\ q \in Seq(S)
    BY DEF Carries
  <2> HIDE DEF S, T, q
  <2>2. q \in Seq(T)
    BY <2>1
  <2>3. QED
    BY <2>2 DEF T, q
<1>2. QED
  BY <1>1 DEF Carries

LEMMA PutsCarries ==
  ASSUME NEW P, NEW Q, NEW ch, NEW s, Carries(ch, Q), Puts(ch, s, P), \A c \in Channel : P[c] \subseteq Q[c]
  PROVE  Carries(chan', Q)
<1>1. ASSUME NEW c \in Channel
      PROVE  chan'[c] \in Seq(Q[c])
  <2> DEFINE S == Q[c]
             q == ch[c]
  <2>1. q \in Seq(S) /\ P[c] \subseteq S
    BY DEF Carries
  <2>2. chan'[c] = q \/ \E p \in P[c] : chan'[c] = Append(q, p)
    BY DEF Puts
  <2> HIDE DEF S, q
  <2>3. \A p \in S : Append(q, p) \in Seq(S)
    BY <2>1, AppendProperties
  <2>4. chan'[c] \in Seq(S)
    BY <2>1, <2>2, <2>3
  <2>5. QED
    BY <2>4 DEF S
<1>2. QED
  BY <1>1 DEF Carries, Puts

\* A frame that was received is the first of its channel, and the receiver puts
\* nothing on that one.
LEMMA TakenPuts ==
  ASSUME chan \in [Channel -> Seq(Packet)], NEW P, NEW e \in Channel, chan[e] # <<>>,
         Puts(Taken(e), e[2], P)
  PROVE  /\ chan'[e] = Tail(chan[e])
         /\ \A c \in Channel : c # e =>
              chan'[c] = chan[c] \/ \E p \in P[c] : chan'[c] = Append(chan[c], p)
<1>1. Taken(e)[e] = Tail(chan[e]) /\ \A c \in Channel : c # e => Taken(e)[c] = chan[c]
  BY DEF Taken
<1>2. e[1] # e[2]
  <2>1. <<e[1], e[2]>>[1] # <<e[1], e[2]>>[2]
    BY RadioAssumption, ChannelEnds
  <2>2. QED
    BY <2>1
<1>3. QED
  BY <1>1, <1>2 DEF Puts

-------------------------------------------------------------------------------
(* The invariant of a flat farm *)

\* From a device to a sub-gateway; with Up the way of announcements and reports.
Low == {c \in Channel : c[1] \in Ends /\ c[2] \in SubGateways /\ c[3] = "unicast"}
BarnEnd(c) == IF c[1] \in SubGateways THEN c[1] ELSE c[2]

\* Announcements and reports only travel these two ways, first those of the device
\* itself, and a device has been in the barn an announcement of it comes from.
\* Nobody asks queries; and a valve only gets to irrigate when it has a parent to
\* acknowledge that to.
Local ==
  [c \in Channel |->
     {p \in Packet :
        /\ p.flag = "NOT_MOBILE"
        /\ p.kind = "SETUP_ACK" =>
             /\ c \in Up \cup Low /\ (c \in Low => p.addr = c[1] /\ c[1] \in Attached)
             /\ p.addr \in Device /\ BarnEnd(c) \in homes[p.addr]
        /\ p.kind = "DATA_UP" => c \in Up \cup Low /\ (c \in Low => p.src = c[1])
        /\ p.kind = "DATA_DOWN" =>
             /\ c[2] # Served
             /\ p.group = IRRIGATION_GROUP => c[3] = "unicast" /\ c[2] \in SubGateways \cup Attached}]

\* Who has a parent has been in its barn, and a sub-gateway in its own.
Lodged ==
  /\ homes \in [Device -> SUBSET SubGateways]
  /\ \A d \in Ends \cap Attached : parent[d].addr \in homes[d]
  /\ \A b \in SubGateways \cap Attached : parent[b].addr = Served /\ b \in homes[b]

\* Only sub-gateways and the gateway have children: the former neighbours they
\* have been the home of, the latter through barns that have a number.
FlatTables ==
  /\ \A d \in Ends : DOMAIN children[d] = {}
  /\ \A b \in SubGateways : \A i \in DOMAIN children[b] :
       LET e == children[b][i]
       IN e.from = e.addr /\ e.addr \in Ends \cap Attached /\ b \in homes[e.addr]
  /\ \A i \in DOMAIN children[Served] :
       LET e == children[Served][i]
       IN e.from \in homes[e.addr] /\ \E j \in DOMAIN barns[Served] : barns[Served][j] = e.from

Announcements(a) == {p \in Packet : p.kind = "SETUP_ACK" /\ p.addr = a}
Reports(a) == {p \in Packet : p.kind = "DATA_UP" /\ p.src = a}

\* The gateway knows a, or an announcement of it is on the way from b.
Listed(a) == Has(children[Served], a)
Passed(b, a) == \A u \in Up : u[1] = b => Listed(a) \/ Holds(chan[u], Announcements(a))

\* Everyone's announcement is ahead of its reports, on each leg of the way: a child
\* of a sub-gateway has been passed on, and a device with a parent has announced
\* itself to it.
Heralds ==
  /\ \A u \in Up, a \in Device :
       Listed(a) \/ Preceded(chan[u], Announcements(a), Reports(a))
  /\ \A b \in SubGateways \cap Attached : Passed(b, b)
  /\ \A b \in SubGateways, a \in Device : Has(children[b], a) => Passed(b, a)
  /\ \A l \in Low :
       \/ Passed(l[2], l[1])
       \/ /\ Preceded(chan[l], Announcements(l[1]), Reports(l[1]))
          /\ parent[l[1]].addr = l[2] => Holds(chan[l], Announcements(l[1]))

HomeInv == Carries(chan, Local) /\ Lodged /\ FlatTables /\ Heralds
FarmInv == IInv /\ KnownInv /\ RoutedInv /\ HomeInv

\* Homes are never forgotten, and nobody loses its record of a parent; whoever
\* takes one is at home with it.
HomesGrow ==
  /\ homes' \in [Device -> SUBSET SubGateways]
  /\ \A d \in Device : homes[d] \subseteq homes'[d]
  /\ \A d \in Device : \/ parent'[d] = parent[d]
                       \/ d \in SubGateways /\ d \in homes'[d] /\ parent'[d].addr = Served
                       \/ d \in Ends /\ parent'[d].addr \in homes'[d]
  /\ Attached \subseteq Attached'

\* A step changes the record of a parent by adopting one.
LEMMA ParentsAdopted ==
  ASSUME IInv, UndisturbedNext, NEW d \in Device
  PROVE  parent'[d] = parent[d] \/ setup'[d] = 1
<1>1. parent \in [Device -> Parent] /\ setup \in [Device -> {0, 1}]
  BY DEF IInv, AttachInv
<1>2. ASSUME NEW c \in Channel, NodeResponse(c) \/ MobileResponse(c) \/ SubGatewayOffer(c)
      PROVE  parent'[d] = parent[d] \/ setup'[d] = 1
  <2> DEFINE r == c[2]
             m == Head(chan[c])
  <2>1. Adopt(r, Taken(c), m.src, m.ntype) \/ parent' = parent
    BY <1>2 DEF NodeResponse, MobileResponse, SubGatewayOffer, CheckParentNode, CheckParentSubGateway
  <2>2. QED
    BY <1>1, <2>1 DEF Adopt
<1>3. ASSUME NEW c \in Channel,
             \/ NodeSetupAck(c) \/ SubGatewaySetupAck(c) \/ MobileSetupAck(c)
             \/ GatewaySetupAck(c) \/ NodeChildRm(c) \/ SubGatewayChildRm(c)
      PROVE  UNCHANGED parent
  BY <1>3 DEF NodeSetupAck, SubGatewaySetupAck, MobileSetupAck, GatewaySetupAck, NodeChildRm,
              SubGatewayChildRm
<1>4. QED
  BY <1>2, <1>3, Handlers, RelaysUnchanged DEF UndisturbedNext

\* The ghost follows every step of the farm.
LEMMA HomesFollow ==
  ASSUME IInv, [FarmNext]_farm
  PROVE  \/ UNCHANGED <<setup, parent, homes>>
         \/ homes' = [d \in Device |-> homes[d] \cup HomeOf(d)']
<1>1. CASE UNCHANGED farm
  BY <1>1 DEF farm, vars
<1>2. CASE Turn \/ Obey \/ Tick
  BY <1>2 DEF Turn, Obey, Tick, vars
<1>3. ASSUME Housed
      PROVE  \/ UNCHANGED <<setup, parent, homes>>
             \/ homes' = [d \in Device |-> homes[d] \cup HomeOf(d)']
  BY <1>3 DEF Housed
<1>4. ASSUME NEW d \in Device, Report(d) \/ Search(d)
      PROVE  Housed \/ UNCHANGED <<setup, parent, homes>>
  BY <1>4 DEF Report, Search, SendSetup
<1>5. QED
  BY <1>1, <1>2, <1>3, <1>4 DEF FarmNext, Work, FarmReceive

LEMMA HomesKept ==
  ASSUME Flat, IInv, IInv', Lodged, UndisturbedNext, [FarmNext]_farm
  PROVE  HomesGrow
<1>1. homes \in [Device -> SUBSET SubGateways]
  BY DEF Lodged
<1>2. Homely' /\ BarnParents'
  BY HomeOfWillBe
<1>3. CASE UNCHANGED <<parent, homes>>
  BY <1>1, <1>3 DEF HomesGrow, Attached
<1>4. CASE homes' = [d \in Device |-> homes[d] \cup HomeOf(d)']
  <2>1. ASSUME NEW d \in Device
        PROVE  /\ homes'[d] = homes[d] \cup HomeOf(d)'
               /\ HomeOf(d)' = IF d \in SubGateways THEN {d}
                               ELSE IF d \in Ends /\ setup'[d] = 1 THEN {parent'[d].addr} ELSE {}
    BY <1>2, <1>4 DEF Homely
  <2>2. ASSUME NEW d \in Device, setup'[d] = 1
        PROVE  /\ d \in SubGateways \cup Ends
               /\ d \in Ends => d \notin SubGateways /\ parent'[d].addr \in SubGateways
               /\ d \in SubGateways => parent'[d].addr = Served
    BY <1>2, <2>2, RolesAssumption DEF BarnParents, Device, Ends
  <2>3. ASSUME NEW d \in Device
        PROVE  homes'[d] \in SUBSET SubGateways
    BY <1>1, <2>1, <2>2
  <2>4. homes' \in [Device -> SUBSET SubGateways]
    BY <1>4, <2>3
  <2>5. ASSUME NEW d \in Device, parent'[d] # parent[d]
        PROVE  /\ \/ d \in SubGateways /\ d \in homes'[d] /\ parent'[d].addr = Served
                  \/ d \in Ends /\ parent'[d].addr \in homes'[d]
               /\ d \in Attached'
    <3>1. setup'[d] = 1
      BY <2>5, ParentsAdopted
    <3>2. \/ d \in SubGateways /\ d \in homes'[d] /\ parent'[d].addr = Served
          \/ d \in Ends /\ parent'[d].addr \in homes'[d] /\ parent'[d].addr \in SubGateways
      BY <2>1, <2>2, <3>1
    <3>3. parent'[d].addr # NullAddr
      BY <3>2, RolesAssumption, FarmAssumption DEF Device
    <3>4. QED
      BY <3>2, <3>3 DEF Attached
  <2>6. Attached \subseteq Attached'
    BY <2>5 DEF Attached
  <2>7. QED
    BY <2>1, <2>4, <2>5, <2>6 DEF HomesGrow
<1>5. QED
  BY <1>3, <1>4, HomesFollow

\* What a step may put on each channel: a report starts on its way to a parent, and
\* goes on to the gateway after the announcement.
Fresh ==
  [c \in Channel |->
     {p \in Local'[c] :
        p.kind = "DATA_UP" => /\ c \in Low => parent[c[1]].addr = c[2]
                              /\ c \in Up => Passed(c[1], p.src)}]

\* Control packets that are no announcements may be sent by anyone to anyone.
LEMMA PlainFresh ==
  ASSUME NEW p \in Packet, p.flag = "NOT_MOBILE", p.kind \notin {"SETUP_ACK", "DATA_UP", "DATA_DOWN"}
  PROVE  \A c \in Channel : p \in Fresh[c]
BY DEF Fresh, Local

LEMMA ControlFresh ==
  ASSUME NEW s \in Device, NEW a \in Device \cup {NullAddr}, NEW ntype \in {NODE, SUB_GATEWAY, GATEWAY},
         NEW kind \in {"SETUP", "RESPONSE", "DATA_ACK", "CHILD_RM"}
  PROVE  \A c \in Channel : Control(kind, s, ntype, a, UNICAST_GROUP) \in Fresh[c]
<1> DEFINE p == Control(kind, s, ntype, a, UNICAST_GROUP)
<1>1. p \in Packet /\ p.flag = "NOT_MOBILE" /\ p.kind = kind
  BY DEF Control, Packet, Kinds, Flags, UNICAST_GROUP, Groups
<1> HIDE DEF p
<1>2. \A c \in Channel : p \in Fresh[c]
  BY <1>1, PlainFresh
<1>3. QED
  BY <1>2 DEF p

\* What was on the channels stays permitted, and what is put there is.
LEMMA LocalGrows ==
  ASSUME HomesGrow
  PROVE  \A c \in Channel : Local[c] \subseteq Local'[c] /\ Fresh[c] \subseteq Local'[c]
<1> SUFFICES ASSUME NEW c \in Channel
             PROVE  Local[c] \subseteq Local'[c] /\ Fresh[c] \subseteq Local'[c]
  OBVIOUS
<1>1. \A a \in Device : BarnEnd(c) \in homes[a] => BarnEnd(c) \in homes'[a]
  BY DEF HomesGrow
<1>2. \A d : d \in Attached => d \in Attached'
  BY DEF HomesGrow
<1>3. Local[c] \subseteq Local'[c]
  BY <1>1, <1>2 DEF Local, Up, Low, BarnEnd
<1>4. QED
  BY <1>3 DEF Fresh


\* The packet a handler of the farm is called with.
LEMMA ReceivesLocal ==
  ASSUME IInv, HomeInv, NEW e \in Channel, NEW D, NEW kinds, Receives(e, D, kinds)
  PROVE  /\ Carries(Taken(e), Local) /\ chan[e] # <<>>
         /\ Head(chan[e]) \in Local[e] /\ Head(chan[e]) \in PacketFrom(e[1])
         /\ Head(chan[e]) \in Packet /\ Head(chan[e]).src \in Device
         /\ Head(chan[e]).addr \in Device \cup {NullAddr}
         /\ Head(chan[e]).kind \in kinds /\ Head(chan[e]).flag = "NOT_MOBILE"
         /\ e[1] \in Device /\ e[2] \in Device /\ e[2] \in D
<1>1. /\ Carries(Taken(e), Local)
      /\ Head(chan[e]) \in Local[e] /\ Head(chan[e]) \in PacketFrom(e[1])
      /\ Head(chan[e]) \in Packet /\ Head(chan[e]).kind \in kinds
      /\ e[1] \in Device /\ e[2] \in Device /\ e[2] \in D
  BY ReceivesCarries DEF HomeInv
<1>2. Head(chan[e]).flag = "NOT_MOBILE"
  BY <1>1 DEF Local
<1>3. Head(chan[e]).src \in Device /\ Head(chan[e]).addr \in Device \cup {NullAddr}
  BY <1>1 DEF Packet
<1>4. QED
  BY <1>1, <1>2, <1>3 DEF Receives

\* Answers to a SETUP.
LEMMA OffersPut ==
  ASSUME IInv, HomeInv, NEW e \in Channel, NodeSetup(e) \/ SubGatewaySetup(e) \/ GatewaySetup(e)
  PROVE  Puts(Taken(e), e[2], Fresh)
<1> DEFINE d == e[2]
           m == Head(chan[e])
           Offer(ntype) == Control("RESPONSE", d, ntype, NullAddr, UNICAST_GROUP)
<1>1. Carries(Taken(e), Local) /\ d \in Device
  BY ReceivesLocal DEF NodeSetup, SubGatewaySetup, GatewaySetup
<1>2. \A ntype \in {NODE, SUB_GATEWAY, GATEWAY} : \A c \in Channel : Offer(ntype) \in Fresh[c]
  BY <1>1, ControlFresh
<1>3. \/ chan' = Taken(e)
      \/ \E ntype \in {NODE, SUB_GATEWAY, GATEWAY} : chan' = Output(Taken(e), d, m.src, Offer(ntype))
  BY DEF NodeSetup, SubGatewaySetup, GatewaySetup
<1> HIDE DEF Offer, d
<1>4. QED
  BY <1>1, <1>2, <1>3, NothingPut, OutputPuts DEF d

\* Removals, acknowledgements, and what is ignored.
LEMMA RelaysPut ==
  ASSUME IInv, HomeInv, NEW e \in Channel,
         \/ NodeChildRm(e) \/ NodeDataAck(e) \/ SubGatewayChildRm(e) \/ SubGatewayDataAck(e)
         \/ MobileDataAck(e) \/ GatewayData(e) \/ GatewaySetupAck(e) \/ GatewayIgnore(e) \/ MobileIgnore(e)
  PROVE  Puts(Taken(e), e[2], Fresh)
<1> DEFINE d == e[2]
           m == Head(chan[e])
           rm == Control("CHILD_RM", d, NODE, m.addr, UNICAST_GROUP)
           ack == Control("DATA_ACK", d, NODE, m.addr, UNICAST_GROUP)
           own == Control("DATA_ACK", d, GATEWAY, m.src, UNICAST_GROUP)
<1>1. /\ Carries(Taken(e), Local) /\ d \in Device
      /\ m.src \in Device /\ m.addr \in Device \cup {NullAddr}
  BY ReceivesLocal
     DEF NodeChildRm, NodeDataAck, SubGatewayChildRm, SubGatewayDataAck, MobileDataAck, GatewayData,
         GatewaySetupAck, GatewayIgnore, MobileIgnore
<1>2. \A c \in Channel : rm \in Fresh[c] /\ ack \in Fresh[c] /\ own \in Fresh[c]
  BY <1>1, ControlFresh
<1>3. \/ chan' = Taken(e)
      \/ \E hop : \/ chan' = Output(Taken(e), d, hop, rm)
                  \/ chan' = Output(Taken(e), d, hop, ack)
                  \/ chan' = Output(Taken(e), d, hop, own)
  <2>1. CASE NodeChildRm(e) \/ SubGatewayChildRm(e)
    BY <2>1 DEF NodeChildRm, SubGatewayChildRm, ForgetChild
  <2>2. CASE NodeDataAck(e) \/ SubGatewayDataAck(e) \/ MobileDataAck(e)
    BY <2>2 DEF NodeDataAck, SubGatewayDataAck, MobileDataAck, PassAck
  <2>3. CASE GatewayData(e)
    BY <2>3 DEF GatewayData, AcknowledgeVia
  <2>4. CASE GatewaySetupAck(e)
    BY <2>4 DEF GatewaySetupAck, AfterSetChild
  <2>5. CASE GatewayIgnore(e) \/ MobileIgnore(e)
    BY <2>5 DEF GatewayIgnore, MobileIgnore
  <2>6. QED
    BY <2>1, <2>2, <2>3, <2>4, <2>5
<1> HIDE DEF rm, ack, own, d
<1>4. QED
  BY <1>1, <1>2, <1>3, NothingPut, OutputPuts DEF d

\* Nobody announces itself to a node or a mobile, which are out of reach of one
\* another.
LEMMA EndsRegisterNobody ==
  ASSUME IInv, HomeInv, NEW e \in Channel
  PROVE  ~NodeSetupAck(e) /\ ~MobileSetupAck(e)
<1> SUFFICES ASSUME NodeSetupAck(e) \/ MobileSetupAck(e)
             PROVE  FALSE
  OBVIOUS
<1>1. Head(chan[e]) \in Local[e] /\ Head(chan[e]).kind = "SETUP_ACK" /\ e[2] \in Ends
  BY ReceivesLocal DEF NodeSetupAck, MobileSetupAck, Ends
<1>2. e[2] \in Gateways \cup SubGateways
  BY <1>1 DEF Local, Up, Low
<1>3. QED
  BY <1>1, <1>2, RolesAssumption DEF Ends

\* Taking a parent, it is told: at once, and before anything else.
LEMMA OfferTaken ==
  ASSUME Flat, IInv, HomeInv, HomesGrow, BarnParents', NEW e \in Channel,
         NodeResponse(e) \/ MobileResponse(e) \/ SubGatewayOffer(e)
  PROVE  /\ Puts(Taken(e), e[2], Fresh)
         /\ \A c \in Channel : c \in Low /\ Uncrowded /\ parent'[c[1]].addr = c[2] =>
              parent'[c[1]] = parent[c[1]] \/ Holds(chan'[c], Announcements(c[1]))
<1> DEFINE d == e[2]
           m == Head(chan[e])
           ack == Control("SETUP_ACK", d, TypeOf(d), d, GroupOf[d])
<1>1. /\ Carries(Taken(e), Local) /\ d \in Device /\ m.src \in Device /\ d \in Ends \cup SubGateways
  BY ReceivesLocal DEF NodeResponse, MobileResponse, SubGatewayOffer, Ends
<1>2. /\ parent \in [Device -> Parent] /\ setup \in [Device -> {0, 1}]
      /\ chan \in [Channel -> Seq(Packet)]
  BY DEF IInv, AttachInv, Channels
<1>3. \/ Adopt(d, Taken(e), m.src, m.ntype)
      \/ chan' = Taken(e) /\ UNCHANGED <<parent, setup>>
  BY DEF NodeResponse, MobileResponse, SubGatewayOffer, CheckParentNode, CheckParentSubGateway
<1>4. ack \in Packet /\ ack.kind = "SETUP_ACK" /\ ack.addr = d /\ ack.flag = "NOT_MOBILE"
  BY <1>1, TypeOfRole, GroupAssumption DEF Control, Packet, Kinds, Flags
<1>5. CASE chan' = Taken(e) /\ UNCHANGED <<parent, setup>>
  BY <1>1, <1>5, NothingPut
<1>6. CASE Adopt(d, Taken(e), m.src, m.ntype)
  <2>1. /\ parent'[d].addr = m.src /\ setup'[d] = 1 /\ chan' = Output(Taken(e), d, m.src, ack)
        /\ \A x \in Device : x # d => parent'[x] = parent[x]
    BY <1>1, <1>2, <1>6 DEF Adopt
  <2>2. m.src # NullAddr
    BY <1>1, RolesAssumption
  <2>3. ASSUME NEW c \in Channel, Reaches(c, d, m.src)
        PROVE  ack \in Fresh[c]
    <3>1. c[1] = d /\ c[2] = m.src /\ c[3] = "unicast"
      BY <2>2, <2>3 DEF Reaches
    <3>2. \/ d \in SubGateways /\ m.src = Served /\ Served \in Gateways
          \/ d \in Ends /\ d \notin SubGateways /\ m.src \in SubGateways /\ m.src \notin Gateways
      BY <1>1, <2>1, FarmAssumption, RolesAssumption DEF BarnParents, Ends
    <3>3. c \in Up \cup Low /\ (c \in Low => d = c[1] /\ c[1] \in Attached')
      BY <1>1, <2>1, <2>2, <3>1, <3>2, <2>3 DEF Up, Low, Attached
    <3>4. BarnEnd(c) \in homes'[d]
      <4>1. CASE parent'[d] = parent[d]
        <5>1. d \in Attached /\ parent[d].addr = m.src
          BY <1>1, <2>1, <2>2, <4>1 DEF Attached
        <5>2. IF d \in SubGateways THEN d \in homes[d] ELSE m.src \in homes[d]
          BY <1>1, <3>2, <5>1 DEF HomeInv, Lodged
        <5>3. IF d \in SubGateways THEN d \in homes'[d] ELSE m.src \in homes'[d]
          BY <1>1, <5>2 DEF HomesGrow
        <5>4. QED
          BY <3>1, <5>3 DEF BarnEnd
      <4>2. CASE parent'[d] # parent[d]
        <5>1. IF d \in SubGateways THEN d \in homes'[d] ELSE m.src \in homes'[d]
          BY <1>1, <2>1, <3>2, <4>2, RolesAssumption DEF HomesGrow, Ends
        <5>2. QED
          BY <3>1, <5>1 DEF BarnEnd
      <4>3. QED
        BY <4>1, <4>2
    <3>5. QED
      BY <1>1, <1>4, <3>3, <3>4 DEF Fresh, Local, Up, Low, BarnEnd
  <2>4. Puts(Taken(e), d, Fresh)
    <3> HIDE DEF d, ack
    <3>1. QED
      BY <2>1, <2>3, OutputPuts
  <2>5. ASSUME NEW c \in Low, Uncrowded, parent'[c[1]].addr = c[2], parent'[c[1]] # parent[c[1]]
        PROVE  Holds(chan'[c], Announcements(c[1]))
    <3>1. c \in Channel /\ c[1] \in Device /\ c[3] = "unicast"
      BY ChannelEnds DEF Low
    <3>2. c[1] = d /\ c[2] = m.src
      BY <2>1, <2>5, <3>1
    <3>3. c # e
      <4>1. e[1] # e[2]
        <5>1. <<e[1], e[2]>> \in Link /\ <<e[1], e[2]>>[1] = e[1] /\ <<e[1], e[2]>>[2] = e[2]
          BY ChannelEnds
        <5>2. QED
          BY <5>1, RadioAssumption
      <4>2. QED
        BY <3>2, <4>1
    <3>4. Taken(e)[c] = chan[c] /\ Len(chan[c]) < QueueSize
      BY <1>2, <2>5, <3>1, <3>3 DEF Taken, Uncrowded
    <3>5. Reaches(c, d, m.src)
      BY <2>2, <3>1, <3>2 DEF Reaches
    <3>6. chan'[c] = Append(chan[c], ack)
      BY <2>1, <3>1, <3>4, <3>5, Delivered
    <3>7. ack \in Announcements(c[1])
      BY <1>4, <3>2 DEF Announcements
    <3>8. chan[c] \in Seq(Packet) /\ ack \in Packet
      BY <1>2, <1>4, <3>1
    <3> HIDE DEF ack
    <3>9. Holds(Append(chan[c], ack), Announcements(c[1]))
      BY <3>7, <3>8, AppendedPackets
    <3>10. QED
      BY <3>6, <3>9
  <2>6. QED
    BY <2>4, <2>5
<1>7. QED
  BY <1>3, <1>5, <1>6


\* A sub-gateway passes the child it is told about on to the gateway.  Its children
\* are all neighbours, so nobody has to forget one.
LEMMA BarnRegisters ==
  ASSUME Flat, IInv, RoutedInv, HomeInv, HomesGrow, NEW e \in Channel, SubGatewaySetupAck(e)
  PROVE  /\ Puts(Taken(e), e[2], Fresh)
         /\ \A u \in Up : \A a : Uncrowded /\ Has(children'[u[1]], a) =>
              Has(children[u[1]], a) \/ Holds(chan'[u], Announcements(a))
<1> DEFINE d == e[2]
           m == Head(chan[e])
           table == children[d]
           last == LastChild(children'[d])
           ack == Control("SETUP_ACK", d, TypeOf(d), last.addr, last.group)
<1>1. /\ Carries(Taken(e), Local) /\ d \in Device /\ d \in SubGateways /\ e[1] \in Device
      /\ m \in Local[e] /\ m \in PacketFrom(e[1]) /\ m \in Packet /\ m.kind = "SETUP_ACK"
      /\ m.addr \in Device
  <2>1. /\ Carries(Taken(e), Local) /\ d \in Device /\ d \in SubGateways /\ e[1] \in Device
        /\ m \in Local[e] /\ m \in PacketFrom(e[1]) /\ m \in Packet /\ m.kind \in {"SETUP_ACK"}
    BY ReceivesLocal DEF SubGatewaySetupAck
  <2>2. QED
    BY <2>1 DEF PacketFrom
<1>2. e \in Low /\ m.addr = e[1] /\ m.src = e[1] /\ d \in homes[m.addr]
  <2>1. e \in Up \cup Low /\ e \notin Up
    BY <1>1, RolesAssumption DEF Local, Up
  <2>2. m.addr = e[1] /\ BarnEnd(e) \in homes[m.addr]
    BY <1>1, <2>1 DEF Local
  <2>3. BarnEnd(e) = d
    BY <2>1, RolesAssumption DEF BarnEnd, Low, Ends
  <2>4. QED
    BY <1>1, <2>1, <2>2, <2>3 DEF PacketFrom
<1>3. d \in Attached /\ parent[d].addr = Served
  <2>1. m \in Rooted(Attached)[e]
    BY ReceivesCarries DEF RoutedInv, RootedInv, SubGatewaySetupAck
  <2>2. d \in Attached
    BY <1>1, <2>1, RolesAssumption DEF Rooted
  <2>3. QED
    BY <1>1, <2>2 DEF HomeInv, Lodged
<1>4. /\ Enters(d, ChildOf(m)) /\ RegisterChild(d, Taken(e), m) /\ ChildOf(m) \in Child /\ TableInv
      /\ ChildOf(m).addr = m.addr
  BY <1>1 DEF SubGatewaySetupAck, RegisterChild, Enters, ChildOf, Child, Packet, IInv
<1>5. ~Superseded(table, ChildOf(m))
  <2>1. table \in Seq(Child) /\ UniqueAddrs(table)
    BY <1>1, <1>4 DEF TableInv, NoDuplicateChild
  <2>2. \A i \in DOMAIN table : table[i].from = table[i].addr
    BY <1>1 DEF HomeInv, FlatTables
  <2> HIDE DEF table, m
  <2>3. Has(table, m.addr) => NextHop(table, m.addr) = m.addr
    BY <2>1, <2>2, IndexOfFound DEF NextHop
  <2>4. QED
    BY <1>4, <2>3 DEF Superseded
<1>6. chan' = Output(Taken(e), d, Served, ack)
  <2>1. children'[d] = SetChild(table, ChildOf(m))
    BY <1>1, <1>4 DEF Enters, TableInv
  <2>2. AfterSetChild(d, Taken(e), m) = Taken(e)
    BY <1>5 DEF AfterSetChild
  <2>3. QED
    BY <1>3, <1>4, <2>1, <2>2 DEF RegisterChild
<1>7. last \in Child /\ d \in homes[last.addr]
  <2>1. /\ \A i \in DOMAIN children'[d] : \/ children'[d][i] = ChildOf(m)
                                          \/ \E j \in DOMAIN children[d] : children'[d][i] = children[d][j]
        /\ \E i \in DOMAIN children'[d] : last = children'[d][i]
    BY <1>1, <1>4, SetChildEntries
  <2>2. last = ChildOf(m) \/ \E j \in DOMAIN children[d] : last = children[d][j]
    BY <2>1
  <2>3. \A j \in DOMAIN children[d] : d \in homes[children[d][j].addr]
    BY <1>1 DEF HomeInv, FlatTables
  <2>4. d \in homes[last.addr]
    BY <1>2, <1>4, <2>2, <2>3
  <2>5. QED
    BY <1>1, <1>4, <2>4, LastChildTyped
<1>8. /\ last.addr \in Device /\ last.group \in Groups
      /\ ack \in Packet /\ ack.kind = "SETUP_ACK" /\ ack.addr = last.addr /\ ack.flag = "NOT_MOBILE"
  BY <1>1, <1>7, TypeOfRole DEF Control, Packet, Kinds, Flags, Child
<1>9. ASSUME NEW c \in Channel, Reaches(c, d, Served)
      PROVE  ack \in Fresh[c] /\ c \in Up
  <2>1. c[1] = d /\ c[2] = Served /\ c[3] = "unicast" /\ Served \in Gateways
    BY <1>9, FarmAssumption, RolesAssumption DEF Reaches, Device
  <2>2. c \in Up /\ c \notin Low
    BY <1>1, <2>1, RolesAssumption DEF Up, Low
  <2>3. BarnEnd(c) \in homes'[last.addr]
    BY <1>1, <1>7, <1>8, <2>1 DEF BarnEnd, HomesGrow
  <2>4. QED
    BY <1>8, <2>2, <2>3 DEF Fresh, Local, Up, Low, BarnEnd
<1>10. Puts(Taken(e), d, Fresh)
  <2> HIDE DEF d, ack
  <2>1. QED
    BY <1>6, <1>9, OutputPuts
<1>11. ASSUME NEW u \in Up, NEW a, Uncrowded, Has(children'[u[1]], a), ~Has(children[u[1]], a)
       PROVE  Holds(chan'[u], Announcements(a))
  <2>1. u \in Channel /\ u[2] = Served /\ u[3] = "unicast" /\ u[1] \in Device /\ chan[u] \in Seq(Packet)
    BY UpChannel DEF Flat
  <2>2. u[1] = d /\ a = m.addr
    <3>1. PICK i \in DOMAIN children'[u[1]] : children'[u[1]][i].addr = a
      BY <1>11 DEF Has
    <3>2. ~ \E j \in DOMAIN children[u[1]] : children'[u[1]][i] = children[u[1]][j]
      BY <1>11, <3>1 DEF Has
    <3>3. u[1] = d /\ children'[u[1]][i] = ChildOf(m)
      BY <1>1, <1>4, <2>1, <3>2, SetChildEntries
    <3>4. QED
      BY <1>4, <3>1, <3>3
  <2>3. last = ChildOf(m)
    BY <1>1, <1>4, <1>11, <2>2, SetChildEntries
  <2>4. ack \in Announcements(a)
    BY <1>4, <1>8, <2>2, <2>3 DEF Announcements
  <2>5. Taken(e)[u] = chan[u] /\ Len(chan[u]) < QueueSize
    <3>1. e # u
      BY <1>1, <2>1, FarmAssumption, RolesAssumption
    <3>2. QED
      BY <1>11, <2>1, <3>1, UpChannel DEF Uncrowded
  <2>6. Reaches(u, d, Served)
    BY <2>1, <2>2, FarmAssumption, RolesAssumption DEF Reaches, Device
  <2>7. chan'[u] = Append(chan[u], ack)
    BY <1>6, <2>1, <2>5, <2>6, Delivered
  <2>8. ack \in Packet
    BY <1>8
  <2> DEFINE S == Announcements(a)
             q == chan[u]
  <2> HIDE DEF ack
  <2>9. ack \in S /\ q \in Seq(Packet) /\ chan'[u] = Append(q, ack)
    BY <2>1, <2>4, <2>7
  <2> HIDE DEF S, q
  <2>10. Holds(Append(q, ack), S)
    BY <2>8, <2>9, AppendedPackets
  <2>11. QED
    BY <2>9, <2>10 DEF S
<1>12. QED
  BY <1>10, <1>11

\* A report goes on to the gateway once the announcement has, a command down to the
\* children; and a valve that irrigates reports that.
LEMMA DataPut ==
  ASSUME Flat, IInv, HomeInv, HomesGrow, NEW e \in Channel, NodeData(e) \/ SubGatewayData(e)
  PROVE  Puts(Taken(e), e[2], Fresh)
<1> DEFINE d == e[2]
           m == Head(chan[e])
<1>1. /\ Carries(Taken(e), Local) /\ d \in Device /\ e[1] \in Device /\ chan[e] # <<>>
      /\ m \in Local[e] /\ m \in Packet /\ m.kind \in {"DATA_UP", "DATA_DOWN"}
      /\ m.flag = "NOT_MOBILE" /\ m.src \in Device
  BY ReceivesLocal DEF NodeData, SubGatewayData
<1>2. CASE NodeData(e)
  <2>1. d \in Nodes /\ d \in Ends
    BY <1>2 DEF NodeData, Receives, Ends
  <2>2. m.kind = "DATA_DOWN"
    <3>1. e \notin Up \cup Low
      BY <2>1, RolesAssumption DEF Up, Low
    <3>2. QED
      BY <1>1, <3>1 DEF Local
  <2>3. Forwarded(d, Taken(e), m) = Taken(e)
    <3>1. GroupHops(children[d], m.group) = {}
      BY <2>1 DEF GroupHops, HomeInv, FlatTables
    <3>2. OutputAll(Taken(e), d, {}, m) = [c \in Channel |-> Taken(e)[c]]
      BY DEF OutputAll, Queued
    <3>3. QED
      BY <1>1, <2>2, <3>1, <3>2 DEF Forwarded, Carries
  <2>4. ~AsksSensor(d, m)
    BY <1>1 DEF AsksSensor
  <2>5. CASE ~StartsIrrigation(d, m)
    <3>1. chan' = Taken(e)
      BY <1>2, <2>3, <2>4, <2>5 DEF NodeData
    <3>2. QED
      BY <1>1, <3>1, NothingPut
  <2>6. CASE StartsIrrigation(d, m)
    <3> DEFINE p == Data("DATA_UP", d, UNICAST_GROUP, "NOT_MOBILE")
    <3>1. chan' = Output(Taken(e), d, parent[d].addr, p)
      BY <1>2, <2>3, <2>6 DEF NodeData, SendAcked
    <3>2. d \in Attached /\ d \notin SubGateways
      BY <1>1, <2>1, <2>2, <2>6, RolesAssumption DEF StartsIrrigation, Local
    <3>3. parent[d].addr \in SubGateways
      BY <1>1, <2>1, <3>2 DEF HomeInv, Lodged
    <3>4. p \in Packet /\ p.kind = "DATA_UP" /\ p.flag = "NOT_MOBILE" /\ p.src = d
      BY <1>1 DEF Data, Packet, Kinds, Flags, UNICAST_GROUP, Groups, NODE
    <3>5. ASSUME NEW c \in Channel, Reaches(c, d, parent[d].addr)
          PROVE  p \in Fresh[c]
      <4>1. c[1] = d /\ c[2] = parent[d].addr /\ c[3] = "unicast"
        BY <3>3, <3>5, RolesAssumption DEF Reaches, Device
      <4>2. c \in Low /\ c \notin Up
        BY <2>1, <3>2, <3>3, <4>1 DEF Low, Up
      <4> HIDE DEF p
      <4>3. QED
        BY <3>4, <4>1, <4>2 DEF Fresh, Local, Low, Up
    <3> HIDE DEF p, d
    <3>6. QED
      BY <3>1, <3>5, OutputPuts DEF d
  <2>7. QED
    BY <2>5, <2>6
<1>3. CASE SubGatewayData(e)
  <2>1. d \in SubGateways
    BY <1>3 DEF SubGatewayData, Receives
  <2>2. TurnedRound(m) = m
    BY <1>1 DEF TurnedRound
  <2>3. \/ chan' = Taken(e)
        \/ setup[d] = 1 /\ chan' = Forwarded(d, Taken(e), m)
    BY <1>1, <1>3, <2>2 DEF SubGatewayData, NotSetup, IInv, AttachInv
  <2>4. CASE chan' = Taken(e)
    BY <1>1, <2>4, NothingPut
  <2>5. CASE setup[d] = 1 /\ m.kind = "DATA_UP" /\ chan' = Output(Taken(e), d, parent[d].addr, m)
    <3>1. parent[d].addr = Served /\ Served \in Gateways
      BY <1>1, <2>1, <2>5, ParentIsBarn, FarmAssumption DEF BarnParents
    <3>2. e \in Low /\ m.src = e[1]
      <4>1. e \notin Up
        BY <2>1, RolesAssumption DEF Up
      <4>2. QED
        BY <1>1, <2>5, <4>1 DEF Local
    <3>3. Passed(d, m.src)
      <4>1. chan[e] \in Seq(Packet)
        BY DEF IInv, Channels
      <4>2. m \in Reports(e[1])
        BY <1>1, <2>5, <3>2 DEF Reports
      <4>3. ~Preceded(chan[e], Announcements(e[1]), Reports(e[1]))
        BY <1>1, <4>1, <4>2, RemainingPackets
      <4>4. QED
        BY <3>2, <4>3 DEF HomeInv, Heralds
    <3>4. ASSUME NEW c \in Channel, Reaches(c, d, parent[d].addr)
          PROVE  m \in Fresh[c]
      <4>1. c[1] = d /\ c[2] = Served /\ c[3] = "unicast"
        BY <3>1, <3>4, RolesAssumption DEF Reaches, Device
      <4>2. c \in Up /\ c \notin Low
        BY <2>1, <3>1, <4>1, RolesAssumption DEF Low, Up
      <4>3. Passed(c[1], m.src)
        BY <3>3, <4>1
      <4>4. QED
        BY <1>1, <2>5, <4>2, <4>3 DEF Fresh, Local, Low, Up
    <3> HIDE DEF m, d
    <3>5. QED
      BY <2>5, <3>4, OutputPuts DEF d
  <2>6. CASE m.kind = "DATA_DOWN" /\ chan' = OutputAll(Taken(e), d, GroupHops(children[d], m.group), m)
    <3>1. ASSUME NEW hop \in GroupHops(children[d], m.group)
          PROVE  hop \in Ends \cap Attached
      BY <2>1 DEF GroupHops, HomeInv, FlatTables
    <3>2. ASSUME NEW c \in Channel, NEW hop \in GroupHops(children[d], m.group), Reaches(c, d, hop)
          PROVE  m \in Fresh[c]
      <4>1. hop \in Ends /\ hop \in Attached' /\ hop # NullAddr /\ hop # Served
        BY <3>1, FarmAssumption, RolesAssumption DEF HomesGrow, Ends, Device
      <4>2. c[2] \in Attached' /\ c[2] # Served /\ c[3] = "unicast"
        BY <3>2, <4>1 DEF Reaches
      <4>3. QED
        BY <1>1, <2>6, <4>2 DEF Fresh, Local
    <3> HIDE DEF m, d
    <3>3. QED
      BY <2>6, <3>2, OutputAllPuts DEF d
  <2>7. QED
    BY <1>1, <2>3, <2>4, <2>5, <2>6 DEF Forwarded
<1>4. QED
  BY <1>2, <1>3

\* The loops of the devices.
LEMMA LoopsPut ==
  ASSUME Flat, IInv, HomeInv, HomesGrow, NEW d \in Device, SendSetup(d) \/ SendReport(d)
  PROVE  Puts(chan, d, Fresh)
<1>1. CASE SendSetup(d)
  <2>1. \A c \in Channel : SetupOf(d) \in Fresh[c]
    BY TypeOfRole, ControlFresh DEF SetupOf
  <2>2. QED
    BY <1>1, <2>1, OutputPuts DEF SendSetup
<1>2. CASE SendReport(d)
  <2> DEFINE p == Data("DATA_UP", d, UNICAST_GROUP, "NOT_MOBILE")
  <2>1. chan' = Output(chan, d, parent[d].addr, p) /\ d \notin Gateways /\ setup[d] = 1
    BY <1>2 DEF SendReport, SendAcked, NotSetup, IInv, AttachInv
  <2>2. p \in Packet /\ p.kind = "DATA_UP" /\ p.flag = "NOT_MOBILE" /\ p.src = d
    BY DEF Data, Packet, Kinds, Flags, UNICAST_GROUP, Groups, NODE
  <2>3. \/ d \in SubGateways /\ parent[d].addr = Served /\ Served \in Gateways
        \/ d \in Ends /\ d \notin SubGateways /\ parent[d].addr \in SubGateways
    BY <2>1, ParentIsBarn, FarmAssumption, RolesAssumption DEF BarnParents, Ends, Device
  <2>4. parent[d].addr # NullAddr
    BY <2>3, RolesAssumption DEF Device
  <2>5. d \in SubGateways => Passed(d, d)
    BY <2>4 DEF HomeInv, Heralds, Attached
  <2>6. ASSUME NEW c \in Channel, Reaches(c, d, parent[d].addr)
        PROVE  p \in Fresh[c]
    <3>1. c[1] = d /\ c[2] = parent[d].addr /\ c[3] = "unicast"
      BY <2>4, <2>6 DEF Reaches
    <3>2. (c \in Up /\ c \notin Low /\ d \in SubGateways) \/ (c \in Low /\ c \notin Up)
      BY <2>3, <3>1, RolesAssumption DEF Low, Up, Ends
    <3>3. c \in Up => Passed(c[1], p.src)
      BY <2>2, <2>5, <3>1, <3>2
    <3> HIDE DEF p
    <3>4. QED
      BY <2>2, <3>1, <3>2, <3>3 DEF Fresh, Local, Low, Up
  <2> HIDE DEF p
  <2>7. QED
    BY <2>1, <2>6, OutputPuts
<1>3. QED
  BY <1>1, <1>2

\* The commands of the gateway, to a barn or to all who hear it.
LEMMA CommandsPut ==
  ASSUME Flat, IInv, HomeInv,
         CommandAll(Served) \/ \E i : CommandOne(Served, i, LIGHT_BULB_GROUP)
  PROVE  Puts(chan, Served, Fresh)
<1> DEFINE light == Data("DATA_DOWN", Served, LIGHT_BULB_GROUP, "NOT_MOBILE")
           water == Data("DATA_DOWN", Served, IRRIGATION_GROUP, "NOT_MOBILE")
<1>1. /\ light \in Packet /\ light.kind = "DATA_DOWN" /\ light.flag = "NOT_MOBILE"
      /\ light.group # IRRIGATION_GROUP
      /\ water \in Packet /\ water.kind = "DATA_DOWN" /\ water.flag = "NOT_MOBILE"
  BY FarmAssumption
     DEF Data, Packet, Kinds, Flags, LIGHT_BULB_GROUP, IRRIGATION_GROUP, Groups, NODE, Device
<1>2. \A c \in Channel : c[1] = Served => c[2] # Served
  <2>1. ASSUME NEW c \in Channel
        PROVE  c[1] # c[2]
    <3>1. <<c[1], c[2]>> \in Link /\ <<c[1], c[2]>>[1] = c[1] /\ <<c[1], c[2]>>[2] = c[2]
      BY ChannelEnds
    <3>2. QED
      BY <3>1, RadioAssumption
  <2>2. QED
    BY <2>1
<1> HIDE DEF light, water
<1>3. \A c \in Channel : c[1] = Served => light \in Fresh[c]
  BY <1>1, <1>2 DEF Fresh, Local
<1>4. \A c \in Channel : c[1] = Served /\ c[2] \in SubGateways /\ c[3] = "unicast" => water \in Fresh[c]
  BY <1>1, <1>2 DEF Fresh, Local
<1>5. ASSUME NEW i, CommandOne(Served, i, LIGHT_BULB_GROUP)
      PROVE  Puts(chan, Served, Fresh)
  BY <1>3, <1>5, OutputPuts DEF CommandOne, Reaches, light
<1>6. CASE CommandAll(Served)
  <2> DEFINE hops == {barns[Served][i] : i \in DOMAIN barns[Served]}
  <2>1. \A hop \in hops : hop \in SubGateways /\ hop # NullAddr
    <3>1. \A i \in DOMAIN barns[Served] : barns[Served][i] \in SubGateways
      BY FarmAssumption DEF IInv, BarnInv, BarnsDistinct
    <3>2. NullAddr \notin SubGateways
      BY RolesAssumption DEF Device
    <3>3. QED
      BY <3>1, <3>2
  <2>2. \A c \in Channel : \A hop \in hops : Reaches(c, Served, hop) => water \in Fresh[c]
    BY <1>4, <2>1 DEF Reaches
  <2>3. chan' = OutputAll(chan, Served, hops, water)
    BY <1>6 DEF CommandAll, water
  <2> HIDE DEF hops
  <2>4. QED
    BY <2>2, <2>3, OutputAllPuts
<1>7. QED
  BY <1>5, <1>6


\* The steps of a farm.
LEMMA FarmSteps ==
  ASSUME OrdersKnown, [FarmNext]_farm
  PROVE  \/ UNCHANGED <<setup, parent, children, data_counter, barns, chan>>
         \/ \E d \in Device : SendSetup(d) \/ (data_counter[d] = 0 /\ SendReport(d))
         \/ /\ UNCHANGED <<setup, parent, children, data_counter, barns>>
            /\ CommandAll(Served) \/ \E i : CommandOne(Served, i, LIGHT_BULB_GROUP)
         \/ \E e \in Channel : Receive(e)
<1>1. CASE Obey
  <2>1. orders # <<>> /\ UNCHANGED <<setup, parent, children, data_counter, barns>>
    BY <1>1 DEF Obey
  <2>2. Head(orders).topic \in {"lights", "irrigation"}
    <3>1. PICK S : orders \in Seq(S) /\ \A o \in S : o.topic \in {"lights", "irrigation"}
      BY DEF OrdersKnown
    <3>2. Head(orders) \in S
      BY <2>1, <3>1, HeadTailProperties
    <3>3. QED
      BY <3>1, <3>2
  <2>3. CommandAll(Served) \/ \E i : CommandOne(Served, i, LIGHT_BULB_GROUP)
    BY <1>1, <2>2 DEF Obey
  <2>4. QED
    BY <2>1, <2>3
<1>2. CASE \E d \in Device : Report(d) \/ Search(d)
  BY <1>2 DEF Report, Search
<1>3. ASSUME NEW e \in Channel, FarmReceive(e)
      PROVE  Receive(e)
  <2>1. FarmData(e) => GatewayData(e)
    BY DEF FarmData, GatewayData
  <2>2. QED
    BY <1>3, <2>1 DEF FarmReceive, FarmControl, Receive
<1>4. CASE Turn \/ UNCHANGED vars
  BY <1>4 DEF Turn, vars
<1>5. QED
  BY <1>1, <1>2, <1>3, <1>4 DEF FarmNext, Work, Tick, farm

\* Whoever is told of a child knows it.
LEMMA ArrivalsKnown ==
  ASSUME IInv, HomeInv, NEW e \in Channel, Receive(e), chan[e] # <<>>, Head(chan[e]).kind = "SETUP_ACK"
  PROVE  Has(children'[e[2]], Head(chan[e]).addr)
<1> DEFINE d == e[2]
           m == Head(chan[e])
<1>1. SubGatewaySetupAck(e) \/ GatewaySetupAck(e) \/ GatewayIgnore(e)
  BY EndsRegisterNobody
     DEF Receive, Receives, NodeSetup, NodeResponse, NodeChildRm, NodeDataAck, NodeData, SubGatewaySetup,
         SubGatewayOffer, SubGatewayChildRm, SubGatewayDataAck, SubGatewayData, GatewaySetup, GatewayData,
         MobileResponse, MobileDataAck, MobileIgnore
<1>2. /\ d \in Device /\ m \in PacketFrom(e[1]) /\ m \in Packet /\ m \in Local[e] /\ e[1] \in Device
      /\ GatewayIgnore(e) => d \in Gateways
  BY <1>1, ReceivesLocal DEF SubGatewaySetupAck, GatewaySetupAck, GatewayIgnore
<1>3. CASE GatewayIgnore(e)
  <2>1. e \in Up
    BY <1>2, <1>3, RolesAssumption DEF Local, Low
  <2>2. m.ntype = SUB_GATEWAY
    BY <1>2, <2>1, TypeOfRole DEF PacketFrom, Up
  <2>3. QED
    BY <1>3, <2>2 DEF GatewayIgnore
<1>4. CASE SubGatewaySetupAck(e) \/ GatewaySetupAck(e)
  <2>1. Enters(d, ChildOf(m)) /\ ChildOf(m) \in Child /\ ChildOf(m).addr = m.addr /\ TableInv
    BY <1>2, <1>4
       DEF SubGatewaySetupAck, GatewaySetupAck, RegisterChild, Enters, ChildOf, Child, PacketFrom, Packet, IInv
  <2>2. QED
    BY <1>2, <2>1, SetChildEntries
<1>5. QED
  BY <1>1, <1>3, <1>4

\* What every handler does to the channels.
LEMMA ReceivePuts ==
  ASSUME Flat, IInv, IInv', RoutedInv, HomeInv, HomesGrow, NEW e \in Channel, Receive(e)
  PROVE  chan[e] # <<>> /\ Puts(Taken(e), e[2], Fresh)
<1>1. chan[e] # <<>>
  BY DEF Receive, Receives, NodeSetup, NodeResponse, NodeSetupAck, NodeChildRm, NodeDataAck, NodeData,
         SubGatewaySetup, SubGatewayOffer, SubGatewaySetupAck, SubGatewayChildRm, SubGatewayDataAck,
         SubGatewayData, GatewaySetup, GatewaySetupAck, GatewayIgnore, GatewayData,
         MobileResponse, MobileSetupAck, MobileDataAck, MobileIgnore
<1>2. BarnParents'
  BY HomeOfWillBe
<1>3. CASE NodeSetup(e) \/ SubGatewaySetup(e) \/ GatewaySetup(e)
  BY <1>1, <1>3, OffersPut
<1>4. CASE \/ NodeChildRm(e) \/ NodeDataAck(e) \/ SubGatewayChildRm(e) \/ SubGatewayDataAck(e)
           \/ MobileDataAck(e) \/ GatewayData(e) \/ GatewaySetupAck(e) \/ GatewayIgnore(e) \/ MobileIgnore(e)
  BY <1>1, <1>4, RelaysPut
<1>5. CASE NodeResponse(e) \/ MobileResponse(e) \/ SubGatewayOffer(e)
  BY <1>1, <1>2, <1>5, OfferTaken
<1>6. CASE SubGatewaySetupAck(e)
  BY <1>1, <1>6, BarnRegisters
<1>7. CASE NodeData(e) \/ SubGatewayData(e)
  BY <1>1, <1>7, DataPut
<1>8. QED
  BY <1>1, <1>3, <1>4, <1>5, <1>6, <1>7, EndsRegisterNobody DEF Receive

\* So one channel may lose its first packet, which its receiver keeps in mind when
\* it is an announcement; each other one may get a packet.
Taking(c) ==
  /\ chan[c] # <<>> /\ chan'[c] = Tail(chan[c])
  /\ Head(chan[c]).kind = "SETUP_ACK" => Has(children'[c[2]], Head(chan[c]).addr)
Framed(c) ==
  \/ chan'[c] = chan[c]
  \/ \E p \in Fresh[c] : chan'[c] = Append(chan[c], p)
  \/ Taking(c)

LEMMA FarmFrames ==
  ASSUME Flat, FarmInv, IInv', HomesGrow, OrdersKnown, [FarmNext]_farm
  PROVE  (\A c \in Channel : Framed(c)) /\ Carries(chan', Local')
<1>1. IInv /\ RoutedInv /\ HomeInv /\ Carries(chan, Local)
  BY DEF FarmInv, HomeInv
<1>2. chan \in [Channel -> Seq(Packet)]
  BY <1>1 DEF IInv, Channels
<1>3. \A c \in Channel : Local[c] \subseteq Local'[c] /\ Fresh[c] \subseteq Local'[c]
  BY LocalGrows
<1>4. Carries(chan, Local')
  BY <1>1, <1>3, CarriesWider
<1>5. ASSUME NEW s, Puts(chan, s, Fresh)
      PROVE  (\A c \in Channel : Framed(c)) /\ Carries(chan', Local')
  <2>1. \A c \in Channel : Framed(c)
    BY <1>5 DEF Puts, Framed
  <2>2. QED
    BY <1>3, <1>4, <1>5, <2>1, PutsCarries
<1>6. ASSUME NEW e \in Channel, Receive(e)
      PROVE  (\A c \in Channel : Framed(c)) /\ Carries(chan', Local')
  <2>1. chan[e] # <<>> /\ Puts(Taken(e), e[2], Fresh)
    BY <1>1, <1>6, ReceivePuts
  <2>2. /\ chan'[e] = Tail(chan[e])
        /\ \A c \in Channel : c # e =>
             chan'[c] = chan[c] \/ \E p \in Fresh[c] : chan'[c] = Append(chan[c], p)
    BY <1>2, <2>1, TakenPuts
  <2>3. Head(chan[e]).kind = "SETUP_ACK" => Has(children'[e[2]], Head(chan[e]).addr)
    BY <1>1, <1>6, <2>1, ArrivalsKnown
  <2>4. \A c \in Channel : Framed(c)
    BY <2>1, <2>2, <2>3 DEF Framed, Taking
  <2>5. Carries(Taken(e), Local')
    BY <1>4, <2>1, TakenCarries
  <2>6. QED
    BY <1>3, <2>1, <2>4, <2>5, PutsCarries
<1>7. CASE UNCHANGED <<setup, parent, children, data_counter, barns, chan>>
  BY <1>1, <1>5, <1>7, NothingPut
<1>8. QED
  BY <1>1, <1>5, <1>6, <1>7, FarmSteps, LoopsPut, CommandsPut


\* New entries of the tables are of children their device was just told about.
LEMMA EntriesStep ==
  ASSUME IInv, HomeInv, UndisturbedNext, NEW d \in Device, NEW i \in DOMAIN children'[d]
  PROVE  \/ \E j \in DOMAIN children[d] : children'[d][i] = children[d][j]
         \/ \E e \in Channel : /\ SubGatewaySetupAck(e) \/ GatewaySetupAck(e)
                               /\ d = e[2] /\ children'[d][i] = ChildOf(Head(chan[e]))
<1>1. TableInv
  BY DEF IInv
<1>2. CASE UNCHANGED children
  BY <1>2
<1>3. ASSUME NEW e \in Channel, NodeChildRm(e) \/ SubGatewayChildRm(e)
      PROVE  \E j \in DOMAIN children[d] : children'[d][i] = children[d][j]
  <2>1. ForgetChild(e[2], Taken(e), Head(chan[e])) /\ e[2] \in Device
    BY <1>3, ReceivesLocal DEF NodeChildRm, SubGatewayChildRm
  <2>2. QED
    BY <1>1, <2>1, FewerEntries
<1>4. ASSUME NEW e \in Channel, SubGatewaySetupAck(e) \/ GatewaySetupAck(e)
      PROVE  \/ d = e[2] /\ children'[d][i] = ChildOf(Head(chan[e]))
             \/ \E j \in DOMAIN children[d] : children'[d][i] = children[d][j]
  <2> DEFINE x == e[2]
             m == Head(chan[e])
  <2>1. x \in Device /\ m \in PacketFrom(e[1]) /\ m.kind \in {"SETUP_ACK"} /\ m.src \in Device
    BY <1>4, ReceivesLocal DEF SubGatewaySetupAck, GatewaySetupAck
  <2>2. Enters(x, ChildOf(m)) /\ ChildOf(m) \in Child
    BY <1>4, <2>1 DEF SubGatewaySetupAck, GatewaySetupAck, RegisterChild, Enters, ChildOf, Child, PacketFrom, Packet
  <2>3. QED
    BY <1>1, <2>1, <2>2, SetChildEntries
<1>5. ASSUME NEW e \in Channel, NodeResponse(e) \/ MobileResponse(e) \/ SubGatewayOffer(e)
      PROVE  UNCHANGED children
  BY <1>5 DEF NodeResponse, MobileResponse, SubGatewayOffer
<1>6. QED
  BY <1>2, <1>3, <1>4, <1>5, Handlers, RelaysUnchanged, EndsRegisterNobody DEF UndisturbedNext

\* Barns are only ever added.
LEMMA BarnsGrow ==
  ASSUME IInv, UndisturbedNext, NEW gw \in Gateways
  PROVE  \A i \in DOMAIN barns[gw] : i \in DOMAIN barns'[gw] /\ barns'[gw][i] = barns[gw][i]
<1>1. barns \in [Gateways -> Seq(Device)]
  BY DEF IInv, BarnInv
<1>2. CASE UNCHANGED barns
  BY <1>2
<1>3. ASSUME NEW e \in Channel, GatewaySetupAck(e)
      PROVE  \A i \in DOMAIN barns[gw] : i \in DOMAIN barns'[gw] /\ barns'[gw][i] = barns[gw][i]
  <2> DEFINE m == Head(chan[e])
             last == LastChild(SetChild(children[e[2]], ChildOf(m)))
             q == barns[gw]
  <2>1. m \in Packet /\ m.src \in Device
    <3>1. chan \in Channels /\ chan[e] # <<>>
      BY <1>3 DEF IInv, GatewaySetupAck, Receives
    <3>2. QED
      BY <3>1, TakenGenuine DEF PacketFrom, Packet
  <2>2. barns'[gw] = barns[gw] \/ barns'[gw] = BarnsWith(q, last, m.src)
    BY <1>1, <1>3 DEF GatewaySetupAck
  <2>3. q \in Seq(Device) /\ m.src \in Device
    BY <1>1, <2>1
  <2> HIDE DEF q, last
  <2>4. \A i \in DOMAIN q : /\ i \in DOMAIN BarnsWith(q, last, m.src)
                            /\ BarnsWith(q, last, m.src)[i] = q[i]
    BY <2>3, BarnsWithAppends
  <2>5. QED
    BY <2>2, <2>4 DEF q
<1>4. ASSUME NEW e \in Channel, Receive(e), ~GatewaySetupAck(e)
      PROVE  UNCHANGED barns
  BY <1>4, Handlers, RelaysUnchanged
     DEF NodeResponse, MobileResponse, SubGatewayOffer, NodeSetupAck, SubGatewaySetupAck, MobileSetupAck,
         NodeChildRm, SubGatewayChildRm
<1>5. QED
  BY <1>2, <1>3, <1>4, RelaysUnchanged DEF UndisturbedNext

\* Each parent's barn is a home, also after the step.
LEMMA LodgedKept ==
  ASSUME IInv, Lodged, HomesGrow
  PROVE  Lodged'
<1>1. ASSUME NEW d \in Ends \cap Attached'
      PROVE  parent'[d].addr \in homes'[d]
  <2>1. d \in Device /\ d \notin SubGateways
    BY RolesAssumption DEF Ends, Device
  <2>2. CASE parent'[d] = parent[d]
    BY <1>1, <2>1, <2>2 DEF Attached, Lodged, HomesGrow
  <2>3. QED
    BY <2>1, <2>2 DEF HomesGrow
<1>2. ASSUME NEW b \in SubGateways \cap Attached'
      PROVE  parent'[b].addr = Served /\ b \in homes'[b]
  <2>1. b \in Device /\ b \notin Ends
    BY RolesAssumption DEF Ends, Device
  <2>2. CASE parent'[b] = parent[b]
    BY <1>2, <2>1, <2>2 DEF Attached, Lodged, HomesGrow
  <2>3. QED
    BY <2>1, <2>2 DEF HomesGrow
<1>3. QED
  BY <1>1, <1>2 DEF Lodged, HomesGrow, Ends

\* Whom a gateway is told of by a barn for the first time, it has that barn of.
LEMMA BarnsBehindEntries ==
  ASSUME IInv, KnownInv', RoutedInv, HomeInv, UndisturbedNext, NEW e \in Channel, GatewaySetupAck(e)
  PROVE  e[1] \in homes[Head(chan[e]).addr] /\ \E j \in DOMAIN barns'[e[2]] : barns'[e[2]][j] = e[1]
<1> DEFINE gw == e[2]
           m == Head(chan[e])
           b == e[1]
<1>1. /\ gw \in Gateways /\ m \in Local[e] /\ m.kind \in {"SETUP_ACK"} /\ chan[e] # <<>>
      /\ m \in PacketFrom(b)
  BY ReceivesLocal DEF GatewaySetupAck
<1>2. e \in Up /\ b \in SubGateways
  <2>1. e \in Up \cup Low /\ e \notin Low
    BY <1>1, RolesAssumption DEF Local, Low
  <2>2. QED
    BY <2>1 DEF Up
<1>3. b \in homes[m.addr]
  BY <1>1, <1>2 DEF Local, BarnEnd
<1>4. Has(children'[gw], b)
  <2>1. CASE Has(children[gw], b)
    BY <1>1, <2>1, GatewaysRemember
  <2>2. CASE ~Has(children[gw], b)
    <3>1. chan[e] \in Seq(Packet) /\ Led(chan[e], b)
      BY <1>2, <2>2, UpChannel DEF RoutedInv, Introduced
    <3>2. m.addr = b
      BY <1>1, <3>1, LedTail
    <3>3. Receive(e)
      BY DEF Receive
    <3>4. QED
      BY <1>1, <3>2, <3>3, ArrivalsKnown
  <2>3. QED
    BY <2>1, <2>2
<1>5. QED
  BY <1>1, <1>2, <1>3, <1>4 DEF KnownInv, BarnsKnown

LEMMA FlatTablesKept ==
  ASSUME Flat, IInv, KnownInv', RoutedInv, HomeInv, UndisturbedNext, HomesGrow
  PROVE  FlatTables'
<1>1. Served \in Gateways /\ Served \in Device /\ Ends \subseteq Device /\ SubGateways \subseteq Device
  BY FarmAssumption DEF Device, Ends
<1>2. \A d \in Device : \A b : b \in homes[d] => b \in homes'[d]
  BY DEF HomesGrow
<1>3. ASSUME NEW d \in Ends, NEW i \in DOMAIN children'[d]
      PROVE  FALSE
  <2>1. ~ \E j \in DOMAIN children[d] : TRUE
    BY <1>3 DEF HomeInv, FlatTables
  <2>2. PICK e \in Channel : (SubGatewaySetupAck(e) \/ GatewaySetupAck(e)) /\ d = e[2]
    BY <1>1, <1>3, <2>1, EntriesStep
  <2>3. d \in SubGateways \cup Gateways
    BY <2>2 DEF SubGatewaySetupAck, GatewaySetupAck, Receives
  <2>4. QED
    BY <2>3, RolesAssumption DEF Ends
<1>4. ASSUME NEW b \in SubGateways, NEW i \in DOMAIN children'[b]
      PROVE  LET x == children'[b][i]
             IN x.from = x.addr /\ x.addr \in Ends \cap Attached' /\ b \in homes'[x.addr]
  <2> DEFINE x == children'[b][i]
  <2>1. CASE \E j \in DOMAIN children[b] : x = children[b][j]
    <3>1. x.from = x.addr /\ x.addr \in Ends \cap Attached /\ b \in homes[x.addr]
      BY <2>1 DEF HomeInv, FlatTables
    <3>2. x.addr \in Attached' /\ b \in homes'[x.addr]
      BY <1>1, <1>2, <3>1 DEF HomesGrow
    <3>3. QED
      BY <3>1, <3>2
  <2>2. ASSUME NEW e \in Channel, SubGatewaySetupAck(e) \/ GatewaySetupAck(e), b = e[2],
               x = ChildOf(Head(chan[e]))
        PROVE  x.from = x.addr /\ x.addr \in Ends \cap Attached' /\ b \in homes'[x.addr]
    <3> DEFINE m == Head(chan[e])
    <3>1. m \in Local[e] /\ m \in PacketFrom(e[1]) /\ m.kind \in {"SETUP_ACK"} /\ e[1] \in Device
      BY <2>2, ReceivesLocal DEF SubGatewaySetupAck, GatewaySetupAck
    <3>2. e \notin Up
      BY <1>4, <2>2, RolesAssumption DEF Up
    <3>3. e \in Low /\ m.addr = e[1] /\ e[1] \in Attached /\ BarnEnd(e) \in homes[m.addr]
      BY <3>1, <3>2 DEF Local
    <3>4. e[1] \in Ends /\ BarnEnd(e) = b
      BY <2>2, <3>3, RolesAssumption DEF Low, BarnEnd, Ends
    <3>5. x.from = e[1] /\ x.addr = e[1]
      BY <2>2, <3>1, <3>3 DEF ChildOf, PacketFrom
    <3>6. e[1] \in Attached' /\ b \in homes'[e[1]]
      BY <1>2, <3>1, <3>3, <3>4 DEF HomesGrow
    <3>7. QED
      BY <3>4, <3>5, <3>6
  <2>3. QED
    BY <1>1, <2>1, <2>2, EntriesStep
<1>5. ASSUME NEW i \in DOMAIN children'[Served]
      PROVE  LET x == children'[Served][i]
             IN x.from \in homes'[x.addr] /\ \E j \in DOMAIN barns'[Served] : barns'[Served][j] = x.from
  <2> DEFINE x == children'[Served][i]
  <2>1. CASE \E k \in DOMAIN children[Served] : x = children[Served][k]
    <3>1. PICK k \in DOMAIN children[Served] : x = children[Served][k]
      BY <2>1
    <3>2. x.from \in homes[x.addr] /\ \E j \in DOMAIN barns[Served] : barns[Served][j] = x.from
      BY <3>1 DEF HomeInv, FlatTables
    <3>3. x.addr \in Device
      <4> DEFINE q == children[Served]
      <4>1. q \in Seq(Child)
        BY <1>1 DEF IInv, TableInv
      <4> HIDE DEF q
      <4>2. \A n \in DOMAIN q : q[n] \in Child
        BY <4>1, ElementOfSeq, LenProperties
      <4>3. QED
        BY <3>1, <4>2 DEF q, Child
    <3>4. QED
      BY <1>1, <1>2, <3>2, <3>3, BarnsGrow
  <2>2. ASSUME NEW e \in Channel, SubGatewaySetupAck(e) \/ GatewaySetupAck(e), Served = e[2],
               x = ChildOf(Head(chan[e]))
        PROVE  x.from \in homes'[x.addr] /\ \E j \in DOMAIN barns'[Served] : barns'[Served][j] = x.from
    <3> DEFINE m == Head(chan[e])
    <3>1. GatewaySetupAck(e)
      BY <1>1, <2>2, RolesAssumption DEF SubGatewaySetupAck, Receives
    <3>2. m \in PacketFrom(e[1]) /\ m.kind \in {"SETUP_ACK"}
      BY <3>1, ReceivesLocal DEF GatewaySetupAck
    <3>3. x.from = e[1] /\ x.addr = m.addr /\ m.addr \in Device
      BY <2>2, <3>2 DEF ChildOf, PacketFrom
    <3>4. QED
      BY <1>2, <2>2, <3>1, <3>3, BarnsBehindEntries
  <2>3. QED
    BY <1>1, <2>1, <2>2, EntriesStep
<1>6. QED
  BY <1>3, <1>4, <1>5 DEF FlatTables, Ends


\* A parent is only ever taken together with the announcement to it.
LEMMA ParentsTold ==
  ASSUME Flat, Uncrowded, IInv, IInv', HomeInv, HomesGrow, UndisturbedNext,
         NEW l \in Low, parent'[l[1]].addr = l[2]
  PROVE  parent'[l[1]] = parent[l[1]] \/ Holds(chan'[l], Announcements(l[1]))
<1>1. l \in Channel /\ BarnParents'
  BY HomeOfWillBe DEF Low
<1>2. ASSUME NEW e \in Channel, NodeResponse(e) \/ MobileResponse(e) \/ SubGatewayOffer(e)
      PROVE  parent'[l[1]] = parent[l[1]] \/ Holds(chan'[l], Announcements(l[1]))
  BY <1>1, <1>2, OfferTaken
<1>3. ASSUME NEW e \in Channel,
             \/ NodeSetupAck(e) \/ SubGatewaySetupAck(e) \/ MobileSetupAck(e)
             \/ GatewaySetupAck(e) \/ NodeChildRm(e) \/ SubGatewayChildRm(e)
      PROVE  UNCHANGED parent
  BY <1>3 DEF NodeSetupAck, SubGatewaySetupAck, MobileSetupAck, GatewaySetupAck, NodeChildRm,
              SubGatewayChildRm
<1>4. QED
  BY <1>2, <1>3, Handlers, RelaysUnchanged DEF UndisturbedNext

\* What is on its way to the gateway arrives there, or stays on its way.
LEMMA PassedStays ==
  ASSUME Flat, FarmInv, UndisturbedNext, \A c \in Channel : Framed(c), NEW b, NEW a, Passed(b, a)
  PROVE  Passed(b, a)'
<1> SUFFICES ASSUME NEW u \in Up, u[1] = b
             PROVE  Listed(a)' \/ Holds(chan'[u], Announcements(a))
  BY DEF Passed, Up
<1> DEFINE q == chan[u]
           S == Announcements(a)
<1>1. u \in Channel /\ u[2] = Served /\ q \in Seq(Packet) /\ IInv
  BY UpChannel DEF Flat, FarmInv
<1>2. Listed(a) => Listed(a)'
  BY <1>1, GatewaysRemember, FarmAssumption DEF Listed
<1>3. Listed(a) \/ Holds(q, S)
  BY DEF Passed
<1>4. Fresh[u] \subseteq Packet
  BY <1>1 DEF Fresh, Local
<1>5. Framed(u)
  BY <1>1
<1>6. ASSUME NEW p \in Fresh[u], chan'[u] = Append(q, p), Holds(q, S)
      PROVE  Holds(chan'[u], S)
  <2>1. p \in Packet
    BY <1>4, <1>6
  <2> HIDE DEF q, S
  <2>2. Holds(Append(q, p), S)
    BY <1>1, <1>6, <2>1, AppendedPackets
  <2>3. QED
    BY <1>6, <2>2
<1>7. ASSUME Taking(u), Holds(q, S)
      PROVE  Listed(a)' \/ Holds(chan'[u], S)
  <2>1. q # <<>> /\ chan'[u] = Tail(q)
    BY <1>7 DEF Taking
  <2>2. Head(q) \in S => Listed(a)'
    BY <1>1, <1>7 DEF Taking, Listed, Announcements
  <2> HIDE DEF q, S
  <2>3. Head(q) \in S \/ Holds(Tail(q), S)
    BY <1>1, <1>7, <2>1, RemainingPackets
  <2>4. QED
    BY <2>1, <2>2, <2>3
<1>8. QED
  BY <1>2, <1>3, <1>5, <1>6, <1>7 DEF Framed

\* The invariant of the announcements is kept, leg by leg.
LEMMA HeraldsKept ==
  ASSUME Flat, Uncrowded, FarmInv, IInv', RoutedInv', Lodged', HomesGrow, UndisturbedNext,
         \A c \in Channel : Framed(c)
  PROVE  Heralds'
<1>1. IInv /\ KnownInv /\ RoutedInv /\ HomeInv /\ Heralds
  BY DEF FarmInv, HomeInv
<1>2. \A a : Listed(a) => Listed(a)'
  BY <1>1, GatewaysRemember, FarmAssumption DEF Listed
<1>3. \A c \in Channel : Fresh[c] \subseteq Packet /\ chan[c] \in Seq(Packet)
  BY <1>1 DEF Fresh, Local, IInv, Channels
<1>4. ASSUME NEW u \in Up, NEW a \in Device
      PROVE  Listed(a)' \/ Preceded(chan'[u], Announcements(a), Reports(a))
  <2> DEFINE q == chan[u]
             S == Announcements(a)
             T == Reports(a)
  <2>1. u \in Channel /\ u[2] = Served /\ q \in Seq(Packet)
    BY <1>1, UpChannel DEF Flat
  <2>2. Listed(a) \/ Preceded(q, S, T)
    BY <1>1 DEF Heralds
  <2>3. ASSUME NEW p \in Fresh[u], chan'[u] = Append(q, p), Preceded(q, S, T)
        PROVE  Listed(a) \/ Preceded(chan'[u], S, T)
    <3>1. p \in T => Passed(u[1], a)
      BY <2>1 DEF Fresh, Reports
    <3>2. p \in T => Listed(a) \/ Holds(q, S)
      BY <3>1 DEF Passed
    <3>3. p \in Packet
      BY <1>3, <2>1
    <3> HIDE DEF q, S, T
    <3>4. QED
      BY <2>1, <2>3, <3>2, <3>3, AppendedPackets
  <2>4. ASSUME Taking(u), Preceded(q, S, T)
        PROVE  Listed(a)' \/ Preceded(chan'[u], S, T)
    <3>1. q # <<>> /\ chan'[u] = Tail(q)
      BY <2>4 DEF Taking
    <3>2. Head(q) \in S => Listed(a)'
      BY <2>1, <2>4 DEF Taking, Listed, Announcements
    <3> HIDE DEF q, S, T
    <3>3. QED
      BY <2>1, <2>4, <3>1, <3>2, RemainingPackets
  <2>5. QED
    BY <1>2, <2>1, <2>2, <2>3, <2>4 DEF Framed
<1>5. ASSUME NEW b \in SubGateways \cap Attached'
      PROVE  Passed(b, b)'
  <2> SUFFICES ASSUME NEW u \in Up, u[1] = b
               PROVE  Listed(b)' \/ Holds(chan'[u], Announcements(b))
    BY DEF Passed, Up
  <2>1. u \in Channel /\ u[2] = Served
    BY <1>1, UpChannel DEF Flat
  <2>2. parent'[b].addr = Served
    BY DEF Lodged
  <2>3. Introduced(u)'
    BY DEF RoutedInv, Up
  <2>4. Has(children'[Served], b) \/ About(chan'[u], b)
    BY <2>1, <2>2, <2>3 DEF Introduced
  <2>5. chan'[u] \in Seq(Packet)
    BY <2>1 DEF IInv, Channels
  <2>6. About(chan'[u], b) => Holds(chan'[u], Announcements(b))
    <3> DEFINE r == chan'[u]
    <3>1. r \in Seq(Packet)
      BY <2>5
    <3> HIDE DEF r
    <3>2. \A j \in DOMAIN r : r[j] \in Packet
      BY <3>1, ElementOfSeq, LenProperties
    <3>3. About(r, b) => Holds(r, Announcements(b))
      BY <3>2 DEF About, Holds, Announcements
    <3>4. QED
      BY <3>3 DEF r
  <2>7. QED
    BY <2>4, <2>6 DEF Listed
<1>6. ASSUME NEW b \in SubGateways, NEW a, Has(children'[b], a)
      PROVE  Passed(b, a)'
  <2>1. CASE Has(children[b], a) /\ a \in Device
    BY <1>1, <2>1, PassedStays DEF Heralds
  <2>2. CASE ~Has(children[b], a)
    <3>1. PICK i \in DOMAIN children'[b] : children'[b][i].addr = a
      BY <1>6 DEF Has
    <3>2. b \in Device
      BY DEF Device
    <3>3. ~ \E j \in DOMAIN children[b] : children'[b][i] = children[b][j]
      BY <2>2, <3>1 DEF Has
    <3>4. PICK e \in Channel : (SubGatewaySetupAck(e) \/ GatewaySetupAck(e)) /\ b = e[2]
      BY <1>1, <3>1, <3>2, <3>3, EntriesStep
    <3>5. SubGatewaySetupAck(e)
      BY <3>4, RolesAssumption DEF GatewaySetupAck, Receives
    <3>6. \A u \in Up : u[1] = b => Holds(chan'[u], Announcements(a))
      BY <1>1, <1>6, <2>2, <3>5, BarnRegisters
    <3>7. QED
      BY <3>6 DEF Passed, Up
  <2>3. Has(children[b], a) => a \in Device
    <3> DEFINE table == children[b]
    <3>1. table \in Seq(Child)
      BY <1>1 DEF IInv, TableInv, Device
    <3> HIDE DEF table
    <3>2. \A i \in DOMAIN table : table[i] \in Child
      BY <3>1, ElementOfSeq, LenProperties
    <3>3. Has(table, a) => a \in Device
      BY <3>2 DEF Has, Child
    <3>4. QED
      BY <3>3 DEF table
  <2>4. QED
    BY <2>1, <2>2, <2>3
<1>7. ASSUME NEW l \in Low
      PROVE  \/ Passed(l[2], l[1])'
             \/ /\ Preceded(chan'[l], Announcements(l[1]), Reports(l[1]))
                /\ parent'[l[1]].addr = l[2] => Holds(chan'[l], Announcements(l[1]))
  <2> DEFINE q == chan[l]
             S == Announcements(l[1])
             T == Reports(l[1])
             told == parent[l[1]].addr = l[2]
             tells == parent'[l[1]].addr = l[2]
  <2>1. l \in Channel /\ l[2] \in SubGateways /\ q \in Seq(Packet)
    BY <1>3 DEF Low
  <2>2. CASE Passed(l[2], l[1])
    BY <1>1, <2>2, PassedStays
  <2>3. ASSUME Preceded(q, S, T), told => Holds(q, S)
        PROVE  \/ Passed(l[2], l[1])'
               \/ Preceded(chan'[l], S, T) /\ (tells => Holds(chan'[l], S))
    <3>1. tells => told \/ Holds(chan'[l], S)
      BY <1>1, ParentsTold
    <3>2. CASE chan'[l] = q
      BY <2>3, <3>1, <3>2
    <3>3. ASSUME NEW p \in Fresh[l], chan'[l] = Append(q, p)
          PROVE  Preceded(chan'[l], S, T) /\ (tells => Holds(chan'[l], S))
      <4>1. p \in T => told
        BY <2>1 DEF Fresh, Reports
      <4>2. p \in Packet
        BY <1>3, <2>1
      <4> HIDE DEF q, S, T, told, tells
      <4>3. QED
        BY <2>1, <2>3, <3>1, <3>3, <4>1, <4>2, AppendedPackets
    <3>4. CASE Taking(l)
      <4>1. q # <<>> /\ chan'[l] = Tail(q)
        BY <3>4 DEF Taking
      <4>2. Head(q) \in S => Passed(l[2], l[1])'
        BY <1>6, <2>1, <3>4 DEF Taking, Announcements
      <4>3. Head(q) \notin S => Preceded(chan'[l], S, T) /\ (tells => Holds(chan'[l], S))
        <5> HIDE DEF q, S, T, told, tells
        <5>1. QED
          BY <2>1, <2>3, <3>1, <4>1, RemainingPackets
      <4>4. QED
        BY <4>2, <4>3
    <3>5. QED
      BY <2>1, <3>2, <3>3, <3>4 DEF Framed
  <2>4. QED
    BY <1>1, <2>2, <2>3 DEF Heralds
<1>8. QED
  BY <1>4, <1>5, <1>6, <1>7 DEF Heralds, Up, Low

\* At the start nobody has sent anything but the gateways' SETUPs.
LEMMA InitHome == FarmInit => HomeInv
<1> SUFFICES ASSUME FarmInit
             PROVE  HomeInv
  OBVIOUS
<1>1. /\ homes = [d \in Device |-> {}] /\ parent = [d \in Device |-> NoParent]
      /\ children = [d \in Device |-> <<>>]
      /\ chan = [c \in Channel |->
                   IF c[1] \in Gateways /\ c[3] = "broadcast" THEN <<SetupOf(c[1])>> ELSE <<>>]
  BY DEF FarmInit, Init
<1>2. Attached = {} /\ \A d \in Device : parent[d].addr = NullAddr
  BY <1>1 DEF Attached, NoParent
<1>3. Ends \subseteq Device /\ SubGateways \subseteq Device /\ Served \in Device
  BY FarmAssumption DEF Ends, Device
<1>4. Carries(chan, Local)
  <2>1. ASSUME NEW c \in Channel
        PROVE  chan[c] \in Seq(Local[c])
    <3>1. c[1] \in Device
      BY ChannelEnds
    <3>2. SetupOf(c[1]) \in Packet /\ SetupOf(c[1]).kind = "SETUP" /\ SetupOf(c[1]).flag = "NOT_MOBILE"
      BY <3>1, TypeOfRole DEF SetupOf, Control, Packet, Kinds, Flags, UNICAST_GROUP, Groups
    <3>3. SetupOf(c[1]) \in Local[c]
      BY <3>2 DEF Local
    <3>4. chan[c] = <<SetupOf(c[1])>> \/ chan[c] = <<>>
      BY <1>1
    <3> DEFINE S == Local[c]
               p == SetupOf(c[1])
    <3>5. p \in S /\ (chan[c] = <<p>> \/ chan[c] = <<>>)
      BY <3>3, <3>4
    <3> HIDE DEF S, p
    <3>6. <<>> \in Seq(S) /\ (p \in S => <<p>> \in Seq(S))
      OBVIOUS
    <3>7. chan[c] \in Seq(S)
      BY <3>5, <3>6
    <3>8. QED
      BY <3>7 DEF S
  <2>2. QED
    BY <1>1, <2>1 DEF Carries
<1>5. Lodged
  BY <1>1, <1>2 DEF Lodged
<1>6. \A d \in Device : DOMAIN children[d] = {}
  BY <1>1
<1>7. FlatTables
  BY <1>3, <1>6 DEF FlatTables
<1>8. Heralds
  <2>1. ASSUME NEW c \in Up \cup Low
        PROVE  DOMAIN chan[c] = {}
    <3>1. c \in Channel /\ c[3] = "unicast"
      BY DEF Up, Low
    <3>2. chan[c] = <<>>
      BY <1>1, <3>1
    <3>3. QED
      BY <3>2
  <2>2. \A c \in Up \cup Low : \A S, T : Preceded(chan[c], S, T)
    BY <2>1 DEF Preceded
  <2>3. \A b \in SubGateways, a \in Device : ~Has(children[b], a)
    BY <1>3, <1>6 DEF Has
  <2>4. \A l \in Low : parent[l[1]].addr # l[2]
    <3>1. ASSUME NEW l \in Low
          PROVE  l[1] \in Device /\ l[2] # NullAddr
      BY <1>3, RolesAssumption DEF Low
    <3>2. QED
      BY <1>2, <3>1
  <2>5. QED
    BY <1>2, <2>2, <2>3, <2>4 DEF Heralds
<1>9. QED
  BY <1>4, <1>5, <1>7, <1>8 DEF HomeInv

\* A step of an uncrowded flat farm.
LEMMA FarmStep ==
  ASSUME Flat, Uncrowded, FarmInv, OrdersKnown, [FarmNext]_farm
  PROVE  FarmInv' /\ HomesGrow /\ UndisturbedNext /\ \A c \in Channel : Framed(c)
<1>1. IInv /\ KnownInv /\ RoutedInv /\ HomeInv /\ Lodged
  BY DEF FarmInv, HomeInv
<1>2. UndisturbedNext
  BY <1>1, FarmUndisturbed
<1>3. Roomy
  BY DEF Uncrowded, Roomy, Up
<1>4. IInv' /\ KnownInv' /\ RoutedInv'
  BY <1>1, <1>2, <1>3, UndisturbedTyped, UndisturbedKnown, UndisturbedRouted
<1>5. HomesGrow
  BY <1>1, <1>2, <1>4, HomesKept
<1>6. (\A c \in Channel : Framed(c)) /\ Carries(chan', Local')
  BY <1>4, <1>5, FarmFrames
<1>7. Lodged' /\ FlatTables'
  BY <1>1, <1>2, <1>4, <1>5, LodgedKept, FlatTablesKept
<1>8. Heralds'
  BY <1>2, <1>4, <1>5, <1>6, <1>7, HeraldsKept
<1>9. HomeInv'
  BY <1>6, <1>7, <1>8 DEF HomeInv
<1>10. QED
  BY <1>2, <1>4, <1>5, <1>6, <1>9 DEF FarmInv

-------------------------------------------------------------------------------
(* The lines of the serial link *)

\* Lines of the gateway and of the server that stand for a device's packet carry
\* the number of a barn it has been attached in.
Placed(l) ==
  /\ l.origin \in Device /\ l.barn \in DOMAIN barns[Served]
  /\ barns[Served][l.barn] \in homes[l.origin]
Lines(topics) == [topic : topics, barn : Nat, origin : Device \cup {NullAddr}]
Prints == {l \in Lines({"log", "light", "keep_alive"}) : l.topic # "log" => Placed(l)}
Replies == {l \in Lines({"lights", "irrigation"}) : l.origin # NullAddr => Placed(l)}
LinesInv == printed \in Seq(Prints) /\ orders \in Seq(Replies)

\* A sequence over one set is one over a wider one.
LEMMA WiderSeq ==
  ASSUME NEW S, NEW T, S \subseteq T, NEW q \in Seq(S)
  PROVE  q \in Seq(T)
OBVIOUS

\* A line stays right.
LEMMA LinesGrow ==
  ASSUME FarmInv, HomesGrow, UndisturbedNext
  PROVE  Prints \subseteq Prints' /\ Replies \subseteq Replies'
<1>1. ASSUME NEW l, Placed(l)
      PROVE  Placed(l)'
  <2>1. /\ l.barn \in DOMAIN barns'[Served]
        /\ barns'[Served][l.barn] = barns[Served][l.barn]
    BY <1>1, BarnsGrow, FarmAssumption DEF Placed, FarmInv
  <2>2. homes[l.origin] \subseteq homes'[l.origin]
    BY <1>1 DEF Placed, HomesGrow
  <2>3. QED
    BY <1>1, <2>1, <2>2 DEF Placed
<1>2. QED
  BY <1>1 DEF Prints, Replies

\* The gateway's log.
LEMMA LogKept ==
  ASSUME NEW S, NEW lines \in Seq(S), LogLine \in S
  PROVE  Logged(lines) \in Seq(S)
<1>1. Append(lines, LogLine) \in Seq(S)
  BY AppendProperties
<1>2. QED
  BY <1>1 DEF Logged

LEMMA LogPrints == LogLine \in Prints'
BY DEF LogLine, TextLine, All, Prints, Lines

\* The line for a packet of a device carries the number of a barn it has been in.
LEMMA DataPlaced ==
  ASSUME Flat, FarmInv, NEW c \in Channel, Receives(c, Gateways, {"DATA_UP", "DATA_DOWN"}),
         NEW hop \in Hops(children[c[2]], Head(chan[c]).src)
  PROVE  TextLine(TopicOf(Head(chan[c]).src), BarnNumber(c[2], Head(chan[c]), hop), Head(chan[c]).src) \in Prints
<1> DEFINE m == Head(chan[c])
           table == children[Served]
           list == barns[Served]
           first == CHOOSE i \in DOMAIN list : list[i] = hop /\ \A j \in 1..(i - 1) : list[j] # hop
           line == TextLine(TopicOf(m.src), BarnNumber(c[2], m, hop), m.src)
<1>1. IInv /\ HomeInv /\ c[2] = Served /\ Served \in Device
  BY FarmAssumption DEF FarmInv, Receives, Flat, Device
<1>2. m \in Local[c] /\ m.src \in Device /\ m \in Packet /\ chan[c] # <<>> /\ m.kind \in {"DATA_UP", "DATA_DOWN"}
  BY <1>1, ReceivesLocal
<1>3. m.kind = "DATA_UP" /\ c \in Up
  <2>1. c \notin Low
    BY <1>1, FarmAssumption, RolesAssumption DEF Low
  <2>2. QED
    BY <1>1, <1>2, <2>1 DEF Local
<1>4. Has(table, m.src)
  <2>1. chan[c] \in Seq(Packet) /\ m \in Reports(m.src)
    BY <1>1, <1>2, <1>3 DEF IInv, Channels, Reports
  <2>2. ~Preceded(chan[c], Announcements(m.src), Reports(m.src))
    BY <1>2, <2>1, RemainingPackets
  <2>3. Listed(m.src)
    BY <1>1, <1>2, <1>3, <2>2 DEF HomeInv, Heralds
  <2>4. QED
    BY <2>3 DEF Listed
<1>5. hop \in homes[m.src] /\ \E j \in DOMAIN list : list[j] = hop
  <2>1. hop = NextHop(table, m.src)
    BY <1>1, <1>4 DEF Hops
  <2>2. table \in Seq(Child) /\ UniqueAddrs(table)
    BY <1>1 DEF IInv, TableInv, NoDuplicateChild
  <2>3. \A i \in DOMAIN table : /\ table[i].from \in homes[table[i].addr]
                                /\ \E j \in DOMAIN list : list[j] = table[i].from
    BY <1>1 DEF HomeInv, FlatTables
  <2> DEFINE a == m.src
  <2> HIDE DEF table, list, m, a
  <2>4. IndexOf(table, a) \in DOMAIN table /\ table[IndexOf(table, a)].addr = a
    BY <1>4, <2>2, IndexOfFound DEF a
  <2>5. QED
    BY <2>1, <2>3, <2>4 DEF NextHop, a
<1>6. list \in Seq(Device) /\ \A i, j \in DOMAIN list : list[i] = list[j] => i = j
  BY <1>1, FarmAssumption DEF IInv, BarnInv, BarnsDistinct
<1>7. first \in DOMAIN list /\ list[first] = hop
  <2>1. PICK k \in DOMAIN list : list[k] = hop
    BY <1>5
  <2> HIDE DEF list
  <2>2. DOMAIN list = 1..Len(list) /\ Len(list) \in Nat
    BY <1>6, LenProperties
  <2>3. \A j \in 1..(k - 1) : list[j] # hop
    <3> SUFFICES ASSUME NEW j \in 1..(k - 1), list[j] = hop
                 PROVE  FALSE
      OBVIOUS
    <3>1. j \in DOMAIN list /\ j # k
      BY <2>1, <2>2
    <3>2. QED
      BY <1>6, <2>1, <3>1
  <2>4. \E i \in DOMAIN list : list[i] = hop /\ \A j \in 1..(i - 1) : list[j] # hop
    BY <2>1, <2>3
  <2>5. QED
    BY <2>4
<1>8. BarnNumber(c[2], m, hop) = first
  BY <1>1, <1>5 DEF BarnNumber, NumberOf
<1>9. first \in Nat
  <2> HIDE DEF list, first
  <2>1. DOMAIN list = 1..Len(list) /\ Len(list) \in Nat
    BY <1>6, LenProperties
  <2>2. QED
    BY <1>7, <2>1
<1>10. line.topic \in {"light", "keep_alive"} /\ line.barn = first /\ line.origin = m.src
  <2> HIDE DEF first
  <2>1. QED
    BY <1>8 DEF TextLine, TopicOf
<1>11. line \in Lines({"log", "light", "keep_alive"})
  <2> HIDE DEF first, m
  <2>1. QED
    BY <1>2, <1>8, <1>9 DEF TextLine, TopicOf, Lines
<1>12. Placed(line)
  <2>1. list[line.barn] \in homes[line.origin]
    <3> HIDE DEF first, line, m, list
    <3>1. QED
      BY <1>5, <1>7, <1>10
  <2>2. line.barn \in DOMAIN list /\ line.origin \in Device
    <3> HIDE DEF first, line, m, list
    <3>1. QED
      BY <1>2, <1>7, <1>10
  <2> HIDE DEF line
  <2>3. QED
    BY <2>1, <2>2 DEF Placed
<1> HIDE DEF line
<1>13. line \in Prints
  BY <1>11, <1>12 DEF Prints
<1>14. QED
  BY <1>13 DEF line

\* What the server has received is right, and so is what it answers.
LEMMA TurnAnswers ==
  ASSUME LinesInv, Turn
  PROVE  printed' \in Seq(Prints) /\ orders' \in Seq(Replies)
<1> DEFINE l == Head(printed)
           light == TextLine("lights", l.barn, l.origin)
           all == TextLine("irrigation", All, NullAddr)
           S == Prints
           T == Replies
<1>1. printed # <<>> /\ printed' = Tail(printed) /\ printed \in Seq(S) /\ orders \in Seq(T)
  BY DEF Turn, LinesInv
<1>2. l \in S /\ printed' \in Seq(S)
  <2> HIDE DEF S
  <2>1. QED
    BY <1>1, HeadTailProperties
<1>3. l.topic = "light" => light \in T
  <2> SUFFICES ASSUME l.topic = "light"
               PROVE  light \in T
    OBVIOUS
  <2>1. Placed(l) /\ l.barn \in Nat /\ l.origin \in Device
    BY <1>2 DEF Prints, Lines, Placed
  <2> HIDE DEF l
  <2>2. light \in Lines({"lights", "irrigation"}) /\ light.barn = l.barn /\ light.origin = l.origin
    BY <2>1 DEF TextLine, Lines
  <2> HIDE DEF light
  <2>3. Placed(light)
    BY <2>1, <2>2 DEF Placed
  <2>4. QED
    BY <2>2, <2>3 DEF Replies
<1>4. ClientOrder \in T /\ all \in T
  <2>1. Cardinality(SubGateways) \in Nat
    <3>1. SubGateways \subseteq Device
      BY DEF Device
    <3>2. IsFiniteSet(SubGateways)
      BY <3>1, SizeAssumption, FS_Subset
    <3>3. QED
      BY <3>2, FS_CardinalityType
  <2>2. ClientOrder \in Lines({"lights", "irrigation"}) /\ ClientOrder.origin = NullAddr
    BY <2>1 DEF ClientOrder, TextLine, Lines
  <2>3. all \in Lines({"lights", "irrigation"}) /\ all.origin = NullAddr
    BY DEF All, TextLine, Lines
  <2> HIDE DEF all
  <2>4. QED
    BY <2>2, <2>3 DEF Replies
<1>5. PICK answer \in Answers(l) :
        \/ orders' = orders \o answer \o Due(elapsed)
        \/ orders' = orders \o answer \o <<ClientOrder>> \o Due(elapsed)
  BY DEF Turn
<1>6. (answer = <<>> \/ (light \in T /\ answer = <<light>>)) /\ Due(elapsed) \in {<<>>, <<all>>}
  BY <1>3 DEF Answers, Due
<1> DEFINE due == Due(elapsed)
           order == <<ClientOrder>>
<1>7. answer \in Seq(T) /\ order \in Seq(T) /\ due \in Seq(T)
  <2>1. \A x \in T : <<x>> \in Seq(T)
    OBVIOUS
  <2>2. <<>> \in Seq(T)
    OBVIOUS
  <2> HIDE DEF light, all, T
  <2>3. QED
    BY <1>4, <1>6, <2>1, <2>2
<1>8. orders' = orders \o answer \o due \/ orders' = orders \o answer \o order \o due
  BY <1>5
<1>9. orders' \in Seq(T)
  <2> HIDE DEF T, due, order
  <2>1. \A x, y \in Seq(T) : x \o y \in Seq(T)
    BY ConcatProperties
  <2>2. orders \o answer \in Seq(T)
    BY <1>1, <1>7, <2>1
  <2>3. orders \o answer \o due \in Seq(T) /\ orders \o answer \o order \in Seq(T)
    BY <1>7, <2>1, <2>2
  <2>4. orders \o answer \o order \o due \in Seq(T)
    BY <1>7, <2>1, <2>3
  <2>5. QED
    BY <1>8, <2>3, <2>4
<1>10. QED
  BY <1>2, <1>9

\* The lines stay right when the gateway and the server add new ones.
LEMMA LinesKept ==
  ASSUME Flat, FarmInv, HomesGrow, UndisturbedNext, LinesInv, [FarmNext]_farm
  PROVE  LinesInv'
<1> DEFINE S == Prints
           T == Replies
           V == Prints'
           W == Replies'
<1>1. S \subseteq V /\ T \subseteq W /\ printed \in Seq(S) /\ orders \in Seq(T) /\ LogLine \in V
  BY LinesGrow, LogPrints DEF LinesInv
<1>2. printed' \in Seq(S) => printed' \in Seq(V)
  <2> HIDE DEF S, V
  <2>1. QED
    BY <1>1, WiderSeq
<1>3. orders' \in Seq(T) => orders' \in Seq(W)
  <2> HIDE DEF T, W
  <2>1. QED
    BY <1>1, WiderSeq
<1>4. printed \in Seq(V) /\ Logged(printed) \in Seq(V)
  <2> HIDE DEF S, V
  <2>1. printed \in Seq(V)
    BY <1>1, WiderSeq
  <2>2. QED
    BY <1>1, <2>1, LogKept
<1>5. UNCHANGED orders => orders' \in Seq(W)
  BY <1>1, <1>3
<1>6. SUFFICES printed' \in Seq(V) /\ orders' \in Seq(W)
  BY DEF LinesInv
<1>7. CASE UNCHANGED <<printed, orders>>
  BY <1>4, <1>5, <1>7
<1>8. CASE Turn
  BY <1>2, <1>3, <1>8, TurnAnswers
<1>9. CASE Obey
  <2>1. orders # <<>> /\ orders' = Tail(orders) /\ printed' = Logged(printed)
    BY <1>9 DEF Obey
  <2> HIDE DEF T
  <2>2. orders' \in Seq(T)
    BY <1>1, <2>1, HeadTailProperties
  <2>3. QED
    BY <1>3, <1>4, <2>1, <2>2
<1>10. ASSUME NEW c \in Channel, FarmReceive(c), c[2] \in Gateways
       PROVE  printed' \in Seq(V) /\ orders' \in Seq(W)
  <2>1. UNCHANGED orders
    BY <1>10 DEF FarmReceive, FarmData, FarmControl
  <2>2. printed' = printed \/ printed' = Logged(printed) \/ FarmData(c)
    BY <1>10 DEF FarmReceive, FarmControl
  <2>3. ASSUME FarmData(c)
        PROVE  printed' \in Seq(V)
    <3> DEFINE m == Head(chan[c])
               line(hop) == TextLine(TopicOf(m.src), BarnNumber(c[2], m, hop), m.src)
    <3>1. c[2] = Served /\ Receives(c, Gateways, {"DATA_UP", "DATA_DOWN"})
      BY <1>10, <2>3 DEF Flat, FarmData
    <3>2. PICK hop \in Hops(children[c[2]], m.src) : printed' = Append(Logged(printed), line(hop))
      BY <2>3, <3>1 DEF FarmData
    <3>3. line(hop) \in S
      BY <3>1, DataPlaced
    <3>4. line(hop) \in V
      BY <1>1, <3>3
    <3> HIDE DEF line, V
    <3>5. QED
      BY <1>4, <3>2, <3>4, AppendProperties
  <2>4. QED
    BY <1>4, <1>5, <2>1, <2>2, <2>3
<1>11. ASSUME NEW c \in Channel, FarmReceive(c), c[2] \notin Gateways
       PROVE  UNCHANGED <<printed, orders>>
  BY <1>11 DEF FarmReceive, serial
<1>12. QED
  BY <1>7, <1>8, <1>9, <1>10, <1>11 DEF FarmNext, Work, Tick, Report, Search, farm, serial

\* The start of a farm.
LEMMA InitFarm == FarmInit => FarmInv /\ OrdersKnown
<1> SUFFICES ASSUME FarmInit
             PROVE  FarmInv /\ OrdersKnown
  OBVIOUS
<1>1. Init /\ orders = <<>>
  BY DEF FarmInit
<1>2. FarmInv
  BY <1>1, InitIInv, InitKnown, InitRouted, InitHome DEF FarmInv
<1>3. OrdersKnown
  <2>1. <<>> \in Seq({}) /\ \A o \in {} : o.topic \in {"lights", "irrigation"}
    OBVIOUS
  <2>2. orders \in Seq({})
    BY <1>1, <2>1
  <2> DEFINE S == {}
  <2>3. orders \in Seq(S) /\ \A o \in S : o.topic \in {"lights", "irrigation"}
    BY <2>1, <2>2
  <2> HIDE DEF S
  <2>4. QED
    BY <2>3 DEF OrdersKnown
<1>4. QED
  BY <1>2, <1>3

\* In a flat farm without full queues every measurement the server reads, and every
\* order it answers one with, carries the number of a barn the sensor has been
\* attached in (LightsWhereMeasured): a device's announcement stays ahead of its
\* reports on every leg of the way, so the gateway has a route to acknowledge a
\* report by, which starts at the sub-gateway the device was then attached to; and
\* that one is a barn by then and keeps its number.
THEOREM LightsFollowSensors ==
  ASSUME Flat
  PROVE  FarmSpec /\ []Uncrowded => []LightsWhereMeasured
<1> DEFINE I == FarmInv /\ OrdersKnown /\ LinesInv
<1>1. FarmInit => I
  <2> SUFFICES ASSUME FarmInit
               PROVE  FarmInv /\ OrdersKnown /\ LinesInv
    OBVIOUS
  <2>1. printed = <<LogLine>> /\ orders = <<>>
    BY DEF FarmInit
  <2>2. FarmInv /\ OrdersKnown
    BY InitFarm
  <2>3. LogLine \in Prints
    BY DEF LogLine, TextLine, All, Prints, Lines
  <2>4. LinesInv
    <3> DEFINE S == Prints
               T == Replies
    <3>1. \A l \in S : <<l>> \in Seq(S)
      OBVIOUS
    <3>2. <<>> \in Seq(T)
      OBVIOUS
    <3>3. QED
      BY <2>1, <2>3, <3>1, <3>2 DEF LinesInv
  <2>5. QED
    BY <2>2, <2>4
<1>2. I /\ Uncrowded /\ [FarmNext]_farm => I'
  <2> SUFFICES ASSUME FarmInv, OrdersKnown, LinesInv, Uncrowded, [FarmNext]_farm
               PROVE  FarmInv' /\ OrdersKnown' /\ LinesInv'
    OBVIOUS
  <2>1. FarmInv' /\ HomesGrow /\ UndisturbedNext
    BY FarmStep
  <2>2. QED
    BY <2>1, OrdersStayKnown, LinesKept
<1>3. I => LightsWhereMeasured
  <2> SUFFICES ASSUME LinesInv
               PROVE  LightsWhereMeasured
    OBVIOUS
  <2> DEFINE S == Prints
             T == Replies
  <2>1. \A l : Placed(l) => BarnOf(l.barn) \in homes[l.origin]
    BY DEF Placed, BarnOf, BarnAddr
  <2>2. ASSUME NEW X, NEW q \in Seq(X), NEW i \in DOMAIN q
        PROVE  q[i] \in X
    BY <2>2, ElementOfSeq, LenProperties
  <2>3. (\A i \in DOMAIN printed : printed[i] \in S) /\ (\A i \in DOMAIN orders : orders[i] \in T)
    BY <2>2 DEF LinesInv
  <2>4. QED
    BY <2>1, <2>3 DEF LightsWhereMeasured, Prints, Replies
<1> HIDE DEF I
<1>4. FarmSpec /\ []Uncrowded => []I
  BY <1>1, <1>2, PTL DEF FarmSpec
<1>5. QED
  BY <1>3, <1>4, PTL

-------------------------------------------------------------------------------
(* The frames of a step, followed by their contents *)

\* The step takes the first frame of the channels in took, puts p on those in put,
\* and leaves the others as they are.
Moves(took, put, p) ==
  /\ took \subseteq Channel /\ put \subseteq Channel /\ took \cap put = {}
  /\ \A c \in took : chan[c] # <<>>
  /\ put # {} => p \in Packet
  /\ chan' \in [Channel -> Seq(Packet)]
  /\ \A c \in Channel : chan'[c] = IF c \in took THEN Tail(chan[c])
                                   ELSE IF c \in put THEN Append(chan[c], p) ELSE chan[c]

\* A frame of S is taken from channel c; put on it.
Takes(took, c, S) == c \in took /\ Head(chan[c]) \in S
Gets(put, p, c, S) == c \in put /\ p \in S

LEMMA MovedPackets ==
  ASSUME chan \in [Channel -> Seq(Packet)], NEW took, NEW put, NEW p, Moves(took, put, p),
         NEW c \in Channel, NEW S, NEW T
  PROVE  /\ Holds(chan'[c], S) => Holds(chan[c], S) \/ Gets(put, p, c, S)
         /\ Gets(put, p, c, S) => Holds(chan'[c], S)
         /\ Holds(chan[c], S) => Holds(chan'[c], S) \/ Takes(took, c, S)
         /\ Takes(took, c, S) => Holds(chan[c], S) /\ ~Gets(put, p, c, T)
         /\ Takes(took, c, S) /\ Once(chan[c], S) => ~Holds(chan'[c], S)
         /\ Once(chan[c], S) /\ ~(Holds(chan[c], S) /\ Gets(put, p, c, S)) => Once(chan'[c], S)
         /\ Takes(took, c, S) /\ Before(chan[c], T, S) => ~Holds(chan'[c], T)
         /\ Before(chan[c], T, S) /\ ~(Gets(put, p, c, T) /\ (Holds(chan[c], S) \/ p \in S))
              => Before(chan'[c], T, S)
<1> DEFINE q == chan[c]
           r == chan'[c]
           head == Head(q) \in S
           inS == p \in S
           inT == p \in T
<1>1. q \in Seq(Packet) /\ (c \in took => q # <<>>) /\ (c \in put => p \in Packet)
      /\ (c \in took => c \notin put)
  BY DEF Moves
<1>2. r = IF c \in took THEN Tail(q) ELSE IF c \in put THEN Append(q, p) ELSE q
  BY DEF Moves
<1>3. CASE c \in took
  <2>1. /\ r = Tail(q) /\ q # <<>> /\ c \notin put
    BY <1>1, <1>2, <1>3
  <2> HIDE DEF q, r
  <2>2. /\ Holds(q, S) <=> Head(q) \in S \/ Holds(r, S)
        /\ Before(q, T, S) => Before(r, T, S) /\ (Head(q) \in S => ~Holds(r, T))
        /\ Once(q, S) => Once(r, S) /\ (Head(q) \in S => ~Holds(r, S))
    BY <1>1, <2>1, RemainingPackets
  <2>3. Takes(took, c, S) <=> Head(q) \in S
    BY <1>3 DEF Takes, q
  <2>4. ~Gets(put, p, c, S) /\ ~Gets(put, p, c, T)
    BY <2>1 DEF Gets
  <2>5. QED
    BY <2>2, <2>3, <2>4 DEF q, r
<1>4. CASE c \notin took
  <2>1. ~Takes(took, c, S)
    BY <1>4 DEF Takes
  <2>2. CASE c \in put
    <3>1. r = Append(q, p) /\ p \in Packet
      BY <1>1, <1>2, <1>4, <2>2
    <3>2. (Gets(put, p, c, S) <=> inS) /\ (Gets(put, p, c, T) <=> inT)
      BY <2>2 DEF Gets
    <3> HIDE DEF q, r
    <3>3. /\ Holds(r, S) <=> Holds(q, S) \/ inS
          /\ Before(q, T, S) /\ ~(inT /\ Holds(q, S)) /\ ~(inT /\ inS) => Before(r, T, S)
          /\ Once(q, S) /\ ~(Holds(q, S) /\ inS) => Once(r, S)
      BY <1>1, <3>1, AppendedPackets
    <3> HIDE DEF inS, inT
    <3>4. QED
      BY <2>1, <3>2, <3>3 DEF q, r, inS
  <2>3. CASE c \notin put
    <3>1. r = q
      BY <1>2, <1>4, <2>3
    <3>2. ~Gets(put, p, c, S) /\ ~Gets(put, p, c, T)
      BY <2>3 DEF Gets
    <3> HIDE DEF q, r
    <3>3. QED
      BY <2>1, <3>1, <3>2 DEF q, r
  <2>4. QED
    BY <2>2, <2>3
<1>5. QED
  BY <1>3, <1>4

\* The steps that send one packet, to several receivers at most, and those that send
\* none.
LEMMA QueuedMoves ==
  ASSUME Uncrowded, chan \in [Channel -> Seq(Packet)], NEW C, C \subseteq Channel, NEW p \in Packet
  PROVE  /\ chan' = Queued(chan, C, p) => Moves({}, C, p)
         /\ \A e \in Channel : chan[e] # <<>> /\ (\A c \in C : c[1] = e[2]) /\ chan' = Queued(Taken(e), C, p)
              => Moves({e}, C, p)
<1>1. \A c \in Channel : Append(chan[c], p) \in Seq(Packet) /\ chan[c] \in Seq(Packet)
  <2>1. \A q \in Seq(Packet) : Append(q, p) \in Seq(Packet)
    BY AppendProperties
  <2>2. QED
    BY <2>1
<1>2. ASSUME chan' = Queued(chan, C, p)
      PROVE  Moves({}, C, p)
  <2>1. chan' = [c \in Channel |-> IF c \in C THEN Append(chan[c], p) ELSE chan[c]]
    BY <1>2 DEF Queued, Uncrowded
  <2>2. chan' \in [Channel -> Seq(Packet)]
    BY <1>1, <2>1
  <2>3. QED
    BY <2>1, <2>2 DEF Moves
<1>3. ASSUME NEW e \in Channel, chan[e] # <<>>, \A c \in C : c[1] = e[2], chan' = Queued(Taken(e), C, p)
      PROVE  Moves({e}, C, p)
  <2>1. e \notin C
    <3>1. <<e[1], e[2]>> \in Link /\ <<e[1], e[2]>>[1] = e[1] /\ <<e[1], e[2]>>[2] = e[2]
      BY ChannelEnds
    <3>2. e[1] # e[2]
      BY <3>1, RadioAssumption
    <3>3. QED
      BY <1>3, <3>2
  <2>2. Taken(e) = [c \in Channel |-> IF c = e THEN Tail(chan[c]) ELSE chan[c]]
    BY DEF Taken
  <2>3. chan' = [c \in Channel |-> IF c \in C THEN Append(chan[c], p)
                                   ELSE IF c = e THEN Tail(chan[c]) ELSE chan[c]]
    BY <1>3, <2>1, <2>2 DEF Queued, Uncrowded
  <2>4. Tail(chan[e]) \in Seq(Packet)
    BY <1>1, <1>3, HeadTailProperties
  <2>5. chan' \in [Channel -> Seq(Packet)]
    BY <1>1, <2>3, <2>4
  <2>6. QED
    BY <1>3, <2>1, <2>3, <2>5 DEF Moves
<1>4. QED
  BY <1>2, <1>3

LEMMA NothingMoves ==
  ASSUME chan \in [Channel -> Seq(Packet)], NEW p
  PROVE  /\ chan' = chan => Moves({}, {}, p)
         /\ \A e \in Channel : chan[e] # <<>> /\ chan' = Taken(e) => Moves({e}, {}, p)
<1>1. ASSUME NEW e \in Channel, chan[e] # <<>>, chan' = Taken(e)
      PROVE  Moves({e}, {}, p)
  <2>1. chan' = [c \in Channel |-> IF c = e THEN Tail(chan[c]) ELSE chan[c]]
    BY <1>1 DEF Taken
  <2>2. Tail(chan[e]) \in Seq(Packet)
    BY <1>1, HeadTailProperties
  <2>3. chan' \in [Channel -> Seq(Packet)]
    BY <2>1, <2>2
  <2>4. QED
    BY <1>1, <2>1, <2>3 DEF Moves
<1>2. chan' = chan => Moves({}, {}, p)
  BY DEF Moves
<1>3. QED
  BY <1>1, <1>2

\* The channel of the unicasts from s to r, if there is one; whether a frame of S is on
\* it, and whether a step puts one there or takes one off.
Along(s, r) == {c \in Channel : c[1] = s /\ c[2] = r /\ c[3] = "unicast"}
On(s, r, S) == \E c \in Along(s, r) : Holds(chan[c], S)
Sent(put, p, s, r, S) == \E c \in Along(s, r) : Gets(put, p, c, S)
Got(took, s, r, S) == \E c \in Along(s, r) : Takes(took, c, S)
OnceOn(s, r, S) == \A c \in Along(s, r) : Once(chan[c], S)

LEMMA AlongOne ==
  ASSUME NEW s, NEW r
  PROVE  /\ \A c, e \in Along(s, r) : c = e
         /\ <<s, r>> \in Link => Along(s, r) = {<<s, r, "unicast">>}
         /\ r # NullAddr => {c \in Channel : Reaches(c, s, r)} = Along(s, r)
<1>1. \A c \in Channel : c = <<c[1], c[2], c[3]>>
  BY DEF Channel, Casts
<1>2. ASSUME <<s, r>> \in Link
      PROVE  <<s, r, "unicast">> \in Along(s, r)
  <2>1. s \in Device /\ r \in Device
    BY <1>2, RadioAssumption
  <2>2. QED
    BY <1>2, <2>1 DEF Along, Channel, Casts
<1>3. \A c, e \in Along(s, r) : c = e
  BY <1>1 DEF Along
<1>4. r # NullAddr => {c \in Channel : Reaches(c, s, r)} = Along(s, r)
  BY DEF Reaches, Along
<1>5. QED
  BY <1>2, <1>3, <1>4

LEMMA OnMoved ==
  ASSUME chan \in [Channel -> Seq(Packet)], NEW took, NEW put, NEW p, Moves(took, put, p),
         NEW s, NEW r, NEW S
  PROVE  /\ On(s, r, S)' => On(s, r, S) \/ Sent(put, p, s, r, S)
         /\ Sent(put, p, s, r, S) => On(s, r, S)'
         /\ On(s, r, S) => On(s, r, S)' \/ Got(took, s, r, S)
         /\ Got(took, s, r, S) => On(s, r, S) /\ ~Sent(put, p, s, r, S)
         /\ Got(took, s, r, S) /\ OnceOn(s, r, S) => ~On(s, r, S)'
         /\ OnceOn(s, r, S) /\ ~(On(s, r, S) /\ Sent(put, p, s, r, S)) => OnceOn(s, r, S)'
<1>1. \A c \in Along(s, r) :
        /\ Holds(chan'[c], S) => Holds(chan[c], S) \/ Gets(put, p, c, S)
        /\ Gets(put, p, c, S) => Holds(chan'[c], S)
        /\ Holds(chan[c], S) => Holds(chan'[c], S) \/ Takes(took, c, S)
        /\ Takes(took, c, S) => Holds(chan[c], S) /\ ~Gets(put, p, c, S)
        /\ Takes(took, c, S) /\ Once(chan[c], S) => ~Holds(chan'[c], S)
        /\ Once(chan[c], S) /\ ~(Holds(chan[c], S) /\ Gets(put, p, c, S)) => Once(chan'[c], S)
  BY MovedPackets DEF Along
<1>2. On(s, r, S)' <=> \E c \in Along(s, r) : Holds(chan'[c], S)
  BY DEF On, Along
<1>3. OnceOn(s, r, S)' <=> \A c \in Along(s, r) : Once(chan'[c], S)
  BY DEF OnceOn, Along
<1>4. \A c, e \in Along(s, r) : c = e
  BY AlongOne
<1>5. QED
  BY <1>1, <1>2, <1>3, <1>4 DEF On, Sent, Got, OnceOn

-------------------------------------------------------------------------------
(* The way back, where nobody gives its parent up *)

Settled == \A d \in Attached : setup[d] = 1

\* Who hears a device is heard by it.
Symmetric == \A l \in Link : <<l[2], l[1]>> \in Link

Down == {c \in Channel : c[1] = Served /\ c[2] \in SubGateways /\ c[3] = "unicast"}
Out == {c \in Channel : c[1] \in SubGateways /\ c[2] \in Ends /\ c[3] = "unicast"}

\* Removals go from the gateway to a barn; acknowledgements from there to their
\* device; what is counted goes up from a device to a barn that has a parent.
Ways ==
  [c \in Channel |->
     {p \in Packet :
        /\ p.kind = "CHILD_RM" => c \in Down /\ p.addr \in Ends
        /\ p.kind = "DATA_ACK" => \/ c \in Down /\ p.addr \in Ends \cup {c[2]}
                                  \/ c \in Out /\ p.addr = c[2]
        /\ p.kind = "DATA_UP" => p.src # Served /\ (c \in Low => c[2] \in Attached)}]

\* Of all the barns a device has been in, its parent's has the best signal: it never
\* takes a former one again.  The gateway has been in none.
Best ==
  /\ homes[Served] = {}
  /\ \A d \in Ends : \A b \in homes[d] :
       /\ d \in Attached /\ parent[d].type = SUB_GATEWAY
       /\ <<b, d>> \in Link /\ RSSI[<<b, d>>] <= parent[d].rssi

Removals(a) == {p \in Packet : p.kind = "CHILD_RM" /\ p.addr = a}
Acks(a) == {p \in Packet : p.kind = "DATA_ACK" /\ p.addr = a}
Counted(a) == Reports(a) \cup Acks(a)

\* So a device passes through a barn once: it announces itself to it, the barn enters it
\* and passes the announcement on, the gateway enters that, and revokes it when the
\* device has moved on; until then the barn keeps its entry.
Leads(table, a, b) == \E i \in DOMAIN table : table[i].addr = a /\ table[i].from = b
Routed(a, b) == Leads(children[Served], a, b)
Announced(a, b) == On(a, b, Announcements(a))
Promoted(a, b) == On(b, Served, Announcements(a))
Revoked(a, b) == On(Served, b, Removals(a))

Stage(a, b) ==
  /\ OnceOn(a, b, Announcements(a)) /\ OnceOn(b, Served, Announcements(a)) /\ OnceOn(Served, b, Removals(a))
  /\ Announced(a, b) => ~Has(children[b], a)
  /\ ~(Promoted(a, b) /\ Routed(a, b)) /\ ~(Promoted(a, b) /\ Revoked(a, b)) /\ ~(Routed(a, b) /\ Revoked(a, b))
  /\ Has(children[b], a) <=> Promoted(a, b) \/ Routed(a, b) \/ Revoked(a, b)

\* An acknowledgement is ahead of the removal of the entry it needs.
Kept(a, b) ==
  /\ On(Served, b, Acks(a)) => Has(children[b], a)
  /\ \A c \in Along(Served, b) : Before(chan[c], Acks(a), Removals(a))

\* A report or its acknowledgement is under way exactly when one is counted.
Counts(a) ==
  \/ data_counter[a] = 0 /\ \A c \in Channel : ~Holds(chan[c], Counted(a))
  \/ /\ data_counter[a] = 1
     /\ \E c \in Channel : /\ Holds(chan[c], Counted(a)) /\ Once(chan[c], Counted(a))
                           /\ \A e \in Channel : Holds(chan[e], Counted(a)) => e = c

ReturnInv ==
  /\ Carries(chan, Ways) /\ Best
  /\ \A a \in Ends, b \in SubGateways : Stage(a, b) /\ Kept(a, b)
  /\ \A a \in Device : Counts(a)

\* What a step may do about a in barn b; and about what a counts.
Staged(took, put, p, a, b) ==
  /\ Sent(put, p, a, b, Announcements(a)) => ~Announced(a, b) /\ ~Has(children[b], a)
  /\ Sent(put, p, b, Served, Announcements(a)) <=> Got(took, a, b, Announcements(a))
  /\ Has(children'[b], a) <=>
       (Has(children[b], a) \/ Got(took, a, b, Announcements(a))) /\ ~Got(took, Served, b, Removals(a))
  /\ Got(took, b, Served, Announcements(a)) => Routed(a, b)'
  /\ Routed(a, b)' => Routed(a, b) \/ Got(took, b, Served, Announcements(a))
  /\ Sent(put, p, Served, b, Removals(a)) <=> Routed(a, b) /\ ~Routed(a, b)'
  /\ Sent(put, p, Served, b, Acks(a)) => Routed(a, b)

TakesCounted(took, a) == \E c \in Channel : Takes(took, c, Counted(a))
GetsCounted(put, p, a) == \E c \in Channel : Gets(put, p, c, Counted(a))
Balanced(took, put, p, a) ==
  /\ \A c, e \in Channel : Gets(put, p, c, Counted(a)) /\ Gets(put, p, e, Counted(a)) => c = e
  /\ TakesCounted(took, a) /\ GetsCounted(put, p, a) => data_counter'[a] = data_counter[a]
  /\ TakesCounted(took, a) /\ ~GetsCounted(put, p, a) =>
       data_counter'[a] = (data_counter[a] + CounterSize - 1) % CounterSize
  /\ ~TakesCounted(took, a) /\ GetsCounted(put, p, a) => data_counter[a] = 0 /\ data_counter'[a] = 1
  /\ ~TakesCounted(took, a) /\ ~GetsCounted(put, p, a) => data_counter'[a] = data_counter[a]

LEMMA StageMoves ==
  ASSUME chan \in [Channel -> Seq(Packet)], NEW took, NEW put, NEW p, Moves(took, put, p),
         NEW a, NEW b, Stage(a, b), Kept(a, b), Staged(took, put, p, a, b)
  PROVE  Stage(a, b)' /\ Kept(a, b)'
<1> DEFINE s1 == Sent(put, p, a, b, Announcements(a))
           s2 == Sent(put, p, b, Served, Announcements(a))
           s4 == Sent(put, p, Served, b, Removals(a))
           g1 == Got(took, a, b, Announcements(a))
           g2 == Got(took, b, Served, Announcements(a))
           g4 == Got(took, Served, b, Removals(a))
           h == Has(children[b], a)
           hh == Has(children'[b], a)
<1>1. /\ Announced(a, b)' => Announced(a, b) \/ s1
      /\ s1 => Announced(a, b)'
      /\ Announced(a, b) => Announced(a, b)' \/ g1
      /\ g1 => Announced(a, b) /\ ~s1 /\ ~Announced(a, b)'
      /\ ~(Announced(a, b) /\ s1) => OnceOn(a, b, Announcements(a))'
  BY OnMoved DEF Announced, Stage
<1>2. /\ Promoted(a, b)' => Promoted(a, b) \/ s2
      /\ s2 => Promoted(a, b)'
      /\ Promoted(a, b) => Promoted(a, b)' \/ g2
      /\ g2 => Promoted(a, b) /\ ~s2 /\ ~Promoted(a, b)'
      /\ ~(Promoted(a, b) /\ s2) => OnceOn(b, Served, Announcements(a))'
  BY OnMoved DEF Promoted, Stage
<1>3. /\ Revoked(a, b)' => Revoked(a, b) \/ s4
      /\ s4 => Revoked(a, b)'
      /\ Revoked(a, b) => Revoked(a, b)' \/ g4
      /\ g4 => Revoked(a, b) /\ ~s4 /\ ~Revoked(a, b)'
      /\ ~(Revoked(a, b) /\ s4) => OnceOn(Served, b, Removals(a))'
  BY OnMoved DEF Revoked, Stage
<1>4. /\ Announced(a, b) => ~h
      /\ ~(Promoted(a, b) /\ Routed(a, b)) /\ ~(Promoted(a, b) /\ Revoked(a, b)) /\ ~(Routed(a, b) /\ Revoked(a, b))
      /\ h <=> Promoted(a, b) \/ Routed(a, b) \/ Revoked(a, b)
  BY DEF Stage
<1>5. /\ s1 => ~Announced(a, b) /\ ~h
      /\ s2 <=> g1
      /\ hh <=> (h \/ g1) /\ ~g4
      /\ g2 => Routed(a, b)'
      /\ Routed(a, b)' => Routed(a, b) \/ g2
      /\ s4 <=> Routed(a, b) /\ ~Routed(a, b)'
      /\ Sent(put, p, Served, b, Acks(a)) => Routed(a, b)
  BY DEF Staged
<1>6. On(Served, b, Acks(a))' => On(Served, b, Acks(a)) \/ Sent(put, p, Served, b, Acks(a))
  BY OnMoved
<1>7. (On(Served, b, Acks(a)) => h)
      /\ \A c \in Along(Served, b) : Before(chan[c], Acks(a), Removals(a))
  BY DEF Kept
<1>8. g4 => ~On(Served, b, Acks(a))'
  <2> SUFFICES ASSUME g4
               PROVE  \A c \in Along(Served, b) : ~Holds(chan'[c], Acks(a))
    BY DEF On, Along
  <2>1. PICK c \in Along(Served, b) : Takes(took, c, Removals(a))
    BY DEF Got
  <2>2. c \in Channel
    BY DEF Along
  <2>3. ~Holds(chan'[c], Acks(a))
    BY <1>7, <2>1, <2>2, MovedPackets
  <2>4. \A e \in Along(Served, b) : e = c
    BY AlongOne
  <2>5. QED
    BY <2>3, <2>4
<1>9. ASSUME NEW c \in Along(Served, b)
      PROVE  Before(chan'[c], Acks(a), Removals(a))
  <2>1. c \in Channel
    BY DEF Along
  <2>2. ~(Gets(put, p, c, Acks(a)) /\ (Holds(chan[c], Removals(a)) \/ p \in Removals(a)))
    <3>1. Gets(put, p, c, Acks(a)) => p \notin Removals(a)
      BY DEF Gets, Acks, Removals
    <3>2. Gets(put, p, c, Acks(a)) => Routed(a, b)
      BY <1>5 DEF Sent
    <3>3. Holds(chan[c], Removals(a)) => Revoked(a, b)
      BY DEF Revoked, On
    <3>4. QED
      BY <1>4, <3>1, <3>2, <3>3
  <2>3. QED
    BY <1>7, <2>1, <2>2, MovedPackets
<1> HIDE DEF s1, s2, s4, g1, g2, g4, h, hh
<1>10. /\ ~(Announced(a, b) /\ s1) /\ ~(Promoted(a, b) /\ s2) /\ ~(Revoked(a, b) /\ s4)
       /\ Announced(a, b)' => ~hh
  BY <1>1, <1>2, <1>3, <1>4, <1>5
<1>11. /\ ~(Promoted(a, b)' /\ Routed(a, b)') /\ ~(Promoted(a, b)' /\ Revoked(a, b)')
       /\ ~(Routed(a, b)' /\ Revoked(a, b)')
  BY <1>1, <1>2, <1>3, <1>4, <1>5
<1>12. hh <=> Promoted(a, b)' \/ Routed(a, b)' \/ Revoked(a, b)'
  BY <1>1, <1>2, <1>3, <1>4, <1>5
<1>13. On(Served, b, Acks(a))' => hh
  BY <1>4, <1>5, <1>6, <1>7, <1>8
<1>14. Stage(a, b)'
  BY <1>1, <1>2, <1>3, <1>10, <1>11, <1>12 DEF Stage, hh
<1>15. Kept(a, b)'
  BY <1>9, <1>13 DEF Kept, Along, hh
<1>16. QED
  BY <1>14, <1>15

LEMMA CountsMove ==
  ASSUME chan \in [Channel -> Seq(Packet)], NEW took, NEW put, NEW p, Moves(took, put, p),
         NEW a, Counts(a), Balanced(took, put, p, a)
  PROVE  Counts(a)'
<1> DEFINE S == Counted(a)
           T(c) == Takes(took, c, S)
           G(c) == Gets(put, p, c, S)
           hold(c) == Holds(chan[c], S)
           held(c) == Holds(chan'[c], S)
<1>1. \A c \in Channel :
        /\ held(c) => hold(c) \/ G(c)
        /\ G(c) => held(c)
        /\ hold(c) => held(c) \/ T(c)
        /\ T(c) => hold(c) /\ ~G(c)
        /\ T(c) /\ Once(chan[c], S) => ~held(c)
        /\ Once(chan[c], S) /\ ~(hold(c) /\ G(c)) => Once(chan'[c], S)
        /\ ~hold(c) => Once(chan[c], S)
  <2>1. \A c \in Channel : ~hold(c) => Once(chan[c], S)
    BY DEF Holds, Once
  <2>2. QED
    BY <2>1, MovedPackets
<1>2. \/ data_counter[a] = 0 /\ \A c \in Channel : ~hold(c)
      \/ /\ data_counter[a] = 1
         /\ \E c \in Channel : hold(c) /\ Once(chan[c], S) /\ \A e \in Channel : hold(e) => e = c
  BY DEF Counts
<1>3. \A c, e \in Channel : G(c) /\ G(e) => c = e
  BY DEF Balanced
<1> DEFINE takes == \E c \in Channel : T(c)
           gets == \E c \in Channel : G(c)
<1>5. (TakesCounted(took, a) <=> takes) /\ (GetsCounted(put, p, a) <=> gets)
  BY DEF TakesCounted, GetsCounted
<1>6. /\ takes /\ gets => data_counter'[a] = data_counter[a]
      /\ takes /\ ~gets => data_counter'[a] = (data_counter[a] + CounterSize - 1) % CounterSize
      /\ ~takes /\ gets => data_counter[a] = 0 /\ data_counter'[a] = 1
      /\ ~takes /\ ~gets => data_counter'[a] = data_counter[a]
  BY <1>5 DEF Balanced
<1> HIDE DEF S, T, G, hold, held
<1>7. CASE ~takes /\ ~gets
  <2>1. \A c \in Channel : held(c) <=> hold(c)
    BY <1>1, <1>7
  <2>2. data_counter'[a] = data_counter[a]
    BY <1>6, <1>7
  <2>3. \A c \in Channel : Once(chan[c], S) => Once(chan'[c], S)
    BY <1>1, <1>7
  <2>4. QED
    BY <1>2, <2>1, <2>2, <2>3 DEF Counts, hold, held, S
<1>8. CASE takes /\ gets
  <2>1. PICK t \in Channel : T(t)
    BY <1>8
  <2>2. PICK x \in Channel : G(x)
    BY <1>8
  <2>3. hold(t) /\ Once(chan[t], S) /\ (\A e \in Channel : hold(e) => e = t) /\ data_counter[a] = 1
    BY <1>1, <1>2, <2>1
  <2>4. ~held(t) /\ ~hold(x) /\ held(x) /\ Once(chan'[x], S)
    BY <1>1, <2>1, <2>2, <2>3
  <2>5. \A e \in Channel : held(e) => e = x
    BY <1>1, <1>3, <2>2, <2>3, <2>4
  <2>6. data_counter'[a] = 1
    BY <1>6, <1>8, <2>3
  <2>7. QED
    BY <2>4, <2>5, <2>6 DEF Counts, held, S
<1>9. CASE takes /\ ~gets
  <2>1. PICK t \in Channel : T(t)
    BY <1>9
  <2>2. hold(t) /\ Once(chan[t], S) /\ (\A e \in Channel : hold(e) => e = t) /\ data_counter[a] = 1
    BY <1>1, <1>2, <2>1
  <2>3. \A e \in Channel : ~held(e)
    BY <1>1, <1>9, <2>1, <2>2
  <2>4. data_counter'[a] = (data_counter[a] + CounterSize - 1) % CounterSize
    BY <1>6, <1>9
  <2>5. data_counter'[a] = 0
    BY <2>2, <2>4 DEF CounterSize
  <2>6. QED
    BY <2>3, <2>5 DEF Counts, held, S
<1>10. CASE ~takes /\ gets
  <2>1. PICK x \in Channel : G(x)
    BY <1>10
  <2>2. data_counter[a] = 0 /\ data_counter'[a] = 1
    BY <1>6, <1>10
  <2>3. \A e \in Channel : ~hold(e)
    BY <1>2, <2>2
  <2>4. held(x) /\ Once(chan'[x], S)
    BY <1>1, <2>1, <2>3
  <2>5. \A e \in Channel : held(e) => e = x
    BY <1>1, <1>3, <2>1, <2>3
  <2>6. QED
    BY <2>2, <2>4, <2>5 DEF Counts, held, S
<1>11. QED
  BY <1>7, <1>8, <1>9, <1>10

\* The frames of a step, put where they may be, and the rest of the step in keeping
\* with them.
Orderly(took, put, p) ==
  /\ Moves(took, put, p)
  /\ \A c \in put : p \in Ways'[c]
  /\ \A a \in Ends, b \in SubGateways : Staged(took, put, p, a, b)
  /\ \A a \in Device : Balanced(took, put, p, a)
Order == \E took, put, p : Orderly(took, put, p)

LEMMA OrderKeeps ==
  ASSUME IInv, HomesGrow, ReturnInv, Best', Order
  PROVE  ReturnInv'
<1>1. PICK took, put, p : Orderly(took, put, p)
  BY DEF Order
<1>2. chan \in [Channel -> Seq(Packet)] /\ Moves(took, put, p)
  BY <1>1 DEF IInv, Channels, Orderly
<1>3. Carries(chan', Ways')
  <2>1. \A c \in Channel : Ways[c] \subseteq Ways'[c]
    <3>1. \A d : d \in Attached => d \in Attached'
      BY DEF HomesGrow
    <3>2. QED
      BY <3>1 DEF Ways, Down, Out, Low
  <2>2. Carries(chan, Ways')
    BY <2>1, CarriesWider DEF ReturnInv
  <2>3. chan' = [c \in Channel |-> chan'[c]]
    BY <1>2 DEF Moves
  <2>4. ASSUME NEW c \in Channel
        PROVE  chan'[c] \in Seq(Ways'[c])
    <3> DEFINE S == Ways'[c]
               q == chan[c]
    <3>1. q \in Seq(S) /\ (c \in put => p \in S)
      BY <1>1, <2>2 DEF Carries, Orderly
    <3>2. \/ q # <<>> /\ chan'[c] = Tail(q)
          \/ c \in put /\ chan'[c] = Append(q, p)
          \/ chan'[c] = q
      BY <1>2 DEF Moves
    <3> HIDE DEF S, q
    <3>3. q # <<>> => Tail(q) \in Seq(S)
      BY <3>1, HeadTailProperties
    <3>4. p \in S => Append(q, p) \in Seq(S)
      BY <3>1, AppendProperties
    <3>5. chan'[c] \in Seq(S)
      BY <3>1, <3>2, <3>3, <3>4
    <3>6. QED
      BY <3>5 DEF S
  <2>5. QED
    BY <2>3, <2>4 DEF Carries
<1>4. ASSUME NEW a \in Ends, NEW b \in SubGateways
      PROVE  Stage(a, b)' /\ Kept(a, b)'
  <2>1. Stage(a, b) /\ Kept(a, b) /\ Staged(took, put, p, a, b)
    BY <1>1 DEF ReturnInv, Orderly
  <2>2. QED
    BY <1>2, <2>1, StageMoves
<1>5. ASSUME NEW a \in Device
      PROVE  Counts(a)'
  <2>1. Counts(a) /\ Balanced(took, put, p, a)
    BY <1>1 DEF ReturnInv, Orderly
  <2>2. QED
    BY <1>2, <2>1, CountsMove
<1>6. QED
  BY <1>3, <1>4, <1>5 DEF ReturnInv, Ends

\* Frames that are about nobody's way back.
Discreet(m) == m.kind \notin {"SETUP_ACK", "CHILD_RM"} \/ (m.kind = "SETUP_ACK" /\ m.addr \notin Ends)
Uncounted(m) == m.kind \notin {"DATA_UP", "DATA_ACK"}

\* The tables say the same of the devices below the barns.
TablesStay ==
  \A a \in Ends, b \in SubGateways :
    (Has(children'[b], a) <=> Has(children[b], a)) /\ (Routed(a, b)' <=> Routed(a, b))

LEMMA DiscreetStaged ==
  ASSUME NEW took, NEW put, NEW p, TablesStay,
         \A c \in took : Discreet(Head(chan[c])), put # {} => Discreet(p),
         \A a \in Ends, b \in SubGateways : Sent(put, p, Served, b, Acks(a)) => Routed(a, b)
  PROVE  \A a \in Ends, b \in SubGateways : Staged(took, put, p, a, b)
<1> SUFFICES ASSUME NEW a \in Ends, NEW b \in SubGateways
             PROVE  Staged(took, put, p, a, b)
  OBVIOUS
<1>1. \A m : Discreet(m) => m \notin Announcements(a) /\ m \notin Removals(a)
  BY DEF Discreet, Announcements, Removals
<1>2. \A c : ~Takes(took, c, Announcements(a)) /\ ~Takes(took, c, Removals(a))
  BY <1>1 DEF Takes
<1>3. \A c : ~Gets(put, p, c, Announcements(a)) /\ ~Gets(put, p, c, Removals(a))
  BY <1>1 DEF Gets
<1>4. \A s, r : /\ ~Got(took, s, r, Announcements(a)) /\ ~Got(took, s, r, Removals(a))
                /\ ~Sent(put, p, s, r, Announcements(a)) /\ ~Sent(put, p, s, r, Removals(a))
  BY <1>2, <1>3 DEF Got, Sent
<1>5. (Has(children'[b], a) <=> Has(children[b], a)) /\ (Routed(a, b)' <=> Routed(a, b))
  BY DEF TablesStay
<1>6. Sent(put, p, Served, b, Acks(a)) => Routed(a, b)
  OBVIOUS
<1>7. QED
  BY <1>4, <1>5, <1>6 DEF Staged

LEMMA UncountedBalanced ==
  ASSUME NEW took, NEW put, NEW p, UNCHANGED data_counter,
         \A c \in took : Uncounted(Head(chan[c])), put # {} => Uncounted(p)
  PROVE  \A a \in Device : Balanced(took, put, p, a)
<1> SUFFICES ASSUME NEW a \in Device
             PROVE  Balanced(took, put, p, a)
  OBVIOUS
<1>1. \A m : Uncounted(m) => m \notin Counted(a)
  BY DEF Uncounted, Counted, Reports, Acks
<1>2. \A c : ~Takes(took, c, Counted(a)) /\ ~Gets(put, p, c, Counted(a))
  BY <1>1 DEF Takes, Gets
<1>3. ~TakesCounted(took, a) /\ ~GetsCounted(put, p, a)
  BY <1>2 DEF TakesCounted, GetsCounted
<1>4. QED
  BY <1>2, <1>3 DEF Balanced

\* A step with no other frames.
Idle(m) == Discreet(m) /\ Uncounted(m)

LEMMA IdleOrderly ==
  ASSUME NEW took, NEW put, NEW p, Moves(took, put, p), TablesStay, UNCHANGED data_counter,
         \A c \in took : Idle(Head(chan[c])), put # {} => Idle(p)
  PROVE  Order
<1>1. \A a \in Device : Balanced(took, put, p, a)
  BY UncountedBalanced DEF Idle
<1>2. \A a \in Ends, b \in SubGateways : ~Sent(put, p, Served, b, Acks(a))
  BY DEF Sent, Gets, Idle, Uncounted, Acks
<1>3. \A a \in Ends, b \in SubGateways : Staged(took, put, p, a, b)
  BY <1>2, DiscreetStaged DEF Idle
<1>4. \A c \in put : p \in Ways'[c]
  BY DEF Moves, Idle, Discreet, Uncounted, Ways
<1>5. QED
  BY <1>1, <1>3, <1>4 DEF Orderly, Order

\* Taking such a frame and sending another one, or none; sending one unasked.
LEMMA IdleAnswer ==
  ASSUME Uncrowded, IInv, NEW e \in Channel, chan[e] # <<>>, Idle(Head(chan[e])), TablesStay,
         UNCHANGED data_counter,
         \/ chan' = Taken(e)
         \/ \E p \in Packet : Idle(p) /\ \/ \E dest : chan' = Output(Taken(e), e[2], dest, p)
                                         \/ \E hops : chan' = OutputAll(Taken(e), e[2], hops, p)
  PROVE  Order
<1>1. chan \in [Channel -> Seq(Packet)]
  BY DEF IInv, Channels
<1>2. CASE chan' = Taken(e)
  <2>1. Moves({e}, {}, NullAddr)
    BY <1>1, <1>2, NothingMoves
  <2>2. QED
    BY <2>1, IdleOrderly
<1>3. ASSUME NEW p \in Packet, Idle(p), NEW C, C \subseteq Channel, \A c \in C : c[1] = e[2],
             chan' = Queued(Taken(e), C, p)
      PROVE  Order
  <2>1. Moves({e}, C, p)
    BY <1>1, <1>3, QueuedMoves
  <2>2. QED
    BY <1>3, <2>1, IdleOrderly
<1>4. ASSUME NEW p \in Packet, Idle(p), NEW dest, chan' = Output(Taken(e), e[2], dest, p)
      PROVE  Order
  <2> DEFINE C == {c \in Channel : Reaches(c, e[2], dest)}
  <2>1. C \subseteq Channel /\ (\A c \in C : c[1] = e[2]) /\ chan' = Queued(Taken(e), C, p)
    BY <1>4 DEF Output, Reaches
  <2> HIDE DEF C
  <2>2. QED
    BY <1>3, <1>4, <2>1
<1>5. ASSUME NEW p \in Packet, Idle(p), NEW hops, chan' = OutputAll(Taken(e), e[2], hops, p)
      PROVE  Order
  <2> DEFINE C == {c \in Channel : \E hop \in hops : Reaches(c, e[2], hop)}
  <2>1. C \subseteq Channel /\ (\A c \in C : c[1] = e[2]) /\ chan' = Queued(Taken(e), C, p)
    BY <1>5 DEF OutputAll, Reaches
  <2> HIDE DEF C
  <2>2. QED
    BY <1>3, <1>5, <2>1
<1>6. QED
  BY <1>2, <1>4, <1>5

LEMMA IdleSend ==
  ASSUME Uncrowded, IInv, TablesStay, UNCHANGED data_counter,
         \/ UNCHANGED chan
         \/ \E p \in Packet : Idle(p) /\ \E s : \/ \E dest : chan' = Output(chan, s, dest, p)
                                                \/ \E hops : chan' = OutputAll(chan, s, hops, p)
  PROVE  Order
<1>1. chan \in [Channel -> Seq(Packet)]
  BY DEF IInv, Channels
<1>2. CASE UNCHANGED chan
  <2>1. Moves({}, {}, NullAddr)
    BY <1>1, <1>2, NothingMoves
  <2>2. QED
    BY <2>1, IdleOrderly
<1>3. ASSUME NEW p \in Packet, Idle(p), NEW C, C \subseteq Channel, chan' = Queued(chan, C, p)
      PROVE  Order
  <2>1. Moves({}, C, p)
    BY <1>1, <1>3, QueuedMoves
  <2>2. QED
    BY <1>3, <2>1, IdleOrderly
<1>4. ASSUME NEW p \in Packet, Idle(p), NEW s, NEW dest, chan' = Output(chan, s, dest, p)
      PROVE  Order
  <2> DEFINE C == {c \in Channel : Reaches(c, s, dest)}
  <2>1. C \subseteq Channel /\ chan' = Queued(chan, C, p)
    BY <1>4 DEF Output
  <2> HIDE DEF C
  <2>2. QED
    BY <1>3, <1>4, <2>1
<1>5. ASSUME NEW p \in Packet, Idle(p), NEW s, NEW hops, chan' = OutputAll(chan, s, hops, p)
      PROVE  Order
  <2> DEFINE C == {c \in Channel : \E hop \in hops : Reaches(c, s, hop)}
  <2>1. C \subseteq Channel /\ chan' = Queued(chan, C, p)
    BY <1>5 DEF OutputAll
  <2> HIDE DEF C
  <2>2. QED
    BY <1>3, <1>5, <2>1
<1>6. QED
  BY <1>2, <1>4, <1>5

LEMMA TablesUnchanged == UNCHANGED children => TablesStay
BY DEF TablesStay, Routed

\* The packet a handler is called with, and the channel it came by.
LEMMA ReceivesWays ==
  ASSUME IInv, HomeInv, ReturnInv, NEW e \in Channel, NEW D, NEW kinds, Receives(e, D, kinds)
  PROVE  /\ Head(chan[e]) \in Ways[e] /\ Head(chan[e]) \in Local[e]
         /\ Head(chan[e]) \in PacketFrom(e[1]) /\ Head(chan[e]) \in Packet /\ chan[e] # <<>>
         /\ Head(chan[e]).kind \in kinds /\ Head(chan[e]).flag = "NOT_MOBILE" /\ Head(chan[e]).src \in Device
         /\ e[1] \in Device /\ e[2] \in Device /\ e[2] \in D
<1>1. Head(chan[e]) \in Ways[e]
  BY ReceivesCarries DEF ReturnInv
<1>2. QED
  BY <1>1, ReceivesLocal

\* A packet that is received is one of its channel.
LEMMA HeadHeld ==
  ASSUME IInv, NEW e \in Channel, chan[e] # <<>>, NEW S, Head(chan[e]) \in S
  PROVE  Holds(chan[e], S)
<1> DEFINE q == chan[e]
<1>1. q \in Seq(Packet) /\ q # <<>> /\ Head(q) \in S
  BY DEF IInv, Channels
<1> HIDE DEF q
<1>2. Holds(q, S)
  BY <1>1, RemainingPackets
<1>3. QED
  BY <1>2 DEF q

\* Answers to a SETUP, and what is ignored.
LEMMA OffersIdle ==
  ASSUME Uncrowded, IInv, HomeInv, ReturnInv, NEW e \in Channel,
         NodeSetup(e) \/ SubGatewaySetup(e) \/ GatewaySetup(e)
  PROVE  Order
<1> DEFINE d == e[2]
           m == Head(chan[e])
           Offer(ntype) == Control("RESPONSE", d, ntype, NullAddr, UNICAST_GROUP)
<1>1. chan[e] # <<>> /\ d \in Device /\ m.kind \in {"SETUP"}
  BY ReceivesWays DEF NodeSetup, SubGatewaySetup, GatewaySetup
<1>2. \A ntype \in {NODE, SUB_GATEWAY, GATEWAY} : Offer(ntype) \in Packet /\ Offer(ntype).kind = "RESPONSE"
  BY <1>1 DEF Control, Packet, Kinds, Flags, UNICAST_GROUP, Groups
<1>3. /\ \/ chan' = Taken(e)
         \/ \E ntype \in {NODE, SUB_GATEWAY, GATEWAY} : chan' = Output(Taken(e), d, m.src, Offer(ntype))
      /\ UNCHANGED <<children, data_counter>>
  BY DEF NodeSetup, SubGatewaySetup, GatewaySetup
<1>4. \A x : x.kind \in {"SETUP", "RESPONSE"} => Idle(x)
  BY DEF Idle, Discreet, Uncounted
<1> HIDE DEF Offer
<1>5. Idle(m) /\ \A ntype \in {NODE, SUB_GATEWAY, GATEWAY} : Offer(ntype) \in Packet /\ Idle(Offer(ntype))
  BY <1>1, <1>2, <1>4
<1>6. TablesStay
  BY <1>3, TablesUnchanged
<1>7. QED
  BY <1>1, <1>3, <1>5, <1>6, IdleAnswer

LEMMA IgnoredIdle ==
  ASSUME Flat, Uncrowded, IInv, HomeInv, ReturnInv, NEW e \in Channel, GatewayIgnore(e) \/ MobileIgnore(e)
  PROVE  Order
<1> DEFINE m == Head(chan[e])
<1>1. /\ m \in Ways[e] /\ m \in Local[e] /\ m \in PacketFrom(e[1]) /\ chan[e] # <<>>
      /\ e[1] \in Device /\ e[2] \in Device
      /\ \/ /\ e[2] \in Gateways /\ m.kind \in {"SETUP_ACK", "RESPONSE", "CHILD_RM", "DATA_ACK"}
            /\ m.kind = "SETUP_ACK" => m.ntype # SUB_GATEWAY
         \/ e[2] \in Mobiles /\ m.kind \in {"SETUP", "CHILD_RM", "DATA_UP", "DATA_DOWN"}
  BY ReceivesWays DEF GatewayIgnore, MobileIgnore
<1>2. e \notin Down /\ (e[2] \in Gateways => e \notin Out /\ e \notin Low) /\ (e[2] \in Mobiles => e \notin Up /\ e \notin Low)
  BY <1>1, RolesAssumption DEF Down, Out, Up, Low, Ends
<1>3. m.kind # "CHILD_RM" /\ (m.kind = "DATA_ACK" => e[2] \notin Gateways)
  BY <1>1, <1>2 DEF Ways
<1>4. m.kind = "DATA_UP" => e[2] \notin Mobiles
  BY <1>1, <1>2 DEF Local
<1>5. m.kind # "SETUP_ACK"
  <2>1. m.kind = "SETUP_ACK" => e \in Up
    BY <1>1, <1>2 DEF Local
  <2>2. m.kind = "SETUP_ACK" => m.ntype = TypeOf(e[1])
    BY <1>1 DEF PacketFrom
  <2>3. e \in Up => TypeOf(e[1]) = SUB_GATEWAY
    BY <1>1, TypeOfRole DEF Up
  <2>4. QED
    BY <1>1, <2>1, <2>2, <2>3
<1>6. Idle(m)
  BY <1>1, <1>3, <1>4, <1>5, RolesAssumption DEF Idle, Discreet, Uncounted
<1>7. chan' = Taken(e) /\ UNCHANGED <<children, data_counter>>
  BY DEF GatewayIgnore, MobileIgnore
<1>8. QED
  BY <1>1, <1>6, <1>7, TablesUnchanged, IdleAnswer

\* No removal reaches a node.
LEMMA EndsForgetNobody ==
  ASSUME IInv, HomeInv, ReturnInv, NEW e \in Channel
  PROVE  ~NodeChildRm(e)
<1> SUFFICES ASSUME NodeChildRm(e)
             PROVE  FALSE
  OBVIOUS
<1>1. Head(chan[e]) \in Ways[e] /\ Head(chan[e]).kind \in {"CHILD_RM"} /\ e[2] \in Nodes
  BY ReceivesWays DEF NodeChildRm
<1>2. QED
  BY <1>1, RolesAssumption DEF Ways, Down

\* What a node does with a packet for it: it has nobody to pass it on to.
LEMMA NodesPassNothing ==
  ASSUME Flat, IInv, HomeInv, NEW e \in Channel, NodeData(e)
  PROVE  /\ e[2] \in Nodes /\ Head(chan[e]).kind = "DATA_DOWN" /\ chan[e] # <<>>
         /\ UNCHANGED <<parent, children>>
         /\ \/ chan' = Taken(e) /\ UNCHANGED <<setup, data_counter>>
            \/ StartsIrrigation(e[2], Head(chan[e])) /\ e[2] \in Attached /\ SendAcked(e[2], Taken(e))
<1> DEFINE d == e[2]
           m == Head(chan[e])
<1>1. /\ Carries(Taken(e), Local) /\ d \in Nodes /\ chan[e] # <<>>
      /\ m \in Local[e] /\ m.kind \in {"DATA_UP", "DATA_DOWN"} /\ m.flag = "NOT_MOBILE"
  BY ReceivesLocal DEF NodeData
<1>2. m.kind = "DATA_DOWN"
  <2>1. e \notin Up \cup Low
    BY <1>1, RolesAssumption DEF Up, Low
  <2>2. QED
    BY <1>1, <2>1 DEF Local
<1>3. Forwarded(d, Taken(e), m) = Taken(e)
  <2>1. GroupHops(children[d], m.group) = {}
    BY <1>1 DEF GroupHops, HomeInv, FlatTables, Ends
  <2>2. OutputAll(Taken(e), d, {}, m) = [c \in Channel |-> Taken(e)[c]]
    BY DEF OutputAll, Queued
  <2>3. QED
    BY <1>1, <1>2, <2>1, <2>2 DEF Forwarded, Carries
<1>4. ~AsksSensor(d, m)
  BY <1>1 DEF AsksSensor
<1>5. StartsIrrigation(d, m) => d \in Attached
  BY <1>1, <1>2, RolesAssumption DEF StartsIrrigation, Local
<1>6. UNCHANGED <<parent, children>>
  BY DEF NodeData
<1>7. QED
  BY <1>1, <1>2, <1>3, <1>4, <1>5, <1>6 DEF NodeData

\* Commands, on their way down.
LEMMA DownIdle ==
  ASSUME Uncrowded, IInv, HomeInv, ReturnInv, NEW e \in Channel, Head(chan[e]).kind = "DATA_DOWN",
         SubGatewayData(e)
  PROVE  Order
<1> DEFINE d == e[2]
           m == Head(chan[e])
<1>1. Idle(m)
  BY DEF Idle, Discreet, Uncounted
<1>2. m \in Packet /\ m.flag = "NOT_MOBILE" /\ chan[e] # <<>> /\ UNCHANGED <<children, data_counter>>
  BY ReceivesWays DEF SubGatewayData
<1>3. TurnedRound(m) = m
  BY <1>2 DEF TurnedRound
<1>4. chan' = Taken(e) \/ chan' = OutputAll(Taken(e), d, GroupHops(children[d], m.group), m)
  BY <1>3 DEF SubGatewayData, Forwarded
<1> HIDE DEF m
<1>5. QED
  BY <1>1, <1>2, <1>4, TablesUnchanged, IdleAnswer DEF m

\* Commands of the gateway, and a search for a parent.
LEMMA SendsIdle ==
  ASSUME Uncrowded, IInv, UNCHANGED <<children, data_counter>>,
         \/ CommandAll(Served) \/ (\E i : CommandOne(Served, i, LIGHT_BULB_GROUP))
         \/ \E d \in Device : SendSetup(d)
  PROVE  Order
<1> DEFINE light == Data("DATA_DOWN", Served, LIGHT_BULB_GROUP, "NOT_MOBILE")
           water == Data("DATA_DOWN", Served, IRRIGATION_GROUP, "NOT_MOBILE")
<1>1. TablesStay
  BY TablesUnchanged
<1>2. \A x : x.kind \in {"SETUP", "DATA_DOWN"} => Idle(x)
  BY DEF Idle, Discreet, Uncounted
<1>3. /\ light \in Packet /\ light.kind = "DATA_DOWN" /\ water \in Packet /\ water.kind = "DATA_DOWN"
  BY FarmAssumption
     DEF Data, Packet, Kinds, Flags, LIGHT_BULB_GROUP, IRRIGATION_GROUP, Groups, NODE, Device
<1> HIDE DEF light, water
<1>4. ASSUME CommandAll(Served) \/ (\E i : CommandOne(Served, i, LIGHT_BULB_GROUP))
      PROVE  Order
  <2>1. \/ \E hops : chan' = OutputAll(chan, Served, hops, water)
        \/ \E dest : chan' = Output(chan, Served, dest, light)
    BY <1>4 DEF CommandAll, CommandOne, light, water
  <2>2. QED
    BY <1>1, <1>2, <1>3, <2>1, IdleSend
<1>5. ASSUME NEW d \in Device, SendSetup(d)
      PROVE  Order
  <2> DEFINE p == SetupOf(d)
  <2>1. p \in Packet /\ p.kind = "SETUP"
    BY TypeOfRole DEF SetupOf, Control, Packet, Kinds, Flags, UNICAST_GROUP, Groups
  <2>2. chan' = Output(chan, d, NullAddr, p)
    BY <1>5 DEF SendSetup
  <2> HIDE DEF p
  <2>3. QED
    BY <1>1, <1>2, <2>1, <2>2, IdleSend
<1>6. QED
  BY <1>4, <1>5

\* A packet of a queue is one its channel permits.
LEMMA CarriedHolds ==
  ASSUME NEW ch, NEW P, Carries(ch, P), NEW c \in Channel, NEW S, Holds(ch[c], S)
  PROVE  \E p \in P[c] : p \in S
<1> DEFINE q == ch[c]
           T == P[c]
<1>1. q \in Seq(T)
  BY DEF Carries
<1>2. PICK i \in DOMAIN q : q[i] \in S
  BY DEF Holds
<1> HIDE DEF q, T
<1>3. q[i] \in T
  BY <1>1, <1>2, ElementOfSeq, LenProperties
<1>4. QED
  BY <1>2, <1>3 DEF T

\* A device only takes a barn it has not been in.
LEMMA NewBarn ==
  ASSUME Flat, IInv, HomeInv, ReturnInv, Settled, NEW d \in Ends, NEW b \in SubGateways, NEW ch, NEW m,
         CheckParentNode(d, ch, m), ~(chan' = ch /\ UNCHANGED <<parent, setup>>), m.src = b, m.ntype = TypeOf(b)
  PROVE  b \notin homes[d] /\ ~Announced(d, b) /\ ~Has(children[b], d)
<1>1. d \in Device /\ b \in Device /\ TypeOf(b) = SUB_GATEWAY
  BY TypeOfRole DEF Ends, Device
<1>2. /\ NotSetup(d) \/ BetterForNode(parent[d], SUB_GATEWAY, RSSI[<<b, d>>])
  BY <1>1 DEF CheckParentNode
<1>3. b \notin homes[d]
  <2> SUFFICES ASSUME b \in homes[d]
               PROVE  FALSE
    OBVIOUS
  <2>1. /\ d \in Attached /\ parent[d].type = SUB_GATEWAY /\ <<b, d>> \in Link
        /\ RSSI[<<b, d>>] <= parent[d].rssi
    BY DEF ReturnInv, Best
  <2>2. ~NotSetup(d)
    BY <2>1 DEF Settled, NotSetup
  <2>3. parent[d].rssi < RSSI[<<b, d>>]
    BY <1>2, <2>1, <2>2 DEF BetterForNode, SUB_GATEWAY
  <2>4. parent[d].rssi \in Int /\ RSSI[<<b, d>>] \in Int
    <3>1. parent[d] \in Parent
      BY <1>1 DEF IInv, AttachInv
    <3>2. parent[d].rssi \in -128..127 /\ RSSI[<<b, d>>] \in -128..127
      BY <2>1, <3>1, RadioAssumption DEF Parent
    <3>3. QED
      BY <3>2
  <2>5. QED
    BY <2>1, <2>3, <2>4
<1>4. ~Announced(d, b)
  <2> SUFFICES ASSUME NEW c \in Along(d, b), Holds(chan[c], Announcements(d))
               PROVE  FALSE
    BY DEF Announced, On
  <2>1. c \in Channel /\ c[1] = d /\ c[2] = b
    BY DEF Along
  <2>2. PICK p \in Local[c] : p \in Announcements(d)
    BY <2>1, CarriedHolds DEF HomeInv
  <2>3. BarnEnd(c) \in homes[d]
    BY <2>1, <2>2 DEF Local, Announcements
  <2>4. BarnEnd(c) = b
    BY <2>1, RolesAssumption DEF BarnEnd, Ends
  <2>5. QED
    BY <1>3, <2>3, <2>4
<1>5. ~Has(children[b], d)
  BY <1>3 DEF Has, HomeInv, FlatTables
<1>6. QED
  BY <1>3, <1>4, <1>5

\* An offer, taken or not.
LEMMA OfferOrdered ==
  ASSUME Flat, Uncrowded, IInv, HomeInv, ReturnInv, Settled, BarnParents', NEW e \in Channel,
         NodeResponse(e) \/ MobileResponse(e) \/ SubGatewayOffer(e)
  PROVE  Order
<1> DEFINE d == e[2]
           m == Head(chan[e])
           ack == Control("SETUP_ACK", d, TypeOf(d), d, GroupOf[d])
<1>1. /\ d \in Device /\ m.src \in Device /\ d \in Ends \cup SubGateways /\ chan[e] # <<>>
      /\ m \in PacketFrom(e[1]) /\ m.kind \in {"SETUP", "RESPONSE"} /\ e[1] \in Device
  BY ReceivesWays DEF NodeResponse, MobileResponse, SubGatewayOffer, Ends
<1>2. /\ parent \in [Device -> Parent] /\ setup \in [Device -> {0, 1}]
      /\ chan \in [Channel -> Seq(Packet)] /\ UNCHANGED <<children, data_counter>>
  BY DEF IInv, AttachInv, Channels, NodeResponse, MobileResponse, SubGatewayOffer
<1>3. \/ Adopt(d, Taken(e), m.src, m.ntype)
      \/ chan' = Taken(e) /\ UNCHANGED <<parent, setup>>
  BY DEF NodeResponse, MobileResponse, SubGatewayOffer, CheckParentNode, CheckParentSubGateway
<1>4. ack \in Packet /\ ack.kind = "SETUP_ACK" /\ ack.addr = d
  BY <1>1, TypeOfRole, GroupAssumption DEF Control, Packet, Kinds, Flags
<1>5. TablesStay
  BY <1>2, TablesUnchanged
<1>6. Idle(m)
  BY <1>1 DEF Idle, Discreet, Uncounted
<1>7. CASE chan' = Taken(e)
  BY <1>1, <1>2, <1>5, <1>6, <1>7, IdleAnswer
<1>8. CASE Adopt(d, Taken(e), m.src, m.ntype) /\ d \in SubGateways
  <2>1. Idle(ack)
    BY <1>4, <1>8, RolesAssumption DEF Idle, Discreet, Uncounted, Ends
  <2>2. chan' = Output(Taken(e), d, m.src, ack)
    BY <1>8 DEF Adopt
  <2> HIDE DEF ack, m
  <2>3. QED
    BY <1>1, <1>2, <1>4, <1>5, <1>6, <2>1, <2>2, IdleAnswer DEF m
<1>9. CASE Adopt(d, Taken(e), m.src, m.ntype) /\ d \in Ends /\ chan' # Taken(e)
  <2> DEFINE b == m.src
             C == Along(d, b)
  <2>1. chan' = Output(Taken(e), d, b, ack) /\ setup'[d] = 1 /\ parent'[d].addr = b
    BY <1>1, <1>2, <1>9 DEF Adopt
  <2>2. b \in SubGateways
    BY <1>1, <1>9, <2>1 DEF BarnParents
  <2>3. m.ntype = TypeOf(b)
    BY <1>1 DEF PacketFrom
  <2>4. CheckParentNode(d, Taken(e), m)
    <3>1. d \notin SubGateways
      BY <1>9, RolesAssumption DEF Ends
    <3>2. QED
      BY <3>1 DEF NodeResponse, MobileResponse, SubGatewayOffer, Receives
  <2>5. ~Announced(d, b) /\ ~Has(children[b], d)
    <3> HIDE DEF m
    <3>1. QED
      BY <1>9, <2>2, <2>3, <2>4, NewBarn
  <2>6. Moves({e}, C, ack)
    <3>1. b # NullAddr
      BY <1>1, RolesAssumption
    <3>2. chan' = Queued(Taken(e), C, ack)
      BY <2>1, <3>1, AlongOne DEF Output
    <3>3. C \subseteq Channel /\ \A c \in C : c[1] = d
      BY DEF Along
    <3> HIDE DEF ack, C
    <3>4. QED
      BY <1>1, <1>2, <1>4, <3>2, <3>3, QueuedMoves
  <2>7. ASSUME NEW a \in Ends, NEW x \in SubGateways
        PROVE  Staged({e}, C, ack, a, x)
    <3>1. \A s, r, S : Sent(C, ack, s, r, S) => s = d /\ r = b /\ ack \in S
      BY DEF Sent, Gets, Along
    <3>2. \A s, r, S : Got({e}, s, r, S) => m \in S
      BY DEF Got, Takes
    <3>3. ack \notin Removals(a) /\ ack \notin Acks(a) /\ m \notin Announcements(a) /\ m \notin Removals(a)
          /\ (ack \in Announcements(a) => a = d)
      BY <1>1, <1>4 DEF Removals, Acks, Announcements
    <3>4. d \notin SubGateways
      BY <1>9, RolesAssumption DEF Ends
    <3>5. (Has(children'[x], a) <=> Has(children[x], a)) /\ (Routed(a, x)' <=> Routed(a, x))
      BY <1>5 DEF TablesStay
    <3>6. Sent(C, ack, a, x, Announcements(a)) => ~Announced(a, x) /\ ~Has(children[x], a)
      BY <2>5, <3>1
    <3> HIDE DEF C, ack, m
    <3>7. QED
      BY <3>1, <3>2, <3>3, <3>4, <3>5, <3>6 DEF Staged
  <2>8. \A a \in Device : Balanced({e}, C, ack, a)
    <3>1. Uncounted(ack) /\ Uncounted(m)
      BY <1>1, <1>4 DEF Uncounted
    <3> HIDE DEF C, ack
    <3>2. QED
      BY <1>2, <3>1, UncountedBalanced
  <2>9. \A c \in C : ack \in Ways'[c]
    <3>1. C \subseteq Channel
      BY DEF Along
    <3> HIDE DEF ack, C
    <3>2. QED
      BY <1>4, <3>1 DEF Ways
  <2>10. QED
    BY <2>6, <2>7, <2>8, <2>9 DEF Orderly, Order
<1>10. QED
  BY <1>1, <1>3, <1>7, <1>8, <1>9

\* Who has had a parent has it, and they hear each other.
LEMMA ParentLinked ==
  ASSUME Flat, IInv, Settled, Symmetric, NEW d \in Attached
  PROVE  /\ setup[d] = 1 /\ d \in Device
         /\ <<parent[d].addr, d>> \in Link /\ <<d, parent[d].addr>> \in Link
         /\ \/ d \in SubGateways /\ d \notin Ends /\ parent[d].addr = Served
            \/ d \in Ends /\ d \notin SubGateways /\ parent[d].addr \in SubGateways
<1> DEFINE p == parent[d].addr
           l == <<p, d>>
<1>1. setup[d] = 1 /\ d \in Device
  BY DEF Settled, Attached
<1>2. l \in Link
  BY <1>1 DEF IInv, AttachInv, ParentRole
<1>3. <<l[2], l[1]>> \in Link /\ l[1] = p /\ l[2] = d
  <2>1. l[1] = p /\ l[2] = d
    OBVIOUS
  <2> HIDE DEF l
  <2>2. QED
    BY <1>2, <2>1 DEF Symmetric
<1>4. \/ d \in SubGateways /\ d \notin Ends /\ parent[d].addr = Served
      \/ d \in Ends /\ d \notin SubGateways /\ parent[d].addr \in SubGateways
  BY <1>1, ParentIsBarn, RolesAssumption DEF BarnParents, Device, Ends
<1>5. QED
  BY <1>1, <1>2, <1>3, <1>4

\* A sub-gateway is told of a device it has no entry of: it enters it, and the
\* announcement goes on to the gateway.
LEMMA RegisterOrdered ==
  ASSUME Flat, Uncrowded, IInv, RoutedInv, HomeInv, ReturnInv, Settled, Symmetric, NEW e \in Channel,
         SubGatewaySetupAck(e)
  PROVE  Order
<1> DEFINE d == e[2]
           s == e[1]
           m == Head(chan[e])
           table == children[d]
           last == LastChild(children'[d])
           ack == Control("SETUP_ACK", d, TypeOf(d), last.addr, last.group)
           C == Along(d, Served)
<1>1. /\ d \in Device /\ d \in SubGateways /\ s \in Device /\ chan[e] # <<>>
      /\ m \in Local[e] /\ m \in PacketFrom(s) /\ m \in Packet /\ m.kind = "SETUP_ACK"
      /\ m.addr \in Device
  <2>1. /\ d \in Device /\ d \in SubGateways /\ s \in Device /\ chan[e] # <<>>
        /\ m \in Local[e] /\ m \in PacketFrom(s) /\ m \in Packet /\ m.kind \in {"SETUP_ACK"}
    BY ReceivesWays DEF SubGatewaySetupAck
  <2>2. QED
    BY <2>1 DEF PacketFrom
<1>2. e \in Low /\ m.addr = s /\ m.src = s /\ s \in Ends /\ e[3] = "unicast"
  <2>1. e \in Up \cup Low /\ e \notin Up
    BY <1>1, RolesAssumption DEF Local, Up
  <2>2. QED
    BY <1>1, <2>1 DEF PacketFrom, Local, Low
<1>3. d \in Attached
  <2>1. m \in Rooted(Attached)[e]
    BY ReceivesCarries DEF RoutedInv, RootedInv, SubGatewaySetupAck
  <2>2. QED
    BY <1>1, <2>1, RolesAssumption DEF Rooted
<1>4. parent[d].addr = Served /\ <<d, Served>> \in Link /\ Served \in Gateways /\ Served \in Device
      /\ Served \notin SubGateways /\ d \notin Ends /\ d # Served /\ Served # NullAddr
  BY <1>1, <1>3, ParentLinked, FarmAssumption, RolesAssumption DEF Ends, Device
<1>5. /\ Enters(d, ChildOf(m)) /\ RegisterChild(d, Taken(e), m) /\ ChildOf(m) \in Child /\ TableInv
      /\ ChildOf(m).addr = s
  <2>1. RegisterChild(d, Taken(e), m) /\ TableInv
    BY DEF SubGatewaySetupAck, IInv
  <2>2. Enters(d, ChildOf(m))
    BY <2>1 DEF RegisterChild, Enters
  <2>3. ChildOf(m) \in Child /\ ChildOf(m).addr = s
    BY <1>1, <1>2 DEF ChildOf, Child, Packet
  <2>4. QED
    BY <2>1, <2>2, <2>3
<1>6. e \in Along(s, d) /\ m \in Announcements(s)
  BY <1>1, <1>2 DEF Along, Announcements
<1>7. ~Has(table, s)
  <2>1. Holds(chan[e], Announcements(s))
    BY <1>1, <1>6, HeadHeld
  <2>2. Announced(s, d)
    BY <1>6, <2>1 DEF Announced, On
  <2>3. QED
    BY <1>1, <1>2, <2>2 DEF ReturnInv, Stage
<1>8. last = ChildOf(m)
  BY <1>1, <1>5, <1>7, SetChildEntries
<1>9. ack \in Packet /\ ack.kind = "SETUP_ACK" /\ ack.addr = s /\ chan' = Output(Taken(e), d, Served, ack)
  <2>1. children'[d] = SetChild(table, ChildOf(m))
    BY <1>1, <1>5 DEF Enters, TableInv
  <2>2. AfterSetChild(d, Taken(e), m) = Taken(e)
    BY <1>5, <1>7 DEF AfterSetChild, Superseded
  <2>3. last.addr = s /\ last.group \in Groups /\ s \in Device
    BY <1>1, <1>5, <1>8 DEF Child
  <2>4. chan' = Output(Taken(e), d, Served, ack)
    BY <1>4, <1>5, <2>1, <2>2 DEF RegisterChild
  <2>5. ack \in Packet /\ ack.kind = "SETUP_ACK" /\ ack.addr = s
    BY <1>1, <2>3, TypeOfRole DEF Control, Packet, Kinds, Flags
  <2>6. QED
    BY <2>4, <2>5
<1>10. chan \in [Channel -> Seq(Packet)] /\ UNCHANGED data_counter
  BY DEF IInv, Channels, SubGatewaySetupAck
<1> HIDE DEF ack
<1>11. C = {<<d, Served, "unicast">>} /\ C \subseteq Channel /\ \A c \in C : c[1] = d
  BY <1>4, AlongOne DEF Along
<1>12. Moves({e}, C, ack)
  <2>1. chan' = Queued(Taken(e), C, ack)
    BY <1>4, <1>9, AlongOne DEF Output
  <2> HIDE DEF C
  <2>2. QED
    BY <1>1, <1>9, <1>10, <1>11, <2>1, QueuedMoves
<1>13. ASSUME NEW a \in Ends, NEW x \in SubGateways
       PROVE  Staged({e}, C, ack, a, x)
  <2>1. \A y, r, S : Sent(C, ack, y, r, S) => y = d /\ r = Served /\ ack \in S
    BY <1>11 DEF Sent, Gets, Along
  <2>2. \A S : ack \in S => Sent(C, ack, d, Served, S)
    <3>1. \E c \in C : c \in Along(d, Served)
      BY <1>11
    <3>2. QED
      BY <3>1 DEF Sent, Gets
  <2>3. \A y, r, S : Got({e}, y, r, S) => y = s /\ r = d /\ m \in S
    BY DEF Got, Takes, Along
  <2>4. Got({e}, s, d, Announcements(s))
    BY <1>6 DEF Got, Takes
  <2>5. /\ ack \notin Removals(a) /\ ack \notin Acks(a) /\ m \notin Removals(a)
        /\ ack \in Announcements(a) <=> a = s
        /\ m \in Announcements(a) <=> a = s
    BY <1>1, <1>2, <1>9 DEF Removals, Acks, Announcements
  <2>6. Has(children'[x], a) <=> Has(children[x], a) \/ (x = d /\ a = s)
    <3>1. x \in Device
      BY DEF Device
    <3>2. Has(children'[x], a) => Has(children[x], a) \/ (x = d /\ a = s)
      <4>1. \A i \in DOMAIN children'[x] :
              \/ x = d /\ children'[x][i] = ChildOf(m)
              \/ \E j \in DOMAIN children[x] : children'[x][i] = children[x][j]
        BY <1>1, <1>5, <3>1, SetChildEntries
      <4>2. QED
        BY <1>5, <4>1 DEF Has
    <3>3. (Has(children[x], a) => Has(children'[x], a)) /\ Has(children'[d], s)
      BY <1>1, <1>5, <3>1, SetChildEntries
    <3>4. QED
      BY <3>2, <3>3
  <2>7. Routed(a, x)' <=> Routed(a, x)
    <3>1. children'[Served] = children[Served]
      BY <1>4, <1>5 DEF Enters, TableInv
    <3>2. QED
      BY <3>1 DEF Routed
  <2>8. a # d /\ x # Served
    BY <1>4
  <2> DEFINE got == Got({e}, a, x, Announcements(a))
             sent == Sent(C, ack, x, Served, Announcements(a))
             here == x = d /\ a = s
  <2>9. (got <=> here) /\ (sent <=> here)
    BY <2>1, <2>2, <2>3, <2>4, <2>5
  <2>10. ~Got({e}, Served, x, Removals(a)) /\ ~Got({e}, x, Served, Announcements(a))
    BY <1>4, <2>3, <2>5
  <2>11. /\ ~Sent(C, ack, a, x, Announcements(a)) /\ ~Sent(C, ack, Served, x, Removals(a))
         /\ ~Sent(C, ack, Served, x, Acks(a))
    BY <2>1, <2>5, <2>8
  <2> DEFINE was == Has(children[x], a)
             is == Has(children'[x], a)
  <2>12. is <=> was \/ here
    BY <2>6
  <2>13. (is <=> (was \/ got) /\ ~Got({e}, Served, x, Removals(a))) /\ (sent <=> got)
    <3> HIDE DEF was, is, here, got, sent
    <3>1. QED
      BY <2>9, <2>10, <2>12
  <2> HIDE DEF C
  <2>14. QED
    BY <2>7, <2>10, <2>11, <2>13 DEF Staged
<1>14. \A a \in Device : Balanced({e}, C, ack, a)
  <2>1. Uncounted(ack) /\ Uncounted(m)
    BY <1>1, <1>9 DEF Uncounted
  <2> HIDE DEF C
  <2>2. QED
    BY <1>10, <2>1, UncountedBalanced
<1>15. \A c \in C : ack \in Ways'[c]
  <2> HIDE DEF C
  <2>1. QED
    BY <1>9, <1>11 DEF Ways
<1>16. QED
  BY <1>12, <1>13, <1>14, <1>15 DEF Orderly, Order

\* Where the tables lead: one way for each device.
LEMMA LeadsOneWay ==
  ASSUME NEW S, NEW table \in Seq(S), UniqueAddrs(table), NEW a
  PROVE  \A b : Leads(table, a, b) <=> Has(table, a) /\ b = NextHop(table, a)
<1>1. \A b : Leads(table, a, b) => Has(table, a)
  BY DEF Leads, Has
<1>2. CASE Has(table, a)
  <2>1. IndexOf(table, a) \in DOMAIN table /\ table[IndexOf(table, a)].addr = a
    BY <1>2, IndexOfFound
  <2>2. \A i \in DOMAIN table : table[i].addr = a => i = IndexOf(table, a)
    BY <2>1 DEF UniqueAddrs
  <2>3. QED
    BY <1>2, <2>1, <2>2 DEF Leads, NextHop
<1>3. QED
  BY <1>1, <1>2

\* set_child changes the way to one device only.
LEMMA SetChildLeads ==
  ASSUME NEW S, NEW table \in Seq(S), UniqueAddrs(table), NEW child \in S, NEW a, NEW b
  PROVE  Leads(SetChild(table, child), a, b) <=>
           IF a = child.addr THEN b = child.from ELSE Leads(table, a, b)
<1> DEFINE T == SetChild(table, child)
<1>1. /\ UniqueAddrs(T)
      /\ Has(table, a) => Has(T, a)
      /\ \A i \in DOMAIN T : T[i] = child \/ \E j \in DOMAIN table : T[i] = table[j]
  <2>1. UniqueAddrs(T) /\ \A i \in DOMAIN T : T[i] = child \/ \E j \in DOMAIN table : T[i] = table[j]
    BY SetChildKeeps
  <2>2. Has(table, a) => Has(T, a)
    BY SetChildHolds
  <2>3. QED
    BY <2>1, <2>2
<1>2. \E i \in DOMAIN T : T[i] = child
  <2>1. CASE Has(table, child.addr)
    <3> DEFINE k == IndexOf(table, child.addr)
    <3>1. k \in DOMAIN table
      BY <2>1, IndexOfFound
    <3> HIDE DEF k
    <3>2. T = [table EXCEPT ![k] = child]
      BY <2>1 DEF SetChild, k
    <3>3. table = [i \in DOMAIN table |-> table[i]]
      BY LenProperties
    <3>4. DOMAIN T = DOMAIN table /\ T[k] = child
      BY <3>1, <3>2, <3>3
    <3>5. QED
      BY <3>1, <3>4
  <2>2. CASE ~Has(table, child.addr)
    <3>1. T = Append(table, child)
      BY <2>2 DEF SetChild
    <3>2. T[Len(table) + 1] = child /\ DOMAIN T = 1..(Len(table) + 1) /\ Len(table) \in Nat
      BY <3>1, AppendProperties, LenProperties
    <3> HIDE DEF T
    <3>3. QED
      BY <3>2
  <2>3. QED
    BY <2>1, <2>2
<1> HIDE DEF T
<1>3. ASSUME a = child.addr
      PROVE  Leads(T, a, b) <=> b = child.from
  BY <1>1, <1>2, <1>3 DEF Leads, UniqueAddrs
<1>4. ASSUME a # child.addr
      PROVE  Leads(T, a, b) <=> Leads(table, a, b)
  <2>1. Leads(T, a, b) => Leads(table, a, b)
    BY <1>1, <1>4 DEF Leads
  <2>2. ASSUME NEW j \in DOMAIN table, table[j].addr = a, table[j].from = b
        PROVE  Leads(T, a, b)
    <3>1. PICK i \in DOMAIN T : T[i].addr = a
      BY <1>1, <2>2 DEF Has
    <3>2. PICK k \in DOMAIN table : T[i] = table[k]
      BY <1>1, <1>4, <3>1
    <3>3. k = j
      BY <2>2, <3>1, <3>2 DEF UniqueAddrs
    <3>4. QED
      BY <2>2, <3>1, <3>2, <3>3 DEF Leads
  <2>3. QED
    BY <2>1, <2>2 DEF Leads
<1>5. QED
  BY <1>3, <1>4 DEF T

\* The gateway's way to a device starts with a barn the device has been in; they
\* hear each other.
LEMMA RouteOf ==
  ASSUME Flat, IInv, KnownInv, HomeInv, Symmetric, NEW a
  PROVE  LET hop == NextHop(children[Served], a)
         IN /\ \A b : Routed(a, b) <=> Listed(a) /\ b = hop
            /\ Listed(a) => /\ a \in Device /\ hop \in homes[a] /\ hop \in SubGateways
                            /\ <<Served, hop>> \in Link
                            /\ a \in SubGateways => hop = a
<1> DEFINE table == children[Served]
           hop == NextHop(table, a)
<1>1. Served \in Gateways /\ Served \in Device
  BY FarmAssumption DEF Device
<1>2. table \in Seq(Child) /\ UniqueAddrs(table)
  BY <1>1 DEF IInv, TableInv, NoDuplicateChild
<1>3. \A i \in DOMAIN table :
        /\ table[i].from \in homes[table[i].addr]
        /\ <<table[i].from, Served>> \in Link /\ table[i].from \in SubGateways
        /\ table[i].addr \in SubGateways => table[i].from = table[i].addr
  BY <1>1 DEF HomeInv, FlatTables, KnownInv, SubGatewaysDirect, IInv, TableInv, NextHopHeard
<1> HIDE DEF table
<1>4. \A b : Leads(table, a, b) <=> Has(table, a) /\ b = hop
  BY <1>2, LeadsOneWay
<1>5. Has(table, a) => \E i \in DOMAIN table : table[i].addr = a /\ table[i].from = hop
  BY <1>4 DEF Leads
<1>6. \A i \in DOMAIN table : table[i].addr \in Device
  <2>1. \A i \in DOMAIN table : table[i] \in Child
    BY <1>2, ElementOfSeq, LenProperties
  <2>2. QED
    BY <2>1 DEF Child
<1>7. Has(table, a) => a \in Device /\ hop \in homes[a] /\ hop \in SubGateways /\ <<hop, Served>> \in Link
                       /\ (a \in SubGateways => hop = a)
  BY <1>3, <1>5, <1>6
<1>8. <<hop, Served>> \in Link => <<Served, hop>> \in Link
  <2> DEFINE l == <<hop, Served>>
  <2>1. l[1] = hop /\ l[2] = Served
    OBVIOUS
  <2> HIDE DEF l, hop
  <2>2. l \in Link => <<Served, hop>> \in Link
    BY <2>1 DEF Symmetric
  <2>3. QED
    BY <2>2 DEF l
<1>9. QED
  BY <1>4, <1>7, <1>8 DEF Routed, Listed, table

\* The gateway hears of a device from a barn: it is routed there, and forgotten by
\* the barn it was routed to before.
LEMMA ListOrdered ==
  ASSUME Flat, Uncrowded, IInv, KnownInv, HomeInv, ReturnInv, Symmetric, NEW e \in Channel,
         GatewaySetupAck(e)
  PROVE  Order
<1> DEFINE s == e[1]
           m == Head(chan[e])
           t == m.addr
           table == children[Served]
           hop == NextHop(table, t)
           rm == Control("CHILD_RM", Served, NODE, t, UNICAST_GROUP)
           moved == t \in Ends /\ Listed(t)
           C == IF moved THEN Along(Served, hop) ELSE {}
<1>1. /\ Served \in Gateways /\ Served \in Device /\ e[2] = Served /\ chan[e] # <<>>
      /\ m \in Local[e] /\ m \in PacketFrom(s) /\ m \in Packet /\ m.kind = "SETUP_ACK"
      /\ t \in Device /\ m.src = s
  <2>1. /\ e[2] \in Gateways /\ chan[e] # <<>>
        /\ m \in Local[e] /\ m \in PacketFrom(s) /\ m \in Packet /\ m.kind \in {"SETUP_ACK"}
    BY ReceivesWays DEF GatewaySetupAck
  <2>2. e[2] = Served /\ Served \in Gateways /\ Served \in Device
    BY <2>1, FarmAssumption DEF Flat, Device
  <2>3. QED
    BY <2>1, <2>2 DEF PacketFrom
<1>2. e \in Up /\ s \in SubGateways /\ s \in homes[t] /\ e \in Along(s, Served)
  <2>1. e \in Up
    BY <1>1, RolesAssumption DEF Local, Low
  <2>2. QED
    BY <1>1, <2>1 DEF Up, Local, BarnEnd, Along
<1>3. t # Served /\ Served \notin SubGateways /\ Served \notin Ends
  BY <1>1, <1>2, RolesAssumption DEF ReturnInv, Best, Ends
<1>4. t \in SubGateways => t = s
  <2>1. m \in Told[e]
    BY ReceivesCarries DEF KnownInv, GatewaySetupAck
  <2>2. QED
    BY <1>1, <2>1 DEF Told
<1>5. t \in Ends \/ t \in SubGateways
  BY <1>1, <1>3 DEF Flat, Device, Ends
<1>6. /\ \A b : Routed(t, b) <=> Listed(t) /\ b = hop
      /\ Listed(t) => hop \in SubGateways /\ <<Served, hop>> \in Link /\ (t \in SubGateways => hop = t)
  BY RouteOf
<1>7. /\ table \in Seq(Child) /\ UniqueAddrs(table) /\ ChildOf(m) \in Child
      /\ ChildOf(m).addr = t /\ ChildOf(m).from = s
  BY <1>1 DEF IInv, TableInv, NoDuplicateChild, ChildOf, Child, Packet
<1>8. children'[Served] = SetChild(table, ChildOf(m)) /\ \A x \in SubGateways : children'[x] = children[x]
  BY <1>1, <1>3 DEF GatewaySetupAck, IInv, TableInv, Device
<1>9. \A a, b : Routed(a, b)' <=> IF a = t THEN b = s ELSE Routed(a, b)
  <2> HIDE DEF table, m
  <2>1. \A a, b : Leads(SetChild(table, ChildOf(m)), a, b) <=> IF a = t THEN b = s ELSE Leads(table, a, b)
    BY <1>7, SetChildLeads
  <2>2. QED
    BY <1>8, <2>1 DEF Routed, table
<1>10. Listed(t) /\ t \in Ends => hop # s
  <2>1. m \in Announcements(t)
    BY <1>1 DEF Announcements
  <2>2. Holds(chan[e], Announcements(t))
    <3> HIDE DEF t
    <3>1. QED
      BY <1>1, <2>1, HeadHeld
  <2>3. Promoted(t, s)
    BY <1>2, <2>2 DEF Promoted, On
  <2>4. t \in Ends => ~Routed(t, s)
    BY <1>2, <2>3 DEF ReturnInv, Stage
  <2>5. QED
    BY <1>6, <2>4
<1>11. Superseded(table, ChildOf(m)) <=> moved
  <2>1. Superseded(table, ChildOf(m)) <=> Listed(t) /\ hop # s /\ hop # t
    BY <1>7 DEF Superseded, Listed
  <2>2. t \in Ends => t \notin SubGateways
    BY RolesAssumption DEF Ends
  <2>3. QED
    BY <1>4, <1>5, <1>6, <1>10, <2>1, <2>2
<1>12. chan \in [Channel -> Seq(Packet)] /\ UNCHANGED data_counter
  BY DEF IInv, Channels, GatewaySetupAck
<1>13. rm \in Packet /\ rm.kind = "CHILD_RM" /\ rm.addr = t
  BY <1>1, TypeOfRole DEF Control, Packet, Kinds, Flags, UNICAST_GROUP, Groups, NODE
<1>14. chan' = IF moved THEN Output(Taken(e), Served, hop, rm) ELSE Taken(e)
  <2>1. chan' = IF Superseded(table, ChildOf(m)) THEN Output(Taken(e), Served, hop, rm) ELSE Taken(e)
    BY <1>1 DEF GatewaySetupAck, AfterSetChild
  <2>2. QED
    BY <1>11, <2>1
<1>15. /\ C \subseteq Channel /\ \A c \in C : c[1] = Served /\ c[2] = hop /\ c[3] = "unicast" /\ moved
       /\ moved => \E c \in C : c \in Along(Served, hop)
  <2>1. moved => Along(Served, hop) # {}
    <3>1. moved => <<Served, hop>> \in Link
      BY <1>6
    <3> HIDE DEF moved, hop
    <3>2. <<Served, hop>> \in Link => Along(Served, hop) = {<<Served, hop, "unicast">>}
      BY AlongOne
    <3>3. QED
      BY <3>1, <3>2
  <2>2. QED
    BY <2>1 DEF Along
<1> HIDE DEF rm
<1>16. Moves({e}, C, rm)
  <2>1. CASE moved
    <3>1. hop # NullAddr
      BY <1>6, <2>1, RolesAssumption DEF Device
    <3>2. chan' = Queued(Taken(e), C, rm)
      BY <1>14, <2>1, <3>1, AlongOne DEF Output
    <3>3. \A c \in C : c[1] = e[2]
      BY <1>1, <1>15
    <3> HIDE DEF C
    <3>4. QED
      BY <1>1, <1>12, <1>13, <1>15, <3>2, <3>3, QueuedMoves
  <2>2. CASE ~moved
    BY <1>1, <1>12, <1>14, <2>2, NothingMoves
  <2>3. QED
    BY <2>1, <2>2
<1>17. ASSUME NEW a \in Ends, NEW x \in SubGateways
       PROVE  Staged({e}, C, rm, a, x)
  <2>1. \A y, r, S : Sent(C, rm, y, r, S) => y = Served /\ r = hop /\ moved /\ rm \in S
    BY <1>15 DEF Sent, Gets, Along
  <2>2. \A S : rm \in S /\ moved => Sent(C, rm, Served, hop, S)
    BY <1>15 DEF Sent, Gets
  <2>3. \A y, r, S : Got({e}, y, r, S) => y = s /\ r = Served /\ m \in S
    BY <1>1 DEF Got, Takes, Along
  <2>4. \A S : m \in S => Got({e}, s, Served, S)
    BY <1>2 DEF Got, Takes
  <2>5. /\ rm \notin Announcements(a) /\ rm \notin Acks(a) /\ m \notin Removals(a)
        /\ rm \in Removals(a) <=> a = t
        /\ m \in Announcements(a) <=> a = t
    BY <1>1, <1>13 DEF Removals, Acks, Announcements
  <2>6. a # s /\ x # Served /\ a # Served
    BY <1>2, <1>3, RolesAssumption DEF Ends
  <2> DEFINE was == Routed(a, x)
             is == Routed(a, x)'
             got == Got({e}, x, Served, Announcements(a))
             sent == Sent(C, rm, Served, x, Removals(a))
  <2>7. is <=> IF a = t THEN x = s ELSE was
    BY <1>9
  <2>8. got <=> x = s /\ a = t
    BY <2>3, <2>4, <2>5
  <2>9. sent <=> x = hop /\ a = t /\ moved
    BY <2>1, <2>2, <2>5
  <2>10. a = t => (was <=> moved /\ x = hop) /\ (moved => hop # s)
    BY <1>6, <1>10
  <2>11. (got => is) /\ (is => was \/ got) /\ (sent <=> was /\ ~is)
    <3> HIDE DEF was, is, got, sent, moved, hop, t, s
    <3>1. QED
      BY <2>7, <2>8, <2>9, <2>10
  <2>12. /\ ~Sent(C, rm, a, x, Announcements(a)) /\ ~Sent(C, rm, x, Served, Announcements(a))
         /\ ~Sent(C, rm, Served, x, Acks(a))
         /\ ~Got({e}, a, x, Announcements(a)) /\ ~Got({e}, Served, x, Removals(a))
    BY <2>1, <2>3, <2>5, <2>6
  <2>13. children'[x] = children[x]
    BY <1>8
  <2> HIDE DEF C
  <2>14. QED
    BY <2>11, <2>12, <2>13 DEF Staged
<1>18. \A a \in Device : Balanced({e}, C, rm, a)
  <2>1. Uncounted(rm) /\ Uncounted(m)
    BY <1>1, <1>13 DEF Uncounted
  <2> HIDE DEF C
  <2>2. QED
    BY <1>12, <2>1, UncountedBalanced
<1>19. \A c \in C : rm \in Ways'[c]
  <2>1. ASSUME NEW c \in C
        PROVE  c \in Down /\ rm.addr \in Ends
    BY <1>1, <1>6, <1>13, <1>15 DEF Down
  <2> HIDE DEF C
  <2>2. QED
    BY <1>13, <1>15, <2>1 DEF Ways, Down
<1>20. QED
  BY <1>16, <1>17, <1>18, <1>19 DEF Orderly, Order

\* rm_child forgets that device, and nobody else.
LEMMA RemoveChildForgets ==
  ASSUME NEW S, NEW table \in Seq(S), UniqueAddrs(table), NEW a
  PROVE  \A b : Has(RemoveChild(table, a), b) <=> Has(table, b) /\ b # a
<1> DEFINE T == RemoveChild(table, a)
           l == Len(table)
           n == l - 1
           k == IndexOf(table, a)
<1>0. DOMAIN table = 1..l /\ l \in Nat
  BY LenProperties
<1>1. CASE ~Has(table, a)
  BY <1>1 DEF RemoveChild
<1>2. CASE Has(table, a)
  <2>1. k \in 1..l /\ table[k].addr = a
    BY <1>0, <1>2, IndexOfFound
  <2>2. T = [i \in 1..n |-> IF i = k THEN table[l] ELSE table[i]]
    BY <1>2 DEF RemoveChild
  <2> HIDE DEF k, l
  <2>3. DOMAIN T = 1..n /\ \A i \in 1..n : T[i] = table[IF i = k THEN l ELSE i]
    BY <2>2
  <2> HIDE DEF T
  <2>4. ASSUME NEW b, Has(T, b)
        PROVE  Has(table, b) /\ b # a
    <3>1. PICK i \in 1..n : T[i].addr = b
      BY <2>3, <2>4 DEF Has
    <3> DEFINE j == IF i = k THEN l ELSE i
    <3>2. j \in DOMAIN table /\ j # k
      BY <1>0, <2>1
    <3>3. T[i] = table[j]
      BY <2>3
    <3> HIDE DEF j
    <3>4. table[j].addr = b /\ table[j].addr # a
      BY <1>0, <2>1, <3>1, <3>2, <3>3 DEF UniqueAddrs
    <3>5. QED
      BY <3>2, <3>4 DEF Has
  <2>5. ASSUME NEW b, Has(table, b), b # a
        PROVE  Has(T, b)
    <3>1. PICK j \in DOMAIN table : table[j].addr = b
      BY <2>5 DEF Has
    <3>2. j # k
      BY <2>1, <2>5, <3>1
    <3>3. CASE j \in 1..n
      BY <2>3, <3>1, <3>2, <3>3 DEF Has
    <3>4. CASE j = l
      <4>1. k \in 1..n
        BY <1>0, <2>1, <3>2, <3>4
      <4>2. QED
        BY <2>3, <3>1, <3>4, <4>1 DEF Has
    <3>5. QED
      BY <1>0, <3>3, <3>4
  <2>6. QED
    BY <2>4, <2>5 DEF T
<1>3. QED
  BY <1>1, <1>2

\* The entries of a barn are of neighbours.
LEMMA BarnHop ==
  ASSUME IInv, HomeInv, NEW b \in SubGateways, NEW a, Has(children[b], a)
  PROVE  NextHop(children[b], a) = a /\ Hops(children[b], a) = {a} /\ <<a, b>> \in Link /\ a \in Ends
<1> DEFINE table == children[b]
<1>1. table \in Seq(Child) /\ UniqueAddrs(table)
  BY DEF IInv, TableInv, NoDuplicateChild, Device
<1>2. \A i \in DOMAIN table : table[i].from = table[i].addr /\ <<table[i].from, b>> \in Link
                              /\ table[i].addr \in Ends
  BY DEF HomeInv, FlatTables, IInv, TableInv, NextHopHeard, Device
<1> HIDE DEF table
<1>3. Has(table, a) => IndexOf(table, a) \in DOMAIN table /\ table[IndexOf(table, a)].addr = a
  BY <1>1, IndexOfFound
<1>4. Has(table, a) => NextHop(table, a) = a /\ <<a, b>> \in Link /\ a \in Ends
  BY <1>2, <1>3 DEF NextHop
<1>5. QED
  BY <1>4 DEF Hops, table

\* A barn forgets a device it was told to.
LEMMA ForgetOrdered ==
  ASSUME Flat, IInv, HomeInv, ReturnInv, NEW e \in Channel, SubGatewayChildRm(e)
  PROVE  Order
<1> DEFINE d == e[2]
           m == Head(chan[e])
           t == m.addr
           table == children[d]
<1>1. /\ d \in SubGateways /\ d \in Device /\ chan[e] # <<>> /\ m \in Packet /\ m.kind = "CHILD_RM"
      /\ e \in Down /\ t \in Ends /\ e \in Along(Served, d)
  <2>1. /\ d \in SubGateways /\ d \in Device /\ chan[e] # <<>> /\ m \in Packet /\ m.kind \in {"CHILD_RM"}
        /\ m \in Ways[e]
    BY ReceivesWays DEF SubGatewayChildRm
  <2>2. QED
    BY <2>1 DEF Ways, Down, Along
<1>2. m \in Removals(t)
  BY <1>1 DEF Removals
<1>3. Has(table, t)
  <2>1. Holds(chan[e], Removals(t))
    <3> HIDE DEF t
    <3>1. QED
      BY <1>1, <1>2, HeadHeld
  <2>2. Revoked(t, d)
    BY <1>1, <2>1 DEF Revoked, On
  <2>3. QED
    BY <1>1, <2>2 DEF ReturnInv, Stage
<1>4. Hops(table, t) = {t}
  <2> HIDE DEF t
  <2>1. QED
    BY <1>1, <1>3, BarnHop
<1>5. chan' = Taken(e) /\ children' = [children EXCEPT ![d] = RemoveChild(@, t)] /\ UNCHANGED data_counter
  BY <1>4 DEF SubGatewayChildRm, ForgetChild
<1>6. /\ table \in Seq(Child) /\ UniqueAddrs(table)
      /\ \A x \in Device : children'[x] = IF x = d THEN RemoveChild(table, t) ELSE children[x]
  BY <1>1, <1>5 DEF IInv, TableInv, NoDuplicateChild
<1>7. \A a : Has(children'[d], a) <=> Has(table, a) /\ a # t
  <2> HIDE DEF t, table
  <2>1. \A a : Has(RemoveChild(table, t), a) <=> Has(table, a) /\ a # t
    BY <1>6, RemoveChildForgets
  <2>2. QED
    BY <1>1, <1>6, <2>1
<1>8. Moves({e}, {}, NullAddr)
  <2>1. chan \in [Channel -> Seq(Packet)]
    BY DEF IInv, Channels
  <2>2. QED
    BY <1>1, <1>5, <2>1, NothingMoves
<1>9. ASSUME NEW a \in Ends, NEW x \in SubGateways
      PROVE  Staged({e}, {}, NullAddr, a, x)
  <2>1. \A y, r, S : ~Sent({}, NullAddr, y, r, S)
    BY DEF Sent, Gets
  <2>2. \A y, r, S : Got({e}, y, r, S) => y = Served /\ r = d /\ m \in S
    BY <1>1 DEF Got, Takes, Along
  <2>3. \A S : m \in S => Got({e}, Served, d, S)
    BY <1>1 DEF Got, Takes
  <2>4. m \notin Announcements(a) /\ (m \in Removals(a) <=> a = t)
    BY <1>1 DEF Announcements, Removals
  <2>5. Got({e}, Served, x, Removals(a)) <=> x = d /\ a = t
    BY <2>2, <2>3, <2>4
  <2>6. ~Got({e}, a, x, Announcements(a)) /\ ~Got({e}, x, Served, Announcements(a))
    BY <2>2, <2>4
  <2>7. Has(children'[x], a) <=> Has(children[x], a) /\ ~(x = d /\ a = t)
    <3>1. x # d => children'[x] = children[x]
      BY <1>6 DEF Device
    <3>2. QED
      BY <1>7, <3>1
  <2>8. Routed(a, x)' <=> Routed(a, x)
    <3>1. children'[Served] = children[Served]
      BY <1>1, <1>6, FarmAssumption, RolesAssumption DEF Device
    <3>2. QED
      BY <3>1 DEF Routed
  <2>9. QED
    BY <2>1, <2>5, <2>6, <2>7, <2>8 DEF Staged
<1>10. \A a \in Device : Balanced({e}, {}, NullAddr, a)
  <2>1. Uncounted(m)
    BY <1>1 DEF Uncounted
  <2>2. QED
    BY <1>5, <2>1, UncountedBalanced
<1>11. QED
  BY <1>8, <1>9, <1>10 DEF Orderly, Order

\* A report starts on its way, counted, when none is; a device that does not count
\* for long enough would give its parent up.
LEMMA ReportOrdered ==
  ASSUME Flat, Uncrowded, IInv, RoutedInv, ReturnInv, Settled, Settled', Symmetric, NEW d \in Attached,
         UNCHANGED <<parent, children>>, NEW took,
         \/ took = {} /\ SendAcked(d, chan)
         \/ \E e \in Channel : /\ took = {e} /\ chan[e] # <<>> /\ e[2] = d /\ Head(chan[e]).kind = "DATA_DOWN"
                               /\ SendAcked(d, Taken(e))
  PROVE  Order
<1> DEFINE up == parent[d].addr
           p == Data("DATA_UP", d, UNICAST_GROUP, "NOT_MOBILE")
           C == Along(d, up)
<1>1. /\ d \in Device /\ <<d, up>> \in Link /\ up \in SubGateways \cup {Served}
      /\ d \in SubGateways \cup Ends
  BY ParentLinked
<1>2. Served \in Gateways /\ d # Served /\ up # NullAddr
  BY <1>1, FarmAssumption, RolesAssumption DEF Ends, Device
<1>3. /\ chan \in [Channel -> Seq(Packet)] /\ data_counter \in [Device -> 0..(CounterSize - 1)]
      /\ setup \in [Device -> {0, 1}]
  BY DEF IInv, Channels, CounterInv, AttachInv
<1>4. /\ p \in Packet /\ p.kind = "DATA_UP" /\ p.src = d
  BY <1>1 DEF Data, Packet, Kinds, Flags, UNICAST_GROUP, Groups, NODE
<1> HIDE DEF p
<1>5. \/ took = {} /\ chan' = Output(chan, d, up, p)
      \/ \E e \in Channel : /\ took = {e} /\ chan[e] # <<>> /\ e[2] = d /\ Head(chan[e]).kind = "DATA_DOWN"
                            /\ chan' = Output(Taken(e), d, up, p)
  BY DEF SendAcked, p
<1>6. data_counter[d] = 0 /\ data_counter' = [data_counter EXCEPT ![d] = 1]
  <2> DEFINE sent == (data_counter[d] + 1) % CounterSize
             lost == sent >= UNACK_TRESH
  <2>1. /\ data_counter' = [data_counter EXCEPT ![d] = IF lost THEN 0 ELSE sent]
        /\ setup' = [setup EXCEPT ![d] = IF lost THEN 0 ELSE @]
    BY DEF SendAcked
  <2>2. setup'[d] = 1
    BY DEF Settled, Attached
  <2>3. ~lost
    <3> HIDE DEF lost
    <3>1. QED
      BY <1>1, <1>3, <2>1, <2>2
  <2>4. data_counter[d] \in {0, 1}
    BY <1>1 DEF ReturnInv, Counts
  <2>5. data_counter[d] = 0
    BY <2>3, <2>4 DEF CounterSize, UNACK_TRESH
  <2>6. sent = 1
    BY <2>5 DEF CounterSize
  <2>7. QED
    BY <2>1, <2>3, <2>5, <2>6
<1>7. C = {<<d, up, "unicast">>} /\ C \subseteq Channel /\ \A c \in C : c[1] = d /\ c[2] = up
  BY <1>1, AlongOne DEF Along
<1>8. Moves(took, C, p)
  <2>1. \A ch : Output(ch, d, up, p) = Queued(ch, C, p)
    BY <1>2, AlongOne DEF Output
  <2> HIDE DEF C
  <2>2. CASE took = {} /\ chan' = Output(chan, d, up, p)
    BY <1>3, <1>4, <1>7, <2>1, <2>2, QueuedMoves
  <2>3. CASE \E e \in Channel : /\ took = {e} /\ chan[e] # <<>> /\ e[2] = d
                                /\ chan' = Output(Taken(e), d, up, p)
    <3>1. PICK e \in Channel : /\ took = {e} /\ chan[e] # <<>> /\ e[2] = d
                               /\ chan' = Output(Taken(e), d, up, p)
      BY <2>3
    <3>2. chan' = Queued(Taken(e), C, p) /\ \A c \in C : c[1] = e[2]
      BY <1>7, <2>1, <3>1
    <3>3. Moves({e}, C, p)
      BY <1>3, <1>4, <1>7, <3>1, <3>2, QueuedMoves
    <3>4. QED
      BY <3>1, <3>3
  <2>4. QED
    BY <1>5, <2>2, <2>3
<1>9. \A c \in took : Head(chan[c]).kind = "DATA_DOWN"
  BY <1>5
<1>10. \A a \in Ends, x \in SubGateways : Staged(took, C, p, a, x)
  <2>1. TablesStay
    BY TablesUnchanged
  <2>2. Discreet(p) /\ \A c \in took : Discreet(Head(chan[c]))
    BY <1>4, <1>9 DEF Discreet
  <2>3. \A a, x : ~Sent(C, p, Served, x, Acks(a))
    BY <1>4 DEF Sent, Gets, Acks
  <2> HIDE DEF C
  <2>4. QED
    BY <2>1, <2>2, <2>3, DiscreetStaged
<1>11. ASSUME NEW a \in Device
       PROVE  Balanced(took, C, p, a)
  <2>1. \A c : ~Takes(took, c, Counted(a))
    BY <1>9 DEF Takes, Counted, Reports, Acks
  <2>2. \A c : Gets(C, p, c, Counted(a)) <=> c \in C /\ a = d
    BY <1>4 DEF Gets, Counted, Reports, Acks
  <2>3. GetsCounted(C, p, a) <=> a = d
    BY <1>7, <2>2 DEF GetsCounted
  <2>4. a = d => data_counter[a] = 0 /\ data_counter'[a] = 1
    BY <1>1, <1>3, <1>6
  <2>5. a # d => data_counter'[a] = data_counter[a]
    BY <1>1, <1>3, <1>6
  <2>6. \A c, e \in C : c = e
    BY <1>7
  <2> HIDE DEF C
  <2>7. QED
    BY <2>1, <2>2, <2>3, <2>4, <2>5, <2>6 DEF Balanced, TakesCounted
<1>12. \A c \in C : p \in Ways'[c]
  <2>1. ASSUME NEW c \in C, c \in Low
        PROVE  c[2] \in Attached'
    <3>1. up \in SubGateways /\ up \in Gateways \cup Attached
      BY <1>7, <2>1 DEF Low, RoutedInv, RootedInv
    <3>2. Attached' = Attached
      BY DEF Attached
    <3>3. QED
      BY <1>7, <2>1, <3>1, <3>2, RolesAssumption
  <2> HIDE DEF C
  <2>2. QED
    BY <1>2, <1>4, <1>7, <2>1 DEF Ways, Low
<1>13. QED
  BY <1>8, <1>10, <1>11, <1>12 DEF Orderly, Order

\* The loops and the valves that send one.
LEMMA ReportsOrdered ==
  ASSUME Flat, Uncrowded, IInv, RoutedInv, HomeInv, ReturnInv, Settled, Settled', Symmetric,
         \/ \E d \in Device : SendReport(d)
         \/ \E e \in Channel : NodeData(e)
  PROVE  Order
<1>1. ASSUME NEW d \in Device, SendReport(d)
      PROVE  Order
  <2>1. d \in Attached
    <3>1. setup[d] = 1
      BY <1>1 DEF SendReport, NotSetup, IInv, AttachInv
    <3>2. <<parent[d].addr, d>> \in Link
      BY <3>1 DEF IInv, AttachInv, ParentRole
    <3>3. parent[d].addr \in Device
      <4> DEFINE l == <<parent[d].addr, d>>
      <4>1. l[1] = parent[d].addr
        OBVIOUS
      <4> HIDE DEF l
      <4>2. l \in Link => l[1] \in Device
        BY RadioAssumption
      <4>3. QED
        BY <3>2, <4>1, <4>2 DEF l
    <3>4. QED
      BY <3>3, RolesAssumption DEF Attached
  <2>2. SendAcked(d, chan) /\ UNCHANGED <<parent, children>>
    BY <1>1 DEF SendReport
  <2>3. QED
    BY <2>1, <2>2, ReportOrdered
<1>2. ASSUME NEW e \in Channel, NodeData(e)
      PROVE  Order
  <2>1. /\ Head(chan[e]).kind = "DATA_DOWN" /\ chan[e] # <<>> /\ UNCHANGED <<parent, children>>
        /\ \/ chan' = Taken(e) /\ UNCHANGED data_counter
           \/ e[2] \in Attached /\ SendAcked(e[2], Taken(e))
    BY <1>2, NodesPassNothing
  <2>2. CASE chan' = Taken(e) /\ UNCHANGED data_counter
    <3>1. Idle(Head(chan[e]))
      BY <2>1 DEF Idle, Discreet, Uncounted
    <3>2. QED
      BY <2>1, <2>2, <3>1, TablesUnchanged, IdleAnswer
  <2>3. CASE e[2] \in Attached /\ SendAcked(e[2], Taken(e))
    BY <2>1, <2>3, ReportOrdered
  <2>4. QED
    BY <2>1, <2>2, <2>3
<1>3. QED
  BY <1>1, <1>2

\* What is counted for t alone; it is passed on; its acknowledgement arrives.
CountedFor(m, t) == \A a : m \in Counted(a) <=> a = t

LEMMA CountedPassed ==
  ASSUME NEW e \in Channel, NEW C, \E f \in Channel : C = {f}, NEW p, NEW t, UNCHANGED data_counter,
         CountedFor(Head(chan[e]), t), CountedFor(p, t)
  PROVE  \A a \in Device : Balanced({e}, C, p, a)
<1> SUFFICES ASSUME NEW a \in Device
             PROVE  Balanced({e}, C, p, a)
  OBVIOUS
<1>1. PICK f \in Channel : C = {f}
  OBVIOUS
<1>2. \A c : Takes({e}, c, Counted(a)) <=> c = e /\ a = t
  BY DEF Takes, CountedFor
<1>3. \A c : Gets(C, p, c, Counted(a)) <=> c = f /\ a = t
  BY <1>1 DEF Gets, CountedFor
<1>4. (TakesCounted({e}, a) <=> a = t) /\ (GetsCounted(C, p, a) <=> a = t)
  BY <1>2, <1>3 DEF TakesCounted, GetsCounted
<1>5. data_counter'[a] = data_counter[a]
  OBVIOUS
<1>6. \A c, x \in Channel : Gets(C, p, c, Counted(a)) /\ Gets(C, p, x, Counted(a)) => c = x
  BY <1>3
<1>7. QED
  BY <1>4, <1>5, <1>6 DEF Balanced

LEMMA CountedArrived ==
  ASSUME IInv, NEW e \in Channel, NEW p, NEW t, CountedFor(Head(chan[e]), t),
         data_counter' = [data_counter EXCEPT ![t] = (@ + CounterSize - 1) % CounterSize]
  PROVE  \A a \in Device : Balanced({e}, {}, p, a)
<1> SUFFICES ASSUME NEW a \in Device
             PROVE  Balanced({e}, {}, p, a)
  OBVIOUS
<1>1. \A c : Takes({e}, c, Counted(a)) <=> c = e /\ a = t
  BY DEF Takes, CountedFor
<1>2. \A c : ~Gets({}, p, c, Counted(a))
  BY DEF Gets
<1>3. (TakesCounted({e}, a) <=> a = t) /\ ~GetsCounted({}, p, a)
  BY <1>1, <1>2 DEF TakesCounted, GetsCounted
<1>4. data_counter \in [Device -> 0..(CounterSize - 1)]
  BY DEF IInv, CounterInv
<1>5. data_counter'[a] = IF a = t THEN (data_counter[a] + CounterSize - 1) % CounterSize ELSE data_counter[a]
  BY <1>4
<1>6. QED
  BY <1>2, <1>3, <1>5 DEF Balanced

\* A barn passes a report on to the gateway.
LEMMA ForwardOrdered ==
  ASSUME Flat, Uncrowded, IInv, HomeInv, ReturnInv, Settled, Symmetric, NEW e \in Channel,
         SubGatewayData(e), Head(chan[e]).kind = "DATA_UP"
  PROVE  Order
<1> DEFINE d == e[2]
           m == Head(chan[e])
           t == m.src
           C == Along(d, Served)
<1>1. /\ d \in SubGateways /\ chan[e] # <<>> /\ m \in Packet /\ m \in Ways[e] /\ m \in Local[e]
      /\ m.flag = "NOT_MOBILE"
  BY ReceivesWays DEF SubGatewayData
<1>2. e \in Low
  BY <1>1, RolesAssumption DEF Local, Up
<1>3. t # Served /\ d \in Attached
  BY <1>1, <1>2 DEF Ways
<1>4. setup[d] = 1 /\ <<d, Served>> \in Link /\ parent[d].addr = Served /\ Served \in Gateways
      /\ Served # NullAddr /\ Served \notin SubGateways
  <2>1. Served \in Gateways /\ Served # NullAddr /\ Served \notin SubGateways
    BY FarmAssumption, RolesAssumption DEF Device
  <2>2. QED
    BY <1>1, <1>3, <2>1, ParentLinked, RolesAssumption DEF Ends
<1>5. chan' = Output(Taken(e), d, Served, m) /\ UNCHANGED <<children, data_counter>>
  <2>1. TurnedRound(m) = m
    BY <1>1 DEF TurnedRound
  <2>2. QED
    BY <1>4, <2>1 DEF SubGatewayData, NotSetup, Forwarded
<1>6. C = {<<d, Served, "unicast">>} /\ C \subseteq Channel /\ \A c \in C : c[1] = d /\ c[2] = Served
  BY <1>4, AlongOne DEF Along
<1> HIDE DEF m
<1>7. Moves({e}, C, m)
  <2>1. chan' = Queued(Taken(e), C, m)
    BY <1>4, <1>5, AlongOne DEF Output
  <2>2. chan \in [Channel -> Seq(Packet)]
    BY DEF IInv, Channels
  <2> HIDE DEF C
  <2>3. QED
    BY <1>1, <1>6, <2>1, <2>2, QueuedMoves
<1>8. \A a \in Ends, x \in SubGateways : Staged({e}, C, m, a, x)
  <2>1. TablesStay
    BY <1>5, TablesUnchanged
  <2>2. Discreet(m) /\ m = Head(chan[e])
    BY DEF Discreet, m
  <2>3. \A a, x : ~Sent(C, m, Served, x, Acks(a))
    BY <2>2 DEF Sent, Gets, Acks
  <2> HIDE DEF C
  <2>4. QED
    BY <2>1, <2>2, <2>3, DiscreetStaged
<1>9. \A a \in Device : Balanced({e}, C, m, a)
  <2>1. CountedFor(m, t)
    BY <1>1 DEF CountedFor, Counted, Reports, Acks, m
  <2>2. \E f \in Channel : C = {f}
    BY <1>6
  <2> HIDE DEF C, t
  <2>3. QED
    BY <1>5, <2>1, <2>2, CountedPassed DEF m
<1>10. \A c \in C : m \in Ways'[c]
  <2>1. m.kind = "DATA_UP"
    BY DEF m
  <2> HIDE DEF C
  <2>2. QED
    BY <1>1, <1>3, <1>4, <1>6, <2>1 DEF Ways, Low
<1>11. QED
  BY <1>7, <1>8, <1>9, <1>10 DEF Orderly, Order

\* The gateway knows the way back to whoever reports, and acknowledges the report.
LEMMA AnswerOrdered ==
  ASSUME Flat, Uncrowded, IInv, KnownInv, HomeInv, ReturnInv, Symmetric, NEW e \in Channel, GatewayData(e)
  PROVE  Order
<1> DEFINE m == Head(chan[e])
           t == m.src
           hop == NextHop(children[Served], t)
           ack == Control("DATA_ACK", Served, GATEWAY, t, UNICAST_GROUP)
           C == Along(Served, hop)
<1>1. /\ e[2] = Served /\ Served \in Gateways /\ Served \in Device /\ chan[e] # <<>>
      /\ m \in Ways[e] /\ m \in Local[e] /\ m.kind \in {"DATA_UP", "DATA_DOWN"} /\ t \in Device
  <2>1. /\ e[2] \in Gateways /\ chan[e] # <<>> /\ t \in Device
        /\ m \in Ways[e] /\ m \in Local[e] /\ m.kind \in {"DATA_UP", "DATA_DOWN"}
    BY ReceivesWays DEF GatewayData
  <2>2. QED
    BY <2>1, FarmAssumption DEF Flat, Device
<1>2. m.kind = "DATA_UP" /\ e \in Up
  BY <1>1, RolesAssumption DEF Local, Low
<1>3. t # Served /\ t \in Ends \cup SubGateways
  BY <1>1, <1>2 DEF Ways, Flat, Device, Ends
<1>4. Listed(t)
  <2> DEFINE q == chan[e]
  <2>1. q \in Seq(Packet) /\ q # <<>> /\ Head(q) \in Reports(t)
    BY <1>1, <1>2 DEF IInv, Channels, Reports, Ways
  <2>2. Listed(t) \/ Preceded(q, Announcements(t), Reports(t))
    BY <1>1, <1>2 DEF HomeInv, Heralds
  <2> HIDE DEF q, t
  <2>3. ~Preceded(q, Announcements(t), Reports(t))
    BY <2>1, RemainingPackets
  <2>4. QED
    BY <2>2, <2>3
<1>5. /\ \A b : Routed(t, b) <=> b = hop
      /\ hop \in SubGateways /\ <<Served, hop>> \in Link /\ (t \in SubGateways => hop = t)
  <2> HIDE DEF t
  <2>1. QED
    BY <1>4, RouteOf
<1>6. chan' = Output(Taken(e), Served, hop, ack) /\ UNCHANGED <<children, data_counter>>
  BY <1>1, <1>4 DEF GatewayData, AcknowledgeVia, Hops, Listed
<1>7. ack \in Packet /\ ack.kind = "DATA_ACK" /\ ack.addr = t /\ ack.flag = "NOT_MOBILE"
  BY <1>1, TypeOfRole DEF Control, Packet, Kinds, Flags, UNICAST_GROUP, Groups, GATEWAY
<1>8. hop # NullAddr /\ Served \notin SubGateways
  BY <1>1, <1>5, RolesAssumption DEF Device
<1>9. C = {<<Served, hop, "unicast">>} /\ C \subseteq Channel
      /\ \A c \in C : c[1] = Served /\ c[2] = hop /\ c[3] = "unicast"
  <2> HIDE DEF hop
  <2>1. QED
    BY <1>5, AlongOne DEF Along
<1> HIDE DEF ack
<1>10. Moves({e}, C, ack)
  <2>1. chan' = Queued(Taken(e), C, ack)
    <3> HIDE DEF hop
    <3>1. QED
      BY <1>6, <1>8, AlongOne DEF Output
  <2>2. chan \in [Channel -> Seq(Packet)]
    BY DEF IInv, Channels
  <2> HIDE DEF C
  <2>3. QED
    BY <1>1, <1>7, <1>9, <2>1, <2>2, QueuedMoves
<1>11. \A a \in Ends, x \in SubGateways : Staged({e}, C, ack, a, x)
  <2>1. TablesStay
    BY <1>6, TablesUnchanged
  <2>2. Discreet(ack) /\ Discreet(m)
    BY <1>2, <1>7 DEF Discreet
  <2>3. \A a, x : Sent(C, ack, Served, x, Acks(a)) => a = t /\ x = hop
    BY <1>7, <1>9 DEF Sent, Gets, Acks, Along
  <2>4. \A a, x : Sent(C, ack, Served, x, Acks(a)) => Routed(a, x)
    BY <1>5, <2>3
  <2> HIDE DEF C
  <2>5. QED
    BY <2>1, <2>2, <2>4, DiscreetStaged
<1>12. \A a \in Device : Balanced({e}, C, ack, a)
  <2>1. CountedFor(m, t) /\ CountedFor(ack, t)
    BY <1>1, <1>2, <1>7 DEF CountedFor, Counted, Reports, Acks, Ways
  <2>2. \E f \in Channel : C = {f}
    BY <1>9
  <2> HIDE DEF C, t
  <2>3. QED
    BY <1>6, <2>1, <2>2, CountedPassed
<1>13. \A c \in C : ack \in Ways'[c]
  <2>1. \A c \in C : c \in Down /\ ack.addr \in Ends \cup {c[2]}
    BY <1>3, <1>5, <1>7, <1>9 DEF Down
  <2> HIDE DEF C
  <2>2. QED
    BY <1>7, <1>9, <2>1 DEF Ways, Down
<1>14. QED
  BY <1>10, <1>11, <1>12, <1>13 DEF Orderly, Order

\* An acknowledgement reaches the device it is for, or the barn of that device.
LEMMA AckOrdered ==
  ASSUME Flat, Uncrowded, IInv, HomeInv, ReturnInv, Symmetric, NEW e \in Channel,
         SubGatewayDataAck(e) \/ NodeDataAck(e) \/ MobileDataAck(e)
  PROVE  Order
<1> DEFINE d == e[2]
           m == Head(chan[e])
           t == m.addr
           ack == Control("DATA_ACK", d, NODE, t, UNICAST_GROUP)
           C == Along(d, t)
<1>1. /\ d \in Device /\ d \in SubGateways \cup Ends /\ chan[e] # <<>> /\ m \in Packet /\ m \in Ways[e]
      /\ m.kind \in {"DATA_ACK"}
      /\ d \in SubGateways <=> SubGatewayDataAck(e)
  BY ReceivesWays, RolesAssumption DEF SubGatewayDataAck, NodeDataAck, MobileDataAck, Receives, Ends
<1>2. PassAck(d, Taken(e), m) /\ UNCHANGED children /\ m.kind = "DATA_ACK"
  BY <1>1 DEF SubGatewayDataAck, NodeDataAck, MobileDataAck
<1>3. TablesStay /\ Discreet(m) /\ CountedFor(m, t)
  <2>1. TablesStay
    BY <1>2, TablesUnchanged
  <2>2. QED
    BY <1>1, <1>2, <2>1 DEF Discreet, CountedFor, Counted, Reports, Acks
<1>4. chan \in [Channel -> Seq(Packet)]
  BY DEF IInv, Channels
<1>5. CASE t = d
  <2>1. /\ chan' = Taken(e)
        /\ data_counter' = [data_counter EXCEPT ![d] = (@ + CounterSize - 1) % CounterSize]
    BY <1>2, <1>5 DEF PassAck
  <2>2. Moves({e}, {}, NullAddr)
    BY <1>1, <1>4, <2>1, NothingMoves
  <2>3. \A a \in Device : Balanced({e}, {}, NullAddr, a)
    <3>1. CountedFor(m, d)
      BY <1>3, <1>5
    <3>2. QED
      BY <2>1, <3>1, CountedArrived
  <2>4. \A a \in Ends, x \in SubGateways : Staged({e}, {}, NullAddr, a, x)
    <3>1. \A a, x : ~Sent({}, NullAddr, Served, x, Acks(a))
      BY DEF Sent, Gets
    <3>2. QED
      BY <1>3, <3>1, DiscreetStaged
  <2>5. QED
    BY <2>2, <2>3, <2>4 DEF Orderly, Order
<1>6. CASE t # d
  <2>1. e \in Down /\ t \in Ends /\ d \in SubGateways /\ e \in Along(Served, d)
    BY <1>1, <1>2, <1>6, RolesAssumption DEF Ways, Down, Out, Ends, Along
  <2>2. Has(children[d], t)
    <3>1. m \in Acks(t)
      BY <1>1, <1>2 DEF Acks
    <3>2. Holds(chan[e], Acks(t))
      <4> HIDE DEF t
      <4>1. QED
        BY <1>1, <3>1, HeadHeld
    <3>3. On(Served, d, Acks(t))
      BY <2>1, <3>2 DEF On
    <3>4. QED
      BY <2>1, <3>3 DEF ReturnInv, Kept
  <2>3. Hops(children[d], t) = {t} /\ <<t, d>> \in Link
    <3> HIDE DEF t
    <3>1. QED
      BY <2>1, <2>2, BarnHop
  <2>4. <<d, t>> \in Link
    <3> DEFINE l == <<t, d>>
    <3>1. l[1] = t /\ l[2] = d
      OBVIOUS
    <3> HIDE DEF l, t
    <3>2. l \in Link => <<d, t>> \in Link
      BY <3>1 DEF Symmetric
    <3>3. QED
      BY <2>3, <3>2 DEF l
  <2>5. chan' = Output(Taken(e), d, t, ack) /\ UNCHANGED data_counter
    BY <1>2, <1>6, <2>3 DEF PassAck
  <2>6. /\ t \in Device /\ t # NullAddr /\ d # Served
    BY <2>1, FarmAssumption, RolesAssumption DEF Ends, Device
  <2>7. ack \in Packet /\ ack.kind = "DATA_ACK" /\ ack.addr = t
    BY <1>1, <2>6 DEF Control, Packet, Kinds, Flags, UNICAST_GROUP, Groups, NODE
  <2>8. C = {<<d, t, "unicast">>} /\ C \subseteq Channel
        /\ \A c \in C : c[1] = d /\ c[2] = t /\ c[3] = "unicast"
    <3> HIDE DEF t
    <3>1. QED
      BY <2>4, AlongOne DEF Along
  <2> HIDE DEF ack
  <2>9. Moves({e}, C, ack)
    <3>1. chan' = Queued(Taken(e), C, ack)
      <4> HIDE DEF t
      <4>1. QED
        BY <2>5, <2>6, AlongOne DEF Output
    <3> HIDE DEF C
    <3>2. QED
      BY <1>1, <1>4, <2>7, <2>8, <3>1, QueuedMoves
  <2>10. \A a \in Ends, x \in SubGateways : Staged({e}, C, ack, a, x)
    <3>1. Discreet(ack)
      BY <2>7 DEF Discreet
    <3>2. \A a, x : ~Sent(C, ack, Served, x, Acks(a))
      BY <2>6, <2>8 DEF Sent, Along, Gets
    <3> HIDE DEF C
    <3>3. QED
      BY <1>3, <3>1, <3>2, DiscreetStaged
  <2>11. \A a \in Device : Balanced({e}, C, ack, a)
    <3>1. CountedFor(ack, t)
      BY <2>7 DEF CountedFor, Counted, Reports, Acks
    <3>2. \E f \in Channel : C = {f}
      BY <2>8
    <3> HIDE DEF C, t
    <3>3. QED
      BY <1>3, <2>5, <3>1, <3>2, CountedPassed
  <2>12. \A c \in C : ack \in Ways'[c]
    <3>1. \A c \in C : c \in Out /\ ack.addr = c[2]
      BY <2>1, <2>7, <2>8 DEF Out
    <3> HIDE DEF C
    <3>2. QED
      BY <2>7, <2>8, <3>1 DEF Ways, Out
  <2>13. QED
    BY <2>9, <2>10, <2>11, <2>12 DEF Orderly, Order
<1>7. QED
  BY <1>5, <1>6

\* A node or mobile that has a parent only takes a better one.
LEMMA ParentsImprove ==
  ASSUME IInv, UndisturbedNext, NEW d \in Ends, parent'[d] # parent[d]
  PROVE  NotSetup(d) \/ BetterForNode(parent[d], parent'[d].type, parent'[d].rssi)
<1>1. parent \in [Device -> Parent] /\ d \in Device /\ d \notin SubGateways
  BY RolesAssumption DEF IInv, AttachInv, Ends, Device
<1>2. ASSUME NEW e \in Channel, NodeResponse(e) \/ MobileResponse(e) \/ SubGatewayOffer(e)
      PROVE  NotSetup(d) \/ BetterForNode(parent[d], parent'[d].type, parent'[d].rssi)
  <2> DEFINE r == e[2]
             m == Head(chan[e])
  <2>1. \/ SubGatewayOffer(e) /\ r \in SubGateways /\ CheckParentSubGateway(r, Taken(e), m)
        \/ CheckParentNode(r, Taken(e), m)
    BY <1>2 DEF NodeResponse, MobileResponse, SubGatewayOffer, Receives
  <2>2. Adopt(r, Taken(e), m.src, m.ntype) /\ r = d
    <3>1. Adopt(r, Taken(e), m.src, m.ntype) \/ parent' = parent
      BY <2>1 DEF CheckParentNode, CheckParentSubGateway
    <3>2. QED
      BY <1>1, <3>1 DEF Adopt
  <2>3. parent'[d] = [addr |-> m.src, type |-> m.ntype, rssi |-> RSSI[<<m.src, d>>]]
    BY <1>1, <2>2 DEF Adopt
  <2>4. NotSetup(d) \/ BetterForNode(parent[d], m.ntype, RSSI[<<m.src, d>>])
    <3>1. CheckParentNode(d, Taken(e), m)
      BY <1>1, <2>1, <2>2
    <3>2. parent' # parent
      OBVIOUS
    <3>3. QED
      BY <3>1, <3>2 DEF CheckParentNode
  <2>5. parent'[d].type = m.ntype /\ parent'[d].rssi = RSSI[<<m.src, d>>]
    BY <2>3
  <2>6. QED
    BY <2>4, <2>5
<1>3. ASSUME NEW e \in Channel,
             \/ NodeSetupAck(e) \/ SubGatewaySetupAck(e) \/ MobileSetupAck(e)
             \/ GatewaySetupAck(e) \/ NodeChildRm(e) \/ SubGatewayChildRm(e)
      PROVE  UNCHANGED parent
  BY <1>3 DEF NodeSetupAck, SubGatewaySetupAck, MobileSetupAck, GatewaySetupAck, NodeChildRm,
              SubGatewayChildRm
<1>4. QED
  BY <1>2, <1>3, Handlers, RelaysUnchanged DEF UndisturbedNext

\* So its barns get better and better.
LEMMA BestKept ==
  ASSUME Flat, IInv, IInv', Best, Settled, HomesGrow, UndisturbedNext, [FarmNext]_farm
  PROVE  Best'
<1>1. CASE UNCHANGED <<setup, parent, homes>>
  BY <1>1 DEF Best, Attached
<1>2. CASE homes' = [d \in Device |-> homes[d] \cup HomeOf(d)']
  <2>1. Homely' /\ BarnParents'
    BY HomeOfWillBe
  <2>2. ASSUME NEW d \in Device
        PROVE  homes'[d] = homes[d] \cup (IF d \in SubGateways THEN {d}
                                          ELSE IF d \in Ends /\ setup'[d] = 1 THEN {parent'[d].addr} ELSE {})
    BY <1>2, <2>1 DEF Homely
  <2>3. homes'[Served] = {}
    <3>1. Served \in Device /\ Served \notin SubGateways /\ Served \notin Ends
      BY FarmAssumption, RolesAssumption DEF Device, Ends
    <3>2. QED
      BY <2>2, <3>1 DEF Best
  <2>4. ASSUME NEW d \in Ends, NEW b \in homes'[d]
        PROVE  /\ d \in Attached' /\ parent'[d].type = SUB_GATEWAY
               /\ <<b, d>> \in Link /\ RSSI[<<b, d>>] <= parent'[d].rssi
    <3>1. d \in Device /\ d \notin SubGateways
      BY RolesAssumption DEF Ends, Device
    <3>2. parent'[d] \in Parent /\ parent'[d].rssi \in Int
      <4>1. parent'[d] \in Parent
        BY <3>1 DEF IInv, AttachInv
      <4>2. parent'[d].rssi \in -128..127
        BY <4>1 DEF Parent
      <4>3. QED
        BY <4>1, <4>2
    <3>3. setup'[d] = 1 =>
            LET p == parent'[d].addr
            IN p \in SubGateways /\ <<p, d>> \in Link /\ parent'[d].type = TypeOf(p)
               /\ parent'[d].rssi = RSSI[<<p, d>>]
      BY <2>1, <3>1 DEF IInv, AttachInv, ParentRole, BarnParents
    <3>4. setup'[d] = 1 => d \in Attached' /\ parent'[d].type = SUB_GATEWAY
      <4>1. \A p \in SubGateways : TypeOf(p) = SUB_GATEWAY /\ p # NullAddr
        BY TypeOfRole, RolesAssumption DEF Device
      <4>2. QED
        BY <3>1, <3>3, <4>1 DEF Attached
    <3>5. b \in homes[d] \/ (setup'[d] = 1 /\ b = parent'[d].addr)
      BY <2>2, <3>1
    <3>6. CASE setup'[d] = 1 /\ b = parent'[d].addr
      <4>1. \A x \in Int : x <= x
        OBVIOUS
      <4>2. QED
        BY <3>2, <3>3, <3>4, <3>6, <4>1
    <3>7. CASE b \in homes[d]
      <4>1. /\ d \in Attached /\ parent[d].type = SUB_GATEWAY
            /\ <<b, d>> \in Link /\ RSSI[<<b, d>>] <= parent[d].rssi
        BY <3>7 DEF Best
      <4>2. d \in Attached'
        BY <4>1 DEF HomesGrow
      <4>3. CASE parent'[d] = parent[d]
        BY <4>1, <4>2, <4>3
      <4>4. CASE parent'[d] # parent[d]
        <5>1. setup'[d] = 1
          BY <3>1, <4>4, ParentsAdopted
        <5>2. parent'[d].type = SUB_GATEWAY
          BY <3>4, <5>1
        <5>3. ~NotSetup(d)
          BY <4>1 DEF Settled, NotSetup
        <5>4. BetterForNode(parent[d], parent'[d].type, parent'[d].rssi)
          BY <4>4, <5>3, ParentsImprove
        <5>5. parent[d].rssi < parent'[d].rssi
          BY <4>1, <5>2, <5>4 DEF BetterForNode, SUB_GATEWAY
        <5>6. parent[d].rssi \in Int /\ RSSI[<<b, d>>] \in Int
          <6>1. parent[d] \in Parent
            BY <3>1 DEF IInv, AttachInv
          <6>2. parent[d].rssi \in -128..127 /\ RSSI[<<b, d>>] \in -128..127
            BY <4>1, <6>1, RadioAssumption DEF Parent
          <6>3. QED
            BY <6>2
        <5>7. RSSI[<<b, d>>] <= parent'[d].rssi
          BY <3>2, <4>1, <5>5, <5>6
        <5>8. QED
          BY <4>1, <4>2, <5>2, <5>7
      <4>5. QED
        BY <4>3, <4>4
    <3>8. QED
      BY <3>5, <3>6, <3>7
  <2>5. QED
    BY <2>3, <2>4 DEF Best, Ends
<1>3. QED
  BY <1>1, <1>2, HomesFollow

\* Every handler's part.
LEMMA ReceiveOrdered ==
  ASSUME Flat, Uncrowded, FarmInv, IInv', ReturnInv, Settled, Settled', Symmetric,
         NEW e \in Channel, Receive(e)
  PROVE  Order
<1>1. IInv /\ KnownInv /\ RoutedInv /\ HomeInv /\ BarnParents'
  BY HomeOfWillBe DEF FarmInv
<1>2. CASE NodeSetup(e) \/ SubGatewaySetup(e) \/ GatewaySetup(e)
  BY <1>1, <1>2, OffersIdle
<1>3. CASE NodeDataAck(e) \/ SubGatewayDataAck(e) \/ MobileDataAck(e)
  BY <1>1, <1>3, AckOrdered
<1>4. CASE NodeData(e)
  BY <1>1, <1>4, ReportsOrdered
<1>5. CASE SubGatewayData(e)
  <2>1. Head(chan[e]).kind \in {"DATA_UP", "DATA_DOWN"}
    BY <1>5 DEF SubGatewayData, Receives
  <2>2. QED
    BY <1>1, <1>5, <2>1, ForwardOrdered, DownIdle
<1>6. CASE GatewayIgnore(e) \/ MobileIgnore(e)
  BY <1>1, <1>6, IgnoredIdle
<1>7. CASE GatewayData(e)
  BY <1>1, <1>7, AnswerOrdered
<1>8. CASE NodeResponse(e) \/ MobileResponse(e) \/ SubGatewayOffer(e)
  BY <1>1, <1>8, OfferOrdered
<1>9. CASE SubGatewaySetupAck(e)
  BY <1>1, <1>9, RegisterOrdered
<1>10. CASE GatewaySetupAck(e)
  BY <1>1, <1>10, ListOrdered
<1>11. CASE SubGatewayChildRm(e)
  BY <1>1, <1>11, ForgetOrdered
<1>12. ~NodeSetupAck(e) /\ ~MobileSetupAck(e) /\ ~NodeChildRm(e)
  BY <1>1, EndsRegisterNobody, EndsForgetNobody
<1>13. QED
  BY <1>2, <1>3, <1>4, <1>5, <1>6, <1>7, <1>8, <1>9, <1>10, <1>11, <1>12 DEF Receive

\* A step of an uncrowded flat farm where nobody gives its parent up.
LEMMA ReturnStep ==
  ASSUME Flat, Uncrowded, FarmInv, OrdersKnown, ReturnInv, Settled, Settled', Symmetric, [FarmNext]_farm
  PROVE  ReturnInv'
<1>1. FarmInv' /\ HomesGrow /\ UndisturbedNext
  BY FarmStep
<1>2. IInv /\ RoutedInv /\ HomeInv /\ IInv'
  BY <1>1 DEF FarmInv
<1>3. Best'
  BY <1>1, <1>2, BestKept DEF ReturnInv
<1>4. ASSUME UNCHANGED <<setup, parent, children, data_counter, barns, chan>>
      PROVE  Order
  BY <1>2, <1>4, TablesUnchanged, IdleSend
<1>5. ASSUME \E d \in Device : SendReport(d)
      PROVE  Order
  BY <1>2, <1>5, ReportsOrdered
<1>6. ASSUME \E d \in Device : SendSetup(d)
      PROVE  Order
  <2>1. UNCHANGED <<children, data_counter>>
    BY <1>6 DEF SendSetup
  <2>2. QED
    BY <1>2, <1>6, <2>1, SendsIdle
<1>7. ASSUME /\ UNCHANGED <<setup, parent, children, data_counter, barns>>
             /\ CommandAll(Served) \/ \E i : CommandOne(Served, i, LIGHT_BULB_GROUP)
      PROVE  Order
  BY <1>2, <1>7, SendsIdle
<1>8. ASSUME \E e \in Channel : Receive(e)
      PROVE  Order
  BY <1>2, <1>8, ReceiveOrdered
<1>9. Order
  BY <1>4, <1>5, <1>6, <1>7, <1>8, FarmSteps
<1>10. QED
  BY <1>1, <1>2, <1>3, <1>9, OrderKeeps

\* At the start there is nothing to acknowledge and nobody to be routed to.
LEMMA InitReturn == FarmInit => ReturnInv
<1> SUFFICES ASSUME FarmInit
             PROVE  ReturnInv
  OBVIOUS
<1>1. /\ homes = [d \in Device |-> {}] /\ children = [d \in Device |-> <<>>]
      /\ data_counter = [d \in Device |-> 0]
      /\ chan = [c \in Channel |->
                   IF c[1] \in Gateways /\ c[3] = "broadcast" THEN <<SetupOf(c[1])>> ELSE <<>>]
  BY DEF FarmInit, Init
<1>2. Ends \subseteq Device /\ SubGateways \subseteq Device /\ Served \in Device
  BY FarmAssumption DEF Ends, Device
<1>3. ASSUME NEW c \in Channel
      PROVE  /\ SetupOf(c[1]) \in Packet /\ SetupOf(c[1]).kind = "SETUP"
             /\ chan[c] = <<SetupOf(c[1])>> \/ chan[c] = <<>>
  <2>1. c[1] \in Device
    BY ChannelEnds
  <2>2. QED
    BY <1>1, <2>1, TypeOfRole DEF SetupOf, Control, Packet, Kinds, Flags, UNICAST_GROUP, Groups
<1>4. \A c \in Channel : \A i \in DOMAIN chan[c] : chan[c][i].kind = "SETUP"
  <2> SUFFICES ASSUME NEW c \in Channel, NEW i \in DOMAIN chan[c]
               PROVE  chan[c][i].kind = "SETUP"
    OBVIOUS
  <2> DEFINE p == SetupOf(c[1])
             q == chan[c]
  <2>1. p.kind = "SETUP" /\ (q = <<p>> \/ q = <<>>) /\ i \in DOMAIN q
    BY <1>3
  <2> HIDE DEF p, q
  <2>2. q[i] = p
    BY <2>1
  <2>3. QED
    BY <2>1, <2>2 DEF q
<1>5. \A c \in Channel : \A a : ~Holds(chan[c], Announcements(a)) /\ ~Holds(chan[c], Removals(a))
                                /\ ~Holds(chan[c], Acks(a)) /\ ~Holds(chan[c], Counted(a))
  BY <1>4 DEF Holds, Announcements, Removals, Acks, Counted, Reports
<1>6. Carries(chan, Ways)
  <2>1. ASSUME NEW c \in Channel
        PROVE  chan[c] \in Seq(Ways[c])
    <3> DEFINE S == Ways[c]
               p == SetupOf(c[1])
    <3>1. p \in S /\ (chan[c] = <<p>> \/ chan[c] = <<>>)
      BY <1>3 DEF Ways
    <3> HIDE DEF S, p
    <3>2. <<>> \in Seq(S) /\ (p \in S => <<p>> \in Seq(S))
      OBVIOUS
    <3>3. chan[c] \in Seq(S)
      BY <3>1, <3>2
    <3>4. QED
      BY <3>3 DEF S
  <2>2. QED
    BY <1>1, <2>1 DEF Carries
<1>7. Best
  BY <1>1, <1>2 DEF Best
<1>8. ASSUME NEW a \in Ends, NEW b \in SubGateways
      PROVE  Stage(a, b) /\ Kept(a, b)
  <2>1. \A s, r : /\ ~On(s, r, Announcements(a)) /\ ~On(s, r, Removals(a)) /\ ~On(s, r, Acks(a))
                  /\ OnceOn(s, r, Announcements(a)) /\ OnceOn(s, r, Removals(a))
    BY <1>5 DEF On, OnceOn, Along, Once, Holds
  <2>2. ~Has(children[b], a) /\ ~Routed(a, b)
    <3>1. \A d \in Device : DOMAIN children[d] = {}
      BY <1>1
    <3>2. QED
      BY <1>2, <3>1 DEF Has, Routed, Leads
  <2>3. \A c \in Along(Served, b) : Before(chan[c], Acks(a), Removals(a))
    BY <1>5 DEF Before, Along, Holds
  <2>4. QED
    BY <2>1, <2>2, <2>3 DEF Stage, Kept, Announced, Promoted, Revoked
<1>9. \A a \in Device : Counts(a)
  BY <1>1, <1>5 DEF Counts
<1>10. QED
  BY <1>6, <1>7, <1>8, <1>9 DEF ReturnInv

-------------------------------------------------------------------------------
(* What the invariant says: counters, and routes *)

\* One report or acknowledgement is under way for a device that counts one.
LEMMA CountsReturn ==
  ASSUME HomeInv, ReturnInv
  PROVE  AcksFindTheirWay
<1> DEFINE frames == UNION {{c} \X DOMAIN chan[c] : c \in {c \in Channel : chan[c] # <<>>}}
           F(d) == {f \in frames : Concerns(chan[f[1]][f[2]], d)}
<1>1. ASSUME NEW d \in Device
      PROVE  data_counter[d] = Cardinality(F(d))
  <2>1. ASSUME NEW c \in Channel, NEW i \in DOMAIN chan[c]
        PROVE  Concerns(chan[c][i], d) <=> chan[c][i] \in Counted(d)
    <3> DEFINE q == chan[c]
               P == Local[c]
    <3>1. q \in Seq(P) /\ i \in DOMAIN q
      BY DEF HomeInv, Carries
    <3> HIDE DEF q, P
    <3>2. q[i] \in P
      BY <3>1, ElementOfSeq, LenProperties
    <3>3. chan[c][i] \in Packet /\ chan[c][i].flag = "NOT_MOBILE"
      BY <3>2 DEF q, P, Local
    <3>4. QED
      BY <3>3 DEF Concerns, Counted, Reports, Acks
  <2>2. \A f : f \in F(d) <=> \E c \in Channel : \E i \in DOMAIN chan[c] :
                                f = <<c, i>> /\ chan[c][i] \in Counted(d)
    <3>1. ASSUME NEW f \in F(d)
          PROVE  \E c \in Channel : \E i \in DOMAIN chan[c] : f = <<c, i>> /\ chan[c][i] \in Counted(d)
      <4>1. PICK c \in Channel : f \in {c} \X DOMAIN chan[c]
        OBVIOUS
      <4>2. f = <<c, f[2]>> /\ f[1] = c /\ f[2] \in DOMAIN chan[c]
        BY <4>1
      <4>3. Concerns(chan[c][f[2]], d)
        BY <4>2
      <4>4. QED
        BY <2>1, <4>2, <4>3
    <3>2. ASSUME NEW c \in Channel, NEW i \in DOMAIN chan[c], chan[c][i] \in Counted(d)
          PROVE  <<c, i>> \in F(d)
      <4>1. chan[c] # <<>>
        OBVIOUS
      <4>2. <<c, i>> \in {c} \X DOMAIN chan[c]
        OBVIOUS
      <4>3. <<c, i>> \in frames
        BY <4>1, <4>2
      <4>4. Concerns(chan[c][i], d)
        BY <2>1, <3>2
      <4> HIDE DEF frames
      <4>5. QED
        BY <4>3, <4>4
    <3> HIDE DEF F
    <3>3. QED
      BY <3>1, <3>2
  <2> HIDE DEF F
  <2>3. CASE data_counter[d] = 0 /\ \A c \in Channel : ~Holds(chan[c], Counted(d))
    <3>1. F(d) = {}
      BY <2>2, <2>3 DEF Holds
    <3>2. QED
      BY <2>3, <3>1, FS_EmptySet
  <2>4. ASSUME data_counter[d] = 1, NEW c \in Channel, Holds(chan[c], Counted(d)), Once(chan[c], Counted(d)),
               \A e \in Channel : Holds(chan[e], Counted(d)) => e = c
        PROVE  data_counter[d] = Cardinality(F(d))
    <3>1. PICK i \in DOMAIN chan[c] : chan[c][i] \in Counted(d)
      BY <2>4 DEF Holds
    <3> DEFINE f == <<c, i>>
    <3>2. f \in F(d)
      BY <2>2, <3>1
    <3>3. ASSUME NEW e \in Channel, NEW j \in DOMAIN chan[e], chan[e][j] \in Counted(d)
          PROVE  e = c /\ j = i
      <4>1. e = c
        BY <2>4, <3>3 DEF Holds
      <4>2. QED
        BY <2>4, <3>1, <3>3, <4>1 DEF Once
    <3>4. \A x \in F(d) : x = f
      BY <2>2, <3>3
    <3> HIDE DEF f
    <3>5. F(d) = {f}
      BY <3>2, <3>4
    <3>6. QED
      BY <2>4, <3>5, FS_Singleton
  <2>5. Counts(d)
    BY DEF ReturnInv
  <2>6. QED
    BY <2>3, <2>4, <2>5 DEF Counts
<1>2. QED
  BY <1>1 DEF AcksFindTheirWay

\* When nothing is on its way, the gateway knows everyone attached, through a barn
\* that has it as a neighbour.
LEMMA WayKnown ==
  ASSUME Flat, FarmInv, ReturnInv, Settled, Symmetric, AtRest, NEW d \in Attached
  PROVE  LET hop == NextHop(children[Served], d)
         IN /\ d \in Device /\ d # Served /\ Has(children[Served], d)
            /\ hop = d \/ (Has(children[hop], d) /\ NextHop(children[hop], d) = d)
<1> DEFINE hop == NextHop(children[Served], d)
           b == parent[d].addr
<1>1. IInv /\ KnownInv /\ RoutedInv /\ HomeInv
  BY DEF FarmInv
<1>2. /\ d \in Device /\ <<d, b>> \in Link
      /\ \/ d \in SubGateways /\ d \notin Ends /\ b = Served
         \/ d \in Ends /\ d \notin SubGateways /\ b \in SubGateways
  BY <1>1, ParentLinked
<1>3. Served \in Gateways /\ Served \in Device /\ d # Served
  BY <1>2, FarmAssumption, RolesAssumption DEF Ends, Device
<1>4. \A c \in Channel : \A S : ~Holds(chan[c], S)
  <2>1. \A c \in Channel : DOMAIN chan[c] = {}
    BY DEF AtRest
  <2>2. QED
    BY <2>1 DEF Holds
<1>5. ASSUME NEW s, NEW r, <<s, r>> \in Link
      PROVE  \E c \in Channel : c[1] = s /\ c[2] = r /\ c[3] = "unicast"
  <2>1. Along(s, r) = {<<s, r, "unicast">>}
    BY <1>5, AlongOne
  <2>2. \E c : c \in Along(s, r)
    BY <2>1
  <2>3. QED
    BY <2>2 DEF Along
<1>6. ASSUME NEW x \in SubGateways \cap Attached, NEW a, Passed(x, a)
      PROVE  Listed(a)
  <2>1. <<x, Served>> \in Link
    BY <1>1, <1>6, ParentLinked, RolesAssumption DEF Ends
  <2>2. PICK u \in Channel : u[1] = x /\ u[2] = Served /\ u[3] = "unicast"
    BY <1>5, <2>1
  <2>3. u \in Up
    BY <1>3, <2>2 DEF Up
  <2>4. ~Holds(chan[u], Announcements(a))
    BY <1>4, <2>3 DEF Up
  <2>5. QED
    BY <1>6, <2>2, <2>3, <2>4 DEF Passed
<1>7. CASE d \in SubGateways
  <2>1. Listed(d)
    BY <1>1, <1>6, <1>7 DEF HomeInv, Heralds
  <2>2. hop = d
    BY <1>1, <1>7, <2>1, RouteOf
  <2>3. QED
    BY <1>2, <1>3, <2>1, <2>2 DEF Listed
<1>8. CASE d \in Ends /\ b \in SubGateways
  <2>1. PICK l \in Channel : l[1] = d /\ l[2] = b /\ l[3] = "unicast"
    BY <1>2, <1>5
  <2>2. l \in Low
    BY <1>8, <2>1 DEF Low
  <2>3. Passed(b, d)
    BY <1>1, <1>4, <2>1, <2>2 DEF HomeInv, Heralds
  <2>4. b \in Attached
    BY <1>1, <1>8, RolesAssumption DEF RoutedInv, RootedInv
  <2>5. Listed(d)
    BY <1>6, <1>8, <2>3, <2>4
  <2>6. hop \in SubGateways /\ Routed(d, hop)
    BY <1>1, <2>5, RouteOf
  <2> HIDE DEF hop
  <2>7. Has(children[hop], d)
    BY <1>8, <2>6 DEF ReturnInv, Stage
  <2>8. NextHop(children[hop], d) = d
    BY <1>1, <2>6, <2>7, BarnHop
  <2>9. QED
    BY <1>2, <1>3, <2>5, <2>7, <2>8 DEF Listed, hop
<1>9. QED
  BY <1>2, <1>7, <1>8

\* The walk from the gateway by the tables: at most two hops.
LEMMA WalkArrives ==
  ASSUME NEW d \in Device, d # Served, Has(children[Served], d),
         LET hop == NextHop(children[Served], d)
         IN hop = d \/ (Has(children[hop], d) /\ NextHop(children[hop], d) = d)
  PROVE  HopsTowards(Served, d)[Cardinality(Device)] = d
<1> DEFINE N == Cardinality(Device)
           ahead(x) == IF x # d /\ Has(children[x], d) THEN NextHop(children[x], d) ELSE x
           right(f) == [k \in 0..N |-> IF k = 0 THEN Served ELSE ahead(f[k - 1])]
           first == ahead(Served)
           at(k) == IF k = 0 THEN Served ELSE IF k = 1 THEN first ELSE d
<1>1. N \in Nat /\ N >= 2
  <2> DEFINE two == {Served} \cup {d}
  <2>1. two \subseteq Device
    BY FarmAssumption DEF Device
  <2>2. IsFiniteSet({Served}) /\ Cardinality({Served}) = 1
    BY FS_Singleton
  <2>3. Cardinality(two) = 2
    <3>1. d \notin {Served}
      OBVIOUS
    <3>2. Cardinality({Served} \cup {d}) = Cardinality({Served}) + 1
      BY <2>2, <3>1, FS_AddElement
    <3>3. QED
      BY <2>2, <3>2
  <2> HIDE DEF two
  <2>4. Cardinality(two) <= N
    BY <2>1, SizeAssumption, FS_Subset
  <2>5. N \in Nat
    BY SizeAssumption, FS_CardinalityType
  <2>6. QED
    BY <2>3, <2>4, <2>5
<1>2. ahead(first) = d /\ ahead(d) = d
  OBVIOUS
<1> HIDE DEF N
<1>3. ASSUME NEW k \in 0..N, k # 0
      PROVE  at(k) = ahead(at(k - 1))
  <2> HIDE DEF ahead
  <2>1. CASE k = 1
    BY <2>1 DEF first
  <2>2. CASE k = 2
    <3>1. k - 1 = 1
      BY <2>2
    <3>2. QED
      BY <1>2, <2>2, <3>1
  <2>3. CASE k > 2
    <3>1. k - 1 > 1 /\ k > 1
      BY <1>1, <2>3
    <3>2. at(k - 1) = d /\ at(k) = d
      BY <3>1
    <3>3. QED
      BY <1>2, <3>2
  <2>4. QED
    BY <1>1, <1>3, <2>1, <2>2, <2>3
<1> DEFINE walk == CHOOSE f : f = right(f)
<1>4. walk = right(walk)
  <2> DEFINE g == [k \in 0..N |-> at(k)]
  <2> HIDE DEF at, ahead
  <2>1. at(0) = Served
    BY DEF at
  <2>2. \A k \in 0..N : g[k] = IF k = 0 THEN Served ELSE ahead(g[k - 1])
    <3> SUFFICES ASSUME NEW k \in 0..N, k # 0
                 PROVE  g[k] = ahead(g[k - 1])
      BY <2>1
    <3>1. k - 1 \in 0..N
      BY <1>1
    <3>2. QED
      BY <1>3, <3>1
  <2>3. g = right(g)
    <3>1. g = [k \in 0..N |-> g[k]]
      OBVIOUS
    <3> HIDE DEF g
    <3>2. QED
      BY <2>2, <3>1
  <2> HIDE DEF g, right
  <2>4. QED
    BY <2>3
<1>5. HopsTowards(Served, d) = walk
  BY DEF HopsTowards, N
<1>6. walk[N] = at(N)
  <2> DEFINE T == {k \in 0..N : walk[k] = at(k)}
  <2> HIDE DEF walk, ahead, at
  <2>1. \A j \in 0..N : walk[j] = IF j = 0 THEN Served ELSE ahead(walk[j - 1])
    BY <1>4
  <2>2. 0 \in T
    <3>1. 0 \in 0..N
      BY <1>1
    <3>2. QED
      BY <2>1, <3>1 DEF at
  <2>3. ASSUME NEW k \in 0..(N - 1), k \in T
        PROVE  k + 1 \in T
    <3>1. k + 1 \in 0..N /\ k + 1 # 0 /\ (k + 1) - 1 = k
      BY <1>1
    <3>2. walk[k + 1] = ahead(walk[k])
      BY <2>1, <3>1
    <3>3. at(k + 1) = ahead(at(k))
      BY <1>3, <3>1
    <3>4. walk[k] = at(k)
      BY <2>3
    <3>5. QED
      BY <3>1, <3>2, <3>3, <3>4
  <2> HIDE DEF T
  <2>4. \A k \in 0..N : k \in T
    BY <1>1, <2>2, <2>3, Induction
  <2>5. N \in T
    BY <1>1, <2>4
  <2>6. QED
    BY <1>1, <2>5 DEF T
<1>7. at(N) = d
  BY <1>1
<1>8. QED
  BY <1>5, <1>6, <1>7 DEF N

LEMMA RoutesReach ==
  ASSUME Flat, FarmInv, ReturnInv, Settled, Symmetric
  PROVE  RoutesAtRest
<1> SUFFICES ASSUME AtRest, NEW d \in Device, setup[d] = 1
             PROVE  \E gw \in Gateways : HopsTowards(gw, d)[Cardinality(Device)] = d
  BY DEF RoutesAtRest
<1>1. d \in Attached
  <2>1. setup[d] = 1 => \/ d \in SubGateways /\ parent[d].addr = Served
                        \/ d \in Ends /\ parent[d].addr \in SubGateways
    BY ParentIsBarn, RolesAssumption DEF FarmInv, BarnParents, Device, Ends
  <2>2. QED
    BY <2>1, FarmAssumption, RolesAssumption DEF Attached, Device
<1>2. HopsTowards(Served, d)[Cardinality(Device)] = d
  BY <1>1, WayKnown, WalkArrives
<1>3. QED
  BY <1>2, FarmAssumption

-------------------------------------------------------------------------------
(* Acknowledgements and routes of flat farms *)

\* A report is only sent when none is counted, so no counter reaches UNACK_TRESH and
\* nobody gives its parent up.
LEMMA SettledKept ==
  ASSUME \A d \in Nodes : GroupOf[d] # IRRIGATION_GROUP,
         IInv, IInv', OrdersKnown, Settled, [FarmNext]_farm
  PROVE  Settled'
<1>1. UndisturbedNext
  BY FarmUndisturbed
<1>2. parent \in [Device -> Parent] /\ setup \in [Device -> {0, 1}]
  BY DEF IInv, AttachInv
<1>3. ASSUME NEW d \in Device, setup'[d] # setup[d]
      PROVE  setup'[d] = 1
  <2>1. ASSUME NEW e \in Channel, Receive(e)
        PROVE  setup'[d] = 1
    <3>1. CASE NodeResponse(e) \/ MobileResponse(e) \/ SubGatewayOffer(e)
      <4> DEFINE r == e[2]
                 m == Head(chan[e])
      <4>1. Adopt(r, Taken(e), m.src, m.ntype) \/ UNCHANGED setup
        BY <3>1 DEF NodeResponse, MobileResponse, SubGatewayOffer, CheckParentNode, CheckParentSubGateway
      <4>2. QED
        BY <1>2, <1>3, <4>1 DEF Adopt
    <3>2. CASE NodeData(e)
      <4>1. e[2] \in Nodes
        BY <3>2 DEF NodeData, Receives
      <4>2. ~StartsIrrigation(e[2], Head(chan[e]))
        BY <4>1 DEF StartsIrrigation
      <4>3. UNCHANGED setup
        BY <3>2, <4>2 DEF NodeData
      <4>4. QED
        BY <1>3, <4>3
    <3>3. CASE ~(NodeResponse(e) \/ MobileResponse(e) \/ SubGatewayOffer(e) \/ NodeData(e))
      <4>1. UNCHANGED setup
        BY <2>1, <3>3
           DEF Receive, NodeSetup, NodeSetupAck, NodeChildRm, NodeDataAck, SubGatewaySetup,
               SubGatewaySetupAck, SubGatewayChildRm, SubGatewayDataAck, SubGatewayData, GatewaySetup,
               GatewaySetupAck, GatewayIgnore, GatewayData, MobileSetupAck, MobileDataAck, MobileIgnore
      <4>2. QED
        BY <1>3, <4>1
    <3>4. QED
      BY <3>1, <3>2, <3>3
  <2>2. ASSUME NEW x \in Device, data_counter[x] = 0, SendReport(x)
        PROVE  setup'[d] = 1
    <3>1. (data_counter[x] + 1) % CounterSize = 1
      BY <2>2 DEF CounterSize
    <3>2. ~((data_counter[x] + 1) % CounterSize >= UNACK_TRESH)
      BY <3>1 DEF UNACK_TRESH
    <3>3. setup' = [setup EXCEPT ![x] = @]
      BY <2>2, <3>2 DEF SendReport, SendAcked
    <3>4. setup' = setup
      BY <1>2, <3>3
    <3>5. QED
      BY <1>3, <3>4
  <2>3. ASSUME NEW x \in Device, SendSetup(x)
        PROVE  setup'[d] = 1
    BY <1>3, <2>3 DEF SendSetup
  <2>4. QED
    BY <1>3, <2>1, <2>2, <2>3, FarmSteps
<1>4. ASSUME NEW d \in Device, parent'[d].addr # NullAddr
      PROVE  setup'[d] = 1
  <2>1. CASE parent'[d] = parent[d]
    <3>1. setup[d] = 1
      BY <1>4, <2>1 DEF Settled, Attached
    <3>2. QED
      BY <1>3, <3>1
  <2>2. CASE parent'[d] # parent[d]
    BY <2>2, <1>1, ParentsAdopted
  <2>3. QED
    BY <2>1, <2>2
<1>5. QED
  BY <1>4 DEF Settled, Attached

\* The invariant of an uncrowded flat farm in which nobody gives its parent up.
LEMMA ReturnInvariance ==
  ASSUME Flat, Symmetric
  PROVE  FarmSpec /\ []Uncrowded /\ []Settled => [](FarmInv /\ OrdersKnown /\ ReturnInv)
<1> DEFINE I == FarmInv /\ OrdersKnown /\ ReturnInv
<1>1. FarmInit => I
  BY InitFarm, InitReturn
<1>2. I /\ Uncrowded /\ Settled /\ Settled' /\ [FarmNext]_farm => I'
  <2> SUFFICES ASSUME FarmInv, OrdersKnown, ReturnInv, Uncrowded, Settled, Settled', [FarmNext]_farm
               PROVE  FarmInv' /\ OrdersKnown' /\ ReturnInv'
    OBVIOUS
  <2>1. QED
    BY FarmStep, OrdersStayKnown, ReturnStep
<1> HIDE DEF I
<1>3. FarmSpec /\ []Uncrowded /\ []Settled => []I
  BY <1>1, <1>2, PTL DEF FarmSpec
<1>4. QED
  BY <1>3 DEF I

\* In a flat farm without full queues, whose devices are heard by whom they hear and
\* keep some parent, every counter tells exactly how many reports and
\* acknowledgements of its device are under way (AcksFindTheirWay), though the
\* device may exchange its parent in between: the gateway lists it before a report
\* of it arrives, and the barn the acknowledgement goes through keeps its entry
\* until the removal that is sent after it.
THEOREM AcksReturn ==
  ASSUME Flat, Symmetric
  PROVE  FarmSpec /\ []Uncrowded /\ []Settled => []AcksFindTheirWay
<1>1. FarmInv /\ OrdersKnown /\ ReturnInv => AcksFindTheirWay
  BY CountsReturn DEF FarmInv
<1>2. QED
  BY <1>1, ReturnInvariance, PTL

\* In such a farm the tables lead from the gateway to every device that has a
\* parent, once nothing is on its way (RoutesAtRest): each barn's entry lives exactly
\* from its announcement to the removal the gateway sends when the device has moved.
THEOREM RoutesReturn ==
  ASSUME Flat, Symmetric
  PROVE  FarmSpec /\ []Uncrowded /\ []Settled => []RoutesAtRest
<1>1. FarmInv /\ OrdersKnown /\ ReturnInv /\ Settled => RoutesAtRest
  BY RoutesReach
<1>2. QED
  BY <1>1, ReturnInvariance, PTL

\* Without valves, whose acknowledgements of commands are counted like reports, nobody
\* ever gives a parent up.
LEMMA SettledAlways ==
  ASSUME Flat, \A d \in Nodes : GroupOf[d] # IRRIGATION_GROUP
  PROVE  FarmSpec /\ []Uncrowded => []Settled
<1> DEFINE I == FarmInv /\ OrdersKnown /\ Settled
<1>1. FarmInit => I
  <2> SUFFICES ASSUME FarmInit
               PROVE  Settled
    BY InitFarm
  <2>1. \A d \in Device : parent[d].addr = NullAddr
    BY DEF FarmInit, Init, NoParent
  <2>2. QED
    BY <2>1 DEF Settled, Attached
<1>2. I /\ Uncrowded /\ [FarmNext]_farm => I'
  <2> SUFFICES ASSUME FarmInv, OrdersKnown, Settled, Uncrowded, [FarmNext]_farm
               PROVE  FarmInv' /\ OrdersKnown' /\ Settled'
    OBVIOUS
  <2>1. FarmInv'
    BY FarmStep
  <2>2. IInv /\ IInv'
    BY <2>1 DEF FarmInv
  <2>3. QED
    BY <2>1, <2>2, OrdersStayKnown, SettledKept
<1>3. I => Settled
  OBVIOUS
<1> HIDE DEF I
<1>4. QED
  BY <1>1, <1>2, <1>3, PTL DEF FarmSpec

\* So both hold there whenever no queue is full.
THEOREM ReturnsWithoutValves ==
  ASSUME Flat, Symmetric, \A d \in Nodes : GroupOf[d] # IRRIGATION_GROUP
  PROVE  FarmSpec /\ []Uncrowded => [](AcksFindTheirWay /\ RoutesAtRest)
BY SettledAlways, AcksReturn, RoutesReturn, PTL
===============================================================================
