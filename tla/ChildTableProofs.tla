--------------------------- MODULE ChildTableProofs ---------------------------
(***************************************************************************)
(* What the operators of ChildTable return, for tables of any length.      *)
(* A table that holds a device once is the precondition of each lemma and  *)
(* part of its conclusion: without it get_children could answer with the   *)
(* wrong entry.                                                            *)
(***************************************************************************)
EXTENDS ChildTable, FiniteSets, FunctionTheorems, FiniteSetTheorems, SequenceTheorems,
        WellFoundedInduction, TLAPS

\* get_children finds the entry of a device that has one.
LEMMA IndexOfFound ==
  ASSUME NEW S, NEW table \in Seq(S), UniqueAddrs(table), NEW a, Has(table, a)
  PROVE  /\ IndexOf(table, a) \in DOMAIN table
         /\ table[IndexOf(table, a)].addr = a
<1>1. PICK i \in DOMAIN table : table[i].addr = a
  BY DEF Has
<1>2. DOMAIN table = 1..Len(table) /\ Len(table) \in Nat
  BY LenProperties
<1>3. \A j \in 1..(i - 1) : table[j].addr # a
  <2>1. \A j \in 1..(i - 1) : j \in DOMAIN table /\ j # i
    BY <1>2
  <2>2. QED
    BY <1>1, <2>1 DEF UniqueAddrs
<1>4. \E k \in DOMAIN table : table[k].addr = a /\ \A j \in 1..(k - 1) : table[j].addr # a
  BY <1>1, <1>3
<1>5. QED
  BY <1>4 DEF IndexOf

\* The next hop get_children returns is the one of some entry.
LEMMA NextHopInTable ==
  ASSUME NEW S, NEW table \in Seq(S), UniqueAddrs(table), NEW a, Has(table, a)
  PROVE  \E i \in DOMAIN table : NextHop(table, a) = table[i].from
BY IndexOfFound DEF NextHop

\* set_child keeps a device from being entered twice, and puts nothing in the
\* table but the new child.
LEMMA SetChildKeeps ==
  ASSUME NEW S, NEW table \in Seq(S), UniqueAddrs(table), NEW child \in S
  PROVE  /\ SetChild(table, child) \in Seq(S)
         /\ SetChild(table, child) # <<>>
         /\ UniqueAddrs(SetChild(table, child))
         /\ \A i \in DOMAIN SetChild(table, child) :
              \/ SetChild(table, child)[i] = child
              \/ \E j \in DOMAIN table : SetChild(table, child)[i] = table[j]
<1> DEFINE T == SetChild(table, child)
<1>0. DOMAIN table = 1..Len(table) /\ Len(table) \in Nat /\ table \in [1..Len(table) -> S]
  BY LenProperties
<1>1. CASE Has(table, child.addr)
  <2> DEFINE k == IndexOf(table, child.addr)
  <2>1. k \in 1..Len(table) /\ table[k].addr = child.addr
    BY <1>0, <1>1, IndexOfFound
  <2> HIDE DEF k
  <2>2. T = [table EXCEPT ![k] = child]
    BY <1>1 DEF SetChild, k
  <2>3. T \in Seq(S) /\ Len(T) = Len(table)
        /\ \A j \in 1..Len(table) : T[j] = IF j = k THEN child ELSE table[j]
    BY <2>1, <2>2, ExceptSeq
  <2>4. DOMAIN T = 1..Len(table)
    BY <2>3, LenProperties
  <2> HIDE DEF T
  <2>5. \A j \in 1..Len(table) : T[j].addr = table[j].addr
    BY <2>1, <2>3
  <2>6. UniqueAddrs(T)
    BY <1>0, <2>4, <2>5 DEF UniqueAddrs
  <2>7. T # <<>>
    BY <2>1, <2>3
  <2>8. QED
    BY <1>0, <2>3, <2>4, <2>6, <2>7 DEF T
<1>2. CASE ~Has(table, child.addr)
  <2>1. T = Append(table, child)
    BY <1>2 DEF SetChild
  <2>2. T \in Seq(S) /\ T # <<>> /\ Len(T) = Len(table) + 1
        /\ (\A j \in 1..Len(table) : T[j] = table[j]) /\ T[Len(table) + 1] = child
    BY <2>1, AppendProperties
  <2>3. DOMAIN T = 1..(Len(table) + 1)
    BY <2>2, LenProperties
  <2> HIDE DEF T
  <2>4. \A j \in 1..Len(table) : T[j].addr # child.addr
    BY <1>0, <1>2, <2>2 DEF Has
  <2>5. \A i \in DOMAIN T : i \in 1..Len(table) \/ i = Len(table) + 1
    BY <1>0, <2>3
  <2>6. UniqueAddrs(T)
    BY <1>0, <2>2, <2>4, <2>5 DEF UniqueAddrs
  <2>7. QED
    BY <1>0, <2>2, <2>5, <2>6 DEF T
<1>3. QED
  BY <1>1, <1>2

\* After set_child the child is in the table, with everyone who was; a new child is
\* the last entry.
LEMMA SetChildHolds ==
  ASSUME NEW S, NEW table \in Seq(S), UniqueAddrs(table), NEW child \in S
  PROVE  /\ Has(SetChild(table, child), child.addr)
         /\ \A a : Has(table, a) => Has(SetChild(table, child), a)
         /\ ~Has(table, child.addr) => LastChild(SetChild(table, child)) = child
<1> DEFINE T == SetChild(table, child)
<1>0. DOMAIN table = 1..Len(table) /\ Len(table) \in Nat
  BY LenProperties
<1>1. CASE Has(table, child.addr)
  <2> DEFINE k == IndexOf(table, child.addr)
  <2>1. k \in 1..Len(table) /\ table[k].addr = child.addr
    BY <1>0, <1>1, IndexOfFound
  <2> HIDE DEF k
  <2>2. T = [table EXCEPT ![k] = child]
    BY <1>1 DEF SetChild, k
  <2>3. T \in Seq(S) /\ Len(T) = Len(table)
        /\ \A j \in 1..Len(table) : T[j] = IF j = k THEN child ELSE table[j]
    BY <2>1, <2>2, ExceptSeq
  <2>4. DOMAIN T = DOMAIN table
    BY <1>0, <2>3, LenProperties
  <2> HIDE DEF T
  <2>5. \A j \in DOMAIN table : T[j].addr = table[j].addr
    BY <1>0, <2>1, <2>3
  <2>6. \A a : Has(table, a) => Has(T, a)
    BY <2>4, <2>5 DEF Has
  <2>7. QED
    BY <1>1, <2>6 DEF T
<1>2. CASE ~Has(table, child.addr)
  <2>1. T = Append(table, child)
    BY <1>2 DEF SetChild
  <2>2. T \in Seq(S) /\ Len(T) = Len(table) + 1
        /\ (\A j \in 1..Len(table) : T[j] = table[j]) /\ T[Len(table) + 1] = child
    BY <2>1, AppendProperties
  <2>3. DOMAIN T = 1..(Len(table) + 1)
    BY <2>2, LenProperties
  <2> HIDE DEF T
  <2>4. Len(table) + 1 \in DOMAIN T /\ \A j \in DOMAIN table : j \in DOMAIN T /\ T[j] = table[j]
    BY <1>0, <2>2, <2>3
  <2>5. LastChild(T) = child
    BY <2>2 DEF LastChild
  <2>6. Has(T, child.addr) /\ \A a : Has(table, a) => Has(T, a)
    BY <2>2, <2>4 DEF Has
  <2>7. QED
    BY <2>5, <2>6 DEF T
<1>3. QED
  BY <1>1, <1>2

\* rm_child only drops entries.
LEMMA RemoveChildKeeps ==
  ASSUME NEW S, NEW table \in Seq(S), UniqueAddrs(table), NEW a
  PROVE  /\ RemoveChild(table, a) \in Seq(S)
         /\ UniqueAddrs(RemoveChild(table, a))
         /\ \A i \in DOMAIN RemoveChild(table, a) :
              \E j \in DOMAIN table : RemoveChild(table, a)[i] = table[j]
<1> DEFINE T == RemoveChild(table, a)
<1>0. DOMAIN table = 1..Len(table) /\ Len(table) \in Nat /\ table \in [1..Len(table) -> S]
  BY LenProperties
<1>1. CASE ~Has(table, a)
  BY <1>0, <1>1 DEF RemoveChild
<1>2. CASE Has(table, a)
  <2> DEFINE k == IndexOf(table, a)
             n == Len(table) - 1
  <2>1. k \in 1..Len(table) /\ n \in Nat
    BY <1>0, <1>2, IndexOfFound
  <2> HIDE DEF k
  <2>2. T = [i \in 1..n |-> IF i = k THEN table[Len(table)] ELSE table[i]]
    BY <1>2 DEF RemoveChild, k
  <2>3. T \in [1..n -> S]
    BY <1>0, <2>1, <2>2
  <2>4. T \in Seq(S)
    BY <2>1, <2>3, SeqDef
  <2>5. ASSUME NEW i \in 1..n
        PROVE  T[i] = table[IF i = k THEN Len(table) ELSE i]
    BY <2>2
  <2> HIDE DEF T
  <2>6. \A i \in 1..n : (IF i = k THEN Len(table) ELSE i) \in DOMAIN table
    BY <1>0, <2>1
  <2>7. UniqueAddrs(T)
    <3> SUFFICES ASSUME NEW i \in 1..n, NEW j \in 1..n, T[i].addr = T[j].addr
                 PROVE  i = j
      BY <2>3 DEF UniqueAddrs
    <3>1. (IF i = k THEN Len(table) ELSE i) = (IF j = k THEN Len(table) ELSE j)
      BY <2>5, <2>6 DEF UniqueAddrs
    <3>2. QED
      BY <1>0, <2>1, <3>1
  <2>8. QED
    BY <2>3, <2>4, <2>5, <2>6, <2>7 DEF T
<1>3. QED
  BY <1>1, <1>2

\* The first n numbers are n.
LEMMA IntervalSize == ASSUME NEW n \in Nat PROVE Cardinality(1..n) = n
<1>1. 1 \in Int /\ n \in Int
  OBVIOUS
<1>2. Cardinality(1..n) = IF 1 > n THEN 0 ELSE n - 1 + 1
  BY <1>1, FS_Interval
<1>3. QED
  BY <1>2

\* A table of distinct devices is no longer than the network is large.
LEMMA TableBound ==
  ASSUME NEW S, NEW D, IsFiniteSet(D), NEW table \in Seq(S), UniqueAddrs(table),
         \A i \in DOMAIN table : table[i].addr \in D
  PROVE  Len(table) <= Cardinality(D)
<1> DEFINE f == [i \in 1..Len(table) |-> table[i].addr]
<1>1. DOMAIN table = 1..Len(table) /\ Len(table) \in Nat
  BY LenProperties
<1>2. f \in Injection(1..Len(table), D)
  BY <1>1 DEF UniqueAddrs, Injection, IsInjective
<1>3. Cardinality(1..Len(table)) <= Cardinality(D)
  BY <1>2, FS_Injection
<1>4. Cardinality(1..Len(table)) = Len(table)
  BY <1>1, IntervalSize
<1>5. QED
  BY <1>3, <1>4

-------------------------------------------------------------------------------
(* Induction: the theorems of the library have a predicate as parameter, a set *)
(* serves as well.                                                             *)

\* A set of naturals that is not empty has a least element.
LEMMA LeastElement ==
  ASSUME NEW T \in SUBSET Nat, T # {}
  PROVE  \E n \in T : \A m \in T : n <= m
<1> DEFINE R == OpToRel(<, Nat)
<1>1. \A m, n \in Nat : <<m, n>> \in R <=> m < n
  BY DEF OpToRel
<1>2. IsWellFoundedOn(R, Nat)
  BY NatLessThanWellFounded
<1> HIDE DEF R
<1>3. PICK n \in T : \A m \in T : ~(<<m, n>> \in R)
  BY <1>2, WFMin
<1>4. ASSUME NEW m \in T
      PROVE  n <= m
  <2>1. m \in Nat /\ n \in Nat
    OBVIOUS
  <2>2. ~(m < n)
    BY <1>1, <1>3, <2>1
  <2>3. QED
    BY <2>1, <2>2
<1>5. QED
  BY <1>4

\* Induction up to N: a set that holds 0 and the successors of what it holds.
LEMMA Induction ==
  ASSUME NEW N \in Nat, NEW T, 0 \in T, \A n \in 0..(N - 1) : n \in T => n + 1 \in T
  PROVE  \A n \in 0..N : n \in T
<1> DEFINE Out == {n \in 0..N : n \notin T}
<1> SUFFICES ASSUME Out # {}
             PROVE  FALSE
  OBVIOUS
<1>1. PICK n \in Out : \A m \in Out : n <= m
  <2>1. Out \in SUBSET Nat
    OBVIOUS
  <2> HIDE DEF Out
  <2>2. QED
    BY <2>1, LeastElement
<1>2. n # 0 /\ n - 1 \in 0..(N - 1) /\ n - 1 \notin Out
  BY <1>1
<1>3. n - 1 \in T
  BY <1>2
<1>4. QED
  BY <1>1, <1>2, <1>3
===============================================================================
