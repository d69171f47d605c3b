------------------------------ MODULE Attachment ------------------------------
(***************************************************************************)
(* What the protocol promises about parents, without packets, tables or    *)
(* counters: a device without a parent may take any neighbour allowed to   *)
(* serve it; while it has one it only exchanges it for a better one; and   *)
(* it may lose it at any time.                                             *)
(***************************************************************************)
EXTENDS Integers

CONSTANTS
  Devices,
  None,          \* the parent of a device that has none
  Offers,        \* <<p, d>>: p may be the parent of d
  Rank(_, _)     \* Rank(p, d): the quality of p for d, a pair of integers

VARIABLE up      \* up[d]: the parent of d

\* Lexicographic: first the layer, then the signal.
Worse(a, b) == a[1] < b[1] \/ (a[1] = b[1] /\ a[2] < b[2])

Init == up = [d \in Devices |-> None]

Join(d) ==
  /\ up[d] = None
  /\ \E p \in Devices : <<p, d>> \in Offers /\ up' = [up EXCEPT ![d] = p]

Upgrade(d) ==
  /\ up[d] # None
  /\ \E p \in Devices :
       /\ <<p, d>> \in Offers
       /\ Worse(Rank(up[d], d), Rank(p, d))
       /\ up' = [up EXCEPT ![d] = p]

Leave(d) == up' = [up EXCEPT ![d] = None]

Next == \E d \in Devices : Join(d) \/ Upgrade(d) \/ Leave(d)

Spec == Init /\ [][Next]_up
===============================================================================
