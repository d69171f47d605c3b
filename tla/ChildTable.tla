------------------------------ MODULE ChildTable ------------------------------
(***************************************************************************)
(* The children table of routing/custom-routing.c: the static array        *)
(* children[] with its first children_count entries in use, here a         *)
(* sequence of child_t records [addr, from, group].  "addr" is a device    *)
(* somewhere below this one, "from" the neighbour through which it is      *)
(* reached, "group" its multicast group.                                   *)
(*                                                                         *)
(* The operators are pure: each takes a table and returns what the         *)
(* function of the same name leaves in it or reads from it.                *)
(***************************************************************************)
EXTENDS Naturals, Sequences

\* The entries in use hold a.
Has(table, a) == \E i \in DOMAIN table : table[i].addr = a

\* get_children: the first entry whose addr is a (only for a table that has a).
IndexOf(table, a) ==
  CHOOSE i \in DOMAIN table :
    /\ table[i].addr = a
    /\ \A j \in 1..(i - 1) : table[j].addr # a

\* The out parameter of get_children when it does not return -1.
NextHop(table, a) == table[IndexOf(table, a)].from

\* Faults of set_child that the runs must notice: it never looks the address up,
\* it leaves a known device's entry as it was, or it overwrites the last entry.
SetChildBlindly(table, child) == Append(table, child)
SetChildOnce(table, child) == IF Has(table, child.addr) THEN table ELSE Append(table, child)
SetChildLast(table, child) ==
  IF Has(table, child.addr) THEN [table EXCEPT ![Len(table)] = child] ELSE Append(table, child)

\* set_child: overwrite the entry of this address in place, or append one.
SetChild(table, child) ==
  IF Has(table, child.addr)
  THEN [table EXCEPT ![IndexOf(table, child.addr)] = child]
  ELSE Append(table, child)

\* set_child: the previous next hop must be told to forget the child when the
\* child now comes from another neighbour, unless that hop was the child itself.
Superseded(table, child) ==
  /\ Has(table, child.addr)
  /\ NextHop(table, child.addr) \notin {child.from, child.addr}

\* rm_child: the last entry takes the place of the removed one.
RemoveChild(table, a) ==
  IF Has(table, a)
  THEN [i \in 1..(Len(table) - 1) |->
          IF i = IndexOf(table, a) THEN table[Len(table)] ELSE table[i]]
  ELSE table

\* children[children_count - 1]
LastChild(table) == table[Len(table)]

\* The next hops a down-going packet of group g is sent to: get_multicast_children
\* enumerates the entries of the group and forward_data_packet skips a next hop
\* it already sent to, so each appears once.
GroupHops(table, g) == {table[i].from : i \in {j \in DOMAIN table : table[j].group = g}}

\* No two entries are for the same device.
UniqueAddrs(table) ==
  \A i, j \in DOMAIN table : table[i].addr = table[j].addr => i = j
===============================================================================
