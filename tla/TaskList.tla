------------------------------ MODULE TaskList ------------------------------
(***************************************************************************)
(* std::list as the server uses it.  g_lstTask and g_lstTrig are scanned   *)
(* from begin(), found by a key, and erased from; a list is a sequence of  *)
(* the keys of its nodes, which are unique.                                *)
(***************************************************************************)
EXTENDS Integers, Sequences, FiniteSets

\* The keys of the nodes of a list.
Members(s) == {s[i] : i \in DOMAIN s}

\* No two nodes of a list have the same key.
Distinct(s) == \A i, j \in DOMAIN s : s[i] = s[j] => i = j

\* The node a scan for the key x stops at.
Position(s, x) == CHOOSE i \in DOMAIN s : s[i] = x

\* The numbers of a finite set, in their order.
Numbered(K) ==
  [j \in 1..Cardinality(K) |-> CHOOSE i \in K : Cardinality({k \in K : k <= i}) = j]

\* The list of the nodes at the positions in K, in their order.
Only(s, K) == [j \in 1..Cardinality(K) |-> s[Numbered(K)[j]]]

\* The list without the nodes whose key is in S, the others in their order:
\* what erase() in the loops of RemoveTask and RemoveTasks leaves.
Erase(s, S) == Only(s, {i \in DOMAIN s : s[i] \notin S})
=============================================================================
