----------------------------- MODULE DeviceTree -----------------------------
(***************************************************************************)
(* The tree of devices (Tree.h) the location algorithm works on.  A tree   *)
(* is the sequence of its nodes in the order they were added: the device   *)
(* of each and the position of its father, 0 for a root and Removed for a  *)
(* node that has been taken out.  The children of a node are those that    *)
(* name it as their father, in the order they were added.                  *)
(***************************************************************************)
EXTENDS Naturals, Sequences

Removed == 99

TreeNodes(t) == {i \in DOMAIN t : t[i].up # Removed}
AddLeaf(t, father, dev) == Append(t, [dev |-> dev, up |-> father])

GetChildNodes(t, n) ==
  SelectSeq([i \in DOMAIN t |-> i], LAMBDA i : t[i].up = n)

\* The nodes from n to the root, n first.
RECURSIVE PathUp(_, _)
PathUp(t, n) == IF n = 0 THEN <<>> ELSE <<n>> \o PathUp(t, t[n].up)

RootOf(t, n) == LET p == PathUp(t, n) IN p[Len(p)]

IsAbove(t, a, n) == \E i \in 2 .. Len(PathUp(t, n)) : PathUp(t, n)[i] = a
Below(t, n) == {i \in TreeNodes(t) : IsAbove(t, n, i)}

\* new with a copy of the subtree of t at n under father, and of the
\* subtrees ns[1], ns[2], ... under father.
RECURSIVE AddSubTrees(_, _, _, _)
AddSubTrees(new, father, t, ns) ==
  IF ns = <<>> THEN new
  ELSE LET leaf == AddLeaf(new, father, t[Head(ns)].dev)
           copy == AddSubTrees(leaf, Len(leaf), t, GetChildNodes(t, Head(ns)))
       IN AddSubTrees(copy, father, t, Tail(ns))

\* n becomes a root: its father goes under it, and so do its brothers; what
\* was below n itself is left out.
RECURSIVE ChangeRoot(_, _, _, _)
ChangeRoot(t, n, new, father) ==
  LET leaf == AddLeaf(new, father, t[n].dev)
      up == t[n].up
      Brother(i) == i # n
  IN IF up = 0 THEN leaf
     ELSE AddSubTrees(ChangeRoot(t, up, leaf, Len(leaf)), Len(leaf), t,
                      SelectSeq(GetChildNodes(t, up), Brother))

RemoveLeaf(t, n) == [t EXCEPT ![n].up = Removed]
=============================================================================
