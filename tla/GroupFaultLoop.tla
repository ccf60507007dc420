--------------------------- MODULE GroupFaultLoop ---------------------------
(***************************************************************************)
(* The two loops of GroupFault (FDIRR2.cpp), one comparison per step, on a *)
(* task list 1..N of which the faults in located are in                    *)
(* TASK_FAULT_STATUS_CALC_ISO when it is called.                           *)
(***************************************************************************)
EXTENDS FaultGrouping

CONSTANTS N, Breakers

ASSUME NAssumption == N \in Nat \ {0}

Tasks  == 1..N
NoGroup == 0          \* head.group_id[0] == 0, or the text "null"

VARIABLES
  located,    \* next_step = CALC_ISO when GroupFault is entered
  edge,       \* get_edge_cb() of each fault
  group_id,   \* head.group_id
  grouped,    \* faults the outer loop has moved to TASK_FAULT_STATUS_GROUPED
  task_vi,    \* iterator of the outer loop
  sec_vi      \* iterator of the inner loop

vars == <<located, edge, group_id, grouped, task_vi, sec_vi>>

Init ==
  /\ located \in SUBSET Tasks
  /\ edge \in [Tasks -> SUBSET Breakers]
  /\ group_id = [f \in Tasks |-> NoGroup]
  /\ grouped = {}
  /\ task_vi = 1
  /\ sec_vi = 2

CalcIso(f) == f \in located \ grouped

\* The outer iterator is on a node that is not CALC_ISO: continue.
SkipOuter ==
  /\ task_vi \in Tasks
  /\ ~CalcIso(task_vi)
  /\ task_vi' = task_vi + 1
  /\ sec_vi' = task_vi + 2
  /\ UNCHANGED <<located, edge, group_id, grouped>>

\* A mutant of Compare: a fault that already has a group keeps it.
CompareKeepsGroup ==
  /\ task_vi \in Tasks /\ CalcIso(task_vi)
  /\ sec_vi \in Tasks
  /\ LET g == IF group_id[task_vi] = NoGroup THEN task_vi ELSE group_id[task_vi]
     IN  group_id' = IF /\ CalcIso(sec_vi) /\ group_id[sec_vi] = NoGroup
                        /\ edge[task_vi] \cap edge[sec_vi] # {}
                     THEN [group_id EXCEPT ![task_vi] = g, ![sec_vi] = g]
                     ELSE group_id
  /\ sec_vi' = sec_vi + 1
  /\ UNCHANGED <<located, edge, grouped, task_vi>>

\* One node of the inner loop: a common edge breaker copies the group id of
\* the outer fault, which first gets its own fault id if it has none.
Compare ==
  /\ task_vi \in Tasks /\ CalcIso(task_vi)
  /\ sec_vi \in Tasks
  /\ LET g == IF group_id[task_vi] = NoGroup THEN task_vi ELSE group_id[task_vi]
     IN  group_id' = IF CalcIso(sec_vi) /\ edge[task_vi] \cap edge[sec_vi] # {}
                     THEN [group_id EXCEPT ![task_vi] = g, ![sec_vi] = g]
                     ELSE group_id
  /\ sec_vi' = sec_vi + 1
  /\ UNCHANGED <<located, edge, grouped, task_vi>>

\* End of the inner loop: a fault still without a group is its own group.
EndOuter ==
  /\ task_vi \in Tasks /\ CalcIso(task_vi)
  /\ sec_vi > N
  /\ group_id' = [group_id EXCEPT ![task_vi] = IF @ = NoGroup THEN task_vi ELSE @]
  /\ grouped' = grouped \cup {task_vi}
  /\ task_vi' = task_vi + 1
  /\ sec_vi' = task_vi + 2
  /\ UNCHANGED <<located, edge>>

Next == SkipOuter \/ Compare \/ EndOuter

Spec == Init /\ [][Next]_vars

Done == task_vi > N
-----------------------------------------------------------------------------
\* The loops end with every located fault grouped as the closed form that
\* FaultLocation uses says (GroupFault, FDIRR2.cpp).
LoopComputesGrouping ==
  Done => /\ grouped = located
          /\ IsGrouping(group_id, [i \in Tasks |-> i], located, edge)

\* The inductive invariant.  The loops have compared f with the located faults
\* Seen(f) before it that share a breaker with it; f has the group of the last
\* of these, and until there is one its own id or none.
Seen(f) ==
  {e \in located : /\ e < f /\ edge[e] \cap edge[f] # {}
                   /\ e < task_vi \/ (e = task_vi /\ f < sec_vi)}

IsLast(e, S) == e \in S /\ \A d \in S : d <= e

GroupingInv ==
  /\ located \subseteq Tasks
  /\ group_id \in [Tasks -> Nat]
  /\ task_vi \in 1..(N + 1) /\ sec_vi \in (task_vi + 1)..(N + 2)
  /\ grouped = {f \in located : f < task_vi}
  /\ \A f \in located :
       /\ f < task_vi => group_id[f] # NoGroup
       /\ task_vi \in Seen(f) => group_id[task_vi] # NoGroup
       /\ \/ /\ Seen(f) = {}
             /\ group_id[f] \in {NoGroup, f}
             /\ f > task_vi => group_id[f] = NoGroup
          \/ \E e \in located : IsLast(e, Seen(f)) /\ group_id[f] = group_id[e]
=============================================================================
