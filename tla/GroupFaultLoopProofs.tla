------------------------ MODULE GroupFaultLoopProofs ------------------------
(***************************************************************************)
(* The loops of GroupFault compute the grouping FaultLocation uses, for a  *)
(* task list of any length and any edge breakers.                          *)
(***************************************************************************)
EXTENDS GroupFaultLoop, TLAPS

\* Nothing has been compared yet and no fault has a group (GroupFault is
\* entered).
LEMMA InitGrouping == Init => GroupingInv
<1> SUFFICES ASSUME Init PROVE GroupingInv
  OBVIOUS
<1>1. N \in Nat /\ N >= 1
  BY NAssumption
<1>2. /\ located \subseteq Tasks
      /\ group_id \in [Tasks -> Nat]
      /\ task_vi \in 1..(N + 1) /\ sec_vi \in (task_vi + 1)..(N + 2)
  BY <1>1 DEF Init, Tasks, NoGroup
<1>3. \A f \in located : f \in Nat /\ f >= 1
  BY <1>1, <1>2 DEF Tasks
<1>4. ASSUME NEW f \in located
      PROVE  Seen(f) = {} /\ ~(f < task_vi) /\ group_id[f] = NoGroup
  <2>1. \A e \in located : ~(e < f /\ (e < 1 \/ (e = 1 /\ f < 2)))
    BY <1>3
  <2>2. Seen(f) = {}
    BY <2>1 DEF Seen, Init
  <2>3. QED
    BY <1>2, <1>3, <2>2 DEF Init
<1>5. grouped = {f \in located : f < task_vi}
  BY <1>4 DEF Init
<1>6. \A f \in located : task_vi \notin Seen(f)
  BY <1>4
<1>7. QED
  BY <1>2, <1>4, <1>5, <1>6 DEF GroupingInv

\* The outer loop goes past a fault that is not located: what has been
\* compared stays the same.
LEMMA SkipOuterGrouping == GroupingInv /\ SkipOuter => GroupingInv'
<1> SUFFICES ASSUME GroupingInv, SkipOuter PROVE GroupingInv'
  OBVIOUS
<1>1. N \in Nat /\ Tasks \subseteq Nat /\ located \subseteq Tasks /\ task_vi \in Tasks /\ task_vi \in Nat /\ sec_vi \in Nat
  BY NAssumption DEF Tasks, GroupingInv, SkipOuter
<1>2. task_vi \notin located
  BY <1>1 DEF GroupingInv, SkipOuter, CalcIso
<1>3. /\ located' = located /\ group_id' = group_id /\ edge' = edge /\ grouped' = grouped
      /\ task_vi' = task_vi + 1 /\ sec_vi' = task_vi + 2
  BY DEF SkipOuter
<1>4. /\ (located \subseteq Tasks)'
      /\ (group_id \in [Tasks -> Nat])'
      /\ (task_vi \in 1..(N + 1) /\ sec_vi \in (task_vi + 1)..(N + 2))'
  BY <1>1, <1>3 DEF GroupingInv, Tasks
<1>5. (grouped = {f \in located : f < task_vi})'
  <2>1. \A f \in located : f < task_vi + 1 <=> f < task_vi
    BY <1>1, <1>2
  <2>2. QED
    BY <1>3, <2>1 DEF GroupingInv
<1>6. ASSUME NEW f \in located PROVE Seen(f)' = Seen(f) /\ task_vi' \notin Seen(f)'
  <2>1. \A e \in located :
          /\ e # task_vi /\ e \in Nat /\ f \in Nat
          /\ e < f /\ (e < task_vi + 1 \/ (e = task_vi + 1 /\ f < task_vi + 2))
               <=> e < f /\ (e < task_vi \/ (e = task_vi /\ f < sec_vi))
          /\ ~(task_vi + 1 < f /\ f < task_vi + 2) /\ ~(task_vi + 1 < task_vi + 1)
    BY <1>1, <1>2
  <2>2. QED
    BY <1>1, <1>3, <2>1 DEF Seen
<1>7. ASSUME NEW f \in located, f < task_vi' PROVE group_id[f] # NoGroup
  BY <1>1, <1>2, <1>3, <1>7 DEF GroupingInv
<1>8. ASSUME NEW f \in located
      PROVE  (\/ /\ Seen(f) = {}
                 /\ group_id[f] \in {NoGroup, f}
                 /\ f > task_vi => group_id[f] = NoGroup
              \/ \E e \in located : IsLast(e, Seen(f)) /\ group_id[f] = group_id[e])'
  BY <1>1, <1>3, <1>6 DEF GroupingInv, IsLast
<1>9. QED
  BY <1>3, <1>4, <1>5, <1>6, <1>7, <1>8 DEF GroupingInv

\* One comparison: a fault that shares a breaker with the outer fault takes
\* its group, and the outer fault is the last it has been compared with.
LEMMA CompareGrouping == GroupingInv /\ Compare => GroupingInv'
<1> SUFFICES ASSUME GroupingInv, Compare PROVE GroupingInv'
  OBVIOUS
<1> DEFINE t == task_vi
           s == sec_vi
           g == IF group_id[t] = NoGroup THEN t ELSE group_id[t]
           joins == s \in located /\ edge[t] \cap edge[s] # {}
<1>1. /\ N \in Nat /\ Tasks = 1..N /\ located \subseteq Tasks /\ t \in Tasks /\ s \in Tasks
      /\ t \in Nat /\ s \in Nat /\ t >= 1 /\ t < s /\ s <= N /\ group_id \in [Tasks -> Nat]
  BY NAssumption DEF Tasks, GroupingInv, Compare
<1>2. t \in located /\ t \notin grouped /\ s \notin grouped
  BY <1>1 DEF GroupingInv, Compare, CalcIso
<1>3. /\ located' = located /\ edge' = edge /\ grouped' = grouped /\ task_vi' = t /\ sec_vi' = s + 1
      /\ group_id' = IF joins THEN [group_id EXCEPT ![t] = g, ![s] = g] ELSE group_id
  BY <1>2 DEF Compare, CalcIso
<1>4. g \in Nat /\ g # NoGroup
  BY <1>1 DEF NoGroup
<1> HIDE DEF g
<1>5. /\ (located \subseteq Tasks)'
      /\ (group_id \in [Tasks -> Nat])'
      /\ (task_vi \in 1..(N + 1) /\ sec_vi \in (task_vi + 1)..(N + 2))'
  BY <1>1, <1>3, <1>4
<1>6. (grouped = {f \in located : f < task_vi})'
  BY <1>3 DEF GroupingInv
<1>7. ASSUME NEW f \in located
      PROVE  Seen(f)' = IF f = s /\ joins THEN Seen(f) \cup {t} ELSE Seen(f)
  <2>1. f \in Nat
    BY <1>1
  <2>2. ASSUME NEW e \in located, edge[e] \cap edge[f] # {}
        PROVE  (e < f /\ (e < t \/ (e = t /\ f < s + 1)))
                 <=> (e < f /\ (e < t \/ (e = t /\ f < s))) \/ (e = t /\ f = s)
    BY <1>1, <2>1
  <2>3. QED
    BY <1>1, <1>2, <1>3, <2>1, <2>2 DEF Seen
<1>8. CASE ~joins
  <2>1. group_id' = group_id
    BY <1>3, <1>8
  <2>2. \A f \in located : Seen(f)' = Seen(f)
    BY <1>7, <1>8
  <2>3. QED
    BY <1>3, <1>5, <1>6, <2>1, <2>2 DEF GroupingInv, IsLast
<1>9. CASE joins
  <2>1. /\ group_id'[t] = g /\ group_id'[s] = g
        /\ \A f \in Tasks : f # t /\ f # s => group_id'[f] = group_id[f]
        /\ group_id[t] # NoGroup => group_id'[t] = group_id[t]
    BY <1>1, <1>3, <1>9 DEF g
  <2>2. \A f \in located : (f < t => group_id'[f] # NoGroup) /\ group_id'[t] # NoGroup
    BY <1>1, <1>4, <2>1 DEF GroupingInv
  <2>3. ASSUME NEW f \in located
        PROVE  (\/ /\ Seen(f) = {}
                   /\ group_id[f] \in {NoGroup, f}
                   /\ f > task_vi => group_id[f] = NoGroup
                \/ \E e \in located : IsLast(e, Seen(f)) /\ group_id[f] = group_id[e])'
    <3>1. CASE f = s
      <4>1. Seen(f)' = Seen(f) \cup {t}
        BY <1>7, <1>9, <3>1
      <4>2. \A d \in Seen(f) : d <= t
        BY <1>1 DEF Seen
      <4>3. IsLast(t, Seen(f)')
        BY <4>1, <4>2, <1>1 DEF IsLast
      <4>4. QED
        BY <4>3, <1>2, <1>3, <2>1, <3>1 DEF IsLast
    <3>2. CASE f = t
      <4>1. Seen(f)' = Seen(f) /\ t \notin Seen(f) /\ s \notin Seen(f)
        BY <1>1, <1>7, <3>2 DEF Seen
      <4>2. CASE Seen(f) = {} /\ group_id[f] \in {NoGroup, f}
        BY <4>1, <4>2, <2>1, <3>2, <1>1, <1>3 DEF g
      <4>3. CASE \E e \in located : IsLast(e, Seen(f)) /\ group_id[f] = group_id[e]
        <5>1. PICK e \in located : IsLast(e, Seen(f)) /\ group_id[f] = group_id[e]
          BY <4>3
        <5>2. e \in Tasks /\ e # t /\ e # s /\ e < t
          BY <4>1, <5>1, <1>1, <3>2 DEF IsLast, Seen
        <5>3. group_id[e] # NoGroup
          BY <5>2 DEF GroupingInv
        <5>4. group_id'[f] = group_id'[e]
          BY <5>1, <5>2, <5>3, <2>1, <3>2
        <5>5. QED
          BY <5>1, <5>4, <4>1, <1>3 DEF IsLast
      <4>4. QED
        BY <4>2, <4>3 DEF GroupingInv
    <3>3. CASE f # s /\ f # t
      <4>1. Seen(f)' = Seen(f) /\ s \notin Seen(f) /\ group_id'[f] = group_id[f]
        BY <1>1, <1>7, <2>1, <3>3 DEF Seen
      <4>2. CASE \E e \in located : IsLast(e, Seen(f)) /\ group_id[f] = group_id[e]
        <5>1. PICK e \in located : IsLast(e, Seen(f)) /\ group_id[f] = group_id[e]
          BY <4>2
        <5>2. e \in Tasks /\ e # s
          BY <4>1, <5>1, <1>1 DEF IsLast
        <5>3. e = t => group_id[t] # NoGroup
          BY <5>1 DEF GroupingInv, IsLast
        <5>4. group_id'[e] = group_id[e]
          BY <5>2, <5>3, <2>1
        <5>5. QED
          BY <5>1, <5>4, <4>1, <1>3 DEF IsLast
      <4>3. QED
        BY <4>1, <4>2, <1>3 DEF GroupingInv
    <3>4. QED
      BY <3>1, <3>2, <3>3
  <2>4. QED
    BY <1>3, <1>5, <1>6, <2>2, <2>3 DEF GroupingInv
<1>10. QED
  BY <1>8, <1>9

\* The inner loop is over: a fault without a group becomes its own, and none
\* has taken the missing group from it.
LEMMA EndOuterGrouping == GroupingInv /\ EndOuter => GroupingInv'
<1> SUFFICES ASSUME GroupingInv, EndOuter PROVE GroupingInv'
  OBVIOUS
<1> DEFINE t == task_vi
           own == IF group_id[t] = NoGroup THEN t ELSE group_id[t]
<1>1. /\ N \in Nat /\ Tasks = 1..N /\ located \subseteq Tasks /\ t \in Tasks
      /\ t \in Nat /\ t >= 1 /\ t <= N /\ sec_vi \in Nat /\ sec_vi > N /\ group_id \in [Tasks -> Nat]
  BY NAssumption DEF Tasks, GroupingInv, EndOuter
<1>2. t \in located
  BY DEF EndOuter, CalcIso
<1>3. /\ located' = located /\ edge' = edge /\ grouped' = grouped \cup {t}
      /\ task_vi' = t + 1 /\ sec_vi' = t + 2
      /\ group_id' = [group_id EXCEPT ![t] = own]
  BY <1>1 DEF EndOuter
<1>4. own \in Nat /\ own # NoGroup
  BY <1>1 DEF NoGroup
<1>5. /\ group_id'[t] = own
      /\ \A f \in Tasks : f # t => group_id'[f] = group_id[f]
      /\ group_id[t] # NoGroup => own = group_id[t]
      /\ group_id[t] \in {NoGroup, t} => own = t
  BY <1>1, <1>3
<1> HIDE DEF own
<1>6. /\ (located \subseteq Tasks)'
      /\ (group_id \in [Tasks -> Nat])'
      /\ (task_vi \in 1..(N + 1) /\ sec_vi \in (task_vi + 1)..(N + 2))'
  BY <1>1, <1>3, <1>4
<1>7. (grouped = {f \in located : f < task_vi})'
  <2>1. grouped = {f \in located : f < t}
    BY DEF GroupingInv
  <2>2. \A f \in located : f < t + 1 <=> f < t \/ f = t
    BY <1>1
  <2>3. QED
    BY <1>2, <1>3, <2>1, <2>2
<1>8. ASSUME NEW f \in located PROVE Seen(f)' = Seen(f) /\ (t + 1) \notin Seen(f)
  BY <1>1, <1>3 DEF Seen
<1>9. \A f \in located : f < t + 1 => group_id'[f] # NoGroup
  BY <1>1, <1>4, <1>5 DEF GroupingInv
<1>10. ASSUME NEW f \in located
       PROVE  (\/ /\ Seen(f) = {}
                  /\ group_id[f] \in {NoGroup, f}
                  /\ f > task_vi => group_id[f] = NoGroup
               \/ \E e \in located : IsLast(e, Seen(f)) /\ group_id[f] = group_id[e])'
  <2>1. CASE \E e \in located : IsLast(e, Seen(f)) /\ group_id[f] = group_id[e]
    <3>1. PICK e \in located : IsLast(e, Seen(f)) /\ group_id[f] = group_id[e]
      BY <2>1
    <3>2. e \in Tasks /\ e \in Seen(f) /\ e <= t /\ e < f
      BY <3>1, <1>1 DEF IsLast, Seen
    <3>3. group_id[e] # NoGroup
      <4>1. CASE e < t
        BY <4>1 DEF GroupingInv
      <4>2. CASE e = t
        BY <3>2, <4>2 DEF GroupingInv
      <4>3. QED
        BY <3>2, <1>1, <4>1, <4>2
    <3>4. group_id'[e] = group_id[e]
      BY <3>2, <3>3, <1>5
    <3>5. group_id'[f] = group_id[f]
      BY <3>1, <3>3, <1>1, <1>5
    <3>6. QED
      BY <3>1, <3>4, <3>5, <1>3, <1>8 DEF IsLast
  <2>2. CASE /\ Seen(f) = {} /\ group_id[f] \in {NoGroup, f}
             /\ f > t => group_id[f] = NoGroup
    <3>1. f = t => group_id'[f] = f
      BY <2>2, <1>5
    <3>2. f # t => group_id'[f] = group_id[f]
      BY <1>1, <1>5
    <3>3. f > t + 1 => f > t /\ f # t
      BY <1>1
    <3>4. QED
      BY <2>2, <3>1, <3>2, <3>3, <1>1, <1>3, <1>8
  <2>3. QED
    BY <2>1, <2>2 DEF GroupingInv
<1>11. QED
  BY <1>3, <1>6, <1>7, <1>8, <1>9, <1>10 DEF GroupingInv

\* Of what the loops have compared, the latest decides the group, at every
\* step of GroupFault.
THEOREM LoopGroupingInv == Spec => []GroupingInv
<1>1. Init => GroupingInv
  BY InitGrouping
<1>2. GroupingInv /\ [Next]_vars => GroupingInv'
  <2> SUFFICES ASSUME GroupingInv, [Next]_vars PROVE GroupingInv'
    OBVIOUS
  <2>1. CASE UNCHANGED vars
    BY <2>1 DEF vars, GroupingInv, Seen, IsLast
  <2>2. QED
    BY <2>1, SkipOuterGrouping, CompareGrouping, EndOuterGrouping DEF Next
<1>3. QED
  BY <1>1, <1>2, PTL DEF Spec

\* A list of 1..N has every number at its own position.
LEMMA PositionOfNumber ==
  ASSUME NEW x \in Tasks
  PROVE  Position([i \in Tasks |-> i], x) = x
BY DEF Position

\* When the loops are over the invariant is the closed form: everything has
\* been compared, so a fault has the group of the last earlier one it shares a
\* breaker with.
LEMMA DoneIsGrouping == GroupingInv => LoopComputesGrouping
<1> SUFFICES ASSUME GroupingInv, Done
             PROVE  /\ grouped = located
                    /\ IsGrouping(group_id, [i \in Tasks |-> i], located, edge)
  BY DEF LoopComputesGrouping
<1> DEFINE list == [i \in Tasks |-> i]
<1>1. N \in Nat /\ Tasks = 1..N /\ located \subseteq Tasks /\ task_vi \in Nat /\ task_vi > N
  BY NAssumption DEF Tasks, GroupingInv, Done
<1>2. grouped = located
  <2>1. \A f \in located : f < task_vi
    BY <1>1
  <2>2. QED
    BY <2>1 DEF GroupingInv
<1>3. \A x \in located : Position(list, x) = x
  BY <1>1, PositionOfNumber
<1> HIDE DEF list
<1>4. ASSUME NEW f \in located
      PROVE  LET sharers == EarlierSharers(list, located, edge, f)
             IN  group_id[f] = IF sharers = {} THEN f ELSE group_id[LastOf(list, sharers)]
  <2> DEFINE sharers == EarlierSharers(list, located, edge, f)
  <2>1. sharers = Seen(f)
    <3>1. \A e \in located : e < task_vi
      BY <1>1
    <3>2. QED
      BY <1>3, <3>1 DEF EarlierSharers, Seen
  <2>2. sharers \subseteq located
    BY DEF EarlierSharers
  <2> HIDE DEF sharers
  <2>3. CASE \E e \in located : IsLast(e, sharers) /\ group_id[f] = group_id[e]
    <3>1. PICK e \in located : IsLast(e, sharers) /\ group_id[f] = group_id[e]
      BY <2>3
    <3>2. \A d \in sharers : Position(list, d) <= Position(list, e)
      BY <3>1, <2>2, <1>3 DEF IsLast
    <3>3. \A c \in sharers : (\A d \in sharers : Position(list, d) <= Position(list, c)) => c = e
      BY <3>1, <2>2, <1>1, <1>3 DEF IsLast
    <3>4. LastOf(list, sharers) = e
      BY <3>1, <3>2, <3>3 DEF LastOf, IsLast
    <3>5. sharers # {}
      BY <3>1 DEF IsLast
    <3>6. QED
      BY <3>1, <3>4, <3>5 DEF sharers
  <2>4. CASE sharers = {} /\ group_id[f] \in {NoGroup, f}
    <3>1. group_id[f] # NoGroup
      BY <1>1 DEF GroupingInv
    <3>2. QED
      BY <2>4, <3>1 DEF sharers
  <2>5. QED
    BY <2>1, <2>3, <2>4 DEF GroupingInv
<1>5. QED
  BY <1>2, <1>4 DEF IsGrouping, list

\* GroupFault ends with the grouping that FaultLocation takes for its outcome,
\* whatever the faults and their edge breakers are.
THEOREM LoopGrouping == Spec => []LoopComputesGrouping
<1>1. Spec => []GroupingInv
  BY LoopGroupingInv
<1>2. QED
  BY <1>1, DoneIsGrouping, PTL
=============================================================================
