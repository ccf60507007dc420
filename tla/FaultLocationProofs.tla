------------------------ MODULE FaultLocationProofs ------------------------
(***************************************************************************)
(* Invariants of FaultLocation for every number of signals, every time-out *)
(* and every delay of the producers, with or without ConfigRace.           *)
(***************************************************************************)
EXTENDS FaultLocation, TaskListProofs

LEMMA InitTypeOK == Init => TypeOK
BY LocationAssumption DEF Init, TypeOK, Times, Steps

\* RemoveTask and RemoveTasks keep the types of what they write.
LEMMA RemoveType ==
  ASSUME TypeOK, NEW S, Remove(S)
  PROVE  /\ g_lstTask' \in Seq(Times)
         /\ next_step' \in [Times -> Steps]
         /\ edge' \in [Times -> EdgeSets \cup {{}}]
         /\ group_id' \in [Times -> Times \cup {NoGroup}]
<1>1. g_lstTask' \in Seq(Times)
  BY EraseProperties DEF TypeOK, Remove
<1>2. QED
  BY <1>1 DEF TypeOK, Remove, Steps

\* Marking the collected signals keeps lst_fault a list of faults per signal.
LEMMA MarkUsedType ==
  ASSUME TypeOK, NEW f \in Times, MarkUsed(f)
  PROVE  lst_fault' \in [Times -> Seq(Times)] /\ UNCHANGED <<g_lstTrig, start>>
BY DEF TypeOK, MarkUsed

LEMMA ClearType ==
  ASSUME TypeOK, ClearTimeoutTrig
  PROVE  /\ g_lstTrig' \in Seq(Times)
         /\ start' \in SUBSET Times
         /\ lst_fault' \in [Times -> Seq(Times)]
<1>1. ASSUME NEW p, NEW t, NEW k \in FirstTooOld(p, t), KeepFrom(k), p \in DOMAIN g_lstTrig
      PROVE  /\ g_lstTrig' \in Seq(Times)
             /\ start' \in SUBSET Times
             /\ lst_fault' \in [Times -> Seq(Times)]
  <2>1. k \in 1..Len(g_lstTrig)
    BY <1>1 DEF FirstTooOld, TypeOK
  <2>2. g_lstTrig' \in Seq(Times)
    BY <1>1, <2>1 DEF KeepFrom, TypeOK
  <2>3. QED
    BY <1>1, <2>2 DEF KeepFrom, TypeOK
<1>2. CASE UNCHANGED sigVars
  BY <1>2 DEF TypeOK, sigVars
<1>3. CASE g_lstTask[1] \in Members(g_lstTrig)
  <2>1. Own(g_lstTask[1]) \in DOMAIN g_lstTrig
    BY <1>3 DEF Own, Position, Members
  <2>2. QED
    BY <1>1, <1>2, <1>3, <2>1 DEF ClearTimeoutTrig
<1>4. QED
  BY <1>2, <1>3 DEF ClearTimeoutTrig

LEMMA NextTypeOK == TypeOK /\ [Next]_vars => TypeOK'
<1> SUFFICES ASSUME TypeOK, [Next]_vars
             PROVE  TypeOK'
  OBVIOUS
<1> USE LocationAssumption DEF sigVars, taskVars
<1>1. CASE Tick
  <2>1. now' \in Times
    BY <1>1 DEF Tick, TypeOK, Times
  <2>2. QED
    BY <1>1, <2>1 DEF Tick, TypeOK
<1>2. CASE Restart
  BY <1>2 DEF Restart, TypeOK, Steps
<1>3. ASSUME NEW p \in Producers, Stamp(p) \/ Discard(p) \/ Push(p)
      PROVE  TypeOK'
  <2>1. stamped[p] \in Times \cup {NoStamp}
    BY DEF TypeOK
  <2>2. CASE Stamp(p)
    BY <2>2 DEF Stamp, TypeOK
  <2>3. CASE Discard(p)
    BY <2>3 DEF Discard, TypeOK
  <2>4. CASE Push(p)
    <3>1. stamped[p] \in Times
      BY <2>1, <2>4 DEF Push
    <3>2. g_lstTrig' \in Seq(Times) /\ start' \in SUBSET Times
      BY <2>4, <3>1 DEF Push, TypeOK
    <3>3. stamped' \in [Producers -> Times \cup {NoStamp}]
      BY <2>4 DEF Push, TypeOK
    <3>4. QED
      BY <2>4, <3>2, <3>3 DEF Push, TypeOK
  <2>5. QED
    BY <1>3, <2>2, <2>3, <2>4
<1>4. CASE AlarmScan \/ AlarmStartLost \/ AlarmIdle
  BY <1>4 DEF AlarmScan, AlarmStartLost, AlarmIdle, TypeOK
<1>5. CASE AlarmStart
  <2>1. PICK i \in DOMAIN g_lstTrig :
          /\ g_lstTask' = Append(g_lstTask, g_lstTrig[i])
          /\ next_step' = [next_step EXCEPT ![g_lstTrig[i]] = "SLEEP"]
    BY <1>5 DEF AlarmStart, UnusedStarts
  <2>2. g_lstTrig[i] \in Times
    BY DEF TypeOK
  <2>3. g_lstTask' \in Seq(Times) /\ next_step' \in [Times -> Steps]
    BY <2>1, <2>2 DEF TypeOK, Steps
  <2>4. QED
    BY <1>5, <2>3 DEF AlarmStart, TypeOK
<1>6. CASE BeginPass
  BY <1>6, ClearType DEF BeginPass, TypeOK
<1>7. CASE EndPass
  BY <1>7 DEF EndPass, TypeOK
<1>8. CASE VisitSleep
  <2>1. \A p, t : Collected(p, t) \subseteq Times \/ p \notin DOMAIN g_lstTrig
    BY DEF Collected, TypeOK
  <2>2. g_lstTask[visit] \in Members(g_lstTrig) => Own(g_lstTask[visit]) \in DOMAIN g_lstTrig
    BY DEF Own, Position, Members
  <2>3. g_lstSecTrig' \in SUBSET Times
    BY <1>8, <2>1, <2>2 DEF VisitSleep, TypeOK
  <2>4. next_step' \in [Times -> Steps]
    BY <1>8 DEF VisitSleep, TypeOK, Steps
  <2>5. QED
    BY <1>8, <2>3, <2>4 DEF VisitSleep, TypeOK
<1>9. CASE VisitCalcOk
  <2>1. g_lstTask[visit] \in Times
    BY <1>9 DEF VisitCalcOk, Visiting, TypeOK
  <2>2. /\ lst_fault' \in [Times -> Seq(Times)]
        /\ UNCHANGED <<g_lstTrig, start>>
    BY <1>9, <2>1, MarkUsedType DEF VisitCalcOk
  <2>3. /\ next_step' \in [Times -> Steps]
        /\ edge' \in [Times -> EdgeSets \cup {{}}]
    BY <1>9, <2>1 DEF VisitCalcOk, TypeOK, Steps
  <2>4. QED
    BY <1>9, <2>2, <2>3 DEF VisitCalcOk, TypeOK
<1>10. CASE VisitCalcFail
  <2>1. g_lstTask[visit] \in Times
    BY <1>10 DEF VisitCalcFail, Visiting, TypeOK
  <2>2. QED
    BY <1>10, <2>1, MarkUsedType, RemoveType DEF VisitCalcFail, TypeOK, SecondNode
<1>11. CASE VisitCalcIso
  <2>1. ASSUME GroupFault
        PROVE  group_id' \in [Times -> Times \cup {NoGroup}] /\ next_step' \in [Times -> Steps]
    BY <2>1 DEF GroupFault, At, TypeOK, Steps
  <2>2. group_id' \in [Times -> Times \cup {NoGroup}] /\ next_step' \in [Times -> Steps]
    BY <1>11, <2>1 DEF VisitCalcIso, TypeOK
  <2>3. QED
    BY <1>11, <2>2 DEF VisitCalcIso, TypeOK
<1>12. CASE VisitGrouped
  BY <1>12, RemoveType DEF VisitGrouped, TypeOK, SecondNode, Steps
<1>13. CASE VisitPlanned
  BY <1>13 DEF VisitPlanned, TypeOK
<1>14. CASE FinishGroup
  BY <1>14, RemoveType DEF FinishGroup, TypeOK
<1>15. CASE UNCHANGED vars
  BY <1>15 DEF vars, TypeOK
<1>16. QED
  BY <1>1, <1>2, <1>3, <1>4, <1>5, <1>6, <1>7, <1>8, <1>9, <1>10, <1>11,
     <1>12, <1>13, <1>14, <1>15 DEF Next, Process, Visit

\* The variables of the real-time server's threads always have their types
\* (all of main.cpp's handlers that FaultLocation models).
THEOREM TypeCorrect == Spec => []TypeOK
BY InitTypeOK, NextTypeOK, PTL DEF Spec
-----------------------------------------------------------------------------
LEMMA InitSignalOrder == Init => SignalOrderInv
BY DEF Init, SignalOrderInv, OneLocating, TasksListed, StampsDistinct,
       TasksInSignalOrder, OwnSignalUsed, EarlierStartsUsed, GroupIdsSet,
       Locating, HasTask, At, Members, Distinct

\* Steps that write neither list, nor a step of a fault, nor the clock.
LEMMA UnchangedSignalOrder ==
  ASSUME TypeOK, SignalOrderInv,
         UNCHANGED <<now, fresh, stamped, sigVars, g_lstSecTrig, g_lstTask, next_step, group_id>>,
         alarm' = alarm \/ alarm' = "scan"
  PROVE  SignalOrderInv'
BY DEF sigVars, SignalOrderInv, OneLocating, TasksListed, StampsDistinct,
       TasksInSignalOrder, OwnSignalUsed, EarlierStartsUsed, GroupIdsSet,
       Locating, HasTask, At, Members, Distinct, Located

\* Steps of thread_process that move faults on but add and remove none.
LEMMA StepSignalOrder ==
  ASSUME TypeOK, SignalOrderInv,
         UNCHANGED <<now, fresh, stamped, g_lstTrig, start, g_lstTask, alarm>>,
         HasTask' = HasTask, Locating' \subseteq Locating,
         \A x \in Times : Located(x) => lst_fault'[x] # <<>>,
         OwnSignalUsed', GroupIdsSet'
  PROVE  SignalOrderInv'
<1>1. OneLocating'
  BY DEF SignalOrderInv, OneLocating
<1>2. TasksListed' /\ TasksInSignalOrder' /\ StampsDistinct'
  BY DEF SignalOrderInv, TasksListed, TasksInSignalOrder, StampsDistinct, Members, Distinct
<1>3. EarlierStartsUsed'
  BY DEF SignalOrderInv, EarlierStartsUsed, TypeOK, Located
<1>4. QED
  BY <1>1, <1>2, <1>3 DEF SignalOrderInv

\* RemoveTask and RemoveTasks: the list keeps its order.
LEMMA RemoveSignalOrder ==
  ASSUME TypeOK, SignalOrderInv, NEW S, Remove(S),
         UNCHANGED <<now, fresh, stamped, g_lstTrig, start, g_lstSecTrig, alarm>>,
         \A x \in Times : Located(x) => lst_fault'[x] # <<>>
  PROVE  SignalOrderInv'
<1>1. /\ \A f \in Times \ S : next_step'[f] = next_step[f]
      /\ \A f \in Times \cap S : next_step'[f] = "none"
  BY DEF Remove
<1>2. /\ HasTask' = HasTask \ S
      /\ Locating' = Locating \ S
      /\ At({"CALC"})' = At({"CALC"}) \ S
  BY <1>1 DEF HasTask, Locating, At
<1>3. OneLocating'
  BY <1>2 DEF SignalOrderInv, OneLocating
<1>4. /\ g_lstTask \in Seq(Times)
      /\ g_lstTask' = Erase(g_lstTask, S)
  BY DEF TypeOK, Remove
<1>5. TasksListed'
  BY <1>2, <1>4, EraseProperties DEF SignalOrderInv, TasksListed
<1>6. TasksInSignalOrder'
  <2>1. HasTask' \subseteq Members(g_lstTrig') \cap start'
    BY <1>2 DEF SignalOrderInv, TasksInSignalOrder, Members
  <2>2. ASSUME NEW i \in DOMAIN g_lstTask', NEW j \in DOMAIN g_lstTask', i < j,
               NEW a \in DOMAIN g_lstTrig, NEW b \in DOMAIN g_lstTrig,
               g_lstTrig[a] = g_lstTask'[i], g_lstTrig[b] = g_lstTask'[j]
        PROVE  a < b
    <3>1. PICK k \in DOMAIN g_lstTask, l \in DOMAIN g_lstTask :
            k < l /\ g_lstTask[k] = g_lstTask'[i] /\ g_lstTask[l] = g_lstTask'[j]
      BY <2>2, <1>4, EraseProperties
    <3>2. QED
      BY <3>1, <2>2 DEF SignalOrderInv, TasksInSignalOrder
  <2>3. QED
    BY <2>1, <2>2 DEF TasksInSignalOrder
<1>7. StampsDistinct'
  BY DEF SignalOrderInv, StampsDistinct, Members, Distinct
<1>8. OwnSignalUsed'
  <2>1. \A f \in At({"CALC"})' : f \in g_lstSecTrig'
    BY <1>2 DEF SignalOrderInv, OwnSignalUsed
  <2>2. \A f \in HasTask' \ Locating' : Located(f)'
    <3>1. HasTask' \ Locating' \subseteq (HasTask \ Locating) \cap Times
      BY <1>2 DEF HasTask
    <3>2. QED
      BY <3>1 DEF SignalOrderInv, OwnSignalUsed, Located
  <2>3. QED
    BY <2>1, <2>2 DEF OwnSignalUsed
<1>9. EarlierStartsUsed'
  BY <1>2 DEF SignalOrderInv, EarlierStartsUsed, TypeOK, Located
<1>10. GroupIdsSet'
  BY DEF SignalOrderInv, GroupIdsSet, Remove
<1>11. QED
  BY <1>3, <1>5, <1>6, <1>7, <1>8, <1>9, <1>10 DEF SignalOrderInv

\* gettimeofday in a fresh tick, the tick itself, and the append.
LEMMA ProducerSignalOrder ==
  ASSUME TypeOK, SignalOrderInv,
         Tick \/ \E p \in Producers : Stamp(p) \/ Discard(p) \/ Push(p)
  PROVE  SignalOrderInv'
<1> USE DEF taskVars, sigVars
<1>1. /\ UNCHANGED <<taskVars, lst_fault, g_lstSecTrig, alarm>>
      /\ HasTask' = HasTask /\ Locating' = Locating
      /\ At({"CALC"})' = At({"CALC"})
  BY DEF Tick, Stamp, Discard, Push, HasTask, Locating, At
<1>2. OneLocating' /\ TasksListed' /\ OwnSignalUsed' /\ GroupIdsSet'
  BY <1>1 DEF SignalOrderInv, OneLocating, TasksListed, OwnSignalUsed, GroupIdsSet, Located
<1>3. ASSUME UNCHANGED sigVars
      PROVE  TasksInSignalOrder' /\ EarlierStartsUsed'
  BY <1>1, <1>3 DEF SignalOrderInv, TasksInSignalOrder, EarlierStartsUsed, Located
<1>4. CASE Tick
  <2>1. /\ now' = now + 1
        /\ UNCHANGED <<stamped, g_lstTrig>>
    BY <1>4 DEF Tick
  <2>2. /\ now \in Int
        /\ \A s \in Members(g_lstTrig) : s \in Int
        /\ \A p \in Producers : stamped[p] \in Int
    <3>1. Times \subseteq Int /\ NoStamp \in Int
      BY DEF Times, NoStamp
    <3>2. ASSUME NEW s \in Members(g_lstTrig)
          PROVE  s \in Times
      BY DEF TypeOK, Members
    <3>3. ASSUME NEW p \in Producers
          PROVE  stamped[p] \in Times \cup {NoStamp}
      BY DEF TypeOK
    <3>4. now \in Times
      BY DEF TypeOK
    <3>5. QED
      BY <3>1, <3>2, <3>3, <3>4
  <2>3. /\ \A s \in Members(g_lstTrig) : s <= now
        /\ \A p \in Producers : stamped[p] # NoStamp => stamped[p] <= now
    BY DEF SignalOrderInv, StampsDistinct
  <2>4. Members(g_lstTrig)' = Members(g_lstTrig) /\ Distinct(g_lstTrig)' = Distinct(g_lstTrig)
    BY <2>1
  <2>5. StampsDistinct'
    BY <2>1, <2>2, <2>3, <2>4 DEF SignalOrderInv, StampsDistinct
  <2>6. QED
    BY <1>2, <1>3, <1>4, <2>5 DEF Tick, SignalOrderInv
<1>5. ASSUME NEW p \in Producers, Stamp(p)
      PROVE  SignalOrderInv'
  <2>1. /\ UNCHANGED <<now, g_lstTrig>>
        /\ fresh /\ fresh' = FALSE
        /\ stamped'[p] = now
        /\ \A q \in Producers : q # p => stamped'[q] = stamped[q]
    BY <1>5 DEF Stamp, TypeOK
  <2>2. Members(g_lstTrig)' = Members(g_lstTrig)
    BY <2>1
  <2>3. \A x \in Members(g_lstTrig) : x \in Times
    BY DEF Members, TypeOK
  <2>4. /\ \A x \in Members(g_lstTrig) : x < now
        /\ \A q \in Producers : stamped[q] # NoStamp => stamped[q] < now
    BY <2>1 DEF SignalOrderInv, StampsDistinct
  <2>5. now \in Int /\ \A q \in Producers : stamped[q] \in Int
    BY DEF TypeOK, Times, NoStamp
  <2>6. StampsDistinct'
    BY <2>1, <2>2, <2>3, <2>4, <2>5 DEF SignalOrderInv, StampsDistinct, Times, NoStamp
  <2>7. QED
    BY <1>2, <1>3, <1>5, <2>6 DEF Stamp, SignalOrderInv
<1>6. ASSUME NEW p \in Producers, Discard(p)
      PROVE  SignalOrderInv'
  <2>1. StampsDistinct'
    BY <1>6 DEF Discard, SignalOrderInv, StampsDistinct, TypeOK
  <2>2. QED
    BY <1>2, <1>3, <1>6, <2>1 DEF Discard, SignalOrderInv
<1>7. ASSUME NEW p \in Producers, Push(p)
      PROVE  SignalOrderInv'
  <2> DEFINE s == stamped[p]
             n == Len(g_lstTrig)
  <2>1. /\ s \in Times /\ n \in Nat
        /\ g_lstTrig \in Seq(Times)
        /\ g_lstTrig' = Append(g_lstTrig, s)
        /\ start \subseteq start' /\ start' \subseteq start \cup {s}
        /\ UNCHANGED <<now, fresh>>
        /\ stamped'[p] = NoStamp
        /\ \A q \in Producers : q # p => stamped'[q] = stamped[q]
    BY <1>7 DEF Push, TypeOK
  <2>2. /\ DOMAIN g_lstTrig = 1..n
        /\ DOMAIN g_lstTrig' = 1..(n + 1)
        /\ \A i \in 1..n : g_lstTrig'[i] = g_lstTrig[i]
        /\ g_lstTrig'[n + 1] = s
    BY <2>1
  <2>3. Members(g_lstTrig)' = Members(g_lstTrig) \cup {s}
    BY <2>1, <2>2 DEF Members
  <2>4. /\ s <= now /\ (fresh => s < now)
        /\ s \notin Members(g_lstTrig)
        /\ \A q \in Producers : stamped[q] = s => q = p
    BY <1>7 DEF Push, SignalOrderInv, StampsDistinct
  <2> HIDE DEF s, n
  <2>5. Distinct(g_lstTrig)'
    <3>1. \A i \in 1..n : g_lstTrig[i] # s
      BY <2>2, <2>4 DEF Members
    <3>2. \A i, j \in 1..n : g_lstTrig[i] = g_lstTrig[j] => i = j
      BY <2>2 DEF SignalOrderInv, StampsDistinct, Distinct
    <3>3. QED
      BY <2>1, <2>2, <3>1, <3>2 DEF Distinct
  <2>6. StampsDistinct'
    BY <2>1, <2>3, <2>4, <2>5 DEF SignalOrderInv, StampsDistinct, s
  <2>7. HasTask \subseteq Members(g_lstTrig) /\ HasTask \subseteq start
    BY DEF SignalOrderInv, TasksInSignalOrder
  <2>8. \A i \in DOMAIN g_lstTask : g_lstTask[i] \in HasTask
    BY DEF SignalOrderInv, TasksListed, Members
  <2>9. TasksInSignalOrder'
    <3>1. HasTask' \subseteq Members(g_lstTrig)' \cap start'
      BY <1>1, <2>1, <2>3, <2>7
    <3>2. ASSUME NEW i \in DOMAIN g_lstTask, NEW j \in DOMAIN g_lstTask, i < j,
                 NEW a \in 1..(n + 1), NEW b \in 1..(n + 1),
                 g_lstTrig'[a] = g_lstTask[i], g_lstTrig'[b] = g_lstTask[j]
          PROVE  a < b
      <4>1. a # n + 1 /\ b # n + 1
        BY <3>2, <2>2, <2>4, <2>7, <2>8
      <4>2. a \in 1..n /\ b \in 1..n
        BY <4>1, <2>1
      <4>3. QED
        BY <4>2, <3>2, <2>2 DEF SignalOrderInv, TasksInSignalOrder
    <3>3. QED
      BY <1>1, <2>2, <3>1, <3>2 DEF TasksInSignalOrder
  <2>10. EarlierStartsUsed'
    <3> SUFFICES ASSUME NEW i \in 1..(n + 1), NEW j \in 1..(n + 1), i < j,
                        g_lstTrig'[j] \in HasTask, g_lstTrig'[i] \in start'
                 PROVE  Located(g_lstTrig'[i])
      BY <1>1, <2>2 DEF EarlierStartsUsed, Located
    <3>1. j # n + 1
      BY <2>2, <2>4, <2>7
    <3>2. i \in 1..n /\ j \in 1..n
      BY <3>1, <2>1
    <3>3. g_lstTrig[i] \in start
      BY <3>2, <2>1, <2>2, <2>4 DEF Members
    <3>4. QED
      BY <3>2, <3>3, <2>2 DEF SignalOrderInv, EarlierStartsUsed
  <2>11. QED
    BY <1>2, <2>6, <2>9, <2>10 DEF SignalOrderInv
<1>8. QED
  BY <1>4, <1>5, <1>6, <1>7

\* thread_alarm_process: bCanScan, and the fault that is started.
LEMMA AlarmSignalOrder ==
  ASSUME TypeOK, SignalOrderInv, AlarmScan \/ AlarmStart
  PROVE  SignalOrderInv'
<1> USE DEF sigVars, taskVars
<1>1. CASE AlarmScan
  <2>1. UNCHANGED <<HasTask, Locating, At({"CALC"})>>
    BY <1>1 DEF AlarmScan, HasTask, Locating, At
  <2>2. OneLocating'
    BY <1>1, <2>1 DEF AlarmScan, OneLocating
  <2>3. /\ TasksListed' /\ StampsDistinct' /\ TasksInSignalOrder'
        /\ OwnSignalUsed' /\ EarlierStartsUsed' /\ GroupIdsSet'
    BY <1>1, <2>1 DEF AlarmScan, SignalOrderInv, TasksListed, StampsDistinct,
       TasksInSignalOrder, OwnSignalUsed, EarlierStartsUsed, GroupIdsSet, Members,
       Distinct, Located
  <2>4. QED
    BY <2>2, <2>3 DEF SignalOrderInv
<1>2. CASE AlarmStart
  <2>1. PICK i \in UnusedStarts :
          /\ \A j \in UnusedStarts : i <= j
          /\ g_lstTask' = Append(g_lstTask, g_lstTrig[i])
          /\ next_step' = [next_step EXCEPT ![g_lstTrig[i]] = "SLEEP"]
    BY <1>2 DEF AlarmStart
  <2> DEFINE f == g_lstTrig[i]
             n == Len(g_lstTask)
  <2>2. /\ alarm = "start" /\ alarm' = "scan"
        /\ UNCHANGED <<now, fresh, stamped, sigVars, g_lstSecTrig>>
    BY <1>2 DEF AlarmStart
  <2>3. /\ i \in DOMAIN g_lstTrig /\ f \in start /\ ~Located(f)
        /\ f \in Times /\ f \in Members(g_lstTrig)
    BY <2>1 DEF UnusedStarts, TypeOK, Members
  <2>4. Locating = {}
    BY <2>2 DEF SignalOrderInv, OneLocating
  <2>5. f \notin HasTask
    BY <2>3, <2>4 DEF SignalOrderInv, OwnSignalUsed
  <2>6. /\ HasTask' = HasTask \cup {f}
        /\ Locating' = {f}
        /\ At({"CALC"})' = {}
    BY <2>1, <2>3, <2>4 DEF HasTask, Locating, At, TypeOK
  <2>7. /\ n \in Nat
        /\ DOMAIN g_lstTask = 1..n
        /\ DOMAIN g_lstTask' = 1..(n + 1)
        /\ \A k \in 1..n : g_lstTask'[k] = g_lstTask[k]
        /\ g_lstTask'[n + 1] = f
    BY <2>1, <2>3 DEF TypeOK
  <2>8. \A k \in 1..n : g_lstTask[k] \in HasTask
    BY <2>7 DEF SignalOrderInv, TasksListed, Members
  <2>9. OneLocating'
    BY <2>2, <2>6 DEF OneLocating
  <2>10. TasksListed'
    <3>1. Members(g_lstTask)' = Members(g_lstTask) \cup {f}
      BY <2>7 DEF Members
    <3>2. \A k, l \in 1..n : g_lstTask[k] = g_lstTask[l] => k = l
      BY <2>7 DEF SignalOrderInv, TasksListed, Distinct
    <3>3. \A k \in 1..n : g_lstTask[k] # f
      BY <2>5, <2>8
    <3> HIDE DEF f, n
    <3>4. Distinct(g_lstTask)'
      BY <2>7, <3>2, <3>3 DEF Distinct
    <3>5. QED
      BY <3>1, <3>4, <2>6 DEF SignalOrderInv, TasksListed
  <2>11. StampsDistinct'
    BY <2>2 DEF SignalOrderInv, StampsDistinct, Members, Distinct
  \* i is behind the start signals of all tasks: an unused start signal before
  \* one of them contradicts EarlierStartsUsed.
  <2>12. \A a \in DOMAIN g_lstTrig : g_lstTrig[a] \in HasTask => a < i
    <3> SUFFICES ASSUME NEW a \in DOMAIN g_lstTrig, g_lstTrig[a] \in HasTask, ~(a < i)
                 PROVE  FALSE
      OBVIOUS
    <3>1. a \in Int /\ i \in Int
      BY <2>3 DEF TypeOK
    <3>2. a # i
      BY <2>5
    <3>3. i < a
      BY <3>1, <3>2
    <3>4. QED
      BY <3>3, <2>3 DEF SignalOrderInv, EarlierStartsUsed
  <2>13. TasksInSignalOrder'
    <3>1. HasTask' \subseteq Members(g_lstTrig') \cap start'
      BY <2>2, <2>3, <2>6 DEF SignalOrderInv, TasksInSignalOrder, Members
    <3>2. ASSUME NEW k \in 1..(n + 1), NEW l \in 1..(n + 1), k < l,
                 NEW a \in DOMAIN g_lstTrig, NEW b \in DOMAIN g_lstTrig,
                 g_lstTrig[a] = g_lstTask'[k], g_lstTrig[b] = g_lstTask'[l]
          PROVE  a < b
      <4>1. k \in 1..n
        BY <3>2, <2>7
      <4>2. CASE l \in 1..n
        BY <4>1, <4>2, <3>2, <2>7 DEF SignalOrderInv, TasksInSignalOrder
      <4>3. CASE l = n + 1
        <5>1. b = i
          BY <4>3, <3>2, <2>7, <2>3 DEF SignalOrderInv, StampsDistinct, Distinct
        <5>2. g_lstTrig[a] \in HasTask
          BY <4>1, <3>2, <2>7, <2>8
        <5>3. QED
          BY <5>1, <5>2, <2>12
      <4>4. QED
        BY <4>2, <4>3, <2>7
    <3>3. QED
      BY <2>2, <2>7, <3>1, <3>2 DEF TasksInSignalOrder
  <2>14. OwnSignalUsed'
    <3>1. HasTask' \ Locating' = HasTask \ Locating
      BY <2>4, <2>5, <2>6
    <3>2. QED
      BY <3>1, <2>2, <2>6 DEF SignalOrderInv, OwnSignalUsed, Located
  <2>15. EarlierStartsUsed'
    <3> SUFFICES ASSUME NEW a \in DOMAIN g_lstTrig, NEW b \in DOMAIN g_lstTrig, a < b,
                        g_lstTrig[b] \in HasTask \cup {f}, g_lstTrig[a] \in start
                 PROVE  Located(g_lstTrig[a])
      BY <2>2, <2>6 DEF EarlierStartsUsed, Located
    <3>1. CASE g_lstTrig[b] \in HasTask
      BY <3>1 DEF SignalOrderInv, EarlierStartsUsed
    <3>2. CASE g_lstTrig[b] = f
      <4>1. b = i
        BY <3>2, <2>3 DEF SignalOrderInv, StampsDistinct, Distinct
      <4>2. ~(i <= a)
        BY <4>1, <2>3 DEF TypeOK
      <4>3. QED
        BY <4>2, <2>1 DEF UnusedStarts
    <3>3. QED
      BY <3>1, <3>2
  <2>16. GroupIdsSet'
    <3>1. next_step[f] = "none" /\ UNCHANGED group_id
      BY <1>2, <2>3, <2>5 DEF AlarmStart, HasTask, At
    <3>2. QED
      BY <3>1, <2>1, <2>3 DEF SignalOrderInv, GroupIdsSet, TypeOK
  <2>17. QED
    BY <2>9, <2>10, <2>11, <2>13, <2>14, <2>15, <2>16 DEF SignalOrderInv
<1>3. QED
  BY <1>1, <1>2

\* clear_timeout_trig: what it erases is before the start signal of the first
\* task, and so before those of all tasks.
LEMMA ClearSignalOrder ==
  ASSUME TypeOK, SignalOrderInv, BeginPass
  PROVE  SignalOrderInv'
<1> USE DEF taskVars
<1>1. /\ UNCHANGED <<now, fresh, stamped, taskVars, g_lstSecTrig, alarm>>
      /\ g_lstTask # <<>>
      /\ HasTask' = HasTask /\ Locating' = Locating
      /\ At({"CALC"})' = At({"CALC"})
  BY DEF BeginPass, HasTask, Locating, At
<1>2. CASE UNCHANGED sigVars
  BY <1>1, <1>2, UnchangedSignalOrder
<1>3. ASSUME g_lstTask[1] \in Members(g_lstTrig), NEW t,
             NEW k \in FirstTooOld(Own(g_lstTask[1]), t), KeepFrom(k)
      PROVE  SignalOrderInv'
  <2> DEFINE n == Len(g_lstTrig)
             m == n - k + 1
             p == Own(g_lstTask[1])
             gone == {g_lstTrig[i] : i \in 1..(k - 1)}
  <2>1. /\ p \in 1..n /\ g_lstTrig[p] = g_lstTask[1] /\ n \in Nat
        /\ g_lstTrig \in Seq(Times)
    BY <1>3 DEF Own, Position, Members, TypeOK
  <2>2. k \in 1..n /\ k < p /\ m \in Nat
    BY <1>3, <2>1 DEF FirstTooOld
  <2>3. /\ g_lstTrig' = SubSeq(g_lstTrig, k, n)
        /\ start' = start \ gone
        /\ \A s \in Times \ gone : lst_fault'[s] = lst_fault[s]
    BY <1>3 DEF KeepFrom
  <2>4. /\ DOMAIN g_lstTrig = 1..n
        /\ DOMAIN g_lstTrig' = 1..m
        /\ \A i \in 1..m : g_lstTrig'[i] = g_lstTrig[i + k - 1]
        /\ \A i \in 1..m : i + k - 1 \in k..n
    BY <2>1, <2>2, <2>3
  <2> HIDE DEF n, m, p, gone
  <2>5. \A i, j \in 1..n : g_lstTrig[i] = g_lstTrig[j] => i = j
    BY <2>4 DEF SignalOrderInv, StampsDistinct, Distinct
  <2>6. \A i \in 1..n : g_lstTrig[i] \in gone => i < k
    BY <2>1, <2>2, <2>5 DEF gone
  <2>7. Members(g_lstTrig)' \subseteq Members(g_lstTrig)
    <3>1. ASSUME NEW i \in 1..m
          PROVE  g_lstTrig'[i] \in Members(g_lstTrig)
      <4>1. i + k - 1 \in 1..n
        BY <2>1, <2>2, <2>4
      <4>2. QED
        BY <4>1, <2>4 DEF Members
    <3>2. QED
      BY <3>1, <2>4 DEF Members
  <2>8. \A i \in 1..n : g_lstTrig[i] \in HasTask => p <= i
    <3> SUFFICES ASSUME NEW i \in 1..n, g_lstTrig[i] \in HasTask
                 PROVE  p <= i
      OBVIOUS
    <3>1. PICK l \in DOMAIN g_lstTask : g_lstTask[l] = g_lstTrig[i]
      BY DEF SignalOrderInv, TasksListed, Members
    <3>2. l \in Nat /\ (l = 1 \/ 1 < l) /\ 1 \in DOMAIN g_lstTask
      BY <1>1 DEF TypeOK
    <3>3. CASE l = 1
      BY <3>1, <3>3, <2>1, <2>5
    <3>4. CASE 1 < l
      BY <3>1, <3>2, <3>4, <2>1, <2>4 DEF SignalOrderInv, TasksInSignalOrder
    <3>5. QED
      BY <3>2, <3>3, <3>4
  <2>9. \A i \in 1..n : g_lstTrig[i] \in HasTask => i - k + 1 \in 1..m /\ g_lstTrig'[i - k + 1] = g_lstTrig[i]
    BY <2>1, <2>2, <2>4, <2>8 DEF m
  <2>10. \A f \in HasTask : f \notin gone /\ f \in Members(g_lstTrig)'
    <3> SUFFICES ASSUME NEW f \in HasTask
                 PROVE  f \notin gone /\ f \in Members(g_lstTrig)'
      OBVIOUS
    <3>1. PICK i \in 1..n : g_lstTrig[i] = f
      BY <2>4 DEF SignalOrderInv, TasksInSignalOrder, Members
    <3>2. p <= i /\ k < p
      BY <3>1, <2>8, <2>2
    <3>3. ~(i < k)
      BY <3>2, <2>1, <2>2
    <3>4. f \notin gone
      BY <3>1, <3>3, <2>6
    <3>5. f \in Members(g_lstTrig)'
      BY <3>1, <2>9, <2>4 DEF Members
    <3>6. QED
      BY <3>4, <3>5
  <2>11. OneLocating' /\ TasksListed' /\ GroupIdsSet'
    BY <1>1 DEF SignalOrderInv, OneLocating, TasksListed, GroupIdsSet
  <2>12. StampsDistinct'
    <3>1. \A i, j \in 1..m : g_lstTrig'[i] = g_lstTrig'[j] => i = j
      <4> SUFFICES ASSUME NEW i \in 1..m, NEW j \in 1..m, g_lstTrig'[i] = g_lstTrig'[j]
                   PROVE  i = j
        OBVIOUS
      <4>1. i + k - 1 \in 1..n /\ j + k - 1 \in 1..n
        <5>1. k..n \subseteq 1..n
          BY <2>1, <2>2
        <5>2. QED
          BY <2>4, <5>1
      <4>2. g_lstTrig[i + k - 1] = g_lstTrig[j + k - 1]
        BY <2>4
      <4>3. i + k - 1 = j + k - 1
        BY <2>5, <4>1, <4>2
      <4>4. QED
        BY <2>2, <4>3
    <3>2. Distinct(g_lstTrig)'
      BY <3>1, <2>4 DEF Distinct
    <3>3. QED
      BY <1>1, <2>7, <3>2 DEF SignalOrderInv, StampsDistinct
  <2>13. TasksInSignalOrder'
    <3>1. HasTask' \subseteq Members(g_lstTrig)' \cap start'
      BY <1>1, <2>3, <2>10 DEF SignalOrderInv, TasksInSignalOrder
    <3>2. ASSUME NEW i \in DOMAIN g_lstTask, NEW j \in DOMAIN g_lstTask, i < j,
                 NEW a \in 1..m, NEW b \in 1..m,
                 g_lstTrig'[a] = g_lstTask[i], g_lstTrig'[b] = g_lstTask[j]
          PROVE  a < b
      <4>1. /\ a + k - 1 \in 1..n /\ b + k - 1 \in 1..n
            /\ g_lstTrig[a + k - 1] = g_lstTask[i]
            /\ g_lstTrig[b + k - 1] = g_lstTask[j]
        BY <3>2, <2>1, <2>2, <2>4
      <4>2. a + k - 1 < b + k - 1
        BY <4>1, <3>2, <2>4 DEF SignalOrderInv, TasksInSignalOrder
      <4>3. QED
        BY <4>2, <2>2
    <3>3. QED
      BY <1>1, <2>4, <3>1, <3>2 DEF TasksInSignalOrder
  <2>14. OwnSignalUsed'
    <3>1. \A f \in HasTask : lst_fault'[f] = lst_fault[f]
      BY <2>3, <2>10 DEF HasTask
    <3>2. QED
      BY <1>1, <3>1 DEF SignalOrderInv, OwnSignalUsed, Located
  <2>15. EarlierStartsUsed'
    <3> SUFFICES ASSUME NEW i \in 1..m, NEW j \in 1..m, i < j,
                        g_lstTrig'[j] \in HasTask, g_lstTrig'[i] \in start'
                 PROVE  lst_fault'[g_lstTrig'[i]] # <<>>
      BY <1>1, <2>4 DEF EarlierStartsUsed, Located
    <3>1. /\ i + k - 1 \in 1..n /\ j + k - 1 \in 1..n
          /\ i + k - 1 < j + k - 1
          /\ g_lstTrig'[i] = g_lstTrig[i + k - 1]
          /\ g_lstTrig'[j] = g_lstTrig[j + k - 1]
      BY <2>1, <2>2, <2>4
    <3>2. g_lstTrig'[i] \in start /\ g_lstTrig'[i] \notin gone
      BY <2>3
    <3>3. Located(g_lstTrig[i + k - 1])
      BY <3>1, <3>2, <2>4 DEF SignalOrderInv, EarlierStartsUsed
    <3>4. g_lstTrig[i + k - 1] \in Times
      BY <3>1, <2>1, <2>4
    <3>5. QED
      BY <3>1, <3>2, <3>3, <3>4, <2>3 DEF Located
  <2>16. QED
    BY <2>11, <2>12, <2>13, <2>14, <2>15 DEF SignalOrderInv
<1>4. QED
  BY <1>2, <1>3 DEF BeginPass, ClearTimeoutTrig

\* A located fault has used its own start signal.
LEMMA MarkUsedGrows ==
  ASSUME TypeOK, NEW f \in Times, MarkUsed(f)
  PROVE  /\ \A x \in Times : Located(x) => lst_fault'[x] # <<>>
         /\ \A x \in g_lstSecTrig \cap Members(g_lstTrig) : lst_fault'[x] # <<>>
<1>1. ASSUME NEW x \in Times
      PROVE  /\ lst_fault'[x] = lst_fault[x] \/ lst_fault'[x] = Append(lst_fault[x], f)
             /\ x \in g_lstSecTrig \cap Members(g_lstTrig) => lst_fault'[x] = Append(lst_fault[x], f)
  BY DEF MarkUsed
<1>2. \A x \in Times : lst_fault[x] \in Seq(Times)
  BY DEF TypeOK
<1>3. ASSUME NEW x \in Times
      PROVE  Append(lst_fault[x], f) # <<>>
  <2>1. Len(Append(lst_fault[x], f)) = Len(lst_fault[x]) + 1
    BY <1>2
  <2>2. Len(lst_fault[x]) \in Nat /\ Len(<<>>) = 0
    BY <1>2
  <2>3. QED
    BY <2>1, <2>2
<1>4. QED
  BY <1>1, <1>3 DEF Located, TypeOK

\* The nodes of a pass.
LEMMA VisitSignalOrder ==
  ASSUME TypeOK, SignalOrderInv, Visit \/ FinishGroup
  PROVE  SignalOrderInv'
<1> USE DEF sigVars, taskVars
<1>1. CASE VisitSleep
  <2> DEFINE f == g_lstTask[visit]
  <2>1. PICK wait \in TimeoutReads, t \in TimeoutReads :
          IF f \in Members(g_lstTrig) /\ now - f > wait * TicksPerSec
          THEN /\ g_lstSecTrig' = Collected(Own(f), t)
               /\ next_step' = [next_step EXCEPT ![f] = "CALC"]
          ELSE UNCHANGED <<g_lstSecTrig, next_step>>
    BY <1>1 DEF VisitSleep
  <2>2. /\ UNCHANGED <<now, fresh, stamped, sigVars, g_lstTask, group_id, alarm>>
        /\ f \in Times /\ next_step[f] = "SLEEP"
    BY <1>1 DEF VisitSleep, Visiting, TypeOK
  <2>3. CASE UNCHANGED <<g_lstSecTrig, next_step>>
    BY <2>2, <2>3, UnchangedSignalOrder
  <2>4. ASSUME f \in Members(g_lstTrig), g_lstSecTrig' = Collected(Own(f), t),
               next_step' = [next_step EXCEPT ![f] = "CALC"]
        PROVE  SignalOrderInv'
    <3>1. /\ HasTask' = HasTask /\ Locating' = Locating
          /\ f \in Locating
      BY <2>2, <2>4 DEF HasTask, Locating, At, TypeOK
    <3>2. \A g \in At({"CALC"})' : g = f
      BY <2>2, <2>4, <3>1 DEF SignalOrderInv, OneLocating, Locating, At
    <3>3. f \in g_lstSecTrig'
      <4>1. /\ Own(f) \in DOMAIN g_lstTrig /\ g_lstTrig[Own(f)] = f
        BY <2>4 DEF Own, Position, Members
      <4>2. t \in Nat
        BY LocationAssumption DEF TimeoutReads
      <4>3. Sec(f) \in Int
        BY <2>2, LocationAssumption DEF Sec, Times
      <4>4. Own(f) \in 1..Len(g_lstTrig) /\ Len(g_lstTrig) \in Nat
        BY <4>1 DEF TypeOK
      <4> DEFINE q == Own(f)
      <4>5. q \in q..Len(g_lstTrig) /\ q..q = {q}
        BY <4>4
      <4>6. \A j \in q..q : Sec(g_lstTrig[j]) - Sec(g_lstTrig[q]) <= t
        BY <4>1, <4>2, <4>3, <4>5
      <4> HIDE DEF q
      <4>7. g_lstTrig[q] \in Collected(q, t)
        BY <4>5, <4>6 DEF Collected
      <4>8. QED
        BY <4>1, <4>7, <2>4 DEF q
    <3>4. OwnSignalUsed'
      BY <2>2, <3>1, <3>2, <3>3 DEF SignalOrderInv, OwnSignalUsed, Located
    <3>5. GroupIdsSet'
      BY <1>1, <2>2, <2>4 DEF VisitSleep, SignalOrderInv, GroupIdsSet, TypeOK
    <3>6. QED
      BY <2>2, <3>1, <3>4, <3>5, StepSignalOrder DEF Located
  <2>5. QED
    BY <2>1, <2>3, <2>4
<1>2. CASE VisitCalcOk
  <2> DEFINE f == g_lstTask[visit]
  <2>1. /\ UNCHANGED <<now, fresh, stamped, g_lstTrig, start, g_lstSecTrig, g_lstTask, alarm>>
        /\ f \in Times /\ next_step[f] = "CALC"
        /\ MarkUsed(f)
        /\ next_step' = [next_step EXCEPT ![f] = "CALC_ISO"]
    BY <1>2 DEF VisitCalcOk, Visiting, TypeOK, MarkUsed
  <2>2. f \in At({"CALC"}) /\ f \in Locating /\ f \in HasTask
    BY <2>1 DEF At, Locating, HasTask
  <2>3. /\ HasTask' = HasTask
        /\ Locating' = {} /\ At({"CALC"})' = {}
        /\ Locating = {f}
    BY <2>1, <2>2 DEF SignalOrderInv, OneLocating, HasTask, Locating, At, TypeOK
  <2>4. f \in g_lstSecTrig \cap Members(g_lstTrig)
    BY <2>2 DEF SignalOrderInv, OwnSignalUsed, TasksInSignalOrder
  <2>5. /\ \A x \in Times : Located(x) => lst_fault'[x] # <<>>
        /\ lst_fault'[f] # <<>>
    BY <2>1, <2>4, MarkUsedGrows
  <2>6. \A x \in HasTask \ Locating : x \in Times /\ Located(x)
    BY DEF SignalOrderInv, OwnSignalUsed, HasTask
  <2>7. OwnSignalUsed'
    <3>1. \A x \in HasTask : lst_fault'[x] # <<>>
      BY <2>3, <2>5, <2>6
    <3>2. QED
      BY <2>3, <3>1 DEF OwnSignalUsed, Located
  <2>8. GroupIdsSet'
    BY <1>2, <2>1 DEF VisitCalcOk, SignalOrderInv, GroupIdsSet, TypeOK
  <2>9. QED
    BY <2>1, <2>3, <2>5, <2>7, <2>8, StepSignalOrder
<1>3. CASE VisitCalcFail
  <2> DEFINE f == g_lstTask[visit]
  <2>1. /\ UNCHANGED <<now, fresh, stamped, g_lstTrig, start, g_lstSecTrig, alarm>>
        /\ f \in Times /\ MarkUsed(f) /\ Remove({f})
    BY <1>3 DEF VisitCalcFail, Visiting, TypeOK, MarkUsed
  <2>2. \A x \in Times : Located(x) => lst_fault'[x] # <<>>
    BY <2>1, MarkUsedGrows
  <2>3. QED
    BY <2>1, <2>2, RemoveSignalOrder
<1>4. CASE VisitCalcIso
  <2>1. UNCHANGED <<now, fresh, stamped, sigVars, g_lstSecTrig, g_lstTask, alarm>>
    BY <1>4 DEF VisitCalcIso
  <2>2. CASE UNCHANGED <<group_id, next_step>>
    BY <2>1, <2>2, UnchangedSignalOrder
  <2>3. CASE GroupFault
    <3>1. next_step' = [f \in Times |-> IF f \in At({"CALC_ISO"}) THEN "GROUPED" ELSE next_step[f]]
      BY <2>3 DEF GroupFault
    <3>2. HasTask' = HasTask /\ Locating' = Locating /\ At({"CALC"})' = At({"CALC"})
      BY <3>1 DEF HasTask, Locating, At
    <3>3. OwnSignalUsed'
      BY <2>1, <3>2 DEF SignalOrderInv, OwnSignalUsed, Located
    <3>4. GroupIdsSet'
      <4>1. PICK grp \in [At({"CALC_ISO"}) -> At({"CALC_ISO"})] :
              group_id' = [f \in Times |-> IF f \in At({"CALC_ISO"}) THEN grp[f] ELSE group_id[f]]
        BY <2>3 DEF GroupFault
      <4>2. \A f \in At({"CALC_ISO"}) : grp[f] # NoGroup
        BY DEF At, Times, NoGroup
      <4>3. QED
        BY <4>1, <4>2, <3>1 DEF SignalOrderInv, GroupIdsSet, At
    <3>5. QED
      BY <2>1, <3>2, <3>3, <3>4, StepSignalOrder DEF Located
  <2>4. QED
    BY <1>4, <2>2, <2>3 DEF VisitCalcIso
<1>5. CASE VisitGrouped
  <2> DEFINE S == Group(group_id[g_lstTask[visit]])
             f == g_lstTask[visit]
  <2>1. UNCHANGED <<now, fresh, stamped, sigVars, g_lstSecTrig, alarm>>
    BY <1>5 DEF VisitGrouped
  <2>2. CASE Remove(S)
    BY <2>1, <2>2, RemoveSignalOrder DEF Located
  <2>3. ASSUME next_step' = [x \in Times |-> IF x \in S THEN "PLANNED" ELSE next_step[x]],
               UNCHANGED <<g_lstTask, group_id>>
        PROVE  SignalOrderInv'
    <3>1. S \subseteq HasTask
      BY DEF Group
    <3>2. \A x \in S : next_step[x] \in {"GROUPED", "PLANNED"}
      <4>1. f \in Times /\ next_step[f] = "GROUPED"
        BY <1>5 DEF VisitGrouped, Visiting, TypeOK
      <4>2. group_id[f] # NoGroup
        BY <4>1 DEF SignalOrderInv, GroupIdsSet
      <4>3. \A x \in S : x \in Times /\ group_id[x] # NoGroup
        BY <4>2 DEF Group, HasTask
      <4>4. QED
        BY <4>3 DEF SignalOrderInv, GroupIdsSet
    <3>3. /\ HasTask' = HasTask /\ Locating' = Locating
          /\ At({"CALC"})' = At({"CALC"})
      BY <2>3, <3>2 DEF HasTask, Locating, At
    <3>4. OwnSignalUsed'
      BY <2>1, <3>3 DEF SignalOrderInv, OwnSignalUsed, Located
    <3>5. GroupIdsSet'
      BY <2>3, <3>2 DEF SignalOrderInv, GroupIdsSet
    <3>6. QED
      BY <2>1, <2>3, <3>3, <3>4, <3>5, StepSignalOrder DEF Located
  <2>4. QED
    BY <1>5, <2>2, <2>3 DEF VisitGrouped
<1>6. CASE VisitPlanned
  BY <1>6, UnchangedSignalOrder DEF VisitPlanned
<1>7. CASE FinishGroup
  <2>1. PICK g : Remove(Group(g))
    BY <1>7 DEF FinishGroup
  <2>2. QED
    BY <1>7, <2>1, RemoveSignalOrder DEF FinishGroup, Located
<1>8. QED
  BY <1>1, <1>2, <1>3, <1>4, <1>5, <1>6, <1>7 DEF Visit

LEMMA RestartSignalOrder == Restart => SignalOrderInv'
BY DEF Restart, SignalOrderInv, OneLocating, TasksListed, StampsDistinct,
       TasksInSignalOrder, OwnSignalUsed, EarlierStartsUsed, GroupIdsSet,
       Locating, HasTask, At, Members, Distinct

LEMMA NextSignalOrder == TypeOK /\ SignalOrderInv /\ [Next]_vars => SignalOrderInv'
<1> SUFFICES ASSUME TypeOK, SignalOrderInv, [Next]_vars
             PROVE  SignalOrderInv'
  OBVIOUS
<1>1. CASE Tick \/ \E p \in Producers : Stamp(p) \/ Discard(p) \/ Push(p)
  BY <1>1, ProducerSignalOrder
<1>2. CASE Restart
  BY <1>2, RestartSignalOrder
<1>3. CASE AlarmScan \/ AlarmStart
  BY <1>3, AlarmSignalOrder
<1>4. CASE AlarmStartLost \/ AlarmIdle \/ EndPass
  BY <1>4, UnchangedSignalOrder DEF AlarmStartLost, AlarmIdle, EndPass, taskVars
<1>5. CASE BeginPass
  BY <1>5, ClearSignalOrder
<1>6. CASE Visit \/ FinishGroup
  BY <1>6, VisitSignalOrder
<1>7. CASE UNCHANGED vars
  BY <1>7, UnchangedSignalOrder DEF vars, taskVars
<1>8. QED
  BY <1>1, <1>2, <1>3, <1>4, <1>5, <1>6, <1>7 DEF Next, Process

\* The inductive invariant of signals and tasks holds in every reachable state.
THEOREM SignalOrder == Spec => []SignalOrderInv
BY InitSignalOrder, NextSignalOrder, TypeCorrect, PTL DEF Spec

\* At most one fault is being located: the check under task_list_mutex in
\* thread_alarm_process suffices although the task is added without it.
THEOREM AtMostOneLocating == Spec => []OneLocating
<1>1. SignalOrderInv => OneLocating
  BY DEF SignalOrderInv
<1>2. QED
  BY <1>1, SignalOrder, PTL

\* A fault has one task, and the list has no other: no signal starts a second
\* fault while its first one is being handled.
THEOREM OneTaskPerFault == Spec => []TasksListed
<1>1. SignalOrderInv => TasksListed
  BY DEF SignalOrderInv
<1>2. QED
  BY <1>1, SignalOrder, PTL

\* clear_timeout_trig never erases the start signal of a fault that still has
\* to find it, whatever the time-out reads as and however late signals come.
THEOREM StartSignalsKept == Spec => []OwnSignalKept
<1>1. SignalOrderInv => OwnSignalKept
  BY DEF SignalOrderInv, TasksInSignalOrder, OwnSignalKept, HasTask, At
<1>2. QED
  BY <1>1, SignalOrder, PTL

\* No start signal in front of a fault's own is left unlooked at, so erasing
\* what is in front of the first fault loses no fault.
THEOREM NoStartOvertaken == Spec => []EarlierStartsUsed
<1>1. SignalOrderInv => EarlierStartsUsed
  BY DEF SignalOrderInv
<1>2. QED
  BY <1>1, SignalOrder, PTL
-----------------------------------------------------------------------------
\* The last of some faults of the list is one of them.
LEMMA LastIsOne ==
  ASSUME NEW T, NEW lst \in Seq(T), NEW S \in SUBSET Members(lst), S # {}
  PROVE  LastOf(lst, S) \in S
<1> DEFINE K == {Position(lst, e) : e \in S}
<1>1. \A e \in S : Position(lst, e) \in DOMAIN lst /\ lst[Position(lst, e)] = e
  BY DEF Position, Members
<1>2. Len(lst) \in Nat /\ K \in SUBSET (1..Len(lst)) /\ K # {}
  BY <1>1
<1>3. PICK k \in K : \A i \in K : i <= k
  <2> HIDE DEF K
  <2>1. QED
    BY <1>2, LastPosition
<1>4. PICK e \in S : \A d \in S : Position(lst, d) <= Position(lst, e)
  BY <1>3
<1>5. QED
  BY <1>4 DEF LastOf

\* GroupFault: the fault a group is named after has its own id as its group,
\* however long the chain of shared edge breakers is that led there.
LEMMA GroupNamesMember ==
  ASSUME NEW T, NEW lst \in Seq(T), NEW located \in SUBSET Members(lst), NEW edges,
         NEW grp \in [located -> located], IsGrouping(grp, lst, located, edges)
  PROVE  \A f \in located : grp[grp[f]] = grp[f]
<1> DEFINE Bad == {i \in DOMAIN lst : \E f \in located : Position(lst, f) = i /\ grp[grp[f]] # grp[f]}
<1>1. \A f \in located : Position(lst, f) \in DOMAIN lst
  BY DEF Position, Members
<1>2. ASSUME Bad # {}
      PROVE  FALSE
  <2>1. Len(lst) \in Nat /\ Bad \in SUBSET (1..Len(lst))
    OBVIOUS
  <2>2. PICK k \in Bad : \A i \in Bad : k <= i
    <3> HIDE DEF Bad
    <3>1. QED
      BY <1>2, <2>1, FirstPosition
  <2>3. PICK f \in located : Position(lst, f) = k /\ grp[grp[f]] # grp[f]
    BY <2>2
  <2> DEFINE sharers == EarlierSharers(lst, located, edges, f)
  <2>4. grp[f] = IF sharers = {} THEN f ELSE grp[LastOf(lst, sharers)]
    BY DEF IsGrouping
  <2>5. CASE sharers = {}
    BY <2>3, <2>4, <2>5
  <2>6. CASE sharers # {}
    <3>1. sharers \in SUBSET Members(lst)
      BY DEF EarlierSharers
    <3> HIDE DEF sharers
    <3>2. LastOf(lst, sharers) \in sharers
      BY <2>6, <3>1, LastIsOne
    <3>3. PICK e \in located : e = LastOf(lst, sharers) /\ Position(lst, e) < k
      BY <2>3, <3>2 DEF sharers, EarlierSharers
    <3>4. grp[grp[e]] = grp[e]
      <4>1. Position(lst, e) \in DOMAIN lst /\ k \in DOMAIN lst /\ DOMAIN lst = 1..Len(lst)
        BY <1>1, <2>2
      <4>2. ~(k <= Position(lst, e))
        BY <2>1, <3>3, <4>1
      <4>3. QED
        BY <2>2, <4>1, <4>2
    <3>5. grp[f] = grp[e]
      BY <2>4, <2>6, <3>3
    <3>6. QED
      BY <2>3, <3>4, <3>5
  <2>7. QED
    BY <2>5, <2>6
<1>3. QED
  BY <1>1, <1>2

\* Where no fault gets or loses a group, or changes its step within one.
LEMMA GroupsKept ==
  ASSUME TypeOK, GroupWhole, UNCHANGED group_id,
         \A f \in Times : group_id[f] # NoGroup => next_step'[f] = next_step[f],
         \A f \in Times : next_step'[f] = "none" => next_step[f] = "none" \/ group_id[f] = NoGroup,
         \A f \in Times : group_id[f] # NoGroup /\ next_step'[f] # "none" => next_step[f] # "none"
  PROVE  GroupWhole'
<1>1. ASSUME NEW f \in HasTask', group_id[f] # NoGroup
      PROVE  /\ group_id[f] \in HasTask' /\ group_id[group_id[f]] = group_id[f]
             /\ next_step'[group_id[f]] = next_step'[f]
  <2>1. f \in Times /\ f \in HasTask
    BY <1>1 DEF HasTask, At
  <2>2. /\ group_id[f] \in HasTask /\ group_id[group_id[f]] = group_id[f]
        /\ next_step[group_id[f]] = next_step[f]
    BY <1>1, <2>1 DEF GroupWhole
  <2>3. group_id[f] \in Times
    BY <2>2 DEF HasTask
  <2>4. QED
    BY <1>1, <2>1, <2>2, <2>3 DEF HasTask, At
<1>2. QED
  BY <1>1 DEF GroupWhole

\* RemoveTask and RemoveTasks remove a group as a whole, or no grouped fault.
LEMMA RemoveGroupWhole ==
  ASSUME TypeOK, GroupWhole, NEW S, Remove(S),
         \A f \in HasTask : group_id[f] # NoGroup => (f \in S <=> group_id[f] \in S)
  PROVE  GroupWhole'
<1>1. /\ \A f \in Times : next_step'[f] = IF f \in S THEN "none" ELSE next_step[f]
      /\ \A f \in Times : group_id'[f] = IF f \in S THEN NoGroup ELSE group_id[f]
  BY DEF Remove
<1>2. HasTask' = HasTask \ S
  BY <1>1 DEF HasTask, At
<1>3. ASSUME NEW f \in HasTask', group_id'[f] # NoGroup
      PROVE  /\ group_id'[f] \in HasTask' /\ group_id'[group_id'[f]] = group_id'[f]
             /\ next_step'[group_id'[f]] = next_step'[f]
  <2>1. f \in Times /\ f \in HasTask /\ f \notin S
    BY <1>2 DEF HasTask
  <2>2. group_id'[f] = group_id[f] /\ group_id[f] # NoGroup
    BY <1>1, <1>3, <2>1
  <2>3. /\ group_id[f] \in HasTask /\ group_id[group_id[f]] = group_id[f]
        /\ next_step[group_id[f]] = next_step[f]
    BY <2>1, <2>2 DEF GroupWhole
  <2>4. group_id[f] \notin S /\ group_id[f] \in Times
    BY <2>1, <2>2, <2>3 DEF HasTask
  <2>5. QED
    BY <1>1, <1>2, <2>1, <2>2, <2>3, <2>4
<1>4. QED
  BY <1>3 DEF GroupWhole

\* The tasks RemoveTasks finds are whole groups.
LEMMA GroupClosed ==
  ASSUME GroupWhole, NEW g, g # NoGroup, NEW f \in HasTask, group_id[f] # NoGroup
  PROVE  f \in Group(g) <=> group_id[f] \in Group(g)
BY DEF GroupWhole, Group

LEMMA VisitGroupWhole ==
  ASSUME TypeOK, SignalOrderInv, GroupWhole, Visit \/ FinishGroup
  PROVE  GroupWhole'
<1>1. \A f \in Times : group_id[f] # NoGroup <=> next_step[f] \in {"GROUPED", "PLANNED"}
  BY DEF SignalOrderInv, GroupIdsSet
<1>2. g_lstTask \in Seq(Times) /\ next_step \in [Times -> Steps]
  BY DEF TypeOK
<1>3. CASE VisitSleep \/ VisitCalcOk \/ VisitPlanned
  <2> DEFINE f == g_lstTask[visit]
  <2>1. /\ f \in Times /\ next_step[f] \in {"SLEEP", "CALC", "PLANNED"} /\ group_id' = group_id
        /\ \/ next_step' = next_step
           \/ /\ next_step[f] # "PLANNED"
              /\ next_step' \in {[next_step EXCEPT ![f] = "CALC"], [next_step EXCEPT ![f] = "CALC_ISO"]}
    BY <1>2, <1>3 DEF VisitSleep, VisitCalcOk, VisitPlanned, Visiting, taskVars
  <2> HIDE DEF f
  <2>2. QED
    BY <1>1, <1>2, <2>1, GroupsKept
<1>4. CASE VisitCalcFail
  <2> DEFINE f == g_lstTask[visit]
  <2>1. f \in Times /\ next_step[f] = "CALC" /\ Remove({f})
    BY <1>2, <1>4 DEF VisitCalcFail, Visiting
  <2> HIDE DEF f
  <2>2. group_id[f] = NoGroup
    BY <1>1, <2>1
  <2>3. \A g \in HasTask : group_id[g] # NoGroup => (g \in {f} <=> group_id[g] \in {f})
    BY <2>1, <2>2 DEF GroupWhole
  <2>4. QED
    BY <2>1, <2>3, RemoveGroupWhole
<1>5. CASE VisitCalcIso
  <2>1. CASE UNCHANGED <<group_id, next_step>>
    BY <1>1, <2>1, GroupsKept
  <2>2. CASE GroupFault
    <3> DEFINE located == At({"CALC_ISO"})
    <3>1. PICK grp \in [located -> located] :
            /\ IsGrouping(grp, g_lstTask, located, edge)
            /\ group_id' = [f \in Times |-> IF f \in located THEN grp[f] ELSE group_id[f]]
            /\ next_step' = [f \in Times |-> IF f \in located THEN "GROUPED" ELSE next_step[f]]
      BY <2>2 DEF GroupFault
    <3>2. located \in SUBSET Members(g_lstTask)
      BY DEF SignalOrderInv, TasksListed, HasTask, At
    <3>3. \A f \in located : f \in Times /\ group_id[f] = NoGroup
      BY <1>1 DEF At
    <3> HIDE DEF located
    <3>4. \A f \in located : grp[grp[f]] = grp[f]
      BY <1>2, <3>1, <3>2, GroupNamesMember
    <3>5. HasTask' = HasTask /\ located \subseteq HasTask
      BY <3>1 DEF HasTask, At, located
    <3>6. ASSUME NEW f \in HasTask', group_id'[f] # NoGroup
          PROVE  /\ group_id'[f] \in HasTask' /\ group_id'[group_id'[f]] = group_id'[f]
                 /\ next_step'[group_id'[f]] = next_step'[f]
      <4>1. f \in HasTask /\ f \in Times
        BY <3>5 DEF HasTask
      <4>2. CASE f \in located
        BY <3>1, <3>3, <3>4, <3>5, <4>1, <4>2
      <4>3. CASE f \notin located
        <5>1. group_id'[f] = group_id[f] /\ next_step'[f] = next_step[f]
          BY <3>1, <4>1, <4>3
        <5>2. /\ group_id[f] \in HasTask /\ group_id[group_id[f]] = group_id[f]
              /\ next_step[group_id[f]] = next_step[f]
          BY <3>6, <4>1, <5>1 DEF GroupWhole
        <5>3. group_id[f] \in Times /\ group_id[f] \notin located
          BY <3>3, <3>6, <5>1, <5>2 DEF HasTask
        <5>4. QED
          BY <3>1, <3>5, <5>1, <5>2, <5>3
      <4>4. QED
        BY <4>2, <4>3
    <3>7. QED
      BY <3>6 DEF GroupWhole
  <2>3. QED
    BY <1>5, <2>1, <2>2 DEF VisitCalcIso
<1>6. CASE VisitGrouped
  <2> DEFINE g == group_id[g_lstTask[visit]]
             S == Group(g)
  <2>1. g # NoGroup
    BY <1>1, <1>2, <1>6 DEF VisitGrouped, Visiting
  <2>2. \A f \in HasTask : group_id[f] # NoGroup => (f \in S <=> group_id[f] \in S)
    <3> HIDE DEF g
    <3>1. QED
      BY <2>1, GroupClosed
  <2>3. S \subseteq Times
    BY DEF Group, HasTask
  <2>4. CASE Remove(S)
    BY <2>2, <2>4, RemoveGroupWhole
  <2>5. CASE /\ next_step' = [f \in Times |-> IF f \in S THEN "PLANNED" ELSE next_step[f]]
             /\ UNCHANGED group_id
    <3> HIDE DEF S, g
    <3>1. S \subseteq HasTask
      BY DEF S, Group
    <3>2. HasTask' = HasTask
      BY <2>5, <3>1 DEF HasTask, At
    <3>3. ASSUME NEW f \in HasTask, group_id[f] # NoGroup
          PROVE  /\ group_id[f] \in HasTask /\ group_id[group_id[f]] = group_id[f]
                 /\ next_step'[group_id[f]] = next_step'[f]
      <4>1. /\ group_id[f] \in HasTask /\ group_id[group_id[f]] = group_id[f]
            /\ next_step[group_id[f]] = next_step[f]
        BY <3>3 DEF GroupWhole
      <4>2. f \in Times /\ group_id[f] \in Times
        BY <4>1 DEF HasTask
      <4>3. QED
        BY <2>2, <2>5, <3>3, <4>1, <4>2
    <3>4. QED
      BY <2>5, <3>2, <3>3 DEF GroupWhole
  <2>6. QED
    BY <1>6, <2>4, <2>5 DEF VisitGrouped
<1>7. CASE FinishGroup
  <2>1. PICK f \in At({"PLANNED"}) : Remove(Group(group_id[f]))
    BY <1>7 DEF FinishGroup
  <2>2. group_id[f] # NoGroup
    BY <1>1 DEF At
  <2>3. \A x \in HasTask : group_id[x] # NoGroup =>
          (x \in Group(group_id[f]) <=> group_id[x] \in Group(group_id[f]))
    BY <2>2, GroupClosed
  <2>4. QED
    BY <2>1, <2>3, RemoveGroupWhole
<1>8. QED
  BY <1>3, <1>4, <1>5, <1>6, <1>7 DEF Visit

LEMMA NextGroupWhole == TypeOK /\ SignalOrderInv /\ GroupWhole /\ [Next]_vars => GroupWhole'
<1> SUFFICES ASSUME TypeOK, SignalOrderInv, GroupWhole, [Next]_vars
             PROVE  GroupWhole'
  OBVIOUS
<1>1. CASE UNCHANGED <<group_id, next_step>>
  BY <1>1, GroupsKept
<1>2. CASE Restart
  BY <1>2 DEF Restart, GroupWhole, HasTask, At
<1>3. CASE AlarmStart
  <2>1. PICK i \in UnusedStarts : next_step' = [next_step EXCEPT ![g_lstTrig[i]] = "SLEEP"]
    BY <1>3 DEF AlarmStart
  <2> DEFINE f == g_lstTrig[i]
  <2>2. f \in Times /\ ~Located(f) /\ next_step \in [Times -> Steps] /\ group_id' = group_id
    BY <1>3 DEF AlarmStart, UnusedStarts, TypeOK
  <2>3. Locating = {}
    BY <1>3 DEF AlarmStart, SignalOrderInv, OneLocating
  <2>4. next_step[f] = "none"
    BY <2>2, <2>3 DEF SignalOrderInv, OwnSignalUsed, HasTask, At
  <2>5. next_step' = [next_step EXCEPT ![f] = "SLEEP"]
    BY <2>1
  <2> HIDE DEF f
  <2>6. group_id[f] = NoGroup
    BY <2>2, <2>4 DEF SignalOrderInv, GroupIdsSet
  <2>7. QED
    BY <2>2, <2>4, <2>5, <2>6, GroupsKept
<1>4. CASE Visit \/ FinishGroup
  BY <1>4, VisitGroupWhole
<1>5. QED
  BY <1>1, <1>2, <1>3, <1>4
     DEF Next, Process, Tick, Stamp, Discard, Push, AlarmScan, AlarmStartLost, AlarmIdle,
         BeginPass, EndPass, taskVars, vars

\* A group is always whole: its members are planned, finished and removed
\* together, and the fault it is named after is one of them, for any number of
\* faults and any edge breakers they share.
THEOREM GroupsStayWhole == Spec => []GroupWhole
<1>1. Init => GroupWhole
  BY DEF Init, GroupWhole, HasTask, At
<1>2. QED
  BY <1>1, NextGroupWhole, TypeCorrect, SignalOrder, PTL DEF Spec

-----------------------------------------------------------------------------
\* Seconds are counted up by ticks, and each has TicksPerSec of them.
LEMMA SecBounds ==
  ASSUME NEW a \in Nat
  PROVE  /\ Sec(a) \in Nat
         /\ Sec(a) * TicksPerSec <= a
         /\ a < (Sec(a) + 1) * TicksPerSec
BY LocationAssumption, SMTT(30) DEF Sec

LEMMA SecApart ==
  ASSUME NEW a \in Nat, NEW b \in Nat, NEW t \in Nat, Sec(b) - Sec(a) > t
  PROVE  b - a > t * TicksPerSec
<1> DEFINE x == Sec(a)
           y == Sec(b)
           n == TicksPerSec
<1>1. x \in Nat /\ y \in Nat /\ n \in Nat /\ y * n <= b /\ a < (x + 1) * n
  BY SecBounds, LocationAssumption
<1>2. y >= x + 1 + t
  BY <1>1
<1> HIDE DEF x, y, n
<1>3. y * n >= (x + 1 + t) * n
  BY <1>1, <1>2
<1>4. (x + 1 + t) * n = (x + 1) * n + t * n
  BY <1>1
<1>5. (x + 1) * n \in Nat /\ t * n \in Nat /\ y * n \in Nat
  BY <1>1
<1>6. b - a > t * n
  BY <1>1, <1>3, <1>4, <1>5
<1>7. QED
  BY <1>6 DEF n

LEMMA SecMonotone ==
  ASSUME NEW a \in Nat, NEW b \in Nat, a <= b
  PROVE  Sec(a) <= Sec(b)
<1>1. Sec(a) \in Nat /\ Sec(b) \in Nat
  BY SecBounds
<1>2. CASE Sec(a) - Sec(b) > 0
  <2>1. a - b > 0 * TicksPerSec
    BY <1>2, SecApart
  <2>2. QED
    BY <2>1, LocationAssumption
<1>3. QED
  BY <1>1, <1>2
-----------------------------------------------------------------------------
\* The signals that are collected for a fault stay allocated until it is
\* located, as long as a signal is appended within the time-out of its stamp.

\* Signals are appended at most MaxDelay ticks out of the order of time.
AppendedInTime ==
  /\ \A p \in Producers : stamped[p] # NoStamp => now - stamped[p] <= MaxDelay
  /\ \A i, j \in DOMAIN g_lstTrig : i < j => g_lstTrig[i] - g_lstTrig[j] <= MaxDelay

\* The faults whose signals have been collected are older than the time-out...
Awake == HasTask \ At({"SLEEP"})
AwakeOld == \A f \in Awake : now - f > TIMEOUT_PROTPNT * TicksPerSec

\* ... and of the signals behind their start signals those that are still
\* unused, and not about to be used, are later than they are...
ToBeUsed(f) == IF f \in At({"CALC"}) THEN g_lstSecTrig ELSE {}
UnusedLater ==
  \A f \in Awake : \A i, j \in DOMAIN g_lstTrig :
    (i < j /\ g_lstTrig[i] = f /\ ~Located(g_lstTrig[j])) =>
      (g_lstTrig[j] \in ToBeUsed(f) \/ f < g_lstTrig[j])

\* ... so the fault that is being located is the latest in time.
LocatingLatest == \A f \in Locating : \A a \in HasTask : a <= f

\* The signals collected before a start signal reach back without a gap.
CollectedNear ==
  \A f \in At({"CALC"}) :
    /\ f \in g_lstSecTrig
    /\ g_lstSecTrig \subseteq Members(g_lstTrig)
    /\ \A i, j, o \in DOMAIN g_lstTrig :
         (g_lstTrig[o] = f /\ g_lstTrig[i] \in g_lstSecTrig /\ i <= j /\ j <= o) =>
           Sec(f) - Sec(g_lstTrig[j]) <= TIMEOUT_PROTPNT

WindowInv == AppendedInTime /\ AwakeOld /\ UnusedLater /\ LocatingLatest /\ CollectedNear

\* One read of the configuration gives the time-out, and the producers append
\* what they have stamped before it is over.
InTime == ~ConfigRace /\ MaxDelay <= TIMEOUT_PROTPNT * TicksPerSec

LEMMA WindowInitially == Init => WindowInv
BY DEF Init, WindowInv, AppendedInTime, AwakeOld, UnusedLater, LocatingLatest, CollectedNear,
       Awake, HasTask, Locating, At, Producers

\* What leaves the list of signals alone, wakes no fault and adds no task keeps
\* the invariant, if what was to be used for a fault still is, or has been.
LEMMA WindowUntouched ==
  ASSUME TypeOK, WindowInv, UNCHANGED <<g_lstTrig, g_lstSecTrig, now>>,
         \A p \in Producers : stamped'[p] # NoStamp => (stamped'[p] = stamped[p] \/ stamped'[p] = now),
         HasTask' \subseteq HasTask, At({"CALC"})' \subseteq At({"CALC"}),
         At({"SLEEP"})' \subseteq At({"SLEEP"}), Awake' \subseteq Awake,
         \A s \in Times : Located(s) => Located(s)',
         \A f \in Awake' : \A s \in ToBeUsed(f) \cap Members(g_lstTrig) : s \in ToBeUsed(f)' \/ Located(s)'
  PROVE  WindowInv'
<1>1. AppendedInTime'
  <2>1. \A p \in Producers : stamped'[p] # NoStamp => now - stamped'[p] <= MaxDelay
    <3> SUFFICES ASSUME NEW p \in Producers, stamped'[p] # NoStamp
                 PROVE  now - stamped'[p] <= MaxDelay
      OBVIOUS
    <3>1. CASE stamped'[p] = stamped[p]
      BY <3>1 DEF WindowInv, AppendedInTime
    <3>2. CASE stamped'[p] = now
      BY <3>2, LocationAssumption DEF TypeOK, Times
    <3>3. QED
      BY <3>1, <3>2
  <2>2. QED
    BY <2>1 DEF WindowInv, AppendedInTime
<1>2. AwakeOld'
  BY DEF WindowInv, AwakeOld
<1>3. UnusedLater'
  <2> SUFFICES ASSUME NEW f \in Awake', NEW i \in DOMAIN g_lstTrig, NEW j \in DOMAIN g_lstTrig,
                      i < j, g_lstTrig[i] = f, ~Located(g_lstTrig[j])', g_lstTrig[j] \notin ToBeUsed(f)'
               PROVE  f < g_lstTrig[j]
    BY DEF UnusedLater
  <2>1. g_lstTrig[j] \in Times /\ g_lstTrig[j] \in Members(g_lstTrig)
    BY DEF TypeOK, Members
  <2>2. ~Located(g_lstTrig[j])
    BY <2>1 DEF Located
  <2>3. g_lstTrig[j] \notin ToBeUsed(f)
    BY <2>1
  <2>4. QED
    BY <2>2, <2>3 DEF WindowInv, UnusedLater
<1>4. LocatingLatest'
  <2>1. Locating' \subseteq Locating
    BY DEF Locating, At
  <2>2. QED
    BY <2>1 DEF WindowInv, LocatingLatest
<1>5. CollectedNear'
  BY DEF WindowInv, CollectedNear, Members
<1>6. QED
  BY <1>1, <1>2, <1>3, <1>4, <1>5 DEF WindowInv

\* Time, the producers and restarts.
LEMMA WindowProduced ==
  ASSUME InTime, TypeOK, SignalOrderInv, WindowInv,
         Tick \/ Restart \/ \E p \in Producers : Stamp(p) \/ Discard(p) \/ Push(p)
  PROVE  WindowInv'
<1> USE DEF sigVars, taskVars
<1>1. CASE Restart
  BY <1>1 DEF Restart, WindowInv, AppendedInTime, AwakeOld, UnusedLater, LocatingLatest, CollectedNear,
              Awake, HasTask, Locating, At, Producers
<1>2. CASE Tick
  <2>1. UNCHANGED <<stamped, sigVars, g_lstSecTrig, taskVars>> /\ now' = now + 1 /\ now \in Nat
    BY <1>2 DEF Tick, TypeOK, Times
  <2>2. UNCHANGED <<HasTask, Locating, Awake, At({"CALC"})>>
    BY <2>1 DEF HasTask, Locating, Awake, At
  <2>3. AppendedInTime'
    <3>1. \A p \in Producers : stamped[p] # NoStamp => (stamped[p] \in Nat /\ now - stamped[p] < MaxDelay)
      BY <1>2 DEF Tick, TypeOK, Times
    <3>2. \A p \in Producers : stamped[p] # NoStamp => now + 1 - stamped[p] <= MaxDelay
      BY <2>1, <3>1, LocationAssumption
    <3>3. \A i, j \in DOMAIN g_lstTrig : i < j => g_lstTrig[i] - g_lstTrig[j] <= MaxDelay
      BY DEF WindowInv, AppendedInTime
    <3>4. now' = now + 1 /\ stamped' = stamped /\ g_lstTrig' = g_lstTrig
      BY <2>1
    <3>5. QED
      BY <2>1, <3>1, <3>2, <3>3, <3>4, LocationAssumption DEF AppendedInTime
  <2>4. AwakeOld'
    <3>1. \A f \in Awake : f \in Nat
      BY DEF Awake, HasTask, Times
    <3>2. TIMEOUT_PROTPNT * TicksPerSec \in Nat
      BY LocationAssumption
    <3>3. QED
      BY <2>1, <2>2, <3>1, <3>2 DEF WindowInv, AwakeOld
  <2>5. UnusedLater'
    <3>1. \A f : ToBeUsed(f)' = ToBeUsed(f)
      BY <2>1, <2>2 DEF ToBeUsed
    <3>2. \A s : Located(s)' = Located(s)
      BY <2>1 DEF Located
    <3>3. QED
      BY <2>1, <2>2, <3>1, <3>2 DEF WindowInv, UnusedLater
  <2>6. LocatingLatest' /\ CollectedNear'
    BY <2>1, <2>2 DEF WindowInv, LocatingLatest, CollectedNear, Members
  <2>7. QED
    BY <2>3, <2>4, <2>5, <2>6 DEF WindowInv
<1>3. ASSUME NEW p \in Producers, Stamp(p) \/ Discard(p)
      PROVE  WindowInv'
  <2>1. UNCHANGED <<now, sigVars, g_lstSecTrig, taskVars>>
    BY <1>3 DEF Stamp, Discard
  <2>2. \A q \in Producers : stamped'[q] # NoStamp => (stamped'[q] = stamped[q] \/ stamped'[q] = now)
    BY <1>3 DEF Stamp, Discard, TypeOK
  <2>3. UNCHANGED <<HasTask, Locating, Awake, At({"CALC"}), At({"SLEEP"})>>
    BY <2>1 DEF HasTask, Locating, Awake, At
  <2>4. \A s : Located(s)' = Located(s) /\ ToBeUsed(s)' = ToBeUsed(s)
    BY <2>1, <2>3 DEF Located, ToBeUsed
  <2>5. QED
    BY <2>1, <2>2, <2>3, <2>4, WindowUntouched
<1>4. ASSUME NEW p \in Producers, Push(p)
      PROVE  WindowInv'
  <2> DEFINE s == stamped[p]
             n == Len(g_lstTrig)
  <2>1. /\ s \in Times /\ s # NoStamp /\ n \in Nat /\ now \in Nat
        /\ UNCHANGED <<now, lst_fault, g_lstSecTrig, taskVars>>
        /\ g_lstTrig' = Append(g_lstTrig, s) /\ stamped' = [stamped EXCEPT ![p] = NoStamp]
    BY <1>4 DEF Push, TypeOK, Times
  <2>2. /\ DOMAIN g_lstTrig = 1..n /\ DOMAIN g_lstTrig' = 1..n + 1
        /\ \A i \in 1..n : g_lstTrig'[i] = g_lstTrig[i]
        /\ g_lstTrig'[n + 1] = s
        /\ \A i \in 1..n : g_lstTrig[i] \in Times
    BY <2>1 DEF TypeOK
  <2>3. now - s <= MaxDelay /\ \A i \in 1..n : g_lstTrig[i] <= now
    BY <2>1, <2>2 DEF WindowInv, AppendedInTime, SignalOrderInv, StampsDistinct, Members
  <2>4. UNCHANGED <<HasTask, Locating, Awake, At({"CALC"})>>
    BY <2>1 DEF HasTask, Locating, Awake, At
  <2> HIDE DEF s, n
  <2>5. AppendedInTime'
    <3>1. \A q \in Producers : stamped'[q] # NoStamp => now - stamped'[q] <= MaxDelay
      BY <2>1 DEF WindowInv, AppendedInTime, TypeOK
    <3>2. ASSUME NEW i \in 1..n + 1, NEW j \in 1..n + 1, i < j
          PROVE  g_lstTrig'[i] - g_lstTrig'[j] <= MaxDelay
      <4>1. i \in 1..n
        BY <2>1, <3>2
      <4>2. CASE j \in 1..n
        BY <2>2, <3>2, <4>1, <4>2 DEF WindowInv, AppendedInTime
      <4>3. CASE j = n + 1
        <5>1. g_lstTrig[i] <= now /\ g_lstTrig[i] \in Nat /\ s \in Nat
          BY <2>1, <2>2, <2>3, <4>1 DEF Times
        <5>2. MaxDelay \in Nat /\ now \in Nat /\ now - s <= MaxDelay
          BY <2>1, <2>3, LocationAssumption
        <5>3. g_lstTrig[i] - s <= MaxDelay
          BY <5>1, <5>2
        <5>4. g_lstTrig'[i] = g_lstTrig[i] /\ g_lstTrig'[j] = s
          BY <2>2, <4>1, <4>3
        <5>5. QED
          BY <5>3, <5>4
      <4>4. j \in 1..n \/ j = n + 1
        BY <2>1
      <4>5. QED
        BY <4>2, <4>3, <4>4
    <3>3. QED
      BY <2>1, <2>2, <3>1, <3>2 DEF AppendedInTime
  <2>6. AwakeOld' /\ LocatingLatest'
    BY <2>1, <2>4 DEF WindowInv, AwakeOld, LocatingLatest
  <2>7. UnusedLater'
    <3> SUFFICES ASSUME NEW f \in Awake, NEW i \in 1..n + 1, NEW j \in 1..n + 1, i < j,
                        g_lstTrig'[i] = f, ~Located(g_lstTrig'[j]), g_lstTrig'[j] \notin ToBeUsed(f)
                 PROVE  f < g_lstTrig'[j]
      <4>1. \A f : ToBeUsed(f)' = ToBeUsed(f)
        BY <2>1, <2>4 DEF ToBeUsed
      <4>2. \A x : Located(x)' = Located(x)
        BY <2>1 DEF Located
      <4>3. Awake' = Awake /\ DOMAIN g_lstTrig' = 1..n + 1
        BY <2>2, <2>4
      <4>4. UnusedLater' <=> \A f \in Awake' : \A i, j \in DOMAIN g_lstTrig' :
              (i < j /\ g_lstTrig'[i] = f /\ lst_fault'[g_lstTrig'[j]] = <<>>) =>
                (g_lstTrig'[j] \in ToBeUsed(f)' \/ f < g_lstTrig'[j])
        BY DEF UnusedLater, Located
      <4>5. lst_fault' = lst_fault
        BY <2>1
      <4>6. QED
        BY <4>1, <4>3, <4>4, <4>5 DEF Located
    <3>1. i \in 1..n
      BY <2>1
    <3>2. CASE j \in 1..n
      <4>1. g_lstTrig[i] = f /\ g_lstTrig'[j] = g_lstTrig[j]
        BY <2>2, <3>1, <3>2
      <4>2. QED
        BY <2>2, <3>1, <3>2, <4>1 DEF WindowInv, UnusedLater
    <3>3. CASE j = n + 1
      <4>1. now - f > TIMEOUT_PROTPNT * TicksPerSec /\ f \in Nat /\ s \in Nat
        BY <2>1 DEF WindowInv, AwakeOld, Awake, HasTask, Times
      <4> DEFINE T == TIMEOUT_PROTPNT * TicksPerSec
      <4>2. T \in Nat /\ MaxDelay <= T /\ MaxDelay \in Nat /\ now - f > T
        BY <4>1, LocationAssumption DEF InTime
      <4> HIDE DEF T
      <4>3. now - s <= MaxDelay /\ now \in Nat
        BY <2>1, <2>3
      <4>4. f < s
        BY <4>1, <4>2, <4>3
      <4>5. QED
        <5>1. g_lstTrig'[j] = s
          BY <2>2, <3>3
        <5>2. QED
          BY <5>1, <4>4
    <3>4. j \in 1..n \/ j = n + 1
      BY <2>1
    <3>5. QED
      BY <3>2, <3>3, <3>4
  <2>8. CollectedNear'
    <3> SUFFICES ASSUME NEW f \in At({"CALC"})
                 PROVE  /\ f \in g_lstSecTrig
                        /\ g_lstSecTrig \subseteq Members(g_lstTrig)'
                        /\ \A i, j, o \in 1..n + 1 :
                             (g_lstTrig'[o] = f /\ g_lstTrig'[i] \in g_lstSecTrig /\ i <= j /\ j <= o) =>
                               Sec(f) - Sec(g_lstTrig'[j]) <= TIMEOUT_PROTPNT
      BY <2>1, <2>2, <2>4 DEF CollectedNear
    <3>1. Members(g_lstTrig) \subseteq Members(g_lstTrig)'
      BY <2>1, <2>2 DEF Members
    <3>2. f \in g_lstSecTrig /\ g_lstSecTrig \subseteq Members(g_lstTrig)
      BY DEF WindowInv, CollectedNear
    <3>3. s # f
      BY <2>1, <3>2 DEF SignalOrderInv, StampsDistinct, s
    <3>4. ASSUME NEW i \in 1..n + 1, NEW j \in 1..n + 1, NEW o \in 1..n + 1,
                 g_lstTrig'[o] = f, g_lstTrig'[i] \in g_lstSecTrig, i <= j, j <= o
          PROVE  Sec(f) - Sec(g_lstTrig'[j]) <= TIMEOUT_PROTPNT
      <4>1. o \in 1..n
        BY <2>1, <2>2, <3>3, <3>4
      <4>2. i \in 1..n /\ j \in 1..n
        BY <2>1, <3>4, <4>1
      <4>3. QED
        BY <2>2, <3>4, <4>1, <4>2 DEF WindowInv, CollectedNear
    <3>5. QED
      BY <3>1, <3>2, <3>4
  <2>9. QED
    BY <2>5, <2>6, <2>7, <2>8 DEF WindowInv
<1>5. QED
  BY <1>1, <1>2, <1>3, <1>4

\* thread_alarm_process: when it starts a fault none is being located, so the
\* signals the others left unused are later than they are.
LEMMA WindowAlarmed ==
  ASSUME TypeOK, SignalOrderInv, WindowInv,
         AlarmScan \/ AlarmStart \/ AlarmStartLost \/ AlarmIdle
  PROVE  WindowInv'
<1> USE DEF sigVars, taskVars
<1>1. CASE AlarmScan \/ AlarmStartLost \/ AlarmIdle
  <2>1. UNCHANGED <<now, stamped, sigVars, g_lstSecTrig, taskVars>>
    BY <1>1 DEF AlarmScan, AlarmStartLost, AlarmIdle
  <2>2. UNCHANGED <<HasTask, Awake, At({"CALC"}), At({"SLEEP"})>>
    BY <2>1 DEF HasTask, Awake, At
  <2>3. \A s : Located(s)' = Located(s) /\ ToBeUsed(s)' = ToBeUsed(s)
    BY <2>1, <2>2 DEF Located, ToBeUsed
  <2>4. QED
    BY <2>1, <2>2, <2>3, WindowUntouched
<1>2. CASE AlarmStart
  <2>1. PICK i \in UnusedStarts :
          /\ \A j \in UnusedStarts : i <= j
          /\ next_step' = [next_step EXCEPT ![g_lstTrig[i]] = "SLEEP"]
    BY <1>2 DEF AlarmStart
  <2> DEFINE f == g_lstTrig[i]
  <2>2. UNCHANGED <<now, stamped, sigVars, g_lstSecTrig>>
    BY <1>2 DEF AlarmStart
  <2>3. i \in DOMAIN g_lstTrig /\ f \in Times /\ f \in start /\ ~Located(f)
    BY <2>1 DEF UnusedStarts, TypeOK
  <2>4. Locating = {}
    BY <1>2 DEF AlarmStart, SignalOrderInv, OneLocating
  <2>5. f \notin HasTask
    BY <2>3, <2>4 DEF SignalOrderInv, OwnSignalUsed
  <2>6. HasTask' = HasTask \cup {f} /\ Locating' = {f} /\ Awake' = Awake /\ At({"CALC"})' = {} /\ At({"CALC"}) = {}
    <3>1. \A x \in Times : next_step'[x] = IF x = f THEN "SLEEP" ELSE next_step[x]
      BY <2>1, <2>3 DEF TypeOK
    <3>2. \A x \in Times : next_step[x] \notin {"SLEEP", "CALC"}
      BY <2>4 DEF Locating, At
    <3>3. next_step[f] = "none"
      BY <2>3, <2>5 DEF HasTask, At
    <3> HIDE DEF f
    <3>4. QED
      BY <2>3, <3>1, <3>2, <3>3 DEF HasTask, Locating, Awake, At
  \* i is behind the start signals of all tasks, see AlarmSignalOrder.
  <2>7. \A a \in DOMAIN g_lstTrig : g_lstTrig[a] \in HasTask => a < i
    <3> SUFFICES ASSUME NEW a \in DOMAIN g_lstTrig, g_lstTrig[a] \in HasTask, ~(a < i)
                 PROVE  FALSE
      OBVIOUS
    <3>1. a \in Int /\ i \in Int
      BY <2>3 DEF TypeOK
    <3>2. a # i
      BY <2>5
    <3>3. i < a
      BY <3>1, <3>2
    <3>4. QED
      BY <3>3, <2>3 DEF SignalOrderInv, EarlierStartsUsed
  <2>8. \A a \in HasTask : a < f
    <3> SUFFICES ASSUME NEW a \in HasTask
                 PROVE  a < f
      OBVIOUS
    <3>1. PICK x \in DOMAIN g_lstTrig : g_lstTrig[x] = a
      BY DEF SignalOrderInv, TasksInSignalOrder, Members
    <3>2. x < i
      BY <3>1, <2>7
    <3>3. a \in Awake /\ ToBeUsed(a) = {}
      BY <2>4, <2>6 DEF Awake, Locating, At, ToBeUsed
    <3>4. QED
      BY <2>3, <3>1, <3>2, <3>3 DEF WindowInv, UnusedLater
  <2>9. LocatingLatest'
    BY <2>3, <2>6, <2>8 DEF LocatingLatest, HasTask, Times
  <2>10. UnusedLater'
    <3>1. \A x : ToBeUsed(x)' = ToBeUsed(x) /\ Located(x)' = Located(x)
      BY <2>2, <2>6 DEF ToBeUsed, Located
    <3>2. QED
      BY <2>2, <2>6, <3>1 DEF WindowInv, UnusedLater
  <2>11. AppendedInTime' /\ AwakeOld' /\ CollectedNear'
    BY <2>2, <2>6 DEF WindowInv, AppendedInTime, AwakeOld, CollectedNear
  <2>12. QED
    BY <2>9, <2>10, <2>11 DEF WindowInv
<1>3. QED
  BY <1>1, <1>2

\* What is kept of the list of signals, and where it was before.
LEMMA KeptFrom ==
  ASSUME TypeOK, Distinct(g_lstTrig), NEW k \in DOMAIN g_lstTrig, KeepFrom(k)
  PROVE  /\ \A i \in DOMAIN g_lstTrig' : /\ i + k - 1 \in DOMAIN g_lstTrig
                                         /\ g_lstTrig'[i] = g_lstTrig[i + k - 1]
                                         /\ lst_fault'[g_lstTrig'[i]] = lst_fault[g_lstTrig'[i]]
         /\ \A i \in DOMAIN g_lstTrig : i >= k => i - k + 1 \in DOMAIN g_lstTrig' /\ g_lstTrig'[i - k + 1] = g_lstTrig[i]
         /\ DOMAIN g_lstTrig' \subseteq Nat /\ k \in Nat
<1> DEFINE n == Len(g_lstTrig)
           m == n - k + 1
           gone == {g_lstTrig[i] : i \in 1..(k - 1)}
<1>1. n \in Nat /\ DOMAIN g_lstTrig = 1..n /\ k \in 1..n /\ m \in Nat /\ g_lstTrig \in Seq(Times)
  BY DEF TypeOK
<1>2. g_lstTrig' = SubSeq(g_lstTrig, k, n) /\ \A s \in Times \ gone : lst_fault'[s] = lst_fault[s]
  BY DEF KeepFrom
<1>3. DOMAIN g_lstTrig' = 1..m /\ \A i \in 1..m : g_lstTrig'[i] = g_lstTrig[i + k - 1] /\ i + k - 1 \in k..n
  BY <1>1, <1>2
<1> HIDE DEF n, m, gone
<1>4. \A i \in 1..m : i + k - 1 \in 1..n
  BY <1>1, <1>3
<1>5. \A i \in k..n : g_lstTrig[i] \in Times /\ g_lstTrig[i] \notin gone
  <2> SUFFICES ASSUME NEW i \in k..n, g_lstTrig[i] \in gone
               PROVE  FALSE
    BY <1>1
  <2>1. PICK j \in 1..(k - 1) : g_lstTrig[i] = g_lstTrig[j]
    BY DEF gone
  <2>2. i \in 1..n /\ j \in 1..n /\ i # j
    BY <1>1
  <2>3. QED
    BY <1>1, <2>1, <2>2 DEF Distinct
<1>6. \A i \in 1..m : lst_fault'[g_lstTrig'[i]] = lst_fault[g_lstTrig'[i]]
  BY <1>2, <1>3, <1>5
<1>7. \A i \in 1..n : i >= k => i - k + 1 \in 1..m /\ g_lstTrig'[i - k + 1] = g_lstTrig[i]
  <2> SUFFICES ASSUME NEW i \in 1..n, i >= k
               PROVE  i - k + 1 \in 1..m /\ g_lstTrig'[i - k + 1] = g_lstTrig[i]
    OBVIOUS
  <2> DEFINE x == i - k + 1
  <2>1. x \in 1..m /\ x + k - 1 = i
    BY <1>1 DEF m
  <2> HIDE DEF x
  <2>2. g_lstTrig'[x] = g_lstTrig[i]
    BY <1>3, <2>1
  <2>3. QED
    BY <2>1, <2>2 DEF x
<1>8. QED
  BY <1>1, <1>3, <1>4, <1>6, <1>7

\* clear_timeout_trig erases nothing that has been collected: the first task is
\* not later than the fault being located, so neither is its window.
LEMMA WindowCleared ==
  ASSUME InTime, TypeOK, SignalOrderInv, WindowInv, BeginPass
  PROVE  WindowInv'
<1> USE DEF taskVars
<1>1. /\ UNCHANGED <<now, stamped, taskVars, g_lstSecTrig>> /\ g_lstTask # <<>>
      /\ UNCHANGED <<HasTask, Locating, Awake, At({"CALC"}), At({"SLEEP"})>>
  BY DEF BeginPass, HasTask, Locating, Awake, At
<1>2. \A s : ToBeUsed(s)' = ToBeUsed(s)
  BY <1>1 DEF ToBeUsed
<1>3. CASE UNCHANGED sigVars
  <2>1. \A s : Located(s)' = Located(s)
    BY <1>3 DEF Located, sigVars
  <2>2. g_lstTrig' = g_lstTrig
    BY <1>3 DEF sigVars
  <2>3. QED
    BY <1>1, <1>2, <2>1, <2>2, WindowUntouched
<1>4. ASSUME g_lstTask[1] \in Members(g_lstTrig), NEW t \in TimeoutReads,
             NEW k \in FirstTooOld(Own(g_lstTask[1]), t), KeepFrom(k)
      PROVE  WindowInv'
  <2> DEFINE n == Len(g_lstTrig)
             a == g_lstTask[1]
             p == Own(a)
  <2>1. /\ p \in 1..n /\ g_lstTrig[p] = a /\ n \in Nat /\ g_lstTrig \in Seq(Times)
        /\ DOMAIN g_lstTrig = 1..n
    BY <1>4 DEF Own, Position, Members, TypeOK
  <2>2. t = TIMEOUT_PROTPNT /\ t \in Nat
    BY LocationAssumption DEF InTime, TimeoutReads
  <2>3. k \in 1..n /\ k < p /\ Sec(g_lstTrig[p]) - Sec(g_lstTrig[k]) > t
    BY <1>4, <2>1 DEF FirstTooOld
  <2>4. a \in HasTask
    <3>1. 1 \in DOMAIN g_lstTask
      BY <1>1 DEF TypeOK
    <3>2. QED
      BY <3>1 DEF SignalOrderInv, TasksListed, Members
  <2> HIDE DEF n, p, a
  <2>5. /\ \A i \in DOMAIN g_lstTrig' : /\ i + k - 1 \in DOMAIN g_lstTrig
                                        /\ g_lstTrig'[i] = g_lstTrig[i + k - 1]
                                        /\ lst_fault'[g_lstTrig'[i]] = lst_fault[g_lstTrig'[i]]
        /\ \A i \in DOMAIN g_lstTrig : i >= k => i - k + 1 \in DOMAIN g_lstTrig' /\ g_lstTrig'[i - k + 1] = g_lstTrig[i]
        /\ DOMAIN g_lstTrig' \subseteq Nat /\ k \in Nat
    BY <1>4, <2>1, <2>3, KeptFrom DEF SignalOrderInv, StampsDistinct
  <2>6. AppendedInTime'
    <3>1. ASSUME NEW i \in DOMAIN g_lstTrig', NEW j \in DOMAIN g_lstTrig', i < j
          PROVE  g_lstTrig'[i] - g_lstTrig'[j] <= MaxDelay
      <4> DEFINE x == i + k - 1
                 y == j + k - 1
      <4>1. x \in DOMAIN g_lstTrig /\ y \in DOMAIN g_lstTrig /\ x < y
        BY <2>5, <3>1
      <4>2. g_lstTrig'[i] = g_lstTrig[x] /\ g_lstTrig'[j] = g_lstTrig[y]
        BY <2>5
      <4> HIDE DEF x, y
      <4>3. g_lstTrig[x] - g_lstTrig[y] <= MaxDelay
        BY <4>1 DEF WindowInv, AppendedInTime
      <4>4. QED
        BY <4>2, <4>3
    <3>2. QED
      BY <1>1, <3>1 DEF WindowInv, AppendedInTime
  <2>7. AwakeOld' /\ LocatingLatest'
    BY <1>1 DEF WindowInv, AwakeOld, LocatingLatest
  <2>8. UnusedLater'
    <3>1. ASSUME NEW f \in Awake, NEW i \in DOMAIN g_lstTrig', NEW j \in DOMAIN g_lstTrig', i < j,
                 g_lstTrig'[i] = f, lst_fault'[g_lstTrig'[j]] = <<>>
          PROVE  g_lstTrig'[j] \in ToBeUsed(f) \/ f < g_lstTrig'[j]
      <4> DEFINE x == i + k - 1
                 y == j + k - 1
      <4>1. x \in DOMAIN g_lstTrig /\ y \in DOMAIN g_lstTrig /\ x < y
        BY <2>5, <3>1
      <4>2. g_lstTrig'[i] = g_lstTrig[x] /\ g_lstTrig'[j] = g_lstTrig[y] /\ ~Located(g_lstTrig[y])
        BY <2>5, <3>1 DEF Located
      <4> HIDE DEF x, y
      <4>3. g_lstTrig[y] \in ToBeUsed(f) \/ f < g_lstTrig[y]
        BY <3>1, <4>1, <4>2 DEF WindowInv, UnusedLater
      <4>4. QED
        BY <4>2, <4>3
    <3>2. QED
      BY <1>1, <1>2, <3>1 DEF UnusedLater, Located
  \* All tasks have their start signals behind that of the first.
  <2>9. \A i \in 1..n : g_lstTrig[i] \in HasTask => p <= i
    <3> SUFFICES ASSUME NEW i \in 1..n, g_lstTrig[i] \in HasTask
                 PROVE  p <= i
      OBVIOUS
    <3>1. PICK l \in DOMAIN g_lstTask : g_lstTask[l] = g_lstTrig[i]
      BY DEF SignalOrderInv, TasksListed, Members
    <3>2. l \in Nat /\ (l = 1 \/ 1 < l) /\ 1 \in DOMAIN g_lstTask
      BY <1>1 DEF TypeOK
    <3>3. CASE l = 1
      BY <3>1, <3>3, <2>1 DEF SignalOrderInv, StampsDistinct, Distinct, a
    <3>4. CASE 1 < l
      BY <3>1, <3>2, <3>4, <2>1 DEF SignalOrderInv, TasksInSignalOrder, a
    <3>5. QED
      BY <3>2, <3>3, <3>4
  <2>10. ASSUME NEW f \in At({"CALC"}), NEW i \in 1..n, g_lstTrig[i] \in g_lstSecTrig
         PROVE  k <= i
    <3>1. f \in HasTask /\ f \in Locating
      BY DEF HasTask, Locating, At
    <3>2. PICK o \in 1..n : g_lstTrig[o] = f
      BY <2>1, <3>1 DEF SignalOrderInv, TasksInSignalOrder, Members
    <3>3. k <= o /\ k \in Int
      BY <2>1, <2>3, <2>9, <3>1, <3>2
    <3>4. a <= f /\ a \in Nat /\ f \in Nat /\ g_lstTrig[k] \in Nat
      <4>1. a <= f
        BY <2>4, <3>1 DEF WindowInv, LocatingLatest
      <4>2. HasTask \subseteq Times /\ Times \subseteq Nat
        BY DEF HasTask, Times
      <4>3. g_lstTrig[k] \in Times
        BY <2>1, <2>3
      <4>4. QED
        BY <2>4, <3>1, <4>1, <4>2, <4>3
    <3>5. Sec(a) <= Sec(f) /\ Sec(a) \in Nat /\ Sec(f) \in Nat /\ Sec(g_lstTrig[k]) \in Nat
      BY <3>4, SecMonotone, SecBounds
    <3>6. ~(Sec(f) - Sec(g_lstTrig[k]) <= TIMEOUT_PROTPNT)
      BY <2>1, <2>2, <2>3, <3>5
    <3>7. ~(i <= k)
      BY <2>1, <2>3, <2>10, <3>2, <3>3, <3>6 DEF WindowInv, CollectedNear
    <3>8. QED
      BY <2>3, <3>7
  <2>11. CollectedNear'
    <3> SUFFICES ASSUME NEW f \in At({"CALC"})
                 PROVE  /\ f \in g_lstSecTrig
                        /\ g_lstSecTrig \subseteq Members(g_lstTrig)'
                        /\ \A i, j, o \in DOMAIN g_lstTrig' :
                             (g_lstTrig'[o] = f /\ g_lstTrig'[i] \in g_lstSecTrig /\ i <= j /\ j <= o) =>
                               Sec(f) - Sec(g_lstTrig'[j]) <= TIMEOUT_PROTPNT
      BY <1>1 DEF CollectedNear
    <3>1. f \in g_lstSecTrig /\ g_lstSecTrig \subseteq Members(g_lstTrig)
      BY DEF WindowInv, CollectedNear
    <3>2. ASSUME NEW s \in g_lstSecTrig
          PROVE  s \in Members(g_lstTrig)'
      <4>1. PICK i \in 1..n : g_lstTrig[i] = s
        BY <2>1, <3>1 DEF Members
      <4>2. k <= i
        BY <2>10, <4>1
      <4>3. \E j \in DOMAIN g_lstTrig' : g_lstTrig'[j] = s
        BY <2>1, <2>3, <2>5, <4>1, <4>2
      <4>4. QED
        BY <4>3 DEF Members
    <3>3. ASSUME NEW i \in DOMAIN g_lstTrig', NEW j \in DOMAIN g_lstTrig', NEW o \in DOMAIN g_lstTrig',
                 g_lstTrig'[o] = f, g_lstTrig'[i] \in g_lstSecTrig, i <= j, j <= o
          PROVE  Sec(f) - Sec(g_lstTrig'[j]) <= TIMEOUT_PROTPNT
      <4> DEFINE x == i + k - 1
                 y == j + k - 1
                 z == o + k - 1
      <4>1. x \in DOMAIN g_lstTrig /\ y \in DOMAIN g_lstTrig /\ z \in DOMAIN g_lstTrig /\ x <= y /\ y <= z
        BY <2>5, <3>3
      <4>2. g_lstTrig'[i] = g_lstTrig[x] /\ g_lstTrig'[j] = g_lstTrig[y] /\ g_lstTrig'[o] = g_lstTrig[z]
        BY <2>5
      <4> HIDE DEF x, y, z
      <4>3. Sec(f) - Sec(g_lstTrig[y]) <= TIMEOUT_PROTPNT
        BY <3>3, <4>1, <4>2 DEF WindowInv, CollectedNear
      <4>4. QED
        BY <4>2, <4>3
    <3>4. QED
      BY <3>1, <3>2, <3>3
  <2>12. QED
    BY <2>6, <2>7, <2>8, <2>11 DEF WindowInv
<1>5. QED
  BY <1>3, <1>4 DEF BeginPass, ClearTimeoutTrig

\* What is collected for a fault reaches from its own signal both ways until
\* the first signal outside of its window.
LEMMA CollectedProperties ==
  ASSUME TypeOK, Distinct(g_lstTrig), NEW p \in DOMAIN g_lstTrig, NEW t \in Nat
  PROVE  /\ g_lstTrig[p] \in Collected(p, t)
         /\ Collected(p, t) \subseteq Members(g_lstTrig)
         /\ \A i \in DOMAIN g_lstTrig : i >= p =>
              (g_lstTrig[i] \in Collected(p, t) <=>
                 \A j \in p..i : Sec(g_lstTrig[j]) - Sec(g_lstTrig[p]) <= t)
         /\ \A i \in DOMAIN g_lstTrig : i < p =>
              (g_lstTrig[i] \in Collected(p, t) <=>
                 \A j \in i..(p - 1) : Sec(g_lstTrig[p]) - Sec(g_lstTrig[j]) <= t)
<1> DEFINE n == Len(g_lstTrig)
           Behind == {k \in p..n : \A j \in p..k : Sec(g_lstTrig[j]) - Sec(g_lstTrig[p]) <= t}
           Before == {k \in 1..(p - 1) : \A j \in k..(p - 1) : Sec(g_lstTrig[p]) - Sec(g_lstTrig[j]) <= t}
<1>1. n \in Nat /\ DOMAIN g_lstTrig = 1..n /\ p \in 1..n
  BY DEF TypeOK
<1>2. Collected(p, t) = {g_lstTrig[i] : i \in Behind} \cup {g_lstTrig[i] : i \in Before}
  BY DEF Collected
<1>3. Behind \subseteq p..n /\ Before \subseteq 1..(p - 1) /\ Behind \subseteq 1..n /\ Before \subseteq 1..n
  BY <1>1
<1>4. \A i \in 1..n : g_lstTrig[i] \in Collected(p, t) <=> i \in Behind \/ i \in Before
  <2> SUFFICES ASSUME NEW i \in 1..n
               PROVE  g_lstTrig[i] \in Collected(p, t) <=> i \in Behind \/ i \in Before
    OBVIOUS
  <2> HIDE DEF Behind, Before, n
  <2>1. \A j \in Behind \cup Before : g_lstTrig[i] = g_lstTrig[j] => i = j
    BY <1>1, <1>3 DEF Distinct
  <2>2. QED
    BY <1>2, <2>1
<1>5. \A i \in 1..n : i >= p => i \in p..n /\ i \notin 1..(p - 1)
  BY <1>1
<1>6. \A i \in 1..n : i < p => i \in 1..(p - 1) /\ i \notin p..n
  BY <1>1
<1>7. \A i \in 1..n : i >= p => (g_lstTrig[i] \in Collected(p, t) <=> i \in Behind)
  <2> HIDE DEF Behind, Before, n
  <2> QED
    BY <1>3, <1>4, <1>5
<1>8. \A i \in 1..n : i < p => (g_lstTrig[i] \in Collected(p, t) <=> i \in Before)
  <2> HIDE DEF Behind, Before, n
  <2> QED
    BY <1>3, <1>4, <1>6
<1>9. p \in Behind
  <2>1. \A j \in p..p : j = p
    BY <1>1
  <2>2. Sec(g_lstTrig[p]) \in Nat
    <3>1. g_lstTrig[p] \in Times
      BY DEF TypeOK
    <3>2. g_lstTrig[p] \in Nat
      BY <3>1 DEF Times
    <3>3. QED
      BY <3>2, SecBounds
  <2>3. p \in p..n
    BY <1>1
  <2>4. QED
    BY <2>1, <2>2, <2>3
<1>10. Collected(p, t) \subseteq Members(g_lstTrig)
  <2> HIDE DEF Behind, Before, n
  <2> QED
    BY <1>1, <1>2, <1>3 DEF Members
<1>11. \A i \in p..n : i \in Behind <=> \A j \in p..i : Sec(g_lstTrig[j]) - Sec(g_lstTrig[p]) <= t
  OBVIOUS
<1>12. \A i \in 1..(p - 1) : i \in Before <=> \A j \in i..(p - 1) : Sec(g_lstTrig[p]) - Sec(g_lstTrig[j]) <= t
  OBVIOUS
<1> HIDE DEF Behind, Before, n
<1>13. g_lstTrig[p] \in Collected(p, t)
  BY <1>1, <1>4, <1>9
<1>14. ASSUME NEW i \in 1..n, i >= p
       PROVE  g_lstTrig[i] \in Collected(p, t) <=>
                 \A j \in p..i : Sec(g_lstTrig[j]) - Sec(g_lstTrig[p]) <= t
  BY <1>5, <1>7, <1>11, <1>14
<1>15. ASSUME NEW i \in 1..n, i < p
       PROVE  g_lstTrig[i] \in Collected(p, t) <=>
                 \A j \in i..(p - 1) : Sec(g_lstTrig[p]) - Sec(g_lstTrig[j]) <= t
  BY <1>6, <1>8, <1>12, <1>15
<1>16. QED
  BY <1>1, <1>10, <1>13, <1>14, <1>15

\* The pass collects the signals of a fault that is older than the time-out.
\* Of those behind its start signal only later ones are left out: they or a
\* signal before them are behind the window, and no signal is late enough to be
\* before the fault all the same.
LEMMA WindowSlept ==
  ASSUME InTime, TypeOK, SignalOrderInv, WindowInv, VisitSleep
  PROVE  WindowInv'
<1> USE DEF sigVars
<1> DEFINE f == g_lstTask[visit]
           T == TIMEOUT_PROTPNT * TicksPerSec
           p == Own(f)
<1>1. /\ UNCHANGED <<now, stamped, sigVars, g_lstTask>>
      /\ f \in Times /\ next_step[f] = "SLEEP"
  BY DEF VisitSleep, Visiting, TypeOK
<1>2. \/ UNCHANGED <<g_lstSecTrig, next_step>>
      \/ /\ f \in Members(g_lstTrig) /\ now - f > T
         /\ g_lstSecTrig' = Collected(p, TIMEOUT_PROTPNT)
         /\ next_step' = [next_step EXCEPT ![f] = "CALC"]
  BY DEF VisitSleep, InTime, TimeoutReads
<1>3. \A s : Located(s)' = Located(s)
  BY <1>1 DEF Located
<1>4. CASE UNCHANGED <<g_lstSecTrig, next_step>>
  <2>1. UNCHANGED <<HasTask, Awake, At({"CALC"}), At({"SLEEP"})>>
    BY <1>4 DEF HasTask, Awake, At
  <2>2. \A s : ToBeUsed(s)' = ToBeUsed(s)
    BY <1>4, <2>1 DEF ToBeUsed
  <2>3. QED
    BY <1>1, <1>3, <1>4, <2>1, <2>2, WindowUntouched
<1>5. ASSUME f \in Members(g_lstTrig), now - f > T, g_lstSecTrig' = Collected(p, TIMEOUT_PROTPNT),
             next_step' = [next_step EXCEPT ![f] = "CALC"]
      PROVE  WindowInv'
  <2>1. p \in DOMAIN g_lstTrig /\ g_lstTrig[p] = f
    BY <1>5 DEF Own, Position, Members
  <2>2. Distinct(g_lstTrig) /\ TIMEOUT_PROTPNT \in Nat
    BY LocationAssumption DEF SignalOrderInv, StampsDistinct
  <2>3. \A x \in Times : next_step'[x] = IF x = f THEN "CALC" ELSE next_step[x]
    BY <1>1, <1>5 DEF TypeOK
  <2>4. \A x \in Locating : x = f
    BY <1>1 DEF SignalOrderInv, OneLocating, Locating, At
  <2> HIDE DEF f, T, p
  <2>5. /\ HasTask' = HasTask /\ Locating' = Locating /\ Awake' = Awake \cup {f}
        /\ At({"CALC"})' = {f} /\ At({"CALC"}) = {} /\ f \in Locating /\ f \in HasTask
    <3>1. \A x \in Times : x # f => next_step[x] \notin {"SLEEP", "CALC"}
      BY <2>4 DEF Locating, At
    <3>2. QED
      BY <1>1, <2>3, <3>1 DEF HasTask, Locating, Awake, At
  <2>6. AppendedInTime' /\ LocatingLatest'
    BY <1>1, <2>5 DEF WindowInv, AppendedInTime, LocatingLatest
  <2>7. AwakeOld'
    <3>1. now' = now
      BY <1>1
    <3>2. QED
      BY <1>5, <2>5, <3>1 DEF WindowInv, AwakeOld, T
  <2>8. f \in g_lstSecTrig' /\ g_lstSecTrig' \subseteq Members(g_lstTrig)
    BY <1>5, <2>1, <2>2, CollectedProperties
  <2>9. ASSUME NEW i \in DOMAIN g_lstTrig, i > p, g_lstTrig[i] \notin g_lstSecTrig'
        PROVE  f < g_lstTrig[i]
    <3>1. i \in Nat /\ p \in Nat /\ i >= p
      BY <2>1, <2>9 DEF TypeOK
    <3>2. PICK j \in p..i : ~(Sec(g_lstTrig[j]) - Sec(f) <= TIMEOUT_PROTPNT)
      BY <1>5, <2>1, <2>2, <2>9, <3>1, CollectedProperties
    <3>3. j \in DOMAIN g_lstTrig /\ j <= i
      BY <2>1, <3>1 DEF TypeOK
    <3>4. f \in Nat /\ g_lstTrig[i] \in Nat /\ g_lstTrig[j] \in Nat
      <4>1. g_lstTrig[i] \in Times /\ g_lstTrig[j] \in Times
        BY <3>3 DEF TypeOK
      <4>2. QED
        BY <1>1, <4>1 DEF Times
    <3>5. Sec(g_lstTrig[j]) - Sec(f) > TIMEOUT_PROTPNT
      <4>1. Sec(g_lstTrig[j]) \in Nat /\ Sec(f) \in Nat
        BY <3>4, SecBounds
      <4>2. QED
        BY <2>2, <3>2, <4>1
    <3>6. g_lstTrig[j] - f > T
      BY <2>2, <3>4, <3>5, SecApart DEF T
    <3>7. T \in Nat /\ MaxDelay \in Nat /\ MaxDelay <= T
      BY LocationAssumption DEF InTime, T
    <3>8. CASE j = i
      BY <3>4, <3>6, <3>7, <3>8
    <3>9. CASE j < i
      <4>1. g_lstTrig[j] - g_lstTrig[i] <= MaxDelay
        BY <3>3, <3>9 DEF WindowInv, AppendedInTime
      <4>2. QED
        BY <3>4, <3>6, <3>7, <4>1
    <3>10. j = i \/ j < i
      BY <3>1, <3>3
    <3>11. QED
      BY <3>8, <3>9, <3>10
  <2>10. UnusedLater'
    <3>1. ASSUME NEW x \in Awake', NEW i \in DOMAIN g_lstTrig, NEW j \in DOMAIN g_lstTrig, i < j,
                 g_lstTrig[i] = x, ~Located(g_lstTrig[j])
          PROVE  g_lstTrig[j] \in ToBeUsed(x)' \/ x < g_lstTrig[j]
      <4>1. CASE x = f
        <5>1. i = p
          BY <2>1, <2>2, <3>1, <4>1 DEF Distinct
        <5>2. j > p
          BY <2>1, <3>1, <5>1 DEF TypeOK
        <5>3. x \in At({"CALC"})'
          BY <2>5, <4>1
        <5>4. ToBeUsed(x)' = g_lstSecTrig'
          BY <5>3 DEF ToBeUsed
        <5>5. QED
          BY <2>9, <4>1, <5>2, <5>4
      <4>2. CASE x # f
        <5>1. x \in Awake
          BY <2>5, <4>2
        <5>2. ToBeUsed(x) = {}
          BY <2>5 DEF ToBeUsed
        <5>3. QED
          BY <3>1, <5>1, <5>2 DEF WindowInv, UnusedLater
      <4>3. QED
        BY <4>1, <4>2
    <3>2. g_lstTrig' = g_lstTrig
      BY <1>1
    <3>3. QED
      BY <1>3, <3>1, <3>2 DEF UnusedLater
  <2>11. CollectedNear'
    <3>1. ASSUME NEW i \in DOMAIN g_lstTrig, NEW j \in DOMAIN g_lstTrig, NEW o \in DOMAIN g_lstTrig,
                 g_lstTrig[o] = f, g_lstTrig[i] \in g_lstSecTrig', i <= j, j <= o
          PROVE  Sec(f) - Sec(g_lstTrig[j]) <= TIMEOUT_PROTPNT
      <4>1. o = p
        BY <2>1, <2>2, <3>1 DEF Distinct
      <4>2. i \in Nat /\ j \in Nat /\ p \in Nat
        BY <2>1 DEF TypeOK
      <4>3. CASE j = p
        <5>1. Sec(f) \in Nat
          BY <1>1, SecBounds DEF Times
        <5>2. QED
          BY <2>1, <2>2, <4>3, <5>1
      <4>4. CASE j < p
        <5>1. i < p /\ j \in i..(p - 1)
          BY <3>1, <4>2, <4>4
        <5>2. \A x \in i..(p - 1) : Sec(g_lstTrig[p]) - Sec(g_lstTrig[x]) <= TIMEOUT_PROTPNT
          BY <1>5, <2>1, <2>2, <3>1, <5>1, CollectedProperties
        <5>3. QED
          BY <2>1, <5>1, <5>2
      <4>5. j = p \/ j < p
        BY <3>1, <4>1, <4>2
      <4>6. QED
        BY <4>3, <4>4, <4>5
    <3>2. g_lstTrig' = g_lstTrig
      BY <1>1
    <3>3. QED
      BY <2>5, <2>8, <3>1, <3>2 DEF CollectedNear
  <2>12. QED
    BY <2>6, <2>7, <2>10, <2>11 DEF WindowInv
<1>6. QED
  BY <1>2, <1>4, <1>5

\* The other nodes of a pass, and the removal of a group: located faults have
\* used what was collected for them.
LEMMA WindowVisited ==
  ASSUME TypeOK, SignalOrderInv, WindowInv,
         EndPass \/ VisitCalcOk \/ VisitCalcFail \/ VisitCalcIso \/ VisitGrouped \/ VisitPlanned \/ FinishGroup
  PROVE  WindowInv'
<1> USE DEF sigVars, taskVars
\* Steps that leave the signals alone and do not move faults in SLEEP or CALC.
<1>1. ASSUME UNCHANGED <<now, stamped, sigVars, g_lstSecTrig>>,
             \A x \in Times : next_step'[x] # next_step[x] => next_step[x] \notin {"none", "SLEEP", "CALC"} /\ next_step'[x] \notin {"SLEEP", "CALC"}
      PROVE  WindowInv'
  <2>1. /\ HasTask' \subseteq HasTask /\ At({"CALC"})' = At({"CALC"})
        /\ At({"SLEEP"})' = At({"SLEEP"}) /\ Awake' \subseteq Awake
    BY <1>1 DEF HasTask, Awake, At
  <2>2. \A s : Located(s)' = Located(s) /\ ToBeUsed(s)' = ToBeUsed(s)
    BY <1>1, <2>1 DEF Located, ToBeUsed
  <2>3. g_lstTrig' = g_lstTrig
    BY <1>1
  <2>4. QED
    BY <1>1, <2>1, <2>2, <2>3, WindowUntouched
<1>2. CASE EndPass \/ VisitPlanned
  BY <1>1, <1>2 DEF EndPass, VisitPlanned
<1>3. CASE VisitCalcIso
  <2>1. UNCHANGED <<now, stamped, sigVars, g_lstSecTrig>>
    BY <1>3 DEF VisitCalcIso
  <2>2. GroupFault \/ UNCHANGED next_step
    BY <1>3 DEF VisitCalcIso
  <2>3. QED
    BY <1>1, <2>1, <2>2 DEF GroupFault, At
\* Members of groups are grouped or planned.
<1>4. \A g, x : g # NoGroup /\ x \in Group(g) => next_step[x] \in {"GROUPED", "PLANNED"}
  BY DEF Group, HasTask, SignalOrderInv, GroupIdsSet
<1>5. CASE VisitGrouped
  <2> DEFINE v == g_lstTask[visit]
             g == group_id[v]
  <2>1. v \in Times /\ next_step[v] = "GROUPED"
    BY <1>5 DEF VisitGrouped, Visiting, TypeOK
  <2>2. g # NoGroup
    BY <2>1 DEF SignalOrderInv, GroupIdsSet
  <2>3. UNCHANGED <<now, stamped, sigVars, g_lstSecTrig>>
    BY <1>5 DEF VisitGrouped
  <2>4. \/ next_step' = [x \in Times |-> IF x \in Group(g) THEN "PLANNED" ELSE next_step[x]]
        \/ next_step' = [x \in Times |-> IF x \in Group(g) THEN "none" ELSE next_step[x]]
    BY <1>5 DEF VisitGrouped, Remove
  <2> HIDE DEF g
  <2>5. QED
    BY <1>1, <1>4, <2>2, <2>3, <2>4
<1>6. CASE FinishGroup
  <2>1. UNCHANGED <<now, stamped, sigVars, g_lstSecTrig>>
    BY <1>6 DEF FinishGroup
  <2>2. PICK x \in At({"PLANNED"}) : Remove(Group(group_id[x]))
    BY <1>6 DEF FinishGroup
  <2> DEFINE g == group_id[x]
  <2>3. g # NoGroup
    BY DEF SignalOrderInv, GroupIdsSet, At
  <2>4. next_step' = [y \in Times |-> IF y \in Group(g) THEN "none" ELSE next_step[y]]
    BY <2>2 DEF Remove
  <2> HIDE DEF g
  <2>5. QED
    BY <1>1, <1>4, <2>1, <2>3, <2>4
<1>7. CASE VisitCalcOk \/ VisitCalcFail
  <2> DEFINE f == g_lstTask[visit]
  <2>1. f \in Times /\ next_step[f] = "CALC"
    BY <1>7 DEF VisitCalcOk, VisitCalcFail, Visiting, TypeOK
  <2>2. /\ UNCHANGED <<now, stamped, g_lstSecTrig>> /\ MarkUsed(f)
        /\ \A x \in Times : x # f => next_step'[x] = next_step[x]
        /\ next_step'[f] \in {"CALC_ISO", "none"}
    BY <1>7, <2>1 DEF VisitCalcOk, VisitCalcFail, Remove, TypeOK
  <2>3. g_lstTrig' = g_lstTrig /\ \A x \in Times : Located(x) => Located(x)'
    BY <2>1, <2>2, MarkUsedGrows DEF MarkUsed, Located
  <2>4. \A x \in g_lstSecTrig \cap Members(g_lstTrig) : Located(x)'
    BY <2>1, <2>2, MarkUsedGrows DEF Located
  <2> HIDE DEF f
  <2>5. /\ HasTask' \subseteq HasTask /\ At({"CALC"})' \subseteq At({"CALC"})
        /\ At({"SLEEP"})' \subseteq At({"SLEEP"}) /\ Awake' \subseteq Awake
    BY <2>1, <2>2 DEF HasTask, Awake, At
  <2>6. \A x : ToBeUsed(x) \subseteq g_lstSecTrig
    BY DEF ToBeUsed
  <2>7. \A x \in Awake' : \A s \in ToBeUsed(x) \cap Members(g_lstTrig) : s \in ToBeUsed(x)' \/ Located(s)'
    BY <2>4, <2>6
  <2>8. UNCHANGED <<g_lstTrig, g_lstSecTrig, now>> /\ stamped' = stamped
    BY <2>2, <2>3
  <2>9. QED
    BY <2>3, <2>5, <2>7, <2>8, WindowUntouched
<1>8. QED
  BY <1>2, <1>3, <1>5, <1>6, <1>7

LEMMA NextWindowInv == InTime /\ TypeOK /\ SignalOrderInv /\ WindowInv /\ [Next]_vars => WindowInv'
<1> SUFFICES ASSUME InTime, TypeOK, SignalOrderInv, WindowInv, [Next]_vars
             PROVE  WindowInv'
  OBVIOUS
<1>1. CASE UNCHANGED vars
  <2>1. UNCHANGED <<g_lstTrig, g_lstSecTrig, now, stamped, lst_fault, next_step>>
    BY <1>1 DEF vars, sigVars, taskVars
  <2>2. UNCHANGED <<HasTask, Awake, At({"CALC"}), At({"SLEEP"})>>
    BY <2>1 DEF HasTask, Awake, At
  <2>3. \A s : Located(s)' = Located(s) /\ ToBeUsed(s)' = ToBeUsed(s)
    BY <2>1, <2>2 DEF Located, ToBeUsed
  <2>4. QED
    BY <2>1, <2>2, <2>3, WindowUntouched
<1>2. CASE Next
  BY <1>2, WindowProduced, WindowAlarmed, WindowCleared, WindowSlept, WindowVisited DEF Next, Process, Visit
<1>3. QED
  BY <1>1, <1>2

\* A fault leaves SLEEP for CALC only where its signals are collected; in a
\* list in the order of time the walks stop at the ends of the window.
LEMMA StepCollects ==
  ASSUME InTime, TypeOK, SignalOrderInv, [Next]_vars,
         NEW f \in Times, next_step[f] = "SLEEP", next_step'[f] = "CALC",
         \A i, j \in DOMAIN g_lstTrig : i < j => Sec(g_lstTrig[i]) <= Sec(g_lstTrig[j])
  PROVE  g_lstSecTrig' = {s \in Members(g_lstTrig) :
                            /\ Sec(s) - Sec(f) <= TIMEOUT_PROTPNT
                            /\ Sec(f) - Sec(s) <= TIMEOUT_PROTPNT}
<1> USE DEF sigVars, taskVars
<1>1. VisitSleep /\ g_lstTask[visit] = f
  <2>1. ASSUME VisitSleep
        PROVE  g_lstTask[visit] = f
    <3>1. next_step' = next_step \/ next_step' = [next_step EXCEPT ![g_lstTask[visit]] = "CALC"]
      BY <2>1 DEF VisitSleep
    <3>2. QED
      BY <3>1 DEF TypeOK
  <2>2. ASSUME NEW S, Remove(S)
        PROVE  FALSE
    BY <2>2 DEF Remove
  <2>3. ASSUME GroupFault
        PROVE  FALSE
    BY <2>3 DEF GroupFault
  <2>4. ~AlarmStart
    BY DEF AlarmStart, TypeOK
  <2>5. ~VisitCalcOk /\ ~VisitCalcFail
    BY <2>2 DEF VisitCalcOk, VisitCalcFail, TypeOK
  <2>6. ~VisitCalcIso /\ ~VisitGrouped /\ ~FinishGroup
    BY <2>2, <2>3 DEF VisitCalcIso, VisitGrouped, FinishGroup
  <2>7. next_step' # next_step /\ ~Restart
    BY DEF Restart
  <2>8. QED
    BY <2>1, <2>4, <2>5, <2>6, <2>7
       DEF Next, Process, Visit, vars, Tick, Stamp, Discard, Push, AlarmScan, AlarmStartLost, AlarmIdle,
           BeginPass, EndPass, VisitPlanned
<1> DEFINE p == Own(f)
<1>2. f \in Members(g_lstTrig) /\ g_lstSecTrig' = Collected(p, TIMEOUT_PROTPNT)
  BY <1>1 DEF VisitSleep, InTime, TimeoutReads
<1>3. p \in DOMAIN g_lstTrig /\ g_lstTrig[p] = f
  BY <1>2 DEF Own, Position, Members
<1>4. Distinct(g_lstTrig) /\ TIMEOUT_PROTPNT \in Nat
  BY LocationAssumption DEF SignalOrderInv, StampsDistinct
<1> HIDE DEF p
<1>5. \A i \in DOMAIN g_lstTrig : g_lstTrig[i] \in Times /\ i \in Nat
  BY DEF TypeOK
<1>6. \A i \in DOMAIN g_lstTrig : Sec(g_lstTrig[i]) \in Nat
  BY <1>5, SecBounds DEF Times
<1>7. ASSUME NEW i \in DOMAIN g_lstTrig
      PROVE  g_lstTrig[i] \in g_lstSecTrig' <=>
               Sec(g_lstTrig[i]) - Sec(f) <= TIMEOUT_PROTPNT /\ Sec(f) - Sec(g_lstTrig[i]) <= TIMEOUT_PROTPNT
  <2>1. \A j \in DOMAIN g_lstTrig : j <= i => Sec(g_lstTrig[j]) <= Sec(g_lstTrig[i])
    <3> SUFFICES ASSUME NEW j \in DOMAIN g_lstTrig, j <= i
                 PROVE  Sec(g_lstTrig[j]) <= Sec(g_lstTrig[i])
      OBVIOUS
    <3>1. j < i \/ j = i
      BY <1>5
    <3>2. QED
      BY <1>6, <3>1
  <2>2. \A j \in DOMAIN g_lstTrig : i <= j => Sec(g_lstTrig[i]) <= Sec(g_lstTrig[j])
    <3> SUFFICES ASSUME NEW j \in DOMAIN g_lstTrig, i <= j
                 PROVE  Sec(g_lstTrig[i]) <= Sec(g_lstTrig[j])
      OBVIOUS
    <3>1. i < j \/ j = i
      BY <1>5
    <3>2. QED
      BY <1>6, <3>1
  <2>3. CASE i >= p
    <3>1. Sec(f) <= Sec(g_lstTrig[i]) /\ i \in p..i /\ p..i \subseteq DOMAIN g_lstTrig
      BY <1>3, <1>5, <2>1, <2>3 DEF TypeOK
    <3>2. \A j \in p..i : Sec(g_lstTrig[j]) <= Sec(g_lstTrig[i])
      BY <2>1, <3>1
    <3>3. g_lstTrig[i] \in g_lstSecTrig' <=> \A j \in p..i : Sec(g_lstTrig[j]) - Sec(f) <= TIMEOUT_PROTPNT
      BY <1>2, <1>3, <1>4, <2>3, CollectedProperties
    <3>4. QED
      BY <1>3, <1>4, <1>6, <3>1, <3>2, <3>3
  <2>4. CASE i < p
    <3>1. Sec(g_lstTrig[i]) <= Sec(f) /\ i \in i..(p - 1) /\ i..(p - 1) \subseteq DOMAIN g_lstTrig
      BY <1>3, <1>5, <2>2, <2>4 DEF TypeOK
    <3>2. \A j \in i..(p - 1) : Sec(g_lstTrig[i]) <= Sec(g_lstTrig[j])
      BY <2>2, <3>1
    <3>3. g_lstTrig[i] \in g_lstSecTrig' <=> \A j \in i..(p - 1) : Sec(f) - Sec(g_lstTrig[j]) <= TIMEOUT_PROTPNT
      BY <1>2, <1>3, <1>4, <2>4, CollectedProperties
    <3>4. QED
      BY <1>3, <1>4, <1>6, <3>1, <3>2, <3>3
  <2>5. i >= p \/ i < p
    BY <1>3, <1>5
  <2>6. QED
    BY <2>3, <2>4, <2>5
<1>8. g_lstSecTrig' \subseteq Members(g_lstTrig)
  BY <1>2, <1>3, <1>4, CollectedProperties
<1>9. QED
  BY <1>7, <1>8 DEF Members

\* Read with one time-out and appended before it is over, the signals a fault
\* is located from are those around its own: all of them if the list is in the
\* order of time, and none is erased before the fault is located.
THEOREM WindowsKept ==
  ASSUME InTime
  PROVE  Spec => WindowKept
<1>1. Init => TypeOK /\ SignalOrderInv /\ WindowInv
  BY InitTypeOK, InitSignalOrder, WindowInitially
<1>2. TypeOK /\ SignalOrderInv /\ WindowInv /\ [Next]_vars => (TypeOK /\ SignalOrderInv /\ WindowInv)'
  BY NextTypeOK, NextSignalOrder, NextWindowInv
<1>3. TypeOK /\ SignalOrderInv /\ WindowInv /\ [Next]_vars => WindowCollected
  BY StepCollects DEF WindowCollected
<1>4. WindowInv' => CollectedAlive'
  BY DEF WindowInv, CollectedNear, CollectedAlive
<1>5. TypeOK /\ SignalOrderInv /\ WindowInv /\ [Next]_vars => [WindowCollected /\ CollectedAlive']_vars
  BY <1>2, <1>3, <1>4
<1>6. QED
  BY <1>1, <1>2, <1>5, PTL DEF Spec, WindowKept
=============================================================================
