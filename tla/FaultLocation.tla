--------------------------- MODULE FaultLocation ---------------------------
(***************************************************************************)
(* From fault signals to fault groups: the threads of main.cpp that share  *)
(* g_lstTrig and g_lstTask in the real-time server (VERSION_REALTIME).     *)
(*                                                                         *)
(*   thread_recv_rte, thread_scan_bus   stamp a signal with gettimeofday,  *)
(*       and later, under trig_list_mutex, append it to g_lstTrig          *)
(*   thread_alarm_process   checks under task_list_mutex that no fault is  *)
(*       being located, lets the lock go, and starts a fault from the      *)
(*       first start signal no fault has used, with trig_list_mutex only   *)
(*   thread_process   every pass, holding task_list_mutex throughout,      *)
(*       clears old signals and moves each fault one step on               *)
(*                                                                         *)
(* A signal is identified by its stamp tm_add, a fault by the stamp of its *)
(* start signal (head.fault_id is that stamp printed), so both are members *)
(* of Times, in ticks; the comparisons of tv_sec use whole seconds.        *)
(***************************************************************************)
EXTENDS FaultGrouping

CONSTANTS
  TicksPerSec,       \* resolution of tv_usec
  TIMEOUT_PROTPNT,   \* FDIR_CONFIG: seconds around a start signal (30)
  EdgeSets,          \* edge-breaker sets FaultDetection may return
  ConfigRace,        \* whether g_FdirConfig may be read while it is refilled
  MaxDelay,          \* bound: ticks from the stamp of a signal to its append
  MaxTrig,           \* bound: signals in g_lstTrig (below MAX_FAULT)
  LastStamp,         \* bound: no signal is stamped after this tick
  MaxTime            \* bound: the clock stops at this tick

ASSUME LocationAssumption ==
  /\ TicksPerSec \in Nat \ {0}
  /\ TIMEOUT_PROTPNT \in Nat
  /\ ConfigRace \in BOOLEAN
  /\ MaxDelay \in Nat
  /\ MaxTrig \in Nat
  /\ LastStamp \in Nat
  /\ MaxTime \in Nat

Times == 0..MaxTime
NoStamp == -1                  \* the producer holds no signal
NoGroup == -1                  \* head.group_id[0] == 0
Producers == {"recv", "bus"}   \* thread_recv_rte, thread_scan_bus

\* TASK_FAULT_STATUS_*; "none" is a fault without a task.  "PLANNED" stands
\* for ISO, PROCESS, RE_CALC and INVALID_RECALC, which StepExecution models.
Steps == {"none", "SLEEP", "CALC", "CALC_ISO", "GROUPED", "PLANNED"}

VARIABLES
  now,          \* the wall clock, in ticks
  fresh,        \* no signal has been stamped in this tick
  stamped,      \* data_trig.tm_add of a producer between stamp and append
  g_lstTrig,    \* FDIR_POINT_TRIG_LIST, the signals by their stamp
  start,        \* the signals of g_lstTrig a fault can start from
  lst_fault,    \* lst_fault of each signal: the faults that used it
  g_lstSecTrig, \* the signals collected for the fault being located
  g_lstTask,    \* FDIR_TASK_LIST, the fault tasks by their fault id
  next_step,    \* task_data.fault.next_step
  edge,         \* get_edge_cb() of a located fault
  group_id,     \* head.group_id
  visit,        \* thread_process: 0 outside a pass, else the node it is at
  alarm         \* thread_alarm_process: "scan", or "start" once bCanScan

sigVars  == <<g_lstTrig, start, lst_fault>>
taskVars == <<g_lstTask, next_step, edge, group_id>>
vars == <<now, fresh, stamped, sigVars, g_lstSecTrig, taskVars, visit, alarm>>

Sec(t) == t \div TicksPerSec

\* The faults with a task in one of the given steps.
At(S) == {f \in Times : next_step[f] \in S}

Locating == At({"SLEEP", "CALC"})
HasTask  == Times \ At({"none"})

Located(s) == lst_fault[s] # <<>>

\* The position in g_lstTrig of the start signal of fault f: tm_add = tv_creat.
Own(f) == Position(g_lstTrig, f)
\* What a read of g_FdirConfig.TIMEOUT_PROTPNT can return.  GetFdirConfig
\* zeroes the shared record and refills it, on every received message, and
\* neither it nor the readers take a lock.
TimeoutReads == IF ConfigRace THEN {0, TIMEOUT_PROTPNT} ELSE {TIMEOUT_PROTPNT}
-----------------------------------------------------------------------------
Init ==
  /\ now = 0
  /\ fresh = TRUE
  /\ stamped = [p \in Producers |-> NoStamp]
  /\ g_lstTrig = <<>>
  /\ start = {}
  /\ lst_fault = [s \in Times |-> <<>>]
  /\ g_lstSecTrig = {}
  /\ g_lstTask = <<>>
  /\ next_step = [f \in Times |-> "none"]
  /\ edge = [f \in Times |-> {}]
  /\ group_id = [f \in Times |-> NoGroup]
  /\ visit = 0
  /\ alarm = "scan"

\* Time passes; a producer is at most MaxDelay ticks between stamp and append.
Tick ==
  /\ now < MaxTime
  /\ \A p \in Producers : stamped[p] # NoStamp => now - stamped[p] < MaxDelay
  /\ now' = now + 1
  /\ fresh' = TRUE
  /\ UNCHANGED <<stamped, sigVars, g_lstSecTrig, taskVars, visit, alarm>>

\* The process exits (SetRestartTimer after a model change, or a fault in the
\* memory it uses) and the daemon starts it again with nothing in memory.
Restart ==
  /\ stamped' = [p \in Producers |-> NoStamp]
  /\ g_lstTrig' = <<>> /\ start' = {} /\ lst_fault' = [s \in Times |-> <<>>]
  /\ g_lstSecTrig' = {}
  /\ g_lstTask' = <<>> /\ next_step' = [f \in Times |-> "none"]
  /\ edge' = [f \in Times |-> {}] /\ group_id' = [f \in Times |-> NoGroup]
  /\ visit' = 0 /\ alarm' = "scan"
  /\ UNCHANGED <<now, fresh>>
-----------------------------------------------------------------------------
(* thread_recv_rte and thread_scan_bus *)

\* gettimeofday(&data_trig.tm_add): no two signals have one stamp.
Stamp(p) ==
  /\ stamped[p] = NoStamp
  /\ fresh /\ now <= LastStamp
  /\ Len(g_lstTrig) + Cardinality({q \in Producers : stamped[q] # NoStamp}) < MaxTrig
  /\ stamped' = [stamped EXCEPT ![p] = now]
  /\ fresh' = FALSE
  /\ UNCHANGED <<now, sigVars, g_lstSecTrig, taskVars, visit, alarm>>

\* continue: the feeder forbids DA, a record cannot be read, a switch closed.
Discard(p) ==
  /\ stamped[p] # NoStamp
  /\ stamped' = [stamped EXCEPT ![p] = NoStamp]
  /\ UNCHANGED <<now, fresh, sigVars, g_lstSecTrig, taskVars, visit, alarm>>

\* g_lstTrig.push_back(data_trig).  A dead bus always starts a fault; of the
\* received signals only some kinds do.
Push(p) ==
  /\ stamped[p] # NoStamp
  /\ g_lstTrig' = Append(g_lstTrig, stamped[p])
  /\ \/ start' = start \cup {stamped[p]}
     \/ p = "recv" /\ start' = start
  /\ stamped' = [stamped EXCEPT ![p] = NoStamp]
  /\ UNCHANGED <<now, fresh, lst_fault, g_lstSecTrig, taskVars, visit, alarm>>

-----------------------------------------------------------------------------
(* thread_alarm_process *)

\* A mutant of AlarmScan: only a fault in SLEEP holds the scan up.
AlarmScanSleepOnly ==
  /\ alarm = "scan" /\ visit = 0
  /\ At({"SLEEP"}) = {}
  /\ alarm' = "start"
  /\ UNCHANGED <<now, fresh, stamped, sigVars, g_lstSecTrig, taskVars, visit>>

\* First half of the loop, under task_list_mutex: bCanScan if no fault is
\* being located.
AlarmScan ==
  /\ alarm = "scan" /\ visit = 0
  /\ Locating = {}
  /\ alarm' = "start"
  /\ UNCHANGED <<now, fresh, stamped, sigVars, g_lstSecTrig, taskVars, visit>>

\* A mutant of UnusedStarts: a used signal can start a fault again.
AllStarts == {i \in DOMAIN g_lstTrig : g_lstTrig[i] \in start}

\* The start signals no fault has used yet, by position.
UnusedStarts ==
  {i \in DOMAIN g_lstTrig : g_lstTrig[i] \in start /\ ~Located(g_lstTrig[i])}

\* A mutant of AlarmStart: from the latest signal, not the first.
AlarmStartLatest ==
  /\ alarm = "start"
  /\ \E i \in UnusedStarts :
       /\ \A j \in UnusedStarts : i >= j
       /\ g_lstTask' = Append(g_lstTask, g_lstTrig[i])
       /\ next_step' = [next_step EXCEPT ![g_lstTrig[i]] = "SLEEP"]
  /\ alarm' = "scan"
  /\ UNCHANGED <<now, fresh, stamped, sigVars, g_lstSecTrig, edge, group_id, visit>>

\* Second half, under trig_list_mutex only: AddTask of a fault for the first
\* of them.  thread_process may be in the middle of a pass.
AlarmStart ==
  /\ alarm = "start"
  /\ \E i \in UnusedStarts :
       /\ \A j \in UnusedStarts : i <= j
       /\ g_lstTask' = Append(g_lstTask, g_lstTrig[i])
       /\ next_step' = [next_step EXCEPT ![g_lstTrig[i]] = "SLEEP"]
  /\ alarm' = "scan"
  /\ UNCHANGED <<now, fresh, stamped, sigVars, g_lstSecTrig, edge, group_id, visit>>

\* The task is lost: push_back and an erase of the pass work on the links of
\* the same nodes at once.  Only faults in GROUPED can then be erased.
AlarmStartLost ==
  /\ alarm = "start" /\ UnusedStarts # {}
  /\ visit # 0 /\ At({"GROUPED"}) # {}
  /\ alarm' = "scan"
  /\ UNCHANGED <<now, fresh, stamped, sigVars, g_lstSecTrig, taskVars, visit>>

\* No such signal.
AlarmIdle ==
  /\ alarm = "start" /\ UnusedStarts = {}
  /\ alarm' = "scan"
  /\ UNCHANGED <<now, fresh, stamped, sigVars, g_lstSecTrig, taskVars, visit>>
-----------------------------------------------------------------------------
(* thread_process *)

\* A mutant of FirstTooOld: a signal just t seconds older is too old.
FirstAsOld(p, t) ==
  {i \in 1..(p - 1) : /\ Sec(g_lstTrig[p]) - Sec(g_lstTrig[i]) >= t
                      /\ \A j \in (i + 1)..(p - 1) :
                           Sec(g_lstTrig[p]) - Sec(g_lstTrig[j]) < t}

\* clear_timeout_trig: from the start signal at position p of the first fault
\* in the task list, back to the first signal more than t seconds older; what
\* is before that one is erased.
FirstTooOld(p, t) ==
  {i \in 1..(p - 1) : /\ Sec(g_lstTrig[p]) - Sec(g_lstTrig[i]) > t
                      /\ \A j \in (i + 1)..(p - 1) :
                           Sec(g_lstTrig[p]) - Sec(g_lstTrig[j]) <= t}

KeepFrom(k) ==
  /\ g_lstTrig' = SubSeq(g_lstTrig, k, Len(g_lstTrig))
  /\ start' = start \ {g_lstTrig[i] : i \in 1..(k - 1)}
  /\ lst_fault' = [s \in Times |-> IF s \in {g_lstTrig[i] : i \in 1..(k - 1)}
                                   THEN <<>> ELSE lst_fault[s]]

\* A mutant of ClearTimeoutTrig: from the last fault of the list.
ClearFromLastFault ==
  LET anchor == g_lstTask[Len(g_lstTask)]
  IN  IF anchor \in Members(g_lstTrig)
      THEN \E t \in TimeoutReads :
             \/ \E k \in FirstTooOld(Own(anchor), t) : KeepFrom(k)
             \/ FirstTooOld(Own(anchor), t) = {} /\ UNCHANGED sigVars
      ELSE UNCHANGED sigVars

ClearTimeoutTrig ==
  LET anchor == g_lstTask[1]
  IN  IF anchor \in Members(g_lstTrig)
      THEN \E t \in TimeoutReads :
             \/ \E k \in FirstTooOld(Own(anchor), t) : KeepFrom(k)
             \/ FirstTooOld(Own(anchor), t) = {} /\ UNCHANGED sigVars
      ELSE UNCHANGED sigVars

\* The pass takes task_list_mutex and starts at begin().
BeginPass ==
  /\ visit = 0 /\ g_lstTask # <<>>
  /\ ClearTimeoutTrig
  /\ visit' = 1
  /\ UNCHANGED <<now, fresh, stamped, g_lstSecTrig, taskVars, alarm>>

EndPass ==
  /\ visit > Len(g_lstTask)
  /\ visit' = 0
  /\ UNCHANGED <<now, fresh, stamped, sigVars, g_lstSecTrig, taskVars, alarm>>

\* The node the pass is at.
Visiting(step) ==
  /\ visit \in DOMAIN g_lstTask
  /\ next_step[g_lstTask[visit]] = step

\* RemoveTask, RemoveTasks.
Remove(S) ==
  /\ g_lstTask' = Erase(g_lstTask, S)
  /\ next_step' = [f \in Times |-> IF f \in S THEN "none" ELSE next_step[f]]
  /\ edge' = [f \in Times |-> IF f \in S THEN {} ELSE edge[f]]
  /\ group_id' = [f \in Times |-> IF f \in S THEN NoGroup ELSE group_id[f]]

\* After a removal: it = g_lstTask.begin(), and then the it++ of the for.
SecondNode == 2

\* A mutant of Collected: what came less than t seconds before.
CollectedShort(p, t) ==
  {g_lstTrig[i] : i \in {k \in p..Len(g_lstTrig) :
     \A j \in p..k : Sec(g_lstTrig[j]) - Sec(g_lstTrig[p]) <= t}}
  \cup
  {g_lstTrig[i] : i \in {k \in 1..(p - 1) :
     \A j \in k..(p - 1) : Sec(g_lstTrig[p]) - Sec(g_lstTrig[j]) < t}}

\* The signals of g_lstTrig within t seconds of the one at p, walking away
\* from it in both directions until one is not.
Collected(p, t) ==
  {g_lstTrig[i] : i \in {k \in p..Len(g_lstTrig) :
     \A j \in p..k : Sec(g_lstTrig[j]) - Sec(g_lstTrig[p]) <= t}}
  \cup
  {g_lstTrig[i] : i \in {k \in 1..(p - 1) :
     \A j \in k..(p - 1) : Sec(g_lstTrig[p]) - Sec(g_lstTrig[j]) <= t}}

\* SLEEP: once the fault is older than the time-out, g_lstSecTrig gets the
\* signals around its start signal.
VisitSleep ==
  /\ Visiting("SLEEP")
  /\ LET f == g_lstTask[visit]
     IN  \E wait, t \in TimeoutReads :
           IF f \in Members(g_lstTrig) /\ now - f > wait * TicksPerSec
           THEN /\ g_lstSecTrig' = Collected(Own(f), t)
                /\ next_step' = [next_step EXCEPT ![f] = "CALC"]
           ELSE UNCHANGED <<g_lstSecTrig, next_step>>
  /\ visit' = visit + 1
  /\ UNCHANGED <<now, fresh, stamped, sigVars, g_lstTask, edge, group_id, alarm>>

\* Each collected signal gets f as the last fault that used it.  A pointer
\* whose signal was erased writes to memory that a later signal may own.
MarkUsed(f) ==
  \E reused \in SUBSET Members(g_lstTrig) :
    /\ Cardinality(reused) <= Cardinality(g_lstSecTrig \ Members(g_lstTrig))
    /\ lst_fault' =
         [s \in Times |->
            IF s \in reused \cup (g_lstSecTrig \cap Members(g_lstTrig))
            THEN Append(lst_fault[s], f) ELSE lst_fault[s]]
    /\ UNCHANGED <<g_lstTrig, start>>

\* CALC, FDIR_R_SUCCEED: the fault waits to be grouped.
VisitCalcOk ==
  /\ Visiting("CALC")
  /\ LET f == g_lstTask[visit]
     IN  /\ MarkUsed(f)
         /\ next_step' = [next_step EXCEPT ![f] = "CALC_ISO"]
         /\ \E e \in EdgeSets : edge' = [edge EXCEPT ![f] = e]
  /\ visit' = visit + 1
  /\ UNCHANGED <<now, fresh, stamped, g_lstSecTrig, g_lstTask, group_id, alarm>>

\* A mutant of VisitCalcFail: the pass steps back before the removed node.
VisitCalcFailStepsBack ==
  /\ Visiting("CALC")
  /\ MarkUsed(g_lstTask[visit])
  /\ Remove({g_lstTask[visit]})
  /\ visit' = visit - 2
  /\ UNCHANGED <<now, fresh, stamped, g_lstSecTrig, alarm>>

\* A mutant of VisitCalcFail: the signals stay unused.
VisitCalcFailUnmarked ==
  /\ Visiting("CALC")
  /\ Remove({g_lstTask[visit]})
  /\ visit' = SecondNode
  /\ UNCHANGED <<now, fresh, stamped, sigVars, g_lstSecTrig, alarm>>

\* CALC, FDIR_FAIL_DIRECT: the signals count as used all the same, the
\* records are written and the task is removed.
VisitCalcFail ==
  /\ Visiting("CALC")
  /\ MarkUsed(g_lstTask[visit])
  /\ Remove({g_lstTask[visit]})
  /\ visit' = SecondNode
  /\ UNCHANGED <<now, fresh, stamped, g_lstSecTrig, alarm>>

\* CALC_ISO: from the signal after the start signal of f, as long as a signal
\* is within t seconds of the anchor, it must have been used.  A signal last
\* used by another fault becomes the anchor.
CanGroup(f, t) ==
  LET n == Len(g_lstTrig)
      walk[i \in 2..(n + 1), a \in Times] ==
        \/ i > n
        \/ Sec(g_lstTrig[i]) - Sec(a) > t
        \/ LET used == lst_fault[g_lstTrig[i]]
           IN  /\ used # <<>>
               /\ walk[i + 1, IF used[Len(used)] = f THEN a ELSE g_lstTrig[i]]
  IN  f \in Members(g_lstTrig) /\ walk[Own(f) + 1, f]

\* GroupFault: every fault in CALC_ISO becomes GROUPED, not only this one.
GroupFault ==
  LET located == At({"CALC_ISO"})
  IN  \E grp \in [located -> located] :
        /\ IsGrouping(grp, g_lstTask, located, edge)
        /\ group_id' = [f \in Times |-> IF f \in located THEN grp[f] ELSE group_id[f]]
        /\ next_step' = [f \in Times |-> IF f \in located THEN "GROUPED" ELSE next_step[f]]

VisitCalcIso ==
  /\ Visiting("CALC_ISO")
  /\ \E t \in TimeoutReads :
       IF CanGroup(g_lstTask[visit], t)
       THEN GroupFault
       ELSE UNCHANGED <<group_id, next_step>>
  /\ visit' = visit + 1
  /\ UNCHANGED <<now, fresh, stamped, sigVars, g_lstSecTrig, g_lstTask, edge, alarm>>

\* The tasks RemoveTasks(grpid) finds.
Group(g) == {f \in HasTask : group_id[f] = g}

\* A mutant of VisitGrouped: only the visited fault is removed.
VisitGroupedRemovesOne ==
  /\ Visiting("GROUPED")
  /\ LET S == Group(group_id[g_lstTask[visit]])
     IN  \/ /\ next_step' = [f \in Times |-> IF f \in S THEN "PLANNED" ELSE next_step[f]]
            /\ visit' = visit + 1
            /\ UNCHANGED <<g_lstTask, edge, group_id>>
         \/ /\ Remove({g_lstTask[visit]})
            /\ visit' = SecondNode
  /\ UNCHANGED <<now, fresh, stamped, sigVars, g_lstSecTrig, alarm>>

\* GROUPED: the plan of the whole group is computed.  Its faults go on to be
\* isolated and restored, or are removed when they are left to an operator.
VisitGrouped ==
  /\ Visiting("GROUPED")
  /\ LET S == Group(group_id[g_lstTask[visit]])
     IN  \/ /\ next_step' = [f \in Times |-> IF f \in S THEN "PLANNED" ELSE next_step[f]]
            /\ visit' = visit + 1
            /\ UNCHANGED <<g_lstTask, edge, group_id>>
         \/ /\ Remove(S)
            /\ visit' = SecondNode
  /\ UNCHANGED <<now, fresh, stamped, sigVars, g_lstSecTrig, alarm>>

\* The execution of the plan is StepExecution's.
VisitPlanned ==
  /\ Visiting("PLANNED")
  /\ visit' = visit + 1
  /\ UNCHANGED <<now, fresh, stamped, sigVars, g_lstSecTrig, taskVars, alarm>>

\* RemoveTasks(grpid) by HandlerMessage, under task_list_mutex.
FinishGroup ==
  /\ visit = 0
  /\ \E g \in {group_id[f] : f \in At({"PLANNED"})} : Remove(Group(g))
  /\ UNCHANGED <<now, fresh, stamped, sigVars, g_lstSecTrig, visit, alarm>>
-----------------------------------------------------------------------------
Visit ==
  \/ VisitSleep \/ VisitCalcOk \/ VisitCalcFail
  \/ VisitCalcIso \/ VisitGrouped \/ VisitPlanned

Process == BeginPass \/ Visit \/ EndPass

Next ==
  \/ Tick \/ Restart
  \/ \E p \in Producers : Stamp(p) \/ Discard(p) \/ Push(p)
  \/ AlarmScan \/ AlarmStart \/ AlarmStartLost \/ AlarmIdle
  \/ Process \/ FinishGroup

\* Time, the producers and the loops go on.  The alarm thread needs task_list_mutex,
\* which thread_process lets go for a second after every pass, and sooner or
\* later starts a fault without running into an erase.
Fairness ==
  /\ WF_vars(Tick)
  /\ \A p \in Producers : WF_vars(Push(p) \/ Discard(p))
  /\ WF_vars(Process)
  /\ SF_vars(AlarmScan)
  /\ SF_vars(AlarmStart)

Spec == Init /\ [][Next]_vars
FairSpec == Spec /\ Fairness
-----------------------------------------------------------------------------
TypeOK ==
  /\ now \in Times
  /\ fresh \in BOOLEAN
  /\ stamped \in [Producers -> Times \cup {NoStamp}]
  /\ g_lstTrig \in Seq(Times)
  /\ start \in SUBSET Times
  /\ lst_fault \in [Times -> Seq(Times)]
  /\ g_lstSecTrig \in SUBSET Times
  /\ g_lstTask \in Seq(Times)
  /\ next_step \in [Times -> Steps]
  /\ edge \in [Times -> EdgeSets \cup {{}}]
  /\ group_id \in [Times -> Times \cup {NoGroup}]
  /\ visit \in Nat
  /\ alarm \in {"scan", "start"}

\* "判断正在定位的故障是否定位完成，是否可以开始新一轮的扫描" (main.cpp:3386): at
\* most one fault is being located, although the task is added after the lock
\* under which that was checked has been let go, and while a pass runs.
\* g_lstSecTrig is one list for the whole program.
OneLocating ==
  /\ \A f, g \in Locating : f = g
  /\ alarm = "start" => Locating = {}

\* The list of tasks and the tasks' states agree, and no fault is in it twice:
\* no signal starts a second fault while the first one has a task.
TasksListed ==
  /\ Members(g_lstTask) = HasTask
  /\ Distinct(g_lstTask)

\* Between the pass that collects the signals of a fault and the pass that
\* locates it, clear_timeout_trig erases none of them, so the pointers in
\* g_lstSecTrig are good, and the start signal of the fault is one of them.
CollectedAlive ==
  \A f \in At({"CALC"}) : /\ g_lstSecTrig \subseteq Members(g_lstTrig)
                          /\ f \in g_lstSecTrig

\* A fault that is not grouped yet finds its start signal in g_lstTrig; in
\* SLEEP or CALC_ISO it would wait for ever without.
OwnSignalKept ==
  \A f \in At({"SLEEP", "CALC", "CALC_ISO"}) : f \in Members(g_lstTrig)

\* Every start signal before that of a fault with a task has been used, so
\* what clear_timeout_trig erases never is a fault nobody has looked at.
EarlierStartsUsed ==
  \A i, j \in DOMAIN g_lstTrig :
    i < j /\ g_lstTrig[j] \in HasTask /\ g_lstTrig[i] \in start => Located(g_lstTrig[i])

\* What EarlierStartsUsed and OwnSignalKept rest on: the stamps in the list
\* and in the producers' hands are all different and in the past...
StampsDistinct ==
  /\ Distinct(g_lstTrig)
  /\ \A s \in Members(g_lstTrig) : s <= now /\ (fresh => s < now)
  /\ \A p \in Producers : stamped[p] # NoStamp =>
       /\ stamped[p] <= now /\ (fresh => stamped[p] < now)
       /\ stamped[p] \notin Members(g_lstTrig)
       /\ \A q \in Producers : stamped[q] = stamped[p] => q = p

\* ... every task has its start signal in the list, and the tasks stand in the
\* order of their start signals, so that the first task has the first one...
TasksInSignalOrder ==
  /\ HasTask \subseteq Members(g_lstTrig) \cap start
  /\ \A i, j \in DOMAIN g_lstTask : i < j =>
       \A a, b \in DOMAIN g_lstTrig :
         g_lstTrig[a] = g_lstTask[i] /\ g_lstTrig[b] = g_lstTask[j] => a < b

\* ... and a fault uses its own start signal when it is located.
OwnSignalUsed ==
  /\ \A f \in At({"CALC"}) : f \in g_lstSecTrig
  /\ \A f \in HasTask \ Locating : Located(f)

\* Exactly the faults that have been grouped have a group id.
GroupIdsSet ==
  \A f \in Times : group_id[f] # NoGroup <=> next_step[f] \in {"GROUPED", "PLANNED"}

\* The inductive invariant: clear_timeout_trig only erases before the start
\* signal of the first task, and thread_alarm_process starts the next fault
\* from a signal behind those of all tasks.
SignalOrderInv ==
  /\ OneLocating
  /\ TasksListed
  /\ StampsDistinct
  /\ TasksInSignalOrder
  /\ OwnSignalUsed
  /\ EarlierStartsUsed
  /\ GroupIdsSet

\* A group is whole: the fault its id names is a member as long as any member
\* has a task, and all members are at the same point (calc_restore_step,
\* FormFdirStep and RemoveTasks treat a group as one).
GroupWhole ==
  \A f \in HasTask : group_id[f] # NoGroup =>
    /\ group_id[f] \in HasTask
    /\ group_id[group_id[f]] = group_id[f]
    /\ next_step[group_id[f]] = next_step[f]

\* "将故障启动信号前后30秒的故障信号准备好" (main.cpp:4395): a fault is located from
\* exactly the signals in the list up to 30 seconds before or after its own, as
\* long as the list is in the order of time, which two producers can break.
WindowCollected ==
  \A f \in Times :
    /\ next_step[f] = "SLEEP" /\ next_step'[f] = "CALC"
    /\ \A i, j \in DOMAIN g_lstTrig : i < j => Sec(g_lstTrig[i]) <= Sec(g_lstTrig[j])
    => g_lstSecTrig' = {s \in Members(g_lstTrig) :
                          /\ Sec(s) - Sec(f) <= TIMEOUT_PROTPNT
                          /\ Sec(f) - Sec(s) <= TIMEOUT_PROTPNT}

\* What a fault is located from (g_lstSecTrig): the signals of its window are
\* collected, and stay allocated until they have been used.
WindowKept == [][WindowCollected /\ CollectedAlive']_vars

\* Every start signal in the list is used by a fault or erased, in the end:
\* no fault blocks the scan of thread_alarm_process for ever.
StartsUsed ==
  \A s \in Times :
    (s \in start /\ s \in Members(g_lstTrig)) ~> (Located(s) \/ s \notin Members(g_lstTrig))

\* "[%.2fs]故障%s所有开关过流信号已经送达" (main.cpp:4393), all signals have arrived:
\* no signal up to 30 seconds after the start signal of a located fault is in
\* the list without having been used for it.  The code does not keep that.
AllSignalsArrived ==
  \A f \in At({"CALC_ISO"}) : \A s \in Members(g_lstTrig) :
    Sec(s) - Sec(f) \in 0..TIMEOUT_PROTPNT => f \in Members(lst_fault[s])
=============================================================================
