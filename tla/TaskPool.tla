------------------------------ MODULE TaskPool ------------------------------
(***************************************************************************)
(* The task list and the pool of fault processors of main.cpp: AddTask,    *)
(* RemoveTask, RemoveTasks and RecoMemTask, called by the alarm thread, by *)
(* the pass and by the consoles.                                           *)
(*                                                                         *)
(* task_list_mutex guards g_lstTask for the pass, for the requests "auto", *)
(* "stop" and "study_fdir", and for the scan of the alarm thread.  The     *)
(* alarm thread adds its fault, and the request to carry out one step      *)
(* looks a group up and loads it, without that lock.  mutex_array_fault is *)
(* held only while a processor is taken or given back, so those are single *)
(* actions; so is one call that walks and erases the list.                 *)
(*                                                                         *)
(* A fault is the number of its start: head.fault_id is the time it began, *)
(* and a reloaded fault gets tv_creat back from it.  A group is named by   *)
(* one of its faults.                                                      *)
(***************************************************************************)
EXTENDS TaskList, SequencesExt

CONSTANTS
  version,      \* VERSION_REALTIME or VERSION_STUDY
  MAX_FAULT,    \* fault processors: array_fdir_r, map_idle_fdir_r
  Consoles,     \* connections
  Requests,     \* the requests of consoles: "auto", "step", "pass", "stop", "study"
  StudySize,    \* Records of one study_fdir request
  MaxStart,     \* bound: faults started by signals and by studies
  MaxControls   \* bound: control tasks in the list at one time

ASSUME PoolAssumption ==
  /\ version \in {"realtime", "study"}
  /\ MAX_FAULT \in Nat \ {0}
  /\ StudySize \in Nat \ {0}
  /\ MaxStart \in Nat
  /\ MaxControls \in Nat
  /\ Requests \subseteq {"auto", "step", "pass", "stop", "study"}
  /\ Consoles # {} /\ IsFiniteSet(Consoles)
  /\ "alarm" \notin Consoles /\ "pass" \notin Consoles /\ "none" \notin Consoles

Faults == 1..MaxStart
NoGroup == 0                     \* head.group_id[0] == 0
Processors == 1..MAX_FAULT
NoProc == 0                      \* no processor, fdir_r == NULL
None == -1                       \* no group has been released
Pushed == -1                     \* the task is in the list, ExecFdir is to come
Adders == Consoles \cup {"alarm"}
Idle == [op |-> "idle", group |-> NoGroup, todo |-> <<>>, proc |-> NoProc, released |-> None]
NoStudy == [wait |-> {}, drop |-> {}]

VARIABLES
  g_lstTask,         \* FDIR_TASK_LIST
  unlinked,          \* tasks whose nodes a collision has left out of the list
  map_idle_fdir_r,   \* the processors in use (TRUE, despite its name)
  task_list_mutex,   \* who holds it
  started,           \* faults started so far
  group_of,          \* FDIR_FDIRECT.GROUPID of the faults in the database
  archived,          \* groups moved to the history: "no", "STOP" or "FINISH"
  work,              \* the call each adder is in
  study              \* the faults of a study: without a group in
                     \* map_fault_group, and in lst_remove_group

memory == <<g_lstTask, unlinked, map_idle_fdir_r>>
database == <<group_of, archived>>
vars == <<memory, task_list_mutex, started, database, work, study>>

\* A fault task in the list, and a control task of group g: its fault part,
\* which RemoveTask(s) compares, is that of a new FDIR_TASK, empty.
FaultTask(f, g, step, auto, p) == [type |-> "FAULT", fault |-> f, group |-> g, step |-> step, bAuto |-> auto, status |-> 0, fdir_r |-> p, of |-> NoGroup]
ControlTask(g) == [type |-> "CONTROL", fault |-> 0, group |-> NoGroup, step |-> "none", bAuto |-> FALSE, status |-> 0, fdir_r |-> NoProc, of |-> g]

IsFault(n) == n.type = "FAULT"
Tasks == ToSet(g_lstTask)
InMemory(g) == \E n \in Tasks : IsFault(n) /\ n.group = g
Controls == {i \in DOMAIN g_lstTask : g_lstTask[i].type = "CONTROL"}
ControlsOf(g) == {i \in Controls : g_lstTask[i].of = g}
FaultsOf(g) == {f \in DOMAIN group_of : group_of[f] = g /\ archived[g] = "no"}
Known == {g \in Faults : FaultsOf(g) # {}}
Asks(c, op) == op \in Requests /\ work[c] = Idle
Free == {p \in Processors : ~map_idle_fdir_r[p]}
FirstOf(S) == CHOOSE x \in S : \A y \in S : x <= y

Init ==
  /\ g_lstTask = <<>>
  /\ unlinked = {}
  /\ map_idle_fdir_r = [p \in Processors |-> FALSE]
  /\ task_list_mutex = "none"
  /\ started = 0
  /\ group_of = [f \in Faults |-> NoGroup]
  /\ archived = [g \in Faults |-> "no"]
  /\ work = [t \in Adders |-> Idle]
  /\ study = [c \in Consoles |-> NoStudy]

\* The process exits: memory is lost, the database stays.
Restarted ==
  /\ g_lstTask' = <<>>
  /\ unlinked' = {}
  /\ map_idle_fdir_r' = [p \in Processors |-> FALSE]
  /\ task_list_mutex' = "none"
  /\ work' = [t \in Adders |-> Idle]
  /\ study' = [c \in Consoles |-> NoStudy]
  /\ UNCHANGED <<started, database>>

-----------------------------------------------------------------------------
(* RemoveTask and RemoveTasks *)

\* A bug: only the first of the erased nodes gives its processor back.
GiveBackFirst(S) ==
  map_idle_fdir_r' = [p \in Processors |->
    map_idle_fdir_r[p] /\ ~\E i \in S : g_lstTask[i].fdir_r = p /\ \A j \in S : i <= j]

\* The processors of the nodes at the positions in S, given back.
GiveBack(S) ==
  map_idle_fdir_r' = [p \in Processors |->
    map_idle_fdir_r[p] /\ ~\E i \in S : g_lstTask[i].fdir_r = p]

EraseAt(S) == g_lstTask' = Only(g_lstTask, DOMAIN g_lstTask \ S)

\* RemoveTask erases the first node with the fault id, or none.
RemoveTask(f) ==
  LET own == {i \in DOMAIN g_lstTask : g_lstTask[i].fault = f}
      S == IF own = {} THEN {} ELSE {FirstOf(own)}
  IN GiveBack(S) /\ EraseAt(S)

\* RemoveTasks erases, from the front, all nodes with the group id, up to
\* and including the first that has no processor: then it returns false.
OfGroup(g) == {i \in DOMAIN g_lstTask : g_lstTask[i].group = g}
Unmanned(g) == {i \in OfGroup(g) : g_lstTask[i].fdir_r = NoProc}
Removed(g) == {i \in OfGroup(g) : Unmanned(g) = {} \/ i <= FirstOf(Unmanned(g))}
RemoveTasks(g) == GiveBack(Removed(g)) /\ EraseAt(Removed(g))

-----------------------------------------------------------------------------
(* AddTask *)

Adding(t) == work[t].todo # <<>>
Next1(t) == [work[t] EXCEPT !.todo = Tail(@), !.proc = NoProc]

\* The first free processor, under mutex_array_fault.
TakeProcessor(t) ==
  /\ Adding(t) /\ work[t].proc = NoProc /\ work[t].released = None /\ Free # {}
  /\ map_idle_fdir_r' = [map_idle_fdir_r EXCEPT ![FirstOf(Free)] = TRUE]
  /\ work' = [work EXCEPT ![t].proc = FirstOf(Free)]
  /\ UNCHANGED <<g_lstTask, unlinked, task_list_mutex, started, database, study>>

\* The task that is made: of a new fault, or of one that is loaded.
NewTask(t) ==
  LET f == Head(work[t].todo) IN
  CASE work[t].op = "alarm" -> {FaultTask(f, NoGroup, "CALC", a, work[t].proc) : a \in BOOLEAN}
    [] work[t].op = "study" -> {FaultTask(f, NoGroup, "CALC_ISO", a, work[t].proc) : a \in BOOLEAN}
    [] OTHER -> {FaultTask(f, work[t].group, "ISO", FALSE, work[t].proc)}

PushDone(t) == work' = [work EXCEPT ![t] = IF @.op = "study" THEN [@ EXCEPT !.proc = Pushed] ELSE Next1(t)]

\* The task goes to the end of the list; task_list_mutex is not asked for.
Push(t) ==
  /\ Adding(t) /\ work[t].proc \in Processors
  /\ \E n \in NewTask(t) : g_lstTask' = Append(g_lstTask, n)
  /\ PushDone(t)
  /\ UNCHANGED <<unlinked, map_idle_fdir_r, task_list_mutex, started, database, study>>

\* it_find: of the fault tasks with status 0 the first with the least tv_creat.
Releasable == {i \in DOMAIN g_lstTask : IsFault(g_lstTask[i]) /\ g_lstTask[i].status = 0}
Oldest == {i \in Releasable : \A j \in Releasable : g_lstTask[i].fault <= g_lstTask[j].fault}
it_find == FirstOf(Oldest)

NoneFree(t) == Adding(t) /\ work[t].proc = NoProc /\ work[t].released = None /\ Free = {}

\* What RemoveTasks erases when its argument points into the node it_find:
\* all of it, or nothing of the group behind that node, whose memory the
\* comparisons behind it read after it has been freed.
RemovedBy(g) == {Removed(g), {i \in Removed(g) : i <= it_find}}

\* No processor is free: the group of it_find is released.  A fault not yet
\* grouped takes all tasks with an empty group id along, control tasks too,
\* and at the first of these AddTask returns false.
Release(t) ==
  /\ NoneFree(t) /\ Releasable # {}
  /\ LET g == g_lstTask[it_find].group IN
     \E S \in RemovedBy(g) :
       /\ GiveBack(S) /\ EraseAt(S)
       /\ work' = [work EXCEPT ![t] =
            IF S \cap Unmanned(g) # {} THEN Next1(t) ELSE [@ EXCEPT !.released = g]]
  /\ UNCHANGED <<unlinked, task_list_mutex, started, database, study>>

\* There is none to be released: it_find has no node, and its group id is read.
ReleaseNone(t) == NoneFree(t) /\ Releasable = {} /\ Restarted

\* The group is archived by the id in the erased node: the id it had, or that
\* of a task whose node has been put at the same place.  AddTask starts again.
ArchiveReleased(t) ==
  /\ work[t].released # None
  /\ \E g \in {work[t].released} \cup {n.group : n \in Tasks \cup unlinked} :
       archived' = [x \in Faults |-> IF x = g THEN "STOP" ELSE archived[x]]
  /\ work' = [work EXCEPT ![t].released = None]
  /\ UNCHANGED <<memory, task_list_mutex, started, group_of, study>>

-----------------------------------------------------------------------------
(* AddTask runs into another thread *)

\* Others than t may be erasing the last task of the list: it alone, or with
\* its group.
TaskLeaves(n, t) ==
  \/ task_list_mutex = "pass" /\ (n.step = "CALC" \/ n.type = "CONTROL")
  \/ \E c \in Consoles \ {t} :
       \/ work[c].proc = Pushed /\ Head(work[c].todo) = n.fault
       \/ work[c].op = "wait" /\ task_list_mutex = "none" /\ study[c].wait = {} /\ n.fault \in study[c].drop

GroupLeaves(g, t) ==
  \/ task_list_mutex = "pass" /\ \E n \in Tasks : (n.step = "GROUPED" /\ n.group = g) \/ (n.type = "CONTROL" /\ n.of = g)
  \/ \E u \in Adders \ {t} : NoneFree(u) /\ Releasable # {} /\ g_lstTask[it_find].group = g
  \/ \E c \in Consoles \ {t} :
       \/ work[c].op = "stop" /\ task_list_mutex = "none" /\ work[c].group = g
       \/ Asks(c, "pass") /\ g \in Known

LastLeaves(t) ==
  /\ g_lstTask # <<>>
  /\ LET n == Last(g_lstTask) IN
     TaskLeaves(n, t) \/ (Len(g_lstTask) \in Removed(n.group) /\ GroupLeaves(n.group, t))

\* Another thread is putting a task at the end, or a control into an empty list.
EndsMeet(t) ==
  \/ \E u \in Adders \ {t} : work[u].proc \in Processors
  \/ g_lstTask = <<>> /\ \E c \in Consoles \ {t} : work[c].op \in {"auto", "step"} /\ ~Adding(c)

\* The task is lost: push_back and another thread write the links at the end of
\* the list at once, or a lost task has left that end pointing to its node, and
\* the new one goes behind it.
PushLost(t) ==
  /\ Adding(t) /\ work[t].proc \in Processors
  /\ LastLeaves(t) \/ EndsMeet(t) \/ unlinked # {}
  /\ unlinked' = unlinked \cup {[group |-> n.group, fdir_r |-> n.fdir_r] : n \in NewTask(t)}
  /\ PushDone(t)
  /\ UNCHANGED <<g_lstTask, map_idle_fdir_r, task_list_mutex, started, database, study>>

-----------------------------------------------------------------------------
(* thread_alarm_process *)

\* Under task_list_mutex: no fault is being located.  Then a start signal is
\* turned into a fault, which AddTask adds without the lock.
AlarmStart ==
  /\ work["alarm"] = Idle /\ task_list_mutex = "none" /\ started < MaxStart
  /\ \A n \in Tasks : n.step # "CALC"
  /\ started' = started + 1
  /\ work' = [work EXCEPT !["alarm"] = [Idle EXCEPT !.op = "alarm", !.todo = <<started + 1>>]]
  /\ UNCHANGED <<memory, task_list_mutex, database, study>>

AlarmAdded ==
  /\ work["alarm"].op = "alarm" /\ ~Adding("alarm")
  /\ work' = [work EXCEPT !["alarm"] = Idle]
  /\ UNCHANGED <<memory, task_list_mutex, started, database, study>>

-----------------------------------------------------------------------------
(* thread_process, which holds task_list_mutex for the whole pass *)

BeginPass == task_list_mutex = "none" /\ task_list_mutex' = "pass" /\ UNCHANGED <<memory, started, database, work, study>>
EndPass == task_list_mutex = "pass" /\ task_list_mutex' = "none" /\ UNCHANGED <<memory, started, database, work, study>>

InPass == task_list_mutex = "pass" /\ UNCHANGED <<unlinked, task_list_mutex, started, work, study>>

\* CALC: ExecFdir locates the fault, or it fails and the task is removed.
Locate ==
  /\ InPass
  /\ \E i \in DOMAIN g_lstTask :
       /\ g_lstTask[i].step = "CALC"
       /\ \/ g_lstTask' = [g_lstTask EXCEPT ![i].step = "CALC_ISO"] /\ UNCHANGED map_idle_fdir_r
          \/ RemoveTask(g_lstTask[i].fault)
  /\ UNCHANGED database

\* CALC_ISO: all located faults are grouped and written to the database.
ToGroup == {i \in DOMAIN g_lstTask : g_lstTask[i].step = "CALC_ISO"}
Groupings(S) == {g \in [S -> S] : \A f \in S : g[g[f]] = g[f]}
Group ==
  /\ InPass /\ ToGroup # {}
  /\ LET S == {g_lstTask[i].fault : i \in ToGroup} IN
     \E g \in Groupings(S) :
       /\ g_lstTask' = [i \in DOMAIN g_lstTask |->
            IF i \in ToGroup THEN [g_lstTask[i] EXCEPT !.step = "GROUPED", !.group = g[g_lstTask[i].fault]] ELSE g_lstTask[i]]
       /\ group_of' = [f \in Faults |-> IF f \in S THEN g[f] ELSE group_of[f]]
  /\ UNCHANGED <<map_idle_fdir_r, archived>>

\* AddControlItem: the faults of the group go to PROCESS, and the control
\* task goes to the front of the list ts.
AddControlItem(g, ts) ==
  <<ControlTask(g)>> \o [i \in DOMAIN ts |-> IF IsFault(ts[i]) /\ ts[i].group = g THEN [ts[i] EXCEPT !.step = "PROCESS"] ELSE ts[i]]
AddsControl(g, ts) == Cardinality({i \in DOMAIN ts : ts[i].type = "CONTROL"}) < MaxControls /\ g_lstTask' = AddControlItem(g, ts)

\* A group is planned when the pass comes to one of its tasks.  Its plan
\* fails, and it is removed; or its faults go to ISO.  If this task, which
\* becomes manual when signals were missing, is automatic and has steps, the
\* first control is added; if it is manual, a real-time server may remove the
\* group, by its configuration.
Plan ==
  /\ InPass
  /\ \E i \in DOMAIN g_lstTask : \E auto \in {g_lstTask[i].bAuto, FALSE} :
       LET g == g_lstTask[i].group
           set == [g_lstTask EXCEPT ![i].bAuto = auto]
           planned == [k \in DOMAIN set |-> IF k \in OfGroup(g) THEN [set[k] EXCEPT !.step = "ISO"] ELSE set[k]]
       IN /\ g_lstTask[i].step = "GROUPED"
          /\ \/ GiveBack(Removed(g)) /\ EraseAt(Removed(g))
             \/ ~auto /\ version = "realtime" /\ GiveBack(Removed(g)) /\ EraseAt(Removed(g))
             \/ g_lstTask' = planned /\ UNCHANGED map_idle_fdir_r
             \/ auto /\ AddsControl(g, planned) /\ UNCHANGED map_idle_fdir_r
  /\ UNCHANGED database

\* A control has succeeded and steps are left: the faults of its group are
\* being executed, and in automatic mode the next control is added.
ControlNext ==
  /\ InPass
  /\ \E i \in Controls :
       LET g == g_lstTask[i].of
           own == {k \in OfGroup(g) : IsFault(g_lstTask[k])}
           marked == [k \in DOMAIN g_lstTask |-> IF k \in own THEN [g_lstTask[k] EXCEPT !.status = 1] ELSE g_lstTask[k]]
           rest == RemoveAt(marked, i)
       IN g_lstTask' = IF own # {} /\ g_lstTask[FirstOf(own)].bAuto THEN AddControlItem(g, rest) ELSE rest
  /\ UNCHANGED <<map_idle_fdir_r, database>>

\* It was the last step: the group is archived and removed.
ControlLast ==
  /\ InPass
  /\ \E i \in Controls : LET g == g_lstTask[i].of IN
       /\ GiveBack(Removed(g)) /\ EraseAt(Removed(g) \cup {i})
       /\ archived' = [archived EXCEPT ![g] = "FINISH"]
  /\ UNCHANGED group_of

\* The control has failed or its time is over.
ControlLost ==
  /\ InPass
  /\ \E i \in Controls : EraseAt({i})
  /\ UNCHANGED <<map_idle_fdir_r, database>>

Pass == BeginPass \/ Locate \/ Group \/ Plan \/ ControlNext \/ ControlLast \/ ControlLost \/ EndPass

-----------------------------------------------------------------------------
(* HandlerMessage: pntcontrol *)

\* A bug: the group is loaded without being looked up.
LoadAlways(c, op, g) == work' = [work EXCEPT ![c] = [Idle EXCEPT !.op = op, !.group = g, !.todo = Numbered(FaultsOf(g))]]

Load(c, op, g) == work' = [work EXCEPT ![c] = [Idle EXCEPT !.op = op, !.group = g, !.todo = IF InMemory(g) THEN <<>> ELSE Numbered(FaultsOf(g))]]

\* "auto", under the lock: the group is loaded when it is not in the list; its
\* first task, or all it has loaded, become automatic, and a control is added.
SetAuto(c) ==
  /\ Asks(c, "auto") /\ task_list_mutex = "none"
  /\ \E g \in Known :
       /\ Load(c, "auto", g)
       /\ g_lstTask' = IF InMemory(g) THEN [g_lstTask EXCEPT ![FirstOf(OfGroup(g))].bAuto = TRUE] ELSE g_lstTask
  /\ task_list_mutex' = c
  /\ UNCHANGED <<unlinked, map_idle_fdir_r, started, database, study>>

AutoControls(c) ==
  /\ work[c].op = "auto" /\ ~Adding(c)
  /\ LET g == work[c].group
         all == [i \in DOMAIN g_lstTask |-> IF i \in OfGroup(g) THEN [g_lstTask[i] EXCEPT !.bAuto = TRUE] ELSE g_lstTask[i]]
     IN g_lstTask' = all \/ AddsControl(g, all)
  /\ work' = [work EXCEPT ![c] = Idle]
  /\ task_list_mutex' = "none"
  /\ UNCHANGED <<unlinked, map_idle_fdir_r, started, database, study>>

\* One step is to be carried out: the group is looked up and loaded without
\* the lock, which is taken to add the control.
Step(c) ==
  /\ Asks(c, "step")
  /\ \E g \in Known : Load(c, "step", g)
  /\ UNCHANGED <<memory, task_list_mutex, started, database, study>>

StepControls(c) ==
  /\ work[c].op = "step" /\ ~Adding(c) /\ task_list_mutex = "none"
  /\ AddsControl(work[c].group, g_lstTask)
  /\ work' = [work EXCEPT ![c] = Idle]
  /\ UNCHANGED <<unlinked, map_idle_fdir_r, task_list_mutex, started, database, study>>

\* The last step is passed: the group is archived, and removed without the lock.
PassLast(c) ==
  /\ Asks(c, "pass")
  /\ \E g \in Known :
       /\ archived' = [archived EXCEPT ![g] = "FINISH"]
       /\ RemoveTasks(g)
  /\ UNCHANGED <<unlinked, task_list_mutex, started, group_of, work, study>>

\* "stop": the group is archived, then removed under the lock.
Stop(c) ==
  /\ Asks(c, "stop")
  /\ \E g \in Known :
       /\ archived' = [archived EXCEPT ![g] = "STOP"]
       /\ work' = [work EXCEPT ![c] = [Idle EXCEPT !.op = "stop", !.group = g]]
  /\ UNCHANGED <<memory, task_list_mutex, started, group_of, study>>

StopRemoves(c) ==
  /\ work[c].op = "stop" /\ task_list_mutex = "none"
  /\ RemoveTasks(work[c].group)
  /\ work' = [work EXCEPT ![c] = Idle]
  /\ UNCHANGED <<unlinked, task_list_mutex, started, database, study>>

-----------------------------------------------------------------------------
(* HandlerMessage: study_fdir *)

\* The lock is held while the faults of the request are added and located.
Study(c) ==
  /\ Asks(c, "study") /\ task_list_mutex = "none" /\ started + StudySize <= MaxStart
  /\ task_list_mutex' = c
  /\ started' = started + StudySize
  /\ work' = [work EXCEPT ![c] = [Idle EXCEPT !.op = "study", !.todo = [i \in 1..StudySize |-> started + i]]]
  /\ UNCHANGED <<memory, database, study>>

\* ExecFdir runs on the processor of g_lstTask.back(), which is that of another
\* fault if a thread without the lock has added one since.  When it fails the
\* task with the id of the new fault is removed.  back() of an empty list, whose
\* only task another thread has released, ends the process; but it may be the
\* node of a lost task.
StudyExec(c) ==
  /\ Adding(c) /\ work[c].proc = Pushed
  /\ \/ g_lstTask = <<>> /\ Restarted
     \/ /\ g_lstTask # <<>> \/ unlinked # {}
        /\ work' = [work EXCEPT ![c] = Next1(c)]
        /\ \/ /\ study' = [study EXCEPT ![c].wait = @ \cup {Head(work[c].todo)}]
              /\ UNCHANGED memory
           \/ RemoveTask(Head(work[c].todo)) /\ UNCHANGED study
        /\ UNCHANGED <<unlinked, task_list_mutex, started, database>>

\* A bug: the lock is kept while the console waits.
StudyAddedLocked(c) ==
  /\ work[c].op = "study" /\ ~Adding(c)
  /\ work' = [work EXCEPT ![c].op = "wait"]
  /\ UNCHANGED <<memory, task_list_mutex, started, database, study>>

StudyAdded(c) ==
  /\ work[c].op = "study" /\ ~Adding(c)
  /\ task_list_mutex' = "none"
  /\ work' = [work EXCEPT ![c].op = "wait"]
  /\ UNCHANGED <<memory, started, database, study>>

\* The console looks every second, under the lock, for the groups of its
\* faults and notes the manual ones for removal, until it has all groups.
Planned(c) == {i \in DOMAIN g_lstTask : g_lstTask[i].step = "ISO" /\ g_lstTask[i].fault \in study[c].wait}
StudyLooks(c) ==
  /\ work[c].op = "wait" /\ task_list_mutex = "none" /\ Planned(c) # {}
  /\ study' = [study EXCEPT ![c] =
       [wait |-> @.wait \ {g_lstTask[i].fault : i \in Planned(c)},
        drop |-> @.drop \cup {g_lstTask[i].fault : i \in {j \in Planned(c) : ~g_lstTask[j].bAuto}}]]
  /\ UNCHANGED <<memory, task_list_mutex, started, database, work>>

StudyAnswers(c) ==
  /\ work[c].op = "wait" /\ study[c].wait = {} /\ task_list_mutex = "none"
  /\ LET gone == {FirstOf({i \in DOMAIN g_lstTask : g_lstTask[i].fault = f}) :
                  f \in {x \in study[c].drop : \E n \in Tasks : n.fault = x}}
     IN GiveBack(gone) /\ EraseAt(gone)
  /\ work' = [work EXCEPT ![c] = Idle]
  /\ study' = [study EXCEPT ![c] = NoStudy]
  /\ UNCHANGED <<unlinked, task_list_mutex, started, database>>

-----------------------------------------------------------------------------
Add(t) == TakeProcessor(t) \/ Push(t) \/ PushLost(t) \/ Release(t) \/ ReleaseNone(t) \/ ArchiveReleased(t)
Alarm == AlarmStart \/ AlarmAdded \/ Add("alarm")
Request(c) == SetAuto(c) \/ Step(c) \/ PassLast(c) \/ Stop(c) \/ Study(c)
Handle(c) == Add(c) \/ AutoControls(c) \/ StepControls(c) \/ StopRemoves(c) \/ StudyExec(c) \/ StudyAdded(c) \/ StudyLooks(c) \/ StudyAnswers(c)
Next == Alarm \/ Pass \/ \E c \in Consoles : Request(c) \/ Handle(c)

Spec == Init /\ [][Next]_vars
-----------------------------------------------------------------------------
TypeOK ==
  /\ \A n \in Tasks :
       /\ n.type \in {"FAULT", "CONTROL"} /\ n.fault \in 0..MaxStart /\ n.group \in 0..MaxStart
       /\ n.step \in {"none", "CALC", "CALC_ISO", "GROUPED", "ISO", "PROCESS"}
       /\ n.bAuto \in BOOLEAN /\ n.status \in {0, 1} /\ n.fdir_r \in 0..MAX_FAULT /\ n.of \in 0..MaxStart
  /\ unlinked \subseteq [group : 0..MaxStart, fdir_r : Processors]
  /\ map_idle_fdir_r \in [Processors -> BOOLEAN]
  /\ started \in 0..MaxStart
  /\ group_of \in [Faults -> 0..MaxStart]
  /\ archived \in [Faults -> {"no", "STOP", "FINISH"}]
  /\ \A t \in Adders : work[t].proc \in {NoProc, Pushed} \cup Processors /\ work[t].released \in -1..MaxStart
  /\ study \in [Consoles -> [wait : SUBSET Faults, drop : SUBSET Faults]]
  /\ task_list_mutex \in {"none", "pass"} \cup {c \in Consoles : work[c].op \in {"auto", "study"}}

Taken == {work[t].proc : t \in Adders} \cap Processors
Owned == {n.fdir_r : n \in Tasks} \cap Processors
Lost == {n.fdir_r : n \in unlinked}

\* Every fault task has a processor that no other task and no adder has, and
\* every processor in use belongs to one of them or to one lost task: with
\* AddTask outside the list's lock, a processor is lost with the task that a
\* colliding push_back loses and in no other way, however RemoveTask(s), the
\* release of groups and AddTask interleave, and none is given back that has
\* been taken again.
ProcessorsOwned ==
  /\ \A n \in Tasks : IsFault(n) => n.fdir_r \in Processors
  /\ \A i, j \in DOMAIN g_lstTask : IsFault(g_lstTask[i]) /\ g_lstTask[i].fdir_r = g_lstTask[j].fdir_r => i = j
  /\ \A t, u \in Adders : work[t].proc \in Processors /\ work[t].proc = work[u].proc => t = u
  /\ \A m, n \in unlinked : m.fdir_r = n.fdir_r => m = n
  /\ Taken \cap Owned = {} /\ Taken \cap Lost = {} /\ Owned \cap Lost = {}
  /\ {p \in Processors : map_idle_fdir_r[p]} = Taken \cup Owned \cup Lost

\* The faults a call has still to put into the list.
Pending(w) == {w.todo[i] : i \in {k \in DOMAIN w.todo : k # 1 \/ w.proc # Pushed}}
At(f) == {i \in DOMAIN g_lstTask : IsFault(g_lstTask[i]) /\ g_lstTask[i].fault = f}
By(f) == {t \in Adders : f \in Pending(work[t])}

\* A fault that has no group yet is in the list, or on its way there, once.  One
\* that has is so at most once for every console: the look-up of a step request
\* (main.cpp 9018) runs without the lock, so that each console can find a group
\* missing that another is loading, but none can load what it has loaded.
LoadedOnce ==
  \A f \in Faults :
    Cardinality(At(f)) + Cardinality(By(f)) <= IF group_of[f] = NoGroup THEN 1 ELSE Cardinality(Consoles)
=============================================================================
