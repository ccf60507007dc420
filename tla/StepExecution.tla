--------------------------- MODULE StepExecution ---------------------------
(***************************************************************************)
(* The plan of one fault group, from GROUPED to its archive: the control   *)
(* tasks and the fault task of the group in g_lstTask, its FDIR_STEP rows  *)
(* and its record in the relational database (main.cpp, VERSION_REALTIME). *)
(*                                                                         *)
(*   thread_process         every pass, holding task_list_mutex, sends the *)
(*       command of a step, sees it succeed or time out, sends the next    *)
(*   HandlerMessage         one thread per console: pntcontrol, fdir_step  *)
(*       and recalc requests, which take the lock for some of their parts  *)
(*   thread_alarm_process   AddTask may remove a group to make room        *)
(*                                                                         *)
(* The tasks of the group are one node: bAuto, next_step and RemoveTasks   *)
(* treat them alike.  g_lstTask is the control tasks, newest first, since  *)
(* they are pushed to the front, and behind them the fault.  RemoveTasks   *)
(* compares head.group_id as that of a fault task, which is empty in a     *)
(* control task, so it removes no control tasks.  Steps an operator must   *)
(* do by hand (CONTROL=0) are no rows: GetLeftStep does not return them.   *)
(* The SQL statements of one step below are taken to run without another   *)
(* thread in between.                                                      *)
(***************************************************************************)
EXTENDS TaskList, SequencesExt

CONSTANTS
  Breakers,
  Stage,        \* STAGE_FDIR_STEP_* of the step that operates a breaker
  Plans,        \* the controllable steps of the plans there may be
  InRegion,     \* the breakers IsInRegion accepts
  USER2AUTO,    \* FDIR_CONFIG: a manual group turns automatic after a while
  Clients,      \* console connections
  Ops,          \* the requests that occur
  Crashes,      \* whether the process may exit
  ReadFails,    \* the reads that may fail: "breaker", "failed", "left"
  MaxRows,      \* bound: rows of FDIR_STEP
  MaxControls   \* bound: control tasks when a console asks for another

STAGE_FDIR_STEP_ISOLATE  == 1
STAGE_FDIR_STEP_CUT_LD   == 3
STAGE_FDIR_STEP_TRANSFER == 4
STAGE_FDIR_STEP_RESTORE  == 5

ASSUME ExecutionAssumption ==
  /\ Stage \in [Breakers -> {STAGE_FDIR_STEP_ISOLATE, STAGE_FDIR_STEP_CUT_LD,
                             STAGE_FDIR_STEP_TRANSFER, STAGE_FDIR_STEP_RESTORE}]
  /\ Plans \subseteq Seq(Breakers)
  /\ InRegion \subseteq Breakers
  /\ {USER2AUTO, Crashes} \subseteq BOOLEAN
  /\ ReadFails \subseteq {"breaker", "failed", "left"}
  /\ {MaxRows, MaxControls} \subseteq Nat

VARIABLES
  rows,       \* FDIR_STEP, in the order of STEP
  controls,   \* the control tasks, in the order of g_lstTask
  fault,      \* next_step of the fault task, "none" when there is none
  bAuto,      \* bAuto of the fault task
  executing,  \* status of the fault task: not to be released by AddTask
  archived,   \* STATUS in FDIR_FDIRECT_HIS, "no" while in FDIR_FDIRECT
  visit,      \* thread_process: 0 outside a pass, else the node it is at
  after,      \* what it has still to do for that control: "left", "finish"
  todo        \* what a thread has still to do for a request

taskVars == <<controls, fault, bAuto, executing>>
vars == <<rows, taskVars, archived, visit, after, todo>>

RowStatus == {"WAIT", "EXEC", "OK", "FAIL", "PASS"}    \* STATUS_FDIR_STEP_*
FaultSteps == {"none", "GROUPED", "ISO", "PROCESS", "RE_CALC", "INVALID_RECALC"}

Threads == Clients \cup {"alarm"}
Idle == [op |-> "idle", cbs |-> <<>>]
Work(op, cbs) == [op |-> op, cbs |-> cbs]

\* A mutant of Mark: WHERE without the breaker.
MarkAnyBreaker(rs, cb, from, to) ==
  [i \in DOMAIN rs |-> IF rs[i].status \in from
                       THEN [rs[i] EXCEPT !.status = to] ELSE rs[i]]

\* UPDATE FDIR_STEP SET STATUS=to WHERE CB_ID=cb AND STATUS IN from.
Mark(rs, cb, from, to) ==
  [i \in DOMAIN rs |-> IF rs[i].cb = cb /\ rs[i].status \in from
                       THEN [rs[i] EXCEPT !.status = to] ELSE rs[i]]

\* DELETE FROM FDIR_STEP WHERE STATUS=0.
WithoutWaiting(rs) == Only(rs, {i \in DOMAIN rs : rs[i].status # "WAIT"})

WaitingRows(p) == [i \in DOMAIN p |-> [cb |-> p[i], status |-> "WAIT"]]

\* A mutant of Left: the rows in no order.
LeftBackwards(rs) == Reverse(Only(rs, {i \in DOMAIN rs : rs[i].status = "WAIT"}))

\* GetLeftStep: the steps not sent yet.
Left(rs) == Only(rs, {i \in DOMAIN rs : rs[i].status = "WAIT"})
-----------------------------------------------------------------------------
Init ==
  /\ rows = <<>>
  /\ controls = <<>>
  /\ fault = "GROUPED"
  /\ bAuto \in {0, 1}
  /\ executing = FALSE
  /\ archived = "no"
  /\ visit = 0
  /\ after = "no"
  /\ todo = [t \in Threads |-> Idle]

\* The process exits and is started again; what is in the database remains.
\* An erase under a running pass (RemoveTasks without the lock) may end so.
Restart ==
  /\ Crashes
  /\ controls' = <<>> /\ fault' = "none" /\ bAuto' = 0 /\ executing' = FALSE
  /\ visit' = 0 /\ after' = "no"
  /\ todo' = [t \in Threads |-> Idle]
  /\ UNCHANGED <<rows, archived>>

\* More than TIMEOUT_CONTROL seconds have passed since tv_creat.
Age(i) ==
  /\ i \in DOMAIN controls /\ ~controls[i].late
  /\ controls' = [controls EXCEPT ![i].late = TRUE]
  /\ UNCHANGED <<rows, fault, bAuto, executing, archived, visit, after, todo>>
-----------------------------------------------------------------------------
(* thread_process *)

Present(f) == IF f = "none" THEN 0 ELSE 1

BeginPass ==
  /\ visit = 0
  /\ Len(controls) + Present(fault) > 0
  /\ visit' = 1
  /\ UNCHANGED <<rows, taskVars, archived, after, todo>>

EndPass ==
  /\ visit > Len(controls) + Present(fault)
  /\ visit' = 0
  /\ UNCHANGED <<rows, taskVars, archived, after, todo>>

\* it = g_lstTask.begin(), and then the it++ of the for.
SecondNode == 2

RegionReads(cb) ==
  {cb \in InRegion} \cup (IF "breaker" \in ReadFails THEN {FALSE} ELSE {})

\* The new task of a control in front of the others.
Sent(cb, others) ==
  \E accepted \in RegionReads(cb) :
    controls' = <<[cb |-> cb, status |-> IF accepted THEN "WAIT" ELSE "RUN",
                   late |-> FALSE]>> \o others

\* A mutant of AddControlItem: no task for the dispatcher's breakers.
AddControlItemOwnOnly(cb, rs, f, others) ==
  /\ rows' = Mark(rs, cb, {"WAIT"}, "EXEC")
  /\ fault' = IF f = "none" THEN "none" ELSE "PROCESS"
  /\ IF cb \in InRegion THEN Sent(cb, others) ELSE controls' = others

\* The step of the rows rs that operates cb is being executed.  The
\* dispatcher's breakers get no command, only a text file.  A breaker that
\* cannot be read gets no task.
AddControlItem(cb, rs, f, others) ==
  /\ rows' = Mark(rs, cb, {"WAIT"}, "EXEC")
  /\ fault' = IF f = "none" THEN "none" ELSE "PROCESS"
  /\ \/ Sent(cb, others)
     \/ "breaker" \in ReadFails /\ controls' = others

\* FormFdirStep and the first command.  The tables it reads are empty once
\* the group is archived.
FormFdirStep ==
  \E p \in Plans :
    LET rs == IF archived = "no" THEN WithoutWaiting(rows) \o WaitingRows(p) ELSE rows
    IN  /\ Len(rs) <= MaxRows
        /\ IF Left(rs) # <<>>
           THEN AddControlItem(Left(rs)[1].cb, rs, fault, controls)
           ELSE rows' = rs /\ fault' = "ISO" /\ UNCHANGED controls

\* Where the node the pass is at stands after that.
Shifted == visit + Len(controls') - Len(controls)

AtFault(step) == visit = Len(controls) + 1 /\ fault = step

\* GROUPED: an automatic group is executed at once, a manual one waits for an
\* operator, in memory only if it may turn automatic.
VisitGrouped ==
  /\ AtFault("GROUPED")
  /\ \/ bAuto = 1 /\ FormFdirStep
     \/ /\ bAuto = 0
        /\ fault' = IF USER2AUTO THEN "ISO" ELSE "none"
        /\ UNCHANGED <<rows, controls>>
  /\ visit' = Shifted + 1
  /\ UNCHANGED <<bAuto, executing, archived, after, todo>>

\* ISO: TIMEOUT_AUTO is over and no operator has taken the group.
VisitIso ==
  /\ AtFault("ISO") /\ USER2AUTO /\ bAuto = 0
  /\ bAuto' = 1
  /\ FormFdirStep
  /\ visit' = Shifted + 1
  /\ UNCHANGED <<executing, archived, after, todo>>

\* Nothing to do for the fault in this pass.
VisitFault ==
  /\ AtFault("ISO") \/ AtFault("PROCESS")
  /\ visit' = visit + 1
  /\ UNCHANGED <<rows, taskVars, archived, after, todo>>

\* RE_CALC, INVALID_RECALC: a new plan is computed.  If that succeeds the old
\* one is deleted; the group is left to an operator either way.
VisitRecalc ==
  /\ AtFault("RE_CALC") \/ AtFault("INVALID_RECALC")
  /\ rows' \in {rows, WithoutWaiting(rows)}
  /\ fault' = "none" /\ bAuto' = 0 /\ executing' = FALSE
  /\ visit' = SecondNode
  /\ UNCHANGED <<controls, archived, after, todo>>
-----------------------------------------------------------------------------
AtControl(status, late) ==
  /\ visit \in DOMAIN controls /\ after = "no"
  /\ controls[visit].status = status /\ controls[visit].late \in late

\* WAIT: the breaker is preselected; thread_recv_rte executes on the answer.
VisitWait ==
  /\ AtControl("WAIT", BOOLEAN)
  /\ controls' = [controls EXCEPT ![visit].status = "RUN"]
  /\ visit' = visit + 1
  /\ UNCHANGED <<rows, fault, bAuto, executing, archived, after, todo>>

\* RUN or FINISH, and the breaker has not moved or the time is not over.
VisitStay ==
  /\ AtControl("RUN", {FALSE}) \/ AtControl("FINISH", {FALSE})
  /\ visit' = visit + 1
  /\ UNCHANGED <<rows, taskVars, archived, after, todo>>

\* A mutant of VisitOver: the pass steps back before the erased node.
VisitOverStepsBack ==
  /\ AtControl("FINISH", {TRUE})
  /\ controls' = RemoveAt(controls, visit)
  /\ visit' = visit - 2
  /\ UNCHANGED <<rows, fault, bAuto, executing, archived, after, todo>>

\* The task of a control that is over is kept until the time is.
VisitOver ==
  /\ AtControl("FINISH", {TRUE})
  /\ controls' = RemoveAt(controls, visit)
  /\ visit' = SecondNode
  /\ UNCHANGED <<rows, fault, bAuto, executing, archived, after, todo>>

\* A mutant of VisitTimeout: the row is only written if the group is in memory.
VisitTimeoutInMemory ==
  /\ AtControl("RUN", {TRUE})
  /\ LET cb == controls[visit].cb
     IN  /\ rows' = IF fault = "none" THEN rows ELSE Mark(rows, cb, {"EXEC"}, "FAIL")
         /\ fault' = IF fault # "none" /\ Stage[cb] < STAGE_FDIR_STEP_RESTORE
                     THEN "RE_CALC" ELSE fault
  /\ controls' = RemoveAt(controls, visit)
  /\ visit' = SecondNode
  /\ UNCHANGED <<bAuto, executing, archived, after, todo>>

\* Whether the group waits for a new plan when a step has failed.
AfterFailure(cb) ==
  IF fault # "none" /\ Stage[cb] < STAGE_FDIR_STEP_RESTORE THEN "RE_CALC" ELSE fault

\* RUN, the time is over: ControlFailed.  The plan is computed anew except
\* when only the restoration upstream failed.  It gives up, before anything
\* is written, when it cannot read; the task is erased all the same.
VisitTimeout ==
  /\ AtControl("RUN", {TRUE})
  /\ LET cb == controls[visit].cb
     IN  \/ /\ rows' = Mark(rows, cb, {"EXEC"}, "FAIL")
            /\ fault' = AfterFailure(cb)
         \/ "failed" \in ReadFails /\ UNCHANGED <<rows, fault>>
  /\ controls' = RemoveAt(controls, visit)
  /\ visit' = SecondNode
  /\ UNCHANGED <<bAuto, executing, archived, after, todo>>

\* RUN, in time: ControlSucceed.  The breaker is in its target position, or
\* it is the dispatcher's, or reads as if it were.
VisitSucceed ==
  /\ AtControl("RUN", {FALSE})
  /\ rows' = Mark(rows, controls[visit].cb, {"EXEC"}, "OK")
  /\ after' = "left"
  /\ UNCHANGED <<taskVars, archived, visit, todo>>

\* A mutant of Finished: the task of the control goes on.
StillRunning == controls

Finished == [controls EXCEPT ![visit].status = "FINISH"]

\* Then GetLeftStep.  A group that is in memory and automatic goes on.  When
\* GetLeftStep fails its list is empty, and what begin() points to names some
\* breaker or none: the command of an unknown breaker fails, if one is sent.
NextStep ==
  /\ after = "left"
  /\ \/ /\ Left(rows) = <<>>
        /\ after' = "finish"
        /\ UNCHANGED <<rows, taskVars, visit>>
     \/ /\ Left(rows) # <<>> \/ "left" \in ReadFails
        /\ executing' = (fault # "none")
        /\ \/ /\ Left(rows) # <<>> /\ fault # "none" /\ bAuto = 1
              /\ AddControlItem(Left(rows)[1].cb, rows, fault, Finished)
           \/ /\ "left" \in ReadFails /\ fault # "none" /\ bAuto = 1
              /\ fault' \in {"PROCESS", "RE_CALC"}
              /\ controls' = Finished /\ UNCHANGED rows
           \/ /\ fault = "none" \/ bAuto = 0
              /\ controls' = Finished /\ UNCHANGED <<rows, fault>>
        /\ visit' = Shifted + 1
        /\ after' = "no"
        /\ UNCHANGED bAuto
  /\ UNCHANGED <<archived, todo>>

\* ClearFdirDB and the status after it.
Archive(status) == rows' = <<>> /\ archived' = status

RemoveTasks == fault' = "none" /\ bAuto' = 0 /\ executing' = FALSE

\* No step is left: the group is finished.
FinishGroup ==
  /\ after = "finish"
  /\ Archive("FINISH")
  /\ RemoveTasks
  /\ controls' = Finished
  /\ visit' = visit + 1
  /\ after' = "no"
  /\ UNCHANGED todo

Process ==
  \/ BeginPass \/ EndPass
  \/ VisitGrouped \/ VisitIso \/ VisitFault \/ VisitRecalc
  \/ VisitWait \/ VisitStay \/ VisitOver \/ VisitTimeout
  \/ VisitSucceed \/ NextStep \/ FinishGroup
-----------------------------------------------------------------------------
(* HandlerMessage *)

\* A console asks once it has seen the group, that is after GROUPED.
Starts(c, op) == op \in Ops /\ todo[c] = Idle /\ fault # "GROUPED"
Then(t, work) == todo' = [todo EXCEPT ![t] = work]

\* RecoMemTask: a group that is not archived is in memory after it.
Loaded == IF fault = "none" /\ archived = "no" THEN "ISO" ELSE fault

\* pntcontrol auto, under task_list_mutex.
SetAuto(c) ==
  /\ Starts(c, "auto") /\ visit = 0
  /\ Len(controls) < MaxControls
  /\ bAuto' = IF Loaded = "none" THEN 0 ELSE 1
  /\ IF Left(rows) # <<>>
     THEN AddControlItem(Left(rows)[1].cb, rows, Loaded, controls)
     ELSE fault' = Loaded /\ UNCHANGED <<rows, controls>>
  /\ UNCHANGED <<executing, archived, visit, after, todo>>

\* stop, and manposer, no_Fault and invalid, which differ in the status: the
\* archive without the lock ...
Stop(c) ==
  /\ Starts(c, "stop")
  /\ Archive("STOP")
  /\ Then(c, Work("remove", <<>>))
  /\ UNCHANGED <<taskVars, visit, after>>

\* ... and RemoveTasks under it.
StopRemoves(c) ==
  /\ todo[c].op = "remove" /\ visit = 0
  /\ RemoveTasks
  /\ Then(c, Idle)
  /\ UNCHANGED <<rows, controls, archived, visit, after>>

\* finish: ClearFdirDB alone; the record keeps the status it had.
Finish(c) ==
  /\ Starts(c, "finish")
  /\ rows' = <<>> /\ archived' = IF archived = "no" THEN "OTHER" ELSE archived
  /\ UNCHANGED <<taskVars, visit, after, todo>>

\* pass: SetPassControl writes the rows of a breaker whatever their status...
Pass(c) ==
  /\ Starts(c, "pass")
  /\ \E r \in ToSet(rows) : rows' = Mark(rows, r.cb, RowStatus, "PASS")
  /\ Then(c, Work("left", <<>>))
  /\ UNCHANGED <<taskVars, archived, visit, after>>

\* ... GetLeftStep == 0 ends the group ...
PassLeft(c) ==
  /\ todo[c].op = "left"
  /\ Then(c, IF Left(rows) = <<>> THEN Work("archive", <<>>) ELSE Idle)
  /\ UNCHANGED <<rows, taskVars, archived, visit, after>>

\* ... and its tasks are removed without the lock.
PassFinishes(c) ==
  /\ c \in Clients /\ todo[c].op = "archive"
  /\ Archive("FINISH")
  /\ RemoveTasks
  /\ Then(c, Idle)
  /\ UNCHANGED <<controls, visit, after>>

\* fdir_step: the operator's plan replaces the steps not sent, row by row,
\* under g_rq_mutex but without task_list_mutex.
Plan(c) ==
  /\ Starts(c, "plan") /\ archived = "no"
  /\ \A d \in Clients : todo[d].op # "insert"
  /\ \E p \in Plans :
       /\ Len(WithoutWaiting(rows)) + Len(p) <= MaxRows
       /\ Then(c, Work("insert", p))
  /\ rows' = WithoutWaiting(rows)
  /\ UNCHANGED <<taskVars, archived, visit, after>>

PlanInserts(c) ==
  /\ todo[c].op = "insert"
  /\ IF todo[c].cbs = <<>>
     THEN Then(c, Idle) /\ UNCHANGED rows
     ELSE /\ rows' = rows \o WaitingRows(<<Head(todo[c].cbs)>>)
          /\ Then(c, Work("insert", Tail(todo[c].cbs)))
  /\ UNCHANGED <<taskVars, archived, visit, after>>

\* A console executes one step itself: the group is loaded if it is not in
\* memory, without the lock ...
Control(c) ==
  /\ Starts(c, "control")
  /\ Len(controls) < MaxControls
  /\ \E r \in ToSet(Left(rows)) : Then(c, Work("return", <<r.cb>>))
  /\ fault' = Loaded
  /\ UNCHANGED <<rows, controls, bAuto, executing, archived, visit, after>>

\* ... and AddReturnControl adds a task that waits for the breaker.
ControlReturns(c) ==
  /\ todo[c].op = "return" /\ visit = 0
  /\ LET cb == todo[c].cbs[1]
     IN  /\ rows' = Mark(rows, cb, {"WAIT"}, "EXEC")
         /\ \/ controls' = <<[cb |-> cb, status |-> "RUN", late |-> FALSE]>> \o controls
            \/ "breaker" \in ReadFails /\ UNCHANGED controls
  /\ Then(c, Idle)
  /\ UNCHANGED <<fault, bAuto, executing, archived, visit, after>>

\* recalc: the group is loaded under the lock ...
Recalc(c) ==
  /\ Starts(c, "recalc") /\ visit = 0
  /\ fault' = Loaded
  /\ Then(c, Work("recalc", <<>>))
  /\ UNCHANGED <<rows, controls, bAuto, executing, archived, visit, after>>

\* ... and invalid_recalc marks it without.
RecalcMarks(c) ==
  /\ todo[c].op = "recalc"
  /\ fault' = IF fault = "none" THEN "none" ELSE "INVALID_RECALC"
  /\ Then(c, Idle)
  /\ UNCHANGED <<rows, controls, bAuto, executing, archived, visit, after>>

\* AddTask, in the alarm thread and without the lock, releases a group whose
\* status is 0 to make room for a new fault...
Evict ==
  /\ "evict" \in Ops /\ todo["alarm"] = Idle
  /\ fault # "none" /\ ~executing
  /\ RemoveTasks
  /\ Then("alarm", Work("archive", <<>>))
  /\ UNCHANGED <<rows, controls, archived, visit, after>>

\* ... and archives it.
EvictArchives ==
  /\ todo["alarm"].op = "archive"
  /\ Archive("STOP")
  /\ Then("alarm", Idle)
  /\ UNCHANGED <<taskVars, visit, after>>

Request(c) ==
  \/ SetAuto(c) \/ Stop(c) \/ Finish(c) \/ Pass(c)
  \/ Plan(c) \/ Control(c) \/ Recalc(c)

Handle(c) ==
  \/ StopRemoves(c) \/ PassLeft(c) \/ PassFinishes(c) \/ PlanInserts(c)
  \/ ControlReturns(c) \/ RecalcMarks(c)

Next ==
  \/ Restart \/ Process
  \/ \E i \in 1..Len(controls) : Age(i)
  \/ \E c \in Clients : Request(c) \/ Handle(c)
  \/ Evict \/ EvictArchives

\* thread_process goes round every second, and the time of a control runs out.
Fairness ==
  /\ WF_vars(Process)
  /\ WF_vars(\E i \in 1..Len(controls) : Age(i))

Spec == Init /\ [][Next]_vars
FairSpec == Spec /\ Fairness
-----------------------------------------------------------------------------
TypeOK ==
  /\ rows \in Seq([cb : Breakers, status : RowStatus])
  /\ controls \in Seq([cb : Breakers, status : {"WAIT", "RUN", "FINISH"}, late : BOOLEAN])
  /\ fault \in FaultSteps
  /\ bAuto \in {0, 1}
  /\ executing \in BOOLEAN
  /\ archived \in {"no", "FINISH", "STOP", "OTHER"}
  /\ visit \in Nat
  /\ after \in {"no", "left", "finish"}
  /\ todo \in [Threads -> [op : {"idle", "remove", "left", "archive", "insert",
                                 "return", "recalc"}, cbs : Seq(Breakers)]]

\* The controls not known to have succeeded or failed yet.
InFlight == {i \in DOMAIN controls : controls[i].status \in {"WAIT", "RUN"}}

\* The pass never forgets a command: a step that is being executed has a
\* control task in g_lstTask that will end it, whatever the consoles and
\* the alarm thread do to the group (AddControlItem, RemoveTasks, ClearFdirDB).
ExecControlled ==
  \A r \in ToSet(rows) : r.status = "EXEC" => \E i \in InFlight : controls[i].cb = r.cb

\* Automatic execution operates one breaker at a time, also while consoles
\* pass steps, replace the plan or stop the group: the load transfer of a
\* group was calculated for the steps in their order.
OneInFlight == \A i, j \in InFlight : i = j

\* No breaker is closed on the fault: the pass sends the command of a transfer
\* or restore step only when no isolation step of the group is missing or has
\* failed (GetLeftStep, AddControlItem).  An operator may have passed some.
RestoreAfterIsolate ==
  [][Len(controls') > Len(controls) /\ Stage[controls'[1].cb] >= STAGE_FDIR_STEP_TRANSFER
     => \A r \in ToSet(rows') :
          Stage[r.cb] = STAGE_FDIR_STEP_ISOLATE => r.status \in {"OK", "PASS"}]_vars

\* Every step whose execution has begun succeeds, fails, is passed or is
\* archived in the end.
ControlsResolve ==
  \A cb \in Breakers :
    (\E r \in ToSet(rows) : r.cb = cb /\ r.status = "EXEC")
      ~> ~(\E r \in ToSet(rows) : r.cb = cb /\ r.status = "EXEC")

\* "从任务列表中删除所有与该故障关联的项目" (main.cpp:8878): everything of a
\* stopped fault is deleted from the task list, so the pass sends no
\* command for it any more.
StopRemovesAll ==
  [][\A c \in Clients : StopRemoves(c) => InFlight' = {}]_vars

\* "跳过指定遥控步骤" (main.cpp:8981): the command of a step that has been
\* passed is not sent.
PassedNotOperated ==
  [][VisitWait => \E r \in ToSet(rows) : r.cb = controls[visit].cb /\ r.status = "EXEC"]_vars

\* "设置失败的故障为待重新计算方案状态" (main.cpp:2110): a fault whose command has
\* failed waits for a new plan, and no further step of the old one is sent.
FailedReplanned ==
  [][fault = "RE_CALC" /\ fault' # "RE_CALC" => fault' = "none"]_vars
-----------------------------------------------------------------------------
Failed == \E r \in ToSet(rows) : r.status = "FAIL"

Cbs(rs) == [i \in DOMAIN rs |-> rs[i].cb]
Executing == Only(rows, {i \in DOMAIN rows : rows[i].status = "EXEC"})

Carried == INSTANCE StepPlan WITH
  None    <- "none",
  pending <- Cbs(Left(rows)),
  current <- IF Executing = <<>> THEN "none" ELSE Executing[1].cb,
  state   <- IF archived = "FINISH" THEN "finished"
             ELSE IF Failed THEN "failed"
             ELSE IF rows = <<>> THEN "ready" ELSE "running"

\* Left to itself the server carries a plan out as StepPlan says, also when
\* it crashes in between or cannot read a breaker.
PlanCarriedOut == Carried!Spec
=============================================================================
