--------------------------- MODULE SimulatedFault ---------------------------
(***************************************************************************)
(* Simulated faults of the study version of main.cpp.  A console announces *)
(* the signals of a plan (fault_imitation_preexec), which are noted by     *)
(* machine in simu_mac_trig, and then has them raised                      *)
(* (fault_imitation_exec).  The alarm thread and the pass make faults of   *)
(* them.  The second thread of each connection, thread_simu_return, wakes  *)
(* every millisecond; when g_is_write_to_lib says that a simulated fault   *)
(* has been written, it compares the signals of the latest fault with      *)
(* those announced, tells its console the fault, and ends.                 *)
(*                                                                         *)
(* simu_sync_mutex is locked by the pass and by these threads, not by the  *)
(* consoles.  The pass unlocks it when it has written a simulated fault    *)
(* and again at its end; an unlock frees the mutex whoever holds it.       *)
(*                                                                         *)
(* Stamps have two parts: now, in seconds, which the comparisons use, and  *)
(* stamps, a count that orders signals and faults, since a fault is named  *)
(* by the microsecond of its start signal.                                 *)
(***************************************************************************)
EXTENDS Integers, Sequences, FiniteSets, SequencesExt

CONSTANTS
  Consoles,        \* machines 1..n, in the order of their names in the map
  Plans,           \* plans of simulated signals
  TempPlans,       \* those not to be saved, "1970/01/01"
  SignalsOf,       \* the Records of a plan: breakers and protection signals
  StartSignals,    \* the protection signals: they start faults
  Forbidden,       \* signals of a feeder in FDIR_MODE_FORBID
  CheckRecords,    \* the Records of one fault_imitation_check: sequences over
                   \* "breaker", "unreadable" (a breaker) and "other"
  TIMEOUT_PROTPNT,
  MaxThreads,      \* bound: connections made
  MaxNow,          \* bound: seconds
  MaxStamps,       \* bound: signals raised and faults of studies
  MaxRequests      \* bound: requests of a console

\* The signals of all plans.
Raised == UNION {{SignalsOf[p][i] : i \in DOMAIN SignalsOf[p]} : p \in Plans}

ASSUME SimulatedAssumption ==
  /\ Consoles \subseteq Nat \ {0} /\ MaxThreads \in Nat
  /\ TempPlans \subseteq Plans
  /\ DOMAIN SignalsOf = Plans
  /\ \A p \in Plans : SignalsOf[p] \in Seq(Raised) \ {<<>>}
  /\ CheckRecords \subseteq Seq({"breaker", "unreadable", "other"})
  /\ TIMEOUT_PROTPNT \in Nat /\ MaxNow \in Nat /\ MaxStamps \in Nat /\ MaxRequests \in Nat

Threads == 1..MaxThreads
Free == 0                        \* a mutex nobody holds
Pass == -1                       \* task_list_mutex is held by the pass
NoConsole == 0
NoFault == 0
FaultIds == 1..MaxStamps
Idle == [op |-> "idle", plan |-> "", todo |-> <<>>, since |-> 0]
NotRun == [at |-> "none", fd |-> 0, fault |-> NoFault, pt_trig |-> {}, answer |-> <<>>]

VARIABLES
  now, stamps,
  g_lstTrig,         \* signals raised: stamp, second, plan, used by a fault
  g_lstTask,         \* simulated faults: id, step, signals
  g_lstSecTrig,      \* positions in g_lstTrig collected for the fault in CALC
  simu_mac_trig,     \* per machine in it, the announced signals not yet found
  g_is_write_to_lib,
  task_list_mutex, simu_sync_mutex,
  pass,              \* of thread_process: the node it is at and what it does there
  FDIR_ALARM,        \* the signals written for a fault
  FDIR_FDIRECT,      \* the faults written
  written,           \* parts of their plans written: "main" and "least"
  FDIR_SIG_SUMMARY,  \* plans in the database
  FDIR_SIG_FAULT,    \* pairs of a plan and its fault
  conn,              \* the console at the other end of a socket
  work,              \* the request a console has in hand
  thread,            \* the thread_simu_return of each connection made
  requests,          \* requests made by a console
  announced,         \* history: the signals of a machine's last preexec
  answers            \* history: the answers sent

clock == <<now, stamps>>
tasks == <<g_lstTask, g_lstSecTrig, pass>>
database == <<FDIR_ALARM, FDIR_FDIRECT, written, FDIR_SIG_SUMMARY, FDIR_SIG_FAULT>>
mutexes == <<task_list_mutex, simu_sync_mutex>>
returns == <<thread, conn, answers>>
consoles == <<work, requests, announced, simu_mac_trig>>
vars == <<clock, g_lstTrig, tasks, database, mutexes, returns, consoles, g_is_write_to_lib>>

Init ==
  /\ now = 0 /\ stamps = 0
  /\ g_lstTrig = <<>>
  /\ g_lstTask = <<>>
  /\ g_lstSecTrig = {}
  /\ pass = [at |-> 0, does |-> "none", failed |-> FALSE]
  /\ simu_mac_trig = <<>>
  /\ g_is_write_to_lib = FALSE
  /\ task_list_mutex = Free
  /\ simu_sync_mutex = FALSE
  /\ FDIR_ALARM = [f \in FaultIds |-> {}]
  /\ FDIR_FDIRECT = {}
  /\ written = [f \in FaultIds |-> {}]
  /\ FDIR_SIG_SUMMARY = {}
  /\ FDIR_SIG_FAULT = {}
  /\ conn = [s \in Threads |-> NoConsole]
  /\ work = [c \in Consoles |-> Idle]
  /\ thread = [t \in Threads |-> NotRun]
  /\ requests = [c \in Consoles |-> 0]
  /\ announced = [c \in Consoles |-> {}]
  /\ answers = {}

\* Microseconds pass with every stamp, seconds with Tick.  The handling of one
\* announcement takes less than TIMEOUT_PROTPNT: at most one tick falls in it.
Tick ==
  /\ now < MaxNow /\ \A c \in Consoles : work[c].op = "preexec" => work[c].since = now
  /\ now' = now + 1
  /\ UNCHANGED <<stamps, g_lstTrig, tasks, database, mutexes, returns, consoles, g_is_write_to_lib>>

-----------------------------------------------------------------------------
(* Connections: main, and the end of HandlerMessage *)

Serving(c) == \E s \in Threads : conn[s] = c

\* The least free descriptor is taken, and two threads are started for it.
Connect(c) ==
  /\ ~Serving(c)
  /\ \E t \in Threads :
       /\ thread[t].at = "none" /\ \A u \in Threads : u < t => thread[u].at # "none"
       /\ LET s == CHOOSE s \in Threads : conn[s] = NoConsole /\ \A r \in Threads : r < s => conn[r] # NoConsole
          IN conn' = [conn EXCEPT ![s] = c] /\ thread' = [thread EXCEPT ![t] = [NotRun EXCEPT !.at = "sleep", !.fd = s]]
  /\ UNCHANGED <<clock, g_lstTrig, tasks, database, mutexes, answers, consoles, g_is_write_to_lib>>

\* HandlerMessage closes the socket and ends; thread_simu_return stays.
Disconnect(c) ==
  /\ Serving(c) /\ work[c] = Idle
  /\ conn' = [s \in Threads |-> IF conn[s] = c THEN NoConsole ELSE conn[s]]
  /\ UNCHANGED <<clock, g_lstTrig, tasks, database, mutexes, thread, answers, consoles, g_is_write_to_lib>>

-----------------------------------------------------------------------------
(* HandlerMessage: fault_simu_save, fault_imitation_preexec, _exec, _check *)

Asks(c) == Serving(c) /\ work[c] = Idle /\ requests[c] < MaxRequests
Request(c, op, p, todo) ==
  /\ Asks(c)
  /\ work' = [work EXCEPT ![c] = [op |-> op, plan |-> p, todo |-> todo, since |-> now]]
  /\ requests' = [requests EXCEPT ![c] = @ + 1]
\* One Record of the request has been handled.
Without1(w) == IF Len(w.todo) = 1 THEN Idle ELSE [w EXCEPT !.todo = Tail(w.todo)]
Done1(c) == work' = [work EXCEPT ![c] = Without1(work[c])]

Save(c) ==
  /\ Asks(c)
  /\ \E p \in Plans \ TempPlans : FDIR_SIG_SUMMARY' = FDIR_SIG_SUMMARY \cup {p}
  /\ requests' = [requests EXCEPT ![c] = @ + 1]
  /\ UNCHANGED <<clock, g_lstTrig, tasks, FDIR_ALARM, FDIR_FDIRECT, written, FDIR_SIG_FAULT, mutexes, returns, work, announced, simu_mac_trig, g_is_write_to_lib>>

\* A bug: the signals announced before are not forgotten.
PreexecKeeps(c) ==
  /\ \E p \in Plans :
       /\ Request(c, "preexec", p, SignalsOf[p])
       /\ FDIR_SIG_SUMMARY' = IF p \in TempPlans THEN FDIR_SIG_SUMMARY \cup {p} ELSE FDIR_SIG_SUMMARY
  /\ announced' = [announced EXCEPT ![c] = {}]
  /\ UNCHANGED <<clock, g_lstTrig, tasks, FDIR_ALARM, FDIR_FDIRECT, written, FDIR_SIG_FAULT, mutexes, returns, simu_mac_trig, g_is_write_to_lib>>

\* A plan not to be saved is written all the same, until it is answered.  The
\* signals of all machines are forgotten.
Preexec(c) ==
  /\ \E p \in Plans :
       /\ Request(c, "preexec", p, SignalsOf[p])
       /\ FDIR_SIG_SUMMARY' = IF p \in TempPlans THEN FDIR_SIG_SUMMARY \cup {p} ELSE FDIR_SIG_SUMMARY
  /\ simu_mac_trig' = <<>>
  /\ announced' = [announced EXCEPT ![c] = {}]
  /\ UNCHANGED <<clock, g_lstTrig, tasks, FDIR_ALARM, FDIR_FDIRECT, written, FDIR_SIG_FAULT, mutexes, returns, g_is_write_to_lib>>

\* A Record that must not be simulated is not skipped: the loop comes back to
\* it for ever, and so it stays at work.  The next Record is noted with the second it is read.
Announce(c) ==
  /\ work[c].op = "preexec" /\ Head(work[c].todo) \notin Forbidden
  /\ LET sig == [key |-> Head(work[c].todo), sec |-> now]
         noted == IF c \in DOMAIN simu_mac_trig THEN simu_mac_trig[c] ELSE {}
     IN /\ simu_mac_trig' = [m \in DOMAIN simu_mac_trig \cup {c} |-> IF m = c THEN noted \cup {sig} ELSE simu_mac_trig[m]]
        /\ announced' = [announced EXCEPT ![c] = @ \cup {sig}]
  /\ Done1(c)
  /\ UNCHANGED <<clock, g_lstTrig, tasks, database, mutexes, returns, requests, g_is_write_to_lib>>

\* Stamps the requests in hand will take.
ToStamp == UNION {{c} \X (1..Len(work[c].todo)) : c \in {d \in Consoles : work[d].op = "exec"}}
Reserved == Cardinality(ToStamp)

Exec(c) ==
  /\ \E p \in Plans : stamps + Reserved + Len(SignalsOf[p]) <= MaxStamps /\ Request(c, "exec", p, SignalsOf[p])
  /\ UNCHANGED <<clock, g_lstTrig, tasks, database, mutexes, returns, announced, simu_mac_trig, g_is_write_to_lib>>

\* A signal is raised: stamped and appended to the list of signals.
ExecSignal(c) ==
  /\ work[c].op = "exec" /\ Head(work[c].todo) \notin Forbidden
  /\ g_lstTrig' = Append(g_lstTrig, [id |-> stamps + 1, key |-> Head(work[c].todo), sec |-> now, plan |-> work[c].plan, used |-> FALSE])
  /\ stamps' = stamps + 1
  /\ Done1(c)
  /\ UNCHANGED <<now, tasks, database, mutexes, returns, requests, announced, simu_mac_trig, g_is_write_to_lib>>

\* The fault of a study that another console makes is written at once.
StudyFault ==
  /\ stamps + Reserved < MaxStamps
  /\ stamps' = stamps + 1
  /\ FDIR_FDIRECT' = FDIR_FDIRECT \cup {stamps + 1}
  /\ UNCHANGED <<now, g_lstTrig, tasks, FDIR_ALARM, written, FDIR_SIG_SUMMARY, FDIR_SIG_FAULT, mutexes, returns, consoles, g_is_write_to_lib>>

Check(c) ==
  /\ \E rs \in CheckRecords : Request(c, "check", "", rs)
  /\ UNCHANGED <<clock, g_lstTrig, tasks, database, mutexes, returns, announced, simu_mac_trig, g_is_write_to_lib>>

\* Each Record is noted under task_list_mutex.  One that is no breaker is
\* skipped with the mutex locked.
CheckRecord(c) ==
  /\ work[c].op = "check" /\ work[c].todo # <<>> /\ task_list_mutex = Free
  /\ task_list_mutex' = IF Head(work[c].todo) = "other" THEN c ELSE Free
  /\ LET w == work[c]
     IN work' = [work EXCEPT ![c] = [w EXCEPT !.todo = Tail(w.todo), !.plan = IF Head(w.todo) = "unreadable" THEN "unreadable" ELSE w.plan]]
  /\ UNCHANGED <<clock, g_lstTrig, tasks, database, simu_sync_mutex, returns, requests, announced, simu_mac_trig, g_is_write_to_lib>>

\* Check_Simu_Data compares the breakers noted with the real-time database; one
\* that cannot be read is tried again for ever.
Check_Simu_Data(c) ==
  /\ work[c].op = "check" /\ work[c].todo = <<>> /\ work[c].plan # "unreadable"
  /\ work' = [work EXCEPT ![c] = Idle]
  /\ UNCHANGED <<clock, g_lstTrig, tasks, database, mutexes, returns, requests, announced, simu_mac_trig, g_is_write_to_lib>>

-----------------------------------------------------------------------------
(* thread_alarm_process: see FaultLocation for its races *)

Locating(n) == n.step \in {"SLEEP", "CALC"}
UnusedStarts == {i \in DOMAIN g_lstTrig : g_lstTrig[i].key \in StartSignals /\ ~g_lstTrig[i].used}

AlarmStart ==
  /\ task_list_mutex = Free /\ \A i \in DOMAIN g_lstTask : ~Locating(g_lstTask[i])
  /\ \E i \in UnusedStarts :
       /\ \A j \in UnusedStarts : i <= j
       /\ g_lstTask' = Append(g_lstTask, [fault |-> g_lstTrig[i].id, plan |-> g_lstTrig[i].plan, step |-> "SLEEP", trig_list |-> {}])
  /\ UNCHANGED <<clock, g_lstTrig, g_lstSecTrig, pass, database, mutexes, returns, consoles, g_is_write_to_lib>>

-----------------------------------------------------------------------------
(* thread_process *)

Does(at, d) == pass' = [pass EXCEPT !.at = at, !.does = d]
Advance == Does(pass.at + 1, "visit")
Node == g_lstTask[pass.at]
Visiting(step) == pass.does = "visit" /\ pass.at \in DOMAIN g_lstTask /\ Node.step = step
Step(step) == [g_lstTask EXCEPT ![pass.at].step = step]

LockTasks ==
  /\ pass.does = "none" /\ task_list_mutex = Free
  /\ task_list_mutex' = Pass
  /\ Does(0, "lock")
  /\ UNCHANGED <<clock, g_lstTrig, g_lstTask, g_lstSecTrig, database, simu_sync_mutex, returns, consoles, g_is_write_to_lib>>

LockSimu ==
  /\ pass.does = "lock" /\ ~simu_sync_mutex
  /\ simu_sync_mutex' = TRUE
  /\ Does(1, "visit")
  /\ UNCHANGED <<clock, g_lstTrig, g_lstTask, g_lstSecTrig, database, task_list_mutex, returns, consoles, g_is_write_to_lib>>

\* Both mutexes are unlocked, simu_sync_mutex even when a thread_simu_return
\* has locked it since WriteSig unlocked it.
EndPass ==
  /\ pass.does = "visit" /\ pass.at \notin DOMAIN g_lstTask
  /\ Does(0, "none")
  /\ task_list_mutex' = Free
  /\ simu_sync_mutex' = FALSE
  /\ UNCHANGED <<clock, g_lstTrig, g_lstTask, g_lstSecTrig, database, returns, consoles, g_is_write_to_lib>>

InPass == UNCHANGED <<clock, mutexes, returns, consoles, g_is_write_to_lib>>

\* When its time is over the signals around its start are collected: those at
\* most TIMEOUT_PROTPNT whole seconds away, since the list is in the order of
\* the stamps here.
Start == CHOOSE i \in DOMAIN g_lstTrig : g_lstTrig[i].id = Node.fault
Near(i, j) == LET d == g_lstTrig[i].sec - g_lstTrig[j].sec IN -TIMEOUT_PROTPNT <= d /\ d <= TIMEOUT_PROTPNT
VisitSleep ==
  /\ Visiting("SLEEP")
  /\ IF now - g_lstTrig[Start].sec > TIMEOUT_PROTPNT
     THEN g_lstTask' = Step("CALC") /\ g_lstSecTrig' = {i \in DOMAIN g_lstTrig : Near(i, Start)}
     ELSE UNCHANGED <<g_lstTask, g_lstSecTrig>>
  /\ Advance
  /\ UNCHANGED <<g_lstTrig, database>> /\ InPass

\* The fault is located or it is not; its signals are used in either case.
VisitCalc ==
  /\ Visiting("CALC")
  /\ LET found == [Node EXCEPT !.trig_list = {[key |-> g_lstTrig[i].key, sec |-> g_lstTrig[i].sec] : i \in g_lstSecTrig}]
     IN \/ g_lstTask' = [g_lstTask EXCEPT ![pass.at] = [found EXCEPT !.step = "CALC_ISO"]] /\ Advance
        \/ g_lstTask' = [g_lstTask EXCEPT ![pass.at] = found] /\ pass' = [pass EXCEPT !.does = "alarms", !.failed = TRUE]
  /\ g_lstTrig' = [i \in DOMAIN g_lstTrig |-> IF i \in g_lstSecTrig THEN [g_lstTrig[i] EXCEPT !.used = TRUE] ELSE g_lstTrig[i]]
  /\ UNCHANGED <<g_lstSecTrig, database>> /\ InPass

\* In the study version a fault does not wait for others: it is grouped when it
\* is visited, before the next is located, and so is a group of its own.
VisitCalcIso ==
  /\ Visiting("CALC_ISO")
  /\ g_lstTask' = Step("GROUPED") /\ Advance
  /\ UNCHANGED <<g_lstTrig, g_lstSecTrig, database>> /\ InPass

VisitGrouped ==
  /\ Visiting("GROUPED")
  /\ pass' = [pass EXCEPT !.does = "alarms", !.failed = FALSE]
  /\ UNCHANGED <<g_lstTrig, g_lstTask, g_lstSecTrig, database>> /\ InPass

VisitIso ==
  /\ Visiting("ISO")
  /\ Advance
  /\ UNCHANGED <<g_lstTrig, g_lstTask, g_lstSecTrig, database>> /\ InPass

WriteAlarms ==
  /\ pass.does = "alarms"
  /\ FDIR_ALARM' = [FDIR_ALARM EXCEPT ![Node.fault] = Node.trig_list]
  /\ Does(pass.at, "record")
  /\ UNCHANGED <<g_lstTrig, g_lstTask, g_lstSecTrig, FDIR_FDIRECT, written, FDIR_SIG_SUMMARY, FDIR_SIG_FAULT>> /\ InPass

\* A bug: the fault is noted as one of its plan before the steps are written.
WriteRecordSigFirst ==
  /\ pass.does = "record"
  /\ FDIR_FDIRECT' = FDIR_FDIRECT \cup {Node.fault}
  /\ Does(pass.at, IF Node.fault \in FDIR_FDIRECT THEN "main" ELSE "sig")
  /\ UNCHANGED <<g_lstTrig, g_lstTask, g_lstSecTrig, FDIR_ALARM, written, FDIR_SIG_SUMMARY, FDIR_SIG_FAULT>> /\ InPass

WriteRecord ==
  /\ pass.does = "record"
  /\ FDIR_FDIRECT' = FDIR_FDIRECT \cup {Node.fault}
  /\ Does(pass.at, IF pass.failed THEN "sig" ELSE "main")
  /\ UNCHANGED <<g_lstTrig, g_lstTask, g_lstSecTrig, FDIR_ALARM, written, FDIR_SIG_SUMMARY, FDIR_SIG_FAULT>> /\ InPass

\* The steps of the plan.  When there is no restoration only the isolation is
\* written, and the fault is not noted as a simulated one.
WriteMain ==
  /\ pass.does = "main"
  /\ written' = [written EXCEPT ![Node.fault] = @ \cup {"main"}]
  /\ \E d \in {"sig", "least"} : Does(pass.at, d)
  /\ UNCHANGED <<g_lstTrig, g_lstTask, g_lstSecTrig, FDIR_ALARM, FDIR_FDIRECT, FDIR_SIG_SUMMARY, FDIR_SIG_FAULT>> /\ InPass

\* The fault is noted as one of its plan, and simu_sync_mutex is unlocked in
\* the middle of the pass.
WriteSig ==
  /\ pass.does = "sig"
  /\ FDIR_SIG_FAULT' = FDIR_SIG_FAULT \cup {<<Node.plan, Node.fault>>}
  /\ g_is_write_to_lib' = TRUE
  /\ simu_sync_mutex' = FALSE
  /\ Does(pass.at, IF pass.failed THEN "remove" ELSE "least")
  /\ UNCHANGED <<clock, g_lstTrig, g_lstTask, g_lstSecTrig, FDIR_ALARM, FDIR_FDIRECT, written, FDIR_SIG_SUMMARY, task_list_mutex, returns, consoles>>

\* The plan with the least outage; the fault stays in the list.
WriteLeast ==
  /\ pass.does = "least"
  /\ written' = [written EXCEPT ![Node.fault] = @ \cup {"least"}]
  /\ g_lstTask' = Step("ISO") /\ Advance
  /\ UNCHANGED <<g_lstTrig, g_lstSecTrig, FDIR_ALARM, FDIR_FDIRECT, FDIR_SIG_SUMMARY, FDIR_SIG_FAULT>> /\ InPass

\* RemoveTask; the pass goes on with the second node of what is left.
RemoveFailed ==
  /\ pass.does = "remove"
  /\ g_lstTask' = RemoveAt(g_lstTask, pass.at)
  /\ Does(2, "visit")
  /\ UNCHANGED <<g_lstTrig, g_lstSecTrig, database>> /\ InPass

Visit == VisitSleep \/ VisitCalc \/ VisitCalcIso \/ VisitGrouped \/ VisitIso
Write == WriteAlarms \/ WriteRecord \/ WriteMain \/ WriteSig \/ WriteLeast \/ RemoveFailed

-----------------------------------------------------------------------------
(* thread_simu_return *)

At(t, a) == thread[t].at = a
Goes(t, a) == thread' = [thread EXCEPT ![t].at = a]
InReturn == UNCHANGED <<clock, g_lstTrig, tasks, task_list_mutex, work, requests, announced, conn>>

Enter(t) ==
  /\ At(t, "sleep") /\ ~simu_sync_mutex
  /\ simu_sync_mutex' = TRUE
  /\ Goes(t, "in")
  /\ UNCHANGED <<database, simu_mac_trig, g_is_write_to_lib, answers>> /\ InReturn

\* The latest fault written, if g_is_write_to_lib is set.
Latest == IF FDIR_FDIRECT = {} THEN NoFault ELSE CHOOSE f \in FDIR_FDIRECT : \A g \in FDIR_FDIRECT : g <= f
ReadLatest(t) ==
  /\ At(t, "in")
  /\ IF g_is_write_to_lib THEN thread' = [thread EXCEPT ![t].at = "alarms", ![t].fault = Latest] ELSE Goes(t, "leave")
  /\ UNCHANGED <<database, simu_sync_mutex, simu_mac_trig, g_is_write_to_lib, answers>> /\ InReturn

ReadAlarms(t) ==
  /\ At(t, "alarms")
  /\ thread' = [thread EXCEPT ![t].at = "match", ![t].pt_trig = IF thread[t].fault = NoFault THEN {} ELSE FDIR_ALARM[thread[t].fault]]
  /\ UNCHANGED <<database, simu_sync_mutex, simu_mac_trig, g_is_write_to_lib, answers>> /\ InReturn

\* A bug: the second of a signal is not compared.
MatchByKey(t) ==
  /\ At(t, "match")
  /\ IF DOMAIN simu_mac_trig = {} \/ thread[t].pt_trig = {}
     THEN UNCHANGED simu_mac_trig /\ Goes(t, "leave")
     ELSE LET m == CHOOSE m \in DOMAIN simu_mac_trig : \A k \in DOMAIN simu_mac_trig : m <= k
              left == {s \in simu_mac_trig[m] : \A x \in thread[t].pt_trig : x.key # s.key}
          IN /\ simu_mac_trig' = [simu_mac_trig EXCEPT ![m] = left]
             /\ IF left # {} \/ {p \in FDIR_SIG_SUMMARY : <<p, thread[t].fault>> \in FDIR_SIG_FAULT} = {} THEN Goes(t, "leave")
                ELSE thread' = [thread EXCEPT ![t].at = "answer", ![t].answer =
                         [machine |-> m, fault |-> thread[t].fault, plan |-> CHOOSE p \in FDIR_SIG_SUMMARY : <<p, thread[t].fault>> \in FDIR_SIG_FAULT,
                          asked |-> announced[m], carries |-> {}]]
  /\ UNCHANGED <<database, simu_sync_mutex, g_is_write_to_lib, answers>> /\ InReturn

\* The signals of the fault are struck off those announced.  it_trig is not set
\* back for the next machine: only the first of the map is looked at.  When
\* nothing is left for it and the plan of the fault is found, it is answered.
PlansOf(f) == {p \in FDIR_SIG_SUMMARY : <<p, f>> \in FDIR_SIG_FAULT}
Match(t) ==
  /\ At(t, "match")
  /\ IF DOMAIN simu_mac_trig = {} \/ thread[t].pt_trig = {}
     THEN UNCHANGED simu_mac_trig /\ Goes(t, "leave")
     ELSE LET m == CHOOSE m \in DOMAIN simu_mac_trig : \A k \in DOMAIN simu_mac_trig : m <= k
              left == simu_mac_trig[m] \ thread[t].pt_trig
          IN /\ simu_mac_trig' = [simu_mac_trig EXCEPT ![m] = left]
             /\ IF left # {} \/ PlansOf(thread[t].fault) = {} THEN Goes(t, "leave")
                ELSE \E p \in PlansOf(thread[t].fault) :
                       thread' = [thread EXCEPT ![t].at = "answer", ![t].answer =
                         [machine |-> m, fault |-> thread[t].fault, plan |-> p, asked |-> announced[m], carries |-> {}]]
  /\ UNCHANGED <<database, simu_sync_mutex, g_is_write_to_lib, answers>> /\ InReturn

\* The answer is sent to whoever the socket is connected with.
Answer(t) ==
  /\ At(t, "answer")
  /\ answers' = answers \cup {[thread[t].answer EXCEPT !.carries = written[thread[t].fault]]}
  /\ Goes(t, "clear")
  /\ UNCHANGED <<database, simu_sync_mutex, simu_mac_trig, g_is_write_to_lib>> /\ InReturn

\* The plan is deleted if it was not to be saved, and the thread ends.
Exit(t) ==
  /\ At(t, "clear")
  /\ g_is_write_to_lib' = FALSE
  /\ FDIR_SIG_SUMMARY' = FDIR_SIG_SUMMARY \ ({thread[t].answer.plan} \cap TempPlans)
  /\ simu_sync_mutex' = FALSE
  /\ thread' = [thread EXCEPT ![t] = [NotRun EXCEPT !.at = "ended"]]
  /\ UNCHANGED <<FDIR_ALARM, FDIR_FDIRECT, written, FDIR_SIG_FAULT, simu_mac_trig, answers>> /\ InReturn

\* A bug: the mutex is unlocked only when there was something to compare.
LeaveLocked(t) ==
  /\ At(t, "leave")
  /\ simu_sync_mutex' = (thread[t].fault = NoFault)
  /\ thread' = [thread EXCEPT ![t] = [NotRun EXCEPT !.at = "sleep", !.fd = thread[t].fd]]
  /\ UNCHANGED <<database, simu_mac_trig, g_is_write_to_lib, answers>> /\ InReturn

Leave(t) ==
  /\ At(t, "leave")
  /\ simu_sync_mutex' = FALSE
  /\ thread' = [thread EXCEPT ![t] = [NotRun EXCEPT !.at = "sleep", !.fd = thread[t].fd]]
  /\ UNCHANGED <<database, simu_mac_trig, g_is_write_to_lib, answers>> /\ InReturn

Return(t) == ReadLatest(t) \/ ReadAlarms(t) \/ Match(t) \/ Answer(t) \/ Exit(t) \/ Leave(t)

-----------------------------------------------------------------------------
Ask(c) == Save(c) \/ Preexec(c) \/ Exec(c) \/ Check(c)
Handle(c) == Announce(c) \/ ExecSignal(c) \/ Check_Simu_Data(c)
Next ==
  \/ Tick \/ StudyFault \/ AlarmStart
  \/ LockTasks \/ LockSimu \/ EndPass \/ Visit \/ Write
  \/ \E c \in Consoles : Connect(c) \/ Disconnect(c) \/ Ask(c) \/ Handle(c) \/ CheckRecord(c)
  \/ \E t \in Threads : Enter(t) \/ Return(t)

Spec == Init /\ [][Next]_vars

\* Time passes, no thread stops for ever where it can go on, and a mutex that
\* is free again and again is got in the end: its holders sleep in between.
Fairness ==
  /\ WF_vars(Tick)
  /\ SF_vars(AlarmStart) /\ SF_vars(LockTasks) /\ SF_vars(LockSimu)
  /\ WF_vars(EndPass \/ Visit \/ Write)
  /\ \A c \in Consoles : WF_vars(Handle(c)) /\ SF_vars(CheckRecord(c))
  /\ \A t \in Threads : SF_vars(Enter(t)) /\ WF_vars(Return(t))

FairSpec == Spec /\ Fairness
-----------------------------------------------------------------------------
Alarms == [key : Raised, sec : 0..MaxNow]
TypeOK ==
  /\ now \in 0..MaxNow /\ stamps \in 0..MaxStamps
  /\ \A i \in DOMAIN g_lstTrig : g_lstTrig[i] \in [id : FaultIds, key : Raised, sec : 0..MaxNow, plan : Plans, used : BOOLEAN]
  /\ \A i \in DOMAIN g_lstTask : g_lstTask[i].fault \in FaultIds /\ g_lstTask[i].plan \in Plans /\ g_lstTask[i].trig_list \subseteq Alarms
  /\ g_lstSecTrig \subseteq DOMAIN g_lstTrig
  /\ DOMAIN simu_mac_trig \subseteq Consoles /\ \A m \in DOMAIN simu_mac_trig : simu_mac_trig[m] \subseteq announced[m]
  /\ task_list_mutex \in {Free, Pass} \cup Consoles
  /\ (pass.does = "none") = (task_list_mutex # Pass)
  /\ pass.does \notin {"none", "lock", "visit"} => pass.at \in DOMAIN g_lstTask /\ Node.step \in {"CALC", "GROUPED"}
  /\ FDIR_ALARM \in [FaultIds -> SUBSET Alarms] /\ FDIR_FDIRECT \subseteq FaultIds
  /\ FDIR_SIG_SUMMARY \subseteq Plans /\ FDIR_SIG_FAULT \subseteq Plans \X FaultIds
  /\ announced \in [Consoles -> SUBSET Alarms]

\* An announcement is answered only when each of its signals, by name and
\* second, is among those of a fault that has been written: the fault of an
\* earlier simulation, the latest until then, does not answer the next one.
\* With two consoles it does not hold, when one clears the list the other is
\* filling (main.cpp:8481).
AnswerSignalsWritten == \A a \in answers : a.asked \subseteq UNION {FDIR_ALARM[f] : f \in FDIR_FDIRECT}

\* "If the signals of the fault contain all fault signals the machine has sent,
\* the computation is taken to be complete and a message is returned"
\* (main.cpp:11934): the fault an answer names carries all its machine has
\* announced.  The code does not keep it: a list from which an earlier fault
\* has struck off all signals is empty, and any fault answers it.
AnswerHasAllSignals == \A a \in answers : a.asked \subseteq FDIR_ALARM[a.fault]

\* What an answer points the console to is in the database: the record and,
\* unless the fault could not be located, the steps of its plan.  The mutex
\* does not see to it, which a fault earlier in the pass may have unlocked;
\* the order does, in which the pass writes the record, the steps and the
\* plan's fault, without which there is no answer.
AnswerWhole ==
  \A a \in answers :
    /\ a.fault \in FDIR_FDIRECT
    /\ "main" \in a.carries \/ \A i \in DOMAIN g_lstTask : g_lstTask[i].fault = a.fault => g_lstTask[i].step = "CALC"

\* simu_sync_mutex is never left locked by a thread that goes to sleep or ends,
\* so the pass, which takes it with task_list_mutex in hand (main.cpp:3846), and
\* with it the server always goes on: no way out of thread_simu_return, and no
\* second unlock of the pass, may leave it to nobody.
MutexReleased ==
  simu_sync_mutex =>
    \/ pass.does \notin {"none", "lock"}
    \/ \E t \in Threads : thread[t].at \notin {"none", "sleep", "ended"}

\* The same comment (main.cpp:11934) the other way round: a connected machine whose
\* signals are all in a fault that has been written gets its answer.  The code
\* does not keep it, for instance when the fault has no restoration.
Unanswered(c) ==
  /\ Serving(c) /\ announced[c] # {} /\ work[c].op # "preexec"
  /\ \E f \in FDIR_FDIRECT : announced[c] \subseteq FDIR_ALARM[f]
  /\ ~\E a \in answers : a.machine = c /\ a.asked = announced[c]
CompleteAnswered == \A c \in Consoles : []<>~Unanswered(c)
=============================================================================
