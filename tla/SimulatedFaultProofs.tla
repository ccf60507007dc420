------------------------ MODULE SimulatedFaultProofs ------------------------
(***************************************************************************)
(* Simulated faults, for every number of consoles, connections, plans and  *)
(* signals: what holds in every state of SimulatedFault.                   *)
(***************************************************************************)
EXTENDS SimulatedFault, TaskListProofs

Records == {"breaker", "unreadable", "other"}
Trigs == [id : FaultIds, key : Raised, sec : 0..MaxNow, plan : Plans, used : BOOLEAN]
SimTasks == [fault : FaultIds, plan : Plans, step : {"SLEEP", "CALC", "CALC_ISO", "GROUPED", "ISO"}, trig_list : SUBSET Alarms]
Works == [op : {"idle", "preexec", "exec", "check"}, plan : Plans \cup {"", "unreadable"},
          todo : Seq(Raised \cup Records), since : 0..MaxNow]
Passes == [at : Nat, does : {"none", "lock", "visit", "alarms", "record", "main", "sig", "least", "remove"}, failed : BOOLEAN]
AnswerRecords == [machine : Consoles, fault : FaultIds, plan : Plans, asked : SUBSET Alarms, carries : SUBSET {"main", "least"}]

\* The node of the pass is being written to the database.
Writing == pass.does \notin {"none", "lock", "visit"}

-----------------------------------------------------------------------------
(* What the consoles write *)

ConsoleTypes ==
  /\ now \in 0..MaxNow /\ stamps \in 0..MaxStamps
  /\ g_lstTrig \in Seq(Trigs)
  /\ work \in [Consoles -> Works]
  /\ \A c \in Consoles :
       work[c].op \in {"preexec", "exec"} => work[c].plan \in Plans /\ work[c].todo \in Seq(Raised) \ {<<>>}
  /\ announced \in [Consoles -> SUBSET Alarms]
  /\ simu_mac_trig = [m \in DOMAIN simu_mac_trig |-> simu_mac_trig[m]]
  /\ DOMAIN simu_mac_trig \subseteq Consoles
  /\ \A m \in DOMAIN simu_mac_trig : simu_mac_trig[m] \subseteq announced[m]

\* The stamps that requests in hand will take are still there.
StampsLeft == IsFiniteSet(ToStamp) /\ stamps + Reserved <= MaxStamps

\* A stamp names one signal or one fault of a study.
Stamped ==
  /\ \A i \in DOMAIN g_lstTrig : g_lstTrig[i].id <= stamps
  /\ \A i, j \in DOMAIN g_lstTrig : g_lstTrig[i].id = g_lstTrig[j].id => i = j
  /\ \A f \in FDIR_FDIRECT : f <= stamps

-----------------------------------------------------------------------------
(* What the pass writes *)

PassTypes ==
  /\ g_lstTask \in Seq(SimTasks)
  /\ g_lstSecTrig \subseteq DOMAIN g_lstTrig
  /\ pass \in Passes
  /\ task_list_mutex \in {Free, Pass} \cup Consoles
  /\ simu_sync_mutex \in BOOLEAN
  /\ FDIR_ALARM \in [FaultIds -> SUBSET Alarms]
  /\ FDIR_FDIRECT \subseteq FaultIds
  /\ written \in [FaultIds -> SUBSET {"main", "least"}]
  /\ FDIR_SIG_SUMMARY \subseteq Plans
  /\ FDIR_SIG_FAULT \subseteq Plans \X FaultIds

\* Where the pass is, and what it has in hand.
PassPlace ==
  /\ (pass.does = "none") = (task_list_mutex # Pass)
  /\ Writing => pass.at \in DOMAIN g_lstTask /\ Node.step = IF pass.failed THEN "CALC" ELSE "GROUPED"
  /\ pass.does = "remove" => pass.failed
  /\ pass.does \in {"main", "least"} => ~pass.failed
  /\ pass.does \in {"sig", "least"} /\ ~pass.failed => "main" \in written[Node.fault]

\* The signal k has started the task i; it is used once the task has been located.
Starts(k, i) ==
  /\ g_lstTrig[k].id = g_lstTask[i].fault
  /\ g_lstTask[i].step = "CALC" => k \in g_lstSecTrig
  /\ g_lstTrig[k].used <=> ~Locating(g_lstTask[i]) \/ (Writing /\ pass.at = i)

TaskStarts ==
  /\ \A i \in DOMAIN g_lstTask : \E k \in DOMAIN g_lstTrig : Starts(k, i)
  /\ \A i, j \in DOMAIN g_lstTask : g_lstTask[i].fault = g_lstTask[j].fault => i = j
  /\ \A i, j \in DOMAIN g_lstTask : Locating(g_lstTask[i]) /\ Locating(g_lstTask[j]) => i = j

\* A fault of which the record is written has been located, and its task is
\* through or being written.
Recorded ==
  /\ \A k \in DOMAIN g_lstTrig : g_lstTrig[k].id \in FDIR_FDIRECT => g_lstTrig[k].used
  /\ \A i \in DOMAIN g_lstTask : g_lstTask[i].fault \in FDIR_FDIRECT =>
       g_lstTask[i].step = "ISO" \/ (i = pass.at /\ pass.does \in {"main", "sig", "least", "remove"})
  /\ pass.does \in {"main", "sig", "least", "remove"} => Node.fault \in FDIR_FDIRECT

\* All of a fault f is written, or it could not be located and is being removed.
Settled(f, parts) ==
  /\ f \in FDIR_FDIRECT
  /\ \E k \in DOMAIN g_lstTrig : g_lstTrig[k].id = f /\ g_lstTrig[k].used
  /\ "main" \in parts \/ \A i \in DOMAIN g_lstTask : g_lstTask[i].fault = f => i = pass.at /\ pass.does = "remove"

SigFaultsSettled == \A x \in FDIR_SIG_FAULT : Settled(x[2], written[x[2]])
AnswersSettled == \A a \in answers : Settled(a.fault, a.carries)

-----------------------------------------------------------------------------
(* What the threads of the connections write *)

IsThread(r) == r = [at |-> r.at, fd |-> r.fd, fault |-> r.fault, pt_trig |-> r.pt_trig, answer |-> r.answer]
Waits(r, faults, alarms, pairs) ==
  /\ r.at \in {"none", "sleep", "in", "alarms", "match", "answer", "clear", "leave", "ended"}
  /\ r.at \in {"alarms", "match", "answer"} => r.fault \in faults \cup {NoFault}
  /\ r.at = "match" => r.pt_trig = IF r.fault = NoFault THEN {} ELSE alarms[r.fault]
  /\ r.at \in {"answer", "clear"} => r.answer \in AnswerRecords
  /\ r.at = "answer" => r.answer.fault = r.fault /\ <<r.answer.plan, r.fault>> \in pairs
ThreadTypes ==
  /\ thread = [t \in Threads |-> thread[t]]
  /\ \A t \in Threads : IsThread(thread[t]) /\ Waits(thread[t], FDIR_FDIRECT, FDIR_ALARM, FDIR_SIG_FAULT)
  /\ answers \subseteq AnswerRecords

\* The signals of all faults written.
AllWritten == UNION {FDIR_ALARM[f] : f \in FDIR_FDIRECT}

OneConsole == \A c, d \in Consoles : c = d

\* What a machine has announced and is not waited for any more has been written.
StruckOff ==
  /\ \A c \in Consoles : IF c \in DOMAIN simu_mac_trig THEN announced[c] \ simu_mac_trig[c] \subseteq AllWritten ELSE announced[c] = {}
  /\ \A t \in Threads : thread[t].at = "answer" => thread[t].answer.asked \subseteq AllWritten
  /\ \A a \in answers : a.asked \subseteq AllWritten

PassInv == PassTypes /\ PassPlace /\ TaskStarts /\ Recorded /\ SigFaultsSettled
ThreadInv == ThreadTypes /\ AnswersSettled
Inv == ConsoleTypes /\ StampsLeft /\ Stamped /\ PassInv /\ ThreadInv

-----------------------------------------------------------------------------
(* What an action that leaves the variables of a conjunct alone keeps *)

LEMMA ConsolesKept ==
  /\ ConsoleTypes /\ UNCHANGED <<now, stamps, g_lstTrig, work, announced, simu_mac_trig>> => ConsoleTypes'
  /\ StampsLeft /\ UNCHANGED <<stamps, work>> => StampsLeft'
  /\ Stamped /\ UNCHANGED <<stamps, g_lstTrig, FDIR_FDIRECT>> => Stamped'
<1>1. ConsoleTypes /\ UNCHANGED <<now, stamps, g_lstTrig, work, announced, simu_mac_trig>> => ConsoleTypes'
  BY DEF ConsoleTypes
<1>2. StampsLeft /\ UNCHANGED <<stamps, work>> => StampsLeft'
  BY DEF StampsLeft, Reserved, ToStamp
<1>3. Stamped /\ UNCHANGED <<stamps, g_lstTrig, FDIR_FDIRECT>> => Stamped'
  BY DEF Stamped
<1>4. QED
  BY <1>1, <1>2, <1>3

LEMMA PassKept ==
  ASSUME UNCHANGED <<g_lstTask, pass>>
  PROVE  /\ PassTypes /\ UNCHANGED <<g_lstTrig, g_lstSecTrig, task_list_mutex, simu_sync_mutex, database>> => PassTypes'
         /\ PassPlace /\ UNCHANGED <<task_list_mutex, written>> => PassPlace'
         /\ TaskStarts /\ UNCHANGED <<g_lstTrig, g_lstSecTrig>> => TaskStarts'
         /\ Recorded /\ UNCHANGED <<g_lstTrig, FDIR_FDIRECT>> => Recorded'
         /\ SigFaultsSettled /\ UNCHANGED <<g_lstTrig, FDIR_FDIRECT, FDIR_SIG_FAULT, written>> => SigFaultsSettled'
         /\ AnswersSettled /\ UNCHANGED <<g_lstTrig, FDIR_FDIRECT, answers>> => AnswersSettled'
<1>1. PassTypes /\ UNCHANGED <<g_lstTrig, g_lstSecTrig, task_list_mutex, simu_sync_mutex, database>> => PassTypes'
  BY DEF PassTypes, database
<1>2. PassPlace /\ UNCHANGED <<task_list_mutex, written>> => PassPlace'
  BY DEF PassPlace, Writing, Node
<1>3. TaskStarts /\ UNCHANGED <<g_lstTrig, g_lstSecTrig>> => TaskStarts'
  BY DEF TaskStarts, Starts, Writing, Locating
<1>4. Recorded /\ UNCHANGED <<g_lstTrig, FDIR_FDIRECT>> => Recorded'
  BY DEF Recorded, Node
<1>5. SigFaultsSettled /\ UNCHANGED <<g_lstTrig, FDIR_FDIRECT, FDIR_SIG_FAULT, written>> => SigFaultsSettled'
  BY DEF SigFaultsSettled, Settled
<1>6. AnswersSettled /\ UNCHANGED <<g_lstTrig, FDIR_FDIRECT, answers>> => AnswersSettled'
  BY DEF AnswersSettled, Settled
<1>7. QED
  BY <1>1, <1>2, <1>3, <1>4, <1>5, <1>6

LEMMA ThreadsKept ==
  /\ ThreadTypes /\ UNCHANGED <<thread, answers, FDIR_ALARM, FDIR_FDIRECT, FDIR_SIG_FAULT>> => ThreadTypes'
  /\ StruckOff /\ UNCHANGED <<thread, answers, FDIR_ALARM, FDIR_FDIRECT, announced, simu_mac_trig>> => StruckOff'
<1>1. ThreadTypes /\ UNCHANGED <<thread, answers, FDIR_ALARM, FDIR_FDIRECT, FDIR_SIG_FAULT>> => ThreadTypes'
  BY DEF ThreadTypes, IsThread, Waits
<1>2. StruckOff /\ UNCHANGED <<thread, answers, FDIR_ALARM, FDIR_FDIRECT, announced, simu_mac_trig>> => StruckOff'
  BY DEF StruckOff, AllWritten
<1>3. QED
  BY <1>1, <1>2

-----------------------------------------------------------------------------
(* The consoles *)

\* A list over some signals is one over more.
LEMMA WiderSeq ==
  ASSUME NEW A, NEW B, A \subseteq B, NEW s \in Seq(A)
  PROVE  s \in Seq(B)
<1>1. Len(s) \in Nat /\ s \in [1..Len(s) -> A]
  OBVIOUS
<1>2. s \in [1..Len(s) -> B]
  BY <1>1
<1>3. QED
  BY <1>1, <1>2

\* The Records of the requests that raise signals: a signal, or the last, is done.
LEMMA RecordDone ==
  ASSUME ConsoleTypes, NEW c \in Consoles, work[c].op \in {"preexec", "exec"}, Done1(c)
  PROVE  /\ work' \in [Consoles -> Works]
         /\ \A d \in Consoles :
              work'[d].op \in {"preexec", "exec"} => work'[d].plan \in Plans /\ work'[d].todo \in Seq(Raised) \ {<<>>}
         /\ Head(work[c].todo) \in Raised
         /\ \A d \in Consoles : d # c => work'[d] = work[d]
         /\ \/ Len(work[c].todo) = 1 /\ work'[c].op = "idle"
            \/ work'[c].op = work[c].op /\ Len(work'[c].todo) = Len(work[c].todo) - 1
         /\ Len(work[c].todo) \in Nat \ {0}
<1> DEFINE w == work[c]
           v == [w EXCEPT !.todo = Tail(w.todo)]
<1>1. w \in Works /\ w.todo \in Seq(Raised) /\ w.todo # <<>> /\ w.plan \in Plans
  BY DEF ConsoleTypes
<1>2. /\ Len(w.todo) \in Nat /\ Len(w.todo) # 0 /\ Head(w.todo) \in Raised
      /\ Tail(w.todo) \in Seq(Raised) /\ Len(Tail(w.todo)) = Len(w.todo) - 1
  BY <1>1, HeadTailProperties
<1>3. Idle \in Works /\ Idle.op = "idle"
  BY SimulatedAssumption DEF Idle, Works
<1>4. /\ v \in Works /\ v.op = w.op /\ v.plan = w.plan /\ v.todo = Tail(w.todo)
  <2>1. Tail(w.todo) \in Seq(Raised \cup Records)
    <3>1. Raised \subseteq Raised \cup Records
      OBVIOUS
    <3>2. QED
      BY <1>2, <3>1, WiderSeq
  <2>2. QED
    BY <1>1, <2>1 DEF Works
<1>5. work' = [work EXCEPT ![c] = IF Len(w.todo) = 1 THEN Idle ELSE v]
  BY DEF Done1, Without1
<1> HIDE DEF v
<1>6. /\ work' \in [Consoles -> Works]
      /\ \A d \in Consoles : work'[d] = IF d # c THEN work[d] ELSE IF Len(w.todo) = 1 THEN Idle ELSE v
  BY <1>3, <1>4, <1>5 DEF ConsoleTypes
<1>7. Len(w.todo) # 1 => v.todo \in Seq(Raised) \ {<<>>}
  <2>1. Len(<<>>) = 0
    OBVIOUS
  <2>2. Len(w.todo) # 1 => Len(Tail(w.todo)) # 0
    BY <1>2
  <2>3. QED
    BY <1>2, <1>4, <2>1, <2>2
<1>8. \A d \in Consoles :
         work'[d].op \in {"preexec", "exec"} => work'[d].plan \in Plans /\ work'[d].todo \in Seq(Raised) \ {<<>>}
  BY <1>1, <1>3, <1>4, <1>6, <1>7 DEF ConsoleTypes
<1>9. QED
  BY <1>2, <1>3, <1>4, <1>6, <1>8

\* What the stamps are reserved for.
LEMMA ToStampMember ==
  ASSUME NEW x
  PROVE  x \in ToStamp <=> \E c \in Consoles : work[c].op = "exec" /\ \E i \in 1..Len(work[c].todo) : x = <<c, i>>
BY DEF ToStamp

\* A request begins, and takes as many stamps as it has signals to raise.
LEMMA RequestTaken ==
  ASSUME ConsoleTypes, NEW c \in Consoles, NEW op \in {"preexec", "exec"}, NEW p \in Plans,
         Request(c, op, p, SignalsOf[p])
  PROVE  /\ work' \in [Consoles -> Works]
         /\ \A d \in Consoles :
              work'[d].op \in {"preexec", "exec"} => work'[d].plan \in Plans /\ work'[d].todo \in Seq(Raised) \ {<<>>}
         /\ work[c].op = "idle" /\ work'[c].op = op /\ work'[c].todo = SignalsOf[p]
         /\ \A d \in Consoles : d # c => work'[d] = work[d]
<1> DEFINE w == [op |-> op, plan |-> p, todo |-> SignalsOf[p], since |-> now]
<1>1. SignalsOf[p] \in Seq(Raised) \ {<<>>}
  BY SimulatedAssumption
<1>2. SignalsOf[p] \in Seq(Raised \cup Records)
  <2>1. Raised \subseteq Raised \cup Records /\ SignalsOf[p] \in Seq(Raised)
    BY <1>1
  <2>2. QED
    BY <2>1, WiderSeq
<1>3. w \in Works /\ w.op = op /\ w.plan = p /\ w.todo = SignalsOf[p]
  BY <1>2 DEF Works, ConsoleTypes
<1>4. work' = [work EXCEPT ![c] = w] /\ work[c].op = "idle"
  <2>1. work[c].op = "idle"
    <3>1. work[c] = Idle
      BY DEF Request, Asks
    <3>2. Idle.op = "idle"
      BY DEF Idle
    <3>3. QED
      BY <3>1, <3>2
  <2>2. work' = [work EXCEPT ![c] = w]
    BY DEF Request
  <2>3. QED
    BY <2>1, <2>2
<1> HIDE DEF w
<1>5. /\ work' \in [Consoles -> Works]
      /\ \A d \in Consoles : work'[d] = IF d # c THEN work[d] ELSE w
  BY <1>3, <1>4 DEF ConsoleTypes
<1>6. QED
  BY <1>1, <1>3, <1>4, <1>5 DEF ConsoleTypes

\* A request that raises nothing reserves no stamps.
LEMMA NothingReserved ==
  ASSUME StampsLeft, stamps' = stamps, NEW c \in Consoles, work[c].op # "exec", work'[c].op # "exec",
         \A d \in Consoles : d # c => work'[d] = work[d]
  PROVE  StampsLeft'
<1>1. \A d \in Consoles : work[d].op = "exec" => d # c /\ work'[d] = work[d]
  OBVIOUS
<1>2. \A d \in Consoles : work'[d].op = "exec" => d # c /\ work'[d] = work[d]
  OBVIOUS
<1>3. {d \in Consoles : work'[d].op = "exec"} = {d \in Consoles : work[d].op = "exec"}
  BY <1>1, <1>2
<1>4. ToStamp' = ToStamp
  BY <1>1, <1>3 DEF ToStamp
<1>5. QED
  BY <1>4 DEF StampsLeft, Reserved

\* The stamps an exec reserves were not reserved before.
LEMMA StampsReserved ==
  ASSUME StampsLeft, NEW c \in Consoles, NEW n \in Nat, stamps \in Nat, stamps' = stamps,
         stamps + Reserved + n <= MaxStamps,
         work[c].op # "exec", work'[c].op = "exec", Len(work'[c].todo) = n,
         \A d \in Consoles : d # c => work'[d] = work[d]
  PROVE  StampsLeft'
<1> DEFINE new == {c} \X (1..n)
<1>1. ToStamp' = ToStamp \cup new
  <2>1. ASSUME NEW x \in ToStamp PROVE x \in ToStamp'
    <3>1. PICK d \in Consoles : work[d].op = "exec" /\ \E i \in 1..Len(work[d].todo) : x = <<d, i>>
      BY <2>1, ToStampMember
    <3>2. work'[d] = work[d]
      BY <3>1
    <3>3. QED
      BY <3>1, <3>2 DEF ToStamp
  <2>2. ASSUME NEW x \in new PROVE x \in ToStamp'
    BY <2>2 DEF ToStamp
  <2>3. ASSUME NEW x \in ToStamp', x \notin new PROVE x \in ToStamp
    <3>1. PICK d \in Consoles : work'[d].op = "exec" /\ \E i \in 1..Len(work'[d].todo) : x = <<d, i>>
      BY <2>3 DEF ToStamp
    <3>2. d # c
      BY <2>3, <3>1
    <3>3. QED
      BY <3>1, <3>2, ToStampMember
  <2>4. QED
    BY <2>1, <2>2, <2>3
<1>2. ToStamp \cap new = {}
  <2>1. ASSUME NEW x \in ToStamp, x \in new PROVE FALSE
    <3>1. PICK d \in Consoles : work[d].op = "exec" /\ \E i \in 1..Len(work[d].todo) : x = <<d, i>>
      BY <2>1, ToStampMember
    <3>2. d = c
      BY <2>1, <3>1
    <3>3. QED
      BY <3>1, <3>2
  <2>2. QED
    BY <2>1
<1>3. IsFiniteSet(new) /\ Cardinality(new) = n
  <2>1. IsFiniteSet({c}) /\ Cardinality({c}) = 1
    BY FS_Singleton
  <2>2. IsFiniteSet(1..n) /\ Cardinality(1..n) = n
    BY FS_Interval
  <2>3. QED
    BY <2>1, <2>2, FS_Product
<1>4. IsFiniteSet(ToStamp) /\ Cardinality(ToStamp) \in Nat /\ Cardinality({}) = 0
  BY FS_CardinalityType, FS_EmptySet DEF StampsLeft
<1> HIDE DEF new
<1>5. IsFiniteSet(ToStamp') /\ Cardinality(ToStamp') = Cardinality(ToStamp) + n
  <2>1. /\ IsFiniteSet(ToStamp \cup new)
        /\ Cardinality(ToStamp \cup new) = Cardinality(ToStamp) + Cardinality(new) - Cardinality(ToStamp \cap new)
    BY <1>3, <1>4, FS_Union
  <2>2. Cardinality(ToStamp \cap new) = 0
    BY <1>2, <1>4, Zenon
  <2>3. IsFiniteSet(ToStamp') /\ Cardinality(ToStamp') = Cardinality(ToStamp \cup new)
    BY <1>1, <2>1, Zenon
  <2>4. QED
    BY <1>3, <1>4, <2>1, <2>2, <2>3
<1>6. QED
  BY <1>4, <1>5 DEF StampsLeft, Reserved

\* A signal takes the last stamp its request has reserved.
LEMMA StampTaken ==
  ASSUME StampsLeft, NEW c \in Consoles, stamps \in Nat, stamps' = stamps + 1,
         work[c].op = "exec", NEW n \in Nat \ {0}, Len(work[c].todo) = n,
         \/ work'[c].op # "exec" /\ n = 1
         \/ work'[c].op = "exec" /\ Len(work'[c].todo) = n - 1,
         \A d \in Consoles : d # c => work'[d] = work[d]
  PROVE  StampsLeft' /\ stamps' <= MaxStamps
<1>1. ToStamp' = ToStamp \ {<<c, n>>}
  <2>1. ASSUME NEW x \in ToStamp, x # <<c, n>> PROVE x \in ToStamp'
    <3>1. PICK d \in Consoles : work[d].op = "exec" /\ \E i \in 1..Len(work[d].todo) : x = <<d, i>>
      BY <2>1, ToStampMember
    <3>2. PICK i \in 1..Len(work[d].todo) : x = <<d, i>>
      BY <3>1
    <3>3. CASE d # c
      BY <3>1, <3>2, <3>3 DEF ToStamp
    <3>4. CASE d = c
      <4>1. i \in 1..n /\ i # n
        BY <2>1, <3>2, <3>4
      <4>2. work'[c].op = "exec" /\ i \in 1..Len(work'[c].todo)
        BY <4>1
      <4>3. QED
        BY <3>2, <3>4, <4>2 DEF ToStamp
    <3>5. QED
      BY <3>3, <3>4
  <2>2. ASSUME NEW x \in ToStamp' PROVE x \in ToStamp /\ x # <<c, n>>
    <3>1. PICK d \in Consoles : work'[d].op = "exec" /\ \E i \in 1..Len(work'[d].todo) : x = <<d, i>>
      BY <2>2 DEF ToStamp
    <3>2. PICK i \in 1..Len(work'[d].todo) : x = <<d, i>>
      BY <3>1
    <3>3. CASE d # c
      BY <3>1, <3>2, <3>3 DEF ToStamp
    <3>4. CASE d = c
      <4>1. i \in 1..(n - 1)
        BY <3>1, <3>2, <3>4
      <4>2. i \in 1..Len(work[c].todo) /\ i # n
        BY <4>1
      <4>3. QED
        BY <3>2, <3>4, <4>2 DEF ToStamp
    <3>5. QED
      BY <3>3, <3>4
  <2>3. QED
    BY <2>1, <2>2
<1>2. <<c, n>> \in ToStamp
  <2>1. n \in 1..Len(work[c].todo)
    OBVIOUS
  <2>2. QED
    BY <2>1 DEF ToStamp
<1>3. IsFiniteSet(ToStamp) /\ Cardinality(ToStamp) \in Nat
  BY FS_CardinalityType DEF StampsLeft
<1>4. IsFiniteSet(ToStamp') /\ Cardinality(ToStamp') = Cardinality(ToStamp) - 1
  BY <1>1, <1>2, <1>3, FS_RemoveElement
<1>5. Cardinality(ToStamp') \in Nat
  BY <1>4, FS_CardinalityType
<1>6. QED
  BY <1>3, <1>4, <1>5, SimulatedAssumption DEF StampsLeft, Reserved

\* The rest of the invariant speaks of nothing that most requests write.
LEMMA RestKept ==
  ASSUME Inv, UNCHANGED <<g_lstTrig, tasks, database, mutexes, thread, answers>>
  PROVE  PassInv' /\ ThreadInv'
BY PassKept, ThreadsKept DEF Inv, PassInv, ThreadInv, tasks, database, mutexes

\* The plan that a save or an announcement writes.
LEMMA PlanWritten ==
  ASSUME Inv, NEW p \in Plans, FDIR_SIG_SUMMARY' \in {FDIR_SIG_SUMMARY, FDIR_SIG_SUMMARY \cup {p}},
         UNCHANGED <<g_lstTrig, tasks, FDIR_ALARM, FDIR_FDIRECT, written, FDIR_SIG_FAULT, mutexes, thread, answers>>
  PROVE  PassInv' /\ ThreadInv'
<1>1. UNCHANGED <<g_lstTask, pass, g_lstSecTrig, task_list_mutex, simu_sync_mutex>>
  BY DEF tasks, mutexes
<1>2. PassTypes'
  BY <1>1 DEF PassTypes, Inv, PassInv
<1>3. QED
  BY <1>1, <1>2, PassKept, ThreadsKept DEF Inv, PassInv, ThreadInv

LEMMA TickKeeps == ASSUME Inv, Tick PROVE Inv'
<1>1. PassInv' /\ ThreadInv'
  BY RestKept DEF Tick, returns
<1>2. StampsLeft' /\ Stamped'
  BY ConsolesKept DEF Inv, Tick, consoles, database
<1>3. now' \in 0..MaxNow
  BY SimulatedAssumption DEF Tick, Inv, ConsoleTypes
<1>4. ConsoleTypes'
  BY <1>3 DEF Inv, ConsoleTypes, Tick, consoles
<1>5. QED
  BY <1>1, <1>2, <1>4 DEF Inv

LEMMA SaveKeeps == ASSUME Inv, NEW c \in Consoles, Save(c) PROVE Inv'
<1>1. PICK p \in Plans : FDIR_SIG_SUMMARY' = FDIR_SIG_SUMMARY \cup {p}
  BY DEF Save
<1>2. PassInv' /\ ThreadInv'
  BY <1>1, PlanWritten DEF Save, returns
<1>3. ConsoleTypes' /\ StampsLeft' /\ Stamped'
  BY ConsolesKept DEF Inv, Save, clock
<1>4. QED
  BY <1>2, <1>3 DEF Inv

LEMMA PreexecKeepsInv == ASSUME Inv, NEW c \in Consoles, Preexec(c) PROVE Inv'
<1>1. PICK p \in Plans :
        Request(c, "preexec", p, SignalsOf[p]) /\ FDIR_SIG_SUMMARY' \in {FDIR_SIG_SUMMARY, FDIR_SIG_SUMMARY \cup {p}}
  BY DEF Preexec
<1>2. PassInv' /\ ThreadInv'
  BY <1>1, PlanWritten DEF Preexec, returns
<1>3. /\ work' \in [Consoles -> Works]
      /\ \A d \in Consoles :
           work'[d].op \in {"preexec", "exec"} => work'[d].plan \in Plans /\ work'[d].todo \in Seq(Raised) \ {<<>>}
      /\ work[c].op = "idle" /\ work'[c].op = "preexec"
      /\ \A d \in Consoles : d # c => work'[d] = work[d]
  BY <1>1, RequestTaken DEF Inv
<1>4. UNCHANGED <<now, stamps, g_lstTrig, FDIR_FDIRECT>> /\ simu_mac_trig' = <<>> /\ announced' = [announced EXCEPT ![c] = {}]
  BY DEF Preexec, clock
<1>5. announced' \in [Consoles -> SUBSET Alarms]
  BY <1>4 DEF Inv, ConsoleTypes
<1>6. DOMAIN simu_mac_trig' = {} /\ simu_mac_trig' = [m \in DOMAIN simu_mac_trig' |-> simu_mac_trig'[m]]
  BY <1>4
<1>7. ConsoleTypes'
  BY <1>3, <1>4, <1>5, <1>6 DEF Inv, ConsoleTypes
<1>8. StampsLeft' /\ Stamped'
  BY <1>3, <1>4, NothingReserved, ConsolesKept DEF Inv
<1>9. QED
  BY <1>2, <1>7, <1>8 DEF Inv

LEMMA AnnounceKeeps == ASSUME Inv, NEW c \in Consoles, Announce(c) PROVE Inv'
<1> DEFINE sig == [key |-> Head(work[c].todo), sec |-> now]
           noted == IF c \in DOMAIN simu_mac_trig THEN simu_mac_trig[c] ELSE {}
<1>1. PassInv' /\ ThreadInv'
  BY RestKept DEF Announce, returns
<1>2. UNCHANGED <<now, stamps, g_lstTrig, FDIR_FDIRECT>> /\ Done1(c) /\ work[c].op = "preexec"
  BY DEF Announce, clock, database
<1>3. /\ work' \in [Consoles -> Works]
      /\ \A d \in Consoles :
           work'[d].op \in {"preexec", "exec"} => work'[d].plan \in Plans /\ work'[d].todo \in Seq(Raised) \ {<<>>}
      /\ Head(work[c].todo) \in Raised
      /\ \A d \in Consoles : d # c => work'[d] = work[d]
      /\ work'[c].op # "exec"
  BY <1>2, RecordDone DEF Inv
<1>4. /\ simu_mac_trig' = [m \in DOMAIN simu_mac_trig \cup {c} |-> IF m = c THEN noted \cup {sig} ELSE simu_mac_trig[m]]
      /\ announced' = [announced EXCEPT ![c] = @ \cup {sig}]
  BY DEF Announce
<1>5. sig \in Alarms
  BY <1>3 DEF Alarms, Inv, ConsoleTypes
<1> HIDE DEF sig
<1>6. /\ announced' \in [Consoles -> SUBSET Alarms]
      /\ announced'[c] = announced[c] \cup {sig} /\ \A m \in Consoles : announced[m] \subseteq announced'[m]
  BY <1>4, <1>5 DEF Inv, ConsoleTypes
<1>7. /\ simu_mac_trig' = [m \in DOMAIN simu_mac_trig' |-> simu_mac_trig'[m]]
      /\ DOMAIN simu_mac_trig' = DOMAIN simu_mac_trig \cup {c}
      /\ \A m \in DOMAIN simu_mac_trig' : simu_mac_trig'[m] = IF m = c THEN noted \cup {sig} ELSE simu_mac_trig[m]
  BY <1>4
<1>8. noted \subseteq announced[c]
  BY DEF Inv, ConsoleTypes
<1> HIDE DEF noted
<1>9. DOMAIN simu_mac_trig' \subseteq Consoles /\ \A m \in DOMAIN simu_mac_trig' : simu_mac_trig'[m] \subseteq announced'[m]
  BY <1>6, <1>7, <1>8 DEF Inv, ConsoleTypes
<1>10. ConsoleTypes'
  BY <1>2, <1>3, <1>6, <1>7, <1>9 DEF Inv, ConsoleTypes
<1>11. StampsLeft' /\ Stamped'
  BY <1>2, <1>3, NothingReserved, ConsolesKept DEF Inv
<1>12. QED
  BY <1>1, <1>10, <1>11 DEF Inv

LEMMA ExecKeeps == ASSUME Inv, NEW c \in Consoles, Exec(c) PROVE Inv'
<1>1. PICK p \in Plans : stamps + Reserved + Len(SignalsOf[p]) <= MaxStamps /\ Request(c, "exec", p, SignalsOf[p])
  BY DEF Exec
<1>2. PassInv' /\ ThreadInv'
  BY RestKept DEF Exec, returns
<1>3. /\ work' \in [Consoles -> Works]
      /\ \A d \in Consoles :
           work'[d].op \in {"preexec", "exec"} => work'[d].plan \in Plans /\ work'[d].todo \in Seq(Raised) \ {<<>>}
      /\ work[c].op = "idle" /\ work'[c].op = "exec" /\ work'[c].todo = SignalsOf[p]
      /\ \A d \in Consoles : d # c => work'[d] = work[d]
  BY <1>1, RequestTaken DEF Inv
<1>4. UNCHANGED <<now, stamps, g_lstTrig, FDIR_FDIRECT, announced, simu_mac_trig>>
  BY DEF Exec, clock, database
<1>5. ConsoleTypes'
  BY <1>3, <1>4 DEF Inv, ConsoleTypes
<1>6. Len(SignalsOf[p]) \in Nat
  BY SimulatedAssumption
<1>7. StampsLeft' /\ Stamped'
  BY <1>1, <1>3, <1>4, <1>6, StampsReserved, ConsolesKept DEF Inv, ConsoleTypes
<1>8. QED
  BY <1>2, <1>5, <1>7 DEF Inv

\* The elements of the lists of signals and of faults.
LEMMA ElementTypes ==
  ASSUME Inv
  PROVE  /\ \A k \in DOMAIN g_lstTrig : g_lstTrig[k] \in Trigs /\ g_lstTrig[k].id \in Nat
         /\ \A i \in DOMAIN g_lstTask : g_lstTask[i] \in SimTasks /\ g_lstTask[i].fault \in Nat
<1>1. g_lstTrig \in Seq(Trigs) /\ g_lstTask \in Seq(SimTasks)
  BY DEF Inv, ConsoleTypes, PassInv, PassTypes
<1>2. (\A k \in DOMAIN g_lstTrig : g_lstTrig[k] \in Trigs) /\ \A i \in DOMAIN g_lstTask : g_lstTask[i] \in SimTasks
  BY <1>1
<1>3. (\A x \in Trigs : x.id \in Nat) /\ \A x \in SimTasks : x.fault \in Nat
  BY DEF Trigs, SimTasks, FaultIds
<1>4. QED
  BY <1>2, <1>3

\* A signal raised has a stamp no signal and no fault has.
LEMMA ExecSignalKeeps == ASSUME Inv, NEW c \in Consoles, ExecSignal(c) PROVE Inv'
<1> DEFINE new == [id |-> stamps + 1, key |-> Head(work[c].todo), sec |-> now, plan |-> work[c].plan, used |-> FALSE]
           n == Len(g_lstTrig)
<1>1. /\ Done1(c) /\ work[c].op = "exec" /\ g_lstTrig' = Append(g_lstTrig, new) /\ stamps' = stamps + 1
      /\ UNCHANGED <<now, tasks, database, mutexes, thread, answers, announced, simu_mac_trig>>
  BY DEF ExecSignal, returns
<1>2. /\ work' \in [Consoles -> Works]
      /\ \A d \in Consoles :
           work'[d].op \in {"preexec", "exec"} => work'[d].plan \in Plans /\ work'[d].todo \in Seq(Raised) \ {<<>>}
      /\ Head(work[c].todo) \in Raised
      /\ \A d \in Consoles : d # c => work'[d] = work[d]
      /\ \/ Len(work[c].todo) = 1 /\ work'[c].op = "idle"
         \/ work'[c].op = "exec" /\ Len(work'[c].todo) = Len(work[c].todo) - 1
      /\ Len(work[c].todo) \in Nat \ {0}
  BY <1>1, RecordDone DEF Inv
<1>3. stamps \in Nat /\ stamps \in 0..MaxStamps
  BY DEF Inv, ConsoleTypes
<1>4. StampsLeft' /\ stamps' <= MaxStamps
  <2>1. PICK m \in Nat \ {0} : m = Len(work[c].todo)
    BY <1>2
  <2>2. \/ work'[c].op # "exec" /\ m = 1
        \/ work'[c].op = "exec" /\ Len(work'[c].todo) = m - 1
    BY <1>2, <2>1
  <2>3. StampsLeft /\ stamps' = stamps + 1 /\ work[c].op = "exec"
    BY <1>1 DEF Inv
  <2>4. QED
    BY <1>2, <1>3, <2>1, <2>2, <2>3, StampTaken
<1>5. new \in Trigs /\ new.id = stamps + 1 /\ new.used = FALSE
  BY <1>1, <1>2, <1>3, <1>4, SimulatedAssumption DEF Trigs, FaultIds, Inv, ConsoleTypes
<1> HIDE DEF new
<1>6. /\ g_lstTrig' \in Seq(Trigs) /\ n \in Nat /\ Len(g_lstTrig') = n + 1
      /\ DOMAIN g_lstTrig = 1..n /\ DOMAIN g_lstTrig' = 1..(n + 1)
      /\ g_lstTrig'[n + 1] = new /\ \A i \in 1..n : g_lstTrig'[i] = g_lstTrig[i] /\ g_lstTrig[i] \in Trigs
  <2>1. g_lstTrig \in Seq(Trigs)
    BY DEF Inv, ConsoleTypes
  <2>2. g_lstTrig' = Append(g_lstTrig, new)
    BY <1>1
  <2>3. n \in Nat /\ DOMAIN g_lstTrig = 1..n /\ \A i \in 1..n : g_lstTrig[i] \in Trigs
    BY <2>1
  <2>4. /\ g_lstTrig' \in Seq(Trigs) /\ Len(g_lstTrig') = n + 1
        /\ g_lstTrig'[n + 1] = new /\ \A i \in 1..n : g_lstTrig'[i] = g_lstTrig[i]
    BY <1>5, <2>1, <2>2, AppendProperties
  <2>5. DOMAIN g_lstTrig' = 1..(n + 1)
    BY <2>4
  <2>6. QED
    BY <2>3, <2>4, <2>5
<1> HIDE DEF n
<1>7. ConsoleTypes'
  <2>1. now' \in 0..MaxNow /\ stamps' \in 0..MaxStamps
    BY <1>1, <1>3, <1>4, SimulatedAssumption DEF Inv, ConsoleTypes
  <2>2. announced' \in [Consoles -> SUBSET Alarms]
    BY <1>1 DEF Inv, ConsoleTypes
  <2>3. /\ simu_mac_trig' = [m \in DOMAIN simu_mac_trig' |-> simu_mac_trig'[m]]
        /\ DOMAIN simu_mac_trig' \subseteq Consoles
        /\ \A m \in DOMAIN simu_mac_trig' : simu_mac_trig'[m] \subseteq announced'[m]
    BY <1>1 DEF Inv, ConsoleTypes
  <2>4. QED
    BY <1>2, <1>6, <2>1, <2>2, <2>3 DEF ConsoleTypes
<1>8. UNCHANGED <<g_lstTask, g_lstSecTrig, pass, task_list_mutex, simu_sync_mutex, FDIR_ALARM, FDIR_FDIRECT, written, FDIR_SIG_SUMMARY, FDIR_SIG_FAULT>>
  BY <1>1 DEF tasks, database, mutexes
<1>9. \A i \in DOMAIN g_lstTrig : i \in DOMAIN g_lstTrig' /\ g_lstTrig'[i] = g_lstTrig[i] /\ g_lstTrig[i].id \in Nat
  BY <1>6 DEF Trigs, FaultIds
<1>10. \A i \in DOMAIN g_lstTrig' : i \in DOMAIN g_lstTrig \/ i = n + 1
  BY <1>6
<1>11. FDIR_FDIRECT \subseteq Nat
  BY DEF Inv, PassInv, PassTypes, FaultIds
<1>12. Stamped'
  <2>1. \A i \in DOMAIN g_lstTrig : g_lstTrig[i].id <= stamps
    BY DEF Inv, Stamped
  <2>2. \A i \in DOMAIN g_lstTrig' : g_lstTrig'[i].id <= stamps'
    BY <1>1, <1>3, <1>5, <1>6, <1>9, <1>10, <2>1
  <2>3. \A i, j \in DOMAIN g_lstTrig' : g_lstTrig'[i].id = g_lstTrig'[j].id => i = j
    BY <1>3, <1>5, <1>6, <1>9, <1>10, <2>1 DEF Inv, Stamped
  <2>4. \A f \in FDIR_FDIRECT' : f <= stamps'
    BY <1>1, <1>3, <1>8, <1>11 DEF Inv, Stamped
  <2>5. QED
    BY <2>2, <2>3, <2>4 DEF Stamped
<1>13. PassTypes'
  BY <1>8, <1>9 DEF Inv, PassInv, PassTypes
<1>14. PassPlace'
  BY <1>8, PassKept DEF Inv, PassInv
<1>15. TaskStarts'
  BY <1>8, <1>9 DEF Inv, PassInv, TaskStarts, Starts, Locating, Writing
<1>16. Recorded'
  <2>1. ASSUME NEW k \in DOMAIN g_lstTrig', g_lstTrig'[k].id \in FDIR_FDIRECT PROVE g_lstTrig'[k].used
    <3>1. k # n + 1
      BY <1>3, <1>5, <1>6, <1>11, <2>1 DEF Inv, Stamped
    <3>2. QED
      BY <1>9, <1>10, <2>1, <3>1 DEF Inv, PassInv, Recorded
  <2>2. QED
    BY <1>8, <2>1 DEF Inv, PassInv, Recorded, Node
<1>17. SigFaultsSettled' /\ AnswersSettled'
  BY <1>1, <1>8, <1>9 DEF Inv, PassInv, ThreadInv, SigFaultsSettled, AnswersSettled, Settled
<1>18. ThreadTypes'
  BY <1>1, <1>8, ThreadsKept DEF Inv, ThreadInv
<1>19. QED
  BY <1>4, <1>7, <1>12, <1>13, <1>14, <1>15, <1>16, <1>17, <1>18 DEF Inv, PassInv, ThreadInv

\* The task of a fault and the signal that started it have the fault's stamp.
LEMMA TaskStamps ==
  ASSUME Inv, NEW i \in DOMAIN g_lstTask
  PROVE  g_lstTask[i].fault <= stamps
<1>1. PICK k \in DOMAIN g_lstTrig : Starts(k, i)
  BY DEF Inv, PassInv, TaskStarts
<1>2. QED
  BY <1>1 DEF Inv, Stamped, Starts

LEMMA StudyFaultKeeps == ASSUME Inv, StudyFault PROVE Inv'
<1>1. /\ stamps' = stamps + 1 /\ FDIR_FDIRECT' = FDIR_FDIRECT \cup {stamps + 1}
      /\ UNCHANGED <<now, g_lstTrig, work, announced, simu_mac_trig, thread, answers>>
      /\ UNCHANGED <<g_lstTask, g_lstSecTrig, pass, task_list_mutex, simu_sync_mutex, FDIR_ALARM, written, FDIR_SIG_SUMMARY, FDIR_SIG_FAULT>>
  BY DEF StudyFault, tasks, mutexes, returns, consoles
<1>2. stamps \in 0..MaxStamps /\ MaxStamps \in Nat
  BY SimulatedAssumption DEF Inv, ConsoleTypes
<1>3. Reserved \in Nat /\ Reserved' = Reserved /\ IsFiniteSet(ToStamp') /\ stamps + Reserved < MaxStamps
  BY <1>1, FS_CardinalityType DEF StudyFault, Inv, StampsLeft, Reserved, ToStamp
<1>4. stamps + 1 \in FaultIds /\ stamps' \in 0..MaxStamps /\ StampsLeft'
  BY <1>1, <1>2, <1>3 DEF FaultIds, StampsLeft
<1>5. ConsoleTypes'
  BY <1>1, <1>4 DEF Inv, ConsoleTypes
<1>6. \A k \in DOMAIN g_lstTrig : g_lstTrig[k].id \in Nat
  BY ElementTypes
<1>7. FDIR_FDIRECT \subseteq Nat
  BY DEF Inv, PassInv, PassTypes, FaultIds
<1>8. Stamped'
  BY <1>1, <1>2, <1>6, <1>7 DEF Inv, Stamped
<1>9. PassTypes'
  BY <1>1, <1>4 DEF Inv, PassInv, PassTypes
<1>10. PassPlace' /\ TaskStarts'
  BY <1>1, PassKept DEF Inv, PassInv
<1>11. Recorded'
  <2>1. \A k \in DOMAIN g_lstTrig : g_lstTrig[k].id # stamps + 1
    BY <1>2, <1>6 DEF Inv, Stamped
  <2>2. \A i \in DOMAIN g_lstTask : g_lstTask[i].fault # stamps + 1
    <3>1. \A i \in DOMAIN g_lstTask : g_lstTask[i].fault \in Nat
      BY ElementTypes
    <3>2. QED
      BY <1>2, <3>1, TaskStamps
  <2>3. QED
    BY <1>1, <2>1, <2>2 DEF Inv, PassInv, Recorded, Node
<1>12. SigFaultsSettled' /\ AnswersSettled'
  BY <1>1 DEF Inv, PassInv, ThreadInv, SigFaultsSettled, AnswersSettled, Settled
<1>13. ThreadTypes'
  BY <1>1 DEF Inv, ThreadInv, ThreadTypes, IsThread, Waits
<1>14. QED
  BY <1>4, <1>5, <1>8, <1>9, <1>10, <1>11, <1>12, <1>13 DEF Inv, PassInv, ThreadInv

LEMMA CheckKeeps == ASSUME Inv, NEW c \in Consoles, Check(c) PROVE Inv'
<1>1. PICK rs \in CheckRecords : Request(c, "check", "", rs)
  BY DEF Check
<1> DEFINE w == [op |-> "check", plan |-> "", todo |-> rs, since |-> now]
<1>2. work' = [work EXCEPT ![c] = w] /\ work[c] = Idle
  BY <1>1 DEF Request, Asks
<1>3. w \in Works /\ w.op = "check"
  <2>1. Records \subseteq Raised \cup Records /\ rs \in Seq(Records)
    BY SimulatedAssumption DEF Records
  <2>2. rs \in Seq(Raised \cup Records)
    BY <2>1, WiderSeq
  <2>3. QED
    BY <2>2 DEF Works, Inv, ConsoleTypes
<1> HIDE DEF w
<1>4. /\ work' \in [Consoles -> Works]
      /\ \A d \in Consoles : work'[d] = IF d # c THEN work[d] ELSE w
  BY <1>2, <1>3 DEF Inv, ConsoleTypes
<1>5. work[c].op # "exec"
  <2>1. Idle.op # "exec"
    BY DEF Idle
  <2>2. QED
    BY <1>2, <2>1
<1>6. PassInv' /\ ThreadInv'
  BY RestKept DEF Check, returns
<1>7. UNCHANGED <<now, stamps, g_lstTrig, FDIR_FDIRECT, announced, simu_mac_trig>>
  BY DEF Check, clock, database
<1>8. ConsoleTypes'
  BY <1>3, <1>4, <1>7 DEF Inv, ConsoleTypes
<1>9. StampsLeft' /\ Stamped'
  BY <1>3, <1>4, <1>5, <1>7, NothingReserved, ConsolesKept DEF Inv
<1>10. QED
  BY <1>6, <1>8, <1>9 DEF Inv

\* A Record of a check is handled, with task_list_mutex free before.
LEMMA CheckRecordKeeps == ASSUME Inv, NEW c \in Consoles, CheckRecord(c) PROVE Inv'
<1> DEFINE w == work[c]
           v == [w EXCEPT !.todo = Tail(w.todo), !.plan = IF Head(w.todo) = "unreadable" THEN "unreadable" ELSE w.plan]
<1>1. /\ w.op = "check" /\ w.todo # <<>> /\ task_list_mutex = Free /\ task_list_mutex' \in {c, Free}
      /\ work' = [work EXCEPT ![c] = v]
      /\ UNCHANGED <<clock, g_lstTrig, tasks, database, simu_sync_mutex, returns, announced, simu_mac_trig>>
  BY DEF CheckRecord
<1>2. w \in Works
  BY DEF Inv, ConsoleTypes
<1>3. v \in Works /\ v.op = "check"
  <2>1. w.todo \in Seq(Raised \cup Records)
    BY <1>2 DEF Works
  <2>2. Tail(w.todo) \in Seq(Raised \cup Records)
    BY <1>1, <2>1, HeadTailProperties
  <2>3. QED
    BY <1>1, <1>2, <2>2 DEF Works
<1> HIDE DEF v
<1>4. /\ work' \in [Consoles -> Works]
      /\ \A d \in Consoles : work'[d] = IF d # c THEN work[d] ELSE v
  BY <1>1, <1>3 DEF Inv, ConsoleTypes
<1>5. UNCHANGED <<now, stamps, g_lstTrig, g_lstTask, g_lstSecTrig, pass, simu_sync_mutex, database, announced, simu_mac_trig, thread, answers>>
  BY <1>1 DEF clock, tasks, returns
<1>6. UNCHANGED <<FDIR_ALARM, FDIR_FDIRECT, written, FDIR_SIG_SUMMARY, FDIR_SIG_FAULT>>
  BY <1>5 DEF database
<1>7. ConsoleTypes'
  BY <1>3, <1>4, <1>5 DEF Inv, ConsoleTypes
<1>8. StampsLeft' /\ Stamped'
  BY <1>1, <1>3, <1>4, <1>5, <1>6, NothingReserved, ConsolesKept DEF Inv
<1>9. task_list_mutex' # Pass /\ task_list_mutex # Pass
  BY <1>1, SimulatedAssumption DEF Pass, Free
<1>10. PassTypes'
  BY <1>1, <1>5, <1>6 DEF Inv, PassInv, PassTypes
<1>11. PassPlace'
  BY <1>5, <1>6, <1>9 DEF Inv, PassInv, PassPlace, Writing, Node
<1>12. TaskStarts' /\ Recorded' /\ SigFaultsSettled' /\ AnswersSettled'
  BY <1>5, <1>6, PassKept DEF Inv, PassInv, ThreadInv
<1>13. ThreadTypes'
  BY <1>5, <1>6, ThreadsKept DEF Inv, ThreadInv
<1>14. QED
  BY <1>7, <1>8, <1>10, <1>11, <1>12, <1>13 DEF Inv, PassInv, ThreadInv

LEMMA CheckSimuDataKeeps == ASSUME Inv, NEW c \in Consoles, Check_Simu_Data(c) PROVE Inv'
<1>1. work' = [work EXCEPT ![c] = Idle] /\ work[c].op # "exec"
  BY DEF Check_Simu_Data
<1>2. Idle \in Works /\ Idle.op = "idle"
  BY SimulatedAssumption DEF Idle, Works
<1>3. /\ work' \in [Consoles -> Works]
      /\ \A d \in Consoles : work'[d] = IF d # c THEN work[d] ELSE Idle
  BY <1>1, <1>2 DEF Inv, ConsoleTypes
<1>4. PassInv' /\ ThreadInv'
  BY RestKept DEF Check_Simu_Data, returns
<1>5. UNCHANGED <<now, stamps, g_lstTrig, FDIR_FDIRECT, announced, simu_mac_trig>>
  BY DEF Check_Simu_Data, clock, database
<1>6. ConsoleTypes'
  BY <1>2, <1>3, <1>5 DEF Inv, ConsoleTypes
<1>7. StampsLeft' /\ Stamped'
  BY <1>1, <1>2, <1>3, <1>5, NothingReserved, ConsolesKept DEF Inv
<1>8. QED
  BY <1>4, <1>6, <1>7 DEF Inv

\* A thread that writes only its own place in the array.
LEMMA OneThread ==
  ASSUME ThreadTypes, NEW t \in Threads, NEW r, thread' = [thread EXCEPT ![t] = r], IsThread(r),
         Waits(r, FDIR_FDIRECT', FDIR_ALARM', FDIR_SIG_FAULT'),
         FDIR_FDIRECT \subseteq FDIR_FDIRECT', FDIR_SIG_FAULT \subseteq FDIR_SIG_FAULT', UNCHANGED FDIR_ALARM,
         answers' \subseteq AnswerRecords
  PROVE  ThreadTypes' /\ \A u \in Threads : thread'[u] = IF u # t THEN thread[u] ELSE r
<1>1. /\ thread' = [u \in Threads |-> thread'[u]]
      /\ \A u \in Threads : thread'[u] = IF u # t THEN thread[u] ELSE r
  BY DEF ThreadTypes
<1>2. ASSUME NEW u \in Threads PROVE IsThread(thread'[u]) /\ Waits(thread'[u], FDIR_FDIRECT', FDIR_ALARM', FDIR_SIG_FAULT')
  <2>1. CASE u # t
    BY <1>1, <2>1 DEF ThreadTypes, Waits
  <2>2. CASE u = t
    BY <1>1, <2>2
  <2>3. QED
    BY <2>1, <2>2
<1>3. QED
  BY <1>1, <1>2 DEF ThreadTypes

\* A thread that begins, or one that ends or goes to sleep, has nothing in hand.
LEMMA ThreadAtRest ==
  ASSUME NEW fd, NEW at \in {"sleep", "ended"}, NEW faults, NEW alarms, NEW pairs
  PROVE  LET r == [NotRun EXCEPT !.at = at, !.fd = fd] IN r.at = at /\ IsThread(r) /\ Waits(r, faults, alarms, pairs)
<1> DEFINE r == [NotRun EXCEPT !.at = at, !.fd = fd]
           R == [at : {"none", at}, fd : {0, fd}, fault : {NoFault}, pt_trig : {{}}, answer : {<<>>}]
<1>1. NotRun \in R
  BY DEF NotRun
<1>2. r \in R /\ r.at = at
  BY <1>1
<1>3. \A x \in R : IsThread(x)
  BY DEF IsThread
<1> HIDE DEF r, R
<1>4. Waits(r, faults, alarms, pairs)
  BY <1>2 DEF Waits
<1>5. QED
  BY <1>2, <1>3, <1>4 DEF r

LEMMA DisconnectKeeps == ASSUME Inv, NEW c \in Consoles, Disconnect(c) PROVE Inv'
<1>1. PassInv' /\ ThreadInv'
  BY RestKept DEF Disconnect
<1>2. ConsoleTypes' /\ StampsLeft' /\ Stamped'
  BY ConsolesKept DEF Inv, Disconnect, clock, consoles, database
<1>3. QED
  BY <1>1, <1>2 DEF Inv

LEMMA ConnectKeeps == ASSUME Inv, NEW c \in Consoles, Connect(c) PROVE Inv'
<1>1. /\ UNCHANGED <<now, stamps, g_lstTrig, FDIR_FDIRECT, work, announced, simu_mac_trig>>
      /\ UNCHANGED <<g_lstTask, g_lstSecTrig, pass, task_list_mutex, simu_sync_mutex, database, answers>>
  BY DEF Connect, clock, consoles, database, tasks, mutexes
<1>2. UNCHANGED <<FDIR_ALARM, FDIR_FDIRECT, written, FDIR_SIG_FAULT>>
  BY <1>1 DEF database
<1>3. PICK t, s : t \in Threads /\ thread' = [thread EXCEPT ![t] = [NotRun EXCEPT !.at = "sleep", !.fd = s]]
  BY DEF Connect
<1> DEFINE r == [NotRun EXCEPT !.at = "sleep", !.fd = s]
<1>4. IsThread(r) /\ Waits(r, FDIR_FDIRECT', FDIR_ALARM', FDIR_SIG_FAULT')
  BY ThreadAtRest
<1> HIDE DEF r
<1>5. ThreadTypes'
  <2>1. ThreadTypes /\ answers' \subseteq AnswerRecords
    BY <1>1 DEF Inv, ThreadInv, ThreadTypes
  <2>2. thread' = [thread EXCEPT ![t] = r]
    BY <1>3 DEF r
  <2>3. QED
    BY <1>2, <1>3, <1>4, <2>1, <2>2, OneThread
<1>6. ConsoleTypes' /\ StampsLeft' /\ Stamped'
  BY <1>1, ConsolesKept DEF Inv
<1>7. PassInv' /\ AnswersSettled'
  BY <1>1, <1>2, PassKept DEF Inv, PassInv, ThreadInv
<1>8. QED
  BY <1>5, <1>6, <1>7 DEF Inv, ThreadInv

-----------------------------------------------------------------------------
(* The threads of the connections *)

\* What the threads leave alone.
LEMMA ReturnLeaves ==
  ASSUME Inv, InReturn, FDIR_SIG_SUMMARY' \subseteq FDIR_SIG_SUMMARY,
         UNCHANGED <<FDIR_ALARM, FDIR_FDIRECT, written, FDIR_SIG_FAULT>>, simu_sync_mutex' \in BOOLEAN
  PROVE  /\ UNCHANGED <<now, stamps, g_lstTrig, g_lstTask, g_lstSecTrig, pass, task_list_mutex, work, announced>>
         /\ StampsLeft' /\ Stamped' /\ PassInv'
<1>1. UNCHANGED <<now, stamps, g_lstTrig, g_lstTask, g_lstSecTrig, pass, task_list_mutex, work, announced>>
  BY DEF InReturn, clock, tasks
<1>2. StampsLeft' /\ Stamped'
  BY <1>1, ConsolesKept DEF Inv
<1>3. PassTypes'
  BY <1>1 DEF Inv, PassInv, PassTypes
<1>4. PassPlace' /\ TaskStarts' /\ Recorded' /\ SigFaultsSettled'
  BY <1>1, PassKept DEF Inv, PassInv
<1>5. QED
  BY <1>1, <1>2, <1>3, <1>4 DEF PassInv

\* A thread that only goes on, comes or goes.
LEMMA ThreadGoes ==
  ASSUME Inv, NEW t \in Threads, NEW r, thread' = [thread EXCEPT ![t] = r], IsThread(r),
         Waits(r, FDIR_FDIRECT, FDIR_ALARM, FDIR_SIG_FAULT),
         InReturn, FDIR_SIG_SUMMARY' \subseteq FDIR_SIG_SUMMARY,
         UNCHANGED <<FDIR_ALARM, FDIR_FDIRECT, written, FDIR_SIG_FAULT, simu_mac_trig, answers>>, simu_sync_mutex' \in BOOLEAN
  PROVE  Inv'
<1>1. /\ UNCHANGED <<now, stamps, g_lstTrig, g_lstTask, g_lstSecTrig, pass, task_list_mutex, work, announced>>
      /\ StampsLeft' /\ Stamped' /\ PassInv'
  BY ReturnLeaves
<1>2. ThreadTypes /\ answers' \subseteq AnswerRecords
  BY DEF Inv, ThreadInv, ThreadTypes
<1>3. ThreadTypes'
  BY <1>2, OneThread
<1>4. ConsoleTypes' /\ AnswersSettled'
  BY <1>1, ConsolesKept, PassKept DEF Inv, ThreadInv
<1>5. QED
  BY <1>1, <1>3, <1>4 DEF Inv, ThreadInv

\* The place a thread goes to, with what it has in hand.
LEMMA PlaceTaken ==
  ASSUME Inv, NEW t \in Threads, NEW at, Goes(t, at)
  PROVE  /\ thread' = [thread EXCEPT ![t] = [thread[t] EXCEPT !.at = at]]
         /\ LET r == [thread[t] EXCEPT !.at = at]
            IN  IsThread(r) /\ r.at = at /\ r.fault = thread[t].fault /\ r.pt_trig = thread[t].pt_trig /\ r.answer = thread[t].answer
<1>1. thread' = [thread EXCEPT ![t] = [thread[t] EXCEPT !.at = at]]
  BY DEF Goes, Inv, ThreadInv, ThreadTypes
<1>2. \A q : IsThread(q) => LET r == [q EXCEPT !.at = at]
                            IN  IsThread(r) /\ r.at = at /\ r.fault = q.fault /\ r.pt_trig = q.pt_trig /\ r.answer = q.answer
  BY DEF IsThread
<1>3. QED
  BY <1>1, <1>2 DEF Inv, ThreadInv, ThreadTypes

\* A record of a thread with its place and one more field written.
WithFault(q, at, x) == [q EXCEPT !.at = at, !.fault = x]
WithTrigs(q, at, x) == [q EXCEPT !.at = at, !.pt_trig = x]
WithAnswer(q, at, x) == [q EXCEPT !.at = at, !.answer = x]
LEMMA ThreadFields ==
  ASSUME NEW q, IsThread(q), NEW at, NEW x
  PROVE  /\ LET y == WithFault(q, at, x) IN IsThread(y) /\ y.at = at /\ y.fault = x
         /\ LET y == WithTrigs(q, at, x) IN IsThread(y) /\ y.at = at /\ y.fault = q.fault /\ y.pt_trig = x
         /\ LET y == WithAnswer(q, at, x) IN IsThread(y) /\ y.at = at /\ y.fault = q.fault /\ y.answer = x
<1> DEFINE R == [at : {q.at, at}, fd : {q.fd}, fault : {q.fault, x}, pt_trig : {q.pt_trig, x}, answer : {q.answer, x}]
<1>1. q \in R
  BY DEF IsThread
<1>2. LET y == WithFault(q, at, x) IN y \in R /\ y.at = at /\ y.fault = x
  BY <1>1 DEF WithFault
<1>3. LET y == WithTrigs(q, at, x) IN y \in R /\ y.at = at /\ y.fault = q.fault /\ y.pt_trig = x
  BY <1>1 DEF WithTrigs
<1>4. LET y == WithAnswer(q, at, x) IN y \in R /\ y.at = at /\ y.fault = q.fault /\ y.answer = x
  BY <1>1 DEF WithAnswer
<1>5. \A y \in R : IsThread(y)
  BY DEF IsThread
<1> HIDE DEF R
<1>6. QED
  BY <1>2, <1>3, <1>4, <1>5

\* The fault read as the latest is one of those written.
LEMMA LatestWritten == ASSUME Inv PROVE Latest \in FDIR_FDIRECT \cup {NoFault}
<1>1. CASE FDIR_FDIRECT = {}
  BY <1>1 DEF Latest
<1>2. CASE FDIR_FDIRECT # {}
  <2>1. MaxStamps \in Nat /\ FDIR_FDIRECT \in SUBSET (1..MaxStamps)
    BY SimulatedAssumption DEF Inv, PassInv, PassTypes, FaultIds
  <2>2. \E f \in FDIR_FDIRECT : \A g \in FDIR_FDIRECT : g <= f
    BY <1>2, <2>1, LastPosition
  <2>3. QED
    BY <1>2, <2>2 DEF Latest
<1>3. QED
  BY <1>1, <1>2

LEMMA EnterKeeps == ASSUME Inv, NEW t \in Threads, Enter(t) PROVE Inv'
<1> DEFINE r == [thread[t] EXCEPT !.at = "in"]
<1>1. Goes(t, "in") /\ InReturn /\ simu_sync_mutex' = TRUE /\ UNCHANGED <<database, simu_mac_trig, answers>>
  BY DEF Enter
<1>2. thread' = [thread EXCEPT ![t] = r] /\ IsThread(r) /\ r.at = "in"
  BY <1>1, PlaceTaken
<1> HIDE DEF r
<1>3. Waits(r, FDIR_FDIRECT, FDIR_ALARM, FDIR_SIG_FAULT)
  BY <1>2 DEF Waits
<1>4. UNCHANGED <<FDIR_ALARM, FDIR_FDIRECT, written, FDIR_SIG_FAULT, FDIR_SIG_SUMMARY>>
  BY <1>1 DEF database
<1>5. QED
  BY <1>1, <1>2, <1>3, <1>4, ThreadGoes

LEMMA LeaveKeeps == ASSUME Inv, NEW t \in Threads, Leave(t) PROVE Inv'
<1> DEFINE r == [NotRun EXCEPT !.at = "sleep", !.fd = thread[t].fd]
<1>1. /\ thread' = [thread EXCEPT ![t] = r]
      /\ InReturn /\ simu_sync_mutex' = FALSE /\ UNCHANGED <<database, simu_mac_trig, answers>>
  BY DEF Leave
<1>2. IsThread(r) /\ Waits(r, FDIR_FDIRECT, FDIR_ALARM, FDIR_SIG_FAULT)
  BY ThreadAtRest
<1> HIDE DEF r
<1>3. UNCHANGED <<FDIR_ALARM, FDIR_FDIRECT, written, FDIR_SIG_FAULT, FDIR_SIG_SUMMARY>>
  BY <1>1 DEF database
<1>4. QED
  BY <1>1, <1>2, <1>3, ThreadGoes

LEMMA ReadLatestKeeps == ASSUME Inv, NEW t \in Threads, ReadLatest(t) PROVE Inv'
<1>1. InReturn /\ UNCHANGED <<database, simu_sync_mutex, simu_mac_trig, answers>>
  BY DEF ReadLatest
<1>2. UNCHANGED <<FDIR_ALARM, FDIR_FDIRECT, written, FDIR_SIG_FAULT, FDIR_SIG_SUMMARY>>
  BY <1>1 DEF database
<1>3. simu_sync_mutex' \in BOOLEAN
  BY <1>1 DEF Inv, PassInv, PassTypes
<1>4. CASE g_is_write_to_lib
  <2> DEFINE r == WithFault(thread[t], "alarms", Latest)
  <2>1. thread' = [thread EXCEPT ![t].at = "alarms", ![t].fault = Latest]
    BY <1>4 DEF ReadLatest
  <2>2. thread' = [thread EXCEPT ![t] = r]
    BY <2>1 DEF Inv, ThreadInv, ThreadTypes, WithFault
  <2>3. IsThread(thread[t])
    BY DEF Inv, ThreadInv, ThreadTypes
  <2>4. IsThread(r) /\ r.at = "alarms" /\ r.fault = Latest
    BY <2>3, ThreadFields
  <2> HIDE DEF r
  <2>5. Waits(r, FDIR_FDIRECT, FDIR_ALARM, FDIR_SIG_FAULT)
    BY <2>4, LatestWritten DEF Waits
  <2>6. QED
    BY <1>1, <1>2, <1>3, <2>2, <2>4, <2>5, ThreadGoes
<1>5. CASE ~g_is_write_to_lib
  <2> DEFINE r == [thread[t] EXCEPT !.at = "leave"]
  <2>1. Goes(t, "leave")
    BY <1>5 DEF ReadLatest
  <2>2. thread' = [thread EXCEPT ![t] = r] /\ IsThread(r) /\ r.at = "leave"
    BY <2>1, PlaceTaken
  <2> HIDE DEF r
  <2>3. Waits(r, FDIR_FDIRECT, FDIR_ALARM, FDIR_SIG_FAULT)
    BY <2>2 DEF Waits
  <2>4. QED
    BY <1>1, <1>2, <1>3, <2>2, <2>3, ThreadGoes
<1>6. QED
  BY <1>4, <1>5

LEMMA ReadAlarmsKeeps == ASSUME Inv, NEW t \in Threads, ReadAlarms(t) PROVE Inv'
<1> DEFINE f == thread[t].fault
           sigs == IF f = NoFault THEN {} ELSE FDIR_ALARM[f]
           r == WithTrigs(thread[t], "match", sigs)
<1>1. /\ thread' = [thread EXCEPT ![t].at = "match", ![t].pt_trig = sigs]
      /\ At(t, "alarms") /\ InReturn /\ UNCHANGED <<database, simu_sync_mutex, simu_mac_trig, answers>>
  BY DEF ReadAlarms
<1>2. UNCHANGED <<FDIR_ALARM, FDIR_FDIRECT, written, FDIR_SIG_FAULT, FDIR_SIG_SUMMARY>> /\ simu_sync_mutex' \in BOOLEAN
  BY <1>1 DEF database, Inv, PassInv, PassTypes
<1>3. thread' = [thread EXCEPT ![t] = r]
  BY <1>1 DEF Inv, ThreadInv, ThreadTypes, WithTrigs
<1>4. IsThread(thread[t])
  BY DEF Inv, ThreadInv, ThreadTypes
<1> HIDE DEF sigs
<1>5. IsThread(r) /\ r.at = "match" /\ r.fault = f /\ r.pt_trig = sigs
  BY <1>4, ThreadFields
<1>6. f \in FDIR_FDIRECT \cup {NoFault}
  BY <1>1 DEF Inv, ThreadInv, ThreadTypes, Waits, At
<1> HIDE DEF r
<1>7. Waits(r, FDIR_FDIRECT, FDIR_ALARM, FDIR_SIG_FAULT)
  BY <1>5, <1>6 DEF Waits, sigs
<1>8. QED
  BY <1>1, <1>2, <1>3, <1>5, <1>7, ThreadGoes

\* The first machine of the map.
LEMMA FirstMachine ==
  ASSUME ConsoleTypes, DOMAIN simu_mac_trig # {}
  PROVE  LET m == CHOOSE m \in DOMAIN simu_mac_trig : \A k \in DOMAIN simu_mac_trig : m <= k
         IN  m \in DOMAIN simu_mac_trig
<1> DEFINE D == DOMAIN simu_mac_trig
<1>1. D \subseteq Nat \ {0}
  BY SimulatedAssumption DEF ConsoleTypes
<1>2. PICK k \in D : TRUE
  OBVIOUS
<1>3. k \in Nat /\ D \cap (1..k) \in SUBSET (1..k) /\ D \cap (1..k) # {}
  BY <1>1
<1> HIDE DEF D
<1>4. PICK m \in D \cap (1..k) : \A i \in D \cap (1..k) : m <= i
  BY <1>3, FirstPosition
<1>5. \A i \in D : m <= i
  BY <1>1, <1>3, <1>4
<1>6. \E d \in D : \A i \in D : d <= i
  BY <1>4, <1>5
<1>7. QED
  BY <1>6 DEF D

\* What a match does with the signals announced, and whom it answers.
LEMMA MatchParts ==
  ASSUME Inv, NEW t \in Threads, Match(t)
  PROVE  \/ UNCHANGED simu_mac_trig /\ Goes(t, "leave")
         \/ \E m \in DOMAIN simu_mac_trig :
              /\ thread[t].fault \in FDIR_FDIRECT
              /\ simu_mac_trig' = [simu_mac_trig EXCEPT ![m] = simu_mac_trig[m] \ FDIR_ALARM[thread[t].fault]]
              /\ \/ Goes(t, "leave")
                 \/ \E p \in Plans :
                      /\ <<p, thread[t].fault>> \in FDIR_SIG_FAULT
                      /\ simu_mac_trig[m] \ FDIR_ALARM[thread[t].fault] = {}
                      /\ thread' = [thread EXCEPT ![t] = WithAnswer(thread[t], "answer",
                           [machine |-> m, fault |-> thread[t].fault, plan |-> p, asked |-> announced[m], carries |-> {}])]
<1> DEFINE m == CHOOSE m \in DOMAIN simu_mac_trig : \A k \in DOMAIN simu_mac_trig : m <= k
           f == thread[t].fault
           left == simu_mac_trig[m] \ thread[t].pt_trig
<1>1. CASE DOMAIN simu_mac_trig = {} \/ thread[t].pt_trig = {}
  BY <1>1 DEF Match
<1>2. CASE ~(DOMAIN simu_mac_trig = {} \/ thread[t].pt_trig = {})
  <2>1. m \in DOMAIN simu_mac_trig
    BY <1>2, FirstMachine DEF Inv
  <2>2. /\ simu_mac_trig' = [simu_mac_trig EXCEPT ![m] = left]
        /\ IF left # {} \/ PlansOf(f) = {} THEN Goes(t, "leave")
           ELSE \E p \in PlansOf(f) :
                  thread' = [thread EXCEPT ![t].at = "answer", ![t].answer =
                         [machine |-> m, fault |-> f, plan |-> p, asked |-> announced[m], carries |-> {}]]
    BY <1>2 DEF Match
  <2> HIDE DEF m
  <2>3. f \in FDIR_FDIRECT /\ thread[t].pt_trig = FDIR_ALARM[f]
    <3>1. thread[t].at = "match" /\ Waits(thread[t], FDIR_FDIRECT, FDIR_ALARM, FDIR_SIG_FAULT)
      BY DEF Match, At, Inv, ThreadInv, ThreadTypes
    <3>2. QED
      BY <1>2, <3>1 DEF Waits
  <2>4. CASE left # {} \/ PlansOf(f) = {}
    BY <2>1, <2>2, <2>3, <2>4
  <2>5. CASE ~(left # {} \/ PlansOf(f) = {})
    <3> DEFINE answer(p) == [machine |-> m, fault |-> f, plan |-> p, asked |-> announced[m], carries |-> {}]
    <3>1. PICK p \in PlansOf(f) : thread' = [thread EXCEPT ![t].at = "answer", ![t].answer = answer(p)]
      BY <2>2, <2>5
    <3> HIDE DEF answer
    <3>2. thread' = [thread EXCEPT ![t] = WithAnswer(thread[t], "answer", answer(p))]
      BY <3>1 DEF WithAnswer, Inv, ThreadInv, ThreadTypes
    <3>3. p \in Plans /\ <<p, f>> \in FDIR_SIG_FAULT
      BY DEF PlansOf, Inv, PassInv, PassTypes
    <3>4. QED
      BY <2>1, <2>2, <2>3, <2>5, <3>2, <3>3 DEF answer
  <2>6. QED
    BY <2>4, <2>5
<1>3. QED
  BY <1>1, <1>2

LEMMA MatchKeeps == ASSUME Inv, NEW t \in Threads, Match(t) PROVE Inv'
<1>1. InReturn /\ UNCHANGED <<database, simu_sync_mutex, answers>>
  BY DEF Match
<1>2. UNCHANGED <<FDIR_ALARM, FDIR_FDIRECT, written, FDIR_SIG_FAULT, FDIR_SIG_SUMMARY>> /\ simu_sync_mutex' \in BOOLEAN
  BY <1>1 DEF database, Inv, PassInv, PassTypes
<1>3. /\ UNCHANGED <<now, stamps, g_lstTrig, g_lstTask, g_lstSecTrig, pass, task_list_mutex, work, announced>>
      /\ StampsLeft' /\ Stamped' /\ PassInv'
  BY <1>1, <1>2, ReturnLeaves
<1>4. AnswersSettled'
  BY <1>1, <1>2, <1>3, PassKept DEF Inv, ThreadInv
<1>5. ThreadTypes /\ answers' \subseteq AnswerRecords
  BY <1>1 DEF Inv, ThreadInv, ThreadTypes
<1>6. ConsoleTypes'
  <2>1. CASE UNCHANGED simu_mac_trig
    BY <1>3, <2>1, ConsolesKept DEF Inv
  <2>2. CASE \E m \in DOMAIN simu_mac_trig :
               simu_mac_trig' = [simu_mac_trig EXCEPT ![m] = simu_mac_trig[m] \ FDIR_ALARM[thread[t].fault]]
    <3>1. PICK m \in DOMAIN simu_mac_trig :
                 simu_mac_trig' = [simu_mac_trig EXCEPT ![m] = simu_mac_trig[m] \ FDIR_ALARM[thread[t].fault]]
      BY <2>2
    <3>2. /\ simu_mac_trig' = [k \in DOMAIN simu_mac_trig' |-> simu_mac_trig'[k]]
          /\ DOMAIN simu_mac_trig' = DOMAIN simu_mac_trig
          /\ \A k \in DOMAIN simu_mac_trig' : simu_mac_trig'[k] \subseteq simu_mac_trig[k]
      BY <3>1
    <3>3. QED
      BY <1>3, <3>2 DEF Inv, ConsoleTypes
  <2>3. QED
    BY <2>1, <2>2, MatchParts
<1>7. ThreadTypes'
  <2>1. CASE Goes(t, "leave")
    <3> DEFINE r == [thread[t] EXCEPT !.at = "leave"]
    <3>1. thread' = [thread EXCEPT ![t] = r] /\ IsThread(r) /\ r.at = "leave"
      BY <2>1, PlaceTaken
    <3> HIDE DEF r
    <3>2. Waits(r, FDIR_FDIRECT', FDIR_ALARM', FDIR_SIG_FAULT')
      BY <3>1 DEF Waits
    <3>3. QED
      BY <1>2, <1>5, <3>1, <3>2, OneThread
  <2>2. CASE ~Goes(t, "leave")
    <3>1. PICK m \in DOMAIN simu_mac_trig, p \in Plans :
            /\ thread[t].fault \in FDIR_FDIRECT
            /\ <<p, thread[t].fault>> \in FDIR_SIG_FAULT
            /\ thread' = [thread EXCEPT ![t] = WithAnswer(thread[t], "answer",
                 [machine |-> m, fault |-> thread[t].fault, plan |-> p, asked |-> announced[m], carries |-> {}])]
      BY <2>2, MatchParts
    <3> DEFINE a == [machine |-> m, fault |-> thread[t].fault, plan |-> p, asked |-> announced[m], carries |-> {}]
               r == WithAnswer(thread[t], "answer", a)
    <3>2. a \in AnswerRecords /\ a.fault = thread[t].fault /\ a.plan = p
      BY <3>1 DEF AnswerRecords, Inv, ConsoleTypes, PassInv, PassTypes
    <3> HIDE DEF a
    <3>3. IsThread(r) /\ r.at = "answer" /\ r.fault = thread[t].fault /\ r.answer = a
      <4>1. IsThread(thread[t])
        BY DEF Inv, ThreadInv, ThreadTypes
      <4>2. QED
        BY <4>1, ThreadFields
    <3> HIDE DEF r
    <3>4. Waits(r, FDIR_FDIRECT', FDIR_ALARM', FDIR_SIG_FAULT')
      BY <1>2, <3>1, <3>2, <3>3 DEF Waits
    <3>5. thread' = [thread EXCEPT ![t] = r]
      BY <3>1 DEF r, a
    <3>6. QED
      BY <1>2, <1>5, <3>3, <3>4, <3>5, OneThread
  <2>3. QED
    BY <2>1, <2>2
<1>8. QED
  BY <1>3, <1>4, <1>6, <1>7 DEF Inv, ThreadInv

\* What is written of a fault when it is answered is what the answer carries.
LEMMA AnswerKeeps == ASSUME Inv, NEW t \in Threads, Answer(t) PROVE Inv'
<1> DEFINE a == thread[t].answer
           b == [a EXCEPT !.carries = written[thread[t].fault]]
           r == [thread[t] EXCEPT !.at = "clear"]
<1>1. /\ At(t, "answer") /\ InReturn /\ UNCHANGED <<database, simu_sync_mutex, simu_mac_trig>>
      /\ answers' = answers \cup {b} /\ Goes(t, "clear")
  BY DEF Answer
<1>2. UNCHANGED <<FDIR_ALARM, FDIR_FDIRECT, written, FDIR_SIG_FAULT, FDIR_SIG_SUMMARY>> /\ simu_sync_mutex' \in BOOLEAN
  BY <1>1 DEF database, Inv, PassInv, PassTypes
<1>3. /\ UNCHANGED <<now, stamps, g_lstTrig, g_lstTask, g_lstSecTrig, pass, task_list_mutex, work, announced>>
      /\ StampsLeft' /\ Stamped' /\ PassInv'
  BY <1>1, <1>2, ReturnLeaves
<1>4. ConsoleTypes'
  BY <1>1, <1>3, ConsolesKept DEF Inv
<1>5. a \in AnswerRecords /\ a.fault = thread[t].fault /\ <<a.plan, a.fault>> \in FDIR_SIG_FAULT
  <2>1. thread[t].at = "answer" /\ Waits(thread[t], FDIR_FDIRECT, FDIR_ALARM, FDIR_SIG_FAULT)
    BY <1>1 DEF At, Inv, ThreadInv, ThreadTypes
  <2>2. QED
    BY <2>1 DEF Waits
<1>6. written[thread[t].fault] \in SUBSET {"main", "least"}
  BY <1>5 DEF AnswerRecords, Inv, PassInv, PassTypes
<1>7. b \in AnswerRecords /\ b.fault = a.fault /\ b.carries = written[a.fault]
  BY <1>5, <1>6 DEF AnswerRecords
<1>8. Settled(b.fault, b.carries)
  BY <1>5, <1>7 DEF Inv, PassInv, SigFaultsSettled
<1> HIDE DEF b
<1>9. AnswersSettled'
  <2>1. \A x \in answers' : Settled(x.fault, x.carries)
    BY <1>1, <1>8 DEF Inv, ThreadInv, AnswersSettled
  <2>2. QED
    BY <1>2, <1>3, <2>1 DEF AnswersSettled, Settled
<1>10. ThreadTypes'
  <2>1. thread' = [thread EXCEPT ![t] = r] /\ IsThread(r) /\ r.at = "clear" /\ r.answer = a
    BY <1>1, PlaceTaken
  <2> HIDE DEF r
  <2>2. Waits(r, FDIR_FDIRECT', FDIR_ALARM', FDIR_SIG_FAULT')
    BY <1>5, <2>1 DEF Waits
  <2>3. ThreadTypes /\ answers' \subseteq AnswerRecords
    BY <1>1, <1>7 DEF Inv, ThreadInv, ThreadTypes
  <2>4. QED
    BY <1>2, <2>1, <2>2, <2>3, OneThread
<1>11. QED
  BY <1>3, <1>4, <1>9, <1>10 DEF Inv, ThreadInv

LEMMA ExitKeeps == ASSUME Inv, NEW t \in Threads, Exit(t) PROVE Inv'
<1> DEFINE r == [NotRun EXCEPT !.at = "ended"]
<1>1. /\ thread' = [thread EXCEPT ![t] = r] /\ InReturn /\ simu_sync_mutex' = FALSE
      /\ FDIR_SIG_SUMMARY' \subseteq FDIR_SIG_SUMMARY
      /\ UNCHANGED <<FDIR_ALARM, FDIR_FDIRECT, written, FDIR_SIG_FAULT, simu_mac_trig, answers>>
  BY DEF Exit
<1>2. IsThread(r) /\ r.at = "ended"
  <2> DEFINE R == [at : {"none", "ended"}, fd : {0}, fault : {NoFault}, pt_trig : {{}}, answer : {<<>>}]
  <2>1. NotRun \in R
    BY DEF NotRun
  <2>2. r \in R /\ r.at = "ended"
    BY <2>1
  <2>3. \A x \in R : IsThread(x)
    BY DEF IsThread
  <2>4. QED
    BY <2>2, <2>3
<1> HIDE DEF r
<1>3. Waits(r, FDIR_FDIRECT, FDIR_ALARM, FDIR_SIG_FAULT)
  BY <1>2 DEF Waits
<1>4. QED
  BY <1>1, <1>2, <1>3, ThreadGoes

-----------------------------------------------------------------------------
(* The alarm thread and the pass *)

Steps == {"SLEEP", "CALC", "CALC_ISO", "GROUPED", "ISO"}
Doings == {"none", "lock", "visit", "alarms", "record", "main", "sig", "least", "remove"}

\* Where the pass goes on.
LEMMA PassGoes ==
  ASSUME Inv, NEW at \in Nat, NEW d \in Doings, Does(at, d)
  PROVE  pass' \in Passes /\ pass'.at = at /\ pass'.does = d /\ pass'.failed = pass.failed
BY DEF Inv, PassInv, PassTypes, Passes, Does, Doings

\* A node with another step is the node otherwise.
LEMMA StepTaken ==
  ASSUME g_lstTask \in Seq(SimTasks), NEW i \in DOMAIN g_lstTask, NEW s \in Steps,
         g_lstTask' = [g_lstTask EXCEPT ![i].step = s]
  PROVE  /\ g_lstTask' \in Seq(SimTasks) /\ DOMAIN g_lstTask' = DOMAIN g_lstTask
         /\ g_lstTask'[i].step = s
         /\ \A j \in DOMAIN g_lstTask : g_lstTask'[j].fault = g_lstTask[j].fault /\ g_lstTask'[j].plan = g_lstTask[j].plan
         /\ \A j \in DOMAIN g_lstTask : j # i => g_lstTask'[j] = g_lstTask[j]
<1>1. \A q \in SimTasks : LET r == [q EXCEPT !.step = s]
                          IN  r \in SimTasks /\ r.step = s /\ r.fault = q.fault /\ r.plan = q.plan
  BY DEF SimTasks, Steps
<1>2. g_lstTask[i] \in SimTasks
  OBVIOUS
<1> DEFINE r == [g_lstTask[i] EXCEPT !.step = s]
<1>3. g_lstTask' = [g_lstTask EXCEPT ![i] = r]
  OBVIOUS
<1>4. r \in SimTasks /\ r.step = s /\ r.fault = g_lstTask[i].fault /\ r.plan = g_lstTask[i].plan
  BY <1>1, <1>2
<1> HIDE DEF r
<1>5. g_lstTask' \in Seq(SimTasks) /\ DOMAIN g_lstTask' = DOMAIN g_lstTask
  BY <1>3, <1>4
<1>6. \A j \in DOMAIN g_lstTask : g_lstTask'[j] = IF j = i THEN r ELSE g_lstTask[j]
  BY <1>3
<1>7. QED
  BY <1>4, <1>5, <1>6

\* What the alarm thread and the pass leave alone.
LEMMA PassLeaves ==
  ASSUME Inv, UNCHANGED <<clock, g_lstTrig, returns, consoles>>
  PROVE  /\ UNCHANGED <<now, stamps, thread, answers, announced, simu_mac_trig>>
         /\ ConsoleTypes' /\ StampsLeft'
         /\ UNCHANGED FDIR_FDIRECT => Stamped'
         /\ UNCHANGED <<FDIR_ALARM, FDIR_FDIRECT, FDIR_SIG_FAULT>> => ThreadTypes'
BY ConsolesKept, ThreadsKept DEF Inv, ThreadInv, clock, returns, consoles

\* A step of the pass that writes nothing, from a node to the next.
LEMMA PassMoves ==
  ASSUME Inv, UNCHANGED <<clock, g_lstTrig, returns, consoles, database, g_lstTask, g_lstSecTrig>>,
         ~Writing, pass' \in Passes, pass'.does \in {"none", "lock", "visit"},
         task_list_mutex' \in {Free, Pass} \cup Consoles, simu_sync_mutex' \in BOOLEAN,
         (pass'.does = "none") = (task_list_mutex' # Pass)
  PROVE  Inv'
<1>1. UNCHANGED <<FDIR_ALARM, FDIR_FDIRECT, written, FDIR_SIG_FAULT, FDIR_SIG_SUMMARY, answers>>
  BY DEF database, returns
<1>2. ConsoleTypes' /\ StampsLeft' /\ Stamped' /\ ThreadTypes'
  BY <1>1, PassLeaves
<1>3. PassTypes'
  BY <1>1 DEF Inv, PassInv, PassTypes
<1>4. PassPlace'
  BY DEF PassPlace, Writing
<1>5. TaskStarts'
  BY DEF Inv, PassInv, TaskStarts, Starts, Locating, Writing
<1>6. Recorded'
  BY <1>1 DEF Inv, PassInv, Recorded, Writing
<1>7. SigFaultsSettled' /\ AnswersSettled'
  BY <1>1 DEF Inv, PassInv, ThreadInv, SigFaultsSettled, AnswersSettled, Settled, Writing
<1>8. QED
  BY <1>2, <1>3, <1>4, <1>5, <1>6, <1>7 DEF Inv, PassInv, ThreadInv

LEMMA LocksKeep == ASSUME Inv, LockTasks \/ LockSimu \/ EndPass PROVE Inv'
<1>1. CASE LockTasks
  <2>1. pass' \in Passes /\ pass'.does = "lock"
    BY <1>1, PassGoes DEF LockTasks, Doings
  <2>2. ~Writing /\ task_list_mutex' = Pass /\ simu_sync_mutex' \in BOOLEAN
    BY <1>1 DEF LockTasks, Writing, Inv, PassInv, PassTypes
  <2>3. UNCHANGED <<clock, g_lstTrig, returns, consoles, database, g_lstTask, g_lstSecTrig>>
    BY <1>1 DEF LockTasks
  <2>4. QED
    BY <2>1, <2>2, <2>3, PassMoves
<1>2. CASE LockSimu
  <2>1. pass' \in Passes /\ pass'.does = "visit"
    BY <1>2, PassGoes DEF LockSimu, Doings
  <2>2. ~Writing /\ task_list_mutex' = Pass /\ simu_sync_mutex' \in BOOLEAN
    BY <1>2 DEF LockSimu, Writing, Inv, PassInv, PassPlace
  <2>3. UNCHANGED <<clock, g_lstTrig, returns, consoles, database, g_lstTask, g_lstSecTrig>>
    BY <1>2 DEF LockSimu
  <2>4. QED
    BY <2>1, <2>2, <2>3, PassMoves
<1>3. CASE EndPass
  <2>1. pass' \in Passes /\ pass'.does = "none"
    BY <1>3, PassGoes DEF EndPass, Doings
  <2>2. ~Writing /\ task_list_mutex' = Free /\ simu_sync_mutex' \in BOOLEAN
    BY <1>3 DEF EndPass, Writing
  <2>3. UNCHANGED <<clock, g_lstTrig, returns, consoles, database, g_lstTask, g_lstSecTrig>>
    BY <1>3 DEF EndPass
  <2>4. QED
    BY <2>1, <2>2, <2>3, PassMoves DEF Free, Pass
<1>4. QED
  BY <1>1, <1>2, <1>3

\* A visit to a node changes at most its step, and the pass goes on to write it
\* or to the next: what has to hold for the rest of the invariant to be kept.
LEMMA NodeVisited ==
  ASSUME Inv, UNCHANGED <<clock, returns, consoles, database, mutexes>>,
         pass.does = "visit", pass.at \in DOMAIN g_lstTask,
         pass' \in Passes, pass'.does \in {"visit", "alarms"},
         ConsoleTypes', Stamped',
         g_lstTask' \in Seq(SimTasks), DOMAIN g_lstTask' = DOMAIN g_lstTask,
         \A j \in DOMAIN g_lstTask : g_lstTask'[j].fault = g_lstTask[j].fault,
         \A j \in DOMAIN g_lstTask : j # pass.at => g_lstTask'[j] = g_lstTask[j],
         Node.step # "ISO" \/ UNCHANGED g_lstTask,
         DOMAIN g_lstTrig' = DOMAIN g_lstTrig, g_lstSecTrig' \subseteq DOMAIN g_lstTrig,
         \A k \in DOMAIN g_lstTrig : g_lstTrig'[k].id = g_lstTrig[k].id /\ (g_lstTrig[k].used => g_lstTrig'[k].used),
         pass'.does = "alarms" => pass'.at = pass.at /\ g_lstTask'[pass.at].step = IF pass'.failed THEN "CALC" ELSE "GROUPED",
         TaskStarts'
  PROVE  Inv'
<1>1. UNCHANGED <<FDIR_ALARM, FDIR_FDIRECT, written, FDIR_SIG_FAULT, FDIR_SIG_SUMMARY, thread, answers, stamps, work,
                  task_list_mutex, simu_sync_mutex>>
  BY DEF database, returns, clock, consoles, mutexes
<1>2. StampsLeft' /\ ThreadTypes'
  BY <1>1, ConsolesKept, ThreadsKept DEF Inv, ThreadInv
<1>3. PassTypes'
  BY <1>1 DEF Inv, PassInv, PassTypes
<1>4. PassPlace'
  <2>1. (pass'.does = "none") = (task_list_mutex' # Pass)
    BY <1>1 DEF Inv, PassInv, PassPlace
  <2>2. QED
    BY <2>1 DEF PassPlace, Writing, Node
<1>5. Recorded'
  <2>1. ASSUME NEW k \in DOMAIN g_lstTrig', g_lstTrig'[k].id \in FDIR_FDIRECT PROVE g_lstTrig'[k].used
    BY <2>1 DEF Inv, PassInv, Recorded
  <2>2. ASSUME NEW i \in DOMAIN g_lstTask', g_lstTask'[i].fault \in FDIR_FDIRECT PROVE g_lstTask'[i].step = "ISO"
    <3>1. g_lstTask[i].step = "ISO"
      BY <2>2 DEF Inv, PassInv, Recorded
    <3>2. g_lstTask'[i] = g_lstTask[i]
      BY <2>2, <3>1 DEF Node
    <3>3. QED
      BY <3>1, <3>2
  <2>3. QED
    BY <1>1, <2>1, <2>2 DEF Recorded
<1>6. SigFaultsSettled' /\ AnswersSettled'
  <2>1. ASSUME NEW f, NEW parts, Settled(f, parts) PROVE Settled(f, parts)'
    <3>1. f \in FDIR_FDIRECT'
      BY <1>1, <2>1 DEF Settled
    <3>2. \E k \in DOMAIN g_lstTrig' : g_lstTrig'[k].id = f /\ g_lstTrig'[k].used
      BY <2>1 DEF Settled
    <3>3. "main" \in parts \/ \A i \in DOMAIN g_lstTask' : g_lstTask'[i].fault = f => i = pass'.at /\ pass'.does = "remove"
      BY <2>1 DEF Settled
    <3>4. QED
      BY <3>1, <3>2, <3>3 DEF Settled
  <2>2. QED
    BY <1>1, <2>1 DEF Inv, PassInv, ThreadInv, SigFaultsSettled, AnswersSettled
<1>7. QED
  BY <1>2, <1>3, <1>4, <1>5, <1>6 DEF Inv, PassInv, ThreadInv

\* The signals and the consoles are left alone by a visit, but for VisitCalc.
LEMMA VisitLeaves ==
  ASSUME Inv, UNCHANGED g_lstTrig, UNCHANGED database, InPass
  PROVE  /\ UNCHANGED <<clock, returns, consoles, database, mutexes>> /\ ConsoleTypes' /\ Stamped'
         /\ DOMAIN g_lstTrig' = DOMAIN g_lstTrig
         /\ \A k \in DOMAIN g_lstTrig : g_lstTrig'[k].id = g_lstTrig[k].id /\ (g_lstTrig[k].used => g_lstTrig'[k].used)
BY PassLeaves DEF InPass, database

LEMMA VisitIsoKeeps == ASSUME Inv, VisitIso PROVE Inv'
<1>1. pass' \in Passes /\ pass'.does = "visit"
  <2>1. pass.at + 1 \in Nat
    BY DEF Inv, PassInv, PassTypes, Passes
  <2>2. QED
    BY <2>1, PassGoes DEF VisitIso, Advance, Doings
<1>2. ~Writing /\ UNCHANGED <<clock, g_lstTrig, returns, consoles, database, g_lstTask, g_lstSecTrig, mutexes>>
  BY DEF VisitIso, Visiting, Writing, InPass
<1>3. task_list_mutex' = Pass /\ simu_sync_mutex' \in BOOLEAN
  BY <1>2 DEF mutexes, VisitIso, Visiting, Inv, PassInv, PassPlace, PassTypes
<1>4. QED
  BY <1>1, <1>2, <1>3, PassMoves

LEMMA VisitGroupedKeeps == ASSUME Inv, VisitGrouped PROVE Inv'
<1> DEFINE p == pass.at
<1>1. /\ pass.does = "visit" /\ p \in DOMAIN g_lstTask /\ Node.step = "GROUPED"
      /\ pass' = [pass EXCEPT !.does = "alarms", !.failed = FALSE]
      /\ UNCHANGED <<g_lstTrig, g_lstTask, g_lstSecTrig, database>> /\ InPass
  BY DEF VisitGrouped, Visiting
<1>2. pass' \in Passes /\ pass'.does = "alarms" /\ pass'.at = p /\ pass'.failed = FALSE
  BY <1>1 DEF Inv, PassInv, PassTypes, Passes
<1>3. TaskStarts'
  BY <1>1, <1>2 DEF Inv, PassInv, TaskStarts, Starts, Writing, Locating, Node
<1>4. g_lstTask' \in Seq(SimTasks) /\ g_lstSecTrig' \subseteq DOMAIN g_lstTrig
  BY <1>1 DEF Inv, PassInv, PassTypes
<1>5. pass'.does = "alarms" => pass'.at = pass.at /\ g_lstTask'[pass.at].step = IF pass'.failed THEN "CALC" ELSE "GROUPED"
  BY <1>1, <1>2 DEF Node
<1>6. QED
  BY <1>1, <1>2, <1>3, <1>4, <1>5, VisitLeaves, NodeVisited

LEMMA VisitCalcIsoKeeps == ASSUME Inv, VisitCalcIso PROVE Inv'
<1> DEFINE p == pass.at
<1>1. /\ pass.does = "visit" /\ p \in DOMAIN g_lstTask /\ Node.step = "CALC_ISO"
      /\ g_lstTask' = [g_lstTask EXCEPT ![p].step = "GROUPED"] /\ Advance
      /\ UNCHANGED <<g_lstTrig, g_lstSecTrig, database>> /\ InPass
  BY DEF VisitCalcIso, Visiting, Step
<1>2. pass' \in Passes /\ pass'.does = "visit"
  <2>1. pass.at + 1 \in Nat
    BY DEF Inv, PassInv, PassTypes, Passes
  <2>2. QED
    BY <1>1, <2>1, PassGoes DEF Advance, Doings
<1>3. /\ g_lstTask' \in Seq(SimTasks) /\ DOMAIN g_lstTask' = DOMAIN g_lstTask
      /\ g_lstTask'[p].step = "GROUPED"
      /\ \A j \in DOMAIN g_lstTask : g_lstTask'[j].fault = g_lstTask[j].fault
      /\ \A j \in DOMAIN g_lstTask : j # p => g_lstTask'[j] = g_lstTask[j]
  BY <1>1, StepTaken DEF Inv, PassInv, PassTypes, Steps
<1>4. TaskStarts'
  BY <1>1, <1>2, <1>3 DEF Inv, PassInv, TaskStarts, Starts, Writing, Locating, Node
<1>5. g_lstSecTrig' \subseteq DOMAIN g_lstTrig
  BY <1>1 DEF Inv, PassInv, PassTypes
<1>6. QED
  BY <1>1, <1>2, <1>3, <1>4, <1>5, VisitLeaves, NodeVisited

\* Its own start signal is among those collected for a fault.
LEMMA VisitSleepKeeps == ASSUME Inv, VisitSleep PROVE Inv'
<1> DEFINE p == pass.at
<1>1. /\ pass.does = "visit" /\ p \in DOMAIN g_lstTask /\ Node.step = "SLEEP" /\ Advance
      /\ UNCHANGED <<g_lstTrig, database>> /\ InPass
      /\ \/ g_lstTask' = [g_lstTask EXCEPT ![p].step = "CALC"] /\ g_lstSecTrig' = {i \in DOMAIN g_lstTrig : Near(i, Start)}
         \/ UNCHANGED <<g_lstTask, g_lstSecTrig>>
  BY DEF VisitSleep, Visiting, Step
<1>2. pass' \in Passes /\ pass'.does = "visit"
  <2>1. pass.at + 1 \in Nat
    BY DEF Inv, PassInv, PassTypes, Passes
  <2>2. QED
    BY <1>1, <2>1, PassGoes DEF Advance, Doings
<1>3. CASE UNCHANGED <<g_lstTask, g_lstSecTrig>>
  <2>1. UNCHANGED <<clock, g_lstTrig, returns, consoles, database, g_lstTask, g_lstSecTrig, mutexes>>
    BY <1>1, <1>3 DEF InPass
  <2>2. task_list_mutex' = Pass /\ simu_sync_mutex' \in BOOLEAN
    BY <1>1, <2>1 DEF mutexes, Inv, PassInv, PassPlace, PassTypes
  <2>3. QED
    BY <1>1, <1>2, <2>1, <2>2, PassMoves DEF Writing
<1>4. CASE g_lstTask' = [g_lstTask EXCEPT ![p].step = "CALC"] /\ g_lstSecTrig' = {i \in DOMAIN g_lstTrig : Near(i, Start)}
  <2>1. /\ g_lstTask' \in Seq(SimTasks) /\ DOMAIN g_lstTask' = DOMAIN g_lstTask
        /\ g_lstTask'[p].step = "CALC"
        /\ \A j \in DOMAIN g_lstTask : g_lstTask'[j].fault = g_lstTask[j].fault
        /\ \A j \in DOMAIN g_lstTask : j # p => g_lstTask'[j] = g_lstTask[j]
    BY <1>1, <1>4, StepTaken DEF Inv, PassInv, PassTypes, Steps
  <2>2. PICK k \in DOMAIN g_lstTrig : Starts(k, p)
    BY <1>1 DEF Inv, PassInv, TaskStarts
  <2>3. Start = k
    <3>1. \A i \in DOMAIN g_lstTrig : g_lstTrig[i].id = Node.fault <=> i = k
      BY <2>2 DEF Starts, Node, Inv, Stamped
    <3>2. QED
      BY <3>1 DEF Start
  <2>4. k \in g_lstSecTrig'
    <3>1. g_lstTrig[k].sec \in Int
      BY ElementTypes, SimulatedAssumption DEF Trigs
    <3>2. Near(k, k)
      BY <3>1, SimulatedAssumption DEF Near
    <3>3. QED
      BY <1>4, <2>3, <3>2
  <2>5. TaskStarts'
    <3>1. ASSUME NEW i \in DOMAIN g_lstTask' PROVE \E h \in DOMAIN g_lstTrig' : Starts(h, i)'
      <4>1. CASE i = p
        BY <1>1, <1>2, <2>1, <2>2, <2>4, <4>1 DEF Starts, Locating, Writing, Node
      <4>2. CASE i # p
        <5>1. PICK h \in DOMAIN g_lstTrig : Starts(h, i)
          BY <2>1 DEF Inv, PassInv, TaskStarts
        <5>2. g_lstTask'[i] = g_lstTask[i] /\ ~Locating(g_lstTask[i])
          BY <1>1, <2>1, <4>2 DEF Inv, PassInv, TaskStarts, Locating, Node
        <5>3. Starts(h, i)'
          BY <1>1, <1>2, <5>1, <5>2 DEF Starts, Locating, Writing
        <5>4. QED
          BY <1>1, <5>3
      <4>3. QED
        BY <4>1, <4>2
    <3>2. QED
      BY <1>1, <2>1, <3>1 DEF Inv, PassInv, TaskStarts, Locating, Node
  <2>6. g_lstSecTrig' \subseteq DOMAIN g_lstTrig
    BY <1>4
  <2>7. QED
    BY <1>1, <1>2, <2>1, <2>5, <2>6, VisitLeaves, NodeVisited
<1>5. QED
  BY <1>1, <1>3, <1>4

\* The signals of a fault are used whether it has been located or not.
LEMMA VisitCalcKeeps == ASSUME Inv, VisitCalc PROVE Inv'
<1> DEFINE p == pass.at
           n == g_lstTask[p]
           sigs == {[key |-> g_lstTrig[i].key, sec |-> g_lstTrig[i].sec] : i \in g_lstSecTrig}
           v == [n EXCEPT !.trig_list = sigs]
           w == [v EXCEPT !.step = "CALC_ISO"]
<1>1. /\ pass.does = "visit" /\ p \in DOMAIN g_lstTask /\ n.step = "CALC"
      /\ UNCHANGED <<g_lstSecTrig, database>> /\ InPass
  BY DEF VisitCalc, Visiting, Node
<1>2. /\ \/ g_lstTask' = [g_lstTask EXCEPT ![p] = w] /\ Advance
         \/ g_lstTask' = [g_lstTask EXCEPT ![p] = v] /\ pass' = [pass EXCEPT !.does = "alarms", !.failed = TRUE]
      /\ g_lstTrig' = [i \in DOMAIN g_lstTrig |-> IF i \in g_lstSecTrig THEN [g_lstTrig[i] EXCEPT !.used = TRUE] ELSE g_lstTrig[i]]
  BY DEF VisitCalc, Node
<1>3. sigs \subseteq Alarms
  BY ElementTypes DEF Inv, PassInv, PassTypes, Alarms, Trigs
<1> HIDE DEF sigs
<1>4. /\ v \in SimTasks /\ v.step = "CALC" /\ v.fault = n.fault
      /\ w \in SimTasks /\ w.step = "CALC_ISO" /\ w.fault = n.fault
  <2>1. n \in SimTasks
    BY <1>1, ElementTypes
  <2>2. v \in SimTasks /\ v.step = "CALC" /\ v.fault = n.fault
    BY <1>1, <1>3, <2>1 DEF SimTasks
  <2> HIDE DEF v
  <2>3. w \in SimTasks /\ w.step = "CALC_ISO" /\ w.fault = n.fault
    BY <2>2 DEF SimTasks
  <2>4. QED
    BY <2>2, <2>3
<1> HIDE DEF v, w
<1>5. /\ g_lstTask \in Seq(SimTasks) /\ g_lstTask' \in Seq(SimTasks) /\ DOMAIN g_lstTask' = DOMAIN g_lstTask
      /\ g_lstTask'[p] \in {v, w}
      /\ \A j \in DOMAIN g_lstTask : g_lstTask'[j].fault = g_lstTask[j].fault
      /\ \A j \in DOMAIN g_lstTask : j # p => g_lstTask'[j] = g_lstTask[j]
  <2>1. PICK x \in {v, w} : g_lstTask' = [g_lstTask EXCEPT ![p] = x]
    BY <1>2
  <2>2. x \in SimTasks /\ x.fault = n.fault
    BY <1>4
  <2>3. g_lstTask \in Seq(SimTasks)
    BY DEF Inv, PassInv, PassTypes
  <2>4. g_lstTask' \in Seq(SimTasks) /\ DOMAIN g_lstTask' = DOMAIN g_lstTask
    <3>1. \A i \in DOMAIN g_lstTask : [g_lstTask EXCEPT ![i] = x] \in Seq(SimTasks)
      BY <2>2, <2>3
    <3>2. QED
      BY <1>1, <2>1, <3>1
  <2>5. \A j \in DOMAIN g_lstTask : g_lstTask'[j] = IF j = p THEN x ELSE g_lstTask[j]
    BY <2>1
  <2>6. QED
    BY <1>1, <2>2, <2>3, <2>4, <2>5
<1>6. /\ pass' \in Passes
      /\ \/ pass'.does = "visit" /\ g_lstTask'[p] = w
         \/ pass'.does = "alarms" /\ pass'.at = p /\ pass'.failed /\ g_lstTask'[p] = v
  <2>1. CASE g_lstTask' = [g_lstTask EXCEPT ![p] = w] /\ Advance
    <3>1. pass.at + 1 \in Nat
      BY DEF Inv, PassInv, PassTypes, Passes
    <3>2. pass' \in Passes /\ pass'.does = "visit"
      BY <2>1, <3>1, PassGoes DEF Advance, Doings
    <3>3. QED
      BY <1>1, <1>5, <2>1, <3>2
  <2>2. CASE g_lstTask' = [g_lstTask EXCEPT ![p] = v] /\ pass' = [pass EXCEPT !.does = "alarms", !.failed = TRUE]
    BY <1>1, <1>5, <2>2 DEF Inv, PassInv, PassTypes, Passes
  <2>3. QED
    BY <1>2, <2>1, <2>2
<1>7. /\ g_lstTrig' \in Seq(Trigs) /\ DOMAIN g_lstTrig' = DOMAIN g_lstTrig
      /\ \A k \in DOMAIN g_lstTrig : /\ g_lstTrig'[k].id = g_lstTrig[k].id
                                     /\ g_lstTrig'[k].used <=> g_lstTrig[k].used \/ k \in g_lstSecTrig
  <2> DEFINE u(i) == [g_lstTrig[i] EXCEPT !.used = TRUE]
  <2>1. \A i \in DOMAIN g_lstTrig : u(i) \in Trigs /\ u(i).id = g_lstTrig[i].id /\ u(i).used = TRUE
    BY ElementTypes DEF Trigs
  <2>2. g_lstTrig' = [i \in DOMAIN g_lstTrig |-> IF i \in g_lstSecTrig THEN u(i) ELSE g_lstTrig[i]]
    BY <1>2
  <2> HIDE DEF u
  <2>3. g_lstTrig \in Seq(Trigs) /\ \A k \in DOMAIN g_lstTrig : g_lstTrig[k].used \in BOOLEAN
    BY ElementTypes DEF Trigs, Inv, ConsoleTypes
  <2>4. g_lstTrig' \in Seq(Trigs) /\ DOMAIN g_lstTrig' = DOMAIN g_lstTrig
    BY <2>1, <2>2, <2>3
  <2>5. QED
    BY <2>1, <2>2, <2>3, <2>4
<1>8. UNCHANGED <<now, stamps, work, announced, simu_mac_trig, FDIR_FDIRECT>>
  BY <1>1 DEF InPass, clock, consoles, database
<1>9. ConsoleTypes' /\ Stamped'
  BY <1>7, <1>8 DEF Inv, ConsoleTypes, Stamped
<1>10. TaskStarts'
  <2>1. ASSUME NEW i \in DOMAIN g_lstTask' PROVE \E k \in DOMAIN g_lstTrig' : Starts(k, i)'
    <3>1. PICK k \in DOMAIN g_lstTrig : Starts(k, i)
      BY <1>5, <2>1 DEF Inv, PassInv, TaskStarts
    <3>2. CASE i = p
      <4>1. k \in g_lstSecTrig
        BY <1>1, <3>1, <3>2 DEF Starts
      <4>2. Starts(k, i)'
        BY <1>1, <1>4, <1>5, <1>6, <1>7, <3>1, <3>2, <4>1 DEF Starts, Locating, Writing
      <4>3. QED
        BY <1>7, <4>2
    <3>3. CASE i # p
      <4>1. g_lstTask'[i] = g_lstTask[i] /\ ~Locating(g_lstTask[i])
        BY <1>1, <1>5, <2>1, <3>3 DEF Inv, PassInv, TaskStarts, Locating
      <4>2. Starts(k, i)'
        BY <1>1, <1>6, <1>7, <3>1, <3>3, <4>1 DEF Starts, Locating, Writing
      <4>3. QED
        BY <1>7, <4>2
    <3>4. QED
      BY <3>2, <3>3
  <2>2. \A i \in DOMAIN g_lstTask : Locating(g_lstTask'[i]) => Locating(g_lstTask[i])
    BY <1>1, <1>4, <1>5 DEF Locating
  <2>3. QED
    BY <1>5, <2>1, <2>2 DEF Inv, PassInv, TaskStarts, Locating
<1>11. UNCHANGED <<clock, returns, consoles, database, mutexes>>
  BY <1>1 DEF InPass
<1>12. Node.step # "ISO" /\ g_lstSecTrig' \subseteq DOMAIN g_lstTrig
  BY <1>1 DEF Inv, PassInv, PassTypes, Node
<1>13. pass'.does = "alarms" => pass'.at = pass.at /\ g_lstTask'[pass.at].step = IF pass'.failed THEN "CALC" ELSE "GROUPED"
  BY <1>4, <1>6
<1>14. QED
  BY <1>1, <1>5, <1>6, <1>7, <1>9, <1>10, <1>11, <1>12, <1>13, NodeVisited

\* A part of the node is written, and the pass goes on with the next part.
LEMMA PartWritten ==
  ASSUME Inv, UNCHANGED <<clock, g_lstTrig, returns, consoles, g_lstTask, g_lstSecTrig, task_list_mutex>>,
         Writing, pass.does # "remove", NEW d \in {"record", "main", "sig", "least", "remove"}, Does(pass.at, d),
         FDIR_FDIRECT \subseteq FDIR_FDIRECT'
  PROVE  /\ pass' \in Passes /\ pass'.at = pass.at /\ pass'.failed = pass.failed /\ pass'.does = d
         /\ pass.at \in DOMAIN g_lstTask /\ Node.step = (IF pass.failed THEN "CALC" ELSE "GROUPED") /\ Node' = Node
         /\ Node.fault \in FaultIds /\ Node.plan \in Plans
         /\ (pass'.does = "none") = (task_list_mutex' # Pass)
         /\ ConsoleTypes' /\ StampsLeft' /\ TaskStarts' /\ UNCHANGED <<stamps, thread, answers, announced, simu_mac_trig>>
         /\ \A f, parts : Settled(f, parts) => Settled(f, parts)'
         /\ AnswersSettled'
<1>1. pass' \in Passes /\ pass'.at = pass.at /\ pass'.failed = pass.failed /\ pass'.does = d
  <2>1. pass.at \in Nat
    BY DEF Inv, PassInv, PassTypes, Passes
  <2>2. QED
    BY <2>1, PassGoes DEF Doings
<1>2. pass.at \in DOMAIN g_lstTask /\ Node.step = (IF pass.failed THEN "CALC" ELSE "GROUPED") /\ Node' = Node
  BY <1>1 DEF Inv, PassInv, PassPlace, Node
<1>3. Node.fault \in FaultIds /\ Node.plan \in Plans
  <2>1. Node \in SimTasks
    BY <1>2, ElementTypes DEF Node
  <2>2. QED
    BY <2>1 DEF SimTasks
<1>4. (pass'.does = "none") = (task_list_mutex' # Pass)
  BY <1>1 DEF Inv, PassInv, PassPlace, Writing
<1>5. ConsoleTypes' /\ StampsLeft' /\ UNCHANGED <<stamps, thread, answers, announced, simu_mac_trig>>
  BY PassLeaves DEF clock
<1>6. TaskStarts'
  BY <1>1 DEF Inv, PassInv, TaskStarts, Starts, Locating, Writing
<1>7. ASSUME NEW f, NEW parts, Settled(f, parts) PROVE Settled(f, parts)'
  BY <1>1, <1>7 DEF Settled
<1>8. AnswersSettled'
  BY <1>5, <1>7 DEF Inv, ThreadInv, AnswersSettled
<1>9. QED
  BY <1>1, <1>2, <1>3, <1>4, <1>5, <1>6, <1>7, <1>8

LEMMA WriteAlarmsKeeps == ASSUME Inv, WriteAlarms PROVE Inv'
<1> DEFINE f == Node.fault
<1>1. /\ UNCHANGED <<clock, g_lstTrig, returns, consoles, g_lstTask, g_lstSecTrig, task_list_mutex, simu_sync_mutex>>
      /\ UNCHANGED <<FDIR_FDIRECT, written, FDIR_SIG_SUMMARY, FDIR_SIG_FAULT>>
      /\ FDIR_ALARM' = [FDIR_ALARM EXCEPT ![f] = Node.trig_list]
      /\ Writing /\ pass.does = "alarms" /\ Does(pass.at, "record")
  BY DEF WriteAlarms, InPass, mutexes, Writing
<1>2. /\ pass' \in Passes /\ pass'.at = pass.at /\ pass'.failed = pass.failed /\ pass'.does = "record"
      /\ pass.at \in DOMAIN g_lstTask /\ Node.step = (IF pass.failed THEN "CALC" ELSE "GROUPED") /\ Node' = Node
      /\ f \in FaultIds /\ (pass'.does = "none") = (task_list_mutex' # Pass)
      /\ ConsoleTypes' /\ StampsLeft' /\ TaskStarts' /\ UNCHANGED <<stamps, thread, answers>>
      /\ \A x, parts : Settled(x, parts) => Settled(x, parts)'
      /\ AnswersSettled'
  BY <1>1, PartWritten
<1>3. f \notin FDIR_FDIRECT
  BY <1>1, <1>2 DEF Inv, PassInv, Recorded, Node
<1>4. Stamped'
  BY <1>1, <1>2, ConsolesKept DEF Inv
<1>5. FDIR_ALARM' \in [FaultIds -> SUBSET Alarms] /\ \A x \in FDIR_FDIRECT : FDIR_ALARM'[x] = FDIR_ALARM[x]
  <2>1. Node.trig_list \subseteq Alarms
    <3>1. Node \in SimTasks
      BY <1>2, ElementTypes DEF Node
    <3>2. QED
      BY <3>1 DEF SimTasks
  <2>2. QED
    BY <1>1, <1>3, <2>1 DEF Inv, PassInv, PassTypes
<1>6. PassTypes'
  BY <1>1, <1>2, <1>5 DEF Inv, PassInv, PassTypes
<1>7. PassPlace'
  BY <1>1, <1>2 DEF PassPlace, Writing
<1>8. Recorded'
  BY <1>1, <1>2 DEF Inv, PassInv, Recorded
<1>9. SigFaultsSettled'
  BY <1>1, <1>2 DEF Inv, PassInv, SigFaultsSettled
<1>10. ThreadTypes'
  BY <1>1, <1>2, <1>5 DEF Inv, ThreadInv, ThreadTypes, IsThread, Waits
<1>11. QED
  BY <1>2, <1>4, <1>6, <1>7, <1>8, <1>9, <1>10 DEF Inv, PassInv, ThreadInv

LEMMA WriteRecordKeeps == ASSUME Inv, WriteRecord PROVE Inv'
<1> DEFINE f == Node.fault
           d == IF pass.failed THEN "sig" ELSE "main"
<1>1. /\ UNCHANGED <<clock, g_lstTrig, returns, consoles, g_lstTask, g_lstSecTrig, task_list_mutex, simu_sync_mutex>>
      /\ UNCHANGED <<FDIR_ALARM, written, FDIR_SIG_SUMMARY, FDIR_SIG_FAULT>>
      /\ FDIR_FDIRECT' = FDIR_FDIRECT \cup {f}
      /\ Writing /\ pass.does = "record" /\ Does(pass.at, d)
  BY DEF WriteRecord, InPass, mutexes, Writing
<1>2. /\ pass' \in Passes /\ pass'.at = pass.at /\ pass'.failed = pass.failed /\ pass'.does = d
      /\ pass.at \in DOMAIN g_lstTask /\ Node.step = (IF pass.failed THEN "CALC" ELSE "GROUPED") /\ Node' = Node
      /\ f \in FaultIds /\ (pass'.does = "none") = (task_list_mutex' # Pass)
      /\ ConsoleTypes' /\ StampsLeft' /\ TaskStarts' /\ UNCHANGED <<stamps, thread, answers>>
      /\ \A x, parts : Settled(x, parts) => Settled(x, parts)'
      /\ AnswersSettled'
  BY <1>1, PartWritten
<1>3. Stamped'
  <2>1. f <= stamps
    BY <1>2, TaskStamps DEF Node
  <2>2. QED
    BY <1>1, <1>2, <2>1 DEF Inv, Stamped
<1>4. PassTypes'
  BY <1>1, <1>2 DEF Inv, PassInv, PassTypes
<1>5. PassPlace'
  <2>1. pass.failed \in BOOLEAN
    BY DEF Inv, PassInv, PassTypes, Passes
  <2>2. QED
    BY <1>1, <1>2, <2>1 DEF PassPlace, Writing
<1>6. Recorded'
  <2>1. ASSUME NEW k \in DOMAIN g_lstTrig, g_lstTrig[k].id = f PROVE g_lstTrig[k].used
    <3>1. PICK h \in DOMAIN g_lstTrig : Starts(h, pass.at)
      BY <1>2 DEF Inv, PassInv, TaskStarts
    <3>2. h = k
      BY <2>1, <3>1 DEF Starts, Node, Inv, Stamped
    <3>3. QED
      BY <1>1, <3>1, <3>2 DEF Starts
  <2>2. ASSUME NEW i \in DOMAIN g_lstTask, g_lstTask[i].fault = f PROVE i = pass.at
    BY <1>2, <2>2 DEF Inv, PassInv, TaskStarts, Node
  <2>3. QED
    BY <1>1, <1>2, <2>1, <2>2 DEF Inv, PassInv, Recorded
<1>7. SigFaultsSettled'
  BY <1>1, <1>2 DEF Inv, PassInv, SigFaultsSettled
<1>8. ThreadTypes'
  BY <1>1, <1>2 DEF Inv, ThreadInv, ThreadTypes, IsThread, Waits
<1>9. QED
  BY <1>2, <1>3, <1>4, <1>5, <1>6, <1>7, <1>8 DEF Inv, PassInv, ThreadInv

LEMMA WriteMainKeeps == ASSUME Inv, WriteMain PROVE Inv'
<1> DEFINE f == Node.fault
<1>1. /\ UNCHANGED <<clock, g_lstTrig, returns, consoles, g_lstTask, g_lstSecTrig, task_list_mutex, simu_sync_mutex>>
      /\ UNCHANGED <<FDIR_ALARM, FDIR_FDIRECT, FDIR_SIG_SUMMARY, FDIR_SIG_FAULT>>
      /\ written' = [written EXCEPT ![f] = @ \cup {"main"}]
      /\ Writing /\ pass.does = "main"
  BY DEF WriteMain, InPass, mutexes, Writing
<1>2. PICK d \in {"sig", "least"} : Does(pass.at, d)
  BY DEF WriteMain
<1>3. /\ pass' \in Passes /\ pass'.at = pass.at /\ pass'.failed = pass.failed /\ pass'.does = d
      /\ pass.at \in DOMAIN g_lstTask /\ Node.step = (IF pass.failed THEN "CALC" ELSE "GROUPED") /\ Node' = Node
      /\ f \in FaultIds /\ (pass'.does = "none") = (task_list_mutex' # Pass)
      /\ ConsoleTypes' /\ StampsLeft' /\ TaskStarts' /\ UNCHANGED <<stamps, thread, answers>>
      /\ \A x, parts : Settled(x, parts) => Settled(x, parts)'
      /\ AnswersSettled'
  BY <1>1, <1>2, PartWritten
<1>4. Stamped' /\ ThreadTypes'
  BY <1>1, <1>3, ConsolesKept, ThreadsKept DEF Inv, ThreadInv
<1>5. /\ written' \in [FaultIds -> SUBSET {"main", "least"}]
      /\ "main" \in written'[f] /\ \A x \in FaultIds : written[x] \subseteq written'[x]
  BY <1>1, <1>3 DEF Inv, PassInv, PassTypes
<1>6. PassTypes'
  BY <1>1, <1>3, <1>5 DEF Inv, PassInv, PassTypes
<1>7. PassPlace'
  BY <1>1, <1>3, <1>5 DEF Inv, PassInv, PassPlace, Writing
<1>8. Recorded'
  BY <1>1, <1>3 DEF Inv, PassInv, Recorded
<1>9. SigFaultsSettled'
  <2>1. ASSUME NEW x \in FDIR_SIG_FAULT PROVE \E parts : Settled(x[2], parts)' /\ parts \subseteq written'[x[2]]
    <3>1. PICK g, parts : g = x[2] /\ parts = written[x[2]]
      OBVIOUS
    <3>2. g \in FaultIds /\ Settled(g, parts)
      BY <3>1 DEF Inv, PassInv, PassTypes, SigFaultsSettled
    <3>3. Settled(g, parts)'
      BY <1>3, <3>2
    <3>4. QED
      BY <1>5, <3>1, <3>2, <3>3
  <2>2. QED
    BY <1>1, <2>1 DEF SigFaultsSettled, Settled
<1>10. QED
  BY <1>3, <1>4, <1>6, <1>7, <1>8, <1>9 DEF Inv, PassInv, ThreadInv

\* The fault of a plan is written after its record and, if it has been located,
\* its steps.
LEMMA WriteSigKeeps == ASSUME Inv, WriteSig PROVE Inv'
<1> DEFINE f == Node.fault
           d == IF pass.failed THEN "remove" ELSE "least"
<1>1. /\ UNCHANGED <<clock, g_lstTrig, returns, consoles, g_lstTask, g_lstSecTrig, task_list_mutex>>
      /\ UNCHANGED <<FDIR_ALARM, FDIR_FDIRECT, written, FDIR_SIG_SUMMARY>>
      /\ FDIR_SIG_FAULT' = FDIR_SIG_FAULT \cup {<<Node.plan, f>>}
      /\ simu_sync_mutex' = FALSE
      /\ Writing /\ pass.does = "sig" /\ Does(pass.at, d)
  BY DEF WriteSig, Writing
<1>2. /\ pass' \in Passes /\ pass'.at = pass.at /\ pass'.failed = pass.failed /\ pass'.does = d
      /\ pass.at \in DOMAIN g_lstTask /\ Node.step = (IF pass.failed THEN "CALC" ELSE "GROUPED") /\ Node' = Node
      /\ f \in FaultIds /\ Node.plan \in Plans /\ (pass'.does = "none") = (task_list_mutex' # Pass)
      /\ ConsoleTypes' /\ StampsLeft' /\ TaskStarts' /\ UNCHANGED <<stamps, thread, answers>>
      /\ \A x, parts : Settled(x, parts) => Settled(x, parts)'
      /\ AnswersSettled'
  BY <1>1, PartWritten
<1>3. Stamped'
  BY <1>1, <1>2, ConsolesKept DEF Inv
<1>4. PassTypes'
  <2>1. FDIR_SIG_FAULT' \subseteq Plans \X FaultIds
    <3>1. <<Node.plan, f>> \in Plans \X FaultIds
      BY <1>2
    <3>2. QED
      BY <1>1, <3>1 DEF Inv, PassInv, PassTypes
  <2>2. QED
    BY <1>1, <1>2, <2>1 DEF Inv, PassInv, PassTypes
<1>5. pass.failed \in BOOLEAN
  BY DEF Inv, PassInv, PassTypes, Passes
<1>6. PassPlace'
  BY <1>1, <1>2, <1>5 DEF Inv, PassInv, PassPlace, Writing
<1>7. Recorded'
  BY <1>1, <1>2, <1>5 DEF Inv, PassInv, Recorded
<1>8. Settled(f, written[f])'
  <2>1. f \in FDIR_FDIRECT'
    BY <1>1 DEF Inv, PassInv, Recorded
  <2>2. \E k \in DOMAIN g_lstTrig' : g_lstTrig'[k].id = f /\ g_lstTrig'[k].used
    <3>1. PICK k \in DOMAIN g_lstTrig : Starts(k, pass.at)
      BY <1>2 DEF Inv, PassInv, TaskStarts
    <3>2. QED
      BY <1>1, <3>1 DEF Starts, Node
  <2>3. CASE pass.failed
    <3>1. \A i \in DOMAIN g_lstTask : g_lstTask[i].fault = f => i = pass.at
      BY <1>2 DEF Inv, PassInv, TaskStarts, Node
    <3>2. QED
      BY <1>1, <1>2, <2>1, <2>2, <2>3, <3>1 DEF Settled
  <2>4. CASE ~pass.failed
    <3>1. "main" \in written[f]
      BY <1>1, <2>4 DEF Inv, PassInv, PassPlace
    <3>2. QED
      BY <1>1, <1>2, <2>1, <2>2, <3>1 DEF Settled
  <2>5. QED
    BY <2>3, <2>4
<1>9. SigFaultsSettled'
  <2>1. ASSUME NEW x \in FDIR_SIG_FAULT' PROVE \E parts : Settled(x[2], parts)' /\ parts = written'[x[2]]
    <3>1. CASE x \in FDIR_SIG_FAULT
      <4>1. PICK g, parts : g = x[2] /\ parts = written[x[2]]
        OBVIOUS
      <4>2. Settled(g, parts)
        BY <3>1, <4>1 DEF Inv, PassInv, SigFaultsSettled
      <4>3. Settled(g, parts)'
        BY <1>2, <4>2
      <4>4. QED
        BY <1>1, <4>1, <4>3
    <3>2. CASE x = <<Node.plan, f>>
      BY <1>1, <1>2, <1>8, <3>2 DEF Settled
    <3>3. QED
      BY <1>1, <3>1, <3>2
  <2>2. QED
    BY <2>1 DEF SigFaultsSettled, Settled
<1>10. ThreadTypes'
  BY <1>1, <1>2 DEF Inv, ThreadInv, ThreadTypes, IsThread, Waits
<1>11. QED
  BY <1>2, <1>3, <1>4, <1>6, <1>7, <1>9, <1>10 DEF Inv, PassInv, ThreadInv

LEMMA WriteLeastKeeps == ASSUME Inv, WriteLeast PROVE Inv'
<1> DEFINE f == Node.fault
           p == pass.at
<1>1. /\ UNCHANGED <<clock, g_lstTrig, returns, consoles, g_lstSecTrig, task_list_mutex, simu_sync_mutex>>
      /\ UNCHANGED <<FDIR_ALARM, FDIR_FDIRECT, FDIR_SIG_SUMMARY, FDIR_SIG_FAULT>>
      /\ written' = [written EXCEPT ![f] = @ \cup {"least"}]
      /\ g_lstTask' = [g_lstTask EXCEPT ![p].step = "ISO"] /\ Advance
      /\ Writing /\ pass.does = "least"
  BY DEF WriteLeast, InPass, mutexes, Writing, Step
<1>2. p \in DOMAIN g_lstTask /\ Node.step = "GROUPED" /\ ~pass.failed
  BY <1>1 DEF Inv, PassInv, PassPlace, PassTypes, Passes
<1>3. pass' \in Passes /\ pass'.does = "visit" /\ pass'.failed = pass.failed
  <2>1. pass.at + 1 \in Nat
    BY DEF Inv, PassInv, PassTypes, Passes
  <2>2. QED
    BY <1>1, <2>1, PassGoes DEF Advance, Doings
<1>4. /\ g_lstTask' \in Seq(SimTasks) /\ DOMAIN g_lstTask' = DOMAIN g_lstTask
      /\ g_lstTask'[p].step = "ISO"
      /\ \A j \in DOMAIN g_lstTask : g_lstTask'[j].fault = g_lstTask[j].fault
      /\ \A j \in DOMAIN g_lstTask : j # p => g_lstTask'[j] = g_lstTask[j]
  BY <1>1, <1>2, StepTaken DEF Inv, PassInv, PassTypes, Steps
<1>5. ConsoleTypes' /\ StampsLeft' /\ Stamped' /\ ThreadTypes' /\ UNCHANGED answers
  BY <1>1, PassLeaves
<1>6. /\ written' \in [FaultIds -> SUBSET {"main", "least"}]
      /\ \A x \in FaultIds : written[x] \subseteq written'[x]
  BY <1>1 DEF Inv, PassInv, PassTypes
<1>7. PassTypes'
  BY <1>1, <1>3, <1>4, <1>6 DEF Inv, PassInv, PassTypes
<1>8. PassPlace'
  BY <1>1, <1>3 DEF Inv, PassInv, PassPlace, Writing
<1>9. TaskStarts'
  <2>1. ASSUME NEW i \in DOMAIN g_lstTask PROVE \E k \in DOMAIN g_lstTrig : Starts(k, i)'
    <3>1. PICK k \in DOMAIN g_lstTrig : Starts(k, i)
      BY DEF Inv, PassInv, TaskStarts
    <3>2. CASE i = p
      BY <1>1, <1>3, <1>4, <3>1, <3>2 DEF Starts, Locating, Writing
    <3>3. CASE i # p
      BY <1>1, <1>3, <1>4, <3>1, <3>3 DEF Starts, Locating, Writing
    <3>4. QED
      BY <3>2, <3>3
  <2>2. \A i \in DOMAIN g_lstTask : Locating(g_lstTask'[i]) => Locating(g_lstTask[i])
    BY <1>4 DEF Locating
  <2>3. QED
    BY <1>1, <1>4, <2>1, <2>2 DEF Inv, PassInv, TaskStarts, Locating
<1>10. Recorded'
  BY <1>1, <1>3, <1>4 DEF Inv, PassInv, Recorded
<1>11. \A x, parts : Settled(x, parts) => Settled(x, parts)'
  BY <1>1, <1>3, <1>4 DEF Settled
<1>12. AnswersSettled'
  BY <1>5, <1>11 DEF Inv, ThreadInv, AnswersSettled
<1>13. SigFaultsSettled'
  <2>1. ASSUME NEW x \in FDIR_SIG_FAULT PROVE \E parts : Settled(x[2], parts)' /\ parts \subseteq written'[x[2]]
    <3>1. PICK g, parts : g = x[2] /\ parts = written[x[2]]
      OBVIOUS
    <3>2. g \in FaultIds /\ Settled(g, parts)
      BY <3>1 DEF Inv, PassInv, PassTypes, SigFaultsSettled
    <3>3. Settled(g, parts)'
      BY <1>11, <3>2
    <3>4. QED
      BY <1>6, <3>1, <3>2, <3>3
  <2>2. QED
    BY <1>1, <2>1 DEF SigFaultsSettled, Settled
<1>14. QED
  BY <1>5, <1>7, <1>8, <1>9, <1>10, <1>12, <1>13 DEF Inv, PassInv, ThreadInv

\* The pass has removed a node: what is left of it, and where.
LEMMA RemoveFailedKeeps == ASSUME Inv, RemoveFailed PROVE Inv'
<1> DEFINE p == pass.at
           n == Len(g_lstTask)
           old(j) == IF j < p THEN j ELSE j + 1
<1>1. /\ UNCHANGED <<clock, g_lstTrig, returns, consoles, g_lstSecTrig, database, mutexes>>
      /\ g_lstTask' = RemoveAt(g_lstTask, p) /\ Does(2, "visit")
      /\ Writing /\ pass.does = "remove"
  BY DEF RemoveFailed, InPass, Writing
<1>2. UNCHANGED <<FDIR_ALARM, FDIR_FDIRECT, written, FDIR_SIG_SUMMARY, FDIR_SIG_FAULT, task_list_mutex, simu_sync_mutex>>
  BY <1>1 DEF database, mutexes
<1>3. p \in DOMAIN g_lstTask /\ g_lstTask \in Seq(SimTasks) /\ p \in 1..n /\ n \in Nat
  BY <1>1 DEF Inv, PassInv, PassPlace, PassTypes
<1>4. pass' \in Passes /\ pass'.does = "visit"
  BY <1>1, PassGoes DEF Doings
<1>5. /\ g_lstTask' \in Seq(SimTasks)
      /\ Len(g_lstTask') = n - 1
      /\ \A j \in 1..n - 1 : g_lstTask'[j] = IF j < p THEN g_lstTask[j] ELSE g_lstTask[j + 1]
  BY <1>1, <1>3, RemoveAtProperties DEF RemoveAt
<1>6. /\ DOMAIN g_lstTask' = 1..n - 1 /\ DOMAIN g_lstTask = 1..n
      /\ \A j \in DOMAIN g_lstTask' : old(j) \in DOMAIN g_lstTask /\ old(j) # p /\ g_lstTask'[j] = g_lstTask[old(j)]
      /\ \A i, j \in DOMAIN g_lstTask' : old(i) = old(j) => i = j
  <2>1. DOMAIN g_lstTask' = 1..n - 1 /\ DOMAIN g_lstTask = 1..n
    BY <1>3, <1>5
  <2>2. ASSUME NEW j \in 1..n - 1 PROVE old(j) \in 1..n /\ old(j) # p /\ g_lstTask'[j] = g_lstTask[old(j)]
    BY <1>3, <1>5
  <2>3. \A i, j \in 1..n - 1 : old(i) = old(j) => i = j
    BY <1>3
  <2>4. QED
    BY <2>1, <2>2, <2>3
<1> HIDE DEF old
<1>7. ConsoleTypes' /\ StampsLeft' /\ Stamped' /\ ThreadTypes' /\ UNCHANGED answers
  BY <1>1, <1>2, PassLeaves
<1>8. PassTypes'
  BY <1>1, <1>2, <1>4, <1>5 DEF Inv, PassInv, PassTypes
<1>9. PassPlace'
  BY <1>1, <1>2, <1>4 DEF Inv, PassInv, PassPlace, Writing
<1>10. TaskStarts'
  <2>1. ASSUME NEW i \in DOMAIN g_lstTask' PROVE \E k \in DOMAIN g_lstTrig : Starts(k, i)'
    <3>1. PICK k \in DOMAIN g_lstTrig : Starts(k, old(i))
      BY <1>6 DEF Inv, PassInv, TaskStarts
    <3>2. Starts(k, i)'
      BY <1>1, <1>4, <1>6, <3>1 DEF Starts, Locating, Writing
    <3>3. QED
      BY <3>2
  <2>2. ASSUME NEW i \in DOMAIN g_lstTask', NEW j \in DOMAIN g_lstTask',
               \/ g_lstTask'[i].fault = g_lstTask'[j].fault
               \/ Locating(g_lstTask'[i]) /\ Locating(g_lstTask'[j])
        PROVE  i = j
    <3>1. old(i) = old(j)
      BY <1>6, <2>2 DEF Inv, PassInv, TaskStarts
    <3>2. QED
      BY <1>6, <3>1
  <2>3. QED
    BY <1>1, <2>1, <2>2 DEF TaskStarts, Locating
<1>11. Recorded'
  <2>1. ASSUME NEW i \in DOMAIN g_lstTask', g_lstTask'[i].fault \in FDIR_FDIRECT PROVE g_lstTask'[i].step = "ISO"
    BY <1>6, <2>1 DEF Inv, PassInv, Recorded
  <2>2. QED
    BY <1>1, <1>2, <1>4, <2>1 DEF Inv, PassInv, Recorded
<1>12. ASSUME NEW x, NEW parts, Settled(x, parts) PROVE Settled(x, parts)'
  <2>1. "main" \in parts \/ \A i \in DOMAIN g_lstTask' : g_lstTask'[i].fault # x
    BY <1>6, <1>12 DEF Settled
  <2>2. QED
    BY <1>1, <1>2, <1>12, <2>1 DEF Settled
<1>13. SigFaultsSettled' /\ AnswersSettled'
  BY <1>2, <1>7, <1>12 DEF Inv, PassInv, ThreadInv, SigFaultsSettled, AnswersSettled
<1>14. QED
  BY <1>7, <1>8, <1>9, <1>10, <1>11, <1>13 DEF Inv, PassInv, ThreadInv

\* The signal that starts a fault has started none before: it is not used yet,
\* and the signal of a fault that is being located is the only one.
LEMMA AlarmStartKeeps == ASSUME Inv, AlarmStart PROVE Inv'
<1> DEFINE n == Len(g_lstTask)
<1>1. /\ task_list_mutex = Free /\ \A i \in DOMAIN g_lstTask : ~Locating(g_lstTask[i])
      /\ UNCHANGED <<clock, g_lstTrig, g_lstSecTrig, pass, database, mutexes, returns, consoles>>
  BY DEF AlarmStart
<1>2. PICK h \in UnusedStarts :
        g_lstTask' = Append(g_lstTask, [fault |-> g_lstTrig[h].id, plan |-> g_lstTrig[h].plan, step |-> "SLEEP", trig_list |-> {}])
  BY DEF AlarmStart
<1> DEFINE new == [fault |-> g_lstTrig[h].id, plan |-> g_lstTrig[h].plan, step |-> "SLEEP", trig_list |-> {}]
<1>3. UNCHANGED <<FDIR_ALARM, FDIR_FDIRECT, written, FDIR_SIG_SUMMARY, FDIR_SIG_FAULT, task_list_mutex, simu_sync_mutex>>
  BY <1>1 DEF database, mutexes
<1>4. h \in DOMAIN g_lstTrig /\ ~g_lstTrig[h].used
  BY DEF UnusedStarts
<1>5. new \in SimTasks /\ new.fault = g_lstTrig[h].id /\ new.step = "SLEEP" /\ Locating(new)
  BY <1>4, ElementTypes DEF SimTasks, Trigs, Locating
<1> HIDE DEF new
<1>6. /\ g_lstTask' \in Seq(SimTasks) /\ n \in Nat /\ DOMAIN g_lstTask = 1..n /\ DOMAIN g_lstTask' = 1..n + 1
      /\ g_lstTask'[n + 1] = new /\ \A i \in 1..n : g_lstTask'[i] = g_lstTask[i]
  BY <1>2, <1>5, AppendProperties DEF Inv, PassInv, PassTypes, new
<1> HIDE DEF n
<1>7. \A i \in DOMAIN g_lstTask' : i = n + 1 \/ (i \in DOMAIN g_lstTask /\ g_lstTask'[i] = g_lstTask[i])
  BY <1>6
<1>8. pass.does = "none"
  BY <1>1 DEF Inv, PassInv, PassPlace, Free, Pass
<1>9. ASSUME NEW i \in DOMAIN g_lstTask PROVE g_lstTask[i].fault # new.fault
  <2>1. PICK k \in DOMAIN g_lstTrig : Starts(k, i)
    BY DEF Inv, PassInv, TaskStarts
  <2>2. g_lstTrig[k].used
    BY <1>1, <2>1 DEF Starts
  <2>3. g_lstTrig[k].id # g_lstTrig[h].id
    BY <1>4, <2>2 DEF Inv, Stamped
  <2>4. QED
    BY <1>5, <2>1, <2>3 DEF Starts
<1>10. new.fault \notin FDIR_FDIRECT
  BY <1>4, <1>5 DEF Inv, PassInv, Recorded
<1>11. ConsoleTypes' /\ StampsLeft' /\ Stamped' /\ ThreadTypes' /\ UNCHANGED answers
  BY <1>1, <1>3, PassLeaves
<1>12. PassTypes'
  BY <1>1, <1>3, <1>6 DEF Inv, PassInv, PassTypes
<1>13. PassPlace'
  BY <1>1, <1>3, <1>8 DEF Inv, PassInv, PassPlace, Writing
<1>14. TaskStarts'
  <2>1. ASSUME NEW i \in DOMAIN g_lstTask' PROVE \E k \in DOMAIN g_lstTrig : Starts(k, i)'
    <3>1. CASE i = n + 1
      <4>1. Starts(h, i)'
        BY <1>1, <1>4, <1>5, <1>6, <1>8, <3>1 DEF Starts, Locating, Writing
      <4>2. QED
        BY <1>4, <4>1
    <3>2. CASE i \in DOMAIN g_lstTask /\ g_lstTask'[i] = g_lstTask[i]
      <4>1. PICK k \in DOMAIN g_lstTrig : Starts(k, i)
        BY <3>2 DEF Inv, PassInv, TaskStarts
      <4>2. Starts(k, i)'
        BY <1>1, <3>2, <4>1 DEF Starts, Locating, Writing
      <4>3. QED
        BY <4>2
    <3>3. QED
      BY <1>7, <3>1, <3>2
  <2>2. \A i, j \in DOMAIN g_lstTask' : g_lstTask'[i].fault = g_lstTask'[j].fault => i = j
    BY <1>6, <1>7, <1>9 DEF Inv, PassInv, TaskStarts
  <2>3. \A i \in DOMAIN g_lstTask' : Locating(g_lstTask'[i]) => i = n + 1
    BY <1>1, <1>7
  <2>4. QED
    BY <1>1, <2>1, <2>2, <2>3 DEF TaskStarts, Locating
<1>15. Recorded'
  BY <1>1, <1>3, <1>6, <1>7, <1>8, <1>10 DEF Inv, PassInv, Recorded
<1>16. ASSUME NEW x, NEW parts, Settled(x, parts) PROVE Settled(x, parts)'
  <2>1. PICK k \in DOMAIN g_lstTrig : g_lstTrig[k].id = x /\ g_lstTrig[k].used
    BY <1>16 DEF Settled
  <2>2. new.fault # x
    BY <1>4, <1>5, <2>1 DEF Inv, Stamped
  <2>3. "main" \in parts \/ \A i \in DOMAIN g_lstTask' : g_lstTask'[i].fault = x => i = pass'.at /\ pass'.does = "remove"
    BY <1>1, <1>6, <1>7, <1>16, <2>2 DEF Settled
  <2>4. QED
    BY <1>1, <1>3, <1>16, <2>3 DEF Settled
<1>17. SigFaultsSettled' /\ AnswersSettled'
  BY <1>3, <1>11, <1>16 DEF Inv, PassInv, ThreadInv, SigFaultsSettled, AnswersSettled
<1>18. QED
  BY <1>11, <1>12, <1>13, <1>14, <1>15, <1>17 DEF Inv, PassInv, ThreadInv

-----------------------------------------------------------------------------
(* The invariant *)

LEMMA InitInv == ASSUME Init PROVE Inv
<1>1. Idle \in Works /\ Idle.op = "idle" /\ NotRun.at = "none"
  BY SimulatedAssumption DEF Idle, Works, NotRun
<1>2. IsThread(NotRun)
  BY DEF IsThread, NotRun
<1>3. now \in 0..MaxNow /\ stamps \in 0..MaxStamps /\ g_lstTrig \in Seq(Trigs) /\ g_lstTask \in Seq(SimTasks)
  BY SimulatedAssumption DEF Init
<1>4. ConsoleTypes
  BY <1>1, <1>3 DEF ConsoleTypes, Init
<1>5. StampsLeft
  <2>1. ToStamp = {}
    BY <1>1 DEF ToStamp, Init
  <2>2. IsFiniteSet({}) /\ Cardinality({}) = 0
    BY FS_EmptySet
  <2>3. QED
    BY <2>1, <2>2, SimulatedAssumption DEF StampsLeft, Reserved, Init
<1>6. Stamped
  BY DEF Stamped, Init
<1>7. PassTypes
  BY <1>3 DEF PassTypes, Init, Passes
<1>8. PassPlace /\ TaskStarts /\ Recorded /\ SigFaultsSettled /\ AnswersSettled
  BY DEF PassPlace, Writing, TaskStarts, Recorded, SigFaultsSettled, AnswersSettled, Init, Free, Pass
<1>9. ThreadTypes
  <2>1. \A t \in Threads : thread[t] = NotRun
    BY DEF Init
  <2>2. Waits(NotRun, FDIR_FDIRECT, FDIR_ALARM, FDIR_SIG_FAULT)
    BY <1>1 DEF Waits
  <2>3. thread = [t \in Threads |-> thread[t]] /\ answers \subseteq AnswerRecords
    BY DEF Init
  <2>4. QED
    BY <1>2, <2>1, <2>2, <2>3 DEF ThreadTypes
<1>10. QED
  BY <1>4, <1>5, <1>6, <1>7, <1>8, <1>9 DEF Inv, PassInv, ThreadInv

LEMMA NextInv == ASSUME Inv, [Next]_vars PROVE Inv'
<1>1. CASE Tick \/ StudyFault \/ AlarmStart
  BY <1>1, TickKeeps, StudyFaultKeeps, AlarmStartKeeps
<1>2. CASE LockTasks \/ LockSimu \/ EndPass
  BY <1>2, LocksKeep
<1>3. CASE Visit
  BY <1>3, VisitSleepKeeps, VisitCalcKeeps, VisitCalcIsoKeeps, VisitGroupedKeeps, VisitIsoKeeps DEF Visit
<1>4. CASE Write
  BY <1>4, WriteAlarmsKeeps, WriteRecordKeeps, WriteMainKeeps, WriteSigKeeps, WriteLeastKeeps, RemoveFailedKeeps DEF Write
<1>5. ASSUME NEW c \in Consoles, Connect(c) \/ Disconnect(c) \/ Ask(c) \/ Handle(c) \/ CheckRecord(c)
      PROVE  Inv'
  <2>1. CASE Connect(c) \/ Disconnect(c) \/ CheckRecord(c)
    BY <2>1, ConnectKeeps, DisconnectKeeps, CheckRecordKeeps
  <2>2. CASE Ask(c)
    BY <2>2, SaveKeeps, PreexecKeepsInv, ExecKeeps, CheckKeeps DEF Ask
  <2>3. CASE Handle(c)
    BY <2>3, AnnounceKeeps, ExecSignalKeeps, CheckSimuDataKeeps DEF Handle
  <2>4. QED
    BY <1>5, <2>1, <2>2, <2>3
<1>6. ASSUME NEW t \in Threads, Enter(t) \/ Return(t)
      PROVE  Inv'
  BY <1>6, EnterKeeps, ReadLatestKeeps, ReadAlarmsKeeps, MatchKeeps, AnswerKeeps, ExitKeeps, LeaveKeeps DEF Return
<1>7. CASE UNCHANGED vars
  <2>1. UNCHANGED <<now, stamps, g_lstTrig, g_lstTask, g_lstSecTrig, pass, FDIR_ALARM, FDIR_FDIRECT, written, FDIR_SIG_SUMMARY,
                    FDIR_SIG_FAULT, database, task_list_mutex, simu_sync_mutex, thread, answers, work, announced, simu_mac_trig>>
    BY <1>7 DEF vars, clock, tasks, database, mutexes, returns, consoles
  <2>2. QED
    BY <2>1, ConsolesKept, PassKept, ThreadsKept DEF Inv, PassInv, ThreadInv
<1>8. QED
  BY <1>1, <1>2, <1>3, <1>4, <1>5, <1>6, <1>7 DEF Next

LEMMA Invariant == Spec => []Inv
<1>1. Init => Inv
  BY InitInv
<1>2. Inv /\ [Next]_vars => Inv'
  BY NextInv
<1>3. QED
  BY <1>1, <1>2, PTL DEF Spec

\* Every value the server, the database and the history of the consoles hold
\* is one the code can put there; the pass is at a node it writes, of the step
\* the code has there, and it holds task_list_mutex for all of its way.
THEOREM TypeCorrect == Spec => []TypeOK
<1>1. Inv => TypeOK
  <2> SUFFICES ASSUME Inv PROVE TypeOK
    OBVIOUS
  <2>1. \A i \in DOMAIN g_lstTask : g_lstTask[i].fault \in FaultIds /\ g_lstTask[i].plan \in Plans /\ g_lstTask[i].trig_list \subseteq Alarms
    BY ElementTypes DEF SimTasks
  <2>2. \A i \in DOMAIN g_lstTrig : g_lstTrig[i] \in [id : FaultIds, key : Raised, sec : 0..MaxNow, plan : Plans, used : BOOLEAN]
    BY ElementTypes DEF Trigs
  <2>3. pass.does \notin {"none", "lock", "visit"} => pass.at \in DOMAIN g_lstTask /\ Node.step \in {"CALC", "GROUPED"}
    BY DEF Inv, PassInv, PassPlace, Writing
  <2>4. QED
    BY <2>1, <2>2, <2>3 DEF TypeOK, Inv, ConsoleTypes, PassInv, PassTypes, PassPlace
<1>2. QED
  BY <1>1, Invariant, PTL

\* An answer names a fault whose record is written and, unless it could not be
\* located, all the steps of its plan: whoever has unlocked simu_sync_mutex in
\* the middle of the pass, the record and the steps come before the pair of the
\* plan and its fault that Match looks for.
THEOREM AnswersWhole == Spec => []AnswerWhole
<1>1. Inv => AnswerWhole
  <2> SUFFICES ASSUME Inv, NEW a \in answers
               PROVE  /\ a.fault \in FDIR_FDIRECT
                      /\ "main" \in a.carries \/ \A i \in DOMAIN g_lstTask : g_lstTask[i].fault = a.fault => g_lstTask[i].step = "CALC"
    BY DEF AnswerWhole
  <2>1. Settled(a.fault, a.carries)
    BY DEF Inv, ThreadInv, AnswersSettled
  <2>2. pass.does = "remove" => Node.step = "CALC"
    BY DEF Inv, PassInv, PassPlace, Writing
  <2>3. QED
    BY <2>1, <2>2 DEF Settled, Node
<1>2. QED
  BY <1>1, Invariant, PTL

-----------------------------------------------------------------------------
(* simu_sync_mutex *)

AtRest == {"none", "sleep", "ended"}

LEMMA StaysLocked ==
  ASSUME MutexReleased, UNCHANGED <<simu_sync_mutex, thread>>,
         pass.does \notin {"none", "lock"} => pass'.does \notin {"none", "lock"}
  PROVE  MutexReleased'
BY DEF MutexReleased

LEMMA AtWork ==
  ASSUME Inv, NEW t \in Threads, NEW r, thread' = [thread EXCEPT ![t] = r], r.at \notin AtRest
  PROVE  MutexReleased'
<1>1. thread'[t] = r
  BY DEF Inv, ThreadInv, ThreadTypes
<1>2. QED
  BY <1>1 DEF MutexReleased, AtRest

LEMMA MutexStep == ASSUME Inv, MutexReleased, [Next]_vars PROVE MutexReleased'
<1>1. CASE UNCHANGED <<simu_sync_mutex, thread, pass>>
  BY <1>1, StaysLocked
<1>2. CASE Tick \/ StudyFault \/ AlarmStart \/ UNCHANGED vars
  BY <1>1, <1>2 DEF Tick, StudyFault, AlarmStart, vars, mutexes, returns, tasks
<1>3. CASE LockTasks
  <2>1. UNCHANGED <<simu_sync_mutex, thread>> /\ pass.does = "none"
    BY <1>3 DEF LockTasks, returns
  <2>2. QED
    BY <2>1, StaysLocked
<1>4. CASE LockSimu
  <2>1. pass'.does = "visit"
    BY <1>4, PassGoes DEF LockSimu, Doings
  <2>2. QED
    BY <2>1 DEF MutexReleased
<1>5. CASE EndPass \/ WriteSig
  BY <1>5 DEF EndPass, WriteSig, MutexReleased
<1>6. CASE Visit \/ (Write /\ ~WriteSig)
  <2>1. UNCHANGED <<simu_sync_mutex, thread>>
    BY <1>6 DEF Visit, VisitSleep, VisitCalc, VisitCalcIso, VisitGrouped, VisitIso, Write, WriteAlarms, WriteRecord,
                WriteMain, WriteLeast, RemoveFailed, InPass, mutexes, returns
  <2>2. pass.at \in Nat /\ pass.at + 1 \in Nat /\ 2 \in Nat /\ pass \in Passes
    BY DEF Inv, PassInv, PassTypes, Passes
  <2>3. pass'.does \notin {"none", "lock"}
    <3>1. CASE VisitCalc \/ VisitGrouped
      <4>1. CASE Advance
        BY <2>2, <4>1, PassGoes DEF Advance, Doings
      <4>2. CASE pass' = [pass EXCEPT !.does = "alarms", !.failed = TRUE] \/ pass' = [pass EXCEPT !.does = "alarms", !.failed = FALSE]
        BY <2>2, <4>2 DEF Passes
      <4>3. QED
        BY <3>1, <4>1, <4>2 DEF VisitCalc, VisitGrouped
    <3>2. CASE VisitSleep \/ VisitCalcIso \/ VisitIso \/ WriteLeast
      <4>1. Advance
        BY <3>2 DEF VisitSleep, VisitCalcIso, VisitIso, WriteLeast
      <4>2. QED
        BY <2>2, <4>1, PassGoes DEF Advance, Doings
    <3>3. CASE RemoveFailed
      BY <2>2, <3>3, PassGoes DEF RemoveFailed, Doings
    <3>4. CASE WriteAlarms \/ WriteRecord \/ WriteMain
      <4>1. PICK d \in {"record", "main", "sig", "least"} : Does(pass.at, d)
        BY <3>4 DEF WriteAlarms, WriteRecord, WriteMain
      <4>2. QED
        BY <2>2, <4>1, PassGoes DEF Doings
    <3>5. QED
      BY <1>6, <3>1, <3>2, <3>3, <3>4 DEF Visit, Write
  <2>4. QED
    BY <2>1, <2>3, StaysLocked
<1>7. ASSUME NEW c \in Consoles, Connect(c) PROVE MutexReleased'
  <2>1. UNCHANGED <<simu_sync_mutex, pass>>
    BY <1>7 DEF Connect, tasks, mutexes
  <2>2. PICK t, r : t \in Threads /\ thread[t].at = "none" /\ thread' = [thread EXCEPT ![t] = r]
    BY <1>7 DEF Connect
  <2>3. \A u \in Threads : thread[u].at \notin AtRest => thread'[u] = thread[u]
    BY <2>2 DEF Inv, ThreadInv, ThreadTypes, AtRest
  <2>4. QED
    BY <2>1, <2>3 DEF MutexReleased, AtRest
<1>8. ASSUME NEW c \in Consoles, Disconnect(c) \/ Ask(c) \/ Handle(c) \/ CheckRecord(c) PROVE MutexReleased'
  <2>1. UNCHANGED <<simu_sync_mutex, thread, pass>>
    BY <1>8 DEF Disconnect, Ask, Save, Preexec, Exec, Check, Handle, Announce, ExecSignal, Check_Simu_Data, CheckRecord,
                tasks, mutexes, returns
  <2>2. QED
    BY <1>1, <2>1
<1>9. ASSUME NEW t \in Threads, Enter(t) \/ Return(t) PROVE MutexReleased'
  <2>1. CASE Exit(t) \/ Leave(t)
    BY <2>1 DEF Exit, Leave, MutexReleased
  <2>2. CASE \E at \in {"in", "clear", "leave"} : Goes(t, at)
    <3>1. PICK at \in {"in", "clear", "leave"} : Goes(t, at)
      BY <2>2
    <3> DEFINE r == [thread[t] EXCEPT !.at = at]
    <3>2. thread' = [thread EXCEPT ![t] = r] /\ r.at = at
      BY <3>1, PlaceTaken
    <3> HIDE DEF r
    <3>3. QED
      BY <3>2, AtWork DEF AtRest
  <2>3. CASE \E x : \/ thread' = [thread EXCEPT ![t] = WithFault(thread[t], "alarms", x)]
                    \/ thread' = [thread EXCEPT ![t] = WithTrigs(thread[t], "match", x)]
                    \/ thread' = [thread EXCEPT ![t] = WithAnswer(thread[t], "answer", x)]
    <3>1. PICK x : \/ thread' = [thread EXCEPT ![t] = WithFault(thread[t], "alarms", x)]
                   \/ thread' = [thread EXCEPT ![t] = WithTrigs(thread[t], "match", x)]
                   \/ thread' = [thread EXCEPT ![t] = WithAnswer(thread[t], "answer", x)]
      BY <2>3
    <3>2. IsThread(thread[t])
      BY DEF Inv, ThreadInv, ThreadTypes
    <3>3. /\ WithFault(thread[t], "alarms", x).at = "alarms"
          /\ WithTrigs(thread[t], "match", x).at = "match"
          /\ WithAnswer(thread[t], "answer", x).at = "answer"
      BY <3>2, ThreadFields
    <3>4. QED
      BY <3>1, <3>3, AtWork DEF AtRest
  <2>4. ReadLatest(t) => thread' = [thread EXCEPT ![t] = WithFault(thread[t], "alarms", Latest)] \/ Goes(t, "leave")
    BY DEF ReadLatest, WithFault, Inv, ThreadInv, ThreadTypes
  <2>5. ReadAlarms(t) => \E x : thread' = [thread EXCEPT ![t] = WithTrigs(thread[t], "match", x)]
    BY DEF ReadAlarms, WithTrigs, Inv, ThreadInv, ThreadTypes
  <2>6. Match(t) => Goes(t, "leave") \/ \E x : thread' = [thread EXCEPT ![t] = WithAnswer(thread[t], "answer", x)]
    BY MatchParts
  <2>7. (Enter(t) => Goes(t, "in")) /\ (Answer(t) => Goes(t, "clear"))
    BY DEF Enter, Answer
  <2>8. QED
    BY <1>9, <2>1, <2>2, <2>3, <2>4, <2>5, <2>6, <2>7 DEF Return
<1>10. QED
  BY <1>2, <1>3, <1>4, <1>5, <1>6, <1>7, <1>8, <1>9 DEF Next, Write

\* simu_sync_mutex is locked only while the pass is between its two locks and
\* its end, or a thread of a connection is on its way: no way out of the
\* handlers leaves it locked behind a thread that sleeps or has ended, whoever
\* unlocked it in between.
THEOREM MutexAlwaysReleased == Spec => []MutexReleased
<1>1. Init => MutexReleased
  BY DEF Init, MutexReleased
<1>2. Inv /\ MutexReleased /\ [Next]_vars => MutexReleased'
  BY MutexStep
<1>3. QED
  BY <1>1, <1>2, Invariant, PTL DEF Spec

-----------------------------------------------------------------------------
(* What is announced and struck off *)

\* The signals of faults written stay written: those of a fault are written
\* before its record, and are not written again.
LEMMA WrittenStays == ASSUME Inv, [Next]_vars PROVE AllWritten \subseteq AllWritten'
<1>1. CASE \A f \in FDIR_FDIRECT : f \in FDIR_FDIRECT' /\ FDIR_ALARM'[f] = FDIR_ALARM[f]
  BY <1>1 DEF AllWritten
<1>2. CASE UNCHANGED <<FDIR_ALARM, FDIR_FDIRECT>>
  BY <1>2 DEF AllWritten
<1>3. CASE WriteAlarms
  <2>1. Node.fault \notin FDIR_FDIRECT /\ UNCHANGED FDIR_FDIRECT
    BY <1>3 DEF WriteAlarms, Writing, Inv, PassInv, PassPlace, PassTypes, Passes, Recorded, Node
  <2>2. \A f \in FDIR_FDIRECT : FDIR_ALARM'[f] = FDIR_ALARM[f]
    BY <1>3, <2>1 DEF WriteAlarms, Inv, PassInv, PassTypes
  <2>3. QED
    BY <1>1, <2>1, <2>2
<1>4. CASE WriteRecord \/ StudyFault
  <2>1. UNCHANGED FDIR_ALARM /\ FDIR_FDIRECT \subseteq FDIR_FDIRECT'
    BY <1>4 DEF WriteRecord, StudyFault
  <2>2. QED
    BY <1>1, <2>1
<1>5. CASE Tick \/ AlarmStart \/ LockTasks \/ LockSimu \/ EndPass \/ Visit \/ WriteMain \/ WriteSig \/ WriteLeast \/ RemoveFailed
           \/ UNCHANGED vars
  BY <1>2, <1>5 DEF Tick, AlarmStart, LockTasks, LockSimu, EndPass, Visit, VisitSleep, VisitCalc, VisitCalcIso, VisitGrouped,
                    VisitIso, WriteMain, WriteSig, WriteLeast, RemoveFailed, vars, database
<1>6. ASSUME NEW c \in Consoles, Connect(c) \/ Disconnect(c) \/ Ask(c) \/ Handle(c) \/ CheckRecord(c)
      PROVE  AllWritten \subseteq AllWritten'
  BY <1>2, <1>6 DEF Connect, Disconnect, Ask, Save, Preexec, Exec, Check, Handle, Announce, ExecSignal, Check_Simu_Data,
                    CheckRecord, database
<1>7. ASSUME NEW t \in Threads, Enter(t) \/ Return(t) PROVE AllWritten \subseteq AllWritten'
  BY <1>2, <1>7 DEF Enter, Return, ReadLatest, ReadAlarms, Match, Answer, Exit, Leave, database
<1>8. QED
  BY <1>3, <1>4, <1>5, <1>6, <1>7 DEF Next, Write

\* A thread that is not sent to answer, and a step of anyone else.
LEMMA StillStruckOff ==
  ASSUME Inv, StruckOff, AllWritten \subseteq AllWritten', UNCHANGED <<announced, simu_mac_trig, answers>>,
         \A u \in Threads : thread'[u].at = "answer" => thread'[u] = thread[u]
  PROVE  StruckOff'
BY DEF StruckOff

LEMMA PreexecStrikes ==
  ASSUME Inv, OneConsole, StruckOff, AllWritten \subseteq AllWritten', NEW c \in Consoles, Preexec(c)
  PROVE  StruckOff'
<1>1. announced' = [announced EXCEPT ![c] = {}] /\ simu_mac_trig' = <<>> /\ UNCHANGED <<thread, answers>>
  BY DEF Preexec, returns
<1>2. \A d \in Consoles : announced'[d] = {} /\ d \notin DOMAIN simu_mac_trig'
  BY <1>1 DEF OneConsole, Inv, ConsoleTypes
<1>3. QED
  BY <1>1, <1>2 DEF StruckOff

LEMMA AnnounceStrikes ==
  ASSUME Inv, OneConsole, StruckOff, AllWritten \subseteq AllWritten', NEW c \in Consoles, Announce(c)
  PROVE  StruckOff'
<1> DEFINE sig == [key |-> Head(work[c].todo), sec |-> now]
           noted == IF c \in DOMAIN simu_mac_trig THEN simu_mac_trig[c] ELSE {}
<1>1. /\ simu_mac_trig' = [m \in DOMAIN simu_mac_trig \cup {c} |-> IF m = c THEN noted \cup {sig} ELSE simu_mac_trig[m]]
      /\ announced' = [announced EXCEPT ![c] = @ \cup {sig}] /\ UNCHANGED <<thread, answers>>
  BY DEF Announce, returns
<1>2. announced[c] \ noted \subseteq AllWritten
  BY DEF StruckOff
<1> HIDE DEF sig, noted
<1>3. c \in DOMAIN simu_mac_trig' /\ simu_mac_trig'[c] = noted \cup {sig} /\ announced'[c] = announced[c] \cup {sig}
  BY <1>1 DEF Inv, ConsoleTypes
<1>4. announced'[c] \ simu_mac_trig'[c] \subseteq AllWritten'
  BY <1>2, <1>3
<1>5. \A d \in Consoles : d = c
  BY DEF OneConsole
<1>6. QED
  BY <1>1, <1>3, <1>4, <1>5 DEF StruckOff

\* The signals struck off are those of a fault that has been written.
LEMMA MatchStrikes ==
  ASSUME Inv, StruckOff, AllWritten \subseteq AllWritten', NEW t \in Threads, Match(t)
  PROVE  StruckOff'
<1> DEFINE f == thread[t].fault
<1>1. UNCHANGED <<announced, answers, FDIR_ALARM, FDIR_FDIRECT>>
  BY DEF Match, InReturn, database
<1>2. \A d \in Consoles : IF d \in DOMAIN simu_mac_trig' THEN announced[d] \ simu_mac_trig'[d] \subseteq AllWritten ELSE announced[d] = {}
  <2>1. CASE UNCHANGED simu_mac_trig
    BY <2>1 DEF StruckOff
  <2>2. CASE \E m \in DOMAIN simu_mac_trig :
               /\ f \in FDIR_FDIRECT
               /\ simu_mac_trig' = [simu_mac_trig EXCEPT ![m] = simu_mac_trig[m] \ FDIR_ALARM[f]]
    <3>1. PICK m \in DOMAIN simu_mac_trig :
                 /\ f \in FDIR_FDIRECT
                 /\ simu_mac_trig' = [simu_mac_trig EXCEPT ![m] = simu_mac_trig[m] \ FDIR_ALARM[f]]
      BY <2>2
    <3>2. FDIR_ALARM[f] \subseteq AllWritten
      BY <3>1 DEF AllWritten
    <3>3. /\ DOMAIN simu_mac_trig' = DOMAIN simu_mac_trig
          /\ \A d \in DOMAIN simu_mac_trig : simu_mac_trig[d] \subseteq simu_mac_trig'[d] \cup FDIR_ALARM[f]
      BY <3>1
    <3>4. QED
      BY <3>2, <3>3 DEF StruckOff
  <2>3. QED
    BY <2>1, <2>2, MatchParts
<1>3. ASSUME NEW u \in Threads, thread'[u].at = "answer" PROVE thread'[u].answer.asked \subseteq AllWritten
  <2>1. CASE Goes(t, "leave")
    <3> DEFINE r == [thread[t] EXCEPT !.at = "leave"]
    <3>1. thread' = [thread EXCEPT ![t] = r] /\ r.at = "leave"
      BY <2>1, PlaceTaken
    <3> HIDE DEF r
    <3>2. thread'[u] = IF u # t THEN thread[u] ELSE r
      BY <3>1 DEF Inv, ThreadInv, ThreadTypes
    <3>3. QED
      BY <1>3, <3>1, <3>2 DEF StruckOff
  <2>2. CASE ~Goes(t, "leave")
    <3>1. PICK m \in DOMAIN simu_mac_trig, p \in Plans :
            /\ f \in FDIR_FDIRECT
            /\ simu_mac_trig[m] \ FDIR_ALARM[f] = {}
            /\ thread' = [thread EXCEPT ![t] = WithAnswer(thread[t], "answer",
                 [machine |-> m, fault |-> f, plan |-> p, asked |-> announced[m], carries |-> {}])]
      BY <2>2, MatchParts
    <3> DEFINE a == [machine |-> m, fault |-> f, plan |-> p, asked |-> announced[m], carries |-> {}]
               r == WithAnswer(thread[t], "answer", a)
    <3>2. a.asked = announced[m]
      OBVIOUS
    <3> HIDE DEF a
    <3>3. thread' = [thread EXCEPT ![t] = r]
      BY <3>1 DEF a
    <3>4. r.answer = a
      <4>1. IsThread(thread[t])
        BY DEF Inv, ThreadInv, ThreadTypes
      <4>2. QED
        BY <4>1, ThreadFields
    <3> HIDE DEF r
    <3>5. FDIR_ALARM[f] \subseteq AllWritten
      BY <3>1 DEF AllWritten
    <3>6. announced[m] \subseteq AllWritten
      <4>1. m \in Consoles
        BY DEF Inv, ConsoleTypes
      <4>2. announced[m] \ simu_mac_trig[m] \subseteq AllWritten
        BY <4>1 DEF StruckOff
      <4>3. QED
        BY <3>1, <3>5, <4>2
    <3>7. thread'[u] = IF u # t THEN thread[u] ELSE r
      BY <3>3 DEF Inv, ThreadInv, ThreadTypes
    <3>8. QED
      BY <1>3, <3>2, <3>4, <3>6, <3>7 DEF StruckOff
  <2>3. QED
    BY <2>1, <2>2
<1>4. QED
  BY <1>1, <1>2, <1>3 DEF StruckOff

LEMMA AnswerStrikes ==
  ASSUME Inv, StruckOff, AllWritten \subseteq AllWritten', NEW t \in Threads, Answer(t)
  PROVE  StruckOff'
<1> DEFINE a == thread[t].answer
           b == [a EXCEPT !.carries = written[thread[t].fault]]
           r == [thread[t] EXCEPT !.at = "clear"]
<1>1. /\ At(t, "answer") /\ UNCHANGED <<announced, simu_mac_trig>>
      /\ answers' = answers \cup {b} /\ Goes(t, "clear")
  BY DEF Answer, InReturn
<1>2. a \in AnswerRecords
  <2>1. thread[t].at = "answer" /\ Waits(thread[t], FDIR_FDIRECT, FDIR_ALARM, FDIR_SIG_FAULT)
    BY <1>1 DEF At, Inv, ThreadInv, ThreadTypes
  <2>2. QED
    BY <2>1 DEF Waits
<1>3. b.asked = a.asked
  BY <1>2 DEF AnswerRecords
<1> HIDE DEF b
<1>4. a.asked \subseteq AllWritten
  BY <1>1 DEF At, StruckOff
<1>5. thread' = [thread EXCEPT ![t] = r] /\ r.at = "clear"
  BY <1>1, PlaceTaken
<1> HIDE DEF r
<1>6. \A u \in Threads : thread'[u] = IF u # t THEN thread[u] ELSE r
  BY <1>5 DEF Inv, ThreadInv, ThreadTypes
<1>7. \A u \in Threads : thread'[u].at = "answer" => thread'[u].answer.asked \subseteq AllWritten
  BY <1>5, <1>6 DEF StruckOff
<1>8. \A x \in answers' : x.asked \subseteq AllWritten
  BY <1>1, <1>3, <1>4 DEF StruckOff
<1>9. QED
  BY <1>1, <1>7, <1>8 DEF StruckOff

LEMMA StruckOffStep == ASSUME Inv, OneConsole, StruckOff, [Next]_vars PROVE StruckOff'
<1>1. AllWritten \subseteq AllWritten'
  BY WrittenStays
<1>2. CASE UNCHANGED <<announced, simu_mac_trig, answers, thread>>
  BY <1>1, <1>2, StillStruckOff
<1>3. CASE Tick \/ StudyFault \/ AlarmStart \/ LockTasks \/ LockSimu \/ EndPass \/ UNCHANGED vars
  BY <1>2, <1>3 DEF Tick, StudyFault, AlarmStart, LockTasks, LockSimu, EndPass, vars, consoles, returns
<1>4. CASE Visit \/ Write
  BY <1>2, <1>4 DEF Visit, VisitSleep, VisitCalc, VisitCalcIso, VisitGrouped, VisitIso, Write, WriteAlarms, WriteRecord,
                    WriteMain, WriteSig, WriteLeast, RemoveFailed, InPass, consoles, returns
<1>5. ASSUME NEW c \in Consoles, Connect(c) PROVE StruckOff'
  <2>1. UNCHANGED <<announced, simu_mac_trig, answers>>
    BY <1>5 DEF Connect, consoles
  <2>2. PICK t, s : t \in Threads /\ thread' = [thread EXCEPT ![t] = [NotRun EXCEPT !.at = "sleep", !.fd = s]]
    BY <1>5 DEF Connect
  <2> DEFINE r == [NotRun EXCEPT !.at = "sleep", !.fd = s]
  <2>3. r.at = "sleep"
    BY ThreadAtRest
  <2> HIDE DEF r
  <2>4. thread' = [thread EXCEPT ![t] = r]
    BY <2>2 DEF r
  <2>5. \A u \in Threads : thread'[u].at = "answer" => thread'[u] = thread[u]
    BY <2>3, <2>4 DEF Inv, ThreadInv, ThreadTypes
  <2>6. QED
    BY <1>1, <2>1, <2>5, StillStruckOff
<1>6. ASSUME NEW c \in Consoles, Disconnect(c) \/ Ask(c) \/ Handle(c) \/ CheckRecord(c) PROVE StruckOff'
  <2>1. CASE Preexec(c)
    BY <1>1, <2>1, PreexecStrikes
  <2>2. CASE Announce(c)
    BY <1>1, <2>2, AnnounceStrikes
  <2>3. CASE Disconnect(c) \/ Save(c) \/ Exec(c) \/ Check(c) \/ ExecSignal(c) \/ Check_Simu_Data(c) \/ CheckRecord(c)
    BY <1>2, <2>3 DEF Disconnect, Save, Exec, Check, ExecSignal, Check_Simu_Data, CheckRecord, consoles, returns
  <2>4. QED
    BY <1>6, <2>1, <2>2, <2>3 DEF Ask, Handle
<1>7. ASSUME NEW t \in Threads, Enter(t) \/ Return(t) PROVE StruckOff'
  <2>1. CASE Match(t)
    BY <1>1, <2>1, MatchStrikes
  <2>2. CASE Answer(t)
    BY <1>1, <2>2, AnswerStrikes
  <2>3. CASE Enter(t) \/ ReadLatest(t) \/ ReadAlarms(t) \/ Exit(t) \/ Leave(t)
    <3>1. UNCHANGED <<announced, simu_mac_trig, answers>>
      BY <2>3 DEF Enter, ReadLatest, ReadAlarms, Exit, Leave, InReturn
    <3>2. PICK r : thread' = [thread EXCEPT ![t] = r] /\ r.at # "answer"
      <4>1. CASE \E at \in {"in", "leave"} : Goes(t, at)
        <5>1. PICK at \in {"in", "leave"} : Goes(t, at)
          BY <4>1
        <5>2. LET r == [thread[t] EXCEPT !.at = at] IN thread' = [thread EXCEPT ![t] = r] /\ r.at = at
          BY <5>1, PlaceTaken
        <5>3. QED
          BY <5>2
      <4>2. CASE ReadLatest(t) /\ ~Goes(t, "leave")
        <5>1. thread' = [thread EXCEPT ![t] = WithFault(thread[t], "alarms", Latest)]
          BY <4>2 DEF ReadLatest, WithFault, Inv, ThreadInv, ThreadTypes
        <5>2. WithFault(thread[t], "alarms", Latest).at = "alarms"
          BY ThreadFields DEF Inv, ThreadInv, ThreadTypes
        <5>3. QED
          BY <5>1, <5>2
      <4>3. CASE ReadAlarms(t)
        <5> DEFINE x == IF thread[t].fault = NoFault THEN {} ELSE FDIR_ALARM[thread[t].fault]
        <5>1. thread' = [thread EXCEPT ![t] = WithTrigs(thread[t], "match", x)]
          BY <4>3 DEF ReadAlarms, WithTrigs, Inv, ThreadInv, ThreadTypes
        <5>2. WithTrigs(thread[t], "match", x).at = "match"
          BY ThreadFields DEF Inv, ThreadInv, ThreadTypes
        <5>3. QED
          BY <5>1, <5>2
      <4>4. CASE Exit(t) \/ Leave(t)
        <5>1. CASE Exit(t)
          <6>1. thread' = [thread EXCEPT ![t] = [NotRun EXCEPT !.at = "ended"]] /\ [NotRun EXCEPT !.at = "ended"].at = "ended"
            BY <5>1 DEF Exit, NotRun
          <6>2. QED
            BY <6>1
        <5>2. CASE Leave(t)
          <6> DEFINE r == [NotRun EXCEPT !.at = "sleep", !.fd = thread[t].fd]
          <6>1. thread' = [thread EXCEPT ![t] = r]
            BY <5>2 DEF Leave
          <6>2. r.at = "sleep"
            BY ThreadAtRest
          <6> HIDE DEF r
          <6>3. QED
            BY <6>1, <6>2
        <5>3. QED
          BY <4>4, <5>1, <5>2
      <4>5. QED
        BY <2>3, <4>1, <4>2, <4>3, <4>4 DEF Enter
    <3>3. \A u \in Threads : thread'[u].at = "answer" => thread'[u] = thread[u]
      BY <3>2 DEF Inv, ThreadInv, ThreadTypes
    <3>4. QED
      BY <1>1, <3>1, <3>3, StillStruckOff
  <2>4. QED
    BY <1>7, <2>1, <2>2, <2>3 DEF Return
<1>8. QED
  BY <1>3, <1>4, <1>5, <1>6, <1>7 DEF Next

\* With one console, each signal of an announcement that has been answered is
\* among those of a fault that has been written, and at the second it was
\* announced: the list struck off is the one announced, since there is no
\* other machine for the map's first to be taken for, and none to clear it.
THEOREM AnswersOnlyWritten == ASSUME OneConsole PROVE Spec => []AnswerSignalsWritten
<1>1. Init => StruckOff
  <2>1. NotRun.at = "none"
    BY DEF NotRun
  <2>2. QED
    BY <2>1 DEF Init, StruckOff
<1>2. Inv /\ StruckOff /\ [Next]_vars => StruckOff'
  BY StruckOffStep
<1>3. StruckOff => AnswerSignalsWritten
  BY DEF StruckOff, AnswerSignalsWritten, AllWritten
<1>4. QED
  BY <1>1, <1>2, <1>3, Invariant, PTL DEF Spec
=============================================================================
