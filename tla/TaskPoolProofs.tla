--------------------------- MODULE TaskPoolProofs ---------------------------
(***************************************************************************)
(* The task list and the pool of processors, for every number of them, of  *)
(* consoles and of faults: what holds in every state of TaskPool.          *)
(***************************************************************************)
EXTENDS TaskPool, TaskListProofs, SequenceTheorems

Nodes == [type : {"FAULT", "CONTROL"}, fault : 0..MaxStart, group : 0..MaxStart,
          step : {"none", "CALC", "CALC_ISO", "GROUPED", "ISO", "PROCESS"},
          bAuto : BOOLEAN, status : {0, 1}, fdir_r : 0..MAX_FAULT, of : 0..MaxStart]

Calls == [op : {"idle", "alarm", "auto", "step", "stop", "study", "wait"}, group : 0..MaxStart,
          todo : Seq(Faults), proc : {NoProc, Pushed} \cup Processors, released : -1..MaxStart]

Positions(ts) == {i \in DOMAIN ts : IsFault(ts[i])}

\* A fault task has a fault and a processor, a control task has neither.
NodesWhole(ts) ==
  \A i \in DOMAIN ts :
    IF IsFault(ts[i]) THEN ts[i].fault \in Faults /\ ts[i].fdir_r \in Processors
    ELSE ts[i].fault = 0 /\ ts[i].fdir_r = NoProc /\ ts[i].step \notin {"CALC", "CALC_ISO"}

TypesHold ==
  /\ g_lstTask \in Seq(Nodes)
  /\ NodesWhole(g_lstTask)
  /\ unlinked \in SUBSET [group : 0..MaxStart, fdir_r : Processors]
  /\ map_idle_fdir_r \in [Processors -> BOOLEAN]
  /\ started \in 0..MaxStart
  /\ group_of \in [Faults -> 0..MaxStart]
  /\ archived \in [Faults -> {"no", "STOP", "FINISH"}]
  /\ work \in [Adders -> Calls]
  /\ study \in [Consoles -> [wait : SUBSET Faults, drop : SUBSET Faults]]
  /\ task_list_mutex \in {"none", "pass"} \cup Consoles

\* The requests that hold task_list_mutex until they are done, and no other.
LockHeld == \A c \in Consoles : task_list_mutex = c <=> work[c].op \in {"auto", "study"}

\* ProcessorsOwned by positions: no two tasks, lost ones included, no two adders
\* and no adder and task have one processor, and those in use are theirs.
Owned1 == \A i, j \in Positions(g_lstTask) : g_lstTask[i].fdir_r = g_lstTask[j].fdir_r => i = j
Owned2 == \A t, u \in Adders : work[t].proc \in Processors /\ work[t].proc = work[u].proc => t = u
Owned3 == \A t \in Adders : \A i \in Positions(g_lstTask) : work[t].proc # g_lstTask[i].fdir_r
Owned5 == \A m, n \in unlinked : m.fdir_r = n.fdir_r => m = n
Owned6 == \A n \in unlinked : /\ \A t \in Adders : work[t].proc # n.fdir_r
                              /\ \A i \in Positions(g_lstTask) : g_lstTask[i].fdir_r # n.fdir_r
InUse(p) == (\E t \in Adders : work[t].proc = p) \/ (\E i \in Positions(g_lstTask) : g_lstTask[i].fdir_r = p) \/ (\E n \in unlinked : n.fdir_r = p)
Owned4 == \A p \in Processors : map_idle_fdir_r[p] <=> InUse(p)
Ownership == Owned1 /\ Owned2 /\ Owned3 /\ Owned4 /\ Owned5 /\ Owned6

\* The faults in the list; the places of a fault in a list, and the calls that
\* have still to put it there.
Listed(ts) == {ts[i].fault : i \in Positions(ts)}
AtIn(ts, f) == {i \in Positions(ts) : ts[i].fault = f}
ByIn(w, f) == {t \in Adders : f \in Pending(w[t])}

\* Each of the places A and of the calls B can be given a console of its own.
Seats(A, B) ==
  \E l \in [A -> Consoles], b \in [B -> Consoles] :
    /\ \A i, j \in A : l[i] = l[j] => i = j
    /\ \A t, u \in B : b[t] = b[u] => t = u
    /\ \A i \in A, t \in B : l[i] # b[t]
Single(A, B) == /\ \A i, j \in A : i = j
                /\ \A t, u \in B : t = u
                /\ A = {} \/ B = {}
Room(A, B, g) == Seats(A, B) /\ (g = NoGroup => Single(A, B))

\* The steps before a fault is grouped.
Early == {"CALC", "CALC_ISO"}

Placed == \A f \in Faults : Room(AtIn(g_lstTask, f), ByIn(work, f), group_of[f])
Early1 == \A i \in Positions(g_lstTask) : g_lstTask[i].step \in Early => group_of[g_lstTask[i].fault] = NoGroup
Started1 == \A f \in Listed(g_lstTask) : f <= started
Started2 == \A t \in Adders : \A i \in DOMAIN work[t].todo : work[t].todo[i] <= started
Started3 == \A f \in Faults : group_of[f] # NoGroup => f <= started
Grouped1 == \A i \in Positions(g_lstTask) : group_of[g_lstTask[i].fault] \in {NoGroup, g_lstTask[i].group}
Grouped2 == \A t \in Adders : \A f \in Pending(work[t]) :
  group_of[f] = IF work[t].op \in {"auto", "step"} THEN work[t].group ELSE NoGroup
OnceInv == Placed /\ Early1 /\ Started1 /\ Started2 /\ Started3 /\ Grouped1 /\ Grouped2

\* What the kind of a call allows.  It adds a fault once, and has a processor
\* only for a fault.
Fits(t, w) ==
  /\ t = "alarm" => w.op \in {"idle", "alarm"}
  /\ t # "alarm" => w.op # "alarm"
  /\ w.op = "step" => "step" \in Requests
  /\ w.op \in {"auto", "step"} => w.group \in Faults
  /\ w.op \in {"idle", "stop", "wait"} => w.todo = <<>>
  /\ w.proc = Pushed => w.op = "study"
  /\ w.todo = <<>> => w.proc = NoProc
  /\ Distinct(w.todo)
CallsFit == \A t \in Adders : Fits(t, work[t])

-----------------------------------------------------------------------------
(* What is left of the list *)

Stays(m, n) ==
  /\ m.fault = n.fault /\ m.fdir_r = n.fdir_r /\ m.group = n.group
  /\ m.step \in Early => n.step \in Early

\* The fault tasks of us are those of ts that are not at the positions in S,
\* each once, with their faults, groups and processors, and not back in a step
\* before their grouping.
Leaves(us, ts, S) ==
  /\ us \in Seq(Nodes) /\ NodesWhole(us)
  /\ \E h \in [Positions(us) -> Positions(ts) \ S] :
       /\ \A i, j \in Positions(us) : h[i] = h[j] => i = j
       /\ \A k \in Positions(ts) \ S : \E i \in Positions(us) : h[i] = k
       /\ \A i \in Positions(us) : Stays(us[i], ts[h[i]])

\* A list that stays as it is loses nothing.
LEMMA SelfLeaves ==
  ASSUME NEW ts \in Seq(Nodes), NodesWhole(ts)
  PROVE  Leaves(ts, ts, {})
<1> DEFINE h == [i \in Positions(ts) |-> i]
<1>1. h \in [Positions(ts) -> Positions(ts) \ {}] /\ \A i \in Positions(ts) : h[i] = i
  OBVIOUS
<1> HIDE DEF h
<1>2. QED
  BY <1>1 DEF Leaves, Stays

\* Tasks whose step, mode or status is written stay where they are (ExecFdir,
\* the branches of thread_process).
LEMMA WrittenLeaves ==
  ASSUME NEW ts \in Seq(Nodes), NEW us, Leaves(us, ts, {}),
         NEW vs \in Seq(Nodes), Len(vs) = Len(us),
         \A i \in DOMAIN us : /\ vs[i].type = us[i].type /\ vs[i].fault = us[i].fault
                              /\ vs[i].fdir_r = us[i].fdir_r /\ vs[i].group = us[i].group
                              /\ vs[i].step \in Early => us[i].step \in Early
  PROVE  Leaves(vs, ts, {})
<1>1. us \in Seq(Nodes) /\ NodesWhole(us)
  BY DEF Leaves
<1>2. DOMAIN vs = DOMAIN us
  BY <1>1
<1>3. \A i \in DOMAIN us : IsFault(vs[i]) = IsFault(us[i])
  BY DEF IsFault
<1>4. Positions(vs) = Positions(us)
  BY <1>2, <1>3 DEF Positions
<1>5. NodesWhole(vs)
  BY <1>1, <1>2, <1>3 DEF NodesWhole, Early
<1>6. \A i \in Positions(vs) : Stays(vs[i], us[i])
  BY <1>4 DEF Positions, Stays
<1>7. PICK h \in [Positions(us) -> Positions(ts) \ {}] :
        /\ \A i, j \in Positions(us) : h[i] = h[j] => i = j
        /\ \A k \in Positions(ts) \ {} : \E i \in Positions(us) : h[i] = k
        /\ \A i \in Positions(us) : Stays(us[i], ts[h[i]])
  BY DEF Leaves
<1>8. \A i \in Positions(vs) : Stays(vs[i], ts[h[i]])
  BY <1>4, <1>6, <1>7 DEF Stays
<1>9. QED
  BY <1>4, <1>5, <1>7, <1>8 DEF Leaves

\* The control task that AddControlItem puts in front is no fault task.
LEMMA FrontLeaves ==
  ASSUME NEW ts \in Seq(Nodes), NEW us, Leaves(us, ts, {}), NEW g \in 0..MaxStart
  PROVE  Leaves(<<ControlTask(g)>> \o us, ts, {})
<1> DEFINE c == ControlTask(g)
           vs == <<c>> \o us
<1>1. /\ us \in Seq(Nodes) /\ NodesWhole(us)
      /\ Len(us) \in Nat /\ DOMAIN us = 1..Len(us)
  BY DEF Leaves
<1>2. PICK h \in [Positions(us) -> Positions(ts) \ {}] :
        /\ \A i, j \in Positions(us) : h[i] = h[j] => i = j
        /\ \A k \in Positions(ts) \ {} : \E i \in Positions(us) : h[i] = k
        /\ \A i \in Positions(us) : Stays(us[i], ts[h[i]])
  BY DEF Leaves
<1>3. c \in Nodes
  BY PoolAssumption DEF ControlTask, Nodes, NoGroup, NoProc
<1>4. ~IsFault(c) /\ c.fault = 0 /\ c.fdir_r = NoProc /\ c.step = "none"
  BY DEF ControlTask, IsFault
<1> HIDE DEF c
<1>5. <<c>> \in Seq(Nodes) /\ Len(<<c>>) = 1 /\ <<c>>[1] = c
  BY <1>3
<1>6. /\ vs \in Seq(Nodes)
      /\ Len(vs) = Len(us) + 1
      /\ \A i \in 1..Len(us) + 1 : vs[i] = IF i <= 1 THEN c ELSE us[i - 1]
  BY <1>1, <1>5, ConcatProperties
<1> HIDE DEF vs
<1>7. DOMAIN vs = 1..Len(us) + 1
  BY <1>6
<1>8. \A i \in DOMAIN vs : (i = 1 /\ vs[i] = c) \/ (i - 1 \in DOMAIN us /\ vs[i] = us[i - 1])
  BY <1>1, <1>6, <1>7
<1>9. NodesWhole(vs)
  BY <1>1, <1>4, <1>8 DEF NodesWhole
<1>10. \A i \in Positions(vs) : i - 1 \in Positions(us) /\ vs[i] = us[i - 1]
  BY <1>4, <1>8 DEF Positions
<1>11. \A j \in Positions(us) : j + 1 \in Positions(vs) /\ (j + 1) - 1 = j
  BY <1>1, <1>6, <1>7 DEF Positions
<1> DEFINE k == [i \in Positions(vs) |-> h[i - 1]]
<1>12. k \in [Positions(vs) -> Positions(ts) \ {}]
  BY <1>2, <1>10
<1>13. \A i \in Positions(vs) : k[i] = h[i - 1]
  OBVIOUS
<1>14. \A i \in Positions(vs) : i \in Int
  BY <1>7 DEF Positions
<1> HIDE DEF k
<1>15. \A i, j \in Positions(vs) : k[i] = k[j] => i = j
  <2> SUFFICES ASSUME NEW i \in Positions(vs), NEW j \in Positions(vs), k[i] = k[j]
               PROVE  i = j
    OBVIOUS
  <2>1. i - 1 = j - 1
    BY <1>2, <1>10, <1>13
  <2>2. QED
    BY <2>1, <1>14
<1>16. \A x \in Positions(ts) \ {} : \E i \in Positions(vs) : k[i] = x
  BY <1>2, <1>11, <1>13
<1>17. \A i \in Positions(vs) : Stays(vs[i], ts[k[i]])
  BY <1>2, <1>10, <1>13
<1>18. Leaves(vs, ts, {})
  BY <1>6, <1>9, <1>12, <1>15, <1>16, <1>17 DEF Leaves
<1>19. QED
  BY <1>18 DEF vs, c

\* Erasing the nodes at the positions in S leaves the tasks at the others; a
\* control among them is no fault task (RemoveTask, RemoveTasks).
LEMMA OnlyLeaves ==
  ASSUME NEW ts \in Seq(Nodes), NodesWhole(ts), NEW S, NEW C, C \cap Positions(ts) = {}
  PROVE  Leaves(Only(ts, DOMAIN ts \ (S \cup C)), ts, S)
<1> DEFINE K == DOMAIN ts \ (S \cup C)
           us == Only(ts, K)
           m == Cardinality(K)
           f == Numbered(K)
<1>1. /\ us \in Seq(Nodes) /\ DOMAIN us = 1..m
      /\ f \in [1..m -> K]
      /\ \A j \in 1..m : us[j] = ts[f[j]]
      /\ \A i, j \in 1..m : f[i] = f[j] => i = j
      /\ \A k \in K : \E j \in 1..m : f[j] = k
  <2>1. K \in SUBSET DOMAIN ts
    OBVIOUS
  <2> HIDE DEF K
  <2>2. QED
    BY <2>1, OnlyProperties
<1>2. K \subseteq DOMAIN ts /\ \A k \in K : k \notin S
  OBVIOUS
<1>3. Positions(ts) \ S \subseteq K
  BY DEF Positions
<1> HIDE DEF K, us, m, f
<1>4. \A j \in DOMAIN us : f[j] \in DOMAIN ts /\ us[j] = ts[f[j]]
  BY <1>1, <1>2
<1>5. NodesWhole(us)
  BY <1>4 DEF NodesWhole
<1>6. \A j \in Positions(us) : f[j] \in Positions(ts) \ S /\ us[j] = ts[f[j]] /\ j \in 1..m
  BY <1>1, <1>2, <1>4 DEF Positions
<1>7. \A k \in Positions(ts) \ S : \E j \in Positions(us) : f[j] = k
  <2> SUFFICES ASSUME NEW k \in Positions(ts) \ S
               PROVE  \E j \in Positions(us) : f[j] = k
    OBVIOUS
  <2>1. PICK j \in 1..m : f[j] = k
    BY <1>1, <1>3
  <2>2. QED
    BY <2>1, <1>1 DEF Positions
<1> DEFINE h == [j \in Positions(us) |-> f[j]]
<1>8. h \in [Positions(us) -> Positions(ts) \ S] /\ \A j \in Positions(us) : h[j] = f[j]
  BY <1>6
<1> HIDE DEF h
<1>9. \A i, j \in Positions(us) : h[i] = h[j] => i = j
  BY <1>1, <1>6, <1>8
<1>10. \A k \in Positions(ts) \ S : \E i \in Positions(us) : h[i] = k
  BY <1>7, <1>8
<1>11. \A i \in Positions(us) : Stays(us[i], ts[h[i]])
  BY <1>6, <1>8 DEF Stays
<1>12. QED
  <2>1. Leaves(us, ts, S)
    BY <1>1, <1>5, <1>8, <1>9, <1>10, <1>11 DEF Leaves
  <2>2. QED
    BY <2>1 DEF us, K

\* The task of a control that is over is erased alone, wherever it is.
LEMMA DropLeaves ==
  ASSUME NEW ts \in Seq(Nodes), NEW us, Leaves(us, ts, {}), NEW n \in DOMAIN us, ~IsFault(us[n])
  PROVE  Leaves(RemoveAt(us, n), ts, {})
<1> DEFINE vs == RemoveAt(us, n)
           f(j) == IF j < n THEN j ELSE j + 1
           b(j) == IF j < n THEN j ELSE j - 1
<1>1. us \in Seq(Nodes) /\ NodesWhole(us) /\ Len(us) \in Nat /\ DOMAIN us = 1..Len(us)
  BY DEF Leaves
<1>2. PICK h \in [Positions(us) -> Positions(ts) \ {}] :
        /\ \A i, j \in Positions(us) : h[i] = h[j] => i = j
        /\ \A k \in Positions(ts) \ {} : \E i \in Positions(us) : h[i] = k
        /\ \A i \in Positions(us) : Stays(us[i], ts[h[i]])
  BY DEF Leaves
<1>3. /\ vs \in Seq(Nodes)
      /\ Len(vs) = Len(us) - 1
      /\ \A j \in 1..Len(us) - 1 : vs[j] = IF j < n THEN us[j] ELSE us[j + 1]
  BY <1>1, RemoveAtProperties DEF RemoveAt
<1> HIDE DEF vs
<1>4. DOMAIN vs = 1..Len(us) - 1
  BY <1>1, <1>3
<1>5. \A j \in DOMAIN vs : f(j) \in DOMAIN us /\ vs[j] = us[f(j)]
  BY <1>1, <1>3, <1>4
<1>6. \A j \in DOMAIN us : j # n => b(j) \in DOMAIN vs /\ f(b(j)) = j
  BY <1>1, <1>4
<1>7. \A i, j \in DOMAIN vs : f(i) = f(j) => i = j
  BY <1>1, <1>4
<1> HIDE DEF f, b
<1>8. NodesWhole(vs)
  BY <1>1, <1>5 DEF NodesWhole
<1>9. \A j \in Positions(vs) : f(j) \in Positions(us) /\ vs[j] = us[f(j)] /\ j \in DOMAIN vs
  BY <1>5 DEF Positions
<1>10. \A j \in Positions(us) : b(j) \in Positions(vs) /\ f(b(j)) = j
  BY <1>5, <1>6 DEF Positions
<1> DEFINE k == [j \in Positions(vs) |-> h[f(j)]]
<1>11. k \in [Positions(vs) -> Positions(ts) \ {}] /\ \A j \in Positions(vs) : k[j] = h[f(j)]
  BY <1>2, <1>9
<1> HIDE DEF k
<1>12. \A i, j \in Positions(vs) : k[i] = k[j] => i = j
  BY <1>2, <1>7, <1>9, <1>11
<1>13. \A x \in Positions(ts) \ {} : \E j \in Positions(vs) : k[j] = x
  BY <1>2, <1>10, <1>11
<1>14. \A i \in Positions(vs) : Stays(vs[i], ts[k[i]])
  BY <1>2, <1>9, <1>11
<1>15. Leaves(vs, ts, {})
  BY <1>3, <1>8, <1>11, <1>12, <1>13, <1>14 DEF Leaves
<1>16. QED
  BY <1>15 DEF vs

\* Of faults that are not none one is the oldest (the search in AddTask).
LEMMA LeastFault ==
  ASSUME NEW F \in SUBSET (0..MaxStart), F # {}
  PROVE  \E x \in F : \A y \in F : x <= y
<1> DEFINE K == {x + 1 : x \in F}
<1>1. K \in SUBSET (1..MaxStart + 1) /\ K # {} /\ MaxStart + 1 \in Nat
  <2>1. MaxStart \in Nat
    BY PoolAssumption
  <2>2. \A x \in F : x + 1 \in 1..MaxStart + 1
    BY <2>1
  <2>3. K # {}
    <3>1. PICK x \in F : TRUE
      OBVIOUS
    <3>2. x + 1 \in K
      OBVIOUS
    <3>3. QED
      BY <3>2
  <2>4. MaxStart + 1 \in Nat
    BY <2>1
  <2>5. K \subseteq 1..MaxStart + 1
    BY <2>2
  <2> HIDE DEF K
  <2>6. QED
    BY <2>3, <2>4, <2>5
<1>2. PICK k \in K : \A i \in K : k <= i
  BY <1>1, FirstPosition
<1>3. PICK x \in F : k = x + 1
  BY <1>2
<1>4. \A y \in F : x <= y
  <2>1. TAKE y \in F
  <2>2. x + 1 <= y + 1
    BY <1>2, <1>3
  <2>3. x \in Nat /\ y \in Nat
    OBVIOUS
  <2>4. QED
    BY <2>2, <2>3
<1>5. QED
  BY <1>4

\* FirstOf is the first (the scans of the list, and of the processors).
LEMMA FirstOfFirst ==
  ASSUME NEW n \in Nat, NEW S \in SUBSET (1..n), S # {}
  PROVE  FirstOf(S) \in S /\ \A i \in S : FirstOf(S) <= i
BY FirstPosition DEF FirstOf

-----------------------------------------------------------------------------
(* One step of an adder *)

\* What an adder's call may become while it goes on or ends: it has no more
\* faults to add, of the same kind, and keeps its processor if it has one.
GoesOn(w2, w1) ==
  /\ Pending(w2) \subseteq Pending(w1)
  /\ \A i \in DOMAIN w2.todo : \E j \in DOMAIN w1.todo : w2.todo[i] = w1.todo[j]
  /\ Pending(w2) # {} => w2.op = w1.op /\ w2.group = w1.group

KeepsProcessor(w2, w1) == w2.proc = w1.proc \/ (w1.proc \notin Processors /\ w2.proc \notin Processors)

\* A call with nothing left to add keeps nothing waiting.
LEMMA NothingPending ==
  ASSUME NEW w, w.todo = <<>>
  PROVE  Pending(w) = {} /\ Distinct(w.todo)
BY DEF Pending, Distinct

NextOf(w) == [w EXCEPT !.todo = Tail(@), !.proc = NoProc]

\* When a fault has been handled the next of the call is taken up (the loop of
\* RecoMemTask).
LEMMA NextTakenUp ==
  ASSUME NEW w \in Calls, w.todo # <<>>, Distinct(w.todo)
  PROVE  /\ NextOf(w) \in Calls
         /\ GoesOn(NextOf(w), w) /\ Distinct(NextOf(w).todo)
         /\ w.proc = Pushed \/ (Head(w.todo) \in Pending(w) /\ Head(w.todo) \notin Pending(NextOf(w)))
         /\ NextOf(w).proc = NoProc /\ NextOf(w).op = w.op /\ NextOf(w).group = w.group
<1> DEFINE s == w.todo
           r == Tail(s)
           v == NextOf(w)
<1>1. s \in Seq(Faults) /\ Len(s) \in Nat /\ DOMAIN s = 1..Len(s) /\ Len(s) # 0
  BY DEF Calls
<1>2. /\ r \in Seq(Faults) /\ Len(r) = Len(s) - 1
      /\ \A i \in 1..Len(r) : r[i] = s[i + 1]
  BY <1>1, HeadTailProperties
<1>3. /\ v.todo = r /\ v.proc = NoProc /\ v.op = w.op /\ v.group = w.group
      /\ v \in Calls
  BY <1>2 DEF Calls, NextOf
<1> HIDE DEF r, v
<1>4. DOMAIN r = 1..Len(s) - 1
  BY <1>1, <1>2
<1>5. \A i \in DOMAIN r : i + 1 \in DOMAIN s /\ i + 1 # 1 /\ r[i] = s[i + 1]
  BY <1>1, <1>2, <1>4
<1>6. Pending(v) \subseteq Pending(w)
  BY <1>3, <1>5 DEF Pending
<1>7. Distinct(r)
  <2> SUFFICES ASSUME NEW i \in DOMAIN r, NEW j \in DOMAIN r, r[i] = r[j]
               PROVE  i = j
    BY DEF Distinct
  <2>1. i + 1 = j + 1
    BY <1>5 DEF Distinct
  <2>2. QED
    BY <2>1, <1>1, <1>4
<1>8. Head(s) = s[1] /\ 1 \in DOMAIN s
  BY <1>1
<1>9. s[1] \notin Pending(v)
  BY <1>3, <1>5, <1>8 DEF Pending, Distinct
<1>10. w.proc = Pushed \/ s[1] \in Pending(w)
  BY <1>8 DEF Pending
<1>11. QED
  BY <1>3, <1>5, <1>6, <1>7, <1>8, <1>9, <1>10 DEF GoesOn, v

-----------------------------------------------------------------------------
(* One step of the list *)

\* The list as it is, and its nodes.
LEMMA ListAsIs ==
  ASSUME TypesHold
  PROVE  /\ Leaves(g_lstTask, g_lstTask, {})
         /\ Len(g_lstTask) \in Nat /\ DOMAIN g_lstTask = 1..Len(g_lstTask)
         /\ \A i \in DOMAIN g_lstTask : g_lstTask[i] \in Nodes
BY SelfLeaves DEF TypesHold

\* Tasks that are erased with their processors given back, by whomever, leave
\* no processor lost and none given back that is another's (RemoveTask,
\* RemoveTasks, the release in AddTask).
LEMMA OwnershipCarried ==
  ASSUME TypesHold, Ownership,
         NEW S \in SUBSET DOMAIN g_lstTask, Leaves(g_lstTask', g_lstTask, S), GiveBack(S),
         UNCHANGED unlinked, \A t \in Adders : KeepsProcessor(work'[t], work[t])
  PROVE  Ownership'
<1> DEFINE us == g_lstTask'
           ts == g_lstTask
<1>1. PICK h \in [Positions(us) -> Positions(ts) \ S] :
        /\ \A i, j \in Positions(us) : h[i] = h[j] => i = j
        /\ \A k \in Positions(ts) \ S : \E i \in Positions(us) : h[i] = k
        /\ \A i \in Positions(us) : us[i].fdir_r = ts[h[i]].fdir_r
  BY DEF Leaves, Stays
<1>2. /\ \A i \in Positions(ts) : ts[i].fdir_r \in Processors
      /\ \A i \in DOMAIN ts : i \notin Positions(ts) => ts[i].fdir_r = NoProc
  BY DEF TypesHold, NodesWhole, Positions
<1>3. NoProc \notin Processors
  BY DEF NoProc, Processors
<1>4. \A i \in S : ts[i].fdir_r \in Processors => i \in Positions(ts)
  BY <1>2, <1>3
<1>5. \A p \in Processors : map_idle_fdir_r'[p] <=> map_idle_fdir_r[p] /\ ~\E i \in S : ts[i].fdir_r = p
  BY DEF GiveBack, TypesHold
<1>6. \A p \in Processors : \A t \in Adders : work'[t].proc = p <=> work[t].proc = p
  BY DEF KeepsProcessor
<1>7. Owned1'
  BY <1>1 DEF Ownership, Owned1
<1>8. Owned2'
  BY <1>6 DEF Ownership, Owned2
<1>9. Owned3'
  <2> SUFFICES ASSUME NEW t \in Adders, NEW i \in Positions(us), work'[t].proc = us[i].fdir_r
               PROVE  FALSE
    BY DEF Owned3
  <2>1. h[i] \in Positions(ts) /\ work'[t].proc = ts[h[i]].fdir_r
    BY <1>1
  <2>2. work[t].proc = ts[h[i]].fdir_r
    BY <2>1, <1>2, <1>6
  <2>3. QED
    BY <2>1, <2>2 DEF Ownership, Owned3
<1>10. ASSUME NEW p \in Processors
       PROVE  map_idle_fdir_r'[p] <=> InUse(p)'
  <2>1. map_idle_fdir_r[p] <=> InUse(p)
    BY DEF Ownership, Owned4
  <2>2. ASSUME map_idle_fdir_r[p], ~\E i \in S : ts[i].fdir_r = p
        PROVE  InUse(p)'
    <3>1. CASE \E t \in Adders : work[t].proc = p
      BY <3>1, <1>6 DEF InUse
    <3>2. CASE \E k \in Positions(ts) : ts[k].fdir_r = p
      BY <3>2, <2>2, <1>1 DEF InUse
    <3>3. CASE \E n \in unlinked : n.fdir_r = p
      BY <3>3 DEF InUse
    <3>4. QED
      BY <2>1, <2>2, <3>1, <3>2, <3>3 DEF InUse
  <2>3. ASSUME InUse(p)'
        PROVE  map_idle_fdir_r[p] /\ ~\E i \in S : ts[i].fdir_r = p
    <3>1. CASE \E t \in Adders : work'[t].proc = p
      <4>1. PICK t \in Adders : work[t].proc = p
        BY <3>1, <1>6
      <4>2. ~\E i \in S : ts[i].fdir_r = p
        BY <4>1, <1>4 DEF Ownership, Owned3
      <4>3. QED
        BY <4>1, <4>2, <2>1 DEF InUse
    <3>2. CASE \E i \in Positions(us) : us[i].fdir_r = p
      <4>1. PICK k \in Positions(ts) \ S : ts[k].fdir_r = p
        BY <3>2, <1>1
      <4>2. ~\E i \in S : ts[i].fdir_r = p
        BY <4>1, <1>4 DEF Ownership, Owned1
      <4>3. QED
        BY <4>1, <4>2, <2>1 DEF InUse
    <3>3. CASE \E n \in unlinked : n.fdir_r = p
      <4>1. ~\E i \in S : ts[i].fdir_r = p
        BY <3>3, <1>4 DEF Ownership, Owned6
      <4>2. QED
        BY <3>3, <4>1, <2>1 DEF InUse
    <3>4. QED
      BY <2>3, <3>1, <3>2, <3>3 DEF InUse
  <2>4. QED
    BY <2>2, <2>3, <1>5
<1>11. Owned4'
  BY <1>10 DEF Owned4
<1>12. Owned5' /\ Owned6'
  <2>1. \A n \in unlinked : n.fdir_r \in Processors
    BY DEF TypesHold
  <2>2. Owned5'
    BY DEF Ownership, Owned5
  <2>3. \A n \in unlinked : \A t \in Adders : work'[t].proc # n.fdir_r
    BY <2>1, <1>6 DEF Ownership, Owned6
  <2>4. \A n \in unlinked : \A i \in Positions(us) : us[i].fdir_r # n.fdir_r
    BY <1>1 DEF Ownership, Owned6
  <2>5. QED
    BY <2>2, <2>3, <2>4 DEF Owned6
<1>13. QED
  BY <1>7, <1>8, <1>9, <1>11, <1>12 DEF Ownership

\* No fault has more places in us than in ts.
Fewer(us, ts) ==
  \A f \in Faults : \E h \in [AtIn(us, f) -> AtIn(ts, f)] : \A i, j \in AtIn(us, f) : h[i] = h[j] => i = j

\* Where places and calls become fewer there is still room.
LEMMA RoomCarried ==
  ASSUME NEW A, NEW B, NEW g, Room(A, B, g), NEW A2, NEW B2 \in SUBSET B,
         NEW h \in [A2 -> A], \A i, j \in A2 : h[i] = h[j] => i = j
  PROVE  Room(A2, B2, g)
<1>1. PICK l \in [A -> Consoles], b \in [B -> Consoles] :
        /\ \A i, j \in A : l[i] = l[j] => i = j
        /\ \A t, u \in B : b[t] = b[u] => t = u
        /\ \A i \in A, t \in B : l[i] # b[t]
  BY DEF Room, Seats
<1> DEFINE l2 == [i \in A2 |-> l[h[i]]]
           b2 == [t \in B2 |-> b[t]]
<1>2. l2 \in [A2 -> Consoles] /\ \A i \in A2 : l2[i] = l[h[i]] /\ h[i] \in A
  OBVIOUS
<1>3. b2 \in [B2 -> Consoles] /\ \A t \in B2 : b2[t] = b[t] /\ t \in B
  OBVIOUS
<1> HIDE DEF l2, b2
<1>4. Seats(A2, B2)
  BY <1>1, <1>2, <1>3 DEF Seats
<1>5. Single(A, B) => Single(A2, B2)
  <2>1. A = {} => A2 = {}
    BY <1>2
  <2>2. QED
    BY <2>1, <1>2 DEF Single
<1>6. QED
  BY <1>4, <1>5 DEF Room

\* A place takes the seat of the call that has filled it.
LEMMA RoomMoved ==
  ASSUME NEW A, NEW B, NEW g, Room(A, B, g), NEW A2, NEW B2 \in SUBSET B,
         NEW m, NEW t, A2 = A \cup {m}, m \notin A, t \in B, t \notin B2
  PROVE  Room(A2, B2, g)
<1>1. PICK l \in [A -> Consoles], b \in [B -> Consoles] :
        /\ \A i, j \in A : l[i] = l[j] => i = j
        /\ \A s, u \in B : b[s] = b[u] => s = u
        /\ \A i \in A, u \in B : l[i] # b[u]
  BY DEF Room, Seats
<1> DEFINE l2 == [i \in A2 |-> IF i = m THEN b[t] ELSE l[i]]
           b2 == [u \in B2 |-> b[u]]
<1>2. l2 \in [A2 -> Consoles] /\ \A i \in A2 : l2[i] = IF i = m THEN b[t] ELSE l[i]
  OBVIOUS
<1>3. b2 \in [B2 -> Consoles] /\ \A u \in B2 : b2[u] = b[u] /\ u \in B /\ u # t
  OBVIOUS
<1> HIDE DEF l2, b2
<1>4. \A i, j \in A2 : l2[i] = l2[j] => i = j
  BY <1>1, <1>2
<1>5. \A i \in A2, u \in B2 : l2[i] # b2[u]
  BY <1>1, <1>2, <1>3
<1>6. Seats(A2, B2)
  BY <1>1, <1>2, <1>3, <1>4, <1>5 DEF Seats
<1>7. Single(A, B) => Single(A2, B2)
  BY DEF Single
<1>8. QED
  BY <1>6, <1>7 DEF Room

\* There is room when nothing needs it.
LEMMA EmptyRoom ==
  ASSUME NEW g
  PROVE  Room({}, {}, g)
<1>1. PICK e : e = [i \in {} |-> i]
  OBVIOUS
<1>2. e \in [{} -> Consoles]
  BY <1>1
<1>3. Seats({}, {})
  BY <1>2 DEF Seats
<1>4. QED
  BY <1>3 DEF Room, Single

\* The faults in the list only become fewer, and keep their groups.
LEMMA ListCarried ==
  ASSUME TypesHold, OnceInv, NEW S, Leaves(g_lstTask', g_lstTask, S),
         started' \in Nat, started <= started', UNCHANGED group_of
  PROVE  /\ Early1' /\ Started1' /\ Started3' /\ Grouped1'
         /\ Fewer(g_lstTask', g_lstTask)
<1> DEFINE us == g_lstTask'
           ts == g_lstTask
<1>1. PICK h \in [Positions(us) -> Positions(ts) \ S] :
        /\ \A i, j \in Positions(us) : h[i] = h[j] => i = j
        /\ \A i \in Positions(us) : Stays(us[i], ts[h[i]])
  BY DEF Leaves
<1>2. \A i \in Positions(us) : h[i] \in Positions(ts)
  BY <1>1
<1>3. Fewer(us, ts)
  <2> SUFFICES ASSUME NEW f \in Faults
               PROVE  \E k \in [AtIn(us, f) -> AtIn(ts, f)] : \A i, j \in AtIn(us, f) : k[i] = k[j] => i = j
    BY DEF Fewer
  <2> DEFINE k == [i \in AtIn(us, f) |-> h[i]]
  <2>1. \A i \in AtIn(us, f) : i \in Positions(us) /\ h[i] \in AtIn(ts, f)
    BY <1>1, <1>2 DEF AtIn, Stays
  <2>2. k \in [AtIn(us, f) -> AtIn(ts, f)] /\ \A i \in AtIn(us, f) : k[i] = h[i]
    BY <2>1
  <2> HIDE DEF k
  <2>3. QED
    BY <1>1, <2>1, <2>2
<1>4. Started1' /\ Started3'
  <2>1. \A f \in 0..MaxStart : f <= started => f <= started'
    BY PoolAssumption DEF TypesHold
  <2>2. \A f \in Listed(ts) : f \in 0..MaxStart
    BY ListAsIs DEF Listed, Positions, Nodes
  <2>3. \A f \in Faults : f \in 0..MaxStart
    BY PoolAssumption DEF Faults
  <2>4. Listed(us) \subseteq Listed(ts)
    BY <1>1, <1>2 DEF Listed, Stays
  <2>5. Started1'
    BY <2>1, <2>2, <2>4 DEF OnceInv, Started1
  <2>6. Started3'
    BY <2>1, <2>3 DEF OnceInv, Started3
  <2>7. QED
    BY <2>5, <2>6
<1>5. Grouped1'
  BY <1>1, <1>2 DEF OnceInv, Grouped1, Stays
<1>6. Early1'
  BY <1>1, <1>2 DEF OnceInv, Early1, Stays
<1>7. QED
  BY <1>3, <1>4, <1>5, <1>6

\* When the calls only go on, no fault comes to be put into the list again.
LEMMA CallsCarried ==
  ASSUME OnceInv, UNCHANGED group_of, started' = started,
         Fewer(g_lstTask', g_lstTask),
         \A t \in Adders : GoesOn(work'[t], work[t])
  PROVE  Placed' /\ Started2' /\ Grouped2'
<1>1. \A t \in Adders : Pending(work'[t]) \subseteq Pending(work[t])
  BY DEF GoesOn
<1>2. ASSUME NEW f \in Faults
      PROVE  Room(AtIn(g_lstTask', f), ByIn(work', f), group_of[f])
  <2>1. Room(AtIn(g_lstTask, f), ByIn(work, f), group_of[f])
    BY DEF OnceInv, Placed
  <2>2. ByIn(work', f) \in SUBSET ByIn(work, f)
    BY <1>1 DEF ByIn
  <2>3. PICK h \in [AtIn(g_lstTask', f) -> AtIn(g_lstTask, f)] : \A i, j \in AtIn(g_lstTask', f) : h[i] = h[j] => i = j
    BY DEF Fewer
  <2>4. QED
    BY <2>1, <2>2, <2>3, RoomCarried
<1>3. Placed'
  BY <1>2 DEF Placed
<1>4. Started2'
  <2> SUFFICES ASSUME NEW t \in Adders, NEW i \in DOMAIN work'[t].todo
               PROVE  work'[t].todo[i] <= started
    BY DEF Started2
  <2>1. PICK j \in DOMAIN work[t].todo : work'[t].todo[i] = work[t].todo[j]
    BY DEF GoesOn
  <2>2. QED
    BY <2>1 DEF OnceInv, Started2
<1>5. Grouped2'
  <2> SUFFICES ASSUME NEW t \in Adders, NEW f \in Pending(work'[t])
               PROVE  group_of[f] = IF work'[t].op \in {"auto", "step"} THEN work'[t].group ELSE NoGroup
    BY DEF Grouped2
  <2>1. f \in Pending(work[t]) /\ work'[t].op = work[t].op /\ work'[t].group = work[t].group
    BY <1>1 DEF GoesOn
  <2>2. QED
    BY <2>1 DEF OnceInv, Grouped2
<1>6. QED
  BY <1>3, <1>4, <1>5

-----------------------------------------------------------------------------
(* What the actions do to the list *)

ListStep == \E S \in SUBSET DOMAIN g_lstTask : Leaves(g_lstTask', g_lstTask, S) /\ GiveBack(S)

\* The tasks that are erased have their processors given back.
LEMMA ErasedStep ==
  ASSUME TypesHold, NEW S \in SUBSET DOMAIN g_lstTask, NEW C \in SUBSET DOMAIN g_lstTask,
         C \cap Positions(g_lstTask) = {}, GiveBack(S), EraseAt(S \cup C)
  PROVE  ListStep
BY OnlyLeaves DEF TypesHold, EraseAt, ListStep

\* Nobody's processor changes when no fault task leaves the list.
LEMMA WrittenStep ==
  ASSUME TypesHold, Leaves(g_lstTask', g_lstTask, {}), UNCHANGED map_idle_fdir_r
  PROVE  ListStep
<1>1. GiveBack({})
  BY DEF TypesHold, GiveBack
<1>2. QED
  BY <1>1 DEF ListStep

\* RemoveTask erases one task, or none, and gives its processor back.
LEMMA RemoveTaskStep ==
  ASSUME TypesHold, NEW f, RemoveTask(f)
  PROVE  ListStep
<1> DEFINE own == {i \in DOMAIN g_lstTask : g_lstTask[i].fault = f}
           S == IF own = {} THEN {} ELSE {FirstOf(own)}
<1>1. own \in SUBSET (1..Len(g_lstTask)) /\ Len(g_lstTask) \in Nat
  BY DEF TypesHold
<1>2. own # {} => FirstOf(own) \in own
  BY <1>1, FirstOfFirst
<1>3. S \in SUBSET DOMAIN g_lstTask
  BY <1>2
<1>4. GiveBack(S) /\ EraseAt(S)
  BY DEF RemoveTask
<1> HIDE DEF S
<1>5. S \cup {} = S /\ {} \in SUBSET DOMAIN g_lstTask /\ {} \cap Positions(g_lstTask) = {}
  OBVIOUS
<1>6. QED
  BY <1>3, <1>4, <1>5, ErasedStep

\* RemoveTasks erases tasks and gives their processors back.
LEMMA RemoveTasksStep ==
  ASSUME TypesHold, NEW g, NEW S \in SUBSET Removed(g), GiveBack(S), EraseAt(S)
  PROVE  ListStep
<1>1. S \in SUBSET DOMAIN g_lstTask
  BY DEF Removed, OfGroup
<1>2. S \cup {} = S /\ {} \in SUBSET DOMAIN g_lstTask /\ {} \cap Positions(g_lstTask) = {}
  OBVIOUS
<1>3. QED
  BY <1>1, <1>2, ErasedStep

\* AddControlItem changes the steps of fault tasks and puts a control in front.
LEMMA AddControlLeaves ==
  ASSUME TypesHold, NEW us, Leaves(us, g_lstTask, {}), NEW g \in 0..MaxStart
  PROVE  Leaves(AddControlItem(g, us), g_lstTask, {})
<1> DEFINE vs == [i \in DOMAIN us |-> IF IsFault(us[i]) /\ us[i].group = g THEN [us[i] EXCEPT !.step = "PROCESS"] ELSE us[i]]
<1>1. us \in Seq(Nodes) /\ NodesWhole(us) /\ Len(us) \in Nat /\ DOMAIN us = 1..Len(us)
  BY DEF Leaves
<1>2. \A i \in DOMAIN us : us[i] \in Nodes
  BY <1>1
<1>3. \A i \in DOMAIN us : /\ vs[i] \in Nodes
                           /\ vs[i].type = us[i].type /\ vs[i].fault = us[i].fault
                           /\ vs[i].fdir_r = us[i].fdir_r /\ vs[i].group = us[i].group
                           /\ vs[i].step \in Early => us[i].step \in Early
  BY <1>2 DEF Nodes, Early
<1>4. DOMAIN vs = 1..Len(us)
  BY <1>1
<1>5. AddControlItem(g, us) = <<ControlTask(g)>> \o vs
  BY DEF AddControlItem
<1> HIDE DEF vs
<1>6. vs \in Seq(Nodes) /\ Len(vs) = Len(us)
  <2>1. vs \in [1..Len(us) -> Nodes]
    BY <1>1, <1>3, <1>4 DEF AddControlItem, vs
  <2>2. QED
    BY <2>1, <1>1
<1>7. Leaves(vs, g_lstTask, {})
  BY <1>3, <1>6, WrittenLeaves DEF TypesHold
<1>8. QED
  BY <1>5, <1>7, FrontLeaves DEF TypesHold

\* A list is rewritten node by node (the loops of the branches that set steps,
\* modes and statuses).
Rewrites(vs, us) ==
  /\ vs = [k \in DOMAIN us |-> vs[k]]
  /\ \A k \in DOMAIN us : /\ vs[k] \in Nodes
                          /\ vs[k].type = us[k].type /\ vs[k].fault = us[k].fault
                          /\ vs[k].fdir_r = us[k].fdir_r /\ vs[k].group = us[k].group
                          /\ vs[k].step \in Early => us[k].step \in Early

\* That loses no task.
LEMMA RewrittenLeaves ==
  ASSUME TypesHold, NEW us, Leaves(us, g_lstTask, {}), NEW vs, Rewrites(vs, us)
  PROVE  Leaves(vs, g_lstTask, {})
<1>1. us \in Seq(Nodes) /\ NodesWhole(us) /\ Len(us) \in Nat /\ DOMAIN us = 1..Len(us)
  BY DEF Leaves
<1>2. vs \in [1..Len(us) -> Nodes]
  BY <1>1 DEF Rewrites
<1>3. vs \in Seq(Nodes) /\ Len(vs) = Len(us)
  BY <1>1, <1>2
<1>4. QED
  BY <1>3, WrittenLeaves DEF TypesHold, Rewrites

\* A fault is located, or its task is removed (ExecFdir).
LEMMA LocateStep ==
  ASSUME TypesHold, Locate
  PROVE  ListStep
<1>1. PICK i \in DOMAIN g_lstTask :
        /\ g_lstTask[i].step = "CALC"
        /\ \/ g_lstTask' = [g_lstTask EXCEPT ![i].step = "CALC_ISO"] /\ UNCHANGED map_idle_fdir_r
           \/ RemoveTask(g_lstTask[i].fault)
  BY DEF Locate
<1>2. CASE RemoveTask(g_lstTask[i].fault)
  BY <1>2, RemoveTaskStep
<1>3. CASE g_lstTask' = [g_lstTask EXCEPT ![i].step = "CALC_ISO"] /\ UNCHANGED map_idle_fdir_r
  <2>2. \A k \in DOMAIN g_lstTask : g_lstTask'[k] = IF k = i THEN [g_lstTask[k] EXCEPT !.step = "CALC_ISO"] ELSE g_lstTask[k]
    BY <1>3
  <2>3. Rewrites(g_lstTask', g_lstTask)
    BY <1>1, <1>3, <2>2, ListAsIs DEF Nodes, Rewrites, Early
  <2>4. Leaves(g_lstTask', g_lstTask, {})
    BY <2>3, ListAsIs, RewrittenLeaves
  <2>5. QED
    BY <2>4, <1>3, WrittenStep
<1>4. QED
  BY <1>1, <1>2, <1>3

\* All tasks of a group are erased with their processors.
LEMMA GroupErasedStep ==
  ASSUME TypesHold, NEW g, GiveBack(Removed(g)), EraseAt(Removed(g))
  PROVE  ListStep
BY RemoveTasksStep

\* A group is planned, or removed.
LEMMA PlanStep ==
  ASSUME TypesHold, Plan
  PROVE  ListStep
<1>0. PICK i \in DOMAIN g_lstTask : \E auto \in {g_lstTask[i].bAuto, FALSE} :
       LET g == g_lstTask[i].group
           set == [g_lstTask EXCEPT ![i].bAuto = auto]
           planned == [k \in DOMAIN set |-> IF k \in OfGroup(g) THEN [set[k] EXCEPT !.step = "ISO"] ELSE set[k]]
       IN /\ g_lstTask[i].step = "GROUPED"
          /\ \/ GiveBack(Removed(g)) /\ EraseAt(Removed(g))
             \/ ~auto /\ version = "realtime" /\ GiveBack(Removed(g)) /\ EraseAt(Removed(g))
             \/ g_lstTask' = planned /\ UNCHANGED map_idle_fdir_r
             \/ auto /\ AddsControl(g, planned) /\ UNCHANGED map_idle_fdir_r
  BY DEF Plan
<1>1. PICK auto \in {g_lstTask[i].bAuto, FALSE} :
       LET g == g_lstTask[i].group
           set == [g_lstTask EXCEPT ![i].bAuto = auto]
           planned == [k \in DOMAIN set |-> IF k \in OfGroup(g) THEN [set[k] EXCEPT !.step = "ISO"] ELSE set[k]]
       IN /\ g_lstTask[i].step = "GROUPED"
          /\ \/ GiveBack(Removed(g)) /\ EraseAt(Removed(g))
             \/ ~auto /\ version = "realtime" /\ GiveBack(Removed(g)) /\ EraseAt(Removed(g))
             \/ g_lstTask' = planned /\ UNCHANGED map_idle_fdir_r
             \/ auto /\ AddsControl(g, planned) /\ UNCHANGED map_idle_fdir_r
  BY <1>0
<1> DEFINE g == g_lstTask[i].group
           set == [g_lstTask EXCEPT ![i].bAuto = auto]
           planned == [k \in DOMAIN set |-> IF k \in OfGroup(g) THEN [set[k] EXCEPT !.step = "ISO"] ELSE set[k]]
<1>2. CASE GiveBack(Removed(g)) /\ EraseAt(Removed(g))
  BY <1>2, GroupErasedStep
<1>3. auto \in BOOLEAN /\ g \in 0..MaxStart
  BY ListAsIs DEF Nodes
<1>4. Leaves(planned, g_lstTask, {})
  <2>1. /\ DOMAIN set = DOMAIN g_lstTask
        /\ \A k \in DOMAIN g_lstTask :
             /\ set[k] \in Nodes
             /\ set[k].type = g_lstTask[k].type /\ set[k].fault = g_lstTask[k].fault /\ set[k].step = g_lstTask[k].step
             /\ set[k].fdir_r = g_lstTask[k].fdir_r /\ set[k].group = g_lstTask[k].group
    BY <1>3, ListAsIs DEF Nodes
  <2> HIDE DEF set
  <2>2. Rewrites(planned, g_lstTask)
    BY <2>1 DEF Nodes, Rewrites, Early
  <2> HIDE DEF planned
  <2>3. QED
    BY <2>2, ListAsIs, RewrittenLeaves
<1> HIDE DEF planned
<1>5. CASE g_lstTask' = planned /\ UNCHANGED map_idle_fdir_r
  BY <1>4, <1>5, WrittenStep
<1>6. CASE AddsControl(g, planned) /\ UNCHANGED map_idle_fdir_r
  <2>1. Leaves(AddControlItem(g, planned), g_lstTask, {})
    BY <1>3, <1>4, AddControlLeaves
  <2>2. g_lstTask' = AddControlItem(g, planned)
    BY <1>6 DEF AddsControl
  <2>3. QED
    BY <2>1, <2>2, <1>6, WrittenStep
<1>7. QED
  BY <1>1, <1>2, <1>5, <1>6 DEF planned

\* A control is over and the next is added.
LEMMA ControlNextStep ==
  ASSUME TypesHold, ControlNext
  PROVE  ListStep
<1>1. PICK i \in Controls :
       LET g == g_lstTask[i].of
           own == {k \in OfGroup(g) : IsFault(g_lstTask[k])}
           marked == [k \in DOMAIN g_lstTask |-> IF k \in own THEN [g_lstTask[k] EXCEPT !.status = 1] ELSE g_lstTask[k]]
           rest == RemoveAt(marked, i)
       IN g_lstTask' = IF own # {} /\ g_lstTask[FirstOf(own)].bAuto THEN AddControlItem(g, rest) ELSE rest
  BY DEF ControlNext
<1> DEFINE g == g_lstTask[i].of
           own == {k \in OfGroup(g) : IsFault(g_lstTask[k])}
           marked == [k \in DOMAIN g_lstTask |-> IF k \in own THEN [g_lstTask[k] EXCEPT !.status = 1] ELSE g_lstTask[k]]
           rest == RemoveAt(marked, i)
<1>2. i \in DOMAIN g_lstTask /\ ~IsFault(g_lstTask[i]) /\ g \in 0..MaxStart
  BY ListAsIs DEF Controls, IsFault, Nodes
<1>3. /\ Rewrites(marked, g_lstTask)
      /\ i \in DOMAIN marked /\ ~IsFault(marked[i])
  <2>1. \A k \in DOMAIN g_lstTask : marked[k] = IF k \in own THEN [g_lstTask[k] EXCEPT !.status = 1] ELSE g_lstTask[k]
    OBVIOUS
  <2>2. i \notin own
    BY <1>2
  <2> HIDE DEF own
  <2>3. QED
    BY <1>2, <2>1, <2>2, ListAsIs DEF Nodes, Rewrites
<1> HIDE DEF marked
<1>4. Leaves(marked, g_lstTask, {})
  BY <1>3, ListAsIs, RewrittenLeaves
<1>5. Leaves(rest, g_lstTask, {})
  BY <1>3, <1>4, DropLeaves DEF TypesHold
<1> HIDE DEF rest
<1>6. Leaves(AddControlItem(g, rest), g_lstTask, {})
  BY <1>2, <1>5, AddControlLeaves
<1>7. g_lstTask' = AddControlItem(g, rest) \/ g_lstTask' = rest
  BY <1>1 DEF marked, rest
<1>8. UNCHANGED map_idle_fdir_r
  BY DEF ControlNext
<1>9. QED
  BY <1>5, <1>6, <1>7, <1>8, WrittenStep

\* The last control is over and its group is removed, or a control is lost.
LEMMA ControlOverStep ==
  ASSUME TypesHold, ControlLast \/ ControlLost
  PROVE  ListStep
<1>1. \A i \in Controls : {i} \in SUBSET DOMAIN g_lstTask /\ {i} \cap Positions(g_lstTask) = {}
  BY DEF Controls, Positions, IsFault
<1>2. CASE ControlLast
  <2>1. PICK i \in Controls : /\ GiveBack(Removed(g_lstTask[i].of))
                              /\ EraseAt(Removed(g_lstTask[i].of) \cup {i})
    BY <1>2 DEF ControlLast
  <2>2. Removed(g_lstTask[i].of) \in SUBSET DOMAIN g_lstTask
    BY DEF Removed, OfGroup
  <2>3. QED
    BY <1>1, <2>1, <2>2, ErasedStep
<1>3. CASE ControlLost
  <2>1. PICK i \in Controls : EraseAt({i})
    BY <1>3 DEF ControlLost
  <2>2. GiveBack({})
    BY <1>3 DEF ControlLost, GiveBack, TypesHold
  <2>3. {} \cup {i} = {i} /\ {} \in SUBSET DOMAIN g_lstTask
    OBVIOUS
  <2>4. QED
    BY <1>1, <2>1, <2>2, <2>3, ErasedStep
<1>4. QED
  BY <1>2, <1>3

\* A group becomes automatic on request, with or without a control.
LEMMA AutoStep ==
  ASSUME TypesHold, CallsFit, NEW c \in Consoles, SetAuto(c) \/ AutoControls(c)
  PROVE  ListStep
<1>1. UNCHANGED map_idle_fdir_r
  BY DEF SetAuto, AutoControls
<1>2. CASE SetAuto(c)
  <2>1. PICK g \in Known : g_lstTask' = IF InMemory(g) THEN [g_lstTask EXCEPT ![FirstOf(OfGroup(g))].bAuto = TRUE] ELSE g_lstTask
    BY <1>2 DEF SetAuto
  <2> DEFINE n == FirstOf(OfGroup(g))
             us == [g_lstTask EXCEPT ![n].bAuto = TRUE]
  <2>2. Rewrites(us, g_lstTask)
    <3>1. \A k \in DOMAIN g_lstTask : us[k] = IF k = n THEN [g_lstTask[k] EXCEPT !.bAuto = TRUE] ELSE g_lstTask[k]
      OBVIOUS
    <3>2. us = [k \in DOMAIN g_lstTask |-> us[k]]
      OBVIOUS
    <3> HIDE DEF us, n
    <3>3. \A k \in DOMAIN g_lstTask : /\ us[k] \in Nodes
                                      /\ us[k].type = g_lstTask[k].type /\ us[k].fault = g_lstTask[k].fault
                                      /\ us[k].fdir_r = g_lstTask[k].fdir_r /\ us[k].group = g_lstTask[k].group
                                      /\ us[k].step = g_lstTask[k].step
      <4>1. \A x \in Nodes : LET y == [x EXCEPT !.bAuto = TRUE] IN
              /\ y \in Nodes /\ y.type = x.type /\ y.fault = x.fault
              /\ y.fdir_r = x.fdir_r /\ y.group = x.group /\ y.step = x.step
        BY DEF Nodes
      <4>2. \A k \in DOMAIN g_lstTask : g_lstTask[k] \in Nodes
        BY ListAsIs
      <4>3. QED
        BY <3>1, <4>1, <4>2
    <3>4. QED
      BY <3>2, <3>3 DEF Rewrites
  <2> HIDE DEF us
  <2>3. Leaves(us, g_lstTask, {})
    BY <2>2, ListAsIs, RewrittenLeaves
  <2>4. g_lstTask' = us \/ g_lstTask' = g_lstTask
    BY <2>1 DEF us
  <2>5. Leaves(g_lstTask', g_lstTask, {})
    BY <2>3, <2>4, ListAsIs
  <2>6. QED
    BY <2>5, <1>1, WrittenStep
<1>3. CASE AutoControls(c)
  <2> DEFINE g == work[c].group
             all == [i \in DOMAIN g_lstTask |-> IF i \in OfGroup(g) THEN [g_lstTask[i] EXCEPT !.bAuto = TRUE] ELSE g_lstTask[i]]
  <2>1. g \in 0..MaxStart
    BY DEF TypesHold, Calls, Adders
  <2>2. Rewrites(all, g_lstTask)
    BY ListAsIs DEF Nodes, Rewrites
  <2>3. g_lstTask' = all \/ AddsControl(g, all)
    BY <1>3 DEF AutoControls
  <2> HIDE DEF all, g
  <2>4. Leaves(all, g_lstTask, {})
    BY <2>2, ListAsIs, RewrittenLeaves
  <2>5. Leaves(AddControlItem(g, all), g_lstTask, {})
    BY <2>1, <2>4, AddControlLeaves
  <2>6. Leaves(g_lstTask', g_lstTask, {})
    BY <2>3, <2>4, <2>5 DEF AddsControl
  <2>7. QED
    BY <2>6, <1>1, WrittenStep
<1>4. QED
  BY <1>2, <1>3

\* A control is added for one step, or the tasks of a group are removed.
LEMMA RequestStep ==
  ASSUME TypesHold, NEW c \in Consoles, StepControls(c) \/ PassLast(c) \/ StopRemoves(c)
  PROVE  ListStep
<1>1. CASE StepControls(c)
  <2>1. work[c].group \in 0..MaxStart
    BY DEF TypesHold, Calls, Adders
  <2>2. Leaves(AddControlItem(work[c].group, g_lstTask), g_lstTask, {})
    BY <2>1, ListAsIs, AddControlLeaves
  <2>3. QED
    BY <1>1, <2>2, WrittenStep DEF StepControls, AddsControl
<1>2. CASE PassLast(c)
  BY <1>2, GroupErasedStep DEF PassLast, RemoveTasks
<1>3. CASE StopRemoves(c)
  BY <1>3, GroupErasedStep DEF StopRemoves, RemoveTasks
<1>4. QED
  BY <1>1, <1>2, <1>3

\* A study's fault is not located and its task is removed, or a study is
\* answered and the manual tasks are.
LEMMA StudyStep ==
  ASSUME TypesHold, NEW c \in Consoles, (StudyExec(c) /\ ~Restarted) \/ StudyAnswers(c)
  PROVE  ListStep
<1>1. CASE StudyExec(c) /\ ~Restarted
  <2>1. UNCHANGED memory \/ RemoveTask(Head(work[c].todo))
    BY <1>1 DEF StudyExec
  <2>2. CASE UNCHANGED memory
    BY <2>2, ListAsIs, WrittenStep DEF memory
  <2>3. QED
    BY <2>1, <2>2, RemoveTaskStep
<1>2. CASE StudyAnswers(c)
  <2> DEFINE at(f) == {i \in DOMAIN g_lstTask : g_lstTask[i].fault = f}
             gone == {FirstOf(at(f)) : f \in {x \in study[c].drop : \E n \in Tasks : n.fault = x}}
  <2>1. GiveBack(gone) /\ EraseAt(gone)
    BY <1>2 DEF StudyAnswers
  <2>2. \A f : at(f) # {} => FirstOf(at(f)) \in DOMAIN g_lstTask
    BY FirstOfFirst, ListAsIs
  <2>3. \A f : (\E n \in Tasks : n.fault = f) => at(f) # {}
    BY DEF Tasks, ToSet
  <2>4. gone \in SUBSET DOMAIN g_lstTask
    BY <2>2, <2>3
  <2> HIDE DEF gone
  <2>5. gone \cup {} = gone /\ {} \in SUBSET DOMAIN g_lstTask /\ {} \cap Positions(g_lstTask) = {}
    OBVIOUS
  <2>6. QED
    BY <2>1, <2>4, <2>5, ErasedStep
<1>3. QED
  BY <1>1, <1>2

\* A group is released to make room (AddTask).
LEMMA ReleaseStep ==
  ASSUME TypesHold, NEW t \in Adders, Release(t)
  PROVE  ListStep
<1> DEFINE g == g_lstTask[it_find].group
<1>1. PICK S \in RemovedBy(g) : GiveBack(S) /\ EraseAt(S)
  BY DEF Release
<1>2. S \in SUBSET Removed(g)
  BY DEF RemovedBy
<1>3. QED
  BY <1>1, <1>2, RemoveTasksStep

-----------------------------------------------------------------------------
(* What the actions do to the calls *)

CallsTyped == work' \in [Adders -> Calls] /\ CallsFit'
CallsKeep == \A t \in Adders : KeepsProcessor(work'[t], work[t])
CallsGoOn == \A t \in Adders : GoesOn(work'[t], work[t])

\* An action writes the call of one thread.
LEMMA OneWritten ==
  ASSUME TypesHold, CallsFit, NEW t \in Adders, NEW w \in Calls, Fits(t, w),
         work' = [work EXCEPT ![t] = w]
  PROVE  /\ CallsTyped
         /\ \A u \in Adders : work'[u] = IF u = t THEN w ELSE work[u]
         /\ KeepsProcessor(w, work[t]) => CallsKeep
         /\ GoesOn(w, work[t]) => CallsGoOn
<1>1. work' \in [Adders -> Calls] /\ \A u \in Adders : work'[u] = IF u = t THEN w ELSE work[u]
  BY DEF TypesHold
<1>2. CallsTyped
  BY <1>1 DEF CallsTyped, CallsFit
<1>3. KeepsProcessor(w, work[t]) => CallsKeep
  BY <1>1 DEF CallsKeep, KeepsProcessor
<1>4. GoesOn(w, work[t]) => CallsGoOn
  BY <1>1 DEF CallsGoOn, GoesOn
<1>5. QED
  BY <1>1, <1>2, <1>3, <1>4

\* An action of the pass leaves the calls alone.
LEMMA NoneWritten ==
  ASSUME TypesHold, CallsFit, UNCHANGED work
  PROVE  CallsTyped /\ CallsKeep /\ CallsGoOn
BY DEF TypesHold, CallsFit, CallsTyped, CallsKeep, CallsGoOn, KeepsProcessor, GoesOn

\* A thread that is in no call can begin any, and a call without faults to add
\* can end.
LEMMA IdleCall ==
  ASSUME NEW t \in Adders
  PROVE  /\ Idle \in Calls /\ Fits(t, Idle) /\ Pending(Idle) = {}
         /\ \A w : GoesOn(Idle, w)
         /\ \A w : Fits(t, w) /\ w.todo = <<>> => KeepsProcessor(Idle, w)
<1>1. Idle \in Calls
  BY PoolAssumption DEF Idle, Calls, NoGroup, NoProc, None, Pushed
<1>2. Idle.todo = <<>> /\ Idle.op = "idle" /\ Idle.proc = NoProc /\ Idle.group = NoGroup
  BY DEF Idle
<1>3. Pending(Idle) = {} /\ Distinct(Idle.todo)
  BY <1>2, NothingPending
<1>4. Fits(t, Idle)
  BY <1>2, <1>3 DEF Fits, NoProc, Pushed
<1>5. \A w : GoesOn(Idle, w)
  BY <1>2, <1>3 DEF GoesOn
<1>6. \A w : Fits(t, w) /\ w.todo = <<>> => KeepsProcessor(Idle, w)
  BY <1>2 DEF Fits, KeepsProcessor
<1>7. QED
  BY <1>1, <1>3, <1>4, <1>5, <1>6

\* The call that adds tasks goes on with its next fault.
LEMMA NextCall ==
  ASSUME TypesHold, CallsFit, NEW t \in Adders, Adding(t)
  PROVE  /\ Next1(t) \in Calls /\ Fits(t, Next1(t)) /\ GoesOn(Next1(t), work[t])
         /\ Next1(t).proc = NoProc /\ Next1(t).op = work[t].op
         /\ work[t].proc = Pushed \/ (Head(work[t].todo) \in Pending(work[t]) /\ Head(work[t].todo) \notin Pending(Next1(t)))
<1>1. work[t] \in Calls /\ work[t].todo # <<>> /\ Distinct(work[t].todo) /\ Fits(t, work[t])
  BY DEF TypesHold, CallsFit, Fits, Adding
<1> DEFINE v == Next1(t)
<1>2. v = NextOf(work[t])
  BY DEF Next1, NextOf
<1> HIDE DEF v
<1>3. /\ v \in Calls /\ GoesOn(v, work[t]) /\ Distinct(v.todo)
      /\ work[t].proc = Pushed \/ (Head(work[t].todo) \in Pending(work[t]) /\ Head(work[t].todo) \notin Pending(v))
      /\ v.proc = NoProc /\ v.op = work[t].op /\ v.group = work[t].group
  BY <1>1, <1>2, NextTakenUp
<1>4. Fits(t, v)
  BY <1>1, <1>3 DEF Fits, NoProc, Pushed
<1>5. QED
  BY <1>3, <1>4 DEF v

\* While a group is released and archived a call keeps what it has to add.
LEMMA ReleaseNoted ==
  ASSUME TypesHold, CallsFit, NEW t \in Adders, NEW r \in -1..MaxStart,
         NEW v, v = [work[t] EXCEPT !.released = r]
  PROVE  v \in Calls /\ Fits(t, v) /\ GoesOn(v, work[t]) /\ KeepsProcessor(v, work[t]) /\ v.op = work[t].op
<1>1. work[t] \in Calls /\ Fits(t, work[t])
  BY DEF TypesHold, CallsFit
<1>2. /\ v \in Calls
      /\ v.todo = work[t].todo /\ v.proc = work[t].proc /\ v.op = work[t].op /\ v.group = work[t].group
  BY <1>1 DEF Calls
<1>3. Fits(t, v)
  BY <1>1, <1>2 DEF Fits
<1>4. GoesOn(v, work[t])
  BY <1>2 DEF GoesOn, Pending
<1>5. QED
  BY <1>2, <1>3, <1>4 DEF KeepsProcessor

-----------------------------------------------------------------------------
(* One step: list and calls together *)

Base == TypesHold /\ LockHeld /\ CallsFit

\* An action that erases tasks, writes their steps or puts controls in front,
\* and lets calls go on or end.
Quiet == ListStep /\ CallsTyped /\ CallsKeep /\ CallsGoOn /\ UNCHANGED <<started, group_of>>

\* What an action has to keep besides the list, the calls and the database's
\* groups: the lost tasks stay lost.
RestKept ==
  /\ UNCHANGED unlinked
  /\ archived' \in [Faults -> {"no", "STOP", "FINISH"}]
  /\ study' \in [Consoles -> [wait : SUBSET Faults, drop : SUBSET Faults]]
  /\ task_list_mutex' \in {"none", "pass"} \cup Consoles
  /\ LockHeld'

\* The lock stays with whom it is when no call begins or ends to hold it.
LEMMA LockCarried ==
  ASSUME Base, UNCHANGED task_list_mutex,
         \A c \in Consoles : work'[c].op \in {"auto", "study"} <=> work[c].op \in {"auto", "study"}
  PROVE  LockHeld' /\ task_list_mutex' \in {"none", "pass"} \cup Consoles
BY DEF Base, LockHeld, TypesHold

\* The pass takes the lock from nobody and gives it back to nobody.
LEMMA LockOfPass ==
  ASSUME Base, UNCHANGED work, task_list_mutex \in {"none", "pass"}, task_list_mutex' \in {"none", "pass"}
  PROVE  LockHeld' /\ task_list_mutex' \in {"none", "pass"} \cup Consoles
BY PoolAssumption DEF Base, LockHeld

\* A console takes the lock when nobody has it.
LEMMA LockTaken ==
  ASSUME Base, NEW c \in Consoles, task_list_mutex = "none", task_list_mutex' = c,
         work'[c].op \in {"auto", "study"}, \A d \in Consoles \ {c} : work'[d] = work[d]
  PROVE  LockHeld' /\ task_list_mutex' \in {"none", "pass"} \cup Consoles
BY PoolAssumption DEF Base, LockHeld

\* The console that has the lock gives it back.
LEMMA LockGivenBack ==
  ASSUME Base, NEW c \in Consoles, work[c].op \in {"auto", "study"}, task_list_mutex' = "none",
         work'[c].op \notin {"auto", "study"}, \A d \in Consoles \ {c} : work'[d] = work[d]
  PROVE  LockHeld' /\ task_list_mutex' \in {"none", "pass"} \cup Consoles
BY PoolAssumption DEF Base, LockHeld

\* The list as it is, when memory is left alone.
LEMMA MemoryKept ==
  ASSUME TypesHold, UNCHANGED memory
  PROVE  ListStep
BY ListAsIs, WrittenStep DEF memory

\* The pass holds the lock, leaves the calls alone, and puts no fault into the
\* list (thread_process, but for the grouping).
LEMMA PassQuiet ==
  ASSUME Base, BeginPass \/ EndPass \/ Locate \/ Plan \/ ControlNext \/ ControlLast \/ ControlLost
  PROVE  Quiet /\ RestKept
<1>1. /\ UNCHANGED <<work, unlinked, study, started, group_of>>
      /\ task_list_mutex \in {"none", "pass"} /\ task_list_mutex' \in {"none", "pass"}
  BY DEF BeginPass, EndPass, Locate, Plan, ControlNext, ControlLast, ControlLost, InPass, database, memory
<1>2. CallsTyped /\ CallsKeep /\ CallsGoOn
  BY <1>1, NoneWritten DEF Base
<1>3. ListStep
  <2>1. CASE BeginPass \/ EndPass
    BY <2>1, MemoryKept DEF BeginPass, EndPass, Base
  <2>2. CASE Locate
    BY <2>2, LocateStep DEF Base
  <2>3. CASE Plan
    BY <2>3, PlanStep DEF Base
  <2>4. CASE ControlNext
    BY <2>4, ControlNextStep DEF Base
  <2>5. CASE ControlLast \/ ControlLost
    BY <2>5, ControlOverStep DEF Base
  <2>6. QED
    BY <2>1, <2>2, <2>3, <2>4, <2>5
<1>4. archived' \in [Faults -> {"no", "STOP", "FINISH"}]
  <2>1. CASE ControlLast
    <3>1. PICK i \in Controls : archived' = [archived EXCEPT ![g_lstTask[i].of] = "FINISH"]
      BY <2>1 DEF ControlLast
    <3>2. QED
      BY <3>1 DEF Base, TypesHold
  <2>2. CASE ~ControlLast
    BY <2>2 DEF BeginPass, EndPass, Locate, Plan, ControlNext, ControlLost, InPass, database, Base, TypesHold
  <2>3. QED
    BY <2>1, <2>2
<1>5. LockHeld' /\ task_list_mutex' \in {"none", "pass"} \cup Consoles
  BY <1>1, LockOfPass
<1>6. QED
  BY <1>1, <1>2, <1>3, <1>4, <1>5 DEF Quiet, RestKept, Base, TypesHold

\* A group is released, or has been and is archived (AddTask).
LEMMA ReleaseQuiet ==
  ASSUME Base, NEW t \in Adders, Release(t) \/ ArchiveReleased(t)
  PROVE  Quiet /\ RestKept
<1>1. /\ UNCHANGED <<unlinked, study, started, group_of, task_list_mutex>>
      /\ archived' \in [Faults -> {"no", "STOP", "FINISH"}]
  <2>1. CASE Release(t)
    BY <2>1 DEF Release, database, Base, TypesHold
  <2>2. CASE ArchiveReleased(t)
    <3>1. PICK g : archived' = [x \in Faults |-> IF x = g THEN "STOP" ELSE archived[x]]
      BY <2>2 DEF ArchiveReleased
    <3>2. QED
      BY <2>2, <3>1 DEF ArchiveReleased, Base, TypesHold, memory
  <2>3. QED
    BY <2>1, <2>2
<1>2. ListStep
  <2>1. CASE Release(t)
    BY <2>1, ReleaseStep DEF Base
  <2>2. CASE ArchiveReleased(t)
    BY <2>2, MemoryKept DEF ArchiveReleased, Base
  <2>3. QED
    BY <2>1, <2>2
<1>3. PICK w : /\ work' = [work EXCEPT ![t] = w]
               /\ w \in Calls /\ Fits(t, w) /\ GoesOn(w, work[t]) /\ KeepsProcessor(w, work[t]) /\ w.op = work[t].op
  <2>1. CASE Release(t)
    <3> DEFINE r == g_lstTask[it_find].group
               released == [work[t] EXCEPT !.released = r]
    <3>1. Adding(t) /\ work[t].proc = NoProc /\ Releasable # {}
      BY <2>1 DEF Release, NoneFree
    <3>2. r \in -1..MaxStart
      <4>1. Releasable \in SUBSET (1..Len(g_lstTask)) /\ Len(g_lstTask) \in Nat
        BY ListAsIs DEF Releasable, Base
      <4>2. it_find \in Releasable
        <5>1. Oldest # {} => FirstOf(Oldest) \in Oldest
          BY <4>1, FirstOfFirst DEF Oldest
        <5>2. Oldest # {}
          <6> DEFINE F == {g_lstTask[i].fault : i \in Releasable}
          <6>1. F \in SUBSET (0..MaxStart)
            BY ListAsIs DEF Releasable, Nodes, Base
          <6>2. F # {}
            BY <3>1
          <6>3. \E x \in F : \A y \in F : x <= y
            BY <6>1, <6>2, LeastFault
          <6>4. PICK i \in Releasable : \A y \in F : g_lstTask[i].fault <= y
            BY <6>3
          <6>5. QED
            BY <6>4 DEF Oldest
        <5>3. QED
          BY <5>1, <5>2 DEF it_find, Oldest
      <4>3. g_lstTask[it_find] \in Nodes
        BY <4>1, <4>2, ListAsIs DEF Base
      <4>4. QED
        BY <4>3, PoolAssumption DEF Nodes
    <3>3. /\ Next1(t) \in Calls /\ Fits(t, Next1(t)) /\ GoesOn(Next1(t), work[t]) /\ Next1(t).op = work[t].op
          /\ KeepsProcessor(Next1(t), work[t])
      BY <3>1, NextCall DEF Base, KeepsProcessor
    <3>4. /\ released \in Calls /\ Fits(t, released) /\ GoesOn(released, work[t]) /\ released.op = work[t].op
          /\ KeepsProcessor(released, work[t])
      <4> HIDE DEF r
      <4>1. QED
        BY <3>2, ReleaseNoted DEF Base
    <3>5. work' = [work EXCEPT ![t] = Next1(t)] \/ work' = [work EXCEPT ![t] = released]
      <4>1. PICK S : work' = [work EXCEPT ![t] = IF S \cap Unmanned(r) # {} THEN Next1(t) ELSE [@ EXCEPT !.released = r]]
        BY <2>1 DEF Release
      <4>2. QED
        BY <4>1
    <3> HIDE DEF released
    <3>6. QED
      BY <3>3, <3>4, <3>5
  <2>2. CASE ArchiveReleased(t)
    <3> DEFINE released == [work[t] EXCEPT !.released = None]
    <3>1. None \in -1..MaxStart
      BY PoolAssumption DEF None
    <3>2. /\ released \in Calls /\ Fits(t, released) /\ GoesOn(released, work[t]) /\ released.op = work[t].op
          /\ KeepsProcessor(released, work[t])
      BY <3>1, ReleaseNoted DEF Base
    <3>3. work' = [work EXCEPT ![t] = released]
      BY <2>2 DEF ArchiveReleased
    <3> HIDE DEF released
    <3>4. QED
      BY <3>2, <3>3
  <2>3. QED
    BY <2>1, <2>2
<1>4. /\ CallsTyped /\ CallsKeep /\ CallsGoOn
      /\ \A c \in Consoles : work'[c].op = work[c].op
  <2>1. /\ CallsTyped /\ CallsKeep /\ CallsGoOn
        /\ \A u \in Adders : work'[u] = IF u = t THEN w ELSE work[u]
    BY <1>3, OneWritten DEF Base
  <2>2. QED
    BY <2>1, <1>3 DEF Adders
<1>5. LockHeld' /\ task_list_mutex' \in {"none", "pass"} \cup Consoles
  BY <1>1, <1>4, LockCarried
<1>6. QED
  BY <1>1, <1>2, <1>4, <1>5 DEF Quiet, RestKept, Base, TypesHold

\* A call ends that has nothing left to add (AddTask has returned to the alarm
\* thread; the answers of the console).
LEMMA EndsQuiet ==
  ASSUME Base, NEW t \in Adders,
         \/ t = "alarm" /\ AlarmAdded
         \/ t \in Consoles /\ (AutoControls(t) \/ StepControls(t) \/ StopRemoves(t) \/ StudyAnswers(t))
  PROVE  Quiet /\ RestKept
<1>1. work[t] \in Calls /\ Fits(t, work[t])
  BY DEF Base, TypesHold, CallsFit
<1>2. work' = [work EXCEPT ![t] = Idle] /\ work[t].todo = <<>>
  BY <1>1 DEF AlarmAdded, AutoControls, StepControls, StopRemoves, StudyAnswers, Adding, Fits
<1>3. /\ CallsTyped /\ CallsKeep /\ CallsGoOn
      /\ \A u \in Adders : work'[u] = IF u = t THEN Idle ELSE work[u]
  <2>1. Idle \in Calls /\ Fits(t, Idle) /\ GoesOn(Idle, work[t]) /\ KeepsProcessor(Idle, work[t])
    BY <1>1, <1>2, IdleCall
  <2>2. QED
    BY <1>2, <2>1, OneWritten DEF Base
<1>4. UNCHANGED <<unlinked, started, database>>
  BY DEF AlarmAdded, AutoControls, StepControls, StopRemoves, StudyAnswers, memory
<1>5. ListStep
  <2>1. CASE AlarmAdded
    BY <2>1, MemoryKept DEF AlarmAdded, Base
  <2>2. CASE t \in Consoles /\ AutoControls(t)
    BY <2>2, AutoStep DEF Base
  <2>3. CASE t \in Consoles /\ (StepControls(t) \/ StopRemoves(t))
    BY <2>3, RequestStep DEF Base
  <2>4. CASE t \in Consoles /\ StudyAnswers(t)
    BY <2>4, StudyStep DEF Base
  <2>5. QED
    BY <2>1, <2>2, <2>3, <2>4
<1>6. study' \in [Consoles -> [wait : SUBSET Faults, drop : SUBSET Faults]]
  <2>1. NoStudy \in [wait : SUBSET Faults, drop : SUBSET Faults]
    BY DEF NoStudy
  <2>2. study' = study \/ (t \in Consoles /\ study' = [study EXCEPT ![t] = NoStudy])
    BY DEF AlarmAdded, AutoControls, StepControls, StopRemoves, StudyAnswers
  <2>3. QED
    BY <2>1, <2>2 DEF Base, TypesHold
<1>7. LockHeld' /\ task_list_mutex' \in {"none", "pass"} \cup Consoles
  <2>1. Idle.op = "idle"
    BY DEF Idle
  <2>2. CASE t \in Consoles /\ AutoControls(t)
    <3>1. work[t].op = "auto" /\ task_list_mutex' = "none"
      BY <2>2 DEF AutoControls
    <3>2. QED
      BY <2>1, <2>2, <3>1, <1>3, LockGivenBack DEF Adders
  <2>3. CASE ~(t \in Consoles /\ AutoControls(t))
    <3>1. UNCHANGED task_list_mutex
      BY <2>3 DEF AlarmAdded, StepControls, StopRemoves, StudyAnswers
    <3>2. t = "alarm" \/ work[t].op \in {"step", "stop", "wait"}
      BY <2>3 DEF StepControls, StopRemoves, StudyAnswers
    <3>3. \A c \in Consoles : work'[c].op \in {"auto", "study"} <=> work[c].op \in {"auto", "study"}
      BY <2>1, <3>2, <1>3, PoolAssumption DEF Adders
    <3>4. QED
      BY <3>1, <3>3, LockCarried
  <2>4. QED
    BY <2>2, <2>3
<1>8. QED
  BY <1>3, <1>4, <1>5, <1>6, <1>7 DEF Quiet, RestKept, Base, TypesHold, database

\* A request that leaves the list to a later moment, or removes a group at once.
LEMMA AsksQuiet ==
  ASSUME Base, NEW c \in Consoles, PassLast(c) \/ Stop(c)
  PROVE  Quiet /\ RestKept
<1>1. c \in Adders
  BY DEF Adders
<1>2. PICK g \in Known : archived' = [archived EXCEPT ![g] = "FINISH"] \/ archived' = [archived EXCEPT ![g] = "STOP"]
  BY DEF PassLast, Stop
<1>3. archived' \in [Faults -> {"no", "STOP", "FINISH"}]
  BY <1>2 DEF Base, TypesHold
<1>4. UNCHANGED <<unlinked, task_list_mutex, started, group_of, study>>
  BY DEF PassLast, Stop, memory
<1>5. CASE PassLast(c)
  <2>1. ListStep
    BY <1>5, RequestStep DEF Base
  <2>2. UNCHANGED work
    BY <1>5 DEF PassLast
  <2>3. CallsTyped /\ CallsKeep /\ CallsGoOn
    BY <2>2, NoneWritten DEF Base
  <2>4. LockHeld' /\ task_list_mutex' \in {"none", "pass"} \cup Consoles
    BY <2>2, <1>4, LockCarried
  <2>5. QED
    BY <1>3, <1>4, <2>1, <2>3, <2>4 DEF Quiet, RestKept, Base, TypesHold
<1>6. CASE Stop(c)
  <2>1. ListStep
    BY <1>6, MemoryKept DEF Stop, Base
  <2>2. PICK x \in Known : work' = [work EXCEPT ![c] = [Idle EXCEPT !.op = "stop", !.group = x]]
    BY <1>6 DEF Stop
  <2> DEFINE w == [Idle EXCEPT !.op = "stop", !.group = x]
  <2>3. w \in Calls /\ w.op = "stop" /\ w.todo = <<>> /\ w.proc = NoProc
    <3>1. Idle \in Calls /\ Idle.todo = <<>> /\ Idle.proc = NoProc
      BY <1>1, IdleCall DEF Idle
    <3>2. x \in 0..MaxStart
      BY PoolAssumption DEF Known, Faults
    <3>3. QED
      BY <3>1, <3>2 DEF Calls
  <2>4. work' = [work EXCEPT ![c] = w] /\ work[c] = Idle
    BY <2>2, <1>6 DEF Stop, Asks
  <2> HIDE DEF w
  <2>5. Pending(w) = {} /\ Distinct(w.todo)
    BY <2>3, NothingPending
  <2>6. Fits(c, w)
    BY <2>3, <2>5, PoolAssumption DEF Fits, NoProc, Pushed
  <2>7. GoesOn(w, work[c])
    BY <2>3, <2>5 DEF GoesOn
  <2>8. KeepsProcessor(w, work[c])
    BY <2>3, <2>4 DEF KeepsProcessor, Idle
  <2>9. /\ CallsTyped /\ CallsKeep /\ CallsGoOn
        /\ \A u \in Adders : work'[u] = IF u = c THEN w ELSE work[u]
    BY <1>1, <2>3, <2>4, <2>6, <2>7, <2>8, OneWritten DEF Base
  <2>10. \A d \in Consoles : work'[d].op \in {"auto", "study"} <=> work[d].op \in {"auto", "study"}
    BY <2>3, <2>4, <2>9 DEF Adders, Idle
  <2>11. LockHeld' /\ task_list_mutex' \in {"none", "pass"} \cup Consoles
    BY <2>10, <1>4, LockCarried
  <2>12. QED
    BY <1>3, <1>4, <2>1, <2>9, <2>11 DEF Quiet, RestKept, Base, TypesHold
<1>7. QED
  BY <1>5, <1>6

\* A study has added all its faults, or waits for their groups.
LEMMA WaitQuiet ==
  ASSUME Base, NEW c \in Consoles, StudyAdded(c) \/ StudyLooks(c)
  PROVE  Quiet /\ RestKept
<1>1. c \in Adders /\ work[c] \in Calls /\ Fits(c, work[c])
  BY DEF Adders, Base, TypesHold, CallsFit
<1>2. UNCHANGED <<unlinked, started, group_of, archived>> /\ ListStep
  BY MemoryKept DEF StudyAdded, StudyLooks, memory, database, Base
<1>3. CASE StudyAdded(c)
  <2> DEFINE w == [work[c] EXCEPT !.op = "wait"]
  <2>1. /\ work' = [work EXCEPT ![c] = w]
        /\ work[c].op = "study" /\ work[c].todo = <<>>
        /\ task_list_mutex' = "none" /\ UNCHANGED study
    BY <1>3 DEF StudyAdded, Adding
  <2>2. w \in Calls /\ w.op = "wait" /\ w.todo = <<>> /\ w.proc = NoProc /\ work[c].proc = NoProc
    BY <1>1, <2>1 DEF Calls, Fits
  <2> HIDE DEF w
  <2>3. Pending(w) = {} /\ Distinct(w.todo)
    BY <2>2, NothingPending
  <2>4. Fits(c, w)
    BY <2>2, <2>3, PoolAssumption DEF Fits, NoProc, Pushed
  <2>5. GoesOn(w, work[c])
    BY <2>2, <2>3 DEF GoesOn
  <2>6. KeepsProcessor(w, work[c])
    BY <2>2 DEF KeepsProcessor
  <2>7. /\ CallsTyped /\ CallsKeep /\ CallsGoOn
        /\ \A u \in Adders : work'[u] = IF u = c THEN w ELSE work[u]
    BY <1>1, <2>1, <2>2, <2>4, <2>5, <2>6, OneWritten DEF Base
  <2>8. LockHeld' /\ task_list_mutex' \in {"none", "pass"} \cup Consoles
    BY <2>1, <2>2, <2>7, LockGivenBack DEF Adders
  <2>9. QED
    BY <1>2, <2>1, <2>7, <2>8 DEF Quiet, RestKept, Base, TypesHold
<1>4. CASE StudyLooks(c)
  <2>1. UNCHANGED <<work, task_list_mutex>>
    BY <1>4 DEF StudyLooks
  <2>2. CallsTyped /\ CallsKeep /\ CallsGoOn
    BY <2>1, NoneWritten DEF Base
  <2>3. LockHeld' /\ task_list_mutex' \in {"none", "pass"} \cup Consoles
    BY <2>1, LockCarried
  <2>4. study' \in [Consoles -> [wait : SUBSET Faults, drop : SUBSET Faults]]
    <3>1. \A i \in Planned(c) : g_lstTask[i].fault \in Faults
      BY DEF Planned, Base, TypesHold
    <3>2. {g_lstTask[i].fault : i \in {j \in Planned(c) : ~g_lstTask[j].bAuto}} \in SUBSET Faults
      BY <3>1
    <3>3. PICK D, W : D \in SUBSET Faults /\ study' = [study EXCEPT ![c] = [wait |-> @.wait \ W, drop |-> @.drop \cup D]]
      BY <3>2, <1>4 DEF StudyLooks
    <3>4. QED
      BY <3>3 DEF Base, TypesHold
  <2>5. QED
    BY <1>2, <2>2, <2>3, <2>4 DEF Quiet, RestKept, Base, TypesHold
<1>5. QED
  BY <1>3, <1>4

\* A study's fault is located, or its task is removed, and the next is taken up.
LEMMA StudyQuiet ==
  ASSUME Base, NEW c \in Consoles, StudyExec(c), ~Restarted
  PROVE  Quiet /\ RestKept
<1>1. /\ c \in Adders /\ work[c] \in Calls /\ Fits(c, work[c])
      /\ Adding(c) /\ work[c].proc = Pushed
      /\ work' = [work EXCEPT ![c] = Next1(c)]
      /\ UNCHANGED <<unlinked, task_list_mutex, started, database>>
  BY DEF StudyExec, Adders, Base, TypesHold, CallsFit
<1>2. ListStep
  BY StudyStep DEF Base
<1>3. /\ Next1(c) \in Calls /\ Fits(c, Next1(c)) /\ GoesOn(Next1(c), work[c])
      /\ Next1(c).proc = NoProc /\ Next1(c).op = work[c].op
  BY <1>1, NextCall DEF Base
<1>4. KeepsProcessor(Next1(c), work[c])
  BY <1>1, <1>3 DEF KeepsProcessor, NoProc, Pushed, Processors
<1>5. /\ CallsTyped /\ CallsKeep /\ CallsGoOn
      /\ \A u \in Adders : work'[u] = IF u = c THEN Next1(c) ELSE work[u]
  BY <1>1, <1>3, <1>4, OneWritten DEF Base
<1>6. LockHeld' /\ task_list_mutex' \in {"none", "pass"} \cup Consoles
  BY <1>1, <1>3, <1>5, LockCarried DEF Adders
<1>7. study' \in [Consoles -> [wait : SUBSET Faults, drop : SUBSET Faults]]
  <2>1. Head(work[c].todo) \in Faults
    BY <1>1 DEF Adding, Calls
  <2>2. UNCHANGED study \/ study' = [study EXCEPT ![c].wait = @ \cup {Head(work[c].todo)}]
    BY DEF StudyExec
  <2>3. \A y \in [wait : SUBSET Faults, drop : SUBSET Faults] :
          [y EXCEPT !.wait = @ \cup {Head(work[c].todo)}] \in [wait : SUBSET Faults, drop : SUBSET Faults]
    BY <2>1
  <2>4. study \in [Consoles -> [wait : SUBSET Faults, drop : SUBSET Faults]]
    BY DEF Base, TypesHold
  <2>5. QED
    BY <2>2, <2>3, <2>4
<1>8. QED
  BY <1>1, <1>2, <1>5, <1>6, <1>7 DEF Quiet, RestKept, Base, TypesHold, database

\* When the list, the calls, the faults' groups and the rest are kept, all is.
LEMMA BaseKept ==
  ASSUME Base, ListStep, CallsTyped, RestKept,
         started' \in 0..MaxStart, group_of' \in [Faults -> 0..MaxStart]
  PROVE  Base'
<1>1. g_lstTask' \in Seq(Nodes) /\ NodesWhole(g_lstTask')
  BY DEF ListStep, Leaves
<1>2. map_idle_fdir_r' \in [Processors -> BOOLEAN]
  <2>1. map_idle_fdir_r \in [Processors -> BOOLEAN]
    BY DEF Base, TypesHold
  <2>2. QED
    BY <2>1 DEF ListStep, GiveBack
<1>3. QED
  BY <1>1, <1>2 DEF Base, TypesHold, CallsTyped, RestKept, NodesWhole

\* Then no processor is lost, and none is given back twice.
LEMMA OwnershipKept ==
  ASSUME Base, Ownership, ListStep, CallsKeep, UNCHANGED unlinked
  PROVE  Ownership'
BY OwnershipCarried DEF Base, ListStep, CallsKeep

\* And no fault comes into the list again.
LEMMA OnceKept ==
  ASSUME Base, OnceInv, Quiet
  PROVE  OnceInv'
<1>1. PICK S : Leaves(g_lstTask', g_lstTask, S)
  BY DEF Quiet, ListStep
<1>2. started' = started /\ started \in Nat /\ started <= started'
  BY PoolAssumption DEF Quiet, Base, TypesHold
<1>3. /\ Early1' /\ Started1' /\ Started3' /\ Grouped1'
      /\ Fewer(g_lstTask', g_lstTask)
  BY <1>1, <1>2, ListCarried DEF Base, Quiet
<1>4. Placed' /\ Started2' /\ Grouped2'
  BY <1>2, <1>3, CallsCarried DEF Quiet, CallsGoOn
<1>5. QED
  BY <1>3, <1>4 DEF OnceInv

\* What was true stays true in every action that is quiet.
LEMMA QuietKeeps ==
  ASSUME Base, Quiet, RestKept
  PROVE  Base' /\ (Ownership => Ownership') /\ (OnceInv => OnceInv')
<1>1. started' \in 0..MaxStart /\ group_of' \in [Faults -> 0..MaxStart]
  BY DEF Base, TypesHold, Quiet
<1>2. Base'
  BY <1>1, BaseKept DEF Quiet
<1>3. QED
  BY <1>2, OwnershipKept, OnceKept DEF Quiet, RestKept

\* Calls of different consoles have their own seats.
LEMMA OwnSeats ==
  ASSUME NEW B \in SUBSET Consoles
  PROVE  Seats({}, B)
<1> DEFINE l == [i \in {} |-> i]
           b == [u \in B |-> u]
<1>1. l \in [{} -> Consoles] /\ b \in [B -> Consoles]
  OBVIOUS
<1>2. \A t, u \in B : b[t] = b[u] => t = u
  OBVIOUS
<1> USE <1>1
<1> HIDE DEF l, b
<1> SUFFICES \E k \in [{} -> Consoles], c \in [B -> Consoles] :
               /\ \A i, j \in {} : k[i] = k[j] => i = j
               /\ \A t, u \in B : c[t] = c[u] => t = u
               /\ \A i \in {}, t \in B : k[i] # c[t]
  BY DEF Seats
<1> WITNESS l \in [{} -> Consoles], b \in [B -> Consoles]
<1>3. QED
  BY <1>2

\* A call begins with faults that no task has; and no other call adds them, or
\* only other consoles do, to load their group.
LEMMA CallBegins ==
  ASSUME OnceInv, NEW t \in Adders, NEW w, Pending(work[t]) = {},
         \A u \in Adders : work'[u] = IF u = t THEN w ELSE work[u],
         UNCHANGED group_of, \A f \in 0..MaxStart : f <= started => f <= started',
         \A u \in Adders : \A i \in DOMAIN work[u].todo : work[u].todo[i] \in 0..MaxStart,
         Fewer(g_lstTask', g_lstTask),
         \A f \in Pending(w) : /\ AtIn(g_lstTask, f) = {}
                               /\ \/ ByIn(work, f) = {}
                                  \/ t \in Consoles /\ ByIn(work, f) \subseteq Consoles /\ group_of[f] # NoGroup
                               /\ group_of[f] = IF w.op \in {"auto", "step"} THEN w.group ELSE NoGroup,
         \A i \in DOMAIN w.todo : w.todo[i] <= started'
  PROVE  Placed' /\ Started2' /\ Grouped2'
<1>1. ASSUME NEW f \in Faults
      PROVE  Room(AtIn(g_lstTask', f), ByIn(work', f), group_of[f])
  <2> DEFINE A == AtIn(g_lstTask, f)
             B == ByIn(work, f)
             A2 == AtIn(g_lstTask', f)
             B2 == ByIn(work', f)
  <2>1. PICK h \in [A2 -> A] : \A i, j \in A2 : h[i] = h[j] => i = j
    BY DEF Fewer
  <2>2. CASE f \notin Pending(w)
    <3>1. B2 \in SUBSET B
      BY <2>2 DEF ByIn
    <3>2. Room(A, B, group_of[f])
      BY DEF OnceInv, Placed
    <3>3. QED
      BY <2>1, <3>1, <3>2, RoomCarried
  <2>3. CASE f \in Pending(w)
    <3>1. A2 = {}
      BY <2>1, <2>3
    <3>2. B2 \subseteq B \cup {t}
      BY DEF ByIn
    <3>3. CASE B = {}
      <4>1. PICK c \in Consoles : TRUE
        BY PoolAssumption
      <4>2. Single(A2, B2)
        BY <3>1, <3>2, <3>3 DEF Single
      <4> DEFINE l == [i \in A2 |-> c]
                 b == [u \in B2 |-> c]
      <4>3. l \in [A2 -> Consoles] /\ b \in [B2 -> Consoles]
        OBVIOUS
      <4> HIDE DEF l, b
      <4>4. Seats(A2, B2)
        BY <3>1, <4>2, <4>3 DEF Seats, Single
      <4>5. QED
        BY <4>2, <4>4 DEF Room
    <3>4. CASE t \in Consoles /\ B \subseteq Consoles /\ group_of[f] # NoGroup
      <4>1. B2 \in SUBSET Consoles
        BY <3>2, <3>4
      <4>2. Seats({}, B2)
        BY <4>1, OwnSeats
      <4>3. QED
        BY <3>1, <3>4, <4>2 DEF Room
    <3>5. QED
      BY <2>3, <3>3, <3>4
  <2>4. QED
    BY <2>2, <2>3
<1>2. Placed'
  BY <1>1 DEF Placed
<1>3. Started2'
  BY DEF OnceInv, Started2
<1>4. Grouped2'
  BY DEF OnceInv, Grouped2
<1>5. QED
  BY <1>2, <1>3, <1>4

\* The numbers in calls and list are those of faults.
LEMMA FaultNumbers ==
  ASSUME TypesHold
  PROVE  /\ \A u \in Adders : \A i \in DOMAIN work[u].todo : work[u].todo[i] \in Faults
         /\ \A u \in Adders : Pending(work[u]) \subseteq Faults
         /\ Listed(g_lstTask) \subseteq Faults
         /\ Faults \subseteq 0..MaxStart /\ 0 \notin Faults /\ started \in Nat /\ MaxStart \in Nat
<1>1. \A u \in Adders : work[u].todo \in Seq(Faults)
  BY DEF TypesHold, Calls
<1>2. \A u \in Adders : \A i \in DOMAIN work[u].todo : work[u].todo[i] \in Faults
  BY <1>1
<1>3. \A u \in Adders : Pending(work[u]) \subseteq Faults
  BY <1>2 DEF Pending
<1>4. Listed(g_lstTask) \subseteq Faults
  BY DEF TypesHold, NodesWhole, Listed, Positions
<1>5. Faults \subseteq 0..MaxStart /\ 0 \notin Faults /\ started \in Nat /\ MaxStart \in Nat
  BY PoolAssumption DEF Faults, TypesHold
<1>6. QED
  BY <1>2, <1>3, <1>4, <1>5

\* New faults are nobody's: they are numbered behind all that have been started.
LEMMA NewFaults ==
  ASSUME Base, OnceInv, NEW t \in Adders, NEW w, Pending(work[t]) = {},
         \A u \in Adders : work'[u] = IF u = t THEN w ELSE work[u],
         UNCHANGED <<memory, group_of>>, started' \in 0..MaxStart, started <= started',
         w.op \notin {"auto", "step"},
         \A i \in DOMAIN w.todo : w.todo[i] \in Faults /\ started < w.todo[i] /\ w.todo[i] <= started'
  PROVE  OnceInv'
<1>1. started \in Nat /\ started' \in Nat /\ \A f \in Faults : f \in Nat
  BY FaultNumbers, PoolAssumption DEF Base
<1>2. /\ Early1' /\ Started1' /\ Started3' /\ Grouped1'
      /\ Fewer(g_lstTask', g_lstTask)
  <2>1. Leaves(g_lstTask', g_lstTask, {})
    BY ListAsIs DEF Base, memory
  <2>2. QED
    BY <1>1, <2>1, ListCarried DEF Base
<1>3. ASSUME NEW f \in Pending(w)
      PROVE  /\ AtIn(g_lstTask, f) = {}
             /\ ByIn(work, f) = {}
             /\ group_of[f] = NoGroup
  <2>1. f \in Faults /\ started < f
    BY DEF Pending
  <2>2. ~(f <= started)
    BY <2>1, <1>1
  <2>3. AtIn(g_lstTask, f) = {}
    BY <2>2 DEF OnceInv, Started1, Listed, AtIn
  <2>4. ByIn(work, f) = {}
    BY <2>2 DEF OnceInv, Started2, Pending, ByIn
  <2>5. group_of[f] = NoGroup
    BY <2>1, <2>2 DEF OnceInv, Started3
  <2>6. QED
    BY <2>3, <2>4, <2>5
<1>4. \A f \in 0..MaxStart : f <= started => f <= started'
  BY <1>1, PoolAssumption
<1>5. \A u \in Adders : \A i \in DOMAIN work[u].todo : work[u].todo[i] \in 0..MaxStart
  BY FaultNumbers DEF Base
<1>6. Placed' /\ Started2' /\ Grouped2'
  BY <1>2, <1>3, <1>4, <1>5, CallBegins
<1>7. QED
  BY <1>2, <1>6 DEF OnceInv

\* The alarm thread has taken a start signal, or a study is begun: their faults
\* are new ones.
LEMMA StartKeeps ==
  ASSUME Base, AlarmStart \/ \E c \in Consoles : Study(c)
  PROVE  Base' /\ (Ownership => Ownership') /\ (OnceInv => OnceInv')
<1>1. PICK t \in Adders, n \in Nat \ {0} :
        /\ work[t] = Idle /\ started + n <= MaxStart /\ started' = started + n
        /\ UNCHANGED <<memory, database, study>>
        /\ \/ /\ t = "alarm" /\ n = 1 /\ UNCHANGED task_list_mutex
              /\ work' = [work EXCEPT ![t] = [Idle EXCEPT !.op = "alarm", !.todo = <<started + 1>>]]
           \/ /\ t \in Consoles /\ task_list_mutex = "none" /\ task_list_mutex' = t
              /\ work' = [work EXCEPT ![t] = [Idle EXCEPT !.op = "study", !.todo = [i \in 1..n |-> started + i]]]
  <2>1. CASE AlarmStart
    <3>1. started + 1 <= MaxStart /\ 1 \in Nat \ {0}
      BY <2>1, PoolAssumption DEF AlarmStart, Base, TypesHold
    <3>2. "alarm" \in Adders
      BY DEF Adders
    <3>3. QED
      BY <2>1, <3>1, <3>2 DEF AlarmStart
  <2>2. CASE \E c \in Consoles : Study(c)
    <3>1. PICK c \in Consoles : Study(c)
      BY <2>2
    <3>2. StudySize \in Nat \ {0} /\ c \in Adders
      BY PoolAssumption DEF Adders
    <3>3. QED
      BY <3>1, <3>2 DEF Study, Asks
  <2>3. QED
    BY <2>1, <2>2
<1> DEFINE fs == [i \in 1..n |-> started + i]
           op == IF t = "alarm" THEN "alarm" ELSE "study"
           w == [Idle EXCEPT !.op = op, !.todo = fs]
<1>2. started \in Nat /\ n \in Nat /\ n # 0 /\ started + n <= MaxStart /\ MaxStart \in Nat
  BY <1>1, FaultNumbers DEF Base
<1>3. \A i \in 1..n : started + i \in Faults /\ started < started + i /\ started + i <= started + n
  BY <1>2 DEF Faults
<1>4. fs \in Seq(Faults) /\ DOMAIN fs = 1..n /\ fs # <<>>
  <2>1. fs \in [1..n -> Faults]
    BY <1>3
  <2>2. 1 \in 1..n
    BY <1>2
  <2>3. fs \in Seq(Faults) /\ DOMAIN fs = 1..n
    BY <1>2, <2>1
  <2>4. QED
    BY <2>2, <2>3
<1>5. Distinct(fs)
  BY <1>2, <1>4 DEF Distinct
<1>6. work' = [work EXCEPT ![t] = w]
  <2>1. "alarm" \notin Consoles
    BY PoolAssumption
  <2>2. CASE t = "alarm"
    <3>1. fs = <<started + 1>>
      BY <1>1, <1>4, <2>1, <2>2
    <3>2. QED
      BY <1>1, <2>1, <2>2, <3>1
  <2>3. CASE t # "alarm"
    BY <1>1, <2>3
  <2>4. QED
    BY <2>2, <2>3
<1>7. \A i \in DOMAIN fs : fs[i] \in Faults /\ started < fs[i] /\ fs[i] <= started'
  BY <1>1, <1>3, <1>4
<1> HIDE DEF fs
<1>8. w \in Calls /\ w.op = op /\ w.todo = fs /\ w.proc = NoProc
  BY <1>4, IdleCall DEF Calls, Idle
<1> HIDE DEF w
<1>9. Fits(t, w)
  BY <1>1, <1>4, <1>5, <1>8 DEF Fits, NoProc, Pushed
<1>10. KeepsProcessor(w, work[t])
  BY <1>1, <1>8 DEF KeepsProcessor, Idle
<1>11. /\ CallsTyped /\ CallsKeep
       /\ \A u \in Adders : work'[u] = IF u = t THEN w ELSE work[u]
  BY <1>6, <1>8, <1>9, <1>10, OneWritten DEF Base
<1>12. LockHeld' /\ task_list_mutex' \in {"none", "pass"} \cup Consoles
  <2>1. CASE t = "alarm"
    <3>1. "alarm" \notin Consoles
      BY PoolAssumption
    <3>2. QED
      BY <1>1, <1>11, <2>1, <3>1, LockCarried DEF Adders
  <2>2. CASE t # "alarm"
    BY <1>1, <1>8, <1>11, <2>2, LockTaken DEF Adders
  <2>3. QED
    BY <2>1, <2>2
<1>13. RestKept
  BY <1>1, <1>12 DEF RestKept, memory, database, Base, TypesHold
<1>14. ListStep
  BY <1>1, MemoryKept DEF Base
<1>15. started' \in 0..MaxStart /\ started <= started' /\ group_of' \in [Faults -> 0..MaxStart]
  BY <1>1, <1>2 DEF database, Base, TypesHold
<1>16. Base' /\ (Ownership => Ownership')
  BY <1>11, <1>13, <1>14, <1>15, BaseKept, OwnershipKept DEF RestKept
<1>17. Pending(work[t]) = {}
  BY <1>1, IdleCall
<1>18. OnceInv => OnceInv'
  BY <1>1, <1>7, <1>8, <1>11, <1>15, <1>17, NewFaults DEF database
<1>19. QED
  BY <1>16, <1>18

\* What a group is loaded with: its faults, each once.
LEMMA LoadedFaults ==
  ASSUME TypesHold, NEW g
  PROVE  /\ Numbered(FaultsOf(g)) \in Seq(Faults)
         /\ Distinct(Numbered(FaultsOf(g)))
         /\ \A i \in DOMAIN Numbered(FaultsOf(g)) :
              LET f == Numbered(FaultsOf(g))[i] IN f \in Faults /\ group_of[f] = g
<1> DEFINE K == FaultsOf(g)
           m == Cardinality(K)
           fs == Numbered(K)
<1>1. K \in SUBSET (1..MaxStart) /\ \A f \in K : f \in Faults /\ group_of[f] = g
  BY DEF FaultsOf, TypesHold, Faults
<1>2. MaxStart \in Nat /\ \A f \in K : f \in Int
  BY <1>1, PoolAssumption
<1> HIDE DEF K
<1>3. /\ m \in Nat /\ fs \in [1..m -> K]
      /\ \A i, j \in 1..m : i < j => fs[i] < fs[j]
  BY <1>1, <1>2, NumberedProperties
<1> HIDE DEF m, fs
<1>4. fs \in Seq(Faults)
  <2>1. fs \in [1..m -> Faults]
    BY <1>1, <1>3
  <2>2. QED
    BY <2>1, <1>3
<1>5. Distinct(fs)
  <2> SUFFICES ASSUME NEW i \in 1..m, NEW j \in 1..m, fs[i] = fs[j], i # j
               PROVE  FALSE
    BY <1>3 DEF Distinct
  <2>1. i < j \/ j < i
    BY <1>3
  <2>2. fs[i] \in Int /\ fs[j] \in Int
    BY <1>2, <1>3
  <2>3. QED
    BY <2>1, <2>2, <1>3
<1>6. \A i \in DOMAIN fs : fs[i] \in Faults /\ group_of[fs[i]] = g
  BY <1>1, <1>3
<1>7. QED
  BY <1>4, <1>5, <1>6 DEF fs, K

\* A group is loaded that is not in the list; other consoles may be loading it.
LEMMA LoadKeeps ==
  ASSUME Base, NEW c \in Consoles, SetAuto(c) \/ Step(c)
  PROVE  Base' /\ (Ownership => Ownership') /\ (OnceInv => OnceInv')
<1>1. PICK g \in Known, op \in {"auto", "step"} :
        /\ op \in Requests /\ work[c] = Idle /\ Load(c, op, g)
        /\ op = "auto" => SetAuto(c)
        /\ op = "step" => Step(c)
  <2>1. CASE SetAuto(c)
    BY <2>1 DEF SetAuto, Asks
  <2>2. CASE Step(c)
    BY <2>2 DEF Step, Asks
  <2>3. QED
    BY <2>1, <2>2
<1>2. UNCHANGED <<unlinked, started, group_of, archived, study>>
  BY <1>1 DEF SetAuto, Step, memory, database
<1> DEFINE fs == IF InMemory(g) THEN <<>> ELSE Numbered(FaultsOf(g))
           w == [Idle EXCEPT !.op = op, !.group = g, !.todo = fs]
<1>3. work' = [work EXCEPT ![c] = w]
  BY <1>1 DEF Load
<1>4. /\ fs \in Seq(Faults) /\ Distinct(fs)
      /\ \A i \in DOMAIN fs : fs[i] \in Faults /\ group_of[fs[i]] = g /\ ~InMemory(g)
  <2>1. CASE InMemory(g)
    BY <2>1 DEF Distinct
  <2>2. CASE ~InMemory(g)
    BY <2>2, LoadedFaults DEF Base
  <2>3. QED
    BY <2>1, <2>2
<1>5. c \in Adders /\ c # "alarm" /\ g \in Faults /\ g \in 0..MaxStart /\ g # NoGroup
  BY PoolAssumption DEF Adders, Known, Faults, NoGroup
<1> HIDE DEF fs
<1>6. w \in Calls /\ w.op = op /\ w.group = g /\ w.todo = fs /\ w.proc = NoProc
  BY <1>4, <1>5, IdleCall DEF Calls, Idle
<1> HIDE DEF w
<1>7. Fits(c, w)
  BY <1>1, <1>4, <1>5, <1>6 DEF Fits, NoProc, Pushed
<1>8. KeepsProcessor(w, work[c])
  BY <1>1, <1>6 DEF KeepsProcessor, Idle
<1>9. /\ CallsTyped /\ CallsKeep
      /\ \A u \in Adders : work'[u] = IF u = c THEN w ELSE work[u]
  BY <1>3, <1>5, <1>6, <1>7, <1>8, OneWritten DEF Base
<1>10. ListStep
  <2>1. CASE op = "auto"
    BY <2>1, <1>1, AutoStep DEF Base
  <2>2. CASE op = "step"
    BY <2>2, <1>1, MemoryKept DEF Step, Base
  <2>3. QED
    BY <2>1, <2>2
<1>11. LockHeld' /\ task_list_mutex' \in {"none", "pass"} \cup Consoles
  <2>1. CASE op = "auto"
    BY <2>1, <1>1, <1>6, <1>9, LockTaken DEF SetAuto, Adders
  <2>2. CASE op = "step"
    BY <2>2, <1>1, <1>6, <1>9, LockCarried DEF Step, Adders, Idle
  <2>3. QED
    BY <2>1, <2>2
<1>12. RestKept
  BY <1>2, <1>11 DEF RestKept, Base, TypesHold
<1>13. Base' /\ (Ownership => Ownership')
  <2>1. started' \in 0..MaxStart /\ group_of' \in [Faults -> 0..MaxStart]
    BY <1>2 DEF Base, TypesHold
  <2>2. QED
    BY <2>1, <1>2, <1>9, <1>10, <1>12, BaseKept, OwnershipKept
<1>14. ASSUME OnceInv
       PROVE  OnceInv'
  <2>1. PICK S : Leaves(g_lstTask', g_lstTask, S)
    BY <1>10 DEF ListStep
  <2>2. started' = started /\ started \in Nat /\ started <= started'
    BY <1>2, FaultNumbers DEF Base
  <2>3. /\ Early1' /\ Started1' /\ Started3' /\ Grouped1'
        /\ Fewer(g_lstTask', g_lstTask)
    BY <2>1, <2>2, <1>2, <1>14, ListCarried DEF Base
  <2>4. ASSUME NEW f \in Pending(w)
        PROVE  /\ AtIn(g_lstTask, f) = {}
               /\ ByIn(work, f) \subseteq Consoles /\ group_of[f] # NoGroup
               /\ group_of[f] = IF w.op \in {"auto", "step"} THEN w.group ELSE NoGroup
    <3>1. f \in Faults /\ group_of[f] = g /\ ~InMemory(g)
      BY <1>4, <1>6 DEF Pending
    <3>2. AtIn(g_lstTask, f) = {}
      <4> SUFFICES ASSUME NEW i \in Positions(g_lstTask), g_lstTask[i].fault = f
                   PROVE  FALSE
        BY DEF AtIn
      <4>1. g_lstTask[i].group = g
        BY <3>1, <1>5, <1>14 DEF OnceInv, Grouped1
      <4>2. i \in DOMAIN g_lstTask /\ IsFault(g_lstTask[i])
        BY DEF Positions
      <4>3. QED
        BY <4>1, <4>2, <3>1 DEF InMemory, Tasks, ToSet
    <3>3. ASSUME NEW u \in Adders, f \in Pending(work[u])
          PROVE  u \in Consoles
      <4>1. work[u].op \in {"auto", "step"}
        BY <3>1, <3>3, <1>5, <1>14 DEF OnceInv, Grouped2
      <4>2. QED
        BY <4>1 DEF Base, CallsFit, Fits, Adders
    <3>4. QED
      BY <3>1, <3>2, <3>3, <1>5, <1>6, <1>1 DEF ByIn
  <2>5. \A i \in DOMAIN w.todo : w.todo[i] <= started'
    BY <1>4, <1>5, <1>6, <1>14, <2>2 DEF OnceInv, Started3
  <2>6. \A f \in 0..MaxStart : f <= started => f <= started'
    BY <2>2
  <2>7. \A u \in Adders : \A i \in DOMAIN work[u].todo : work[u].todo[i] \in 0..MaxStart
    BY FaultNumbers DEF Base
  <2>8. Pending(work[c]) = {}
    BY <1>1, <1>5, IdleCall
  <2>9. Placed' /\ Started2' /\ Grouped2'
    BY <1>2, <1>5, <1>9, <1>14, <2>3, <2>4, <2>5, <2>6, <2>7, <2>8, CallBegins
  <2>10. QED
    BY <2>3, <2>9 DEF OnceInv
<1>15. QED
  BY <1>13, <1>14

\* After a restart there is no task and no call, and no processor is in use.
LEMMA RestartKeeps ==
  ASSUME Base, Restarted
  PROVE  Base' /\ Ownership' /\ (OnceInv => OnceInv')
<1>1. /\ g_lstTask' = <<>> /\ unlinked' = {} /\ task_list_mutex' = "none" /\ UNCHANGED <<started, database>>
      /\ \A p \in Processors : map_idle_fdir_r'[p] = FALSE
      /\ map_idle_fdir_r' \in [Processors -> BOOLEAN]
      /\ study' \in [Consoles -> [wait : SUBSET Faults, drop : SUBSET Faults]]
  BY DEF Restarted, NoStudy
<1>2. /\ work' \in [Adders -> Calls]
      /\ \A t \in Adders : work'[t] = Idle /\ Fits(t, work'[t]) /\ Pending(work'[t]) = {}
  <2>1. work' = [t \in Adders |-> Idle]
    BY DEF Restarted
  <2>2. Idle \in Calls
    BY <2>1, IdleCall DEF Adders
  <2>3. \A t \in Adders : Fits(t, Idle) /\ Pending(Idle) = {}
    BY IdleCall
  <2>4. QED
    BY <2>1, <2>2, <2>3
<1>3. Idle.todo = <<>> /\ Idle.proc = NoProc /\ Idle.op = "idle" /\ NoProc \notin Processors
  BY DEF Idle, NoProc, Processors
<1>4. Positions(g_lstTask') = {} /\ Listed(g_lstTask') = {}
  BY <1>1 DEF Positions, Listed
<1>5. Base'
  <2>1. g_lstTask' \in Seq(Nodes) /\ NodesWhole(g_lstTask')
    BY <1>1 DEF NodesWhole
  <2>2. TypesHold'
    BY <1>1, <1>2, <2>1 DEF TypesHold, Base, database, NodesWhole
  <2>3. LockHeld'
    BY <1>1, <1>2, <1>3, PoolAssumption DEF LockHeld, Adders
  <2>4. CallsFit'
    BY <1>2 DEF CallsFit
  <2>5. QED
    BY <2>2, <2>3, <2>4 DEF Base
<1>6. Ownership'
  BY <1>1, <1>2, <1>3, <1>4 DEF Ownership, Owned1, Owned2, Owned3, Owned4, Owned5, Owned6, InUse
<1>7. OnceInv => OnceInv'
  <2>1. Early1' /\ Started1' /\ Started2' /\ Grouped1' /\ Grouped2'
    BY <1>2, <1>3, <1>4 DEF Early1, Started1, Started2, Grouped1, Grouped2
  <2>2. Started3 => Started3'
    BY <1>1 DEF Started3, database
  <2>3. \A f \in Faults : AtIn(g_lstTask', f) = {} /\ ByIn(work', f) = {}
    BY <1>2, <1>4 DEF AtIn, ByIn
  <2>4. Placed'
    BY <2>3, EmptyRoom DEF Placed
  <2>5. QED
    BY <2>1, <2>2, <2>4 DEF OnceInv
<1>8. QED
  BY <1>5, <1>6, <1>7

\* A free processor is taken: it was in no one's use.
LEMMA TakeKeeps ==
  ASSUME Base, NEW t \in Adders, TakeProcessor(t)
  PROVE  Base' /\ (Ownership => Ownership') /\ (OnceInv => OnceInv')
<1> DEFINE p == FirstOf(Free)
           w == [work[t] EXCEPT !.proc = p]
<1>1. /\ work[t].todo # <<>> /\ work[t].proc = NoProc /\ Free # {}
      /\ map_idle_fdir_r' = [map_idle_fdir_r EXCEPT ![p] = TRUE]
      /\ work' = [work EXCEPT ![t] = w]
      /\ UNCHANGED <<g_lstTask, unlinked, task_list_mutex, started, database, study>>
  BY DEF TakeProcessor, Adding
<1>2. p \in Processors /\ ~map_idle_fdir_r[p]
  <2>1. Free \in SUBSET (1..MAX_FAULT) /\ MAX_FAULT \in Nat
    BY PoolAssumption DEF Free, Processors
  <2>2. p \in Free
    BY <2>1, <1>1, FirstOfFirst
  <2>3. QED
    BY <2>2 DEF Free
<1> HIDE DEF p
<1>3. work[t] \in Calls /\ Fits(t, work[t])
  BY DEF Base, TypesHold, CallsFit
<1>4. w \in Calls /\ w.todo = work[t].todo /\ w.op = work[t].op /\ w.group = work[t].group /\ w.proc = p
  BY <1>2, <1>3 DEF Calls
<1> HIDE DEF w
<1>5. Pushed \notin Processors /\ NoProc \notin Processors /\ NoProc # Pushed
  BY DEF Pushed, NoProc, Processors
<1>6. Fits(t, w)
  BY <1>1, <1>2, <1>3, <1>4, <1>5 DEF Fits
<1>7. GoesOn(w, work[t])
  BY <1>1, <1>2, <1>4, <1>5 DEF GoesOn, Pending
<1>8. /\ CallsTyped /\ CallsGoOn
      /\ \A u \in Adders : work'[u] = IF u = t THEN w ELSE work[u]
  BY <1>1, <1>4, <1>6, <1>7, OneWritten DEF Base
<1>9. Base'
  <2>1. LockHeld' /\ task_list_mutex' \in {"none", "pass"} \cup Consoles
    BY <1>1, <1>4, <1>8, LockCarried DEF Adders
  <2>2. map_idle_fdir_r' \in [Processors -> BOOLEAN]
    BY <1>1, <1>2 DEF Base, TypesHold
  <2>3. QED
    BY <1>1, <1>8, <2>1, <2>2 DEF Base, TypesHold, CallsTyped, database, NodesWhole
<1>10. ASSUME Ownership
       PROVE  Ownership'
  <2>1. \A q \in Processors : map_idle_fdir_r'[q] <=> q = p \/ map_idle_fdir_r[q]
    BY <1>1, <1>2 DEF Base, TypesHold
  <2>2. ~InUse(p)
    BY <1>2, <1>10 DEF Ownership, Owned4
  <2>3. /\ \A u \in Adders : work[u].proc # p
        /\ \A i \in Positions(g_lstTask) : g_lstTask[i].fdir_r # p
        /\ \A n \in unlinked : n.fdir_r # p
    BY <2>2 DEF InUse
  <2>4. Owned1'
    BY <1>1, <1>10 DEF Ownership, Owned1
  <2>5. Owned2'
    BY <1>4, <1>8, <1>10, <2>3 DEF Ownership, Owned2
  <2>6. Owned3'
    BY <1>1, <1>4, <1>8, <1>10, <2>3 DEF Ownership, Owned3
  <2>7. \A q \in Processors : InUse(q)' <=> q = p \/ InUse(q)
    BY <1>1, <1>4, <1>5, <1>8 DEF InUse
  <2>8. Owned4'
    BY <2>1, <2>7, <1>10 DEF Ownership, Owned4
  <2>9. Owned5' /\ Owned6'
    BY <1>1, <1>4, <1>8, <1>10, <2>3 DEF Ownership, Owned5, Owned6
  <2>10. QED
    BY <2>4, <2>5, <2>6, <2>8, <2>9 DEF Ownership
<1>11. ASSUME OnceInv
       PROVE  OnceInv'
  <2>1. started' = started /\ started \in Nat /\ started <= started'
    BY <1>1, FaultNumbers DEF Base
  <2>2. Leaves(g_lstTask', g_lstTask, {})
    BY <1>1, ListAsIs DEF Base
  <2>3. /\ Early1' /\ Started1' /\ Started3' /\ Grouped1'
        /\ Fewer(g_lstTask', g_lstTask)
    BY <1>1, <1>11, <2>1, <2>2, ListCarried DEF Base, database
  <2>4. Placed' /\ Started2' /\ Grouped2'
    BY <1>1, <1>8, <1>11, <2>3, CallsCarried DEF CallsGoOn, database
  <2>5. QED
    BY <2>3, <2>4 DEF OnceInv
<1>12. QED
  BY <1>9, <1>10, <1>11

\* The task that AddTask makes: of the fault that is taken up, with the
\* processor that has been taken, and of the group that is being loaded.
LEMMA TaskMade ==
  ASSUME Base, NEW t \in Adders, Adding(t), work[t].proc \in Processors, NEW n \in NewTask(t)
  PROVE  /\ n \in Nodes /\ IsFault(n)
         /\ n.fault = Head(work[t].todo) /\ n.fault \in Faults
         /\ n.fdir_r = work[t].proc /\ n.fdir_r \in Processors
         /\ n.group \in 0..MaxStart
         /\ work[t].op \in {"auto", "step"} => n.group = work[t].group
         /\ n.step \in Early => work[t].op \notin {"auto", "step"}
         /\ work[t].op \in {"alarm", "study", "auto", "step"}
<1>1. work[t] \in Calls /\ Fits(t, work[t]) /\ work[t].todo # <<>> /\ work[t].proc \in Processors
  BY DEF Base, TypesHold, CallsFit, Adding
<1>2. work[t].op \in {"alarm", "study", "auto", "step"} /\ work[t].group \in 0..MaxStart
  BY <1>1 DEF Fits, Calls
<1>3. Head(work[t].todo) \in Faults
  BY <1>1 DEF Calls
<1> DEFINE f == Head(work[t].todo)
           p == work[t].proc
<1>4. \A g \in 0..MaxStart, step \in {"CALC", "CALC_ISO", "ISO"}, a \in BOOLEAN :
        LET x == FaultTask(f, g, step, a, p) IN
        x \in Nodes /\ IsFault(x) /\ x.fault = f /\ x.fdir_r = p /\ x.group = g /\ x.step = step
  <2>1. f \in 0..MaxStart /\ p \in 0..MAX_FAULT /\ NoGroup \in 0..MaxStart
    BY <1>1, <1>3, PoolAssumption DEF Faults, Processors, NoGroup
  <2> HIDE DEF f, p
  <2>2. QED
    BY <2>1 DEF FaultTask, Nodes, IsFault
<1>5. NoGroup \in 0..MaxStart
  BY PoolAssumption DEF NoGroup
<1>6. \E g \in 0..MaxStart, step \in {"CALC", "CALC_ISO", "ISO"}, a \in BOOLEAN :
        /\ n = FaultTask(f, g, step, a, p)
        /\ work[t].op \in {"auto", "step"} => g = work[t].group /\ step = "ISO"
  <2>1. CASE work[t].op = "alarm"
    BY <2>1, <1>5 DEF NewTask
  <2>2. CASE work[t].op = "study"
    BY <2>2, <1>5 DEF NewTask
  <2>3. CASE work[t].op \in {"auto", "step"}
    BY <2>3, <1>2 DEF NewTask
  <2>4. QED
    BY <2>1, <2>2, <2>3, <1>2
<1> HIDE DEF f, p
<1>7. QED
  BY <1>1, <1>2, <1>3, <1>4, <1>6 DEF f, p, Early

\* The call when the push is over, whether the task is in the list or lost: the
\* fault is no more to be added, the processor no more the call's.
LEMMA PushedCall ==
  ASSUME Base, NEW t \in Adders, Adding(t), work[t].proc \in Processors, PushDone(t)
  PROVE  /\ CallsTyped /\ CallsGoOn
         /\ \A u \in Adders : u # t => work'[u] = work[u]
         /\ work'[t].op = work[t].op /\ work'[t].proc \notin Processors
         /\ Head(work[t].todo) \in Pending(work[t]) /\ Head(work[t].todo) \notin Pending(work'[t])
<1> DEFINE f == Head(work[t].todo)
           w == IF work[t].op = "study" THEN [work[t] EXCEPT !.proc = Pushed] ELSE Next1(t)
<1>1. work' = [work EXCEPT ![t] = w]
  BY DEF PushDone
<1>2. work[t] \in Calls /\ Fits(t, work[t]) /\ Distinct(work[t].todo) /\ work[t].todo # <<>>
  BY DEF Base, TypesHold, CallsFit, Adding, Fits
<1>3. Pushed \notin Processors /\ NoProc \notin Processors
  BY DEF Pushed, NoProc, Processors
<1>4. /\ w \in Calls /\ Fits(t, w) /\ GoesOn(w, work[t]) /\ w.op = work[t].op /\ w.proc \notin Processors
      /\ f \in Pending(work[t]) /\ f \notin Pending(w)
  <2>1. CASE work[t].op = "study"
    <3> DEFINE v == [work[t] EXCEPT !.proc = Pushed]
    <3>1. v \in Calls /\ v.op = "study" /\ v.todo = work[t].todo /\ v.group = work[t].group /\ v.proc = Pushed
      BY <1>2, <2>1 DEF Calls
    <3>2. w = v
      BY <2>1
    <3> HIDE DEF v, w
    <3>3. Fits(t, v)
      BY <1>2, <2>1, <3>1 DEF Fits
    <3>4. Pending(v) \subseteq Pending(work[t])
      BY <3>1 DEF Pending
    <3>5. GoesOn(v, work[t])
      BY <2>1, <3>1, <3>4 DEF GoesOn
    <3>6. 1 \in DOMAIN work[t].todo /\ f = work[t].todo[1]
      BY <1>2 DEF Calls
    <3> HIDE DEF f
    <3>7. f \in Pending(work[t])
      BY <1>3, <3>6 DEF Pending
    <3>8. f \notin Pending(v)
      BY <1>2, <3>1, <3>6 DEF Pending, Distinct
    <3>9. QED
      BY <1>3, <2>1, <3>1, <3>2, <3>3, <3>5, <3>7, <3>8
  <2>2. CASE work[t].op # "study"
    <3>1. w = Next1(t)
      BY <2>2
    <3>2. work[t].proc # Pushed
      BY <1>3
    <3> HIDE DEF w
    <3>3. QED
      BY <1>3, <3>1, <3>2, NextCall DEF Base
  <2>3. QED
    BY <2>1, <2>2
<1> HIDE DEF w, f
<1>5. /\ CallsTyped /\ CallsGoOn
      /\ \A u \in Adders : work'[u] = IF u = t THEN w ELSE work[u]
  BY <1>1, <1>4, OneWritten DEF Base
<1>6. QED
  BY <1>4, <1>5 DEF f

\* The task goes to the end: its processor and its fault pass from the call to
\* the list.
LEMMA PushKeeps ==
  ASSUME Base, NEW t \in Adders, Push(t)
  PROVE  Base' /\ (Ownership => Ownership') /\ (OnceInv => OnceInv')
<1>1. PICK n \in NewTask(t) : g_lstTask' = Append(g_lstTask, n)
  BY DEF Push
<1>2. /\ n \in Nodes /\ IsFault(n)
      /\ n.fault = Head(work[t].todo) /\ n.fault \in Faults
      /\ n.fdir_r = work[t].proc /\ n.fdir_r \in Processors
      /\ work[t].op \in {"auto", "step"} => n.group = work[t].group
      /\ n.step \in Early => work[t].op \notin {"auto", "step"}
  BY <1>1, TaskMade DEF Push
<1>3. UNCHANGED <<unlinked, map_idle_fdir_r, task_list_mutex, started, database, study>>
  BY DEF Push
<1>4. /\ CallsTyped /\ CallsGoOn
      /\ \A u \in Adders : u # t => work'[u] = work[u]
      /\ work'[t].op = work[t].op /\ work'[t].proc \notin Processors
      /\ n.fault \in Pending(work[t]) /\ n.fault \notin Pending(work'[t])
  BY <1>2, PushedCall DEF Push
<1> DEFINE ts == g_lstTask
           us == g_lstTask'
           m == Len(ts) + 1
<1>8. /\ us \in Seq(Nodes) /\ DOMAIN us = 1..m /\ DOMAIN ts = 1..Len(ts) /\ Len(ts) \in Nat
      /\ us[m] = n /\ \A i \in DOMAIN ts : us[i] = ts[i] /\ i \in DOMAIN us
  BY <1>1, <1>2, AppendProperties DEF Base, TypesHold
<1>9. \A i \in DOMAIN us : i = m \/ i \in DOMAIN ts
  BY <1>8
<1>10. m \in DOMAIN us
  BY <1>8
<1> HIDE DEF m
<1>11. /\ \A i \in Positions(us) : (i = m /\ us[i] = n) \/ (i \in Positions(ts) /\ us[i] = ts[i])
       /\ \A i \in Positions(ts) : i \in Positions(us) /\ us[i] = ts[i]
       /\ m \in Positions(us) /\ us[m] = n
  BY <1>2, <1>8, <1>9, <1>10 DEF Positions
<1>12. Base'
  <2>1. NodesWhole(us)
    <3>1. SUFFICES ASSUME NEW i \in DOMAIN us
                   PROVE  IF IsFault(us[i])
                          THEN us[i].fault \in Faults /\ us[i].fdir_r \in Processors
                          ELSE /\ us[i].fault = 0 /\ us[i].fdir_r = NoProc
                               /\ us[i].step \notin {"CALC", "CALC_ISO"}
      BY DEF NodesWhole
    <3>2. CASE i = m
      BY <1>2, <1>8, <3>2
    <3>3. CASE i \in DOMAIN ts
      BY <1>8, <3>3 DEF Base, TypesHold, NodesWhole
    <3>4. QED
      BY <1>9, <3>2, <3>3
  <2>2. LockHeld' /\ task_list_mutex' \in {"none", "pass"} \cup Consoles
    BY <1>3, <1>4, LockCarried DEF Adders
  <2>3. QED
    BY <1>3, <1>4, <1>8, <2>1, <2>2 DEF Base, TypesHold, CallsTyped, database, NodesWhole
<1>13. ASSUME Ownership
       PROVE  Ownership'
  <2>1. \A i \in Positions(ts) : ts[i].fdir_r \in Processors /\ ts[i].fdir_r # n.fdir_r
    <3>1. \A i \in Positions(ts) : ts[i].fdir_r \in Processors
      BY DEF Base, TypesHold, NodesWhole, Positions
    <3>2. \A i \in Positions(ts) : work[t].proc # ts[i].fdir_r
      BY <1>13 DEF Ownership, Owned3
    <3>3. QED
      BY <3>1, <3>2, <1>2
  <2>2. Owned1'
    <3> SUFFICES ASSUME NEW i \in Positions(us), NEW j \in Positions(us), us[i].fdir_r = us[j].fdir_r
                 PROVE  i = j
      BY DEF Owned1
    <3>1. CASE i \in Positions(ts) /\ us[i] = ts[i] /\ j \in Positions(ts) /\ us[j] = ts[j]
      BY <3>1, <1>13 DEF Ownership, Owned1
    <3>2. QED
      BY <3>1, <1>11, <2>1
  <2>3. \A u \in Adders : u # t => work'[u] = work[u] /\ work'[u].proc # n.fdir_r
    BY <1>2, <1>4, <1>13 DEF Ownership, Owned2
  <2>4. Owned2'
    BY <1>4, <1>13, <2>3 DEF Ownership, Owned2
  <2>5. Owned3'
    <3> SUFFICES ASSUME NEW u \in Adders, NEW i \in Positions(us), work'[u].proc = us[i].fdir_r
                 PROVE  FALSE
      BY DEF Owned3
    <3>1. us[i].fdir_r \in Processors
      BY <1>2, <1>11, <2>1
    <3>2. u # t
      BY <3>1, <1>4
    <3>3. i \in Positions(ts) /\ us[i] = ts[i] /\ work'[u] = work[u]
      BY <3>2, <1>11, <2>3
    <3>4. QED
      BY <3>3, <1>13 DEF Ownership, Owned3
  <2>6. ASSUME NEW p \in Processors
        PROVE  InUse(p)' <=> InUse(p)
    <3>1. CASE p = n.fdir_r
      BY <3>1, <1>2, <1>11 DEF InUse
    <3>2. CASE p # n.fdir_r
      <4>1. (\E u \in Adders : work'[u].proc = p) <=> (\E u \in Adders : work[u].proc = p)
        BY <3>2, <1>2, <1>4
      <4>2. (\E i \in Positions(us) : us[i].fdir_r = p) <=> (\E i \in Positions(ts) : ts[i].fdir_r = p)
        BY <3>2, <1>11
      <4>3. QED
        BY <4>1, <4>2, <1>3 DEF InUse
    <3>3. QED
      BY <3>1, <3>2
  <2>7. Owned4'
    BY <1>3, <1>13, <2>6 DEF Ownership, Owned4
  <2>8. Owned5' /\ Owned6'
    <3>1. \A x \in unlinked : x.fdir_r \in Processors
      BY DEF Base, TypesHold
    <3>2. \A x \in unlinked : \A u \in Adders : work'[u].proc # x.fdir_r
      BY <3>1, <1>4, <1>13 DEF Ownership, Owned6
    <3>3. \A x \in unlinked : \A i \in Positions(us) : us[i].fdir_r # x.fdir_r
      BY <1>2, <1>11, <1>13 DEF Ownership, Owned6
    <3>4. QED
      BY <1>3, <1>13, <3>2, <3>3 DEF Ownership, Owned5, Owned6
  <2>9. QED
    BY <2>2, <2>4, <2>5, <2>7, <2>8 DEF Ownership
<1>14. ASSUME OnceInv
       PROVE  OnceInv'
  <2> DEFINE f == n.fault
  <2>1. \A u \in Adders : Pending(work'[u]) \subseteq Pending(work[u])
    BY <1>4 DEF CallsGoOn, GoesOn
  <2>2. m \notin Positions(ts)
    <3>1. m \notin DOMAIN ts
      BY <1>8 DEF m
    <3>2. QED
      BY <3>1 DEF Positions
  <2>3. ASSUME NEW x \in Faults
        PROVE  Room(AtIn(us, x), ByIn(work', x), group_of[x])
    <3> DEFINE A == AtIn(ts, x)
               B == ByIn(work, x)
               A2 == AtIn(us, x)
               B2 == ByIn(work', x)
    <3>1. Room(A, B, group_of[x])
      BY <1>14 DEF OnceInv, Placed
    <3>2. B2 \in SUBSET B
      BY <2>1 DEF ByIn
    <3>3. CASE x # f
      <4>1. A2 = A
        BY <3>3, <1>11 DEF AtIn
      <4> DEFINE h == [i \in A |-> i]
      <4>2. h \in [A2 -> A] /\ \A i, j \in A2 : h[i] = h[j] => i = j
        BY <4>1
      <4> HIDE DEF h
      <4>3. QED
        BY <3>1, <3>2, <4>2, RoomCarried
    <3>4. CASE x = f
      <4>1. A2 = A \cup {m} /\ m \notin A
        BY <3>4, <1>11, <2>2 DEF AtIn
      <4>2. t \in B /\ t \notin B2
        BY <3>4, <1>4 DEF ByIn
      <4> HIDE DEF A, B, A2, B2
      <4>3. Room(A2, B2, group_of[x])
        BY <3>1, <3>2, <4>1, <4>2, RoomMoved
      <4>4. QED
        BY <4>3 DEF A2, B2
    <3>5. QED
      BY <3>3, <3>4
  <2>4. Placed'
    BY <1>3, <2>3 DEF Placed, database
  <2>5. Started2'
    <3> SUFFICES ASSUME NEW u \in Adders, NEW i \in DOMAIN work'[u].todo
                 PROVE  work'[u].todo[i] <= started
      BY <1>3 DEF Started2
    <3>1. PICK j \in DOMAIN work[u].todo : work'[u].todo[i] = work[u].todo[j]
      BY <1>4 DEF CallsGoOn, GoesOn
    <3>2. QED
      BY <3>1, <1>14 DEF OnceInv, Started2
  <2>6. Grouped2'
    <3> SUFFICES ASSUME NEW u \in Adders, NEW x \in Pending(work'[u])
                 PROVE  group_of[x] = IF work'[u].op \in {"auto", "step"} THEN work'[u].group ELSE NoGroup
      BY <1>3 DEF Grouped2, database
    <3>1. x \in Pending(work[u]) /\ work'[u].op = work[u].op /\ work'[u].group = work[u].group
      BY <1>4 DEF CallsGoOn, GoesOn
    <3>2. QED
      BY <3>1, <1>14 DEF OnceInv, Grouped2
  <2>7. Started1'
    <3>1. f <= started
      BY <1>4, <1>14 DEF OnceInv, Started2, Pending
    <3>2. \A x \in Listed(us) : x = f \/ x \in Listed(ts)
      BY <1>11 DEF Listed
    <3>3. QED
      BY <3>1, <3>2, <1>3, <1>14 DEF OnceInv, Started1
  <2>8. Started3'
    BY <1>3, <1>14 DEF OnceInv, Started3, database
  <2>9. group_of[f] = IF work[t].op \in {"auto", "step"} THEN n.group ELSE NoGroup
    BY <1>2, <1>4, <1>14 DEF OnceInv, Grouped2
  <2>10. Grouped1'
    BY <2>9, <1>3, <1>11, <1>14 DEF OnceInv, Grouped1, database
  <2>11. Early1'
    BY <2>9, <1>2, <1>3, <1>11, <1>14 DEF OnceInv, Early1, database
  <2>12. QED
    BY <2>4, <2>5, <2>6, <2>7, <2>8, <2>10, <2>11 DEF OnceInv
<1>15. QED
  BY <1>12, <1>13, <1>14

\* The task is lost: its processor passes from the call to the lost tasks, and
\* the fault has no place more.
LEMMA PushLostKeeps ==
  ASSUME Base, NEW t \in Adders, PushLost(t)
  PROVE  Base' /\ (Ownership => Ownership') /\ (OnceInv => OnceInv')
<1>1. /\ Adding(t) /\ work[t].proc \in Processors /\ PushDone(t)
      /\ unlinked' = unlinked \cup {[group |-> n.group, fdir_r |-> n.fdir_r] : n \in NewTask(t)}
      /\ UNCHANGED <<g_lstTask, map_idle_fdir_r, task_list_mutex, started, database, study>>
  BY DEF PushLost
<1>2. /\ CallsTyped /\ CallsGoOn
      /\ \A u \in Adders : u # t => work'[u] = work[u]
      /\ work'[t].op = work[t].op /\ work'[t].proc \notin Processors
  BY <1>1, PushedCall
<1>3. PICK g \in 0..MaxStart : unlinked' = unlinked \cup {[group |-> g, fdir_r |-> work[t].proc]}
  <2>1. \A n \in NewTask(t) : n.fdir_r = work[t].proc /\ n.group \in 0..MaxStart
    BY <1>1, TaskMade
  <2>2. \E n \in NewTask(t) : TRUE
    BY DEF NewTask
  <2>3. \A m, n \in NewTask(t) : m.group = n.group
    BY DEF NewTask, FaultTask
  <2>4. PICK n \in NewTask(t) : TRUE
    BY <2>2
  <2>5. {[group |-> k.group, fdir_r |-> k.fdir_r] : k \in NewTask(t)} = {[group |-> n.group, fdir_r |-> work[t].proc]}
    BY <2>1, <2>3
  <2>6. QED
    BY <1>1, <2>1, <2>5
<1> DEFINE x == [group |-> g, fdir_r |-> work[t].proc]
<1>4. x \in [group : 0..MaxStart, fdir_r : Processors] /\ x.fdir_r = work[t].proc
  BY <1>1
<1>5. \A y \in unlinked' : y = x \/ y \in unlinked
  BY <1>3
<1>6. \A y \in unlinked : y \in unlinked'
  BY <1>3
<1>7. x \in unlinked'
  BY <1>3
<1>8. Base'
  <2>1. LockHeld' /\ task_list_mutex' \in {"none", "pass"} \cup Consoles
    BY <1>1, <1>2, LockCarried DEF Adders
  <2>2. unlinked' \in SUBSET [group : 0..MaxStart, fdir_r : Processors]
    BY <1>4, <1>5 DEF Base, TypesHold
  <2>3. QED
    BY <1>1, <1>2, <2>1, <2>2 DEF Base, TypesHold, CallsTyped, database, NodesWhole
<1> HIDE DEF x
<1>9. ASSUME Ownership
      PROVE  Ownership'
  <2>1. \A u \in Adders : u # t => work'[u].proc # x.fdir_r
    BY <1>1, <1>2, <1>4, <1>9 DEF Ownership, Owned2
  <2>2. \A i \in Positions(g_lstTask) : g_lstTask[i].fdir_r # x.fdir_r
    BY <1>4, <1>9 DEF Ownership, Owned3
  <2>3. \A y \in unlinked : y.fdir_r # x.fdir_r /\ y.fdir_r \in Processors
    BY <1>4, <1>9 DEF Ownership, Owned6, Base, TypesHold
  <2>4. Owned1'
    BY <1>1, <1>9 DEF Ownership, Owned1
  <2>5. Owned2'
    BY <1>2, <1>9 DEF Ownership, Owned2
  <2>6. Owned3'
    <3>1. \A i \in Positions(g_lstTask) : g_lstTask[i].fdir_r \in Processors
      BY DEF Base, TypesHold, NodesWhole, Positions
    <3>2. QED
      BY <3>1, <1>1, <1>2, <1>9 DEF Ownership, Owned3
  <2>7. Owned5'
    BY <1>5, <1>9, <2>3 DEF Ownership, Owned5
  <2>8. Owned6'
    <3>1. \A y \in unlinked' : y.fdir_r \in Processors
      BY <1>1, <1>4, <1>5, <2>3
    <3>2. \A y \in unlinked' : \A u \in Adders : work'[u].proc # y.fdir_r
      BY <3>1, <1>2, <1>5, <1>9, <2>1 DEF Ownership, Owned6
    <3>3. \A y \in unlinked' : \A i \in Positions(g_lstTask) : g_lstTask[i].fdir_r # y.fdir_r
      BY <1>5, <1>9, <2>2 DEF Ownership, Owned6
    <3>4. QED
      BY <1>1, <3>2, <3>3 DEF Owned6
  <2>9. ASSUME NEW p \in Processors
        PROVE  InUse(p)' <=> InUse(p)
    <3>1. CASE p = x.fdir_r
      BY <3>1, <1>4, <1>7 DEF InUse
    <3>2. CASE p # x.fdir_r
      <4>1. (\E u \in Adders : work'[u].proc = p) <=> (\E u \in Adders : work[u].proc = p)
        BY <3>2, <1>2, <1>4
      <4>2. (\E y \in unlinked' : y.fdir_r = p) <=> (\E y \in unlinked : y.fdir_r = p)
        BY <3>2, <1>5, <1>6
      <4>3. QED
        BY <4>1, <4>2, <1>1 DEF InUse
    <3>3. QED
      BY <3>1, <3>2
  <2>10. Owned4'
    BY <1>1, <1>9, <2>9 DEF Ownership, Owned4
  <2>11. QED
    BY <2>4, <2>5, <2>6, <2>7, <2>8, <2>10 DEF Ownership
<1>10. ASSUME OnceInv
       PROVE  OnceInv'
  <2>1. started' = started /\ started \in Nat /\ started <= started'
    BY <1>1, FaultNumbers DEF Base
  <2>2. Leaves(g_lstTask', g_lstTask, {})
    BY <1>1, ListAsIs DEF Base
  <2>3. /\ Early1' /\ Started1' /\ Started3' /\ Grouped1'
        /\ Fewer(g_lstTask', g_lstTask)
    BY <1>1, <1>10, <2>1, <2>2, ListCarried DEF Base, database
  <2>4. Placed' /\ Started2' /\ Grouped2'
    BY <1>1, <1>2, <1>10, <2>3, CallsCarried DEF CallsGoOn, database
  <2>5. QED
    BY <2>3, <2>4 DEF OnceInv
<1>11. QED
  BY <1>8, <1>9, <1>10

\* The located faults are grouped: the list and the database are written
\* alike, and only faults that are in the list are.
LEMMA GroupKeeps ==
  ASSUME Base, Group
  PROVE  Base' /\ (Ownership => Ownership') /\ (OnceInv => OnceInv')
<1> DEFINE S == {g_lstTask[i].fault : i \in ToGroup}
           ts == g_lstTask
           us == g_lstTask'
<1>1. PICK g \in Groupings(S) :
        /\ us = [i \in DOMAIN ts |-> IF i \in ToGroup THEN [ts[i] EXCEPT !.step = "GROUPED", !.group = g[ts[i].fault]] ELSE ts[i]]
        /\ group_of' = [f \in Faults |-> IF f \in S THEN g[f] ELSE group_of[f]]
  BY DEF Group
<1>2. UNCHANGED <<unlinked, map_idle_fdir_r, archived, task_list_mutex, started, work, study>> /\ task_list_mutex = "pass"
  BY DEF Group, InPass
<1>3. \A i \in ToGroup : i \in Positions(ts) /\ ts[i].fault \in S /\ ts[i].fault \in Faults /\ ts[i].step = "CALC_ISO"
  BY DEF ToGroup, Base, TypesHold, NodesWhole, Positions
<1>4. \A f \in S : f \in Faults /\ g[f] \in Faults /\ g[f] \in 0..MaxStart
  <2>1. g \in [S -> S]
    BY DEF Groupings
  <2>2. \A f \in S : f \in Faults
    BY <1>3
  <2>3. Faults \subseteq 0..MaxStart
    BY FaultNumbers DEF Base
  <2> HIDE DEF S
  <2>4. QED
    BY <2>1, <2>2, <2>3
<1> HIDE DEF S
<1>5. \A x \in Nodes, y \in 0..MaxStart :
        LET z == [x EXCEPT !.step = "GROUPED", !.group = y] IN
        /\ z \in Nodes /\ z.type = x.type /\ z.fault = x.fault /\ z.fdir_r = x.fdir_r
        /\ z.group = y /\ z.step = "GROUPED"
  BY DEF Nodes
<1>6. /\ DOMAIN us = DOMAIN ts /\ us = [i \in DOMAIN ts |-> us[i]]
      /\ \A i \in DOMAIN ts : /\ us[i] \in Nodes
                              /\ us[i].type = ts[i].type /\ us[i].fault = ts[i].fault /\ us[i].fdir_r = ts[i].fdir_r
                              /\ i \in ToGroup => us[i].group = g[ts[i].fault] /\ us[i].step = "GROUPED"
                              /\ i \notin ToGroup => us[i] = ts[i]
  <2>1. \A i \in DOMAIN ts : us[i] = IF i \in ToGroup THEN [ts[i] EXCEPT !.step = "GROUPED", !.group = g[ts[i].fault]] ELSE ts[i]
    BY <1>1
  <2>2. DOMAIN us = DOMAIN ts /\ us = [i \in DOMAIN ts |-> us[i]]
    BY <1>1
  <2>3. \A i \in DOMAIN ts : ts[i] \in Nodes
    BY ListAsIs DEF Base
  <2>4. \A i \in ToGroup : g[ts[i].fault] \in 0..MaxStart
    BY <1>3, <1>4
  <2> DEFINE grouped(x, y) == [x EXCEPT !.step = "GROUPED", !.group = y]
  <2>5. \A x \in Nodes, y \in 0..MaxStart :
          /\ grouped(x, y) \in Nodes /\ grouped(x, y).type = x.type /\ grouped(x, y).fault = x.fault
          /\ grouped(x, y).fdir_r = x.fdir_r /\ grouped(x, y).group = y /\ grouped(x, y).step = "GROUPED"
    BY <1>5
  <2>6. \A i \in DOMAIN ts : us[i] = IF i \in ToGroup THEN grouped(ts[i], g[ts[i].fault]) ELSE ts[i]
    BY <2>1
  <2> HIDE DEF us, grouped
  <2>7. ASSUME NEW i \in DOMAIN ts
        PROVE  /\ us[i] \in Nodes
               /\ us[i].type = ts[i].type /\ us[i].fault = ts[i].fault /\ us[i].fdir_r = ts[i].fdir_r
               /\ i \in ToGroup => us[i].group = g[ts[i].fault] /\ us[i].step = "GROUPED"
               /\ i \notin ToGroup => us[i] = ts[i]
    BY <2>3, <2>4, <2>5, <2>6
  <2>8. QED
    BY <2>2, <2>7
<1>7. \A i \in DOMAIN ts : IsFault(us[i]) = IsFault(ts[i])
  BY <1>6 DEF IsFault
<1>8. /\ Positions(us) = Positions(ts)
      /\ Listed(us) = Listed(ts)
  <2>1. Positions(us) = Positions(ts)
    BY <1>6, <1>7 DEF Positions
  <2>2. QED
    BY <2>1, <1>6 DEF Listed, Positions
<1>9. /\ CallsTyped /\ CallsKeep /\ CallsGoOn
  BY <1>2, NoneWritten DEF Base
<1>10. Base'
  <2>1. us \in Seq(Nodes)
    <3>1. us \in [1..Len(ts) -> Nodes] /\ Len(ts) \in Nat
      BY <1>6, ListAsIs DEF Base
    <3>2. QED
      BY <3>1
  <2>2. NodesWhole(us)
    <3>1. \A i \in DOMAIN ts : us[i].step \in {"CALC", "CALC_ISO"} => ts[i].step \in {"CALC", "CALC_ISO"}
      BY <1>6
    <3>2. QED
      BY <1>6, <1>7, <3>1 DEF NodesWhole, Base, TypesHold
  <2>3. group_of' \in [Faults -> 0..MaxStart]
    BY <1>1, <1>4 DEF Base, TypesHold
  <2>4. LockHeld' /\ task_list_mutex' \in {"none", "pass"} \cup Consoles
    BY <1>2, LockOfPass
  <2>5. QED
    BY <1>2, <1>9, <2>1, <2>2, <2>3, <2>4 DEF Base, TypesHold, CallsTyped, NodesWhole
<1>11. ASSUME Ownership
       PROVE  Ownership'
  <2>1. \A i \in Positions(ts) : us[i].fdir_r = ts[i].fdir_r
    BY <1>6 DEF Positions
  <2>2. QED
    BY <1>2, <1>8, <1>11, <2>1 DEF Ownership, Owned1, Owned2, Owned3, Owned4, Owned5, Owned6, InUse
<1>12. ASSUME OnceInv
       PROVE  OnceInv'
  <2>1. \A i \in Positions(ts) : us[i].fault = ts[i].fault
    BY <1>6 DEF Positions
  <2>2. S \subseteq Listed(ts)
    BY <1>3 DEF S, Listed
  <2>3. Started1' /\ Started2'
    BY <1>2, <1>8, <1>12, <2>1 DEF OnceInv, Started1, Started2
  <2>4. /\ \A f \in Faults : f \notin S => group_of'[f] = group_of[f]
        /\ \A f \in S : f \in Faults /\ group_of[f] = NoGroup /\ group_of'[f] = g[f] /\ group_of'[f] # NoGroup
    <3>1. 0 \notin Faults
      BY FaultNumbers DEF Base
    <3>2. \A f \in S : group_of[f] = NoGroup
      BY <1>3, <1>12 DEF S, OnceInv, Early1, Early
    <3>3. QED
      BY <1>1, <1>4, <3>1, <3>2 DEF NoGroup
  <2>20. \A f \in S : Single(AtIn(ts, f), ByIn(work, f))
    BY <1>12, <2>4 DEF OnceInv, Placed, Room
  <2>21. ASSUME NEW i \in Positions(ts), ts[i].fault \in S
         PROVE  i \in ToGroup
    <3>1. PICK k \in ToGroup : ts[k].fault = ts[i].fault
      BY <2>21 DEF S
    <3>2. i \in AtIn(ts, ts[i].fault) /\ k \in AtIn(ts, ts[i].fault)
      BY <1>3, <3>1 DEF AtIn
    <3>3. QED
      BY <2>20, <2>21, <3>1, <3>2 DEF Single
  <2>22. \A f \in Faults : AtIn(us, f) = AtIn(ts, f)
    BY <1>8, <2>1 DEF AtIn
  <2>23. Placed'
    <3> SUFFICES ASSUME NEW f \in Faults
                 PROVE  Room(AtIn(ts, f), ByIn(work, f), group_of'[f])
      BY <1>2, <2>22 DEF Placed
    <3>1. Room(AtIn(ts, f), ByIn(work, f), group_of[f])
      BY <1>12 DEF OnceInv, Placed
    <3>2. group_of'[f] = NoGroup => group_of[f] = NoGroup
      BY <2>4
    <3>3. QED
      BY <3>1, <3>2 DEF Room
  <2>24. Early1'
    <3> SUFFICES ASSUME NEW i \in Positions(ts), us[i].step \in Early
                 PROVE  group_of'[us[i].fault] = NoGroup
      BY <1>8 DEF Early1
    <3>1. i \in DOMAIN ts /\ ts[i].fault \in Faults
      BY DEF Positions, Base, TypesHold, NodesWhole
    <3>2. i \notin ToGroup
      BY <3>1, <1>6 DEF Early
    <3>3. us[i] = ts[i] /\ ts[i].fault \notin S
      BY <3>1, <3>2, <1>6, <2>21
    <3>4. QED
      BY <3>1, <3>3, <2>4, <1>12 DEF OnceInv, Early1
  <2>5. Started3'
    BY <1>2, <1>12, <2>2, <2>4 DEF OnceInv, Started1, Started3
  <2>6. Grouped2'
    <3>1. ASSUME NEW t \in Adders, NEW f \in Pending(work[t])
          PROVE  f \in Faults /\ f \notin S
      <4>1. f \in Faults
        BY <3>1, FaultNumbers DEF Base
      <4>2. t \in ByIn(work, f)
        BY <3>1 DEF ByIn
      <4>3. f \in S => AtIn(ts, f) # {}
        BY <2>2 DEF Listed, AtIn
      <4>4. QED
        BY <4>1, <4>2, <4>3, <2>20 DEF Single
    <3>2. QED
      BY <1>2, <1>12, <2>4, <3>1 DEF OnceInv, Grouped2
  <2>7. Grouped1'
    <3> SUFFICES ASSUME NEW i \in Positions(ts)
                 PROVE  group_of'[ts[i].fault] \in {NoGroup, us[i].group}
      BY <1>8, <2>1 DEF Grouped1
    <3>1. i \in DOMAIN ts /\ ts[i].fault \in Faults
      BY DEF Positions, Base, TypesHold, NodesWhole
    <3>2. CASE ts[i].fault \in S
      <4>1. i \in ToGroup
        BY <3>2, <2>21
      <4>2. QED
        BY <4>1, <3>1, <3>2, <2>4, <1>6
    <3>3. CASE ts[i].fault \notin S
      <4>1. i \notin ToGroup
        BY <3>3, <1>3
      <4>2. QED
        BY <4>1, <3>1, <3>3, <2>4, <1>6, <1>12 DEF OnceInv, Grouped1
    <3>4. QED
      BY <3>2, <3>3
  <2>8. QED
    BY <2>3, <2>5, <2>6, <2>7, <2>23, <2>24 DEF OnceInv
<1>13. QED
  BY <1>10, <1>11, <1>12

-----------------------------------------------------------------------------
(* The theorems *)

\* The initial state: the list is empty, nobody calls, no processor is in use.
LEMMA InitHolds ==
  Init => Base /\ Ownership /\ OnceInv
<1> SUFFICES ASSUME Init
             PROVE  Base /\ Ownership /\ OnceInv
  OBVIOUS
<1>1. /\ g_lstTask = <<>> /\ unlinked = {} /\ task_list_mutex = "none" /\ started = 0
      /\ map_idle_fdir_r \in [Processors -> BOOLEAN]
      /\ \A p \in Processors : map_idle_fdir_r[p] = FALSE
      /\ group_of \in [Faults -> 0..MaxStart] /\ \A f \in Faults : group_of[f] = NoGroup
      /\ archived \in [Faults -> {"no", "STOP", "FINISH"}]
      /\ study \in [Consoles -> [wait : SUBSET Faults, drop : SUBSET Faults]]
      /\ started \in 0..MaxStart
  BY PoolAssumption DEF Init, NoGroup, NoStudy
<1>2. /\ work \in [Adders -> Calls]
      /\ \A t \in Adders : work[t] = Idle /\ Fits(t, work[t]) /\ Pending(work[t]) = {}
  <2>1. work = [t \in Adders |-> Idle]
    BY DEF Init
  <2>2. Idle \in Calls
    BY IdleCall DEF Adders
  <2>3. \A t \in Adders : Fits(t, Idle) /\ Pending(Idle) = {}
    BY IdleCall
  <2>4. QED
    BY <2>1, <2>2, <2>3
<1>3. Idle.todo = <<>> /\ Idle.proc = NoProc /\ Idle.op = "idle" /\ NoProc \notin Processors
  BY DEF Idle, NoProc, Processors
<1>4. Positions(g_lstTask) = {} /\ Listed(g_lstTask) = {}
  BY <1>1 DEF Positions, Listed
<1>5. g_lstTask \in Seq(Nodes) /\ NodesWhole(g_lstTask)
  BY <1>1 DEF NodesWhole
<1>6. Base
  BY <1>1, <1>2, <1>3, <1>5, PoolAssumption DEF Base, TypesHold, LockHeld, CallsFit, Adders
<1>7. Ownership
  BY <1>1, <1>2, <1>3, <1>4 DEF Ownership, Owned1, Owned2, Owned3, Owned4, Owned5, Owned6, InUse
<1>8. OnceInv
  <2>1. \A f \in Faults : AtIn(g_lstTask, f) = {} /\ ByIn(work, f) = {}
    BY <1>2, <1>4 DEF AtIn, ByIn
  <2>2. Placed
    BY <2>1, EmptyRoom DEF Placed
  <2>3. Started2
    BY <1>2, <1>3 DEF Started2
  <2>4. QED
    BY <1>1, <1>2, <1>4, <2>2, <2>3 DEF OnceInv, Early1, Started1, Started3, Grouped1, Grouped2
<1>9. QED
  BY <1>6, <1>7, <1>8

\* Every step keeps what it needs.
LEMMA NextKeeps ==
  ASSUME Base, [Next]_vars
  PROVE  Base' /\ (Ownership => Ownership') /\ (OnceInv => OnceInv')
<1>1. CASE UNCHANGED vars
  <2>1. UNCHANGED <<g_lstTask, unlinked, map_idle_fdir_r, task_list_mutex, started, group_of, archived, work, study>>
    BY <1>1 DEF vars, memory, database
  <2>2. Base'
    BY <2>1 DEF Base, TypesHold, LockHeld, CallsFit, NodesWhole
  <2>3. Ownership => Ownership'
    BY <2>1 DEF Ownership, Owned1, Owned2, Owned3, Owned4, Owned5, Owned6, InUse
  <2>4. OnceInv => OnceInv'
    BY <2>1 DEF OnceInv, Placed, AtIn, ByIn, Early1, Started1, Started2, Started3, Grouped1, Grouped2
  <2>5. QED
    BY <2>2, <2>3, <2>4
<1>2. ASSUME NEW t \in Adders, Add(t)
      PROVE  Base' /\ (Ownership => Ownership') /\ (OnceInv => OnceInv')
  <2>1. CASE TakeProcessor(t)
    BY <2>1, TakeKeeps
  <2>2. CASE Push(t)
    BY <2>2, PushKeeps
  <2>3. CASE Release(t) \/ ArchiveReleased(t)
    BY <2>3, ReleaseQuiet, QuietKeeps
  <2>4. CASE ReleaseNone(t)
    BY <2>4, RestartKeeps DEF ReleaseNone
  <2>5. CASE PushLost(t)
    BY <2>5, PushLostKeeps
  <2>6. QED
    BY <1>2, <2>1, <2>2, <2>3, <2>4, <2>5 DEF Add
<1>3. CASE Alarm
  <2>1. "alarm" \in Adders
    BY DEF Adders
  <2>2. CASE AlarmStart
    BY <2>2, StartKeeps
  <2>3. CASE AlarmAdded
    BY <2>1, <2>3, EndsQuiet, QuietKeeps
  <2>4. QED
    BY <1>2, <1>3, <2>1, <2>2, <2>3 DEF Alarm
<1>4. CASE Pass
  <2>1. CASE Group
    BY <2>1, GroupKeeps
  <2>2. CASE ~Group
    BY <1>4, <2>2, PassQuiet, QuietKeeps DEF Pass
  <2>3. QED
    BY <2>1, <2>2
<1>5. ASSUME NEW c \in Consoles, Request(c)
      PROVE  Base' /\ (Ownership => Ownership') /\ (OnceInv => OnceInv')
  <2>1. CASE SetAuto(c) \/ Step(c)
    BY <2>1, LoadKeeps
  <2>2. CASE PassLast(c) \/ Stop(c)
    BY <2>2, AsksQuiet, QuietKeeps
  <2>3. CASE Study(c)
    BY <2>3, StartKeeps
  <2>4. QED
    BY <1>5, <2>1, <2>2, <2>3 DEF Request
<1>6. ASSUME NEW c \in Consoles, Handle(c)
      PROVE  Base' /\ (Ownership => Ownership') /\ (OnceInv => OnceInv')
  <2>1. c \in Adders
    BY DEF Adders
  <2>2. CASE Add(c)
    BY <1>2, <2>1, <2>2
  <2>3. CASE AutoControls(c) \/ StepControls(c) \/ StopRemoves(c) \/ StudyAnswers(c)
    BY <2>1, <2>3, EndsQuiet, QuietKeeps
  <2>4. CASE StudyExec(c)
    <3>1. CASE Restarted
      BY <3>1, RestartKeeps
    <3>2. CASE ~Restarted
      BY <2>4, <3>2, StudyQuiet, QuietKeeps
    <3>3. QED
      BY <3>1, <3>2
  <2>5. CASE StudyAdded(c) \/ StudyLooks(c)
    BY <2>5, WaitQuiet, QuietKeeps
  <2>6. QED
    BY <1>6, <2>2, <2>3, <2>4, <2>5 DEF Handle
<1>7. QED
  BY <1>1, <1>3, <1>4, <1>5, <1>6 DEF Next

\* The types of the pool, and the lock: only the pass and a console that loads
\* a group or begins a study hold task_list_mutex, and a console that waits for
\* the groups of its study does not.
THEOREM TypeCorrect == Spec => []TypeOK
<1>1. Init => Base
  BY InitHolds
<1>2. Base /\ [Next]_vars => Base'
  BY NextKeeps
<1>3. Base => TypeOK
  <2> SUFFICES ASSUME Base
               PROVE  TypeOK
    OBVIOUS
  <2>1. \A n \in Tasks : n \in Nodes
    BY DEF Base, TypesHold, Tasks, ToSet
  <2>2. \A t \in Adders : work[t].proc \in {NoProc, Pushed} \cup Processors /\ work[t].released \in -1..MaxStart
    BY DEF Base, TypesHold, Calls
  <2>3. task_list_mutex \in {"none", "pass"} \cup {c \in Consoles : work[c].op \in {"auto", "study"}}
    BY DEF Base, TypesHold, LockHeld
  <2>4. QED
    BY <2>1, <2>2, <2>3 DEF TypeOK, Nodes, Base, TypesHold
<1>4. QED
  BY <1>1, <1>2, <1>3, PTL DEF Spec

\* However alarm thread, pass and consoles interleave, of which AddTask runs
\* without the list's lock, no processor is given to two tasks or given back
\* that has been taken again, and one is lost only together with the task that
\* a colliding push_back loses.
THEOREM ProcessorsKept == Spec => []ProcessorsOwned
<1> DEFINE Inv == Base /\ Ownership
<1>1. Init => Inv
  BY InitHolds
<1>2. Inv /\ [Next]_vars => Inv'
  BY NextKeeps
<1>3. Inv => ProcessorsOwned
  <2> SUFFICES ASSUME Base, Ownership
               PROVE  ProcessorsOwned
    OBVIOUS
  <2>1. \A i \in DOMAIN g_lstTask : i \in Positions(g_lstTask) <=> g_lstTask[i].fdir_r \in Processors
    BY DEF Base, TypesHold, NodesWhole, Positions, NoProc, Processors
  <2>2. \A n \in Tasks : \E i \in DOMAIN g_lstTask : n = g_lstTask[i]
    BY DEF Tasks, ToSet
  <2>3. \A i \in DOMAIN g_lstTask : g_lstTask[i] \in Tasks
    BY DEF Tasks, ToSet
  <2>4. \A n \in Tasks : IsFault(n) => n.fdir_r \in Processors
    BY <2>1, <2>2 DEF Positions
  <2>5. \A i, j \in DOMAIN g_lstTask : IsFault(g_lstTask[i]) /\ g_lstTask[i].fdir_r = g_lstTask[j].fdir_r => i = j
    <3> SUFFICES ASSUME NEW i \in DOMAIN g_lstTask, NEW j \in DOMAIN g_lstTask,
                        IsFault(g_lstTask[i]), g_lstTask[i].fdir_r = g_lstTask[j].fdir_r
                 PROVE  i = j
      OBVIOUS
    <3>1. i \in Positions(g_lstTask) /\ j \in Positions(g_lstTask)
      BY <2>1 DEF Positions
    <3>2. QED
      BY <3>1 DEF Ownership, Owned1
  <2>6. Owned2
    BY DEF Ownership
  <2>7. \A p \in Processors : p \in Owned <=> \E i \in Positions(g_lstTask) : g_lstTask[i].fdir_r = p
    <3> SUFFICES ASSUME NEW p \in Processors
                 PROVE  p \in Owned <=> \E i \in Positions(g_lstTask) : g_lstTask[i].fdir_r = p
      OBVIOUS
    <3>1. ASSUME p \in Owned
          PROVE  \E i \in Positions(g_lstTask) : g_lstTask[i].fdir_r = p
      BY <3>1, <2>1, <2>2 DEF Owned
    <3>2. ASSUME NEW i \in Positions(g_lstTask), g_lstTask[i].fdir_r = p
          PROVE  p \in Owned
      BY <3>2, <2>3 DEF Owned, Positions
    <3>3. QED
      BY <3>1, <3>2
  <2>8. \A p \in Processors : p \in Taken <=> \E t \in Adders : work[t].proc = p
    BY DEF Taken
  <2>9. Taken \cap Owned = {}
    <3> SUFFICES ASSUME NEW p \in Taken, p \in Owned
                 PROVE  FALSE
      OBVIOUS
    <3>1. p \in Processors
      BY DEF Taken
    <3>2. QED
      BY <3>1, <2>7, <2>8 DEF Ownership, Owned3
  <2>10. \A p \in Processors : p \in Lost <=> \E n \in unlinked : n.fdir_r = p
    BY DEF Lost
  <2>11. Taken \cap Lost = {} /\ Owned \cap Lost = {}
    <3>1. ASSUME NEW p \in Lost, p \in Taken
          PROVE  FALSE
      <4>1. p \in Processors
        BY <3>1 DEF Taken
      <4>2. QED
        BY <3>1, <4>1, <2>8, <2>10 DEF Ownership, Owned6
    <3>2. ASSUME NEW p \in Lost, p \in Owned
          PROVE  FALSE
      <4>1. p \in Processors
        BY <3>2 DEF Owned
      <4>2. QED
        BY <3>2, <4>1, <2>7, <2>10 DEF Ownership, Owned6
    <3>3. QED
      BY <3>1, <3>2
  <2>12. {p \in Processors : map_idle_fdir_r[p]} = Taken \cup Owned \cup Lost
    <3>1. Taken \subseteq Processors /\ Owned \subseteq Processors /\ Lost \subseteq Processors
      BY DEF Taken, Owned, Lost, Base, TypesHold
    <3>2. \A p \in Processors : map_idle_fdir_r[p] <=> p \in Taken \cup Owned \cup Lost
      BY <2>7, <2>8, <2>10 DEF Ownership, Owned4, InUse
    <3>3. QED
      BY <3>1, <3>2
  <2>13. Owned5
    BY DEF Ownership
  <2>14. QED
    BY <2>4, <2>5, <2>6, <2>9, <2>11, <2>12, <2>13 DEF ProcessorsOwned, Owned2, Owned5
<1>4. QED
  BY <1>1, <1>2, <1>3, PTL DEF Spec

\* What has a place each has no more members than there are consoles.
LEMMA SeatsBound ==
  ASSUME NEW A, NEW B, IsFiniteSet(Consoles), Seats(A, B)
  PROVE  /\ IsFiniteSet(A) /\ IsFiniteSet(B)
         /\ Cardinality(A) \in Nat /\ Cardinality(B) \in Nat
         /\ Cardinality(A) + Cardinality(B) <= Cardinality(Consoles)
<1>1. PICK l \in [A -> Consoles], b \in [B -> Consoles] :
        /\ \A i, j \in A : l[i] = l[j] => i = j
        /\ \A t, u \in B : b[t] = b[u] => t = u
        /\ \A i \in A, t \in B : l[i] # b[t]
  BY DEF Seats
<1> DEFINE L == {l[i] : i \in A}
           R == {b[t] : t \in B}
<1>2. L \subseteq Consoles /\ R \subseteq Consoles /\ L \cap R = {}
  BY <1>1
<1>3. IsFiniteSet(L) /\ IsFiniteSet(R)
  BY <1>2, FS_Subset
<1>4. IsFiniteSet(A) /\ Cardinality(A) <= Cardinality(L)
  <2>1. l \in [A -> L]
    BY <1>1
  <2>2. l \in Injection(A, L)
    BY <1>1, <2>1, Fun_IsInj
  <2>3. QED
    BY <1>3, <2>2, FS_Injection
<1>5. IsFiniteSet(B) /\ Cardinality(B) <= Cardinality(R)
  <2>1. b \in [B -> R]
    BY <1>1
  <2>2. b \in Injection(B, R)
    BY <1>1, <2>1, Fun_IsInj
  <2>3. QED
    BY <1>3, <2>2, FS_Injection
<1> HIDE DEF L, R
<1>6. /\ Cardinality(L) \in Nat /\ Cardinality(R) \in Nat
      /\ Cardinality(A) \in Nat /\ Cardinality(B) \in Nat /\ Cardinality(Consoles) \in Nat
  BY <1>3, <1>4, <1>5, FS_CardinalityType
<1>7. Cardinality(L) + Cardinality(R) <= Cardinality(Consoles)
  <2>1. Cardinality(L \cup R) = Cardinality(L) + Cardinality(R)
    <3>1. Cardinality(L \cap R) = 0
      BY <1>2, FS_EmptySet
    <3>2. Cardinality(L \cup R) = Cardinality(L) + Cardinality(R) - Cardinality(L \cap R)
      BY <1>3, FS_Union
    <3>3. QED
      BY <3>1, <3>2, <1>6
  <2>2. Cardinality(L \cup R) <= Cardinality(Consoles)
    BY <1>2, FS_Subset
  <2>3. QED
    BY <2>1, <2>2
<1>8. QED
  BY <1>4, <1>5, <1>6, <1>7

\* A set without two members has at most one.
LEMMA AtMostOne ==
  ASSUME NEW A, \A i, j \in A : i = j
  PROVE  A = {} \/ Cardinality(A) = 1
<1>1. CASE A # {}
  <2>1. PICK i \in A : TRUE
    BY <1>1
  <2>2. A = {i}
    BY <2>1
  <2>3. QED
    BY <2>2, FS_Singleton
<1>2. QED
  BY <1>1

\* A fault without a group is in the list, or on its way there, once, and one
\* with a group at most once for every console: consoles that load a group at
\* the same time do not see each other, but none loads a group it has loaded,
\* and neither the alarm thread nor a study starts a fault that is there.
THEOREM NoFaultTwice == Spec => []LoadedOnce
<1> DEFINE Inv == Base /\ OnceInv
<1>1. Init => Inv
  BY InitHolds
<1>2. Inv /\ [Next]_vars => Inv'
  BY NextKeeps
<1>3. Inv => LoadedOnce
  <2> SUFFICES ASSUME Base, OnceInv, NEW f \in Faults
               PROVE  Cardinality(At(f)) + Cardinality(By(f)) <= IF group_of[f] = NoGroup THEN 1 ELSE Cardinality(Consoles)
    BY DEF LoadedOnce
  <2>1. At(f) = AtIn(g_lstTask, f) /\ By(f) = ByIn(work, f)
    BY DEF At, AtIn, By, ByIn, Positions
  <2>2. Seats(At(f), By(f)) /\ (group_of[f] = NoGroup => Single(At(f), By(f)))
    BY <2>1 DEF OnceInv, Placed, Room
  <2>3. /\ IsFiniteSet(At(f)) /\ IsFiniteSet(By(f))
        /\ Cardinality(At(f)) \in Nat /\ Cardinality(By(f)) \in Nat
        /\ Cardinality(At(f)) + Cardinality(By(f)) <= Cardinality(Consoles)
    BY <2>2, SeatsBound, PoolAssumption
  <2>4. CASE group_of[f] = NoGroup
    <3>1. /\ At(f) = {} \/ Cardinality(At(f)) = 1
          /\ By(f) = {} \/ Cardinality(By(f)) = 1
      BY <2>2, <2>4, AtMostOne DEF Single
    <3>2. At(f) = {} \/ By(f) = {}
      BY <2>2, <2>4 DEF Single
    <3>3. QED
      BY <3>1, <3>2, <2>3, <2>4, FS_EmptySet
  <2>5. QED
    BY <2>3, <2>4
<1>4. QED
  BY <1>1, <1>2, <1>3, PTL DEF Spec
=============================================================================
