------------------------ MODULE StepExecutionProofs ------------------------
(***************************************************************************)
(* The execution of a plan, for every set of breakers, of plans and of     *)
(* consoles: what holds in every state of StepExecution, and that it       *)
(* implements StepPlan.                                                    *)
(***************************************************************************)
EXTENDS StepExecution, TaskListProofs

Rows == [cb : Breakers, status : RowStatus]
Controls == [cb : Breakers, status : {"WAIT", "RUN", "FINISH"}, late : BOOLEAN]
Works == [op : {"idle", "remove", "left", "archive", "insert", "return", "recalc"},
          cbs : Seq(Breakers)]

\* A request to add a control has one breaker.
ReturnsOne == \A t \in Threads : todo[t].op = "return" => todo[t].cbs # <<>>

\* The control that has succeeded stays at its place until the pass is done
\* with it: nobody else erases a task, or adds one during a pass.
AtItsControl == after # "no" => visit \in DOMAIN controls /\ controls[visit].status = "RUN"

Typed == TypeOK /\ ReturnsOne /\ AtItsControl
-----------------------------------------------------------------------------
\* Mark changes the status of the rows of one breaker and nothing else (the
\* UPDATE of one step in FDIR_STEP).
LEMMA MarkRows ==
  ASSUME NEW rs \in Seq(Rows), NEW cb, NEW from, NEW to \in RowStatus
  PROVE  /\ Mark(rs, cb, from, to) \in Seq(Rows)
         /\ DOMAIN Mark(rs, cb, from, to) = DOMAIN rs
         /\ \A i \in DOMAIN rs :
              /\ Mark(rs, cb, from, to)[i].cb = rs[i].cb
              /\ Mark(rs, cb, from, to)[i].status =
                   IF rs[i].cb = cb /\ rs[i].status \in from THEN to ELSE rs[i].status
<1> DEFINE m == Mark(rs, cb, from, to)
           marked(r) == IF r.cb = cb /\ r.status \in from THEN [r EXCEPT !.status = to] ELSE r
<1>1. Len(rs) \in Nat /\ DOMAIN rs = 1..Len(rs) /\ \A i \in DOMAIN rs : rs[i] \in Rows
  OBVIOUS
<1>2. \A r \in Rows :
        /\ marked(r) \in Rows
        /\ marked(r).cb = r.cb
        /\ marked(r).status = IF r.cb = cb /\ r.status \in from THEN to ELSE r.status
  BY DEF Rows
<1>3. m = [i \in 1..Len(rs) |-> marked(rs[i])]
  BY <1>1 DEF Mark
<1> HIDE DEF m, marked
<1>4. m \in Seq(Rows)
  <2>1. \A i \in 1..Len(rs) : marked(rs[i]) \in Rows
    BY <1>1, <1>2
  <2>2. QED
    BY <1>1, <1>3, <2>1
<1>5. DOMAIN m = DOMAIN rs /\ \A i \in DOMAIN rs : m[i] = marked(rs[i])
  BY <1>1, <1>3
<1>6. QED
  BY <1>1, <1>2, <1>4, <1>5 DEF m

\* GetLeftStep returns waiting rows, the first of them first, and none only
\* when there is none.
LEMMA LeftRows ==
  ASSUME NEW rs \in Seq(Rows)
  PROVE  /\ Left(rs) \in Seq(Rows)
         /\ Left(rs) = <<>> => \A i \in DOMAIN rs : rs[i].status # "WAIT"
         /\ Left(rs) # <<>> =>
              \E i \in DOMAIN rs :
                /\ Left(rs)[1] = rs[i] /\ rs[i].status = "WAIT"
                /\ \A k \in DOMAIN rs : rs[k].status = "WAIT" => i <= k
         /\ \A j \in DOMAIN Left(rs) :
              \E i \in DOMAIN rs : Left(rs)[j] = rs[i] /\ rs[i].status = "WAIT"
<1> DEFINE K == {i \in DOMAIN rs : rs[i].status = "WAIT"}
           m == Cardinality(K)
           f == Numbered(K)
           l == Only(rs, K)
<1>1. Left(rs) = l
  BY DEF Left
<1>2. /\ l \in Seq(Rows)
      /\ DOMAIN l = 1..m /\ m \in Nat
      /\ f \in [1..m -> K]
      /\ \A j \in 1..m : l[j] = rs[f[j]]
      /\ \A i, j \in 1..m : i < j => f[i] < f[j]
      /\ \A k \in K : \E j \in 1..m : f[j] = k
  <2>1. K \in SUBSET DOMAIN rs
    OBVIOUS
  <2> HIDE DEF K
  <2>2. QED
    BY <2>1, OnlyProperties
<1>3. \A i \in DOMAIN rs : i \in K <=> rs[i].status = "WAIT"
  OBVIOUS
<1>4. K \subseteq DOMAIN rs /\ Len(rs) \in Nat /\ DOMAIN rs = 1..Len(rs)
  OBVIOUS
<1> HIDE DEF K, m, f, l
<1>5. ASSUME l = <<>>, NEW i \in DOMAIN rs, rs[i].status = "WAIT"
      PROVE  FALSE
  <2>1. PICK j \in 1..m : f[j] = i
    BY <1>2, <1>3, <1>5
  <2>2. j \in DOMAIN l
    BY <1>2
  <2>3. QED
    BY <2>2, <1>5
<1>6. ASSUME l # <<>>
      PROVE  \E i \in DOMAIN rs :
               /\ l[1] = rs[i] /\ rs[i].status = "WAIT"
               /\ \A k \in DOMAIN rs : rs[k].status = "WAIT" => i <= k
  <2>1. 1 \in 1..m
    <3>1. Len(l) = m /\ Len(l) # 0
      BY <1>2, <1>6
    <3>2. QED
      BY <3>1, <1>2
  <2>2. f[1] \in DOMAIN rs /\ l[1] = rs[f[1]] /\ rs[f[1]].status = "WAIT"
    BY <2>1, <1>2, <1>3, <1>4
  <2>3. ASSUME NEW k \in DOMAIN rs, rs[k].status = "WAIT"
        PROVE  f[1] <= k
    <3>1. PICK j \in 1..m : f[j] = k
      BY <1>2, <1>3, <2>3
    <3>2. f[1] \in Nat /\ k \in Nat /\ j \in Nat /\ 1 <= j
      BY <2>2, <1>4
    <3>3. j = 1 \/ 1 < j
      BY <3>2
    <3>4. QED
      BY <3>1, <3>2, <3>3, <2>1, <1>2
  <2>4. QED
    BY <2>2, <2>3
<1>7. \A j \in DOMAIN l : \E i \in DOMAIN rs : l[j] = rs[i] /\ rs[i].status = "WAIT"
  BY <1>2, <1>3, <1>4
<1>8. QED
  BY <1>1, <1>2, <1>5, <1>6, <1>7

\* The rows that were sent are all that is left when the others are deleted.
LEMMA WithoutRows ==
  ASSUME NEW rs \in Seq(Rows)
  PROVE  /\ WithoutWaiting(rs) \in Seq(Rows)
         /\ \A j \in DOMAIN WithoutWaiting(rs) :
              \E i \in DOMAIN rs : WithoutWaiting(rs)[j] = rs[i] /\ rs[i].status # "WAIT"
<1> DEFINE K == {i \in DOMAIN rs : rs[i].status # "WAIT"}
<1>1. WithoutWaiting(rs) = Only(rs, K)
  BY DEF WithoutWaiting
<1>2. K \in SUBSET DOMAIN rs /\ \A i \in K : rs[i].status # "WAIT"
  OBVIOUS
<1> HIDE DEF K
<1> DEFINE f == Numbered(K)
           w == Only(rs, K)
<1>3. /\ w \in Seq(Rows) /\ DOMAIN w = 1..Cardinality(K)
      /\ f \in [1..Cardinality(K) -> K]
      /\ \A j \in 1..Cardinality(K) : w[j] = rs[f[j]]
  BY <1>2, OnlyProperties
<1> HIDE DEF f, w
<1>4. \A j \in DOMAIN w : f[j] \in K /\ w[j] = rs[f[j]]
  BY <1>3
<1>5. \A j \in DOMAIN w : \E i \in DOMAIN rs : w[j] = rs[i] /\ rs[i].status # "WAIT"
  BY <1>2, <1>4
<1>6. QED
  BY <1>1, <1>3, <1>5 DEF w

\* The rows of a new plan wait.
LEMMA PlannedRows ==
  ASSUME NEW p \in Seq(Breakers)
  PROVE  /\ WaitingRows(p) \in Seq(Rows)
         /\ DOMAIN WaitingRows(p) = DOMAIN p
         /\ \A i \in DOMAIN p : WaitingRows(p)[i].cb = p[i] /\ WaitingRows(p)[i].status = "WAIT"
<1>1. Len(p) \in Nat /\ DOMAIN p = 1..Len(p) /\ \A i \in DOMAIN p : p[i] \in Breakers
  OBVIOUS
<1>2. \A cb \in Breakers : [cb |-> cb, status |-> "WAIT"] \in Rows
  BY DEF Rows, RowStatus
<1>3. WaitingRows(p) = [i \in 1..Len(p) |-> [cb |-> p[i], status |-> "WAIT"]]
  BY <1>1 DEF WaitingRows
<1>4. WaitingRows(p) \in Seq(Rows)
  BY <1>1, <1>2, <1>3
<1>5. QED
  BY <1>1, <1>3, <1>4

\* The rows FormFdirStep leaves: those that were sent, and the plan behind
\* them.
LEMMA JoinedRows ==
  ASSUME NEW a \in Seq(Rows), NEW b \in Seq(Rows)
  PROVE  /\ a \o b \in Seq(Rows)
         /\ Len(a \o b) = Len(a) + Len(b)
         /\ Len(a) \in Nat /\ Len(b) \in Nat
         /\ DOMAIN (a \o b) = 1..Len(a) + Len(b)
         /\ \A i \in 1..Len(a) + Len(b) :
              (a \o b)[i] = IF i <= Len(a) THEN a[i] ELSE b[i - Len(a)]
         /\ \A i \in DOMAIN (a \o b) :
              \/ i \in DOMAIN a /\ (a \o b)[i] = a[i]
              \/ i - Len(a) \in DOMAIN b /\ (a \o b)[i] = b[i - Len(a)]
<1>1. /\ a \o b \in Seq(Rows)
      /\ Len(a \o b) = Len(a) + Len(b)
      /\ \A i \in 1..Len(a) + Len(b) :
           (a \o b)[i] = IF i <= Len(a) THEN a[i] ELSE b[i - Len(a)]
  BY ConcatProperties
<1>2. /\ Len(a) \in Nat /\ DOMAIN a = 1..Len(a)
      /\ Len(b) \in Nat /\ DOMAIN b = 1..Len(b)
  OBVIOUS
<1>3. DOMAIN (a \o b) = 1..Len(a) + Len(b)
  BY <1>1
<1>4. ASSUME NEW i \in 1..Len(a) + Len(b)
      PROVE  \/ i \in DOMAIN a /\ (a \o b)[i] = a[i]
             \/ i - Len(a) \in DOMAIN b /\ (a \o b)[i] = b[i - Len(a)]
  <2>1. i \in 1..Len(a) \/ (~(i <= Len(a)) /\ i - Len(a) \in 1..Len(b))
    BY <1>2
  <2>2. QED
    BY <2>1, <1>1, <1>2
<1>5. QED
  BY <1>1, <1>2, <1>3, <1>4

\* The new task is the first, the others stand one place further.
LEMMA PushedControls ==
  ASSUME NEW cs \in Seq(Controls), NEW x \in Controls
  PROVE  /\ <<x>> \o cs \in Seq(Controls)
         /\ Len(<<x>> \o cs) = Len(cs) + 1
         /\ (<<x>> \o cs)[1] = x
         /\ \A i \in DOMAIN cs : i + 1 \in DOMAIN (<<x>> \o cs) /\ (<<x>> \o cs)[i + 1] = cs[i]
         /\ \A i \in DOMAIN (<<x>> \o cs) :
              i = 1 \/ (i - 1 \in DOMAIN cs /\ (<<x>> \o cs)[i] = cs[i - 1])
<1>1. <<x>> \in Seq(Controls) /\ Len(<<x>>) = 1 /\ <<x>>[1] = x
  OBVIOUS
<1>2. /\ <<x>> \o cs \in Seq(Controls)
      /\ Len(<<x>> \o cs) = Len(<<x>>) + Len(cs)
      /\ \A i \in 1..Len(<<x>>) + Len(cs) :
           (<<x>> \o cs)[i] = IF i <= Len(<<x>>) THEN <<x>>[i] ELSE cs[i - Len(<<x>>)]
  BY <1>1, ConcatProperties
<1>3. Len(cs) \in Nat /\ DOMAIN cs = 1..Len(cs)
  OBVIOUS
<1>4. Len(<<x>> \o cs) = Len(cs) + 1 /\ DOMAIN (<<x>> \o cs) = 1..Len(cs) + 1
  BY <1>1, <1>2, <1>3
<1>5. \A i \in 1..Len(cs) + 1 : (<<x>> \o cs)[i] = IF i <= 1 THEN x ELSE cs[i - 1]
  BY <1>1, <1>2, <1>3
<1>6. \A i \in DOMAIN cs : i + 1 \in 1..Len(cs) + 1 /\ ~(i + 1 <= 1) /\ i + 1 - 1 = i
  BY <1>3
<1>7. \A i \in 1..Len(cs) + 1 : i = 1 \/ (~(i <= 1) /\ i - 1 \in DOMAIN cs)
  BY <1>3
<1>8. 1 \in 1..Len(cs) + 1
  BY <1>3
<1>9. QED
  BY <1>2, <1>4, <1>5, <1>6, <1>7, <1>8

\* The pass changes the status of one task in its place.
LEMMA TurnedControls ==
  ASSUME NEW cs \in Seq(Controls), NEW i \in DOMAIN cs, NEW s \in {"WAIT", "RUN", "FINISH"}
  PROVE  /\ [cs EXCEPT ![i].status = s] \in Seq(Controls)
         /\ Len([cs EXCEPT ![i].status = s]) = Len(cs)
         /\ DOMAIN [cs EXCEPT ![i].status = s] = DOMAIN cs
         /\ \A j \in DOMAIN cs :
              /\ [cs EXCEPT ![i].status = s][j].cb = cs[j].cb
              /\ j # i => [cs EXCEPT ![i].status = s][j] = cs[j]
         /\ [cs EXCEPT ![i].status = s][i].status = s
<1> DEFINE turned(x) == [x EXCEPT !.status = s]
           new == [cs EXCEPT ![i] = turned(cs[i])]
<1>1. \A x \in Controls : turned(x) \in Controls /\ turned(x).cb = x.cb /\ turned(x).status = s
  BY DEF Controls
<1>2. [cs EXCEPT ![i].status = s] = new
  OBVIOUS
<1> HIDE DEF turned
<1>3. Len(cs) \in Nat /\ DOMAIN cs = 1..Len(cs) /\ \A j \in DOMAIN cs : cs[j] \in Controls
  OBVIOUS
<1>4. /\ DOMAIN new = DOMAIN cs
      /\ new[i] = turned(cs[i])
      /\ \A j \in DOMAIN cs : j # i => new[j] = cs[j]
  OBVIOUS
<1>5. new \in Seq(Controls) /\ Len(new) = Len(cs)
  <2>1. \A j \in 1..Len(cs) : new[j] \in Controls
    BY <1>1, <1>3, <1>4
  <2>2. new = [j \in 1..Len(cs) |-> new[j]]
    BY <1>3
  <2> HIDE DEF new
  <2>3. QED
    BY <2>1, <2>2, <1>3
<1> HIDE DEF new
<1>6. \A j \in DOMAIN cs : new[j].cb = cs[j].cb
  BY <1>1, <1>3, <1>4
<1>7. QED
  BY <1>1, <1>2, <1>3, <1>4, <1>5, <1>6

\* The time of a control runs out.
LEMMA AgedControls ==
  ASSUME NEW cs \in Seq(Controls), NEW i \in DOMAIN cs
  PROVE  /\ [cs EXCEPT ![i].late = TRUE] \in Seq(Controls)
         /\ Len([cs EXCEPT ![i].late = TRUE]) = Len(cs)
         /\ DOMAIN [cs EXCEPT ![i].late = TRUE] = DOMAIN cs
         /\ \A j \in DOMAIN cs :
              /\ [cs EXCEPT ![i].late = TRUE][j].cb = cs[j].cb
              /\ [cs EXCEPT ![i].late = TRUE][j].status = cs[j].status
<1> DEFINE aged(x) == [x EXCEPT !.late = TRUE]
           new == [cs EXCEPT ![i] = aged(cs[i])]
<1>1. \A x \in Controls : aged(x) \in Controls /\ aged(x).cb = x.cb /\ aged(x).status = x.status
  BY DEF Controls
<1>2. [cs EXCEPT ![i].late = TRUE] = new
  OBVIOUS
<1> HIDE DEF aged
<1>3. Len(cs) \in Nat /\ DOMAIN cs = 1..Len(cs) /\ \A j \in DOMAIN cs : cs[j] \in Controls
  OBVIOUS
<1>4. /\ DOMAIN new = DOMAIN cs
      /\ new[i] = aged(cs[i])
      /\ \A j \in DOMAIN cs : j # i => new[j] = cs[j]
  OBVIOUS
<1>5. new \in Seq(Controls) /\ Len(new) = Len(cs)
  <2>1. \A j \in 1..Len(cs) : new[j] \in Controls
    BY <1>1, <1>3, <1>4
  <2>2. new = [j \in 1..Len(cs) |-> new[j]]
    BY <1>3
  <2> HIDE DEF new
  <2>3. QED
    BY <2>1, <2>2, <1>3
<1> HIDE DEF new
<1>6. \A j \in DOMAIN cs : new[j].cb = cs[j].cb /\ new[j].status = cs[j].status
  BY <1>1, <1>3, <1>4
<1>7. QED
  BY <1>2, <1>4, <1>5, <1>6

\* One task is erased, the others keep their order.
LEMMA ErasedControls ==
  ASSUME NEW cs \in Seq(Controls), NEW i \in DOMAIN cs
  PROVE  /\ RemoveAt(cs, i) \in Seq(Controls)
         /\ Len(RemoveAt(cs, i)) = Len(cs) - 1
         /\ \A j \in DOMAIN RemoveAt(cs, i) : \E k \in DOMAIN cs \ {i} : RemoveAt(cs, i)[j] = cs[k]
         /\ \A k \in DOMAIN cs \ {i} : \E j \in DOMAIN RemoveAt(cs, i) : RemoveAt(cs, i)[j] = cs[k]
<1> DEFINE r == RemoveAt(cs, i)
<1>1. Len(cs) \in Nat /\ DOMAIN cs = 1..Len(cs) /\ i \in 1..Len(cs)
  OBVIOUS
<1>2. /\ r \in Seq(Controls)
      /\ Len(r) = Len(cs) - 1
      /\ \A j \in 1..Len(cs) - 1 : r[j] = IF j < i THEN cs[j] ELSE cs[j + 1]
  BY RemoveAtProperties DEF RemoveAt
<1> HIDE DEF r
<1>3. DOMAIN r = 1..Len(cs) - 1
  BY <1>1, <1>2
<1>4. ASSUME NEW j \in DOMAIN r
      PROVE  \E k \in DOMAIN cs \ {i} : r[j] = cs[k]
  <2>1. CASE j < i
    <3>1. j \in DOMAIN cs \ {i} /\ r[j] = cs[j]
      BY <1>1, <1>2, <1>3, <2>1
    <3>2. QED
      BY <3>1
  <2>2. CASE ~(j < i)
    <3>1. j + 1 \in DOMAIN cs \ {i} /\ r[j] = cs[j + 1]
      BY <1>1, <1>2, <1>3, <2>2
    <3>2. QED
      BY <3>1
  <2>3. QED
    BY <2>1, <2>2
<1>5. ASSUME NEW k \in DOMAIN cs \ {i}
      PROVE  \E j \in DOMAIN r : r[j] = cs[k]
  <2>1. CASE k < i
    <3>1. k \in DOMAIN r /\ r[k] = cs[k]
      BY <1>1, <1>2, <1>3, <2>1
    <3>2. QED
      BY <3>1
  <2>2. CASE ~(k < i)
    <3>1. k - 1 \in DOMAIN r /\ ~(k - 1 < i) /\ k - 1 + 1 = k
      BY <1>1, <1>2, <1>3, <2>2
    <3>2. r[k - 1] = cs[k]
      BY <1>2, <1>3, <3>1
    <3>3. QED
      BY <3>1, <3>2
  <2>3. QED
    BY <2>1, <2>2
<1>6. QED
  BY <1>2, <1>4, <1>5 DEF r

\* The task of a command to cb is put in front of the tasks cs.
PutInFront(new, cb, cs) ==
  \E x \in Controls : x.cb = cb /\ x.status \in {"WAIT", "RUN"} /\ new = <<x>> \o cs

\* AddControlItem: the rows of the breaker are being executed, and a task for
\* it is the first of the list, unless it could not be read.
LEMMA ItemAdded ==
  ASSUME NEW cb \in Breakers, NEW rs \in Seq(Rows), NEW f \in FaultSteps,
         NEW cs \in Seq(Controls), AddControlItem(cb, rs, f, cs)
  PROVE  /\ rows' = Mark(rs, cb, {"WAIT"}, "EXEC")
         /\ rows' \in Seq(Rows)
         /\ fault' = (IF f = "none" THEN "none" ELSE "PROCESS")
         /\ fault' \in FaultSteps
         /\ \/ "breaker" \in ReadFails /\ controls' = cs
            \/ PutInFront(controls', cb, cs)
         /\ controls' \in Seq(Controls)
         /\ Len(controls') \in {Len(cs), Len(cs) + 1}
<1>1. rows' = Mark(rs, cb, {"WAIT"}, "EXEC") /\ rows' \in Seq(Rows)
  BY MarkRows DEF AddControlItem, RowStatus
<1>2. fault' = (IF f = "none" THEN "none" ELSE "PROCESS") /\ fault' \in FaultSteps
  BY DEF AddControlItem, FaultSteps
<1>3. \/ "breaker" \in ReadFails /\ controls' = cs
      \/ PutInFront(controls', cb, cs)
  <2>1. CASE Sent(cb, cs)
    <3>1. PICK accepted \in RegionReads(cb) :
            controls' = <<[cb |-> cb, status |-> IF accepted THEN "WAIT" ELSE "RUN",
                           late |-> FALSE]>> \o cs
      BY <2>1 DEF Sent
    <3>2. [cb |-> cb, status |-> IF accepted THEN "WAIT" ELSE "RUN", late |-> FALSE] \in Controls
      BY DEF Controls
    <3>3. QED
      BY <3>1, <3>2 DEF PutInFront
  <2>2. QED
    BY <2>1 DEF AddControlItem
<1>4. controls' \in Seq(Controls) /\ Len(controls') \in {Len(cs), Len(cs) + 1}
  BY <1>3, PushedControls DEF PutInFront
<1>5. QED
  BY <1>1, <1>2, <1>3, <1>4

\* The first step that is left operates a breaker.
LEMMA LeftFirst ==
  ASSUME NEW rs \in Seq(Rows), Left(rs) # <<>>
  PROVE  Left(rs)[1] \in Rows /\ Left(rs)[1].cb \in Breakers
<1>1. Left(rs) \in Seq(Rows)
  BY LeftRows
<1>2. Len(Left(rs)) \in Nat /\ Len(Left(rs)) # 0 /\ DOMAIN Left(rs) = 1..Len(Left(rs))
  BY <1>1
<1>3. 1 \in DOMAIN Left(rs)
  BY <1>2
<1>4. Left(rs)[1] \in Rows
  BY <1>1, <1>3
<1>5. QED
  BY <1>4 DEF Rows

\* FormFdirStep puts the plan behind the steps that were sent, and the first
\* step that waits is executed if there is one.
LEMMA PlanFormed ==
  ASSUME rows \in Seq(Rows), controls \in Seq(Controls), fault \in FaultSteps, FormFdirStep
  PROVE  /\ \E p \in Plans : \E rs \in Seq(Rows) :
              /\ rs = (IF archived = "no" THEN WithoutWaiting(rows) \o WaitingRows(p) ELSE rows)
              /\ \/ /\ Left(rs) # <<>>
                    /\ AddControlItem(Left(rs)[1].cb, rs, fault, controls)
                 \/ /\ Left(rs) = <<>>
                    /\ rows' = rs /\ fault' = "ISO" /\ controls' = controls
         /\ rows' \in Seq(Rows) /\ fault' \in FaultSteps
         /\ controls' \in Seq(Controls) /\ Len(controls') \in {Len(controls), Len(controls) + 1}
<1> DEFINE Formed(p) == IF archived = "no" THEN WithoutWaiting(rows) \o WaitingRows(p) ELSE rows
<1>1. PICK p \in Plans :
        IF Left(Formed(p)) # <<>>
        THEN AddControlItem(Left(Formed(p))[1].cb, Formed(p), fault, controls)
        ELSE rows' = Formed(p) /\ fault' = "ISO" /\ UNCHANGED controls
  BY DEF FormFdirStep
<1>2. Formed(p) \in Seq(Rows)
  <2>1. p \in Seq(Breakers)
    BY ExecutionAssumption
  <2>2. WithoutWaiting(rows) \in Seq(Rows) /\ WaitingRows(p) \in Seq(Rows)
    BY <2>1, WithoutRows, PlannedRows
  <2>3. WithoutWaiting(rows) \o WaitingRows(p) \in Seq(Rows)
    BY <2>2, JoinedRows
  <2>4. QED
    BY <2>3
<1>3. rows' \in Seq(Rows) /\ fault' \in FaultSteps
      /\ controls' \in Seq(Controls) /\ Len(controls') \in {Len(controls), Len(controls) + 1}
  <2>1. PICK rs \in Seq(Rows) : rs = Formed(p)
    BY <1>2
  <2> HIDE DEF Formed
  <2>2. CASE Left(rs) # <<>>
    <3>1. Left(rs)[1].cb \in Breakers
      BY <2>2, LeftFirst
    <3>2. AddControlItem(Left(rs)[1].cb, rs, fault, controls)
      BY <1>1, <2>1, <2>2
    <3>3. QED
      BY <3>1, <3>2, ItemAdded
  <2>3. CASE Left(rs) = <<>>
    <3>1. rows' = rs /\ fault' = "ISO" /\ controls' = controls
      BY <1>1, <2>1, <2>3
    <3>2. QED
      BY <3>1 DEF FaultSteps
  <2>4. QED
    BY <2>2, <2>3
<1> HIDE DEF Formed
<1>4. \E q \in Plans : \E rs \in Seq(Rows) :
        /\ rs = Formed(q)
        /\ \/ /\ Left(rs) # <<>>
              /\ AddControlItem(Left(rs)[1].cb, rs, fault, controls)
           \/ /\ Left(rs) = <<>>
              /\ rows' = rs /\ fault' = "ISO" /\ controls' = controls
  <2>1. PICK rs \in Seq(Rows) : rs = Formed(p)
    BY <1>2
  <2>2. \/ /\ Left(rs) # <<>>
           /\ AddControlItem(Left(rs)[1].cb, rs, fault, controls)
        \/ /\ Left(rs) = <<>>
           /\ rows' = rs /\ fault' = "ISO" /\ controls' = controls
    BY <1>1, <2>1
  <2>3. QED
    BY <2>1, <2>2
<1>5. QED
  BY <1>3, <1>4 DEF Formed
-----------------------------------------------------------------------------
LEMMA TypedInitially ==
  ASSUME Init
  PROVE  Typed
<1>1. Idle \in Works /\ Idle.op = "idle"
  BY DEF Idle, Works
<1>2. todo \in [Threads -> Works] /\ ReturnsOne
  BY <1>1 DEF Init, ReturnsOne
<1>3. rows \in Seq(Rows) /\ controls \in Seq(Controls)
  BY DEF Init
<1>4. AtItsControl
  BY DEF Init, AtItsControl
<1>5. QED
  BY <1>2, <1>3, <1>4 DEF Init, Typed, TypeOK, Rows, Controls, Works, FaultSteps

\* What the requests leave in todo.
LEMMA ThenTyped ==
  ASSUME TypeOK, ReturnsOne, NEW t \in Threads, NEW w \in Works,
         w.op = "return" => w.cbs # <<>>, Then(t, w)
  PROVE  todo' \in [Threads -> Works] /\ ReturnsOne'
<1>1. todo \in [Threads -> Works]
  BY DEF TypeOK, Works
<1>2. todo' = [todo EXCEPT ![t] = w]
  BY DEF Then
<1>3. todo' \in [Threads -> Works]
  BY <1>1, <1>2
<1>4. \A u \in Threads : todo'[u].op = "return" => todo'[u].cbs # <<>>
  BY <1>1, <1>2 DEF ReturnsOne
<1>5. QED
  BY <1>3, <1>4 DEF ReturnsOne

LEMMA WorkTyped ==
  ASSUME NEW op \in {"idle", "remove", "left", "archive", "insert", "return", "recalc"},
         NEW cbs \in Seq(Breakers)
  PROVE  Work(op, cbs) \in Works /\ Work(op, cbs).op = op /\ Work(op, cbs).cbs = cbs
BY DEF Work, Works

LEMMA IdleTyped == Idle \in Works /\ Idle.op = "idle"
BY DEF Idle, Works

\* The parts of TypeOK, with the sets named above.
LEMMA TypedParts ==
  Typed <=>
    /\ rows \in Seq(Rows) /\ controls \in Seq(Controls)
    /\ fault \in FaultSteps /\ bAuto \in {0, 1} /\ executing \in BOOLEAN
    /\ archived \in {"no", "FINISH", "STOP", "OTHER"}
    /\ visit \in Nat /\ after \in {"no", "left", "finish"}
    /\ todo \in [Threads -> Works]
    /\ ReturnsOne /\ AtItsControl
BY DEF Typed, TypeOK, Rows, Controls, Works

LEMMA TypedNext ==
  ASSUME rows' \in Seq(Rows), controls' \in Seq(Controls),
         fault' \in FaultSteps, bAuto' \in {0, 1}, executing' \in BOOLEAN,
         archived' \in {"no", "FINISH", "STOP", "OTHER"},
         visit' \in Nat, after' \in {"no", "left", "finish"},
         todo' \in [Threads -> Works],
         ReturnsOne', AtItsControl'
  PROVE  Typed'
BY DEF Typed, TypeOK, Rows, Controls, Works

\* A step of the pass, which leaves todo alone and has nothing more to do for
\* a control unless it says so.
LEMMA TypedPass ==
  ASSUME Typed, Process
  PROVE  Typed'
<1>1. /\ rows \in Seq(Rows) /\ controls \in Seq(Controls)
      /\ fault \in FaultSteps /\ bAuto \in {0, 1} /\ executing \in BOOLEAN
      /\ archived \in {"no", "FINISH", "STOP", "OTHER"}
      /\ visit \in Nat /\ after \in {"no", "left", "finish"}
      /\ todo \in [Threads -> Works]
      /\ ReturnsOne /\ AtItsControl
  BY TypedParts
<1>2. Len(controls) \in Nat /\ DOMAIN controls = 1..Len(controls)
  BY <1>1
<1>3. todo' = todo
  BY DEF Process, BeginPass, EndPass, VisitGrouped, VisitIso, VisitFault, VisitRecalc, VisitWait,
         VisitStay, VisitOver, VisitTimeout, VisitSucceed, NextStep, FinishGroup
<1>4. todo' \in [Threads -> Works] /\ ReturnsOne'
  BY <1>1, <1>3 DEF ReturnsOne
<1>5. Present(fault) \in {0, 1}
  BY DEF Present
<1>6. CASE BeginPass \/ EndPass
  <2>1. visit' \in Nat /\ UNCHANGED <<rows, taskVars, archived, after>>
    BY <1>6 DEF BeginPass, EndPass
  <2>2. after = "no"
    <3>1. visit = 0 \/ visit > Len(controls) + Present(fault)
      BY <1>6 DEF BeginPass, EndPass
    <3>2. QED
      BY <1>1, <1>2, <1>5, <3>1 DEF AtItsControl
  <2>3. AtItsControl'
    BY <2>1, <2>2 DEF AtItsControl
  <2>4. QED
    BY <1>1, <1>4, <2>1, <2>3, TypedParts DEF taskVars, Typed, TypeOK, Rows, Controls, Works
<1>7. CASE VisitGrouped \/ VisitIso \/ VisitFault \/ VisitRecalc
  <2>1. visit = Len(controls) + 1 /\ after = "no"
    <3>1. visit = Len(controls) + 1
      BY <1>7 DEF VisitGrouped, VisitIso, VisitFault, VisitRecalc, AtFault
    <3>2. QED
      BY <1>1, <1>2, <3>1 DEF AtItsControl
  <2>2. /\ rows' \in Seq(Rows) /\ controls' \in Seq(Controls) /\ Len(controls') \in Nat
        /\ fault' \in FaultSteps /\ visit' \in Nat
        /\ bAuto' \in {0, 1} /\ executing' \in BOOLEAN
    <3>1. CASE FormFdirStep /\ visit' = Shifted + 1 /\ executing' = executing
               /\ bAuto' \in {0, 1}
      <4>1. rows' \in Seq(Rows) /\ fault' \in FaultSteps
            /\ controls' \in Seq(Controls) /\ Len(controls') \in {Len(controls), Len(controls) + 1}
        BY <1>1, <3>1, PlanFormed
      <4>2. visit' = visit + Len(controls') - Len(controls) + 1
        BY <3>1 DEF Shifted
      <4>3. visit' \in Nat /\ Len(controls') \in Nat
        BY <4>1, <4>2, <1>1, <1>2
      <4>4. QED
        BY <1>1, <3>1, <4>1, <4>3
    <3>2. CASE VisitGrouped /\ ~FormFdirStep
      <4>1. /\ fault' = IF USER2AUTO THEN "ISO" ELSE "none"
            /\ UNCHANGED <<rows, controls>>
            /\ visit' = visit + Len(controls') - Len(controls) + 1
            /\ UNCHANGED <<bAuto, executing>>
        BY <3>2 DEF VisitGrouped, Shifted
      <4>2. visit' \in Nat
        BY <4>1, <1>1, <1>2
      <4>3. fault' \in FaultSteps
        BY <4>1 DEF FaultSteps
      <4>4. QED
        BY <1>1, <1>2, <4>1, <4>2, <4>3
    <3>3. CASE VisitFault
      BY <3>3, <1>1, <1>2 DEF VisitFault, taskVars
    <3>4. CASE VisitRecalc
      <4>1. rows' \in Seq(Rows)
        BY <3>4, <1>1, WithoutRows DEF VisitRecalc
      <4>2. QED
        BY <3>4, <1>1, <1>2, <4>1 DEF VisitRecalc, FaultSteps, SecondNode
    <3>5. QED
      BY <1>7, <1>1, <3>1, <3>2, <3>3, <3>4 DEF VisitGrouped, VisitIso
  <2>3. after' = after /\ archived' = archived
    BY <1>7 DEF VisitGrouped, VisitIso, VisitFault, VisitRecalc
  <2>4. AtItsControl'
    BY <2>1, <2>3 DEF AtItsControl
  <2>5. QED
    BY <1>1, <1>4, <2>2, <2>3, <2>4 DEF Typed, TypeOK, Rows, Controls, Works
<1>8. CASE VisitWait \/ VisitStay \/ VisitOver \/ VisitTimeout
  <2>1. after = "no" /\ after' = "no" /\ visit \in DOMAIN controls /\ archived' = archived
        /\ UNCHANGED <<bAuto, executing>>
    BY <1>8 DEF VisitWait, VisitStay, VisitOver, VisitTimeout, AtControl, taskVars
  <2>2. controls' \in Seq(Controls)
    <3>1. CASE VisitWait
      BY <3>1, <1>1, <2>1, TurnedControls DEF VisitWait
    <3>2. CASE controls' = controls
      BY <3>2, <1>1
    <3>3. CASE controls' = RemoveAt(controls, visit)
      BY <3>3, <1>1, <2>1, ErasedControls
    <3>4. QED
      BY <1>8, <3>1, <3>2, <3>3 DEF VisitStay, VisitOver, VisitTimeout, taskVars
  <2>3. rows' \in Seq(Rows)
    BY <1>8, <1>1, MarkRows DEF VisitWait, VisitStay, VisitOver, VisitTimeout, RowStatus
  <2>4. fault' \in FaultSteps
    BY <1>8, <1>1 DEF VisitWait, VisitStay, VisitOver, VisitTimeout, taskVars, AfterFailure, FaultSteps
  <2>5. visit' \in Nat
    BY <1>8, <1>1 DEF VisitWait, VisitStay, VisitOver, VisitTimeout, SecondNode
  <2>6. AtItsControl'
    BY <2>1 DEF AtItsControl
  <2>7. QED
    BY <1>1, <1>4, <2>1, <2>2, <2>3, <2>4, <2>5, <2>6 DEF Typed, TypeOK, Rows, Controls, Works
<1>9. CASE VisitSucceed
  <2>1. /\ UNCHANGED <<controls, fault, bAuto, executing, archived, visit>>
        /\ after' = "left"
        /\ visit \in DOMAIN controls /\ controls[visit].status = "RUN"
    BY <1>9 DEF VisitSucceed, taskVars, AtControl
  <2>2. rows' \in Seq(Rows)
    BY <1>9, <1>1, MarkRows DEF VisitSucceed, RowStatus
  <2>3. AtItsControl'
    BY <2>1 DEF AtItsControl
  <2>4. QED
    BY <1>1, <1>4, <2>1, <2>2, <2>3 DEF Typed, TypeOK, Rows, Controls, Works
<1>10. CASE NextStep \/ FinishGroup
  <2>1. after \in {"left", "finish"} /\ visit \in DOMAIN controls /\ controls[visit].status = "RUN"
    BY <1>10, <1>1 DEF NextStep, FinishGroup, AtItsControl
  <2>2. Finished \in Seq(Controls) /\ Len(Finished) = Len(controls)
    BY <2>1, <1>1, TurnedControls DEF Finished
  <2>3. CASE FinishGroup
    <3>1. rows' \in Seq(Rows)
      BY <2>3 DEF FinishGroup, Archive
    <3>2. AtItsControl'
      BY <2>3 DEF FinishGroup, AtItsControl
    <3>3. /\ controls' = Finished /\ visit' = visit + 1 /\ after' = "no"
          /\ fault' = "none" /\ bAuto' = 0 /\ executing' = FALSE /\ archived' = "FINISH"
      BY <2>3 DEF FinishGroup, Archive, RemoveTasks
    <3>4. fault' \in FaultSteps /\ visit' \in Nat /\ controls' \in Seq(Controls)
      BY <1>1, <2>2, <3>3 DEF FaultSteps
    <3>5. QED
      BY <1>4, <3>1, <3>2, <3>3, <3>4, TypedNext
  <2>4. CASE NextStep /\ after' = "finish"
    <3>1. UNCHANGED <<rows, controls, fault, bAuto, executing, archived, visit>>
      BY <2>4 DEF NextStep, taskVars
    <3>2. AtItsControl'
      BY <2>1, <2>4, <3>1 DEF AtItsControl
    <3>3. QED
      BY <2>4, <1>1, <1>4, <3>1, <3>2 DEF Typed, TypeOK, Rows, Controls, Works
  <2>5. CASE NextStep /\ after' # "finish"
    <3>1. /\ executing' = (fault # "none")
          /\ \/ Left(rows) # <<>> /\ AddControlItem(Left(rows)[1].cb, rows, fault, Finished)
             \/ fault' \in {"PROCESS", "RE_CALC", fault} /\ controls' = Finished /\ rows' = rows
          /\ visit' = visit + Len(controls') - Len(controls) + 1
          /\ after' = "no" /\ UNCHANGED <<bAuto, archived>>
      BY <2>5 DEF NextStep, Shifted
    <3>2. /\ rows' \in Seq(Rows) /\ fault' \in FaultSteps
          /\ controls' \in Seq(Controls) /\ Len(controls') \in {Len(controls), Len(controls) + 1}
      <4>1. CASE Left(rows) # <<>> /\ AddControlItem(Left(rows)[1].cb, rows, fault, Finished)
        <5>1. Left(rows)[1].cb \in Breakers
          BY <4>1, <1>1, LeftFirst
        <5>2. QED
          BY <5>1, <4>1, <1>1, <2>2, ItemAdded
      <4>2. CASE fault' \in {"PROCESS", "RE_CALC", fault} /\ controls' = Finished /\ rows' = rows
        BY <4>2, <1>1, <1>2, <2>2 DEF FaultSteps
      <4>3. QED
        BY <3>1, <4>1, <4>2
    <3>3. visit' \in Nat
      BY <3>1, <3>2, <1>1, <1>2
    <3>4. AtItsControl'
      BY <3>1 DEF AtItsControl
    <3>5. QED
      BY <1>1, <1>4, <3>1, <3>2, <3>3, <3>4 DEF Typed, TypeOK, Rows, Controls, Works
  <2>6. QED
    BY <1>10, <2>3, <2>4, <2>5
<1>11. QED
  BY <1>6, <1>7, <1>8, <1>9, <1>10 DEF Process

\* A step of another thread, which leaves the pass where it is, and adds a
\* task only between two passes.
LEMMA TypedOutside ==
  ASSUME Typed, rows' \in Seq(Rows), fault' \in FaultSteps,
         bAuto' \in {0, 1}, executing' \in BOOLEAN,
         archived' \in {"no", "FINISH", "STOP", "OTHER"},
         todo' \in [Threads -> Works], ReturnsOne',
         UNCHANGED <<visit, after>>,
         \/ controls' = controls
         \/ visit = 0 /\ controls' \in Seq(Controls)
  PROVE  Typed'
<1>1. /\ controls \in Seq(Controls) /\ visit \in Nat /\ after \in {"no", "left", "finish"}
      /\ AtItsControl
  BY TypedParts
<1>2. DOMAIN controls = 1..Len(controls) /\ Len(controls) \in Nat
  BY <1>1
<1>3. AtItsControl'
  BY <1>1, <1>2 DEF AtItsControl
<1>4. QED
  BY <1>1, <1>3, TypedNext

LEMMA TypedRequest ==
  ASSUME Typed, NEW c \in Clients, Request(c)
  PROVE  Typed'
<1>1. /\ rows \in Seq(Rows) /\ controls \in Seq(Controls)
      /\ fault \in FaultSteps /\ bAuto \in {0, 1} /\ executing \in BOOLEAN
      /\ archived \in {"no", "FINISH", "STOP", "OTHER"}
      /\ todo \in [Threads -> Works]
      /\ TypeOK /\ ReturnsOne /\ c \in Threads
  BY TypedParts DEF Typed, Threads
<1>2. Loaded \in FaultSteps
  BY <1>1 DEF Loaded, FaultSteps
<1>3. <<>> \in Seq(Breakers)
  OBVIOUS
<1>4. ASSUME NEW op \in {"remove", "left", "recalc"}, Then(c, Work(op, <<>>))
      PROVE  todo' \in [Threads -> Works] /\ ReturnsOne'
  BY <1>1, <1>3, <1>4, WorkTyped, ThenTyped
<1>5. CASE SetAuto(c)
  <2>1. /\ UNCHANGED <<executing, archived, visit, after, todo>> /\ visit = 0
        /\ bAuto' \in {0, 1}
    BY <1>5 DEF SetAuto
  <2>2. rows' \in Seq(Rows) /\ fault' \in FaultSteps /\ controls' \in Seq(Controls)
    <3>1. CASE Left(rows) # <<>>
      <4>1. Left(rows)[1].cb \in Breakers
        BY <3>1, <1>1, LeftFirst
      <4>2. AddControlItem(Left(rows)[1].cb, rows, Loaded, controls)
        BY <3>1, <1>5 DEF SetAuto
      <4>3. QED
        BY <4>1, <4>2, <1>1, <1>2, ItemAdded
    <3>2. CASE Left(rows) = <<>>
      BY <3>2, <1>1, <1>2, <1>5 DEF SetAuto
    <3>3. QED
      BY <3>1, <3>2
  <2>3. ReturnsOne'
    BY <1>1, <2>1 DEF ReturnsOne
  <2>4. QED
    BY <1>1, <2>1, <2>2, <2>3, TypedOutside
<1>6. CASE Stop(c)
  <2>1. todo' \in [Threads -> Works] /\ ReturnsOne'
    BY <1>4, <1>6 DEF Stop
  <2>2. rows' \in Seq(Rows) /\ archived' = "STOP" /\ UNCHANGED <<taskVars, visit, after>>
    BY <1>6 DEF Stop, Archive
  <2>3. QED
    BY <1>1, <2>1, <2>2, TypedOutside DEF taskVars
<1>7. CASE Finish(c)
  <2>1. rows' \in Seq(Rows) /\ archived' \in {"no", "FINISH", "STOP", "OTHER"}
        /\ UNCHANGED <<taskVars, visit, after, todo>>
    BY <1>1, <1>7 DEF Finish
  <2>2. ReturnsOne'
    BY <1>1, <2>1 DEF ReturnsOne
  <2>3. QED
    BY <1>1, <2>1, <2>2, TypedOutside DEF taskVars
<1>8. CASE Pass(c)
  <2>1. todo' \in [Threads -> Works] /\ ReturnsOne'
    BY <1>4, <1>8 DEF Pass
  <2>2. UNCHANGED <<taskVars, archived, visit, after>>
    BY <1>8 DEF Pass
  <2>3. rows' \in Seq(Rows)
    BY <1>1, <1>8, MarkRows DEF Pass, RowStatus
  <2>4. QED
    BY <1>1, <2>1, <2>2, <2>3, TypedOutside DEF taskVars
<1>9. CASE Plan(c)
  <2>1. PICK p \in Plans : Then(c, Work("insert", p))
    BY <1>9 DEF Plan
  <2>2. todo' \in [Threads -> Works] /\ ReturnsOne'
    <3>1. p \in Seq(Breakers)
      BY ExecutionAssumption
    <3>2. Work("insert", p) \in Works /\ Work("insert", p).op = "insert"
      BY <3>1, WorkTyped
    <3>3. QED
      BY <1>1, <2>1, <3>2, ThenTyped
  <2>3. rows' \in Seq(Rows)
    BY <1>1, <1>9, WithoutRows DEF Plan
  <2>4. QED
    BY <1>1, <1>9, <2>2, <2>3, TypedOutside DEF Plan, taskVars
<1>10. CASE Control(c)
  <2>1. PICK r \in ToSet(Left(rows)) : Then(c, Work("return", <<r.cb>>))
    BY <1>10 DEF Control
  <2>2. r.cb \in Breakers
    <3>1. Left(rows) \in Seq(Rows) /\ \E i \in DOMAIN Left(rows) : r = Left(rows)[i]
      BY <2>1, <1>1, LeftRows DEF ToSet
    <3>2. r \in Rows
      BY <3>1
    <3>3. QED
      BY <3>2 DEF Rows
  <2>3. Work("return", <<r.cb>>) \in Works /\ Work("return", <<r.cb>>).cbs # <<>>
    <3>1. <<r.cb>> \in Seq(Breakers) /\ <<r.cb>> # <<>>
      BY <2>2
    <3>2. QED
      BY <3>1, WorkTyped
  <2>4. todo' \in [Threads -> Works] /\ ReturnsOne'
    BY <1>1, <2>1, <2>3, ThenTyped
  <2>5. QED
    BY <1>1, <1>2, <1>10, <2>4, TypedOutside DEF Control
<1>11. CASE Recalc(c)
  <2>1. todo' \in [Threads -> Works] /\ ReturnsOne'
    BY <1>4, <1>11 DEF Recalc
  <2>2. QED
    BY <1>1, <1>2, <1>11, <2>1, TypedOutside DEF Recalc
<1>12. QED
  BY <1>5, <1>6, <1>7, <1>8, <1>9, <1>10, <1>11 DEF Request

LEMMA TypedHandle ==
  ASSUME Typed, NEW c \in Clients, Handle(c)
  PROVE  Typed'
<1>1. /\ rows \in Seq(Rows) /\ controls \in Seq(Controls)
      /\ fault \in FaultSteps /\ bAuto \in {0, 1} /\ executing \in BOOLEAN
      /\ archived \in {"no", "FINISH", "STOP", "OTHER"}
      /\ todo \in [Threads -> Works]
      /\ TypeOK /\ ReturnsOne /\ c \in Threads
  BY TypedParts DEF Typed, Threads
<1>2. ASSUME Then(c, Idle)
      PROVE  todo' \in [Threads -> Works] /\ ReturnsOne'
  BY <1>1, <1>2, IdleTyped, ThenTyped
<1>3. todo[c].cbs \in Seq(Breakers)
  BY <1>1 DEF Works
<1>4. CASE StopRemoves(c)
  <2>1. todo' \in [Threads -> Works] /\ ReturnsOne'
    BY <1>2, <1>4 DEF StopRemoves
  <2>2. /\ fault' = "none" /\ bAuto' = 0 /\ executing' = FALSE
        /\ UNCHANGED <<rows, controls, archived, visit, after>>
    BY <1>4 DEF StopRemoves, RemoveTasks
  <2>3. QED
    BY <1>1, <2>1, <2>2, TypedOutside DEF FaultSteps
<1>5. CASE PassLeft(c)
  <2>1. todo' \in [Threads -> Works] /\ ReturnsOne'
    <3>1. CASE Then(c, Work("archive", <<>>))
      <4>1. <<>> \in Seq(Breakers)
        OBVIOUS
      <4>2. QED
        BY <3>1, <1>1, <4>1, WorkTyped, ThenTyped
    <3>2. QED
      BY <3>1, <1>2, <1>5 DEF PassLeft
  <2>2. QED
    BY <1>1, <1>5, <2>1, TypedOutside DEF PassLeft, taskVars
<1>6. CASE PassFinishes(c)
  <2>1. todo' \in [Threads -> Works] /\ ReturnsOne'
    BY <1>2, <1>6 DEF PassFinishes
  <2>2. /\ rows' \in Seq(Rows) /\ archived' = "FINISH"
        /\ fault' = "none" /\ bAuto' = 0 /\ executing' = FALSE
        /\ UNCHANGED <<controls, visit, after>>
    BY <1>6 DEF PassFinishes, RemoveTasks, Archive
  <2>3. QED
    BY <1>1, <2>1, <2>2, TypedOutside DEF FaultSteps
<1>7. CASE PlanInserts(c)
  <2>1. CASE todo[c].cbs = <<>>
    <3>1. Then(c, Idle) /\ rows' = rows /\ UNCHANGED <<taskVars, archived, visit, after>>
      BY <1>7, <2>1 DEF PlanInserts
    <3>2. QED
      BY <1>1, <1>2, <3>1, TypedOutside DEF taskVars
  <2>2. CASE todo[c].cbs # <<>>
    <3>1. Head(todo[c].cbs) \in Breakers /\ Tail(todo[c].cbs) \in Seq(Breakers)
      BY <1>3, <2>2
    <3>2. /\ rows' = rows \o WaitingRows(<<Head(todo[c].cbs)>>)
          /\ Then(c, Work("insert", Tail(todo[c].cbs)))
          /\ UNCHANGED <<taskVars, archived, visit, after>>
      BY <1>7, <2>2 DEF PlanInserts
    <3>3. rows' \in Seq(Rows)
      <4>1. <<Head(todo[c].cbs)>> \in Seq(Breakers)
        BY <3>1
      <4>2. PICK b \in Seq(Rows) : b = WaitingRows(<<Head(todo[c].cbs)>>)
        BY <4>1, PlannedRows
      <4>3. rows' = rows \o b
        BY <3>2, <4>2
      <4>4. QED
        BY <1>1, <4>3, JoinedRows
    <3>4. Work("insert", Tail(todo[c].cbs)) \in Works /\ Work("insert", Tail(todo[c].cbs)).op = "insert"
      BY <3>1, WorkTyped
    <3>5. todo' \in [Threads -> Works] /\ ReturnsOne'
      BY <1>1, <3>2, <3>4, ThenTyped
    <3>6. QED
      BY <1>1, <3>2, <3>3, <3>5, TypedOutside DEF taskVars
  <2>3. QED
    BY <2>1, <2>2
<1>8. CASE ControlReturns(c)
  <2>1. todo' \in [Threads -> Works] /\ ReturnsOne'
    BY <1>2, <1>8 DEF ControlReturns
  <2>2. todo[c].cbs[1] \in Breakers
    <3>1. todo[c].cbs # <<>>
      BY <1>1, <1>8 DEF ControlReturns, ReturnsOne
    <3>2. QED
      BY <1>3, <3>1
  <2>3. PICK cb \in Breakers : cb = todo[c].cbs[1]
    BY <2>2
  <2>4. rows' \in Seq(Rows)
    BY <1>1, <1>8, <2>3, MarkRows DEF ControlReturns, RowStatus
  <2>5. controls' \in Seq(Controls) /\ visit = 0
    <3>1. [cb |-> cb, status |-> "RUN", late |-> FALSE] \in Controls
      BY DEF Controls
    <3>2. PICK x \in Controls : x = [cb |-> cb, status |-> "RUN", late |-> FALSE]
      BY <3>1
    <3>3. visit = 0 /\ (controls' = <<x>> \o controls \/ controls' = controls)
      BY <1>8, <2>3, <3>2 DEF ControlReturns
    <3>4. QED
      BY <1>1, <3>3, PushedControls
  <2>6. UNCHANGED <<fault, bAuto, executing, archived, visit, after>>
    BY <1>8 DEF ControlReturns
  <2>7. QED
    BY <1>1, <2>1, <2>4, <2>5, <2>6, TypedOutside
<1>9. CASE RecalcMarks(c)
  <2>1. todo' \in [Threads -> Works] /\ ReturnsOne'
    BY <1>2, <1>9 DEF RecalcMarks
  <2>2. fault' \in FaultSteps
    BY <1>9 DEF RecalcMarks, FaultSteps
  <2>3. QED
    BY <1>1, <1>9, <2>1, <2>2, TypedOutside DEF RecalcMarks
<1>10. QED
  BY <1>4, <1>5, <1>6, <1>7, <1>8, <1>9 DEF Handle

\* Every step keeps the types.
LEMMA TypedInductive ==
  ASSUME Typed, [Next]_vars
  PROVE  Typed'
<1>1. /\ rows \in Seq(Rows) /\ controls \in Seq(Controls)
      /\ fault \in FaultSteps /\ bAuto \in {0, 1} /\ executing \in BOOLEAN
      /\ archived \in {"no", "FINISH", "STOP", "OTHER"}
      /\ visit \in Nat /\ after \in {"no", "left", "finish"}
      /\ todo \in [Threads -> Works]
      /\ TypeOK /\ ReturnsOne /\ AtItsControl
  BY TypedParts DEF Typed
<1>2. "alarm" \in Threads
  BY DEF Threads
<1>3. CASE Restart
  <2>1. todo' = [t \in Threads |-> Idle]
    BY <1>3 DEF Restart
  <2>2. todo' \in [Threads -> Works] /\ ReturnsOne'
    BY <2>1, IdleTyped DEF ReturnsOne
  <2>3. /\ UNCHANGED <<rows, archived>> /\ controls' \in Seq(Controls) /\ fault' = "none"
        /\ bAuto' = 0 /\ executing' = FALSE /\ visit' = 0 /\ after' = "no"
    BY <1>3 DEF Restart
  <2>4. AtItsControl' /\ "none" \in FaultSteps
    BY <2>3 DEF AtItsControl, FaultSteps
  <2>5. QED
    BY <1>1, <2>2, <2>3, <2>4, TypedNext
<1>4. ASSUME NEW i \in 1..Len(controls), Age(i)
      PROVE  Typed'
  <2>1. /\ i \in DOMAIN controls
        /\ controls' = [controls EXCEPT ![i].late = TRUE]
        /\ UNCHANGED <<rows, fault, bAuto, executing, archived, visit, after, todo>>
    BY <1>4 DEF Age
  <2>2. /\ controls' \in Seq(Controls) /\ DOMAIN controls' = DOMAIN controls
        /\ \A j \in DOMAIN controls : controls'[j].status = controls[j].status
    BY <1>1, <2>1, AgedControls
  <2>3. AtItsControl' /\ ReturnsOne'
    BY <1>1, <2>1, <2>2 DEF AtItsControl, ReturnsOne
  <2>4. QED
    BY <1>1, <2>1, <2>2, <2>3, TypedNext
<1>5. CASE Evict
  <2>1. Work("archive", <<>>) \in Works /\ Work("archive", <<>>).op = "archive"
    <3>1. <<>> \in Seq(Breakers)
      OBVIOUS
    <3>2. QED
      BY <3>1, WorkTyped
  <2>2. /\ Then("alarm", Work("archive", <<>>))
        /\ fault' = "none" /\ bAuto' = 0 /\ executing' = FALSE
        /\ UNCHANGED <<rows, controls, archived, visit, after>>
    BY <1>5 DEF Evict, RemoveTasks
  <2>3. todo' \in [Threads -> Works] /\ ReturnsOne'
    BY <1>1, <1>2, <2>1, <2>2, ThenTyped
  <2>4. QED
    BY <1>1, <2>2, <2>3, TypedOutside DEF FaultSteps
<1>6. CASE EvictArchives
  <2>1. Then("alarm", Idle) /\ rows' = <<>> /\ archived' = "STOP"
        /\ UNCHANGED <<taskVars, visit, after>>
    BY <1>6 DEF EvictArchives, Archive
  <2>2. todo' \in [Threads -> Works] /\ ReturnsOne'
    BY <1>1, <1>2, <2>1, IdleTyped, ThenTyped
  <2>3. rows' \in Seq(Rows)
    BY <2>1
  <2>4. QED
    BY <1>1, <2>1, <2>2, <2>3, TypedOutside DEF taskVars
<1>7. CASE UNCHANGED vars
  <2>1. ReturnsOne' /\ AtItsControl'
    BY <1>1, <1>7 DEF vars, taskVars, ReturnsOne, AtItsControl
  <2>2. QED
    BY <1>1, <1>7, <2>1, TypedNext DEF vars, taskVars
<1>8. QED
  BY <1>3, <1>4, <1>5, <1>6, <1>7, TypedPass, TypedRequest, TypedHandle DEF Next

\* The rows, the task list, the place of the pass and what the threads still
\* have to do always are what the program may hold, whatever the consoles,
\* the alarm thread and the crashes do.
THEOREM TypeCorrect == Spec => []TypeOK
<1>1. Typed /\ [Next]_vars => Typed'
  BY TypedInductive
<1>2. Typed => TypeOK
  BY DEF Typed
<1>3. QED
  BY TypedInitially, <1>1, <1>2, PTL DEF Spec
-----------------------------------------------------------------------------
\* Whether a control may still operate its breaker.
Moves(x) == x.status \in {"WAIT", "RUN"}

\* No crash, and the reads before a command is noted and after it has failed
\* succeed.
CommandsNoted == ~Crashes /\ ReadFails \cap {"breaker", "failed"} = {}

\* ExecControlled by positions.
Covered(rs, cs) ==
  \A i \in DOMAIN rs : rs[i].status = "EXEC" =>
    \E j \in DOMAIN cs : Moves(cs[j]) /\ cs[j].cb = rs[i].cb

\* The row of a control that has succeeded is written before the pass is done
\* with the control.
DoneWritten ==
  after # "no" => \A i \in DOMAIN rows : rows[i].cb = controls[visit].cb => rows[i].status # "EXEC"

Controlled == Covered(rows, controls) /\ DoneWritten

\* Every row that is being executed in rs already was in the rows old.
NoneStarted(rs, old) ==
  \A i \in DOMAIN rs : rs[i].status = "EXEC" =>
    \E k \in DOMAIN old : old[k].status = "EXEC" /\ old[k].cb = rs[i].cb

LEMMA CoveredByFewer ==
  ASSUME NEW rs, NEW old, NEW cs, NoneStarted(rs, old), Covered(old, cs)
  PROVE  Covered(rs, cs)
BY DEF NoneStarted, Covered

\* Deleting, marking and appending rows that wait starts none.
LEMMA NoneStartedBy ==
  ASSUME NEW rs \in Seq(Rows)
  PROVE  /\ NoneStarted(<<>>, rs) /\ NoneStarted(rs, rs)
         /\ NoneStarted(WithoutWaiting(rs), rs)
         /\ \A cb \in Breakers : \A from : \A to \in RowStatus \ {"EXEC"} :
              NoneStarted(Mark(rs, cb, from, to), rs)
         /\ \A p \in Seq(Breakers) :
              /\ NoneStarted(rs \o WaitingRows(p), rs)
              /\ NoneStarted(WithoutWaiting(rs) \o WaitingRows(p), rs)
<1>1. NoneStarted(<<>>, rs) /\ NoneStarted(rs, rs)
  BY DEF NoneStarted
<1>2. NoneStarted(WithoutWaiting(rs), rs)
  BY WithoutRows DEF NoneStarted
<1>3. ASSUME NEW cb \in Breakers, NEW from, NEW to \in RowStatus \ {"EXEC"}
      PROVE  NoneStarted(Mark(rs, cb, from, to), rs)
  <2>1. /\ DOMAIN Mark(rs, cb, from, to) = DOMAIN rs
        /\ \A i \in DOMAIN rs :
             /\ Mark(rs, cb, from, to)[i].cb = rs[i].cb
             /\ Mark(rs, cb, from, to)[i].status =
                  IF rs[i].cb = cb /\ rs[i].status \in from THEN to ELSE rs[i].status
    BY <1>3, MarkRows
  <2>2. \A i \in DOMAIN rs : Mark(rs, cb, from, to)[i].status = "EXEC" => rs[i].status = "EXEC"
    BY <2>1, <1>3
  <2>3. QED
    BY <2>1, <2>2 DEF NoneStarted
<1>4. ASSUME NEW p \in Seq(Breakers), NEW a \in Seq(Rows), NoneStarted(a, rs)
      PROVE  NoneStarted(a \o WaitingRows(p), rs)
  <2>1. PICK b \in Seq(Rows) : b = WaitingRows(p)
    BY PlannedRows
  <2>2. \A i \in DOMAIN b : b[i].status = "WAIT"
    BY <2>1, PlannedRows
  <2>3. \A i \in DOMAIN (a \o b) :
          \/ i \in DOMAIN a /\ (a \o b)[i] = a[i]
          \/ i - Len(a) \in DOMAIN b /\ (a \o b)[i] = b[i - Len(a)]
    BY JoinedRows
  <2>4. ASSUME NEW i \in DOMAIN (a \o b), (a \o b)[i].status = "EXEC"
        PROVE  i \in DOMAIN a /\ (a \o b)[i] = a[i]
    BY <2>2, <2>3, <2>4
  <2>5. QED
    BY <1>4, <2>1, <2>4 DEF NoneStarted
<1>5. WithoutWaiting(rs) \in Seq(Rows)
  BY WithoutRows
<1>6. QED
  BY <1>1, <1>2, <1>3, <1>4, <1>5

\* A task in front of the others covers the row it was sent for.
LEMMA PushCovered ==
  ASSUME NEW cb \in Breakers, NEW rs \in Seq(Rows), NEW cs \in Seq(Controls),
         NEW new, PutInFront(new, cb, cs), Covered(rs, cs)
  PROVE  Covered(Mark(rs, cb, {"WAIT"}, "EXEC"), new)
<1>1. PICK x \in Controls : x.cb = cb /\ x.status \in {"WAIT", "RUN"} /\ new = <<x>> \o cs
  BY DEF PutInFront
<1>2. /\ 1 \in DOMAIN new /\ Moves(new[1]) /\ new[1].cb = cb
      /\ \A i \in DOMAIN cs : i + 1 \in DOMAIN new /\ new[i + 1] = cs[i]
  <2>1. new \in Seq(Controls) /\ Len(new) = Len(cs) + 1 /\ new[1] = x
    BY <1>1, PushedControls
  <2>2. Len(cs) \in Nat /\ DOMAIN new = 1..Len(new)
    BY <2>1
  <2>3. 1 \in DOMAIN new
    BY <2>1, <2>2
  <2>4. QED
    BY <1>1, <2>1, <2>3, PushedControls DEF Moves
<1> DEFINE m == Mark(rs, cb, {"WAIT"}, "EXEC")
<1>3. /\ DOMAIN m = DOMAIN rs
      /\ \A i \in DOMAIN rs :
           /\ m[i].cb = rs[i].cb
           /\ m[i].status = IF rs[i].cb = cb /\ rs[i].status \in {"WAIT"} THEN "EXEC" ELSE rs[i].status
  BY MarkRows DEF RowStatus
<1> HIDE DEF m
<1>4. ASSUME NEW i \in DOMAIN m, m[i].status = "EXEC"
      PROVE  \E j \in DOMAIN new : Moves(new[j]) /\ new[j].cb = m[i].cb
  <2>1. CASE rs[i].status = "EXEC"
    <3>1. PICK j \in DOMAIN cs : Moves(cs[j]) /\ cs[j].cb = rs[i].cb
      BY <1>3, <2>1 DEF Covered
    <3>2. QED
      BY <1>2, <1>3, <3>1
  <2>2. CASE rs[i].status # "EXEC"
    <3>1. m[i].cb = cb
      BY <1>3, <1>4, <2>2
    <3>2. QED
      BY <1>2, <3>1
  <2>3. QED
    BY <2>1, <2>2
<1>5. QED
  BY <1>4 DEF Covered, m

\* The command that AddControlItem sends covers the row it marks.
LEMMA ItemCovered ==
  ASSUME NEW cb \in Breakers, NEW rs \in Seq(Rows), NEW f \in FaultSteps,
         NEW cs \in Seq(Controls), AddControlItem(cb, rs, f, cs),
         CommandsNoted, Covered(rs, cs)
  PROVE  Covered(rows', controls')
<1>1. "breaker" \notin ReadFails
  BY DEF CommandsNoted
<1>2. PutInFront(controls', cb, cs)
  BY <1>1, ItemAdded
<1>3. rows' = Mark(rs, cb, {"WAIT"}, "EXEC")
  BY ItemAdded
<1>4. QED
  BY <1>2, <1>3, PushCovered

\* A step of another thread starts no row, or adds the task of the row it
\* starts between two passes.
LEMMA ControlledOutside ==
  ASSUME Typed, Controlled, UNCHANGED <<visit, after>>,
         \/ NoneStarted(rows', rows) /\ controls' = controls
         \/ visit = 0 /\ Covered(rows', controls')
  PROVE  Controlled'
<1>1. controls \in Seq(Controls) /\ AtItsControl
  BY TypedParts
<1>2. Covered(rows', controls')
  BY CoveredByFewer DEF Controlled
<1>3. DoneWritten'
  <2>1. CASE visit = 0
    <3>1. after = "no"
      BY <1>1, <2>1 DEF AtItsControl
    <3>2. QED
      BY <3>1 DEF DoneWritten
  <2>2. CASE NoneStarted(rows', rows) /\ controls' = controls
    BY <2>2 DEF Controlled, DoneWritten, NoneStarted
  <2>3. QED
    BY <2>1, <2>2
<1>4. QED
  BY <1>2, <1>3 DEF Controlled

LEMMA ControlledPass ==
  ASSUME Typed, CommandsNoted, Controlled, Process
  PROVE  Controlled'
<1>1. /\ rows \in Seq(Rows) /\ controls \in Seq(Controls) /\ fault \in FaultSteps
      /\ visit \in Nat /\ after \in {"no", "left", "finish"} /\ AtItsControl
  BY TypedParts
<1>2. Covered(rows, controls) /\ DoneWritten
  BY DEF Controlled
<1>3. DOMAIN controls = 1..Len(controls) /\ Len(controls) \in Nat
  BY <1>1
<1>4. ASSUME after' = "no", Covered(rows', controls')
      PROVE  Controlled'
  BY <1>4 DEF Controlled, DoneWritten
<1>5. CASE BeginPass \/ EndPass \/ VisitFault \/ VisitStay \/ VisitRecalc
  <2>1. controls' = controls /\ after' = after
    BY <1>5 DEF BeginPass, EndPass, VisitFault, VisitStay, VisitRecalc, taskVars
  <2>2. NoneStarted(rows', rows)
    BY <1>5, <1>1, NoneStartedBy DEF BeginPass, EndPass, VisitFault, VisitStay, VisitRecalc
  <2>3. after = "no"
    <3>1. \/ visit = 0 \/ visit > Len(controls) + Present(fault)
          \/ visit = Len(controls) + 1 \/ after = "no"
      BY <1>5 DEF BeginPass, EndPass, VisitFault, VisitStay, VisitRecalc, AtFault, AtControl
    <3>2. Present(fault) \in {0, 1}
      BY DEF Present
    <3>3. QED
      BY <1>1, <1>3, <3>1, <3>2 DEF AtItsControl
  <2>4. QED
    BY <1>2, <1>4, <2>1, <2>2, <2>3, CoveredByFewer
<1>6. CASE VisitGrouped \/ VisitIso
  <2>1. after' = "no"
    <3>1. visit = Len(controls) + 1 /\ after' = after
      BY <1>6 DEF VisitGrouped, VisitIso, AtFault
    <3>2. QED
      BY <1>1, <1>3, <3>1 DEF AtItsControl
  <2>2. CASE FormFdirStep
    <3>1. PICK p \in Plans :
            \E rs \in Seq(Rows) :
              /\ rs = (IF archived = "no" THEN WithoutWaiting(rows) \o WaitingRows(p) ELSE rows)
              /\ \/ /\ Left(rs) # <<>>
                    /\ AddControlItem(Left(rs)[1].cb, rs, fault, controls)
                 \/ /\ Left(rs) = <<>>
                    /\ rows' = rs /\ fault' = "ISO" /\ controls' = controls
      BY <1>1, <2>2, PlanFormed
    <3>2. PICK rs \in Seq(Rows) :
            /\ rs = (IF archived = "no" THEN WithoutWaiting(rows) \o WaitingRows(p) ELSE rows)
            /\ \/ /\ Left(rs) # <<>>
                  /\ AddControlItem(Left(rs)[1].cb, rs, fault, controls)
               \/ /\ Left(rs) = <<>>
                  /\ rows' = rs /\ fault' = "ISO" /\ controls' = controls
      BY <3>1
    <3>3. NoneStarted(rs, rows)
      <4>1. p \in Seq(Breakers)
        BY ExecutionAssumption
      <4>2. QED
        BY <1>1, <3>2, <4>1, NoneStartedBy
    <3>4. Covered(rs, controls)
      BY <1>2, <3>3, CoveredByFewer
    <3>5. CASE Left(rs) # <<>>
      <4>1. Left(rs)[1].cb \in Breakers
        BY <3>5, LeftFirst
      <4>2. AddControlItem(Left(rs)[1].cb, rs, fault, controls)
        BY <3>2, <3>5
      <4>3. Covered(rows', controls')
        BY <1>1, <3>4, <4>1, <4>2, ItemCovered
      <4>4. QED
        BY <1>4, <2>1, <4>3
    <3>6. CASE Left(rs) = <<>>
      BY <1>4, <2>1, <3>2, <3>4, <3>6
    <3>7. QED
      BY <3>5, <3>6
  <2>3. CASE rows' = rows /\ controls' = controls
    BY <1>2, <1>4, <2>1, <2>3
  <2>4. QED
    BY <1>6, <2>2, <2>3 DEF VisitGrouped, VisitIso
<1>7. CASE VisitWait
  <2>1. visit \in DOMAIN controls /\ after' = "no" /\ rows' = rows
        /\ controls' = [controls EXCEPT ![visit].status = "RUN"]
    BY <1>7 DEF VisitWait, AtControl
  <2> DEFINE cs == [controls EXCEPT ![visit].status = "RUN"]
  <2>2. /\ cs \in Seq(Controls)
        /\ DOMAIN cs = DOMAIN controls
        /\ cs[visit].status = "RUN"
        /\ \A j \in DOMAIN controls :
             cs[j].cb = controls[j].cb /\ (j # visit => cs[j] = controls[j])
    BY <1>1, <2>1, TurnedControls
  <2> HIDE DEF cs
  <2>3. Covered(rows, cs)
    BY <1>2, <2>2 DEF Covered, Moves
  <2>4. QED
    BY <1>4, <2>1, <2>3 DEF cs
<1>8. CASE VisitOver \/ VisitTimeout
  <2>1. /\ visit \in DOMAIN controls /\ after' = "no"
        /\ controls' = RemoveAt(controls, visit)
    BY <1>8 DEF VisitOver, VisitTimeout, AtControl
  <2>2. PICK cs \in Seq(Controls) :
          /\ cs = RemoveAt(controls, visit)
          /\ \A k \in DOMAIN controls \ {visit} : \E j \in DOMAIN cs : cs[j] = controls[k]
    BY <1>1, <2>1, ErasedControls
  <2>3. CASE VisitOver
    <3>1. ~Moves(controls[visit]) /\ rows' = rows
      BY <2>3 DEF VisitOver, AtControl, Moves
    <3>2. Covered(rows, cs)
      BY <1>2, <2>2, <3>1 DEF Covered
    <3>3. QED
      BY <1>4, <2>1, <2>2, <3>1, <3>2
  <2>4. CASE VisitTimeout
    <3>1. PICK cb \in Breakers : cb = controls[visit].cb
      <4>1. controls[visit] \in Controls
        BY <1>1, <2>1
      <4>2. QED
        BY <4>1 DEF Controls
    <3>2. rows' = Mark(rows, cb, {"EXEC"}, "FAIL")
      BY <2>4, <3>1 DEF VisitTimeout, CommandsNoted
    <3> DEFINE m == Mark(rows, cb, {"EXEC"}, "FAIL")
    <3>3. /\ m \in Seq(Rows)
            /\ DOMAIN m = DOMAIN rows
            /\ \A i \in DOMAIN rows :
                 /\ m[i].cb = rows[i].cb
                 /\ m[i].status = IF rows[i].cb = cb /\ rows[i].status \in {"EXEC"}
                                  THEN "FAIL" ELSE rows[i].status
      <4>1. "FAIL" \in RowStatus
        BY DEF RowStatus
      <4>2. QED
        BY <1>1, <4>1, MarkRows
    <3> HIDE DEF m
    <3>4. \A i \in DOMAIN m : m[i].status = "EXEC" => rows[i].status = "EXEC" /\ rows[i].cb # cb
      BY <3>3
    <3>5. Covered(m, cs)
      BY <1>2, <2>2, <3>1, <3>3, <3>4 DEF Covered
    <3>6. QED
      BY <1>4, <2>1, <2>2, <3>2, <3>3, <3>5 DEF m
  <2>5. QED
    BY <1>8, <2>3, <2>4
<1>9. CASE VisitSucceed
  <2>1. visit \in DOMAIN controls /\ UNCHANGED <<controls, visit>>
    BY <1>9 DEF VisitSucceed, AtControl, taskVars
  <2>2. PICK cb \in Breakers : cb = controls[visit].cb
    <3>1. controls[visit] \in Controls
      BY <1>1, <2>1
    <3>2. QED
      BY <3>1 DEF Controls
  <2> DEFINE m == Mark(rows, cb, {"EXEC"}, "OK")
  <2>3. /\ m \in Seq(Rows)
          /\ DOMAIN m = DOMAIN rows
          /\ \A i \in DOMAIN rows :
               /\ m[i].cb = rows[i].cb
               /\ m[i].status = IF rows[i].cb = cb /\ rows[i].status \in {"EXEC"}
                                THEN "OK" ELSE rows[i].status
    BY <1>1, MarkRows DEF RowStatus
  <2> HIDE DEF m
  <2>4. rows' = m
    BY <1>9, <2>2, <2>3 DEF VisitSucceed, m
  <2>5. \A i \in DOMAIN m : m[i].status = "EXEC" => rows[i].status = "EXEC" /\ rows[i].cb # cb
    BY <2>3
  <2>6. Covered(m, controls)
    BY <1>2, <2>3, <2>5 DEF Covered
  <2>7. DoneWritten'
    BY <2>1, <2>2, <2>3, <2>4, <2>5 DEF DoneWritten
  <2>8. QED
    BY <2>1, <2>4, <2>6, <2>7 DEF Controlled
<1>10. CASE NextStep \/ FinishGroup
  <2>1. after # "no" /\ visit \in DOMAIN controls
    BY <1>10, <1>1 DEF NextStep, FinishGroup, AtItsControl
  <2> DEFINE cs == Finished
  <2>2. /\ cs \in Seq(Controls)
        /\ DOMAIN cs = DOMAIN controls
        /\ \A j \in DOMAIN controls : j # visit => cs[j] = controls[j]
    BY <1>1, <2>1, TurnedControls DEF Finished
  <2>3. Covered(rows, cs)
    <3>1. ASSUME NEW i \in DOMAIN rows, rows[i].status = "EXEC"
          PROVE  \E j \in DOMAIN cs : Moves(cs[j]) /\ cs[j].cb = rows[i].cb
      <4>1. PICK j \in DOMAIN controls : Moves(controls[j]) /\ controls[j].cb = rows[i].cb
        BY <1>2, <3>1 DEF Covered
      <4>2. j # visit
        BY <1>2, <2>1, <3>1, <4>1 DEF DoneWritten
      <4>3. QED
        BY <2>2, <4>1, <4>2
    <3>2. QED
      BY <3>1 DEF Covered
  <2>4. CASE FinishGroup
    <3>1. after' = "no" /\ rows' = <<>>
      BY <2>4 DEF FinishGroup, Archive
    <3>2. Covered(rows', controls')
      BY <3>1 DEF Covered
    <3>3. QED
      BY <1>4, <3>1, <3>2
  <2>5. CASE NextStep /\ after' = "finish"
    <3>1. UNCHANGED <<rows, controls, visit>>
      BY <2>5 DEF NextStep, taskVars
    <3>2. QED
      BY <1>2, <2>1, <3>1 DEF Controlled, DoneWritten
  <2>6. CASE NextStep /\ after' # "finish"
    <3>1. after' = "no"
      BY <2>6 DEF NextStep
    <3>2. CASE controls' = Finished /\ rows' = rows
      BY <1>4, <2>2, <2>3, <3>1, <3>2
    <3>3. CASE Left(rows) # <<>> /\ AddControlItem(Left(rows)[1].cb, rows, fault, Finished)
      <4>1. Left(rows)[1].cb \in Breakers
        BY <1>1, <3>3, LeftFirst
      <4>2. Covered(rows', controls')
        BY <1>1, <2>2, <2>3, <3>3, <4>1, ItemCovered
      <4>3. QED
        BY <1>4, <3>1, <4>2
    <3>4. QED
      BY <2>6, <3>2, <3>3 DEF NextStep
  <2>7. QED
    BY <1>10, <2>4, <2>5, <2>6
<1>11. QED
  BY <1>5, <1>6, <1>7, <1>8, <1>9, <1>10 DEF Process

\* What a request does to the rows and to the tasks: it adds a task between
\* two passes, or it starts no row.
LEMMA RequestRows ==
  ASSUME Typed, NEW c \in Clients, Request(c) \/ Handle(c), ~SetAuto(c), ~ControlReturns(c)
  PROVE  UNCHANGED <<visit, after, controls>> /\ NoneStarted(rows', rows)
<1>1. rows \in Seq(Rows) /\ todo \in [Threads -> Works] /\ c \in Threads
  BY TypedParts DEF Threads
<1>2. UNCHANGED <<visit, after>> /\ controls' = controls
  BY DEF Request, Handle, Stop, StopRemoves, Finish, Pass, PassLeft, PassFinishes, Plan,
              PlanInserts, Control, Recalc, RecalcMarks, taskVars
<1>3. NoneStarted(rows', rows)
  <2>1. CASE rows' \in {rows, <<>>, WithoutWaiting(rows)}
    BY <1>1, <2>1, NoneStartedBy
  <2>2. CASE Pass(c)
    <3>1. PICK r \in ToSet(rows) : rows' = Mark(rows, r.cb, RowStatus, "PASS")
      BY <2>2 DEF Pass
    <3>2. r \in Rows
      BY <1>1 DEF ToSet
    <3>3. r.cb \in Breakers /\ "PASS" \in RowStatus \ {"EXEC"}
      BY <3>2 DEF Rows, RowStatus
    <3>4. QED
      BY <1>1, <3>1, <3>3, NoneStartedBy
  <2>3. CASE PlanInserts(c) /\ todo[c].cbs # <<>>
    <3>1. todo[c].cbs \in Seq(Breakers)
      BY <1>1 DEF Works
    <3>2. <<Head(todo[c].cbs)>> \in Seq(Breakers)
      BY <2>3, <3>1
    <3>3. rows' = rows \o WaitingRows(<<Head(todo[c].cbs)>>)
      BY <2>3 DEF PlanInserts
    <3>4. QED
      BY <1>1, <3>2, <3>3, NoneStartedBy
  <2>4. QED
    BY <2>1, <2>2, <2>3
       DEF Request, Handle, Stop, StopRemoves, Finish, PassLeft, PassFinishes, Plan,
           PlanInserts, Control, Recalc, RecalcMarks, Archive
<1>4. QED
  BY <1>2, <1>3

LEMMA ControlledRequest ==
  ASSUME Typed, CommandsNoted, Controlled, NEW c \in Clients, Request(c) \/ Handle(c)
  PROVE  Controlled'
<1>1. /\ rows \in Seq(Rows) /\ controls \in Seq(Controls) /\ fault \in FaultSteps
      /\ archived \in {"no", "FINISH", "STOP", "OTHER"}
      /\ todo \in [Threads -> Works] /\ ReturnsOne /\ c \in Threads
  BY TypedParts DEF Threads
<1>2. Covered(rows, controls)
  BY DEF Controlled
<1>3. CASE SetAuto(c)
  <2>1. visit = 0 /\ UNCHANGED <<visit, after>>
    BY <1>3 DEF SetAuto
  <2>2. CASE Left(rows) # <<>>
    <3>1. Left(rows)[1].cb \in Breakers
      BY <1>1, <2>2, LeftFirst
    <3>2. AddControlItem(Left(rows)[1].cb, rows, Loaded, controls) /\ Loaded \in FaultSteps
      BY <1>1, <1>3, <2>2 DEF SetAuto, Loaded, FaultSteps
    <3>3. Covered(rows', controls')
      BY <1>1, <1>2, <3>1, <3>2, ItemCovered
    <3>4. QED
      BY <2>1, <3>3, ControlledOutside
  <2>3. CASE Left(rows) = <<>>
    <3>1. Covered(rows', controls')
      BY <1>2, <1>3, <2>3 DEF SetAuto
    <3>2. QED
      BY <2>1, <3>1, ControlledOutside
  <2>4. QED
    BY <2>2, <2>3
<1>4. CASE ControlReturns(c)
  <2>1. PICK cb \in Breakers : cb = todo[c].cbs[1]
    <3>1. todo[c].cbs \in Seq(Breakers) /\ todo[c].cbs # <<>>
      BY <1>1, <1>4 DEF ControlReturns, ReturnsOne, Works
    <3>2. QED
      BY <3>1
  <2>2. PICK x \in Controls : x = [cb |-> cb, status |-> "RUN", late |-> FALSE]
    BY DEF Controls
  <2>3. /\ visit = 0 /\ UNCHANGED <<visit, after>>
        /\ rows' = Mark(rows, cb, {"WAIT"}, "EXEC") /\ controls' = <<x>> \o controls
    BY <1>4, <2>1, <2>2 DEF ControlReturns, CommandsNoted
  <2>4. PutInFront(controls', cb, controls)
    BY <2>2, <2>3 DEF PutInFront
  <2>5. Covered(rows', controls')
    BY <1>1, <1>2, <2>3, <2>4, PushCovered
  <2>6. QED
    BY <2>3, <2>5, ControlledOutside
<1>5. CASE ~SetAuto(c) /\ ~ControlReturns(c)
  BY <1>5, RequestRows, ControlledOutside
<1>6. QED
  BY <1>3, <1>4, <1>5

LEMMA ControlledInductive ==
  ASSUME Typed, CommandsNoted, Controlled, [Next]_vars
  PROVE  Controlled'
<1>1. rows \in Seq(Rows) /\ controls \in Seq(Controls)
  BY TypedParts
<1>2. CASE Evict \/ EvictArchives
  <2>1. /\ UNCHANGED <<visit, after>> /\ controls' = controls
        /\ rows' \in {rows, <<>>}
    BY <1>2 DEF Evict, EvictArchives, Archive, taskVars
  <2>2. QED
    BY <1>1, <2>1, NoneStartedBy, ControlledOutside
<1>3. ASSUME NEW i \in 1..Len(controls), Age(i)
      PROVE  Controlled'
  <2> DEFINE cs == [controls EXCEPT ![i].late = TRUE]
  <2>1. i \in DOMAIN controls /\ controls' = cs /\ UNCHANGED <<rows, visit, after>>
    BY <1>3 DEF Age
  <2>2. /\ DOMAIN cs = DOMAIN controls
        /\ \A j \in DOMAIN controls : cs[j].cb = controls[j].cb /\ cs[j].status = controls[j].status
    BY <1>1, <2>1, AgedControls
  <2> HIDE DEF cs
  <2>3. Covered(rows, cs)
    BY <2>2 DEF Controlled, Covered, Moves
  <2>4. DoneWritten'
    <3>1. after # "no" => visit \in DOMAIN controls
      BY TypedParts DEF AtItsControl
    <3>2. QED
      BY <2>1, <2>2, <3>1 DEF Controlled, DoneWritten
  <2>5. QED
    BY <2>1, <2>3, <2>4 DEF Controlled
<1>4. CASE UNCHANGED vars
  BY <1>4 DEF vars, taskVars, Controlled, Covered, DoneWritten, Moves
<1>5. ~Restart
  BY DEF Restart, CommandsNoted
<1>6. QED
  BY <1>2, <1>3, <1>4, <1>5, ControlledPass, ControlledRequest DEF Next

\* The pass never forgets a command.  Whatever the consoles request, in any
\* number and in any order, and however the alarm thread makes room, a step
\* that is being executed has a task in g_lstTask that will end it, as long
\* as the process does not exit and the reads around a command succeed.
THEOREM NoCommandForgotten ==
  ASSUME CommandsNoted
  PROVE  Spec => []ExecControlled
<1>1. Init => Typed /\ Controlled
  <2>1. Init => Typed
    BY TypedInitially
  <2>2. Init => Controlled
    BY DEF Init, Controlled, Covered, DoneWritten
  <2>3. QED
    BY <2>1, <2>2
<1>2. Typed /\ Controlled /\ [Next]_vars => (Typed /\ Controlled)'
  BY TypedInductive, ControlledInductive
<1>3. Controlled => ExecControlled
  BY DEF Controlled, Covered, Moves, ExecControlled, InFlight, ToSet
<1>4. QED
  BY <1>1, <1>2, <1>3, PTL DEF Spec
-----------------------------------------------------------------------------
\* No request sends a command itself, or loads a group that is not in memory
\* so that it turns automatic.
NothingLoads == Ops \cap {"auto", "control"} = {} /\ (USER2AUTO => "recalc" \notin Ops)

\* No control is under way.
Quiet(cs) == \A i \in DOMAIN cs : ~Moves(cs[i])

\* The pass may still form a plan and send its first command.
Unplanned == fault = "GROUPED" \/ (fault = "ISO" /\ USER2AUTO)

\* OneInFlight by positions, and before the plan none.
Single(cs) == \A i, j \in DOMAIN cs : Moves(cs[i]) /\ Moves(cs[j]) => i = j
StillNone == Unplanned => Quiet(controls)
NoLoader ==
  \A t \in Threads : todo[t].op # "return" /\ (USER2AUTO => todo[t].op # "recalc")

OneByOne == Single(controls) /\ StillNone /\ NoLoader

LEMMA PushSingle ==
  ASSUME NEW cb, NEW cs \in Seq(Controls), NEW new, PutInFront(new, cb, cs), Quiet(cs)
  PROVE  Single(new) /\ \A i \in DOMAIN new : Moves(new[i]) => i = 1
<1>1. PICK x \in Controls : new = <<x>> \o cs
  BY DEF PutInFront
<1>2. \A i \in DOMAIN new : i = 1 \/ (i - 1 \in DOMAIN cs /\ new[i] = cs[i - 1])
  BY <1>1, PushedControls
<1>3. \A i \in DOMAIN new : Moves(new[i]) => i = 1
  BY <1>2 DEF Quiet
<1>4. QED
  BY <1>3 DEF Single

\* Erasing a task leaves at most one under way, and none if it was the one.
LEMMA EraseSingle ==
  ASSUME NEW cs \in Seq(Controls), NEW i \in DOMAIN cs, Single(cs)
  PROVE  /\ Single(RemoveAt(cs, i))
         /\ Moves(cs[i]) => Quiet(RemoveAt(cs, i))
         /\ Quiet(cs) => Quiet(RemoveAt(cs, i))
<1> DEFINE r == RemoveAt(cs, i)
           from(j) == IF j < i THEN j ELSE j + 1
<1>1. Len(cs) \in Nat /\ DOMAIN cs = 1..Len(cs) /\ i \in 1..Len(cs)
  OBVIOUS
<1>2. /\ r \in Seq(Controls)
      /\ Len(r) = Len(cs) - 1
      /\ \A j \in 1..Len(cs) - 1 : r[j] = IF j < i THEN cs[j] ELSE cs[j + 1]
  BY RemoveAtProperties DEF RemoveAt
<1> HIDE DEF r
<1>3. DOMAIN r = 1..Len(cs) - 1
  BY <1>1, <1>2
<1>4. \A j \in DOMAIN r : from(j) \in DOMAIN cs \ {i} /\ r[j] = cs[from(j)]
  BY <1>1, <1>2, <1>3
<1>5. \A j, k \in DOMAIN r : from(j) = from(k) => j = k
  BY <1>1, <1>3
<1> HIDE DEF from
<1>6. Single(r)
  BY <1>4, <1>5 DEF Single
<1>7. Moves(cs[i]) => Quiet(r)
  BY <1>4 DEF Single, Quiet
<1>8. Quiet(cs) => Quiet(r)
  BY <1>4 DEF Quiet
<1>9. QED
  BY <1>6, <1>7, <1>8 DEF r

\* Editing a task that is under way, or making one rest, starts none.
LEMMA SingleKept ==
  ASSUME NEW cs, NEW new, DOMAIN new = DOMAIN cs,
         \A j \in DOMAIN cs : Moves(new[j]) => Moves(cs[j])
  PROVE  (Single(cs) => Single(new)) /\ (Quiet(cs) => Quiet(new))
BY DEF Single, Quiet

\* When the control that has succeeded is done with, none is under way.
LEMMA FinishedQuiet ==
  ASSUME Typed, Single(controls), after # "no"
  PROVE  /\ Finished \in Seq(Controls) /\ Len(Finished) = Len(controls)
         /\ Quiet(Finished)
         /\ visit \in DOMAIN controls /\ Moves(controls[visit])
<1>1. /\ controls \in Seq(Controls)
      /\ visit \in DOMAIN controls /\ controls[visit].status = "RUN"
  BY TypedParts DEF AtItsControl
<1> DEFINE cs == Finished
<1>2. /\ cs \in Seq(Controls) /\ Len(cs) = Len(controls)
      /\ DOMAIN cs = DOMAIN controls
      /\ \A j \in DOMAIN controls : j # visit => cs[j] = controls[j]
      /\ cs[visit].status = "FINISH"
  <2>1. /\ cs \in Seq(Controls)
        /\ DOMAIN cs = DOMAIN controls
        /\ \A j \in DOMAIN controls : j # visit => cs[j] = controls[j]
    BY <1>1, TurnedControls DEF Finished
  <2>2. Len(cs) = Len(controls)
    BY <1>1, TurnedControls DEF Finished
  <2>3. cs[visit].status = "FINISH"
    BY <1>1, TurnedControls DEF Finished
  <2>4. QED
    BY <2>1, <2>2, <2>3
<1> HIDE DEF cs
<1>3. Moves(controls[visit])
  BY <1>1 DEF Moves
<1>4. Quiet(cs)
  BY <1>1, <1>2, <1>3 DEF Single, Quiet, Moves
<1>5. QED
  BY <1>1, <1>2, <1>3, <1>4 DEF cs

LEMMA OneByOnePass ==
  ASSUME Typed, OneByOne, Process
  PROVE  OneByOne'
<1>1. /\ rows \in Seq(Rows) /\ controls \in Seq(Controls) /\ fault \in FaultSteps
  BY TypedParts
<1>2. Single(controls) /\ (Unplanned => Quiet(controls)) /\ NoLoader
  BY DEF OneByOne, StillNone
<1>3. NoLoader'
  <2>1. todo' = todo
    BY DEF Process, BeginPass, EndPass, VisitGrouped, VisitIso, VisitFault, VisitRecalc, VisitWait,
           VisitStay, VisitOver, VisitTimeout, VisitSucceed, NextStep, FinishGroup
  <2>2. QED
    BY <1>2, <2>1 DEF NoLoader
<1>4. ASSUME Single(controls'), Unplanned' => Quiet(controls')
      PROVE  OneByOne'
  BY <1>3, <1>4 DEF OneByOne, StillNone
<1>5. CASE BeginPass \/ EndPass \/ VisitFault \/ VisitStay \/ VisitRecalc \/ VisitSucceed
  <2>1. controls' = controls /\ fault' \in {fault, "none"}
    BY <1>5 DEF BeginPass, EndPass, VisitFault, VisitStay, VisitRecalc, VisitSucceed, taskVars
  <2>2. QED
    BY <1>2, <1>4, <2>1 DEF Unplanned
<1>6. CASE VisitGrouped \/ VisitIso
  <2>1. Quiet(controls)
    BY <1>2, <1>6 DEF VisitGrouped, VisitIso, AtFault, Unplanned
  <2>2. CASE FormFdirStep
    <3>1. PICK p \in Plans :
            \E rs \in Seq(Rows) :
              /\ rs = (IF archived = "no" THEN WithoutWaiting(rows) \o WaitingRows(p) ELSE rows)
              /\ \/ /\ Left(rs) # <<>>
                    /\ AddControlItem(Left(rs)[1].cb, rs, fault, controls)
                 \/ /\ Left(rs) = <<>>
                    /\ rows' = rs /\ fault' = "ISO" /\ controls' = controls
      BY <1>1, <2>2, PlanFormed
    <3>2. PICK rs \in Seq(Rows) :
            \/ /\ Left(rs) # <<>>
               /\ AddControlItem(Left(rs)[1].cb, rs, fault, controls)
            \/ controls' = controls
      BY <3>1
    <3>3. CASE Left(rs) # <<>> /\ AddControlItem(Left(rs)[1].cb, rs, fault, controls)
      <4>1. Left(rs)[1].cb \in Breakers
        BY <3>3, LeftFirst
      <4>2. /\ fault' = (IF fault = "none" THEN "none" ELSE "PROCESS")
            /\ controls' = controls \/ PutInFront(controls', Left(rs)[1].cb, controls)
        BY <1>1, <3>3, <4>1, ItemAdded
      <4>3. Single(controls')
        BY <1>1, <1>2, <2>1, <4>1, <4>2, PushSingle
      <4>4. QED
        BY <1>1, <1>4, <4>2, <4>3 DEF Unplanned
    <3>4. CASE controls' = controls
      BY <1>2, <1>4, <2>1, <3>4
    <3>5. QED
      BY <3>2, <3>3, <3>4
  <2>3. CASE controls' = controls
    BY <1>2, <1>4, <2>1, <2>3
  <2>4. QED
    BY <1>6, <2>2, <2>3 DEF VisitGrouped, VisitIso
<1>7. CASE VisitWait
  <2> DEFINE cs == [controls EXCEPT ![visit].status = "RUN"]
  <2>1. /\ visit \in DOMAIN controls /\ controls[visit].status = "WAIT"
        /\ controls' = cs /\ fault' = fault
    BY <1>7 DEF VisitWait, AtControl
  <2>2. /\ cs \in Seq(Controls)
        /\ DOMAIN cs = DOMAIN controls
        /\ \A j \in DOMAIN controls : j # visit => cs[j] = controls[j]
    BY <1>1, <2>1, TurnedControls
  <2> HIDE DEF cs
  <2>3. \A j \in DOMAIN controls : Moves(cs[j]) => Moves(controls[j])
    BY <2>1, <2>2 DEF Moves
  <2>4. (Single(controls) => Single(cs)) /\ (Quiet(controls) => Quiet(cs))
    BY <2>2, <2>3, SingleKept
  <2>5. QED
    BY <1>2, <1>4, <2>1, <2>4 DEF Unplanned
<1>8. CASE VisitOver \/ VisitTimeout
  <2>1. visit \in DOMAIN controls /\ controls' = RemoveAt(controls, visit)
    BY <1>8 DEF VisitOver, VisitTimeout, AtControl
  <2>2. fault' \in {fault, "RE_CALC"}
    BY <1>8 DEF VisitOver, VisitTimeout, AfterFailure
  <2>3. Single(controls') /\ (Quiet(controls) => Quiet(controls'))
    BY <1>1, <1>2, <2>1, EraseSingle
  <2>4. QED
    BY <1>2, <1>4, <2>2, <2>3 DEF Unplanned
<1>9. CASE NextStep \/ FinishGroup
  <2>1. /\ Finished \in Seq(Controls) /\ Quiet(Finished)
        /\ visit \in DOMAIN controls /\ Moves(controls[visit])
    BY <1>2, <1>9, FinishedQuiet DEF NextStep, FinishGroup
  <2>2. ~Unplanned
    BY <1>2, <2>1 DEF Quiet
  <2>3. CASE controls' = controls /\ fault' = fault
    BY <1>2, <1>4, <2>2, <2>3 DEF Unplanned
  <2>4. CASE controls' = Finished /\ fault' \in {"none", "PROCESS", "RE_CALC", fault}
    <3>1. Single(controls')
      BY <2>1, <2>4 DEF Quiet, Single
    <3>2. QED
      BY <1>4, <2>2, <2>4, <3>1 DEF Unplanned
  <2>5. CASE Left(rows) # <<>> /\ AddControlItem(Left(rows)[1].cb, rows, fault, Finished)
    <3>1. Left(rows)[1].cb \in Breakers
      BY <1>1, <2>5, LeftFirst
    <3>2. /\ fault' = (IF fault = "none" THEN "none" ELSE "PROCESS")
          /\ controls' = Finished \/ PutInFront(controls', Left(rows)[1].cb, Finished)
      BY <1>1, <2>1, <2>5, <3>1, ItemAdded
    <3>3. Single(controls')
      <4>1. CASE controls' = Finished
        BY <2>1, <4>1 DEF Quiet, Single
      <4>2. CASE PutInFront(controls', Left(rows)[1].cb, Finished)
        BY <2>1, <4>2, PushSingle
      <4>3. QED
        BY <3>2, <4>1, <4>2
    <3>4. QED
      BY <1>4, <3>2, <3>3 DEF Unplanned
  <2>6. QED
    BY <1>9, <2>3, <2>4, <2>5 DEF NextStep, FinishGroup, RemoveTasks, taskVars
<1>10. QED
  BY <1>5, <1>6, <1>7, <1>8, <1>9 DEF Process

LEMMA OneByOneInductive ==
  ASSUME Typed, NothingLoads, OneByOne, [Next]_vars
  PROVE  OneByOne'
<1>1. /\ controls \in Seq(Controls) /\ todo \in [Threads -> Works]
  BY TypedParts
<1>2. Single(controls) /\ (Unplanned => Quiet(controls)) /\ NoLoader
  BY DEF OneByOne, StillNone
<1>3. ASSUME Single(controls'), Unplanned' => Quiet(controls'), NoLoader'
      PROVE  OneByOne'
  BY <1>3 DEF OneByOne, StillNone
<1>4. ASSUME NEW t \in Threads, NEW w, w.op # "return" /\ (USER2AUTO => w.op # "recalc"), Then(t, w)
      PROVE  NoLoader'
  <2>1. todo' = [todo EXCEPT ![t] = w]
    BY <1>4 DEF Then
  <2>2. QED
    BY <1>1, <1>2, <1>4, <2>1 DEF NoLoader
<1>5. \A op \in {"remove", "left", "archive", "insert"} : \A cbs :
        Work(op, cbs).op \notin {"return", "recalc"}
  BY DEF Work
<1>6. Idle.op \notin {"return", "recalc"}
  BY DEF Idle
<1>7. CASE Restart
  <2>1. controls' = <<>> /\ todo' = [t \in Threads |-> Idle]
    BY <1>7 DEF Restart
  <2>2. NoLoader'
    BY <2>1, <1>6 DEF NoLoader
  <2>3. Single(controls') /\ Quiet(controls')
    BY <2>1 DEF Single, Quiet
  <2>4. QED
    BY <1>3, <2>2, <2>3
<1>8. ASSUME NEW i \in 1..Len(controls), Age(i)
      PROVE  OneByOne'
  <2> DEFINE cs == [controls EXCEPT ![i].late = TRUE]
  <2>1. i \in DOMAIN controls /\ controls' = cs /\ UNCHANGED <<fault, todo>>
    BY <1>8 DEF Age
  <2>2. /\ DOMAIN cs = DOMAIN controls
        /\ \A j \in DOMAIN controls : cs[j].status = controls[j].status
    BY <1>1, <2>1, AgedControls
  <2> HIDE DEF cs
  <2>3. \A j \in DOMAIN controls : Moves(cs[j]) => Moves(controls[j])
    BY <2>2 DEF Moves
  <2>4. (Single(controls) => Single(cs)) /\ (Quiet(controls) => Quiet(cs))
    BY <2>2, <2>3, SingleKept
  <2>5. NoLoader'
    BY <1>2, <2>1 DEF NoLoader
  <2>6. QED
    BY <1>2, <1>3, <2>1, <2>4, <2>5 DEF Unplanned
<1>9. ASSUME NEW c \in Clients, Request(c) \/ Handle(c)
      PROVE  OneByOne'
  <2>1. c \in Threads
    BY DEF Threads
  <2>2. ~SetAuto(c) /\ ~Control(c) /\ ~ControlReturns(c)
    BY <1>2, <2>1 DEF SetAuto, Control, Starts, NothingLoads, ControlReturns, NoLoader
  <2>3. (Recalc(c) \/ RecalcMarks(c)) => ~USER2AUTO
    BY <1>2, <2>1 DEF Recalc, Starts, NothingLoads, RecalcMarks, NoLoader
  <2>4. controls' = controls /\ (Unplanned' => Unplanned)
    <3>1. CASE Recalc(c) \/ RecalcMarks(c)
      <4>1. controls' = controls /\ (fault' = "GROUPED" => fault = "GROUPED")
        BY <3>1 DEF Recalc, RecalcMarks, Loaded
      <4>2. QED
        BY <2>3, <3>1, <4>1 DEF Unplanned
    <3>2. CASE ~Recalc(c) /\ ~RecalcMarks(c)
      <4>1. controls' = controls /\ fault' \in {fault, "none"}
        BY <1>9, <2>2, <3>2
           DEF Request, Handle, Stop, StopRemoves, Finish, Pass, PassLeft, PassFinishes, Plan,
               PlanInserts, taskVars, RemoveTasks
      <4>2. QED
        BY <4>1 DEF Unplanned
    <3>3. QED
      BY <3>1, <3>2
  <2>5. NoLoader'
    <3>1. CASE todo' = todo
      BY <1>2, <3>1 DEF NoLoader
    <3>2. CASE Stop(c) \/ Pass(c) \/ Plan(c)
      BY <1>4, <1>5, <2>1, <3>2 DEF Stop, Pass, Plan
    <3>3. CASE StopRemoves(c) \/ PassLeft(c) \/ PassFinishes(c) \/ PlanInserts(c)
      BY <1>4, <1>5, <1>6, <2>1, <3>3 DEF StopRemoves, PassLeft, PassFinishes, PlanInserts
    <3>4. CASE Recalc(c)
      <4>1. Work("recalc", <<>>).op # "return" /\ Then(c, Work("recalc", <<>>)) /\ ~USER2AUTO
        BY <2>3, <3>4 DEF Recalc, Work
      <4>2. QED
        BY <1>4, <2>1, <4>1
    <3>5. CASE RecalcMarks(c)
      BY <1>4, <1>6, <2>1, <3>5 DEF RecalcMarks
    <3>6. QED
      BY <1>9, <2>2, <3>1, <3>2, <3>3, <3>4, <3>5 DEF Request, Handle, Finish
  <2>6. QED
    BY <1>2, <1>3, <2>4, <2>5
<1>10. CASE Evict \/ EvictArchives
  <2>1. controls' = controls /\ fault' \in {fault, "none"}
    BY <1>10 DEF Evict, EvictArchives, RemoveTasks, taskVars
  <2>2. NoLoader'
    <3>1. "alarm" \in Threads
      BY DEF Threads
    <3>2. QED
      BY <1>4, <1>5, <1>6, <1>10, <3>1 DEF Evict, EvictArchives
  <2>3. QED
    BY <1>2, <1>3, <2>1, <2>2 DEF Unplanned
<1>11. CASE UNCHANGED vars
  BY <1>11 DEF vars, taskVars, OneByOne, Single, StillNone, Unplanned, Quiet, NoLoader, Moves
<1>12. QED
  BY <1>7, <1>8, <1>9, <1>10, <1>11, OneByOnePass DEF Next

LEMMA OneByOneInitially ==
  ASSUME Init
  PROVE  OneByOne
<1>1. Idle.op = "idle"
  BY DEF Idle
<1>2. NoLoader
  BY <1>1 DEF Init, NoLoader
<1>3. QED
  BY <1>2 DEF Init, OneByOne, Single, StillNone, Quiet

\* Automatic execution operates one breaker at a time, for every plan and
\* every number of consoles that stop the group, pass steps or replace the
\* plan meanwhile, also when the process exits and whatever cannot be read.
\* A console may have the plan calculated anew if manual groups stay manual.
\* A console that sends a command, or has a group loaded that turns automatic
\* while a control is under way, can bring about a second one.
THEOREM OneBreakerAtATime ==
  ASSUME NothingLoads
  PROVE  Spec => []OneInFlight
<1>1. Init => Typed /\ OneByOne
  BY TypedInitially, OneByOneInitially
<1>2. Typed /\ OneByOne /\ [Next]_vars => (Typed /\ OneByOne)'
  BY TypedInductive, OneByOneInductive
<1>3. OneByOne => OneInFlight
  BY DEF OneByOne, Single, Moves, OneInFlight, InFlight
<1>4. QED
  BY <1>1, <1>2, <1>3, PTL DEF Spec
-----------------------------------------------------------------------------
\* No plan has an isolation step behind a transfer or a restore step, and an
\* operator's plan does not meet a group that turns automatic by itself.
Isolates(cb) == Stage[cb] = STAGE_FDIR_STEP_ISOLATE
Late(cb) == Stage[cb] >= STAGE_FDIR_STEP_TRANSFER
IsolatesFirst(p) == \A i, j \in DOMAIN p : i < j /\ Isolates(p[j]) => ~Late(p[i])
PlansIsolateFirst == \A p \in Plans : IsolatesFirst(p)
PlannedOnce == ~USER2AUTO \/ "plan" \notin Ops

\* The rows rs that wait, and behind them the rows of a plan that a console
\* has still to write, have that order.
InOrder(rs) ==
  \A i, j \in DOMAIN rs :
    i < j /\ rs[i].status = "WAIT" /\ rs[j].status = "WAIT" /\ Isolates(rs[j].cb)
      => ~Late(rs[i].cb)
Follows(rs, cbs) ==
  /\ IsolatesFirst(cbs)
  /\ \A i \in DOMAIN rs : \A k \in DOMAIN cbs :
       rs[i].status = "WAIT" /\ Isolates(cbs[k]) => ~Late(rs[i].cb)
Inserting(t) == todo[t].op = "insert"
InsertsInOrder == \A t \in Clients : Inserting(t) => Follows(rows, todo[t].cbs)

\* One console writes a plan at a time, and none in a group that turns
\* automatic.
OneInserts ==
  /\ \A t, u \in Clients : Inserting(t) /\ Inserting(u) => t = u
  /\ USER2AUTO => \A t \in Clients : ~Inserting(t)

\* While a control is under way no row has failed, and the rows that are being
\* executed are its.
NoneOutstanding(rs, cs) ==
  Quiet(cs) \/ ((\A i \in DOMAIN rs : rs[i].status # "FAIL") /\ Covered(rs, cs))

\* Nobody has written a row before the plan is formed.
FreshGroup == Unplanned => rows = <<>>
NoneInserts == fault = "GROUPED" => \A t \in Clients : ~Inserting(t)

Ordered ==
  /\ OneByOne /\ DoneWritten
  /\ InOrder(rows) /\ InsertsInOrder /\ OneInserts
  /\ NoneOutstanding(rows, controls) /\ FreshGroup /\ NoneInserts

\* The status that DoneWritten speaks of is written by the pass and by nobody
\* else while the pass is at the control.
LEMMA DoneWrittenInductive ==
  ASSUME Typed, DoneWritten, [Next]_vars
  PROVE  DoneWritten'
<1>1. /\ rows \in Seq(Rows) /\ controls \in Seq(Controls) /\ visit \in Nat
      /\ AtItsControl /\ after \in {"no", "left", "finish"}
  BY TypedParts
<1>2. DOMAIN controls = 1..Len(controls) /\ Len(controls) \in Nat
  BY <1>1
<1>3. ASSUME UNCHANGED <<visit, after, controls>>, NoneStarted(rows', rows)
      PROVE  DoneWritten'
  BY <1>3 DEF DoneWritten, NoneStarted
<1>4. ASSUME visit = 0, UNCHANGED <<visit, after>>
      PROVE  DoneWritten'
  <2>1. after = "no"
    BY <1>1, <1>2, <1>4 DEF AtItsControl
  <2>2. QED
    BY <1>4, <2>1 DEF DoneWritten
<1>5. CASE Restart
  BY <1>5 DEF Restart, DoneWritten
<1>6. ASSUME NEW i \in 1..Len(controls), Age(i)
      PROVE  DoneWritten'
  <2> DEFINE cs == [controls EXCEPT ![i].late = TRUE]
  <2>1. i \in DOMAIN controls /\ controls' = cs /\ UNCHANGED <<rows, visit, after>>
    BY <1>6 DEF Age
  <2>2. \A j \in DOMAIN controls : cs[j].cb = controls[j].cb
    BY <1>1, <2>1, AgedControls
  <2> HIDE DEF cs
  <2>3. QED
    BY <1>1, <2>1, <2>2 DEF DoneWritten, AtItsControl
<1>7. ASSUME NEW c \in Clients, Request(c) \/ Handle(c)
      PROVE  DoneWritten'
  <2>1. CASE SetAuto(c) \/ ControlReturns(c)
    BY <1>4, <2>1 DEF SetAuto, ControlReturns
  <2>2. CASE ~SetAuto(c) /\ ~ControlReturns(c)
    BY <1>3, <1>7, <2>2, RequestRows
  <2>3. QED
    BY <2>1, <2>2
<1>8. CASE Evict \/ EvictArchives
  <2>1. UNCHANGED <<visit, after, controls>> /\ rows' \in {rows, <<>>}
    BY <1>8 DEF Evict, EvictArchives, Archive, taskVars
  <2>2. QED
    BY <1>1, <1>3, <2>1, NoneStartedBy
<1>9. CASE Process
  <2>1. CASE after' = "no"
    BY <2>1 DEF DoneWritten
  <2>2. CASE after = "no" /\ after' # "no"
    <3>1. VisitSucceed
      BY <1>9, <2>2
         DEF Process, BeginPass, EndPass, VisitGrouped, VisitIso, VisitFault, VisitRecalc,
             VisitWait, VisitStay, VisitOver, VisitTimeout, NextStep, FinishGroup
    <3>2. visit \in DOMAIN controls /\ UNCHANGED <<controls, visit>>
      BY <3>1 DEF VisitSucceed, AtControl, taskVars
    <3>3. rows' = Mark(rows, controls[visit].cb, {"EXEC"}, "OK")
      BY <3>1 DEF VisitSucceed
    <3>4. "OK" \in RowStatus
      BY DEF RowStatus
    <3>5. \A i \in DOMAIN rows' : rows'[i].cb = controls[visit].cb => rows'[i].status # "EXEC"
      BY <1>1, <3>3, <3>4, MarkRows
    <3>6. QED
      BY <3>2, <3>5 DEF DoneWritten
  <2>3. CASE after # "no" /\ after' # "no"
    <3>1. visit \in DOMAIN controls
      BY <1>1, <2>3 DEF AtItsControl
    <3>2. visit # 0 /\ visit # Len(controls) + 1 /\ ~(visit > Len(controls) + Present(fault))
      <4>1. Present(fault) \in {0, 1}
        BY DEF Present
      <4>2. QED
        BY <1>1, <1>2, <3>1, <4>1
    <3>3. NextStep /\ after' = "finish"
      BY <1>9, <2>3, <3>2
         DEF Process, BeginPass, EndPass, VisitGrouped, VisitIso, VisitFault, VisitRecalc,
             VisitWait, VisitStay, VisitOver, VisitTimeout, VisitSucceed, NextStep, FinishGroup,
             AtFault, AtControl
    <3>4. UNCHANGED <<rows, controls, visit>>
      BY <3>3 DEF NextStep, taskVars
    <3>5. QED
      BY <2>3, <3>4 DEF DoneWritten
  <2>4. QED
    BY <2>1, <2>2, <2>3
<1>10. CASE UNCHANGED vars
  BY <1>10 DEF vars, taskVars, DoneWritten
<1>11. QED
  BY <1>5, <1>6, <1>7, <1>8, <1>9, <1>10 DEF Next

\* The rows new are the rows old, in their places, and none more waits; or no
\* row waits at all.
NoMoreWait(new, old) ==
  \/ \A i \in DOMAIN new : new[i].status # "WAIT"
  \/ /\ DOMAIN new = DOMAIN old
     /\ \A i \in DOMAIN old : new[i].cb = old[i].cb
     /\ \A i \in DOMAIN old : new[i].status = "WAIT" => old[i].status = "WAIT"

LEMMA OrderKept ==
  ASSUME NEW new, NEW old, NoMoreWait(new, old)
  PROVE  /\ InOrder(old) => InOrder(new)
         /\ \A cbs : Follows(old, cbs) => Follows(new, cbs)
<1>1. CASE \A i \in DOMAIN new : new[i].status # "WAIT"
  BY <1>1 DEF InOrder, Follows
<1>2. CASE /\ DOMAIN new = DOMAIN old
           /\ \A i \in DOMAIN old : new[i].cb = old[i].cb
           /\ \A i \in DOMAIN old : new[i].status = "WAIT" => old[i].status = "WAIT"
  <2>1. InOrder(old) => InOrder(new)
    BY <1>2 DEF InOrder
  <2>2. \A cbs : Follows(old, cbs) => Follows(new, cbs)
    BY <1>2 DEF Follows
  <2>3. QED
    BY <2>1, <2>2
<1>3. QED
  BY <1>1, <1>2 DEF NoMoreWait

LEMMA NoMoreWaitBy ==
  ASSUME NEW rs \in Seq(Rows)
  PROVE  /\ NoMoreWait(<<>>, rs) /\ NoMoreWait(rs, rs)
         /\ NoMoreWait(WithoutWaiting(rs), rs)
         /\ \A cb \in Breakers : \A from : \A to \in RowStatus \ {"WAIT"} :
              NoMoreWait(Mark(rs, cb, from, to), rs)
<1>1. NoMoreWait(<<>>, rs) /\ NoMoreWait(rs, rs)
  BY DEF NoMoreWait
<1>2. NoMoreWait(WithoutWaiting(rs), rs)
  BY WithoutRows DEF NoMoreWait
<1>3. ASSUME NEW cb \in Breakers, NEW from, NEW to \in RowStatus \ {"WAIT"}
      PROVE  NoMoreWait(Mark(rs, cb, from, to), rs)
  <2>1. /\ DOMAIN Mark(rs, cb, from, to) = DOMAIN rs
        /\ \A i \in DOMAIN rs :
             /\ Mark(rs, cb, from, to)[i].cb = rs[i].cb
             /\ Mark(rs, cb, from, to)[i].status =
                  IF rs[i].cb = cb /\ rs[i].status \in from THEN to ELSE rs[i].status
    BY <1>3, MarkRows
  <2>2. \A i \in DOMAIN rs : Mark(rs, cb, from, to)[i].status = "WAIT" => rs[i].status = "WAIT"
    BY <2>1, <1>3
  <2>3. QED
    BY <2>1, <2>2 DEF NoMoreWait
<1>4. QED
  BY <1>1, <1>2, <1>3

\* When the first row that waits is no isolation step, none that waits is.
LEMMA FirstWaiting ==
  ASSUME NEW rs \in Seq(Rows), InOrder(rs), Left(rs) # <<>>, Late(Left(rs)[1].cb)
  PROVE  \A i \in DOMAIN rs : rs[i].status = "WAIT" => ~Isolates(rs[i].cb)
<1>1. PICK f \in DOMAIN rs :
        /\ Left(rs)[1] = rs[f] /\ rs[f].status = "WAIT"
        /\ \A k \in DOMAIN rs : rs[k].status = "WAIT" => f <= k
  BY LeftRows
<1>2. Late(rs[f].cb) /\ rs[f].cb \in Breakers
  <2>1. rs[f] \in Rows
    OBVIOUS
  <2>2. rs[f].cb \in Breakers
    BY <2>1 DEF Rows
  <2>3. Late(rs[f].cb)
    BY <1>1, Zenon
  <2>4. QED
    BY <2>2, <2>3
<1>3. ~Isolates(rs[f].cb)
  BY <1>2 DEF Late, Isolates, STAGE_FDIR_STEP_TRANSFER, STAGE_FDIR_STEP_ISOLATE
<1>4. ASSUME NEW i \in DOMAIN rs, rs[i].status = "WAIT", Isolates(rs[i].cb)
      PROVE  FALSE
  <2>1. f <= i /\ f # i /\ f \in Nat /\ i \in Nat
    BY <1>1, <1>3, <1>4
  <2>2. f < i
    BY <2>1
  <2>3. QED
    BY <1>1, <1>2, <1>4, <2>2 DEF InOrder
<1>5. QED
  BY <1>4

\* A command that is sent for a transfer or restore step finds the isolation
\* done (the formula of RestoreAfterIsolate).
SentSafely ==
  Len(controls') > Len(controls) /\ Stage[controls'[1].cb] >= STAGE_FDIR_STEP_TRANSFER
     => \A r \in ToSet(rows') :
          Stage[r.cb] = STAGE_FDIR_STEP_ISOLATE => r.status \in {"OK", "PASS"}

\* Sending the first step that waits, while none is under way or has failed.
LEMMA OrderedSend ==
  ASSUME NEW rs \in Seq(Rows), NEW f \in FaultSteps, NEW cs \in Seq(Controls),
         Left(rs) # <<>>, AddControlItem(Left(rs)[1].cb, rs, f, cs),
         Quiet(cs), Len(cs) = Len(controls), InOrder(rs),
         \A i \in DOMAIN rs : rs[i].status \notin {"FAIL", "EXEC"}
  PROVE  /\ SentSafely /\ NoneOutstanding(rows', controls')
         /\ InOrder(rows') /\ \A cbs : Follows(rs, cbs) => Follows(rows', cbs)
<1>1. PICK cb \in Breakers : cb = Left(rs)[1].cb
  BY LeftFirst
<1>2. /\ rows' = Mark(rs, cb, {"WAIT"}, "EXEC")
      /\ controls' = cs \/ PutInFront(controls', cb, cs)
  BY <1>1, ItemAdded
<1> DEFINE m == Mark(rs, cb, {"WAIT"}, "EXEC")
<1>3. /\ m \in Seq(Rows)
      /\ DOMAIN m = DOMAIN rs
      /\ \A i \in DOMAIN rs :
           /\ m[i].cb = rs[i].cb
           /\ m[i].status = IF rs[i].cb = cb /\ rs[i].status \in {"WAIT"} THEN "EXEC" ELSE rs[i].status
  BY MarkRows DEF RowStatus
<1>4. NoMoreWait(m, rs)
  BY NoMoreWaitBy DEF RowStatus
<1>5. NoneOutstanding(m, controls')
  <2>1. CASE controls' = cs
    BY <2>1 DEF NoneOutstanding
  <2>2. CASE PutInFront(controls', cb, cs)
    <3>1. Covered(rs, cs)
      BY DEF Covered
    <3>2. Covered(m, controls')
      BY <2>2, <3>1, PushCovered
    <3> HIDE DEF m
    <3>3. \A i \in DOMAIN m : m[i].status # "FAIL"
      BY <1>3
    <3>4. QED
      BY <3>2, <3>3 DEF NoneOutstanding
  <2>3. QED
    BY <1>2, <2>1, <2>2
<1>6. rows' = m
  BY <1>2
<1> HIDE DEF m
<1>7. ASSUME Len(controls') > Len(controls), Late(controls'[1].cb),
             NEW i \in DOMAIN m, Isolates(m[i].cb)
      PROVE  m[i].status \in {"OK", "PASS"}
  <2>1. PutInFront(controls', cb, cs)
    <3>1. controls' # cs
      BY <1>7
    <3>2. QED
      BY <1>2, <3>1
  <2>2. controls'[1].cb = cb
    BY <2>1, PushedControls DEF PutInFront
  <2>3. Late(cb) /\ Late(Left(rs)[1].cb)
    BY <1>1, <1>7, <2>2
  <2>4. rs[i].status # "WAIT" /\ rs[i] \in Rows
    <3>1. i \in DOMAIN rs /\ Isolates(rs[i].cb)
      BY <1>3, <1>7
    <3>2. QED
      BY <2>3, <3>1, FirstWaiting
  <2>5. QED
    BY <1>3, <2>4 DEF Rows, RowStatus
<1>8. SentSafely
  BY <1>6, <1>7 DEF SentSafely, Late, Isolates, ToSet
<1>9. QED
  BY <1>4, <1>5, <1>6, <1>8, OrderKept

\* The rows FormFdirStep leaves for a group that had none are the plan.
LEMMA FirstRows ==
  ASSUME NEW p \in Plans, NEW a \in Seq(Rows), a = <<>>
  PROVE  /\ WithoutWaiting(a) \o WaitingRows(p) \in Seq(Rows)
         /\ DOMAIN (WithoutWaiting(a) \o WaitingRows(p)) = DOMAIN p
         /\ \A i \in DOMAIN p :
              /\ (WithoutWaiting(a) \o WaitingRows(p))[i].cb = p[i]
              /\ (WithoutWaiting(a) \o WaitingRows(p))[i].status = "WAIT"
<1>1. p \in Seq(Breakers)
  BY ExecutionAssumption
<1>2. PICK b \in Seq(Rows) : b = WaitingRows(p)
  BY <1>1, PlannedRows
<1>3. DOMAIN b = DOMAIN p /\ \A i \in DOMAIN p : b[i].cb = p[i] /\ b[i].status = "WAIT"
  BY <1>1, <1>2, PlannedRows
<1>4. PICK w \in Seq(Rows) : w = WithoutWaiting(a)
  BY WithoutRows
<1>5. Len(w) = 0 /\ Len(w) \in Nat
  <2>1. \A j \in DOMAIN w : \E i \in DOMAIN a : w[j] = a[i]
    BY <1>4, WithoutRows
  <2>2. DOMAIN w = 1..Len(w) /\ Len(w) \in Nat /\ DOMAIN a = {}
    OBVIOUS
  <2>3. 1 \notin DOMAIN w
    BY <2>1, <2>2
  <2>4. QED
    BY <2>2, <2>3
<1>6. DOMAIN b = 1..Len(b) /\ Len(b) \in Nat
  OBVIOUS
<1>7. w \o b \in Seq(Rows) /\ DOMAIN (w \o b) = DOMAIN b /\ \A i \in DOMAIN b : (w \o b)[i] = b[i]
  <2>1. /\ w \o b \in Seq(Rows)
        /\ DOMAIN (w \o b) = 1..Len(w) + Len(b)
        /\ \A i \in 1..Len(w) + Len(b) : (w \o b)[i] = IF i <= Len(w) THEN w[i] ELSE b[i - Len(w)]
    BY JoinedRows
  <2>2. Len(w) + Len(b) = Len(b) /\ \A i \in 1..Len(b) : ~(i <= Len(w)) /\ i - Len(w) = i
    BY <1>5, <1>6
  <2>3. QED
    BY <1>6, <2>1, <2>2
<1>8. DOMAIN (w \o b) = DOMAIN p /\ \A i \in DOMAIN p : (w \o b)[i].cb = p[i] /\ (w \o b)[i].status = "WAIT"
  BY <1>3, <1>7
<1>9. QED
  BY <1>2, <1>4, <1>7, <1>8

\* The rows of the first plan wait, in the order of the plan.
LEMMA FirstPlan ==
  ASSUME NEW p \in Plans, PlansIsolateFirst, NEW a \in Seq(Rows), a = <<>>,
         NEW rs, rs \in {a, WithoutWaiting(a) \o WaitingRows(p)}
  PROVE  InOrder(rs) /\ \A i \in DOMAIN rs : rs[i].status = "WAIT"
<1>1. CASE rs = a
  <2>1. DOMAIN rs = {}
    BY <1>1
  <2>2. QED
    BY <2>1 DEF InOrder
<1>2. CASE rs = WithoutWaiting(a) \o WaitingRows(p)
  <2>1. DOMAIN rs = DOMAIN p /\ \A i \in DOMAIN p : rs[i].cb = p[i] /\ rs[i].status = "WAIT"
    BY <1>2, FirstRows
  <2>2. p \in Seq(Breakers) /\ IsolatesFirst(p)
    BY ExecutionAssumption DEF PlansIsolateFirst
  <2>3. QED
    BY <2>1, <2>2 DEF InOrder, IsolatesFirst
<1>3. QED
  BY <1>1, <1>2

\* The parts of Ordered that are not shown to be kept elsewhere.
Parts ==
  /\ InOrder(rows) /\ InsertsInOrder /\ OneInserts /\ NoneOutstanding(rows, controls)
  /\ FreshGroup /\ NoneInserts

LEMMA OrderedPass ==
  ASSUME Typed, PlannedOnce, PlansIsolateFirst, Ordered, Process
  PROVE  Parts' /\ SentSafely
<1>1. /\ rows \in Seq(Rows) /\ controls \in Seq(Controls) /\ fault \in FaultSteps
      /\ after \in {"no", "left", "finish"}
  BY TypedParts
<1>2. /\ Single(controls) /\ (Unplanned => Quiet(controls))
      /\ DoneWritten /\ InOrder(rows) /\ InsertsInOrder /\ OneInserts
      /\ NoneOutstanding(rows, controls) /\ FreshGroup /\ NoneInserts
  BY DEF Ordered, OneByOne, StillNone
<1>3. todo' = todo
  BY DEF Process, BeginPass, EndPass, VisitGrouped, VisitIso, VisitFault, VisitRecalc, VisitWait,
         VisitStay, VisitOver, VisitTimeout, VisitSucceed, NextStep, FinishGroup
<1>4. OneInserts'
  BY <1>2, <1>3 DEF OneInserts, Inserting
<1>5. ASSUME NoMoreWait(rows', rows), NoneOutstanding(rows', controls'),
             ~Unplanned' \/ (fault' = fault /\ rows' \in {rows, <<>>}),
             ~(Len(controls') > Len(controls))
      PROVE  Parts' /\ SentSafely
  <2>1. InOrder(rows')
    BY <1>2, <1>5, OrderKept
  <2>2. InsertsInOrder'
    <3>1. \A cbs : Follows(rows, cbs) => Follows(rows', cbs)
      BY <1>5, OrderKept
    <3>2. QED
      BY <1>2, <1>3, <3>1 DEF InsertsInOrder, Inserting
  <2>3. FreshGroup' /\ NoneInserts'
    <3>1. FreshGroup'
      BY <1>2, <1>5 DEF FreshGroup, Unplanned
    <3>2. NoneInserts'
      BY <1>2, <1>3, <1>5 DEF NoneInserts, Inserting, Unplanned
    <3>3. QED
      BY <3>1, <3>2
  <2>4. SentSafely
    BY <1>5 DEF SentSafely
  <2>5. QED
    BY <1>4, <1>5, <2>1, <2>2, <2>3, <2>4 DEF Parts
<1>6. Len(controls) \in Nat /\ NoMoreWait(rows, rows)
  BY <1>1, NoMoreWaitBy
<1>7. CASE BeginPass \/ EndPass \/ VisitFault \/ VisitStay
  <2>1. UNCHANGED <<rows, controls, fault>>
    BY <1>7 DEF BeginPass, EndPass, VisitFault, VisitStay, taskVars
  <2>2. QED
    BY <1>2, <1>5, <1>6, <2>1
<1>8. CASE VisitRecalc
  <2>1. rows' \in {rows, WithoutWaiting(rows)} /\ fault' = "none" /\ controls' = controls
    BY <1>8 DEF VisitRecalc
  <2>2. NoMoreWait(rows', rows)
    BY <1>1, <2>1, NoMoreWaitBy
  <2>3. NoneOutstanding(rows', controls)
    <3>1. \A i \in DOMAIN rows' : \E k \in DOMAIN rows : rows'[i] = rows[k]
      BY <1>1, <2>1, WithoutRows
    <3>2. QED
      BY <1>2, <3>1 DEF NoneOutstanding, Covered
  <2>4. QED
    BY <1>5, <1>6, <2>1, <2>2, <2>3 DEF Unplanned
<1>9. CASE VisitWait
  <2> DEFINE cs == [controls EXCEPT ![visit].status = "RUN"]
  <2>1. /\ visit \in DOMAIN controls /\ controls[visit].status = "WAIT"
        /\ controls' = cs /\ UNCHANGED <<rows, fault>>
    BY <1>9 DEF VisitWait, AtControl
  <2>2. /\ DOMAIN cs = DOMAIN controls
        /\ \A j \in DOMAIN controls : cs[j].cb = controls[j].cb /\ (j # visit => cs[j] = controls[j])
    BY <1>1, <2>1, TurnedControls
  <2>3. Len(cs) = Len(controls)
    BY <1>1, <2>1, TurnedControls
  <2>4. cs[visit].status = "RUN"
    BY <1>1, <2>1, TurnedControls
  <2> HIDE DEF cs
  <2>5. ~Quiet(controls)
    BY <2>1 DEF Quiet, Moves
  <2>6. \A j \in DOMAIN controls : Moves(controls[j]) => Moves(cs[j])
    BY <2>2, <2>4 DEF Moves
  <2>7. NoneOutstanding(rows, cs)
    BY <1>2, <2>2, <2>5, <2>6 DEF NoneOutstanding, Covered
  <2>8. QED
    BY <1>5, <1>6, <2>1, <2>3, <2>7
<1>10. CASE VisitOver
  <2> DEFINE cs == RemoveAt(controls, visit)
  <2>1. /\ visit \in DOMAIN controls /\ ~Moves(controls[visit])
        /\ controls' = cs /\ UNCHANGED <<rows, fault>>
    BY <1>10 DEF VisitOver, AtControl, Moves
  <2>2. /\ Len(cs) = Len(controls) - 1
        /\ \A k \in DOMAIN controls \ {visit} : \E j \in DOMAIN cs : cs[j] = controls[k]
    BY <1>1, <2>1, ErasedControls
  <2>3. Quiet(controls) => Quiet(cs)
    BY <1>1, <1>2, <2>1, EraseSingle
  <2> HIDE DEF cs
  <2>4. Covered(rows, controls) => Covered(rows, cs)
    BY <2>1, <2>2 DEF Covered
  <2>5. NoneOutstanding(rows, cs)
    BY <1>2, <2>3, <2>4 DEF NoneOutstanding
  <2>6. ~(Len(cs) > Len(controls))
    BY <1>6, <2>2
  <2>7. QED
    BY <1>5, <1>6, <2>1, <2>5, <2>6
<1>11. CASE VisitTimeout
  <2>1. /\ visit \in DOMAIN controls /\ Moves(controls[visit])
        /\ controls' = RemoveAt(controls, visit)
    BY <1>11 DEF VisitTimeout, AtControl, Moves
  <2>2. Quiet(controls') /\ Len(controls') = Len(controls) - 1
    BY <1>1, <1>2, <2>1, EraseSingle, ErasedControls
  <2>3. ~Unplanned'
    <3>1. ~Unplanned
      BY <1>2, <2>1 DEF Quiet
    <3>2. QED
      BY <1>11, <3>1 DEF VisitTimeout, AfterFailure, Unplanned
  <2>4. NoMoreWait(rows', rows)
    <3>1. PICK cb \in Breakers : cb = controls[visit].cb
      <4>1. controls[visit] \in Controls
        BY <1>1, <2>1
      <4>2. QED
        BY <4>1 DEF Controls
    <3>2. rows' \in {rows, Mark(rows, cb, {"EXEC"}, "FAIL")}
      BY <1>11, <3>1 DEF VisitTimeout
    <3>3. "FAIL" \in RowStatus \ {"WAIT"}
      BY DEF RowStatus
    <3>4. QED
      BY <1>1, <3>2, <3>3, NoMoreWaitBy
  <2>5. NoneOutstanding(rows', controls')
    BY <2>2 DEF NoneOutstanding
  <2>6. ~(Len(controls') > Len(controls))
    BY <1>6, <2>2
  <2>7. QED
    BY <1>5, <2>3, <2>4, <2>5, <2>6
<1>12. CASE VisitSucceed
  <2>1. /\ visit \in DOMAIN controls /\ Moves(controls[visit]) /\ UNCHANGED <<controls, fault>>
    BY <1>12 DEF VisitSucceed, AtControl, Moves, taskVars
  <2>2. ~Unplanned /\ ~Quiet(controls)
    BY <1>2, <2>1 DEF Quiet
  <2>3. PICK cb \in Breakers : cb = controls[visit].cb
    <3>1. controls[visit] \in Controls
      BY <1>1, <2>1
    <3>2. QED
      BY <3>1 DEF Controls
  <2> DEFINE m == Mark(rows, cb, {"EXEC"}, "OK")
  <2>4. rows' = m
    BY <1>12, <2>3 DEF VisitSucceed
  <2>5. NoMoreWait(m, rows)
    <3>1. "OK" \in RowStatus \ {"WAIT"}
      BY DEF RowStatus
    <3>2. QED
      BY <1>1, <3>1, NoMoreWaitBy
  <2>6. /\ DOMAIN m = DOMAIN rows
        /\ \A i \in DOMAIN rows :
             /\ m[i].cb = rows[i].cb
             /\ m[i].status = IF rows[i].cb = cb /\ rows[i].status \in {"EXEC"} THEN "OK" ELSE rows[i].status
    BY <1>1, MarkRows DEF RowStatus
  <2> HIDE DEF m
  <2>7. Covered(rows, controls) /\ \A i \in DOMAIN rows : rows[i].status # "FAIL"
    BY <1>2, <2>2 DEF NoneOutstanding
  <2>8. Covered(m, controls)
    BY <2>6, <2>7 DEF Covered
  <2>9. \A i \in DOMAIN m : m[i].status # "FAIL"
    BY <2>6, <2>7
  <2>10. QED
    BY <1>5, <1>6, <2>1, <2>2, <2>4, <2>5, <2>8, <2>9 DEF NoneOutstanding, Unplanned
<1>13. CASE VisitGrouped \/ VisitIso
  <2>1. Unplanned /\ fault \in {"GROUPED", "ISO"}
    BY <1>13 DEF VisitGrouped, VisitIso, AtFault, Unplanned
  <2>2. rows = <<>> /\ Quiet(controls)
    BY <1>2, <2>1 DEF FreshGroup
  <2>3. CASE FormFdirStep
    <3>1. PICK p \in Plans :
            \E rs \in Seq(Rows) :
              /\ rs = (IF archived = "no" THEN WithoutWaiting(rows) \o WaitingRows(p) ELSE rows)
              /\ \/ /\ Left(rs) # <<>>
                    /\ AddControlItem(Left(rs)[1].cb, rs, fault, controls)
                 \/ /\ Left(rs) = <<>>
                    /\ rows' = rs /\ fault' = "ISO" /\ controls' = controls
      BY <1>1, <2>3, PlanFormed
    <3>2. PICK rs \in Seq(Rows) :
            /\ rs = (IF archived = "no" THEN WithoutWaiting(rows) \o WaitingRows(p) ELSE rows)
            /\ \/ /\ Left(rs) # <<>>
                  /\ AddControlItem(Left(rs)[1].cb, rs, fault, controls)
               \/ /\ Left(rs) = <<>>
                  /\ rows' = rs /\ fault' = "ISO" /\ controls' = controls
      BY <3>1
    <3>3. InOrder(rs) /\ \A i \in DOMAIN rs : rs[i].status = "WAIT"
      <4>1. rs \in {rows, WithoutWaiting(rows) \o WaitingRows(p)}
        BY <3>2
      <4>2. QED
        BY <1>1, <2>2, <4>1, FirstPlan
    <3>4. \A t \in Clients : ~Inserting(t)
      BY <1>2, <2>1 DEF OneInserts, NoneInserts, Unplanned
    <3>5. InsertsInOrder'
      BY <1>3, <3>4 DEF InsertsInOrder, Inserting
    <3>6. NoneInserts'
      BY <1>3, <3>4 DEF NoneInserts, Inserting
    <3>7. CASE Left(rs) # <<>>
      <4>1. AddControlItem(Left(rs)[1].cb, rs, fault, controls)
        BY <3>2, <3>7
      <4>2. SentSafely /\ NoneOutstanding(rows', controls') /\ InOrder(rows')
        BY <1>1, <2>2, <3>3, <3>7, <4>1, OrderedSend
      <4>3. fault' = "PROCESS"
        <5>1. Left(rs)[1].cb \in Breakers
          BY <3>7, LeftFirst
        <5>2. QED
          BY <1>1, <2>1, <4>1, <5>1, ItemAdded
      <4>4. FreshGroup'
        BY <4>3 DEF FreshGroup, Unplanned
      <4>5. QED
        BY <1>4, <3>5, <3>6, <4>2, <4>4 DEF Parts
    <3>8. CASE Left(rs) = <<>>
      <4>1. rows' = rs /\ controls' = controls
        BY <3>2, <3>8
      <4>2. rs = <<>>
        <5>1. \A i \in DOMAIN rs : rs[i].status # "WAIT"
          BY <3>8, LeftRows
        <5>2. DOMAIN rs = 1..Len(rs) /\ Len(rs) \in Nat /\ 1 \notin DOMAIN rs
          BY <3>3, <5>1
        <5>3. QED
          BY <5>2
      <4>3. NoneOutstanding(rows', controls')
        BY <2>2, <4>1 DEF NoneOutstanding
      <4>4. SentSafely /\ FreshGroup'
        BY <1>6, <4>1, <4>2 DEF SentSafely, FreshGroup
      <4>5. InOrder(rows')
        BY <3>3, <4>1
      <4>6. QED
        BY <1>4, <3>5, <3>6, <4>3, <4>4, <4>5 DEF Parts
    <3>9. QED
      BY <3>7, <3>8
  <2>4. CASE VisitGrouped /\ ~FormFdirStep
    <3>1. UNCHANGED <<rows, controls>> /\ fault' # "GROUPED"
      BY <2>4 DEF VisitGrouped
    <3>2. InsertsInOrder' /\ NoneInserts'
      <4>1. InsertsInOrder'
        BY <1>2, <1>3, <3>1 DEF InsertsInOrder, Inserting
      <4>2. NoneInserts'
        BY <3>1 DEF NoneInserts
      <4>3. QED
        BY <4>1, <4>2
    <3>3. FreshGroup' /\ SentSafely
      BY <1>6, <2>2, <3>1 DEF FreshGroup, SentSafely
    <3>4. InOrder(rows') /\ NoneOutstanding(rows', controls')
      BY <1>2, <3>1
    <3>5. QED
      BY <1>4, <3>2, <3>3, <3>4 DEF Parts
  <2>5. QED
    BY <1>13, <2>3, <2>4 DEF VisitIso
<1>14. CASE NextStep \/ FinishGroup
  <2>1. /\ Finished \in Seq(Controls) /\ Len(Finished) = Len(controls)
        /\ Quiet(Finished)
        /\ visit \in DOMAIN controls /\ Moves(controls[visit])
    BY <1>2, <1>14, FinishedQuiet DEF NextStep, FinishGroup
  <2>2. ~Unplanned /\ ~Quiet(controls)
    BY <1>2, <2>1 DEF Quiet
  <2>3. CASE UNCHANGED <<rows, controls, fault>>
    BY <1>2, <1>5, <1>6, <2>2, <2>3 DEF Unplanned
  <2>4. CASE /\ controls' = Finished /\ fault' \in {"none", "PROCESS", "RE_CALC", fault}
             /\ rows' \in {rows, <<>>}
    <3>1. NoneOutstanding(rows', controls') /\ ~(Len(controls') > Len(controls))
      BY <1>6, <2>1, <2>4 DEF NoneOutstanding
    <3>2. NoMoreWait(rows', rows)
      BY <1>1, <2>4, NoMoreWaitBy
    <3>3. QED
      BY <1>5, <2>2, <2>4, <3>1, <3>2 DEF Unplanned
  <2>5. CASE Left(rows) # <<>> /\ AddControlItem(Left(rows)[1].cb, rows, fault, Finished)
             /\ after = "left"
    <3>1. \A i \in DOMAIN rows : rows[i].status # "FAIL"
      BY <1>2, <2>2 DEF NoneOutstanding
    <3>2. \A i \in DOMAIN rows : rows[i].status # "EXEC"
      <4>1. SUFFICES ASSUME NEW i \in DOMAIN rows, rows[i].status = "EXEC" PROVE FALSE
        OBVIOUS
      <4>2. PICK j \in DOMAIN controls : Moves(controls[j]) /\ controls[j].cb = rows[i].cb
        BY <1>2, <2>2, <4>1 DEF NoneOutstanding, Covered
      <4>3. j = visit
        BY <1>2, <2>1, <4>2 DEF Single
      <4>4. QED
        BY <1>2, <2>5, <4>1, <4>2, <4>3 DEF DoneWritten
    <3>3. SentSafely /\ NoneOutstanding(rows', controls')
          /\ InOrder(rows') /\ \A cbs : Follows(rows, cbs) => Follows(rows', cbs)
      BY <1>1, <1>2, <2>1, <2>5, <3>1, <3>2, OrderedSend
    <3>4. InsertsInOrder'
      BY <1>2, <1>3, <3>3 DEF InsertsInOrder, Inserting
    <3>5. fault' \notin {"GROUPED", "ISO"}
      <4>1. Left(rows)[1].cb \in Breakers
        BY <1>1, <2>5, LeftFirst
      <4>2. fault' = (IF fault = "none" THEN "none" ELSE "PROCESS")
        BY <1>1, <2>1, <2>5, <4>1, ItemAdded
      <4>3. QED
        BY <4>2
    <3>6. FreshGroup' /\ NoneInserts'
      BY <3>5 DEF FreshGroup, NoneInserts, Unplanned
    <3>7. QED
      BY <1>4, <3>3, <3>4, <3>6 DEF Parts
  <2>6. QED
    BY <1>14, <2>3, <2>4, <2>5 DEF NextStep, FinishGroup, RemoveTasks, Archive, taskVars
<1>15. QED
  BY <1>7, <1>8, <1>9, <1>10, <1>11, <1>12, <1>13, <1>14 DEF Process

\* What the requests leave in todo besides an insertion that goes on.
LEMMA StopsInserting ==
  ASSUME Typed, NEW t \in Threads, NEW w, w.op # "insert", Then(t, w)
  PROVE  \A u \in Clients : Inserting(u)' => Inserting(u) /\ todo'[u] = todo[u]
<1>1. todo \in [Threads -> Works] /\ Clients \subseteq Threads
  BY TypedParts DEF Threads
<1>2. todo' = [todo EXCEPT ![t] = w]
  BY DEF Then
<1>3. QED
  BY <1>1, <1>2 DEF Inserting

LEMMA OrderedRequest ==
  ASSUME Typed, PlannedOnce, PlansIsolateFirst, NothingLoads, Ordered,
         NEW c \in Clients, Request(c) \/ Handle(c)
  PROVE  Parts' /\ SentSafely
<1>1. /\ rows \in Seq(Rows) /\ controls \in Seq(Controls) /\ fault \in FaultSteps
      /\ todo \in [Threads -> Works] /\ c \in Threads /\ Clients \subseteq Threads
  BY TypedParts DEF Threads
<1>2. /\ InOrder(rows) /\ InsertsInOrder /\ OneInserts
      /\ NoneOutstanding(rows, controls) /\ FreshGroup /\ NoneInserts /\ NoLoader
  BY DEF Ordered, OneByOne
<1>3. /\ ~SetAuto(c) /\ ~Control(c) /\ ~ControlReturns(c)
      /\ (Recalc(c) \/ RecalcMarks(c)) => ~USER2AUTO
  BY <1>1, <1>2 DEF SetAuto, Control, Recalc, Starts, NothingLoads, ControlReturns, RecalcMarks,
                    NoLoader
<1>4. controls' = controls /\ NoneStarted(rows', rows)
  BY <1>3, RequestRows
<1>5. Len(controls) \in Nat
  BY <1>1
<1>6. SentSafely
  BY <1>4, <1>5 DEF SentSafely
<1>7. (fault' = "GROUPED" => fault = "GROUPED") /\ (Unplanned' => Unplanned)
  <2>1. CASE Recalc(c) \/ RecalcMarks(c)
    BY <1>3, <2>1 DEF Recalc, RecalcMarks, Loaded, Unplanned
  <2>2. CASE ~Recalc(c) /\ ~RecalcMarks(c)
    <3>1. fault' \in {fault, "none"}
      BY <1>3, <2>2 DEF Request, Handle, Stop, StopRemoves, Finish, Pass, PassLeft, PassFinishes,
                        Plan, PlanInserts, taskVars, RemoveTasks
    <3>2. QED
      BY <3>1 DEF Unplanned
  <2>3. QED
    BY <2>1, <2>2
<1>8. ASSUME \A i \in DOMAIN rows' : rows'[i].status # "FAIL" \/
               \E k \in DOMAIN rows : rows[k].status = "FAIL"
      PROVE  NoneOutstanding(rows', controls')
  BY <1>2, <1>4, <1>8, CoveredByFewer DEF NoneOutstanding
<1>9. CASE Plan(c)
  <2>1. fault # "GROUPED" /\ "plan" \in Ops /\ \A d \in Clients : ~Inserting(d)
    BY <1>9 DEF Plan, Starts, Inserting
  <2>2. PICK p \in Plans : Then(c, Work("insert", p))
    BY <1>9 DEF Plan
  <2>3. rows' = WithoutWaiting(rows) /\ fault' = fault
    BY <1>9 DEF Plan, taskVars
  <2>4. todo' = [todo EXCEPT ![c] = [op |-> "insert", cbs |-> p]]
    BY <2>2 DEF Then, Work
  <2>5. ~USER2AUTO
    BY <2>1 DEF PlannedOnce
  <2>6. OneInserts'
    BY <1>1, <2>1, <2>4, <2>5 DEF OneInserts, Inserting
  <2>7. \A i \in DOMAIN rows' : rows'[i].status # "WAIT"
    BY <1>1, <2>3, WithoutRows
  <2>8. InsertsInOrder'
    <3>1. Follows(rows', p)
      BY <2>7 DEF Follows, PlansIsolateFirst
    <3>2. \A t \in Clients : Inserting(t)' => todo'[t].cbs = p
      BY <1>1, <2>1, <2>4 DEF Inserting
    <3>3. QED
      BY <3>1, <3>2 DEF InsertsInOrder, Inserting
  <2>9. InOrder(rows')
    BY <2>7 DEF InOrder
  <2>10. NoneOutstanding(rows', controls')
    <3>1. \A i \in DOMAIN rows' : \E k \in DOMAIN rows : rows'[i] = rows[k]
      BY <1>1, <2>3, WithoutRows
    <3>2. QED
      BY <1>8, <3>1
  <2>11. FreshGroup' /\ NoneInserts'
    BY <2>1, <2>3, <2>5 DEF FreshGroup, NoneInserts, Unplanned
  <2>12. QED
    BY <1>6, <2>6, <2>8, <2>9, <2>10, <2>11 DEF Parts
<1>10. CASE PlanInserts(c) /\ todo[c].cbs # <<>>
  <2>1. Inserting(c) /\ Follows(rows, todo[c].cbs)
    BY <1>2, <1>10 DEF PlanInserts, InsertsInOrder, Inserting
  <2>2. \A t \in Clients : Inserting(t) => t = c
    BY <1>2, <2>1 DEF OneInserts
  <2>3. PICK q \in Seq(Breakers) : q = todo[c].cbs /\ q # <<>>
    BY <1>1, <1>10 DEF Works
  <2>4. /\ Head(q) = q[1] /\ Head(q) \in Breakers /\ 1 \in DOMAIN q
        /\ Tail(q) \in Seq(Breakers)
        /\ \A k \in DOMAIN Tail(q) : k + 1 \in DOMAIN q /\ Tail(q)[k] = q[k + 1] /\ 1 < k + 1
    BY <2>3, HeadTailProperties
  <2>5. PICK b \in Seq(Rows) : b = WaitingRows(<<Head(q)>>)
    <3>1. <<Head(q)>> \in Seq(Breakers)
      BY <2>4
    <3>2. QED
      BY <3>1, PlannedRows
  <2>6. DOMAIN b = {1} /\ b[1].cb = q[1] /\ b[1].status = "WAIT"
    <3>1. <<Head(q)>> \in Seq(Breakers) /\ DOMAIN <<Head(q)>> = {1} /\ <<Head(q)>>[1] = q[1]
      BY <2>4
    <3>2. QED
      BY <2>5, <3>1, PlannedRows
  <2>7. rows' = rows \o b /\ todo' = [todo EXCEPT ![c] = [op |-> "insert", cbs |-> Tail(q)]]
    BY <1>10, <2>3, <2>5 DEF PlanInserts, Then, Work
  <2>8. /\ DOMAIN rows = 1..Len(rows) /\ Len(rows) \in Nat
        /\ \A i \in DOMAIN rows' :
             \/ i \in DOMAIN rows /\ rows'[i] = rows[i]
             \/ i = Len(rows) + 1 /\ rows'[i] = b[1]
    <3>1. DOMAIN rows = 1..Len(rows) /\ Len(rows) \in Nat
      BY <1>1
    <3>2. \A i \in DOMAIN (rows \o b) :
             \/ i \in DOMAIN rows /\ (rows \o b)[i] = rows[i]
             \/ i - Len(rows) \in DOMAIN b /\ (rows \o b)[i] = b[i - Len(rows)]
      BY <1>1, JoinedRows
    <3>3. DOMAIN (rows \o b) = 1..Len(rows) + Len(b) /\ Len(b) \in Nat
      BY <1>1, JoinedRows
    <3>4. ASSUME NEW i \in DOMAIN (rows \o b)
          PROVE  \/ i \in DOMAIN rows /\ (rows \o b)[i] = rows[i]
                 \/ i = Len(rows) + 1 /\ (rows \o b)[i] = b[1]
      <4>1. CASE i - Len(rows) \in DOMAIN b /\ (rows \o b)[i] = b[i - Len(rows)]
        <5>1. i - Len(rows) = 1 /\ i \in Nat
          BY <2>6, <3>1, <3>3, <4>1
        <5>2. QED
          BY <3>1, <4>1, <5>1
      <4>2. QED
        BY <3>2, <4>1
    <3>5. QED
      BY <2>7, <3>1, <3>4
  <2>9. InOrder(rows')
    <3>1. SUFFICES ASSUME NEW i \in DOMAIN rows', NEW j \in DOMAIN rows', i < j,
                          rows'[i].status = "WAIT", rows'[j].status = "WAIT",
                          Isolates(rows'[j].cb)
                   PROVE  ~Late(rows'[i].cb)
      BY DEF InOrder
    <3>2. i \in DOMAIN rows /\ rows'[i] = rows[i]
      <4>1. i # Len(rows) + 1
        BY <2>8, <3>1
      <4>2. QED
        BY <2>8, <4>1
    <3>3. CASE j \in DOMAIN rows /\ rows'[j] = rows[j]
      BY <1>2, <3>1, <3>2, <3>3 DEF InOrder
    <3>4. CASE rows'[j] = b[1]
      <4>1. Isolates(q[1])
        BY <2>6, <3>1, <3>4
      <4>2. Follows(rows, q)
        BY <2>1, <2>3
      <4>3. QED
        BY <2>4, <3>1, <3>2, <4>1, <4>2 DEF Follows
    <3>5. QED
      BY <2>8, <3>3, <3>4
  <2>10. InsertsInOrder'
    <3>1. Follows(rows, q)
      BY <2>1, <2>3
    <3>2. IsolatesFirst(Tail(q))
      <4>1. \A k \in DOMAIN Tail(q) : k \in Nat
        BY <2>4
      <4>2. \A k, l \in DOMAIN Tail(q) : k < l => k + 1 < l + 1
        BY <4>1
      <4>3. QED
        BY <2>4, <3>1, <4>2 DEF Follows, IsolatesFirst
    <3>3. ASSUME NEW i \in DOMAIN rows', NEW k \in DOMAIN Tail(q),
                 rows'[i].status = "WAIT", Isolates(Tail(q)[k])
          PROVE  ~Late(rows'[i].cb)
      <4>1. k + 1 \in DOMAIN q /\ Isolates(q[k + 1]) /\ 1 < k + 1
        BY <2>4, <3>3
      <4>2. CASE i \in DOMAIN rows /\ rows'[i] = rows[i]
        BY <3>1, <3>3, <4>1, <4>2 DEF Follows
      <4>3. CASE rows'[i] = b[1]
        BY <2>4, <2>6, <3>1, <4>1, <4>3 DEF Follows, IsolatesFirst
      <4>4. QED
        BY <2>8, <4>2, <4>3
    <3>4. Follows(rows', Tail(q))
      BY <3>2, <3>3 DEF Follows
    <3>5. \A t \in Clients : Inserting(t)' => todo'[t].cbs = Tail(q)
      BY <1>1, <2>2, <2>7 DEF Inserting
    <3>6. QED
      BY <3>4, <3>5 DEF InsertsInOrder, Inserting
  <2>11. OneInserts'
    BY <1>1, <1>2, <2>1, <2>2, <2>7 DEF OneInserts, Inserting
  <2>12. NoneOutstanding(rows', controls')
    <3>1. \A i \in DOMAIN rows' : rows'[i].status # "FAIL" \/
               \E k \in DOMAIN rows : rows[k].status = "FAIL"
      BY <2>6, <2>8
    <3>2. QED
      BY <1>8, <3>1
  <2>13. FreshGroup' /\ NoneInserts'
    <3>1. fault' = fault
      BY <1>10 DEF PlanInserts, taskVars
    <3>2. ~Unplanned
      BY <1>2, <2>1 DEF OneInserts, NoneInserts, Unplanned
    <3>3. fault # "GROUPED" /\ ~Unplanned'
      BY <3>1, <3>2 DEF Unplanned
    <3>4. QED
      BY <3>1, <3>3 DEF FreshGroup, NoneInserts
  <2>14. QED
    BY <1>6, <2>9, <2>10, <2>11, <2>12, <2>13 DEF Parts
<1>11. CASE ~Plan(c) /\ ~(PlanInserts(c) /\ todo[c].cbs # <<>>)
  <2>1. \A u \in Clients : Inserting(u)' => Inserting(u) /\ todo'[u] = todo[u]
    <3>1. CASE todo' = todo
      BY <3>1 DEF Inserting
    <3>2. ASSUME NEW w, w.op # "insert", Then(c, w)
          PROVE  \A u \in Clients : Inserting(u)' => Inserting(u) /\ todo'[u] = todo[u]
      BY <1>1, <3>2, StopsInserting
    <3>3. \A op \in {"remove", "left", "archive", "recalc"} : Work(op, <<>>).op # "insert"
      BY DEF Work
    <3>4. Idle.op # "insert"
      BY DEF Idle
    <3>5. CASE Stop(c) \/ Pass(c) \/ Recalc(c)
      BY <3>2, <3>3, <3>5 DEF Stop, Pass, Recalc
    <3>6. CASE StopRemoves(c) \/ PassLeft(c) \/ PassFinishes(c) \/ PlanInserts(c) \/ RecalcMarks(c)
      BY <1>11, <3>2, <3>3, <3>4, <3>6
         DEF StopRemoves, PassLeft, PassFinishes, PlanInserts, RecalcMarks
    <3>7. QED
      BY <1>3, <1>11, <3>1, <3>5, <3>6 DEF Request, Handle, Finish
  <2>2. rows' \in {rows, <<>>} \/ Pass(c)
    BY <1>3, <1>11 DEF Request, Handle, Stop, StopRemoves, Finish, PassLeft, PassFinishes,
                       PlanInserts, Recalc, RecalcMarks, Archive
  <2>3. /\ NoMoreWait(rows', rows)
        /\ \A i \in DOMAIN rows' : rows'[i].status # "FAIL" \/
               \E k \in DOMAIN rows : rows[k].status = "FAIL"
    <3>1. CASE rows' \in {rows, <<>>}
      <4>1. NoMoreWait(rows', rows)
        BY <1>1, <3>1, NoMoreWaitBy
      <4>2. QED
        BY <3>1, <4>1
    <3>2. CASE Pass(c)
      <4>1. PICK r \in ToSet(rows) : rows' = Mark(rows, r.cb, RowStatus, "PASS")
        BY <3>2 DEF Pass
      <4>2. r \in Rows
        BY <1>1 DEF ToSet
      <4>3. r.cb \in Breakers /\ "PASS" \in RowStatus \ {"WAIT"}
        BY <4>2 DEF Rows, RowStatus
      <4>4. NoMoreWait(rows', rows)
        BY <1>1, <4>1, <4>3, NoMoreWaitBy
      <4>5. /\ DOMAIN rows' = DOMAIN rows
            /\ \A i \in DOMAIN rows : rows'[i].status \in {"PASS", rows[i].status}
        BY <1>1, <4>1, <4>3, MarkRows
      <4>6. QED
        BY <4>4, <4>5
    <3>3. QED
      BY <2>2, <3>1, <3>2
  <2>4. NoneOutstanding(rows', controls')
    BY <1>8, <2>3
  <2>5. InOrder(rows') /\ \A cbs : Follows(rows, cbs) => Follows(rows', cbs)
    BY <1>2, <2>3, OrderKept
  <2>6. InsertsInOrder'
    BY <1>2, <2>1, <2>5 DEF InsertsInOrder, Inserting
  <2>7. OneInserts' /\ NoneInserts'
    <3>1. OneInserts'
      BY <1>2, <2>1 DEF OneInserts, Inserting
    <3>2. NoneInserts'
      BY <1>2, <1>7, <2>1 DEF NoneInserts, Inserting
    <3>3. QED
      BY <3>1, <3>2
  <2>8. FreshGroup'
    <3>1. Unplanned' => Unplanned
      BY <1>7
    <3>2. ASSUME Unplanned
          PROVE  rows' = <<>>
      <4>1. rows = <<>>
        BY <1>2, <3>2 DEF FreshGroup
      <4>2. ~Pass(c)
        BY <4>1 DEF Pass, ToSet
      <4>3. QED
        BY <2>2, <4>1, <4>2
    <3>3. QED
      BY <3>1, <3>2 DEF FreshGroup
  <2>9. QED
    BY <1>6, <2>4, <2>5, <2>6, <2>7, <2>8 DEF Parts
<1>12. QED
  BY <1>9, <1>10, <1>11

LEMMA OrderedInductive ==
  ASSUME Typed, PlannedOnce, PlansIsolateFirst, NothingLoads, Ordered, [Next]_vars
  PROVE  Parts' /\ SentSafely
<1>1. /\ rows \in Seq(Rows) /\ controls \in Seq(Controls) /\ fault \in FaultSteps
      /\ todo \in [Threads -> Works] /\ Clients \subseteq Threads /\ "alarm" \in Threads
  BY TypedParts DEF Threads
<1>2. /\ Single(controls) /\ InOrder(rows) /\ InsertsInOrder /\ OneInserts
      /\ NoneOutstanding(rows, controls) /\ FreshGroup /\ NoneInserts
  BY DEF Ordered, OneByOne
<1>3. Len(controls) \in Nat
  BY <1>1
<1>4. CASE Restart
  <2>1. controls' = <<>> /\ rows' = rows /\ fault' = "none" /\ todo' = [t \in Threads |-> Idle]
    BY <1>4 DEF Restart
  <2>2. \A t \in Clients : ~Inserting(t)'
    BY <1>1, <2>1 DEF Inserting, Idle
  <2>3. InsertsInOrder' /\ OneInserts' /\ FreshGroup' /\ NoneInserts'
    BY <2>1, <2>2 DEF InsertsInOrder, OneInserts, FreshGroup, NoneInserts, Unplanned
  <2>4. NoneOutstanding(rows', controls')
    BY <2>1 DEF NoneOutstanding, Quiet
  <2>5. SentSafely
    BY <1>3, <2>1 DEF SentSafely
  <2>6. QED
    BY <1>2, <2>1, <2>3, <2>4, <2>5 DEF Parts
<1>5. ASSUME NEW i \in 1..Len(controls), Age(i)
      PROVE  Parts' /\ SentSafely
  <2> DEFINE cs == [controls EXCEPT ![i].late = TRUE]
  <2>1. i \in DOMAIN controls /\ controls' = cs /\ UNCHANGED <<rows, fault, todo>>
    BY <1>5 DEF Age
  <2>2. /\ DOMAIN cs = DOMAIN controls /\ Len(cs) = Len(controls)
        /\ \A j \in DOMAIN controls : cs[j].cb = controls[j].cb /\ cs[j].status = controls[j].status
    BY <1>1, <2>1, AgedControls
  <2> HIDE DEF cs
  <2>3. NoneOutstanding(rows, cs)
    BY <1>2, <2>2 DEF NoneOutstanding, Quiet, Covered, Moves
  <2>4. SentSafely
    BY <1>3, <2>1, <2>2 DEF SentSafely
  <2>5. InsertsInOrder' /\ OneInserts' /\ FreshGroup' /\ NoneInserts'
    BY <1>2, <2>1 DEF InsertsInOrder, OneInserts, FreshGroup, NoneInserts, Unplanned, Inserting
  <2>6. QED
    BY <1>2, <2>1, <2>3, <2>4, <2>5 DEF Parts
<1>6. CASE Evict \/ EvictArchives
  <2>1. controls' = controls /\ fault' \in {fault, "none"} /\ rows' \in {rows, <<>>}
    BY <1>6 DEF Evict, EvictArchives, RemoveTasks, Archive, taskVars
  <2>2. \A u \in Clients : Inserting(u)' => Inserting(u) /\ todo'[u] = todo[u]
    <3>1. Work("archive", <<>>).op # "insert" /\ Idle.op # "insert"
      BY DEF Work, Idle
    <3>2. QED
      BY <1>1, <1>6, <3>1, StopsInserting DEF Evict, EvictArchives
  <2>3. NoMoreWait(rows', rows)
    BY <1>1, <2>1, NoMoreWaitBy
  <2>4. InOrder(rows') /\ \A cbs : Follows(rows, cbs) => Follows(rows', cbs)
    BY <1>2, <2>3, OrderKept
  <2>5. InsertsInOrder'
    BY <1>2, <2>2, <2>4 DEF InsertsInOrder, Inserting
  <2>6. OneInserts' /\ NoneInserts' /\ FreshGroup'
    <3>1. OneInserts'
      BY <1>2, <2>2 DEF OneInserts, Inserting
    <3>2. NoneInserts'
      BY <1>2, <2>1, <2>2 DEF NoneInserts, Inserting
    <3>3. FreshGroup'
      BY <1>2, <2>1 DEF FreshGroup, Unplanned
    <3>4. QED
      BY <3>1, <3>2, <3>3
  <2>7. NoneOutstanding(rows', controls') /\ SentSafely
    BY <1>2, <1>3, <2>1 DEF NoneOutstanding, Covered, SentSafely
  <2>8. QED
    BY <2>4, <2>5, <2>6, <2>7 DEF Parts
<1>7. CASE UNCHANGED vars
  <2>1. UNCHANGED <<rows, controls, fault, todo>>
    BY <1>7 DEF vars, taskVars
  <2>2. InsertsInOrder' /\ OneInserts' /\ FreshGroup' /\ NoneInserts'
    BY <1>2, <2>1 DEF InsertsInOrder, OneInserts, FreshGroup, NoneInserts, Unplanned, Inserting
  <2>3. SentSafely
    BY <1>3, <2>1 DEF SentSafely
  <2>4. QED
    BY <1>2, <2>1, <2>2, <2>3 DEF Parts
<1>8. QED
  BY <1>4, <1>5, <1>6, <1>7, OrderedPass, OrderedRequest DEF Next

LEMMA OrderedInitially ==
  ASSUME Init
  PROVE  Ordered
<1>1. Idle.op = "idle"
  BY DEF Idle
<1>2. OneByOne
  BY OneByOneInitially
<1>3. InsertsInOrder /\ OneInserts /\ NoneInserts
  <2>1. \A t \in Clients : ~Inserting(t)
    BY <1>1 DEF Init, Inserting, Threads
  <2>2. QED
    BY <2>1 DEF InsertsInOrder, OneInserts, NoneInserts
<1>4. DoneWritten /\ InOrder(rows) /\ FreshGroup /\ NoneOutstanding(rows, controls)
  BY DEF Init, DoneWritten, InOrder, FreshGroup, NoneOutstanding, Quiet
<1>5. QED
  BY <1>2, <1>3, <1>4 DEF Ordered

\* No breaker is closed on the fault: when the pass sends the command of a
\* transfer or restore step, every isolation step in FDIR_STEP has succeeded
\* or was passed by an operator.  For plans that isolate first, whatever the
\* consoles do but to send a command or load a group that turns automatic
\* (then two steps are under way at once), or to replace the plan of such a group;
\* the process may exit at any point, and any read may fail.
THEOREM ClosesOnlyIsolated ==
  ASSUME NothingLoads, PlannedOnce, PlansIsolateFirst
  PROVE  Spec => RestoreAfterIsolate
<1>1. Init => Typed /\ Ordered
  BY TypedInitially, OrderedInitially
<1>2. Typed /\ Ordered /\ [Next]_vars => (Typed /\ Ordered)'
  <2>1. Ordered => OneByOne /\ DoneWritten
    BY DEF Ordered
  <2>2. Typed /\ Ordered /\ [Next]_vars => Typed' /\ OneByOne' /\ DoneWritten' /\ Parts'
    BY <2>1, TypedInductive, OneByOneInductive, DoneWrittenInductive, OrderedInductive
  <2>3. OneByOne' /\ DoneWritten' /\ Parts' => Ordered'
    BY DEF Ordered, Parts
  <2>4. QED
    BY <2>2, <2>3
<1>3. Typed /\ Ordered /\ [Next]_vars =>
        [Len(controls') > Len(controls) /\ Stage[controls'[1].cb] >= STAGE_FDIR_STEP_TRANSFER
           => \A r \in ToSet(rows') :
                Stage[r.cb] = STAGE_FDIR_STEP_ISOLATE => r.status \in {"OK", "PASS"}]_vars
  BY OrderedInductive DEF SentSafely
<1>4. QED
  BY <1>1, <1>2, <1>3, PTL DEF Spec, RestoreAfterIsolate

-----------------------------------------------------------------------------
(* StepExecution implements StepPlan: without consoles, and without a new  *)
(* fault that needs the room, thread_process carries out every plan step   *)
(* by step, for every set of plans that name each breaker once.            *)

\* What the variables of StepPlan stand for, for the rows rs.
Pending(rs) == Cbs(Left(rs))
Busy(rs) == Only(rs, {i \in DOMAIN rs : rs[i].status = "EXEC"})
Current(rs) == IF Busy(rs) = <<>> THEN "none" ELSE Busy(rs)[1].cb

\* The rows rs name no breaker twice.
EachOnce(rs) == \A i, j \in DOMAIN rs : rs[i].cb = rs[j].cb => i = j

\* The places of the rows that wait, and their number.
Places(rs) == {i \in DOMAIN rs : rs[i].status = "WAIT"}
Waiting(rs) == Cardinality(Places(rs))

\* The waiting rows in their order, by their places in the table.
LEMMA PendingPlaces ==
  ASSUME NEW rs \in Seq(Rows)
  PROVE  /\ Len(rs) \in Nat /\ Places(rs) \in SUBSET (1..Len(rs)) /\ Waiting(rs) \in Nat
         /\ Numbered(Places(rs)) \in [1..Waiting(rs) -> Places(rs)]
         /\ \A i, j \in 1..Waiting(rs) : i < j => Numbered(Places(rs))[i] < Numbered(Places(rs))[j]
         /\ \A k \in Places(rs) : \E j \in 1..Waiting(rs) : Numbered(Places(rs))[j] = k
         /\ Left(rs) \in Seq(Rows) /\ Len(Left(rs)) = Waiting(rs)
         /\ \A j \in 1..Waiting(rs) : Left(rs)[j] = rs[Numbered(Places(rs))[j]]
         /\ Pending(rs) = [j \in 1..Waiting(rs) |-> rs[Numbered(Places(rs))[j]].cb]
<1> DEFINE l == Only(rs, Places(rs))
           m == Waiting(rs)
           f == Numbered(Places(rs))
<1>1. /\ Places(rs) \in SUBSET DOMAIN rs
      /\ DOMAIN rs = 1..Len(rs) /\ Len(rs) \in Nat
  BY DEF Places
<1>2. /\ l \in Seq(Rows)
      /\ DOMAIN l = 1..m /\ m \in Nat
      /\ f \in [1..m -> Places(rs)]
      /\ \A j \in 1..m : l[j] = rs[f[j]]
      /\ \A i, j \in 1..m : i < j => f[i] < f[j]
      /\ \A k \in Places(rs) : \E j \in 1..m : f[j] = k
  <2> DEFINE P == Places(rs)
  <2>1. P \in SUBSET DOMAIN rs
    BY <1>1
  <2> HIDE DEF P
  <2>2. /\ Only(rs, P) \in Seq(Rows)
        /\ DOMAIN Only(rs, P) = 1..Cardinality(P) /\ Cardinality(P) \in Nat
        /\ Numbered(P) \in [1..Cardinality(P) -> P]
        /\ \A j \in 1..Cardinality(P) : Only(rs, P)[j] = rs[Numbered(P)[j]]
        /\ \A i, j \in 1..Cardinality(P) : i < j => Numbered(P)[i] < Numbered(P)[j]
        /\ \A k \in P : \E j \in 1..Cardinality(P) : Numbered(P)[j] = k
    BY <2>1, OnlyProperties
  <2>3. l = Only(rs, P) /\ m = Cardinality(P) /\ f = Numbered(P) /\ P = Places(rs)
    BY DEF Waiting, P
  <2> HIDE DEF l, m, f
  <2>4. QED
    BY <2>2, <2>3
<1>3. Left(rs) = l
  BY DEF Left, Places
<1> HIDE DEF l, m, f
<1>4. Len(l) = m
  BY <1>2
<1>5. Cbs(l) = [j \in 1..m |-> rs[f[j]].cb]
  BY <1>2 DEF Cbs
<1>6. QED
  BY <1>1, <1>2, <1>3, <1>4, <1>5 DEF Pending, l, m, f

\* A row that is being executed is the step that is carried out, if all such
\* rows are of its breaker; there is none if there is no such row.
LEMMA CurrentRow ==
  ASSUME NEW rs \in Seq(Rows)
  PROVE  /\ (\A i \in DOMAIN rs : rs[i].status # "EXEC") => Current(rs) = "none"
         /\ \A cb : /\ \E i \in DOMAIN rs : rs[i].status = "EXEC"
                    /\ \A i \in DOMAIN rs : rs[i].status = "EXEC" => rs[i].cb = cb
                    => Current(rs) = cb
<1> DEFINE K == {i \in DOMAIN rs : rs[i].status = "EXEC"}
           l == Only(rs, K)
           m == Cardinality(K)
           f == Numbered(K)
<1>1. K \in SUBSET DOMAIN rs
  OBVIOUS
<1>2. Busy(rs) = l
  BY DEF Busy
<1>3. \A i \in DOMAIN rs : i \in K <=> rs[i].status = "EXEC"
  OBVIOUS
<1> HIDE DEF K
<1>4. /\ l \in Seq(Rows)
      /\ DOMAIN l = 1..m /\ m \in Nat
      /\ f \in [1..m -> K]
      /\ \A j \in 1..m : l[j] = rs[f[j]]
      /\ \A k \in K : \E j \in 1..m : f[j] = k
  BY <1>1, OnlyProperties
<1> HIDE DEF l, m, f
<1>5. Len(l) = m
  BY <1>4
<1>6. ASSUME l # <<>>
      PROVE  1 \in 1..m /\ f[1] \in K
  BY <1>4, <1>5, <1>6
<1>7. ASSUME \A i \in DOMAIN rs : rs[i].status # "EXEC"
      PROVE  Current(rs) = "none"
  <2>1. l = <<>>
    BY <1>1, <1>3, <1>6, <1>7
  <2>2. QED
    BY <1>2, <2>1 DEF Current
<1>8. ASSUME NEW cb, NEW k \in DOMAIN rs, rs[k].status = "EXEC",
             \A i \in DOMAIN rs : rs[i].status = "EXEC" => rs[i].cb = cb
      PROVE  Current(rs) = cb
  <2>1. PICK j \in 1..m : f[j] = k
    BY <1>3, <1>4, <1>8
  <2>2. l # <<>>
    BY <1>4, <2>1
  <2>3. l[1] = rs[f[1]] /\ f[1] \in DOMAIN rs /\ rs[f[1]].status = "EXEC"
    BY <1>1, <1>3, <1>4, <1>6, <2>2
  <2>4. QED
    BY <1>2, <1>8, <2>2, <2>3 DEF Current
<1>9. QED
  BY <1>7, <1>8

\* Rows that wait at the same places, for the same breakers, are the same
\* steps left.
LEMMA SamePlaces ==
  ASSUME NEW rs \in Seq(Rows), NEW new \in Seq(Rows),
         Places(new) = Places(rs), \A i \in Places(rs) : new[i].cb = rs[i].cb
  PROVE  Pending(new) = Pending(rs)
<1>1. /\ Pending(rs) = [j \in 1..Waiting(rs) |-> rs[Numbered(Places(rs))[j]].cb]
      /\ Numbered(Places(rs)) \in [1..Waiting(rs) -> Places(rs)]
  BY PendingPlaces
<1>2. Pending(new) = [j \in 1..Waiting(new) |-> new[Numbered(Places(new))[j]].cb]
  BY PendingPlaces
<1>3. Waiting(new) = Waiting(rs)
  BY DEF Waiting
<1>4. QED
  BY <1>1, <1>2, <1>3

\* Marking a step that is being executed as done leaves the others to do.
LEMMA PendingKept ==
  ASSUME NEW rs \in Seq(Rows), NEW cb, NEW to \in {"OK", "FAIL"}
  PROVE  Pending(Mark(rs, cb, {"EXEC"}, to)) = Pending(rs)
<1> DEFINE m == Mark(rs, cb, {"EXEC"}, to)
<1>1. to \in RowStatus
  BY DEF RowStatus
<1>2. /\ m \in Seq(Rows)
      /\ DOMAIN m = DOMAIN rs
      /\ \A i \in DOMAIN rs :
           /\ m[i].cb = rs[i].cb
           /\ m[i].status = IF rs[i].cb = cb /\ rs[i].status \in {"EXEC"} THEN to ELSE rs[i].status
  BY <1>1, MarkRows
<1> HIDE DEF m
<1>3. \A i \in DOMAIN rs : m[i].status = "WAIT" <=> rs[i].status = "WAIT"
  BY <1>2
<1>4. Places(m) = Places(rs)
  BY <1>2, <1>3 DEF Places
<1>5. \A i \in Places(rs) : m[i].cb = rs[i].cb
  BY <1>2 DEF Places
<1>6. QED
  BY <1>2, <1>4, <1>5, SamePlaces DEF m

\* When no row waits no step is left, and the other way round.
LEMMA PendingNone ==
  ASSUME NEW rs \in Seq(Rows)
  PROVE  /\ Pending(rs) = <<>> <=> Left(rs) = <<>>
         /\ Left(rs) = <<>> <=> \A i \in DOMAIN rs : rs[i].status # "WAIT"
<1>1. Left(rs) \in Seq(Rows)
  BY LeftRows
<1>2. Pending(rs) = <<>> <=> Left(rs) = <<>>
  BY <1>1 DEF Pending, Cbs
<1>3. QED
  BY <1>2, LeftRows

\* The first plan of a group: its steps are left, in the order of the plan.
LEMMA PendingPlan ==
  ASSUME NEW p \in Seq(Breakers), NEW rs \in Seq(Rows), DOMAIN rs = DOMAIN p,
         \A i \in DOMAIN p : rs[i].cb = p[i] /\ rs[i].status = "WAIT"
  PROVE  Pending(rs) = p
<1> DEFINE n == Len(rs)
           K == 1..n
           f == [j \in 1..n |-> j]
<1>1. n \in Nat /\ DOMAIN rs = 1..n /\ DOMAIN p = 1..n /\ p = [i \in 1..n |-> p[i]]
  OBVIOUS
<1>2. Places(rs) = K
  BY <1>1 DEF Places
<1>3. Cardinality(K) = n /\ \A j \in 1..n : Numbered(K)[j] = f[j]
  <2>1. K \in SUBSET (1..n) /\ f \in [1..n -> K]
    OBVIOUS
  <2>2. \A i, j \in 1..n : i < j => f[i] < f[j]
    OBVIOUS
  <2>3. \A k \in K : \E j \in 1..n : f[j] = k
    OBVIOUS
  <2> HIDE DEF K, f, n
  <2>4. QED
    BY <1>1, <2>1, <2>2, <2>3, NumberedUnique
<1>4. \A j \in 1..n : Numbered(K)[j] = j
  BY <1>3
<1>5. Pending(rs) = [j \in 1..Waiting(rs) |-> rs[Numbered(Places(rs))[j]].cb]
  BY PendingPlaces
<1>6. Waiting(rs) = n
  BY <1>2, <1>3 DEF Waiting
<1> HIDE DEF n, K, f
<1>7. Pending(rs) = [j \in 1..n |-> rs[Numbered(K)[j]].cb]
  BY <1>2, <1>5, <1>6
<1>8. Pending(rs) = [j \in 1..n |-> p[j]]
  BY <1>1, <1>4, <1>7
<1>9. QED
  BY <1>1, <1>8

\* AddControlItem takes the first step that is left, and only that one, from
\* those that are left.
LEMMA PendingNext ==
  ASSUME NEW rs \in Seq(Rows), EachOnce(rs), Left(rs) # <<>>
  PROVE  /\ Left(rs)[1].cb = Head(Pending(rs))
         /\ Pending(Mark(rs, Left(rs)[1].cb, {"WAIT"}, "EXEC")) = Tail(Pending(rs))
<1> DEFINE n == Waiting(rs)
           K == Places(rs)
           f == Numbered(Places(rs))
           cb == Left(rs)[1].cb
           m == Mark(rs, cb, {"WAIT"}, "EXEC")
           g == [j \in 1..n - 1 |-> f[j + 1]]
<1>1. /\ Len(rs) \in Nat /\ K \in SUBSET (1..Len(rs)) /\ n \in Nat
      /\ f \in [1..n -> K]
      /\ \A i, j \in 1..n : i < j => f[i] < f[j]
      /\ \A k \in K : \E j \in 1..n : f[j] = k
      /\ Left(rs) \in Seq(Rows) /\ Len(Left(rs)) = n
      /\ \A j \in 1..n : Left(rs)[j] = rs[f[j]]
      /\ Pending(rs) = [j \in 1..n |-> rs[f[j]].cb]
  BY PendingPlaces
<1>2. /\ m \in Seq(Rows)
      /\ DOMAIN m = DOMAIN rs
      /\ \A i \in DOMAIN rs :
           /\ m[i].cb = rs[i].cb
           /\ m[i].status = IF rs[i].cb = cb /\ rs[i].status \in {"WAIT"} THEN "EXEC" ELSE rs[i].status
  BY MarkRows DEF RowStatus
<1>3. \A i \in DOMAIN rs : i \in K <=> rs[i].status = "WAIT"
  BY DEF Places
<1>4. \A i \in DOMAIN m : i \in Places(m) <=> m[i].status = "WAIT"
  BY DEF Places
<1>5. Places(m) \subseteq DOMAIN m /\ K \subseteq DOMAIN rs
  BY DEF Places
<1>6. n >= 1 /\ 1 \in 1..n /\ cb = rs[f[1]].cb /\ f[1] \in K
  BY <1>1
<1> HIDE DEF n, K, f, cb, m
<1>7. Places(m) = K \ {f[1]}
  <2>1. \A i \in K : rs[i].cb = cb <=> i = f[1]
    BY <1>5, <1>6 DEF EachOnce
  <2>2. \A i \in DOMAIN rs : m[i].status = "WAIT" <=> i \in K /\ i # f[1]
    BY <1>2, <1>3, <2>1
  <2>3. QED
    BY <1>2, <1>4, <1>5, <2>2
<1>8. Cardinality(Places(m)) = n - 1 /\ \A j \in 1..n - 1 : Numbered(Places(m))[j] = g[j]
  <2>1. n - 1 \in Nat /\ \A j \in 1..n - 1 : j + 1 \in 1..n /\ j + 1 # 1 /\ 1 < j + 1
    BY <1>1, <1>6
  <2>2. \A j \in 1..n - 1 : g[j] = f[j + 1] /\ g[j] \in K /\ f[1] < g[j]
    BY <1>1, <1>6, <2>1
  <2>3. \A j \in 1..n - 1 : g[j] \in Places(m)
    <3>1. \A k \in K : k \in Nat
      BY <1>1
    <3>2. \A j \in 1..n - 1 : g[j] # f[1]
      BY <1>6, <2>2, <3>1
    <3>3. QED
      BY <1>7, <2>2, <3>2
  <2>4. g \in [1..n - 1 -> Places(m)]
    BY <2>3
  <2>5. \A i, j \in 1..n - 1 : i < j => g[i] < g[j]
    <3>1. \A i, j \in 1..n - 1 : i < j => i + 1 < j + 1
      BY <1>1
    <3>2. QED
      BY <1>1, <2>1, <2>2, <3>1
  <2>6. \A k \in Places(m) : \E j \in 1..n - 1 : g[j] = k
    <3> SUFFICES ASSUME NEW k \in Places(m)
                 PROVE  \E j \in 1..n - 1 : g[j] = k
      OBVIOUS
    <3>1. k \in K /\ k # f[1]
      BY <1>7
    <3>2. PICK j \in 1..n : f[j] = k
      BY <1>1, <3>1
    <3>3. j # 1
      BY <3>1, <3>2
    <3>4. j - 1 \in 1..n - 1 /\ (j - 1) + 1 = j
      BY <1>1, <3>3
    <3>5. g[j - 1] = k
      BY <2>2, <3>2, <3>4
    <3>6. QED
      BY <3>4, <3>5
  <2>7. Places(m) \in SUBSET (1..Len(rs))
    BY <1>1, <1>7
  <2> DEFINE h == n - 1
  <2> HIDE DEF g, h
  <2>8. /\ h \in Nat /\ g \in [1..h -> Places(m)]
        /\ \A i, j \in 1..h : i < j => g[i] < g[j]
        /\ \A k \in Places(m) : \E j \in 1..h : g[j] = k
    BY <2>1, <2>4, <2>5, <2>6 DEF h
  <2>9. Cardinality(Places(m)) = h /\ \A j \in 1..h : Numbered(Places(m))[j] = g[j]
    <3> DEFINE P == Places(m)
               N == Len(rs)
    <3>1. N \in Nat /\ P \in SUBSET (1..N)
      BY <1>1, <2>7
    <3>2. /\ h \in Nat /\ g \in [1..h -> P]
          /\ \A i, j \in 1..h : i < j => g[i] < g[j]
          /\ \A k \in P : \E j \in 1..h : g[j] = k
      BY <2>8
    <3> HIDE DEF P, N
    <3>3. Cardinality(P) = h
      BY <3>1, <3>2, NumberedUnique
    <3>4. \A j \in 1..h : Numbered(P)[j] = g[j]
      BY <3>1, <3>2, NumberedUnique
    <3>5. QED
      BY <3>3, <3>4 DEF P
  <2>10. QED
    BY <2>9 DEF h
<1>9. Pending(m) = [j \in 1..n - 1 |-> rs[f[j + 1]].cb]
  <2>1. /\ Pending(m) = [j \in 1..Waiting(m) |-> m[Numbered(Places(m))[j]].cb]
        /\ Numbered(Places(m)) \in [1..Waiting(m) -> Places(m)]
    BY <1>2, PendingPlaces
  <2>2. Waiting(m) = n - 1
    BY <1>8 DEF Waiting
  <2>3. \A j \in 1..n - 1 : m[Numbered(Places(m))[j]].cb = rs[f[j + 1]].cb
    BY <1>2, <1>5, <1>8, <2>1, <2>2
  <2>4. QED
    BY <2>1, <2>2, <2>3
<1>10. /\ Pending(rs) # <<>> /\ Head(Pending(rs)) = rs[f[1]].cb
       /\ Tail(Pending(rs)) = [j \in 1..n - 1 |-> rs[f[j + 1]].cb]
  <2> DEFINE q == [j \in 1..n |-> rs[f[j]].cb]
  <2>1. \A j \in 1..n : rs[f[j]].cb \in Breakers
    <3>1. \A j \in 1..n : rs[f[j]] \in Rows
      BY <1>1, <1>5
    <3>2. QED
      BY <3>1 DEF Rows
  <2>2. DOMAIN q = 1..n /\ \A j \in 1..n : q[j] = rs[f[j]].cb
    OBVIOUS
  <2>3. q \in Seq(Breakers)
    BY <1>1, <2>1
  <2>4. Pending(rs) = q
    BY <1>1
  <2> HIDE DEF q
  <2>5. Len(q) = n
    BY <1>1, <2>2, <2>3
  <2>6. q # <<>> /\ Head(q) = q[1] /\ Tail(q) = [j \in 1..n - 1 |-> q[j + 1]]
    <3>1. q # <<>>
      BY <1>6, <2>3, <2>5
    <3>2. Head(q) = q[1]
      BY <2>3, <3>1
    <3>3. /\ Tail(q) \in Seq(Breakers) /\ Len(Tail(q)) = n - 1
          /\ \A j \in 1..n - 1 : Tail(q)[j] = q[j + 1]
      BY <2>3, <2>5, <3>1, HeadTailProperties
    <3>4. Tail(q) = [j \in 1..n - 1 |-> Tail(q)[j]]
      <4> DEFINE t == Tail(q)
      <4>1. t \in Seq(Breakers) /\ Len(t) = n - 1
        BY <3>3
      <4> HIDE DEF t
      <4>2. t = [j \in 1..Len(t) |-> t[j]]
        BY <4>1
      <4>3. QED
        BY <4>1, <4>2 DEF t
    <3>5. QED
      BY <3>1, <3>2, <3>3, <3>4
  <2>7. \A j \in 1..n - 1 : j + 1 \in 1..n
    BY <1>1
  <2>8. QED
    BY <1>6, <2>2, <2>4, <2>6, <2>7
<1>11. QED
  BY <1>6, <1>9, <1>10 DEF cb, m
-----------------------------------------------------------------------------
\* The group is left to the server: no console asks for anything, no new fault
\* needs the room, and the steps that are left can be read.
LeftAlone == Ops = {} /\ "left" \notin ReadFails

\* A plan names each breaker once, and "none" is no breaker.
PlansOnce == \A p \in Plans : \A i, j \in DOMAIN p : p[i] = p[j] => i = j
NoneIsNone == "none" \notin Breakers

HasFailed(rs) == \E i \in DOMAIN rs : rs[i].status = "FAIL"

\* The row of a control that is under way is being executed.
Running(rs, cs) ==
  \A i \in DOMAIN cs : Moves(cs[i]) =>
    \E k \in DOMAIN rs : rs[k].cb = cs[i].cb /\ rs[k].status = "EXEC"

\* The controls new are under way for what the controls old are.
SameMovers(new, old) ==
  /\ \A i \in DOMAIN new : Moves(new[i]) =>
       \E j \in DOMAIN old : Moves(old[j]) /\ old[j].cb = new[i].cb
  /\ \A j \in DOMAIN old : Moves(old[j]) =>
       \E i \in DOMAIN new : Moves(new[i]) /\ new[i].cb = old[j].cb

\* Before its plan the group has no rows, and after its archive neither rows
\* nor a fault task nor a control under way.
Unstarted == fault \in {"GROUPED", "ISO"} => rows = <<>> /\ archived = "no"
Closed ==
  archived # "no" =>
    archived = "FINISH" /\ rows = <<>> /\ fault = "none" /\ Quiet(controls)

\* Once a control has succeeded no row is being executed or has failed.
Between ==
  after # "no" =>
    /\ rows # <<>> /\ \A i \in DOMAIN rows : rows[i].status \notin {"EXEC", "FAIL"}
    /\ after = "finish" => Left(rows) = <<>>

\* Only a step that has failed makes the server compute a new plan, and none
\* is executed then.
Replanned ==
  /\ fault # "INVALID_RECALC" /\ (fault = "RE_CALC" => HasFailed(rows))
  /\ HasFailed(rows) => \A i \in DOMAIN rows : rows[i].status # "EXEC"

Undisturbed == todo = [t \in Threads |-> Idle]

Carrying ==
  /\ Undisturbed /\ Unstarted /\ Closed /\ Between /\ Replanned
  /\ EachOnce(rows) /\ NoneOutstanding(rows, controls)
  /\ after = "no" => Running(rows, controls)

LEMMA CarryingInitially ==
  ASSUME Init
  PROVE  Carrying
<1>1. Undisturbed /\ Unstarted /\ Closed /\ Between
  BY DEF Init, Undisturbed, Unstarted, Closed, Between
<1>2. Replanned /\ EachOnce(rows)
  BY DEF Init, Replanned, HasFailed, EachOnce
<1>3. NoneOutstanding(rows, controls) /\ Running(rows, controls)
  BY DEF Init, NoneOutstanding, Running, Quiet
<1>4. QED
  BY <1>1, <1>2, <1>3 DEF Carrying

\* A step that leaves the rows alone and starts no control.
LEMMA CarryingSame ==
  ASSUME Carrying, UNCHANGED <<rows, archived>>, Undisturbed',
         fault' \in {fault, "none"} \/ (fault = "GROUPED" /\ fault' = "ISO"),
         Quiet(controls') \/ SameMovers(controls', controls),
         Quiet(controls) => Quiet(controls'),
         \/ after' = after
         \/ after' = "no" /\ Quiet(controls')
         \/ after # "no" /\ after' = "finish" /\ Left(rows) = <<>>
  PROVE  Carrying'
<1>1. /\ Unstarted /\ Closed /\ Between /\ Replanned
      /\ EachOnce(rows) /\ NoneOutstanding(rows, controls)
      /\ after = "no" => Running(rows, controls)
  BY DEF Carrying
<1>2. Unstarted'
  BY <1>1 DEF Unstarted
<1>3. Closed'
  BY <1>1 DEF Closed
<1>4. Between'
  BY <1>1 DEF Between
<1>5. Replanned' /\ EachOnce(rows')
  BY <1>1 DEF Replanned
<1>6. NoneOutstanding(rows', controls')
  <2>1. CASE Quiet(controls')
    BY <2>1 DEF NoneOutstanding
  <2>2. CASE ~Quiet(controls') /\ SameMovers(controls', controls)
    <3>1. (\A i \in DOMAIN rows : rows[i].status # "FAIL") /\ Covered(rows, controls)
      BY <1>1, <2>2 DEF NoneOutstanding
    <3>2. Covered(rows, controls')
      BY <2>2, <3>1 DEF Covered, SameMovers
    <3>3. QED
      BY <3>1, <3>2 DEF NoneOutstanding
  <2>3. QED
    BY <2>1, <2>2
<1>7. ASSUME after' = "no"
      PROVE  Running(rows', controls')
  <2>1. CASE Quiet(controls')
    BY <2>1 DEF Running, Quiet
  <2>2. CASE ~Quiet(controls') /\ SameMovers(controls', controls)
    <3>1. Running(rows, controls)
      BY <1>1, <1>7, <2>2
    <3>2. Running(rows, controls')
      BY <2>2, <3>1 DEF Running, SameMovers
    <3>3. QED
      BY <3>2
  <2>3. QED
    BY <2>1, <2>2
<1>8. QED
  BY <1>2, <1>3, <1>4, <1>5, <1>6, <1>7 DEF Carrying

\* Sending the first step that is left, while none is under way: it is carried
\* out, and the others are left.
LEMMA SentFirst ==
  ASSUME NEW rs \in Seq(Rows), NEW f \in FaultSteps, f # "none", NEW cs \in Seq(Controls),
         Left(rs) # <<>>, AddControlItem(Left(rs)[1].cb, rs, f, cs),
         Quiet(cs), EachOnce(rs), \A i \in DOMAIN rs : rs[i].status \notin {"FAIL", "EXEC"}
  PROVE  /\ Current(rows') = Head(Pending(rs)) /\ Pending(rows') = Tail(Pending(rs))
         /\ rows' # <<>> /\ ~HasFailed(rows') /\ EachOnce(rows')
         /\ NoneOutstanding(rows', controls') /\ Running(rows', controls')
         /\ fault' = "PROCESS"
<1>1. PICK cb \in Breakers : cb = Left(rs)[1].cb
  BY LeftFirst
<1>2. /\ rows' = Mark(rs, cb, {"WAIT"}, "EXEC") /\ fault' = "PROCESS"
      /\ controls' = cs \/ PutInFront(controls', cb, cs)
  BY <1>1, ItemAdded
<1> DEFINE m == Mark(rs, cb, {"WAIT"}, "EXEC")
<1>3. /\ m \in Seq(Rows)
      /\ DOMAIN m = DOMAIN rs
      /\ \A i \in DOMAIN rs :
           /\ m[i].cb = rs[i].cb
           /\ m[i].status = IF rs[i].cb = cb /\ rs[i].status \in {"WAIT"} THEN "EXEC" ELSE rs[i].status
  BY MarkRows DEF RowStatus
<1>4. PICK k \in DOMAIN rs : rs[k].cb = cb /\ rs[k].status = "WAIT"
  BY <1>1, LeftRows
<1>5. cb = Head(Pending(rs)) /\ Pending(m) = Tail(Pending(rs))
  BY <1>1, PendingNext
<1>6. Covered(rs, cs)
  BY DEF Covered
<1>7. PutInFront(controls', cb, cs) => Covered(m, controls')
  BY <1>6, PushCovered
<1>8. rows' = m
  BY <1>2
<1> HIDE DEF m
<1>9. m[k].status = "EXEC" /\ m[k].cb = cb /\ k \in DOMAIN m
  BY <1>3, <1>4
<1>10. \A i \in DOMAIN m : m[i].status # "FAIL" /\ (m[i].status = "EXEC" => m[i].cb = cb)
  BY <1>3
<1>11. Current(m) = cb
  <2>1. /\ \E i \in DOMAIN m : m[i].status = "EXEC"
        /\ \A i \in DOMAIN m : m[i].status = "EXEC" => m[i].cb = cb
    BY <1>9, <1>10
  <2>2. m \in Seq(Rows)
    BY <1>3
  <2>3. QED
    BY <2>1, <2>2, CurrentRow
<1>12. m # <<>> /\ ~HasFailed(m) /\ EachOnce(m)
  BY <1>3, <1>9, <1>10 DEF HasFailed, EachOnce
<1>13. NoneOutstanding(m, controls')
  BY <1>2, <1>7, <1>10 DEF NoneOutstanding
<1>14. Running(m, controls')
  <2>1. CASE controls' = cs
    BY <2>1 DEF Running, Quiet
  <2>2. CASE PutInFront(controls', cb, cs)
    <3>1. \A i \in DOMAIN controls' : Moves(controls'[i]) => i = 1
      BY <2>2, PushSingle
    <3>2. controls'[1].cb = cb
      BY <2>2, PushedControls DEF PutInFront
    <3>3. QED
      BY <1>9, <3>1, <3>2 DEF Running
  <2>3. QED
    BY <1>2, <2>1, <2>2
<1>15. QED
  BY <1>2, <1>5, <1>8, <1>11, <1>12, <1>13, <1>14

\* The state of StepPlan, for the rows rs and the record arch.
State(rs, arch) ==
  IF arch = "FINISH" THEN "finished"
  ELSE IF HasFailed(rs) THEN "failed"
  ELSE IF rs = <<>> THEN "ready" ELSE "running"

\* A step of StepPlan, in these terms.
LEMMA CarriedStep ==
  ASSUME \/ /\ Pending(rows') = Pending(rows) /\ Current(rows') = Current(rows)
            /\ State(rows', archived') = State(rows, archived)
         \/ /\ State(rows, archived) = "ready" /\ State(rows', archived') = "running"
            /\ \E p \in Plans :
                 p # <<>> /\ Current(rows') = Head(p) /\ Pending(rows') = Tail(p)
         \/ /\ State(rows, archived) = "running" /\ State(rows', archived') \in {"running", "failed"}
            /\ Current(rows) # "none" /\ Current(rows') = "none"
            /\ Pending(rows') = Pending(rows)
         \/ /\ State(rows, archived) = "running" /\ State(rows', archived') = "running"
            /\ Current(rows) = "none" /\ Pending(rows) # <<>>
            /\ Current(rows') = Head(Pending(rows)) /\ Pending(rows') = Tail(Pending(rows))
         \/ /\ State(rows, archived) = "running" /\ State(rows', archived') = "finished"
            /\ Current(rows) = "none" /\ Pending(rows) = <<>>
            /\ Current(rows') = "none" /\ Pending(rows') = <<>>
         \/ /\ State(rows, archived) = "failed" /\ State(rows', archived') = "failed"
            /\ Current(rows') = Current(rows) /\ Pending(rows') = <<>>
  PROVE  [Carried!Next]_(Carried!planVars)
<1> DEFINE pending == Cbs(Left(rows))
           current == IF Executing = <<>> THEN "none" ELSE Executing[1].cb
           state == IF archived = "FINISH" THEN "finished"
                    ELSE IF Failed THEN "failed"
                    ELSE IF rows = <<>> THEN "ready" ELSE "running"
<1>1. pending = Pending(rows) /\ current = Current(rows) /\ state = State(rows, archived)
  BY DEF Pending, Current, Busy, Executing, State, Failed, HasFailed, ToSet
<1>2. /\ pending' = Pending(rows') /\ current' = Current(rows')
      /\ state' = State(rows', archived')
  BY DEF Pending, Current, Busy, Executing, State, Failed, HasFailed, ToSet
<1>3. QED
  BY <1>1, <1>2
     DEF Carried!Next, Carried!Start, Carried!Succeed, Carried!Proceed, Carried!Finish, Carried!Fail,
         Carried!GiveUp, Carried!planVars

\* No step is carried out and none is left before the plan.
LEMMA NoRows == Pending(<<>>) = <<>> /\ Current(<<>>) = "none" /\ ~HasFailed(<<>>)
<1>1. <<>> \in Seq(Rows) /\ DOMAIN <<>> = {}
  OBVIOUS
<1>2. \A i \in DOMAIN <<>> : FALSE
  BY <1>1
<1>3. Left(<<>>) = <<>>
  BY <1>1, <1>2, PendingNone
<1>4. Pending(<<>>) = <<>>
  BY <1>1, <1>3, PendingNone
<1>5. Current(<<>>) = "none"
  BY <1>1, <1>2, CurrentRow
<1>6. QED
  BY <1>1, <1>4, <1>5 DEF HasFailed

LEMMA CarriedInitially ==
  ASSUME Init
  PROVE  Carried!Init
<1>1. rows = <<>> /\ archived = "no"
  BY DEF Init
<1>2. Pending(rows) = <<>> /\ Current(rows) = "none" /\ State(rows, archived) = "ready"
  BY <1>1, NoRows DEF State
<1>3. QED
  BY <1>2
     DEF Carried!Init, Pending, Current, Busy, Executing, State, Failed, HasFailed, ToSet

\* The step of a control that is under way is the one that is carried out.
LEMMA MoverRow ==
  ASSUME Typed, NoneIsNone, OneByOne, Carrying, after = "no",
         NEW i \in DOMAIN controls, Moves(controls[i])
  PROVE  /\ archived = "no" /\ rows # <<>> /\ ~HasFailed(rows)
         /\ State(rows, archived) = "running"
         /\ Current(rows) = controls[i].cb /\ Current(rows) # "none"
         /\ \E k \in DOMAIN rows : rows[k].cb = controls[i].cb /\ rows[k].status = "EXEC"
         /\ \A k \in DOMAIN rows : rows[k].status = "EXEC" => rows[k].cb = controls[i].cb
         /\ fault \notin {"GROUPED", "ISO", "RE_CALC", "INVALID_RECALC"}
<1>1. rows \in Seq(Rows) /\ controls \in Seq(Controls)
  BY TypedParts
<1>2. ~Quiet(controls) /\ Single(controls)
  BY DEF Quiet, OneByOne
<1>3. /\ \A k \in DOMAIN rows : rows[k].status # "FAIL"
      /\ Covered(rows, controls) /\ Running(rows, controls)
  BY <1>2 DEF Carrying, NoneOutstanding
<1>4. PICK k \in DOMAIN rows : rows[k].cb = controls[i].cb /\ rows[k].status = "EXEC"
  BY <1>3 DEF Running
<1>5. \A j \in DOMAIN rows : rows[j].status = "EXEC" => rows[j].cb = controls[i].cb
  BY <1>2, <1>3 DEF Covered, Single
<1>6. archived = "no" /\ rows # <<>> /\ ~HasFailed(rows)
  BY <1>2, <1>3, <1>4 DEF Carrying, Closed, HasFailed
<1>7. Current(rows) = controls[i].cb
  BY <1>1, <1>4, <1>5, CurrentRow
<1>8. controls[i].cb \in Breakers
  <2>1. controls[i] \in Controls
    BY <1>1
  <2>2. QED
    BY <2>1 DEF Controls
<1>9. fault \notin {"GROUPED", "ISO", "RE_CALC", "INVALID_RECALC"}
  BY <1>6 DEF Carrying, Replanned, Unstarted
<1>10. QED
  BY <1>4, <1>5, <1>6, <1>7, <1>8, <1>9 DEF State, NoneIsNone

\* ControlSucceed and ControlFailed: the row of the control has succeeded or
\* has failed, and no other is being executed.
LEMMA StepDone ==
  ASSUME Typed, NoneIsNone, OneByOne, Carrying, after = "no",
         NEW i \in DOMAIN controls, Moves(controls[i]), NEW to \in {"OK", "FAIL"},
         rows' = Mark(rows, controls[i].cb, {"EXEC"}, to), archived' = archived
  PROVE  /\ [Carried!Next]_(Carried!planVars)
         /\ rows' # <<>> /\ EachOnce(rows')
         /\ \A k \in DOMAIN rows' : rows'[k].status # "EXEC"
         /\ HasFailed(rows') <=> to = "FAIL"
<1> DEFINE cb == controls[i].cb
           m == Mark(rows, cb, {"EXEC"}, to)
<1>1. rows \in Seq(Rows) /\ EachOnce(rows) /\ to \in RowStatus
  BY TypedParts DEF Carrying, RowStatus
<1>2. /\ archived = "no" /\ rows # <<>> /\ ~HasFailed(rows)
      /\ State(rows, archived) = "running" /\ Current(rows) # "none"
      /\ \E k \in DOMAIN rows : rows[k].cb = cb /\ rows[k].status = "EXEC"
      /\ \A k \in DOMAIN rows : rows[k].status = "EXEC" => rows[k].cb = cb
  BY MoverRow
<1>3. /\ m \in Seq(Rows)
      /\ DOMAIN m = DOMAIN rows
      /\ \A k \in DOMAIN rows :
           /\ m[k].cb = rows[k].cb
           /\ m[k].status = IF rows[k].cb = cb /\ rows[k].status \in {"EXEC"} THEN to ELSE rows[k].status
  BY <1>1, MarkRows
<1>4. Pending(m) = Pending(rows)
  BY <1>1, PendingKept
<1>5. rows' = m
  OBVIOUS
<1> HIDE DEF m, cb
<1>6. \A k \in DOMAIN m : m[k].status # "EXEC"
  BY <1>2, <1>3
<1>7. Current(m) = "none"
  BY <1>3, <1>6, CurrentRow
<1>8. HasFailed(m) <=> to = "FAIL"
  BY <1>2, <1>3 DEF HasFailed
<1>9. m # <<>> /\ EachOnce(m)
  BY <1>1, <1>2, <1>3 DEF EachOnce
<1>10. State(m, archived') \in {"running", "failed"}
  BY <1>2, <1>9 DEF State
<1>11. [Carried!Next]_(Carried!planVars)
  BY <1>2, <1>4, <1>5, <1>7, <1>10, CarriedStep
<1>12. QED
  BY <1>5, <1>6, <1>8, <1>9, <1>11

\* Deleting the rows that wait keeps the others, each once.
LEMMA WithoutKeeps ==
  ASSUME NEW rs \in Seq(Rows)
  PROVE  /\ EachOnce(rs) => EachOnce(WithoutWaiting(rs))
         /\ HasFailed(rs) => HasFailed(WithoutWaiting(rs))
<1> DEFINE K == {i \in DOMAIN rs : rs[i].status # "WAIT"}
           m == Cardinality(K)
           f == Numbered(K)
           w == Only(rs, K)
<1>1. WithoutWaiting(rs) = w
  BY DEF WithoutWaiting
<1>2. K \in SUBSET DOMAIN rs /\ \A i \in DOMAIN rs : rs[i].status # "WAIT" => i \in K
  OBVIOUS
<1> HIDE DEF K
<1>3. /\ w \in Seq(Rows)
      /\ DOMAIN w = 1..m
      /\ f \in [1..m -> K]
      /\ \A j \in 1..m : w[j] = rs[f[j]]
      /\ \A i, j \in 1..m : f[i] = f[j] => i = j
      /\ \A k \in K : \E j \in 1..m : f[j] = k
  BY <1>2, OnlyProperties
<1> HIDE DEF m, f, w
<1>4. ASSUME EachOnce(rs), NEW i \in 1..m, NEW j \in 1..m, w[i].cb = w[j].cb
      PROVE  i = j
  <2>1. f[i] \in DOMAIN rs /\ f[j] \in DOMAIN rs /\ rs[f[i]].cb = rs[f[j]].cb
    BY <1>2, <1>3, <1>4
  <2>2. f[i] = f[j]
    BY <1>4, <2>1 DEF EachOnce
  <2>3. QED
    BY <1>3, <2>2
<1>5. ASSUME NEW k \in DOMAIN rs, rs[k].status = "FAIL"
      PROVE  \E j \in DOMAIN w : w[j].status = "FAIL"
  <2>1. k \in K
    BY <1>2, <1>5
  <2>2. PICK j \in 1..m : f[j] = k
    BY <1>3, <2>1
  <2>3. QED
    BY <1>3, <1>5, <2>2
<1>6. QED
  BY <1>1, <1>3, <1>4, <1>5 DEF EachOnce, HasFailed

\* FormFdirStep and the first command: the plan starts, if it has a step.
LEMMA CarryingPlan ==
  ASSUME Typed, PlansOnce, Carrying, Undisturbed', FormFdirStep,
         fault \in {"GROUPED", "ISO"}, Quiet(controls), UNCHANGED <<archived, after>>
  PROVE  Carrying' /\ [Carried!Next]_(Carried!planVars)
<1>1. rows \in Seq(Rows) /\ controls \in Seq(Controls) /\ fault \in FaultSteps
  BY TypedParts
<1>2. rows = <<>> /\ archived = "no" /\ after = "no"
  BY DEF Carrying, Unstarted, Between
<1>3. PICK p \in Plans :
        \E rs \in Seq(Rows) :
          /\ rs = WithoutWaiting(rows) \o WaitingRows(p)
          /\ \/ /\ Left(rs) # <<>>
                /\ AddControlItem(Left(rs)[1].cb, rs, fault, controls)
             \/ /\ Left(rs) = <<>>
                /\ rows' = rs /\ fault' = "ISO" /\ controls' = controls
  BY <1>1, <1>2, PlanFormed
<1>4. PICK rs \in Seq(Rows) :
        /\ rs = WithoutWaiting(rows) \o WaitingRows(p)
        /\ \/ /\ Left(rs) # <<>>
              /\ AddControlItem(Left(rs)[1].cb, rs, fault, controls)
           \/ /\ Left(rs) = <<>>
              /\ rows' = rs /\ fault' = "ISO" /\ controls' = controls
  BY <1>3
<1>5. DOMAIN rs = DOMAIN p /\ \A i \in DOMAIN p : rs[i].cb = p[i] /\ rs[i].status = "WAIT"
  BY <1>1, <1>2, <1>4, FirstRows
<1>6. p \in Seq(Breakers)
  BY ExecutionAssumption
<1>7. Pending(rs) = p
  BY <1>5, <1>6, PendingPlan
<1>8. EachOnce(rs)
  BY <1>5 DEF PlansOnce, EachOnce
<1>9. State(rows, archived) = "ready"
  BY <1>2, NoRows DEF State
<1>10. CASE Left(rs) # <<>> /\ AddControlItem(Left(rs)[1].cb, rs, fault, controls)
  <2>1. \A i \in DOMAIN rs : rs[i].status \notin {"FAIL", "EXEC"}
    BY <1>5
  <2>2. /\ Current(rows') = Head(p) /\ Pending(rows') = Tail(p)
        /\ rows' # <<>> /\ ~HasFailed(rows') /\ EachOnce(rows')
        /\ NoneOutstanding(rows', controls') /\ Running(rows', controls')
        /\ fault' = "PROCESS"
    BY <1>1, <1>7, <1>8, <1>10, <2>1, SentFirst
  <2>3. p # <<>>
    BY <1>7, <1>10, PendingNone
  <2>4. State(rows', archived') = "running"
    BY <1>2, <2>2 DEF State
  <2>5. [Carried!Next]_(Carried!planVars)
    BY <1>9, <2>2, <2>3, <2>4, CarriedStep
  <2>6. Carrying'
    BY <1>2, <2>2 DEF Carrying, Unstarted, Closed, Between, Replanned
  <2>7. QED
    BY <2>5, <2>6
<1>11. CASE Left(rs) = <<>> /\ rows' = rs /\ fault' = "ISO" /\ controls' = controls
  <2>1. \A i \in DOMAIN rs : FALSE
    BY <1>5, <1>11, PendingNone
  <2>2. rs = <<>>
    BY <2>1
  <2>3. rows' = rows
    BY <1>2, <1>11, <2>2
  <2>4. Carrying'
    BY <1>11, <2>3, CarryingSame
  <2>5. QED
    BY <2>3, <2>4, CarriedStep
<1>12. QED
  BY <1>4, <1>10, <1>11

\* GROUPED and ISO.
LEMMA CarryingGroup ==
  ASSUME Typed, PlansOnce, OneByOne, Carrying, Undisturbed', VisitGrouped \/ VisitIso
  PROVE  Carrying' /\ [Carried!Next]_(Carried!planVars)
<1>1. fault \in {"GROUPED", "ISO"} /\ UNCHANGED <<archived, after>>
  BY DEF VisitGrouped, VisitIso, AtFault
<1>2. Quiet(controls)
  BY DEF VisitGrouped, VisitIso, AtFault, OneByOne, StillNone, Unplanned
<1>3. CASE FormFdirStep
  BY <1>1, <1>2, <1>3, CarryingPlan
<1>4. CASE /\ fault = "GROUPED" /\ fault' \in {"ISO", "none"}
           /\ UNCHANGED <<rows, controls>>
  <2>1. Carrying'
    BY <1>1, <1>2, <1>4, CarryingSame
  <2>2. QED
    BY <1>1, <1>4, <2>1, CarriedStep
<1>5. QED
  BY <1>3, <1>4 DEF VisitGrouped, VisitIso, AtFault

\* RE_CALC: the steps that were left are given up, or nothing happens.
LEMMA CarryingRecalc ==
  ASSUME Typed, Carrying, Undisturbed', VisitRecalc
  PROVE  Carrying' /\ [Carried!Next]_(Carried!planVars)
<1>1. rows \in Seq(Rows)
  BY TypedParts
<1>2. /\ rows' \in {rows, WithoutWaiting(rows)} /\ fault' = "none"
      /\ UNCHANGED <<controls, archived, after>>
      /\ fault \in {"RE_CALC", "INVALID_RECALC"}
  BY DEF VisitRecalc, AtFault
<1>3. HasFailed(rows) /\ EachOnce(rows) /\ \A i \in DOMAIN rows : rows[i].status # "EXEC"
  BY <1>2 DEF Carrying, Replanned
<1>4. Quiet(controls) /\ after = "no" /\ archived = "no"
  BY <1>3 DEF Carrying, NoneOutstanding, Between, Closed, HasFailed
<1>5. CASE rows' = rows
  <2>1. Carrying'
    BY <1>2, <1>4, <1>5, CarryingSame
  <2>2. QED
    BY <1>2, <1>5, <2>1, CarriedStep
<1>6. CASE rows' = WithoutWaiting(rows)
  <2> DEFINE w == WithoutWaiting(rows)
  <2>1. /\ w \in Seq(Rows)
        /\ \A j \in DOMAIN w : w[j].status # "WAIT" /\ w[j].status # "EXEC"
    BY <1>1, <1>3, WithoutRows
  <2>2. EachOnce(w) /\ HasFailed(w)
    BY <1>1, <1>3, WithoutKeeps
  <2>3. rows' = w
    BY <1>6
  <2> HIDE DEF w
  <2>4. Pending(w) = <<>> /\ Current(w) = "none" /\ Current(rows) = "none"
    BY <1>1, <1>3, <2>1, PendingNone, CurrentRow
  <2>5. State(w, archived) = "failed" /\ State(rows, archived) = "failed"
    BY <1>3, <1>4, <2>2 DEF State
  <2>6. [Carried!Next]_(Carried!planVars)
    BY <1>2, <2>3, <2>4, <2>5, CarriedStep
  <2>7. NoneOutstanding(w, controls) /\ Running(w, controls)
    BY <1>4 DEF NoneOutstanding, Running, Quiet
  <2>8. Carrying'
    BY <1>2, <1>4, <2>1, <2>2, <2>3, <2>7
       DEF Carrying, Unstarted, Closed, Between, Replanned
  <2>9. QED
    BY <2>6, <2>8
<1>7. QED
  BY <1>2, <1>5, <1>6

\* ControlSucceed: the step has been carried out.
LEMMA CarryingSucceed ==
  ASSUME Typed, NoneIsNone, OneByOne, Carrying, Undisturbed', VisitSucceed
  PROVE  Carrying' /\ [Carried!Next]_(Carried!planVars)
<1>1. /\ visit \in DOMAIN controls /\ after = "no" /\ Moves(controls[visit])
      /\ rows' = Mark(rows, controls[visit].cb, {"EXEC"}, "OK") /\ after' = "left"
      /\ UNCHANGED <<archived, fault, controls>>
  BY DEF VisitSucceed, AtControl, Moves, taskVars
<1>2. /\ [Carried!Next]_(Carried!planVars)
      /\ rows' # <<>> /\ EachOnce(rows')
      /\ \A k \in DOMAIN rows' : rows'[k].status # "EXEC"
      /\ ~HasFailed(rows')
  BY <1>1, StepDone
<1>3. archived = "no" /\ fault \notin {"GROUPED", "ISO", "RE_CALC", "INVALID_RECALC"}
  BY <1>1, MoverRow
<1>4. NoneOutstanding(rows', controls')
  BY <1>2 DEF NoneOutstanding, HasFailed, Covered
<1>5. Carrying'
  BY <1>1, <1>2, <1>3, <1>4
     DEF Carrying, Unstarted, Closed, Between, Replanned, HasFailed
<1>6. QED
  BY <1>2, <1>5

\* ControlFailed: the step has failed, or nothing was written.
LEMMA CarryingTimeout ==
  ASSUME Typed, NoneIsNone, OneByOne, Carrying, Undisturbed', VisitTimeout
  PROVE  Carrying' /\ [Carried!Next]_(Carried!planVars)
<1>1. /\ visit \in DOMAIN controls /\ after = "no" /\ Moves(controls[visit])
      /\ controls' = RemoveAt(controls, visit) /\ UNCHANGED <<archived, after>>
  BY DEF VisitTimeout, AtControl, Moves
<1>2. Quiet(controls')
  <2>1. controls \in Seq(Controls) /\ Single(controls)
    BY TypedParts DEF OneByOne
  <2>2. QED
    BY <1>1, <2>1, EraseSingle
<1>3. CASE /\ rows' = Mark(rows, controls[visit].cb, {"EXEC"}, "FAIL")
           /\ fault' = AfterFailure(controls[visit].cb)
  <2>1. /\ [Carried!Next]_(Carried!planVars)
        /\ rows' # <<>> /\ EachOnce(rows')
        /\ \A k \in DOMAIN rows' : rows'[k].status # "EXEC"
        /\ HasFailed(rows')
    BY <1>1, <1>3, StepDone
  <2>2. archived = "no" /\ fault \notin {"GROUPED", "ISO", "RE_CALC", "INVALID_RECALC"}
    BY <1>1, MoverRow
  <2>3. fault' \in {fault, "RE_CALC"}
    BY <1>3 DEF AfterFailure
  <2>4. NoneOutstanding(rows', controls') /\ Running(rows', controls')
    BY <1>2 DEF NoneOutstanding, Running, Quiet
  <2>5. Carrying'
    BY <1>1, <2>1, <2>2, <2>3, <2>4
       DEF Carrying, Unstarted, Closed, Between, Replanned
  <2>6. QED
    BY <2>1, <2>5
<1>4. CASE UNCHANGED <<rows, fault>>
  <2>1. Carrying'
    BY <1>1, <1>2, <1>4, CarryingSame
  <2>2. QED
    BY <1>1, <1>4, <2>1, CarriedStep
<1>5. QED
  BY <1>3, <1>4 DEF VisitTimeout

\* Between two steps: none is carried out, and the plan is running.
LEMMA BetweenSteps ==
  ASSUME Typed, OneByOne, Carrying, after # "no"
  PROVE  /\ rows \in Seq(Rows) /\ EachOnce(rows)
         /\ archived = "no" /\ ~HasFailed(rows)
         /\ \A i \in DOMAIN rows : rows[i].status \notin {"FAIL", "EXEC"}
         /\ State(rows, archived) = "running" /\ Current(rows) = "none"
         /\ fault \notin {"GROUPED", "ISO", "RE_CALC", "INVALID_RECALC"}
         /\ Finished \in Seq(Controls) /\ Quiet(Finished)
<1>1. rows \in Seq(Rows)
  BY TypedParts
<1>2. /\ rows # <<>> /\ \A i \in DOMAIN rows : rows[i].status \notin {"FAIL", "EXEC"}
      /\ EachOnce(rows)
  BY DEF Carrying, Between
<1>3. ~HasFailed(rows) /\ archived = "no" /\ fault \notin {"RE_CALC", "INVALID_RECALC"}
  BY <1>2 DEF Carrying, HasFailed, Closed, Replanned
<1>4. /\ Finished \in Seq(Controls) /\ Quiet(Finished)
      /\ visit \in DOMAIN controls /\ Moves(controls[visit])
  BY FinishedQuiet DEF OneByOne
<1>5. fault \notin {"GROUPED", "ISO"}
  BY <1>2 DEF Carrying, Unstarted
<1>6. Current(rows) = "none"
  BY <1>1, <1>2, CurrentRow
<1>7. QED
  BY <1>1, <1>2, <1>3, <1>4, <1>5, <1>6 DEF State

\* The next step is sent, or none is left, or the group goes on by hand.
LEMMA CarryingNextStep ==
  ASSUME Typed, LeftAlone, OneByOne, Carrying, Undisturbed', NextStep
  PROVE  Carrying' /\ [Carried!Next]_(Carried!planVars)
<1>1. after # "no" /\ archived' = archived
  BY DEF NextStep
<1>2. /\ rows \in Seq(Rows) /\ EachOnce(rows)
      /\ archived = "no" /\ ~HasFailed(rows)
      /\ \A i \in DOMAIN rows : rows[i].status \notin {"FAIL", "EXEC"}
      /\ State(rows, archived) = "running" /\ Current(rows) = "none"
      /\ fault \notin {"GROUPED", "ISO", "RE_CALC", "INVALID_RECALC"}
      /\ Finished \in Seq(Controls) /\ Quiet(Finished)
  BY <1>1, BetweenSteps
<1>3. CASE Left(rows) = <<>> /\ after' = "finish" /\ UNCHANGED <<rows, taskVars>>
  <2>1. controls' = controls /\ fault' = fault
    BY <1>3 DEF taskVars
  <2>2. SameMovers(controls, controls)
    BY DEF SameMovers
  <2>3. Carrying'
    BY <1>1, <1>3, <2>1, <2>2, CarryingSame
  <2>4. QED
    BY <1>1, <1>3, <2>3, CarriedStep
<1>4. CASE /\ Left(rows) # <<>> /\ fault # "none" /\ after' = "no"
           /\ AddControlItem(Left(rows)[1].cb, rows, fault, Finished)
  <2>1. fault \in FaultSteps
    BY TypedParts
  <2>2. /\ Current(rows') = Head(Pending(rows)) /\ Pending(rows') = Tail(Pending(rows))
        /\ rows' # <<>> /\ ~HasFailed(rows') /\ EachOnce(rows')
        /\ NoneOutstanding(rows', controls') /\ Running(rows', controls')
        /\ fault' = "PROCESS"
    BY <1>2, <1>4, <2>1, SentFirst
  <2>3. Pending(rows) # <<>>
    BY <1>2, <1>4, PendingNone
  <2>4. State(rows', archived') = "running"
    BY <1>1, <1>2, <2>2 DEF State
  <2>5. [Carried!Next]_(Carried!planVars)
    BY <1>2, <2>2, <2>3, <2>4, CarriedStep
  <2>6. Carrying'
    BY <1>1, <1>2, <1>4, <2>2 DEF Carrying, Unstarted, Closed, Between, Replanned
  <2>7. QED
    BY <2>5, <2>6
<1>5. CASE controls' = Finished /\ after' = "no" /\ UNCHANGED <<rows, fault>>
  <2>1. Carrying'
    BY <1>1, <1>2, <1>5, CarryingSame
  <2>2. QED
    BY <1>1, <1>5, <2>1, CarriedStep
<1>6. QED
  BY <1>3, <1>4, <1>5 DEF NextStep, LeftAlone

\* No step is left: the plan is finished.
LEMMA CarryingFinish ==
  ASSUME Typed, OneByOne, Carrying, Undisturbed', FinishGroup
  PROVE  Carrying' /\ [Carried!Next]_(Carried!planVars)
<1>1. /\ after = "finish" /\ after' = "no"
      /\ rows' = <<>> /\ archived' = "FINISH" /\ fault' = "none" /\ controls' = Finished
  BY DEF FinishGroup, Archive, RemoveTasks
<1>2. /\ rows \in Seq(Rows)
      /\ State(rows, archived) = "running" /\ Current(rows) = "none"
      /\ Quiet(Finished)
  BY <1>1, BetweenSteps
<1>3. Pending(rows) = <<>>
  BY <1>1, <1>2, PendingNone DEF Carrying, Between
<1>4. Pending(rows') = <<>> /\ Current(rows') = "none" /\ State(rows', archived') = "finished"
  BY <1>1, NoRows DEF State
<1>5. [Carried!Next]_(Carried!planVars)
  BY <1>2, <1>3, <1>4, CarriedStep
<1>6. NoneOutstanding(rows', controls') /\ Running(rows', controls')
  BY <1>1, <1>2 DEF NoneOutstanding, Running, Quiet
<1>7. EachOnce(rows') /\ ~HasFailed(rows')
  BY <1>1 DEF EachOnce, HasFailed
<1>8. Carrying'
  BY <1>1, <1>2, <1>6, <1>7 DEF Carrying, Unstarted, Closed, Between, Replanned
<1>9. QED
  BY <1>5, <1>8

\* A control whose task is edited, but not its breaker, nor whether it is
\* under way.
LEMMA SameMoversKept ==
  ASSUME NEW new, NEW old, DOMAIN new = DOMAIN old,
         \A i \in DOMAIN old : new[i].cb = old[i].cb /\ (Moves(new[i]) <=> Moves(old[i]))
  PROVE  SameMovers(new, old) /\ (Quiet(old) => Quiet(new))
BY DEF SameMovers, Quiet

\* The steps of the pass.
LEMMA CarryingPass ==
  ASSUME Typed, LeftAlone, PlansOnce, NoneIsNone, OneByOne, Carrying, Process
  PROVE  Carrying' /\ [Carried!Next]_(Carried!planVars)
<1>1. controls \in Seq(Controls)
  BY TypedParts
<1>2. Undisturbed'
  <2>1. todo' = todo
    BY DEF Process, BeginPass, EndPass, VisitGrouped, VisitIso, VisitFault, VisitRecalc, VisitWait,
           VisitStay, VisitOver, VisitTimeout, VisitSucceed, NextStep, FinishGroup
  <2>2. QED
    BY <2>1 DEF Carrying, Undisturbed
<1>3. CASE BeginPass \/ EndPass \/ VisitFault \/ VisitStay
  <2>1. UNCHANGED <<rows, archived, after, controls, fault>>
    BY <1>3 DEF BeginPass, EndPass, VisitFault, VisitStay, taskVars
  <2>2. SameMovers(controls, controls)
    BY DEF SameMovers
  <2>3. Carrying'
    BY <1>2, <2>1, <2>2, CarryingSame
  <2>4. QED
    BY <2>1, <2>3, CarriedStep
<1>4. CASE VisitWait
  <2> DEFINE cs == [controls EXCEPT ![visit].status = "RUN"]
  <2>1. /\ visit \in DOMAIN controls /\ controls[visit].status = "WAIT"
        /\ controls' = cs /\ UNCHANGED <<rows, archived, after, fault>>
    BY <1>4 DEF VisitWait, AtControl
  <2>2. /\ DOMAIN cs = DOMAIN controls
        /\ \A j \in DOMAIN controls : cs[j].cb = controls[j].cb /\ (j # visit => cs[j] = controls[j])
    BY <1>1, <2>1, TurnedControls
  <2>3. cs[visit].status = "RUN"
    BY <1>1, <2>1, TurnedControls
  <2> HIDE DEF cs
  <2>4. \A j \in DOMAIN controls : Moves(cs[j]) <=> Moves(controls[j])
    BY <2>1, <2>2, <2>3 DEF Moves
  <2>5. SameMovers(cs, controls) /\ (Quiet(controls) => Quiet(cs))
    BY <2>2, <2>4, SameMoversKept
  <2>6. Carrying'
    BY <1>2, <2>1, <2>5, CarryingSame
  <2>7. QED
    BY <2>1, <2>6, CarriedStep
<1>5. CASE VisitOver
  <2> DEFINE cs == RemoveAt(controls, visit)
  <2>1. /\ visit \in DOMAIN controls /\ ~Moves(controls[visit])
        /\ controls' = cs /\ UNCHANGED <<rows, archived, after, fault>>
    BY <1>5 DEF VisitOver, AtControl, Moves
  <2>2. /\ \A j \in DOMAIN cs : \E k \in DOMAIN controls \ {visit} : cs[j] = controls[k]
        /\ \A k \in DOMAIN controls \ {visit} : \E j \in DOMAIN cs : cs[j] = controls[k]
    BY <1>1, <2>1, ErasedControls
  <2>3. Quiet(controls) => Quiet(cs)
    BY <1>1, <2>1, EraseSingle DEF OneByOne
  <2> HIDE DEF cs
  <2>4. SameMovers(cs, controls)
    BY <2>1, <2>2 DEF SameMovers
  <2>5. Carrying'
    BY <1>2, <2>1, <2>3, <2>4, CarryingSame
  <2>6. QED
    BY <2>1, <2>5, CarriedStep
<1>6. QED
  BY <1>2, <1>3, <1>4, <1>5, CarryingGroup, CarryingRecalc, CarryingSucceed, CarryingTimeout,
     CarryingNextStep, CarryingFinish DEF Process

LEMMA CarryingInductive ==
  ASSUME Typed, LeftAlone, PlansOnce, NoneIsNone, OneByOne, Carrying, [Next]_vars
  PROVE  Carrying' /\ [Carried!Next]_(Carried!planVars)
<1>1. controls \in Seq(Controls) /\ Undisturbed /\ Clients \subseteq Threads
  BY TypedParts DEF Carrying, Threads
<1>2. CASE Restart
  <2>1. /\ controls' = <<>> /\ fault' = "none" /\ after' = "no"
        /\ todo' = [t \in Threads |-> Idle] /\ UNCHANGED <<rows, archived>>
    BY <1>2 DEF Restart
  <2>2. Quiet(controls') /\ Undisturbed'
    BY <2>1 DEF Quiet, Undisturbed
  <2>3. Carrying'
    BY <2>1, <2>2, CarryingSame
  <2>4. QED
    BY <2>1, <2>3, CarriedStep
<1>3. ASSUME NEW i \in 1..Len(controls), Age(i)
      PROVE  Carrying' /\ [Carried!Next]_(Carried!planVars)
  <2> DEFINE cs == [controls EXCEPT ![i].late = TRUE]
  <2>1. /\ i \in DOMAIN controls /\ controls' = cs
        /\ UNCHANGED <<rows, archived, after, fault, todo>>
    BY <1>3 DEF Age
  <2>2. /\ DOMAIN cs = DOMAIN controls
        /\ \A j \in DOMAIN controls : cs[j].cb = controls[j].cb /\ cs[j].status = controls[j].status
    BY <1>1, <2>1, AgedControls
  <2> HIDE DEF cs
  <2>3. SameMovers(cs, controls) /\ (Quiet(controls) => Quiet(cs))
    BY <2>2, SameMoversKept DEF Moves
  <2>4. Undisturbed'
    BY <1>1, <2>1 DEF Undisturbed
  <2>5. Carrying'
    BY <2>1, <2>3, <2>4, CarryingSame
  <2>6. QED
    BY <2>1, <2>5, CarriedStep
<1>4. ASSUME NEW c \in Clients, Request(c) \/ Handle(c)
      PROVE  FALSE
  <2>1. todo[c].op = "idle"
    BY <1>1 DEF Undisturbed, Idle
  <2>2. ~Handle(c)
    BY <2>1 DEF Handle, StopRemoves, PassLeft, PassFinishes, PlanInserts, ControlReturns, RecalcMarks
  <2>3. ~Request(c)
    BY DEF Request, SetAuto, Stop, Finish, Pass, Plan, Control, Recalc, Starts, LeftAlone
  <2>4. QED
    BY <1>4, <2>2, <2>3
<1>5. ~Evict /\ ~EvictArchives
  <2>1. todo["alarm"].op = "idle"
    BY <1>1 DEF Undisturbed, Idle, Threads
  <2>2. QED
    BY <2>1 DEF Evict, EvictArchives, LeftAlone
<1>6. CASE UNCHANGED vars
  <2>1. UNCHANGED <<rows, archived, after, fault, todo, controls>>
    BY <1>6 DEF vars, taskVars
  <2>2. SameMovers(controls, controls) /\ Undisturbed'
    BY <1>1, <2>1 DEF SameMovers, Undisturbed
  <2>3. Carrying'
    BY <2>1, <2>2, CarryingSame
  <2>4. QED
    BY <2>1, <2>3, CarriedStep
<1>7. QED
  BY <1>2, <1>3, <1>4, <1>5, <1>6, CarryingPass DEF Next

\* Left to itself the server carries the plan of a group out step by step, as
\* StepPlan says: every plan, of any length, each of whose steps operates a
\* breaker of its own; also when it exits and is started again at any point,
\* and when a breaker or a failed control cannot be read.  A step that has
\* failed ends the plan, and the group is finished only when every step has
\* succeeded.
THEOREM ServerImplementsPlan ==
  ASSUME LeftAlone, PlansOnce, NoneIsNone
  PROVE  Spec => PlanCarriedOut
<1>1. NothingLoads
  BY DEF NothingLoads, LeftAlone
<1>2. Init => (Typed /\ OneByOne /\ Carrying) /\ Carried!Init
  BY TypedInitially, OneByOneInitially, CarryingInitially, CarriedInitially
<1>3. Typed /\ OneByOne /\ Carrying /\ [Next]_vars =>
        (Typed /\ OneByOne /\ Carrying)' /\ [Carried!Next]_(Carried!planVars)
  BY <1>1, TypedInductive, OneByOneInductive, CarryingInductive
<1>4. QED
  BY <1>2, <1>3, PTL DEF Spec, PlanCarriedOut, Carried!Spec
=============================================================================
