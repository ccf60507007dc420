---------------------------- MODULE NetworkProofs ----------------------------
(***************************************************************************)
(* The positions between the tables of the network model and what a pass   *)
(* lists, for every content of the real-time database.                     *)
(***************************************************************************)
EXTENDS NetworkInvariants, FiniteSetTheorems, FunctionTheorems, SequenceTheorems, TLAPS

-----------------------------------------------------------------------------
(* Orders and lists.                                                       *)

\* In a finite set that is strictly ordered the number of elements below one
\* is its position, counted from 0 (Sequence() numbers the rows of a table so).
LEMMA Ranking ==
  ASSUME NEW S, IsFiniteSet(S), NEW R, Orders(R, S)
  PROVE  /\ Cardinality(S) \in Nat
         /\ \A x \in S : IsFiniteSet(Below(R, S, x)) /\ Cardinality(Below(R, S, x)) \in Nat
                         /\ Cardinality(Below(R, S, x)) < Cardinality(S)
         /\ \A x, y \in S : <<x, y>> \in R <=> Cardinality(Below(R, S, x)) < Cardinality(Below(R, S, y))
         /\ \A x, y \in S : Cardinality(Below(R, S, x)) = Cardinality(Below(R, S, y)) => x = y
         /\ \A k \in 0 .. (Cardinality(S) - 1) : \E x \in S : Cardinality(Below(R, S, x)) = k
<1> DEFINE n == Cardinality(S)
           rank(x) == Cardinality(Below(R, S, x))
           f == [x \in S |-> rank(x)]
<1>1. n \in Nat
  BY FS_CardinalityType
<1>2. ASSUME NEW x \in S
      PROVE  IsFiniteSet(Below(R, S, x)) /\ rank(x) \in Nat /\ rank(x) < n
  <2>1. Below(R, S, x) \in SUBSET S /\ x \notin Below(R, S, x)
    BY DEF Below, Orders
  <2>2. IsFiniteSet(Below(R, S, x)) /\ rank(x) \in Nat /\ rank(x) <= n /\ rank(x) # n
    BY <2>1, FS_Subset, FS_CardinalityType
  <2> HIDE DEF rank, n
  <2>3. QED
    BY <2>2, <1>1
<1>3. ASSUME NEW x \in S, NEW y \in S, <<x, y>> \in R
      PROVE  rank(x) < rank(y)
  <2>1. Below(R, S, x) \in SUBSET Below(R, S, y)
    BY <1>3 DEF Below, Orders
  <2>2. x \in Below(R, S, y) /\ x \notin Below(R, S, x)
    BY <1>3 DEF Below, Orders
  <2>3. rank(x) <= rank(y) /\ rank(x) # rank(y)
    BY <2>1, <2>2, <1>2, FS_Subset
  <2>4. rank(x) \in Nat /\ rank(y) \in Nat
    BY <1>2
  <2> HIDE DEF rank
  <2>5. QED
    BY <2>3, <2>4
<1>4. \A x \in S : rank(x) \in Nat /\ rank(x) < n
  BY <1>2
<1>a. \A x, y \in S : <<x, y>> \in R => rank(x) < rank(y)
  BY <1>3
<1>b. \A x, y \in S : x = y \/ <<x, y>> \in R \/ <<y, x>> \in R
  BY DEF Orders
<1> HIDE DEF rank, n
<1>c. ASSUME NEW x \in S, NEW y \in S
      PROVE  (rank(x) = rank(y) => x = y) /\ (rank(x) < rank(y) => <<x, y>> \in R)
  <2>1. rank(x) \in Nat /\ rank(y) \in Nat
    BY <1>4
  <2>2. /\ <<x, y>> \in R => rank(x) < rank(y)
        /\ <<y, x>> \in R => rank(y) < rank(x)
        /\ x = y \/ <<x, y>> \in R \/ <<y, x>> \in R
    BY <1>a, <1>b
  <2>3. QED
    BY <2>1, <2>2
<1>5. \A x, y \in S : rank(x) = rank(y) => x = y
  BY <1>c
<1>6. \A x, y \in S : rank(x) < rank(y) => <<x, y>> \in R
  BY <1>c
<1>7. \A k \in 0 .. (n - 1) : \E x \in S : rank(x) = k
  <2>1. f \in Injection(S, 0 .. (n - 1))
    <3>1. f \in [S -> 0 .. (n - 1)]
      BY <1>1, <1>4
    <3>2. QED
      BY <3>1, <1>5, Fun_IsInj
  <2>2. IsFiniteSet(0 .. (n - 1)) /\ Cardinality(0 .. (n - 1)) = n
    BY <1>1, FS_Interval
  <2>3. f \in Surjection(S, 0 .. (n - 1))
    BY <2>1, <2>2, FS_Injection DEF n
  <2> HIDE DEF f
  <2>4. \A k \in 0 .. (n - 1) : \E x \in S : f[x] = k
    BY <2>3, Fun_SurjectionProperties
  <2>5. QED
    BY <2>4 DEF f
<1>8. \A x \in S : IsFiniteSet(Below(R, S, x))
  BY <1>2
<1>9. QED
  BY <1>1, <1>3, <1>4, <1>5, <1>6, <1>7, <1>8 DEF rank, n

\* The elements of a finite set in their order, each once (Ordered).
LEMMA OrderedList ==
  ASSUME NEW S, IsFiniteSet(S), NEW R, Orders(R, S)
  PROVE  LET n == Cardinality(S)
             list == [k \in 1..n |-> CHOOSE x \in S : Cardinality(Below(R, S, x)) = k - 1]
         IN  /\ n \in Nat
             /\ list \in [1..n -> S]
             /\ \A x \in S : \E k \in 1..n : list[k] = x
             /\ \A k, l \in 1..n : k < l <=> <<list[k], list[l]>> \in R
             /\ \A k, l \in 1..n : list[k] = list[l] => k = l
<1> DEFINE n == Cardinality(S)
           rank(x) == Cardinality(Below(R, S, x))
           nth(k) == CHOOSE x \in S : rank(x) = k - 1
<1>1. /\ n \in Nat
      /\ \A x \in S : rank(x) \in Nat /\ rank(x) < n
      /\ \A x, y \in S : <<x, y>> \in R <=> rank(x) < rank(y)
      /\ \A x, y \in S : rank(x) = rank(y) => x = y
      /\ \A k \in 0 .. (n - 1) : \E x \in S : rank(x) = k
  BY Ranking
<1> HIDE DEF rank, n
<1>2. ASSUME NEW k \in 1..n
      PROVE  nth(k) \in S /\ rank(nth(k)) = k - 1
  <2>1. k - 1 \in 0 .. (n - 1)
    BY <1>1
  <2>2. QED
    BY <2>1, <1>1
<1>3. \A k \in 1..n : nth(k) \in S /\ rank(nth(k)) = k - 1
  BY <1>2
<1> HIDE DEF nth
<1>4. \A x \in S : \E k \in 1..n : nth(k) = x
  <2> TAKE x \in S
  <2>1. rank(x) + 1 \in 1..n /\ rank(nth(rank(x) + 1)) = rank(x) /\ nth(rank(x) + 1) \in S
    BY <1>1, <1>3
  <2>2. QED
    BY <2>1, <1>1
<1>5. \A k, l \in 1..n : k < l <=> <<nth(k), nth(l)>> \in R
  BY <1>1, <1>3
<1>6. \A k, l \in 1..n : nth(k) = nth(l) => k = l
  BY <1>1, <1>3
<1>7. [k \in 1..n |-> nth(k)] \in [1..n -> S]
  BY <1>3
<1>8. QED
  BY <1>1, <1>4, <1>5, <1>6, <1>7 DEF nth, rank, n

LEMMA SeqIsList ==
  ASSUME NEW S, NEW s \in Seq(S)
  PROVE  IsList(s)
BY LenProperties DEF IsList

LEMMA ListIsSeq ==
  ASSUME NEW s, IsList(s)
  PROVE  s \in Seq({s[i] : i \in DOMAIN s})
<1> DEFINE S == {s[i] : i \in DOMAIN s}
           n == Len(s)
<1>1. n \in Nat /\ s = [i \in 1..n |-> s[i]] /\ DOMAIN s = 1..n
  BY DEF IsList
<1> HIDE DEF n
<1>2. s \in [1..n -> S]
  BY <1>1
<1>3. QED
  BY <1>1, <1>2 DEF Seq

\* A function on the first n numbers is a list of that length.
LEMMA FunctionList ==
  ASSUME NEW n \in Nat, NEW f, f = [i \in 1..n |-> f[i]]
  PROVE  IsList(f) /\ Len(f) = n /\ DOMAIN f = 1..n
<1> DEFINE S == {f[i] : i \in 1..n}
<1>1. f \in [1..n -> S]
  OBVIOUS
<1>2. f \in Seq(S)
  BY <1>1 DEF Seq
<1>3. Len(f) = n
  BY <1>1, <1>2, LenProperties
<1>4. QED
  BY <1>2, <1>3, SeqIsList, LenProperties

LEMMA AppendList ==
  ASSUME NEW s, IsList(s), NEW x
  PROVE  LET n == Len(s)
             t == Append(s, x)
         IN  /\ IsList(t) /\ Len(t) = n + 1 /\ DOMAIN t = 1 .. (n + 1)
             /\ \A i \in 1..n : t[i] = s[i]
             /\ t[n + 1] = x
<1> DEFINE S == {s[i] : i \in DOMAIN s} \cup {x}
<1>1. s \in Seq({s[i] : i \in DOMAIN s}) /\ Len(s) \in Nat
  BY ListIsSeq DEF IsList
<1>2. s \in Seq(S)
  BY <1>1
<1>3. x \in S
  OBVIOUS
<1>4. /\ Append(s, x) \in Seq(S) /\ Len(Append(s, x)) = Len(s) + 1
      /\ \A i \in 1..Len(s) : Append(s, x)[i] = s[i]
      /\ Append(s, x)[Len(s) + 1] = x
  BY <1>2, <1>3, AppendProperties
<1>5. IsList(Append(s, x))
  BY <1>4, SeqIsList
<1>6. QED
  BY <1>4, <1>5, <1>1 DEF IsList

LEMMA ConcatList ==
  ASSUME NEW s, IsList(s), NEW t, IsList(t)
  PROVE  /\ IsList(s \o t) /\ Len(s \o t) = Len(s) + Len(t)
         /\ \A i \in DOMAIN (s \o t) :
               (s \o t)[i] \in {s[j] : j \in DOMAIN s} \cup {t[j] : j \in DOMAIN t}
         /\ Len(s) = 0 => s \o t = t
<1> DEFINE S == {s[j] : j \in DOMAIN s} \cup {t[j] : j \in DOMAIN t}
<1>0. s \in Seq({s[j] : j \in DOMAIN s}) /\ t \in Seq({t[j] : j \in DOMAIN t})
  BY ListIsSeq
<1>1. s \in Seq(S) /\ t \in Seq(S)
  <2>1. {s[j] : j \in DOMAIN s} \subseteq S /\ {t[j] : j \in DOMAIN t} \subseteq S
    OBVIOUS
  <2> HIDE DEF S
  <2>2. QED
    BY <1>0, <2>1, SeqMonotonic
<1>2. s \o t \in Seq(S) /\ Len(s \o t) = Len(s) + Len(t)
  BY <1>1, ConcatProperties
<1>3. IsList(s \o t) /\ \A i \in DOMAIN (s \o t) : (s \o t)[i] \in S
  BY <1>2, SeqIsList, LenProperties
<1>4. Len(s) = 0 => s \o t = t
  BY <1>1, EmptySeq, ConcatEmptySeq
<1>5. QED
  BY <1>2, <1>3, <1>4

LEMMA EmptyList ==
  /\ IsList(<<>>) /\ Len(<<>>) = 0 /\ DOMAIN <<>> = {}
  /\ \A s : IsList(s) => (s = <<>> <=> Len(s) = 0)
<1>1. <<>> \in Seq({}) /\ Len(<<>>) = 0
  BY EmptySeq
<1>2. ASSUME NEW s, IsList(s) PROVE s = <<>> <=> Len(s) = 0
  BY <1>2, ListIsSeq, EmptySeq
<1>3. IsList(<<>>) /\ DOMAIN <<>> = {}
  BY <1>1, SeqIsList, LenProperties DEF IsList
<1>4. QED
  BY <1>1, <1>2, <1>3

-----------------------------------------------------------------------------
(* The rows of each table.                                                 *)

LEMMA TableNames ==
  /\ Components \cap Relations = {} /\ Tables = Components \cup Relations
  /\ DOMAIN PtrNames = Components /\ DOMAIN FieldNames = Components
  /\ DOMAIN Copied = Components /\ DOMAIN Written = Components
  /\ DOMAIN Conversions = Tables
  /\ "nd" \in Components /\ "zn" \in Components
BY DEF Components, Relations, Tables, PtrNames, FieldNames, Copied, Written, Conversions

\* What a table's rows copy, and what the database stores of them.
LEMMA RowNames ==
  ASSUME NEW t \in Components
  PROVE  /\ Ptrs(t) = PtrNames[t] /\ Fields(t) = FieldNames[t]
         /\ "ptr" \in Fields(t) /\ "id" \in Keys(t)
         /\ Fields(t) \ {"ptr"} \subseteq Copied[t] /\ Ptrs(t) \subseteq Copied[t]
         /\ Keys(t) \subseteq Written[t] /\ Ptrs(t) \subseteq Written[t]
<1>1. t \notin Relations
  BY TableNames
<1>2. CASE t \in {"co", "st", "cb", "switch"}
  BY <1>1, <1>2 DEF Ptrs, Fields, Keys, PtrNames, FieldNames, Copied, Written, CO_Copied, ST_Copied, CB_Copied,
     SWITCH_Copied, DMS_CO, DMS_ST, DMS_CB, DMS_SWITCH
<1>3. CASE t \in {"so", "ld", "cp", "bus"}
  BY <1>1, <1>3 DEF Ptrs, Fields, Keys, PtrNames, FieldNames, Copied, Written, SO_Copied, LD_Copied, CP_Copied,
     BUS_Copied, DMS_SO, DMS_LD, DMS_CP, DMS_BUS
<1>4. CASE t \in {"zn", "sec", "nd", "fi"}
  BY <1>1, <1>4 DEF Ptrs, Fields, Keys, PtrNames, FieldNames, Copied, Written, ZN_Copied, SEC_Copied, ND_Copied,
     FI_Copied, DMS_ZN, DMS_SEC, DMS_ND, DMS_FI
<1>5. QED
  BY <1>2, <1>3, <1>4 DEF Components

LEMMA RelationNames ==
  ASSUME NEW r \in Relations
  PROVE  /\ Ptrs(r) = {"parptr", "chiptr", "fptr", "bptr"} /\ Fields(r) = {"par", "chi", "ptr"}
         /\ Keys(r) = {"par", "chi"}
         /\ RelationCopied = {"par", "chi"} \cup Ptrs(r) /\ DMS_Relation = {"par", "chi"} \cup Ptrs(r)
BY DEF Ptrs, Fields, Keys, RelationCopied, DMS_Relation

\* Copying a row member by member gives the row (operator=).
LEMMA AssignIsCopy ==
  ASSUME NEW t \in Tables, NEW row, IsRow(t, row), NEW to
  PROVE  Assign(t, to, row) = row
<1> DEFINE fields == IF t \in Relations THEN RelationCopied ELSE Copied[t]
<1>1. Fields(t) \ {"ptr"} \subseteq fields /\ Ptrs(t) \subseteq fields
  <2>1. CASE t \in Relations
    BY <2>1, RelationNames
  <2>2. CASE t \in Components
    BY <2>2, RowNames, TableNames
  <2>3. QED
    BY <2>1, <2>2, TableNames
<1>2. row = [f \in Fields(t) |-> row[f]] /\ row.ptr = [p \in Ptrs(t) |-> row.ptr[p]]
  BY DEF IsRow
<1>3. DOMAIN row = Fields(t) /\ DOMAIN row.ptr = Ptrs(t)
  BY <1>2
<1> HIDE DEF fields
<1>4. Assigned(fields, to, row) = [f \in Fields(t) |-> row[f]]
  BY <1>1, <1>2, <1>3 DEF Assigned
<1>5. QED
  BY <1>4, <1>2 DEF Assign, fields

LEMMA InsertedIsCopy ==
  ASSUME NEW t \in Tables, NEW s, IsTable(t, s)
  PROVE  Inserted(t, s) = s
<1>1. \A i \in DOMAIN s : Assign(t, Blank(s[i]), s[i]) = s[i]
  BY AssignIsCopy DEF IsTable
<1>2. s = [i \in DOMAIN s |-> s[i]]
  BY DEF IsTable, IsList
<1>3. QED
  BY <1>1, <1>2 DEF Inserted

\* A row is inserted at the end of its table.
LEMMA InsertRow ==
  ASSUME NEW t \in Tables, NEW s, IsTable(t, s), NEW row, IsRow(t, row)
  PROVE  LET n == Len(s)
             u == Insert(t, s, row)
         IN  /\ IsTable(t, u) /\ n \in Nat /\ Len(u) = n + 1 /\ DOMAIN u = 1 .. (n + 1)
             /\ \A i \in DOMAIN s : i \in DOMAIN u /\ u[i] = s[i]
             /\ u[n + 1] = row
<1>1. Insert(t, s, row) = Append(s, row)
  BY AssignIsCopy DEF Insert
<1>2. IsList(s) /\ Len(s) \in Nat /\ DOMAIN s = 1..Len(s)
  BY DEF IsTable, IsList
<1>3. /\ IsList(Append(s, row)) /\ Len(Append(s, row)) = Len(s) + 1
      /\ DOMAIN Append(s, row) = 1 .. (Len(s) + 1)
      /\ \A i \in 1..Len(s) : Append(s, row)[i] = s[i]
      /\ Append(s, row)[Len(s) + 1] = row
  BY <1>2, AppendList
<1>4. \A i \in 1 .. (Len(s) + 1) : i \in 1..Len(s) \/ i = Len(s) + 1
  BY <1>2
<1>5. \A i \in DOMAIN Append(s, row) : IsRow(t, Append(s, row)[i])
  BY <1>2, <1>3, <1>4 DEF IsTable
<1>6. QED
  BY <1>1, <1>2, <1>3, <1>5 DEF IsTable

\* What the database stores of a row keeps its keys and its pointers.
LEMMA RecordKeeps ==
  ASSUME NEW t \in Tables, NEW row, IsRow(t, row)
  PROVE  /\ DOMAIN Record(t, row) = Fields(t)
         /\ SameKeys(t, row, Record(t, row))
         /\ Record(t, row).ptr = row.ptr
<1> DEFINE fields == IF t \in Relations THEN DMS_Relation ELSE Written[t]
           blank == [f \in DOMAIN row |-> IF f = "ptr" THEN ZeroPtrs(DOMAIN row.ptr) ELSE 0]
<1>1. Keys(t) \subseteq fields /\ Ptrs(t) \subseteq fields
  <2>1. CASE t \in Relations
    BY <2>1, RelationNames
  <2>2. CASE t \in Components
    BY <2>2, RowNames, TableNames
  <2>3. QED
    BY <2>1, <2>2, TableNames
<1>2. "ptr" \in Fields(t)
  BY RelationNames, RowNames, TableNames
<1>3. row = [f \in Fields(t) |-> row[f]] /\ row.ptr = [p \in Ptrs(t) |-> row.ptr[p]]
  BY DEF IsRow
<1>4. DOMAIN row = Fields(t) /\ DOMAIN row.ptr = Ptrs(t)
  BY <1>3
<1> HIDE DEF fields, blank
<1>5. Record(t, row) = Assigned(fields, blank, row)
  BY DEF Record, fields, blank
<1>6. [p \in DOMAIN row.ptr |-> IF p \in fields THEN row.ptr[p] ELSE blank.ptr[p]] = row.ptr
  BY <1>1, <1>3, <1>4
<1>7. Keys(t) \subseteq Fields(t) /\ "ptr" \notin Keys(t)
  BY DEF Keys
<1>8. QED
  BY <1>1, <1>2, <1>4, <1>5, <1>6, <1>7 DEF Assigned, SameKeys

-----------------------------------------------------------------------------
(* Where a pointer leads.                                                  *)

LEMMA ComponentConversions ==
  ASSUME NEW t \in Components, NEW f \in DOMAIN Conversions[t]
  PROVE  /\ f \in Ptrs(t) /\ f \notin {"parptr", "chiptr", "fptr", "bptr"}
         /\ f = "ind" => Conversions[t][f] = "nd" /\ "nd" \in Keys(t)
         /\ f = "iznd" => Conversions[t][f] = "nd" /\ "znd" \in Keys(t)
         /\ f \notin {"ind", "iznd"} => Conversions[t][f] \in Relations
         /\ t = "nd" => f \notin {"ind", "iznd"}
<1>1. t \notin Relations
  BY TableNames
<1>2. CASE t \in {"co", "st"}
  BY <1>1, <1>2 DEF Ptrs, Keys, Fields, PtrNames, FieldNames, Conversions, CO_RebuildPtr, ST_RebuildPtr, Relations
<1>3. CASE t \in {"cb", "switch", "so"}
  BY <1>1, <1>3 DEF Ptrs, Keys, Fields, PtrNames, FieldNames, Conversions, CB_RebuildPtr, SWITCH_RebuildPtr,
     SO_RebuildPtr, Relations
<1>4. CASE t \in {"ld", "cp", "bus", "fi"}
  BY <1>1, <1>4 DEF Ptrs, Keys, Fields, PtrNames, FieldNames, Conversions, LD_RebuildPtr, CP_RebuildPtr,
     BUS_RebuildPtr, FI_RebuildPtr, Relations
<1>5. CASE t \in {"zn", "sec", "nd"}
  BY <1>1, <1>5 DEF Ptrs, Keys, Fields, PtrNames, FieldNames, Conversions, ZN_RebuildPtr, SEC_RebuildPtr,
     ND_RebuildPtr, Relations
<1>6. QED
  BY <1>2, <1>3, <1>4, <1>5 DEF Components

LEMMA RelationConversions ==
  ASSUME NEW r \in Relations
  PROVE  /\ Conversions[r] = RelationPtr(r, RelationEnds[r][1], RelationEnds[r][2])
         /\ DOMAIN Conversions[r] = Ptrs(r)
         /\ Conversions[r]["parptr"] = RelationEnds[r][1] /\ Conversions[r]["chiptr"] = RelationEnds[r][2]
         /\ Conversions[r]["fptr"] = r /\ Conversions[r]["bptr"] = r
         /\ RelationEnds[r][1] \in Components /\ RelationEnds[r][2] \in Components
<1>1. CASE r \in {"r_co_st", "r_st_cb", "r_st_switch", "r_st_so", "r_st_ld", "r_st_cp"}
  BY <1>1 DEF Conversions, RelationEnds, RelationPtr, Components, Ptrs, R_CO_ST_RebuildPtr, R_ST_CB_RebuildPtr,
     R_ST_SWITCH_RebuildPtr, R_ST_SO_RebuildPtr, R_ST_LD_RebuildPtr, R_ST_CP_RebuildPtr
<1>2. CASE r \in {"r_st_bus", "r_st_zn", "r_zn_ld", "r_zn_sec", "r_zn_nd", "r_sec_fi"}
  BY <1>2 DEF Conversions, RelationEnds, RelationPtr, Components, Ptrs, R_ST_BUS_RebuildPtr, R_ST_ZN_RebuildPtr,
     R_ZN_LD_RebuildPtr, R_ZN_SEC_RebuildPtr, R_ZN_ND_RebuildPtr, R_SEC_FI_RebuildPtr
<1>3. CASE r \in {"r_nd_cb", "r_nd_switch", "r_nd_sec", "r_nd_cp", "r_nd_ld"}
  BY <1>3 DEF Conversions, RelationEnds, RelationPtr, Components, Ptrs, R_ND_CB_RebuildPtr,
     R_ND_SWITCH_RebuildPtr, R_ND_SEC_RebuildPtr, R_ND_CP_RebuildPtr, R_ND_LD_RebuildPtr
<1>4. QED
  BY <1>1, <1>2, <1>3 DEF Relations

LEMMA Targets ==
  ASSUME NEW t \in Tables, NEW f \in DOMAIN Conversions[t]
  PROVE  f \in Ptrs(t) /\ Conversions[t][f] \in Tables
<1>1. CASE t \in Relations
  BY <1>1, RelationNames, RelationConversions, TableNames
<1>2. CASE t \in Components
  <2>1. f \in {"ind", "iznd"} \/ f \notin {"ind", "iznd"}
    OBVIOUS
  <2>2. QED
    BY <1>2, <2>1, ComponentConversions, TableNames
<1>3. QED
  BY <1>1, <1>2, TableNames

LEMMA LeadsSame ==
  ASSUME NEW t \in Tables, NEW f \in DOMAIN Conversions[t],
         NEW a, NEW b, SameKeys(t, a, b),
         NEW to, NEW new, SameKeys(Conversions[t][f], to, new),
         Leads(t, f, a, to)
  PROVE  Conversions[t][f] \in Tables /\ Leads(t, f, b, new)
<1>1. CASE t \in Relations
  <2>1. f \in {"parptr", "chiptr", "fptr", "bptr"} /\ {"par", "chi"} = Keys(t)
    BY <1>1, RelationNames, RelationConversions
  <2>2. a.par = b.par /\ a.chi = b.chi
    BY <2>1 DEF SameKeys
  <2>3. CASE f \in {"parptr", "chiptr"}
    BY <1>1, <2>3, RelationConversions, RowNames, <2>2, TableNames DEF SameKeys, Leads
  <2>4. CASE f \in {"fptr", "bptr"}
    BY <1>1, <2>4, RelationConversions, <2>1, <2>2, TableNames DEF SameKeys, Leads
  <2>5. QED
    BY <2>1, <2>3, <2>4
<1>2. CASE t \in Components
  <2>0. t \notin Relations /\ t # "r_zn_nd" /\ f \notin {"parptr", "chiptr", "fptr", "bptr"}
    BY <1>2, ComponentConversions, TableNames DEF Relations
  <2>1. a.id = b.id
    BY <1>2, RowNames DEF SameKeys
  <2>2. CASE f \in {"ind", "iznd"}
    BY <1>2, <2>2, ComponentConversions, RowNames, TableNames, <2>0 DEF SameKeys, Leads
  <2>3. CASE f \notin {"ind", "iznd"}
    BY <1>2, <2>3, ComponentConversions, RelationNames, <2>0, <2>1, TableNames DEF SameKeys, Leads
  <2>4. QED
    BY <2>2, <2>3
<1>3. QED
  BY <1>1, <1>2, TableNames

-----------------------------------------------------------------------------
(* The rows of a relation.                                                 *)

LEMMA LeastElement ==
  ASSUME NEW S, IsFiniteSet(S), S # {}, NEW R, Orders(R, S)
  PROVE  \E x \in S : \A y \in S : <<y, x>> \notin R
<1>1. Cardinality(S) \in Nat /\ Cardinality(S) # 0
  BY FS_CardinalityType, FS_EmptySet
<1>2. 0 \in 0 .. (Cardinality(S) - 1)
  BY <1>1
<1>3. \A k \in 0 .. (Cardinality(S) - 1) : \E x \in S : Cardinality(Below(R, S, x)) = k
  BY Ranking
<1>4. PICK x \in S : Cardinality(Below(R, S, x)) = 0
  BY <1>2, <1>3
<1>5. IsFiniteSet(Below(R, S, x))
  BY Ranking
<1>6. Below(R, S, x) = {}
  BY <1>4, <1>5, FS_EmptySet
<1>7. QED
  BY <1>6 DEF Below

\* A set of positions that is not empty has a first and a last.
LEMMA Extremes ==
  ASSUME NEW n \in Nat, NEW K \in SUBSET (1..n), K # {}
  PROVE  /\ Min(K) \in K /\ \A k \in K : Min(K) <= k
         /\ Max(K) \in K /\ \A k \in K : k <= Max(K)
<1> DEFINE Up == {ab \in K \X K : ab[1] < ab[2]}
           Down == {ab \in K \X K : ab[2] < ab[1]}
<1>1. K \subseteq Nat
  OBVIOUS
<1>2. IsFiniteSet(K)
  <2>1. IsFiniteSet(1..n)
    BY FS_Interval
  <2>2. QED
    BY <2>1, FS_Subset
<1>3. Orders(Up, K)
  BY <1>1 DEF Orders
<1>4. Orders(Down, K)
  BY <1>1 DEF Orders
<1>5. \A x, y \in K : (<<y, x>> \in Up <=> y < x) /\ (<<y, x>> \in Down <=> x < y)
  OBVIOUS
<1> HIDE DEF Up, Down
<1>6. PICK a \in K : \A y \in K : <<y, a>> \notin Up
  BY <1>2, <1>3, LeastElement
<1>7. PICK b \in K : \A y \in K : <<y, b>> \notin Down
  BY <1>2, <1>4, LeastElement
<1>8. \A k \in K : a <= k /\ k <= b
  <2> TAKE k \in K
  <2>1. ~(k < a) /\ ~(b < k)
    BY <1>5, <1>6, <1>7
  <2>2. QED
    BY <2>1, <1>1
<1>9. /\ \E x \in K : \A k \in K : x <= k
      /\ \E x \in K : \A k \in K : k <= x
  BY <1>8
<1>10. QED
  BY <1>1, <1>9 DEF Min, Max

LEMMA LoopOrder ==
  ASSUME NEW m \in Nat, NEW n \in Nat, NEW M \in SUBSET ((1..m) \X (1..n))
  PROVE  /\ Pairing(Ordered(M, LAMBDA a, b : a[1] < b[1] \/ (a[1] = b[1] /\ a[2] < b[2])), M)
         /\ M = {} => DOMAIN Ordered(M, LAMBDA a, b : a[1] < b[1] \/ (a[1] = b[1] /\ a[2] < b[2])) = {}
<1> DEFINE R == {ab \in M \X M : InLoops(ab[1], ab[2])}
           N == Cardinality(M)
           list == [k \in 1..N |-> CHOOSE x \in M : Cardinality(Below(R, M, x)) = k - 1]
<1>1. IsFiniteSet(M)
  <2>1. IsFiniteSet(1..m) /\ IsFiniteSet(1..n)
    BY FS_Interval
  <2>2. IsFiniteSet((1..m) \X (1..n))
    BY <2>1, FS_Product
  <2>3. QED
    BY <2>2, FS_Subset
<1>2. Orders(R, M)
  <2>1. \A x \in M : x = <<x[1], x[2]>> /\ x[1] \in Nat /\ x[2] \in Nat
    OBVIOUS
  <2>2. \A x, y \in M : <<x, y>> \in R <=> InLoops(x, y)
    OBVIOUS
  <2>3. \A x, y \in M : x[1] = y[1] /\ x[2] = y[2] => x = y
    BY <2>1
  <2> HIDE DEF R
  <2>4. \A x \in M : <<x, x>> \notin R
    BY <2>1, <2>2 DEF InLoops
  <2>5. \A x, y, z \in M : <<x, y>> \in R /\ <<y, z>> \in R => <<x, z>> \in R
    BY <2>1, <2>2 DEF InLoops
  <2>6. ASSUME NEW x \in M, NEW y \in M PROVE x = y \/ <<x, y>> \in R \/ <<y, x>> \in R
    BY <2>1, <2>2, <2>3 DEF InLoops
  <2>7. QED
    BY <2>4, <2>5, <2>6 DEF Orders
<1>3. \A x \in M : Below(R, M, x) = {y \in M : InLoops(y, x)}
  BY DEF Below
<1>7. \A x, y \in M : <<x, y>> \in R <=> InLoops(x, y)
  OBVIOUS
<1> HIDE DEF R
<1>4. Ordered(M, LAMBDA a, b : a[1] < b[1] \/ (a[1] = b[1] /\ a[2] < b[2])) = list
  <2>1. \A x \in M : {y \in M : y[1] < x[1] \/ (y[1] = x[1] /\ y[2] < x[2])} = Below(R, M, x)
    BY <1>3 DEF InLoops
  <2> DEFINE met(k) == CHOOSE x \in M :
                         Cardinality({y \in M : y[1] < x[1] \/ (y[1] = x[1] /\ y[2] < x[2])}) = k - 1
             nth(k) == CHOOSE x \in M : Cardinality(Below(R, M, x)) = k - 1
  <2>2. Ordered(M, LAMBDA a, b : a[1] < b[1] \/ (a[1] = b[1] /\ a[2] < b[2])) = [k \in 1..N |-> met(k)]
    BY DEF Ordered
  <2>3. ASSUME NEW k PROVE met(k) = nth(k)
    BY <2>1
  <2>4. list = [k \in 1..N |-> nth(k)]
    OBVIOUS
  <2> HIDE DEF met, nth, list
  <2>5. QED
    BY <2>2, <2>3, <2>4
<1>5. /\ N \in Nat
      /\ list \in [1..N -> M]
      /\ \A x \in M : \E k \in 1..N : list[k] = x
      /\ \A k, l \in 1..N : k < l <=> <<list[k], list[l]>> \in R
      /\ \A k, l \in 1..N : list[k] = list[l] => k = l
  BY <1>1, <1>2, OrderedList
<1>6. M = {} => N = 0
  BY FS_EmptySet
<1> HIDE DEF list, N
<1>8. DOMAIN list = 1..N
  BY <1>5
<1>9. Pairing(list, M)
  BY <1>5, <1>7, <1>8 DEF Pairing
<1>10. QED
  BY <1>4, <1>5, <1>6, <1>8, <1>9

LEMMA SetPtrs ==
  ASSUME NEW t \in Tables, NEW s, IsTable(t, s), NEW f \in Ptrs(t), NEW q,
         NEW S, \A i \in DOMAIN s \ S : q[i] \in Nat
  PROVE  LET u == Pointed(s, S, f, q)
         IN  /\ IsTable(t, u) /\ DOMAIN u = DOMAIN s /\ Len(u) = Len(s)
             /\ \A i \in DOMAIN s :
                  /\ \A g \in Fields(t) \ {"ptr"} : u[i][g] = s[i][g]
                  /\ \A g \in Ptrs(t) \ {f} : u[i].ptr[g] = s[i].ptr[g]
                  /\ u[i].ptr[f] = IF i \in S THEN s[i].ptr[f] ELSE q[i]
<1> DEFINE u == [i \in DOMAIN s |-> IF i \in S THEN s[i] ELSE [s[i] EXCEPT !.ptr[f] = q[i]]]
<1>0. Pointed(s, S, f, q) = u
  BY DEF Pointed
<1>1. Len(s) \in Nat /\ DOMAIN s = 1..Len(s)
  BY DEF IsTable, IsList
<1>2. IsList(u) /\ Len(u) = Len(s) /\ DOMAIN u = DOMAIN s
  <2>1. u = [i \in 1..Len(s) |-> u[i]]
    BY <1>1
  <2> HIDE DEF u
  <2>2. QED
    BY <2>1, <1>1, FunctionList
<1>3. ASSUME NEW i \in DOMAIN s
      PROVE  /\ IsRow(t, u[i])
             /\ \A g \in Fields(t) \ {"ptr"} : u[i][g] = s[i][g]
             /\ \A g \in Ptrs(t) \ {f} : u[i].ptr[g] = s[i].ptr[g]
             /\ u[i].ptr[f] = IF i \in S THEN s[i].ptr[f] ELSE q[i]
  <2>1. IsRow(t, s[i])
    BY DEF IsTable
  <2>2. "ptr" \in Fields(t)
    BY RowNames, RelationNames, TableNames
  <2>3. CASE i \in S
    BY <2>1, <2>3
  <2>4. CASE i \notin S
    <3>1. u[i] = [s[i] EXCEPT !.ptr[f] = q[i]]
      BY <2>4
    <3> HIDE DEF u
    <3> DEFINE row == s[i]
               new == u[i]
    <3>2. /\ row = [g \in Fields(t) |-> row[g]]
          /\ row.ptr \in [Ptrs(t) -> Nat]
          /\ \A k \in Keys(t) \ {"pid", "stid"} : row[k] \in Nat
          /\ t = "zn" => /\ IsList(row.nds) /\ \A n \in DOMAIN row.nds : row.nds[n] \in Nat
                         /\ row.inds \in [DOMAIN row.nds -> Nat]
      BY <2>1 DEF IsRow
    <3>3. DOMAIN row = Fields(t) /\ q[i] \in Nat
      BY <2>4, <3>2
    <3>4. new = [row EXCEPT !.ptr = [row.ptr EXCEPT ![f] = q[i]]]
      BY <3>1
    <3> HIDE DEF row, new
    <3>5. /\ new = [g \in Fields(t) |-> new[g]]
          /\ new.ptr = [row.ptr EXCEPT ![f] = q[i]]
          /\ \A g \in Fields(t) \ {"ptr"} : new[g] = row[g]
      BY <3>2, <3>3, <3>4, <2>2
    <3>6. new.ptr \in [Ptrs(t) -> Nat] /\ new.ptr[f] = q[i] /\ \A g \in Ptrs(t) \ {f} : new.ptr[g] = row.ptr[g]
      BY <3>2, <3>3, <3>5
    <3>7. Keys(t) \subseteq Fields(t) \ {"ptr"} /\ (t = "zn" => {"nds", "inds"} \subseteq Fields(t) \ {"ptr"})
      BY RowNames, TableNames DEF Keys, FieldNames
    <3>8. IsRow(t, new)
      BY <3>2, <3>5, <3>6, <3>7 DEF IsRow
    <3>9. QED
      BY <2>4, <3>5, <3>6, <3>8 DEF row, new
  <2>5. QED
    BY <2>3, <2>4
<1>4. \A i \in DOMAIN u : IsRow(t, u[i])
  BY <1>2, <1>3
<1> HIDE DEF u
<1>5. QED
  BY <1>0, <1>2, <1>3, <1>4 DEF IsTable

LEMMA RelationRow ==
  ASSUME NEW r \in Relations, NEW par \in Nat, NEW chi \in Nat, NEW parptr \in Nat, NEW chiptr \in Nat,
         NEW fptr \in Nat, NEW bptr \in Nat
  PROVE  IsRow(r, Relation(par, chi, parptr, chiptr, fptr, bptr))
<1> DEFINE row == Relation(par, chi, parptr, chiptr, fptr, bptr)
<1>1. /\ Ptrs(r) = {"parptr", "chiptr", "fptr", "bptr"} /\ Fields(r) = {"par", "chi", "ptr"}
      /\ Keys(r) = {"par", "chi"} /\ r # "zn"
  BY RelationNames, TableNames
<1>2. row = [f \in {"par", "chi", "ptr"} |-> row[f]]
  BY DEF Relation
<1>3. row.ptr \in [{"parptr", "chiptr", "fptr", "bptr"} -> Nat]
  BY DEF Relation
<1>4. row.par \in Nat /\ row.chi \in Nat
  BY DEF Relation
<1> HIDE DEF row
<1>5. IsRow(r, row)
  BY <1>1, <1>2, <1>3, <1>4 DEF IsRow
<1>6. QED
  BY <1>5 DEF row

\* In the order of the loops the pairs of one parent follow each other.
LEMMA OneAfterAnother ==
  ASSUME NEW m \in Nat, NEW n \in Nat, NEW M \in SUBSET ((1..m) \X (1..n)), NEW pairs, Pairing(pairs, M)
  PROVE  /\ \A k \in DOMAIN pairs : k \in Nat /\ k # 0 /\ pairs[k][1] \in 1..m /\ pairs[k][2] \in 1..n
         /\ \A k, l \in DOMAIN pairs : k < l /\ pairs[k][1] = pairs[l][1] =>
              /\ k + 1 \in DOMAIN pairs /\ pairs[k + 1][1] = pairs[k][1]
              /\ l - 1 \in DOMAIN pairs /\ pairs[l - 1][1] = pairs[l][1]
<1>1. PICK N \in Nat : DOMAIN pairs = 1..N
  BY DEF Pairing
<1>2. \A k \in DOMAIN pairs : k \in Nat /\ k # 0 /\ pairs[k][1] \in 1..m /\ pairs[k][2] \in 1..n
  BY <1>1 DEF Pairing
<1>3. \A k, l \in DOMAIN pairs : k < l => pairs[k][1] <= pairs[l][1]
  <2> SUFFICES ASSUME NEW k \in DOMAIN pairs, NEW l \in DOMAIN pairs, k < l PROVE pairs[k][1] <= pairs[l][1]
    OBVIOUS
  <2>1. InLoops(pairs[k], pairs[l])
    BY DEF Pairing
  <2>2. pairs[k][1] \in Nat /\ pairs[l][1] \in Nat
    BY <1>2
  <2>3. QED
    BY <2>1, <2>2 DEF InLoops
<1>4. ASSUME NEW k \in DOMAIN pairs, NEW l \in DOMAIN pairs, k < l, pairs[k][1] = pairs[l][1]
      PROVE  /\ k + 1 \in DOMAIN pairs /\ pairs[k + 1][1] = pairs[k][1]
             /\ l - 1 \in DOMAIN pairs /\ pairs[l - 1][1] = pairs[l][1]
  <2>1. k \in 1..N /\ l \in 1..N
    BY <1>1
  <2>2. k + 1 \in 1..N /\ l - 1 \in 1..N /\ k < k + 1 /\ l - 1 < l
        /\ (k + 1 = l \/ k + 1 < l) /\ (l - 1 = k \/ k < l - 1)
    BY <2>1, <1>4
  <2>3. k + 1 \in DOMAIN pairs /\ l - 1 \in DOMAIN pairs
    BY <1>1, <2>2
  <2>4. pairs[k][1] \in Nat /\ pairs[l][1] \in Nat /\ pairs[k + 1][1] \in Nat /\ pairs[l - 1][1] \in Nat
    BY <1>2, <2>3
  <2>5. pairs[k][1] <= pairs[k + 1][1] /\ pairs[l - 1][1] <= pairs[l][1]
    BY <1>3, <2>2, <2>3
  <2>6. pairs[k + 1][1] <= pairs[l][1] /\ pairs[k][1] <= pairs[l - 1][1]
    BY <1>3, <2>2, <2>3, <2>4, <1>4
  <2>7. QED
    BY <2>3, <2>4, <2>5, <2>6, <1>4
<1>5. QED
  BY <1>2, <1>4

LEMMA RelatedRows ==
  ASSUME NEW D, Typed(D), NEW r \in Relations, NEW p \in Components, NEW c \in Components, p # c,
         NEW pf \in Ptrs(p), NEW cf \in Ptrs(c),
         NEW M \in SUBSET ((DOMAIN D[p]) \X (DOMAIN D[c]))
  PROVE  LET E == Related(D, r, p, pf, c, cf, M)
         IN  /\ Typed(E)
             /\ \A t \in Tables \ {r, p, c} : E[t] = D[t]
             /\ OnlyPtr(D, E, p, pf) /\ OnlyPtr(D, E, c, cf)
             /\ RelatedTo(D, E, r, p, c, M)
             /\ LedTo(D, E, r, p, pf, "parptr") /\ LedTo(D, E, r, c, cf, "chiptr")
             /\ M = {} => E[r] = <<>>
<1> DEFINE E == Related(D, r, p, pf, c, cf, M)
           pairs == Ordered(M, LAMBDA a, b : a[1] < b[1] \/ (a[1] = b[1] /\ a[2] < b[2]))
           K == DOMAIN pairs
           m == Len(D[p])
           n == Len(D[c])
           OfParent(i) == {k \in K : pairs[k][1] = i}
           OfChild(j) == {k \in K : pairs[k][2] = j}
           after(k) == IF k + 1 \in OfParent(pairs[k][1]) THEN k + 1 ELSE NoRow
           before(k) == IF k - 1 \in OfParent(pairs[k][1]) THEN k - 1 ELSE NoRow
           Row(k) == Relation(D[p][pairs[k][1]].id, D[c][pairs[k][2]].id, pairs[k][1], pairs[k][2],
                              after(k), before(k))
           s == [k \in K |-> Row(k)]
           parents == {i \in DOMAIN D[p] : OfParent(i) = {}}
           children == {j \in DOMAIN D[c] : OfChild(j) = {}}
           first == [i \in DOMAIN D[p] |-> Min(OfParent(i))]
           last == [j \in DOMAIN D[c] |-> Max(OfChild(j))]
           P == [i \in DOMAIN D[p] |-> IF i \in parents THEN D[p][i] ELSE [D[p][i] EXCEPT !.ptr[pf] = first[i]]]
           C == [j \in DOMAIN D[c] |-> IF j \in children THEN D[c][j] ELSE [D[c][j] EXCEPT !.ptr[cf] = last[j]]]
<1>1. r \in Tables /\ p \in Tables /\ c \in Tables /\ r # p /\ r # c
  BY TableNames
<1>2. m \in Nat /\ DOMAIN D[p] = 1..m /\ n \in Nat /\ DOMAIN D[c] = 1..n
  BY <1>1 DEF Typed, IsTable, IsList
<1> HIDE DEF m, n
<1>a. M \in SUBSET ((1..m) \X (1..n))
  <2>1. \A x \in M : x \in (1..m) \X (1..n)
    BY <1>2
  <2>2. QED
    BY <2>1
<1>3. Pairing(pairs, M) /\ (M = {} => K = {})
  BY <1>2, <1>a, LoopOrder
<1>4. E = [D EXCEPT ![r] = Inserted(r, s), ![p] = P, ![c] = C]
  <2>1. P = [i \in DOMAIN D[p] |-> IF OfParent(i) = {} THEN D[p][i] ELSE [D[p][i] EXCEPT !.ptr[pf] = Min(OfParent(i))]]
    OBVIOUS
  <2>2. C = [i \in DOMAIN D[c] |-> IF OfChild(i) = {} THEN D[c][i] ELSE [D[c][i] EXCEPT !.ptr[cf] = Max(OfChild(i))]]
    OBVIOUS
  <2> HIDE DEF P, C
  <2>3. QED
    BY <2>1, <2>2, <1>1 DEF Related, Typed
<1> HIDE DEF pairs
<1>5. PICK N \in Nat : K = 1..N
  BY <1>3 DEF Pairing
<1>6. \A k \in K : /\ k \in Nat /\ k # 0 /\ pairs[k] \in M
                   /\ pairs[k][1] \in DOMAIN D[p] /\ pairs[k][2] \in DOMAIN D[c]
                   /\ pairs[k][1] \in Nat /\ pairs[k][2] \in Nat /\ pairs[k] = <<pairs[k][1], pairs[k][2]>>
  <2> TAKE k \in K
  <2>1. pairs[k] \in M /\ k \in Nat /\ k # 0
    BY <1>3, <1>5 DEF Pairing
  <2>2. pairs[k] \in (1..m) \X (1..n)
    BY <2>1, <1>a
  <2>3. QED
    BY <1>2, <2>1, <2>2
<1>7. \A k, l \in K : k < l /\ pairs[k][1] = pairs[l][1] =>
              /\ k + 1 \in K /\ pairs[k + 1][1] = pairs[k][1]
              /\ l - 1 \in K /\ pairs[l - 1][1] = pairs[l][1]
  BY <1>2, <1>a, <1>3, OneAfterAnother
<1>8. \A k \in K : after(k) \in Nat /\ before(k) \in Nat
  <2> TAKE k \in K
  <2>1. k + 1 \in Nat /\ k - 1 \in Nat
    BY <1>6
  <2>2. QED
    BY <2>1 DEF NoRow
<1>9. \A i \in DOMAIN D[p] : D[p][i].id \in Nat
  BY <1>1, RowNames DEF Typed, IsTable, IsRow
<1>10. \A j \in DOMAIN D[c] : D[c][j].id \in Nat
  BY <1>1, RowNames DEF Typed, IsTable, IsRow
<1>11. IsTable(r, s) /\ DOMAIN s = K /\ (M = {} => s = <<>>)
  <2>1. \A k \in K : IsRow(r, Row(k))
    <3> TAKE k \in K
    <3> HIDE DEF after, before
    <3>1. QED
      BY <1>6, <1>8, <1>9, <1>10, RelationRow
  <2> HIDE DEF Row
  <2>2. s = [k \in 1..N |-> s[k]] /\ DOMAIN s = K
    BY <1>5
  <2>3. \A k \in DOMAIN s : IsRow(r, s[k])
    BY <2>1
  <2> HIDE DEF s, K
  <2>4. IsList(s) /\ Len(s) = N
    BY <2>2, FunctionList
  <2>5. M = {} => s = <<>>
    <3>1. K = {} => N = 0
      BY <1>5
    <3>2. QED
      BY <1>3, <2>4, <3>1, EmptyList
  <2>6. QED
    BY <2>2, <2>3, <2>4, <2>5 DEF IsTable
<1>12. Inserted(r, s) = s
  BY <1>1, <1>11, InsertedIsCopy
<1>13. E = [D EXCEPT ![r] = s, ![p] = P, ![c] = C]
  BY <1>4, <1>12
<1> HIDE DEF E
<1>14. \A k \in K : /\ s[k].par = D[p][pairs[k][1]].id /\ s[k].chi = D[c][pairs[k][2]].id
                    /\ s[k].ptr.parptr = pairs[k][1] /\ s[k].ptr.chiptr = pairs[k][2]
                    /\ s[k].ptr.fptr = after(k) /\ s[k].ptr.bptr = before(k)
  BY DEF Relation
<1>15. /\ \A i \in DOMAIN D[p] \ parents : first[i] \in K /\ pairs[first[i]][1] = i
       /\ \A j \in DOMAIN D[c] \ children : last[j] \in K /\ pairs[last[j]][2] = j
  <2>1. ASSUME NEW i \in DOMAIN D[p], OfParent(i) # {}
        PROVE  Min(OfParent(i)) \in OfParent(i)
    <3>1. OfParent(i) \in SUBSET (1..N)
      BY <1>5
    <3> HIDE DEF OfParent
    <3>2. QED
      BY <3>1, <2>1, Extremes
  <2>2. ASSUME NEW j \in DOMAIN D[c], OfChild(j) # {}
        PROVE  Max(OfChild(j)) \in OfChild(j)
    <3>1. OfChild(j) \in SUBSET (1..N)
      BY <1>5
    <3> HIDE DEF OfChild
    <3>2. QED
      BY <3>1, <2>2, Extremes
  <2>3. QED
    BY <2>1, <2>2
<1>16. \A i \in parents : \A k \in K : pairs[k][1] # i
  OBVIOUS
<1>17. \A j \in children : \A k \in K : pairs[k][2] # j
  OBVIOUS
<1>18. IsTable(p, D[p]) /\ IsTable(c, D[c])
  BY <1>1 DEF Typed
<1> HIDE DEF parents, children, first, last
<1>19. /\ IsTable(p, P) /\ DOMAIN P = DOMAIN D[p] /\ Len(P) = Len(D[p])
       /\ \A i \in DOMAIN D[p] :
            /\ \A g \in Fields(p) \ {"ptr"} : P[i][g] = D[p][i][g]
            /\ \A g \in Ptrs(p) \ {pf} : P[i].ptr[g] = D[p][i].ptr[g]
            /\ P[i].ptr[pf] = IF i \in parents THEN D[p][i].ptr[pf] ELSE first[i]
  <2>1. \A i \in DOMAIN D[p] \ parents : first[i] \in Nat
    BY <1>6, <1>15
  <2>2. P = Pointed(D[p], parents, pf, first)
    BY DEF Pointed
  <2> HIDE DEF P
  <2>3. QED
    BY <1>1, <1>18, <2>1, <2>2, SetPtrs
<1>20. /\ IsTable(c, C) /\ DOMAIN C = DOMAIN D[c] /\ Len(C) = Len(D[c])
       /\ \A i \in DOMAIN D[c] :
            /\ \A g \in Fields(c) \ {"ptr"} : C[i][g] = D[c][i][g]
            /\ \A g \in Ptrs(c) \ {cf} : C[i].ptr[g] = D[c][i].ptr[g]
            /\ C[i].ptr[cf] = IF i \in children THEN D[c][i].ptr[cf] ELSE last[i]
  <2>1. \A i \in DOMAIN D[c] \ children : last[i] \in Nat
    BY <1>6, <1>15
  <2>2. C = Pointed(D[c], children, cf, last)
    BY DEF Pointed
  <2> HIDE DEF C
  <2>3. QED
    BY <1>1, <1>18, <2>1, <2>2, SetPtrs
<1> HIDE DEF P, C, s, after, before
<1>21. E = [t \in Tables |-> E[t]] /\ E[r] = s /\ E[p] = P /\ E[c] = C
       /\ \A t \in Tables \ {r, p, c} : E[t] = D[t]
  BY <1>1, <1>13 DEF Typed
<1>22. Typed(E)
  BY <1>11, <1>19, <1>20, <1>21 DEF Typed
<1>23. OnlyPtr(D, E, p, pf) /\ OnlyPtr(D, E, c, cf)
  BY <1>19, <1>20, <1>21 DEF OnlyPtr
<1>24. LedTo(D, E, r, p, pf, "parptr")
  BY <1>11, <1>14, <1>15, <1>16, <1>19, <1>21 DEF LedTo
<1>25. LedTo(D, E, r, c, cf, "chiptr")
  BY <1>11, <1>14, <1>15, <1>17, <1>20, <1>21 DEF LedTo
<1>26. RelatedTo(D, E, r, p, c, M)
  <2>1. \A k \in K : <<s[k].ptr.parptr, s[k].ptr.chiptr>> = pairs[k]
    BY <1>6, <1>14
  <2>2. \A k \in K : /\ pairs[k] \in M /\ s[k].par = D[p][s[k].ptr.parptr].id
                     /\ s[k].chi = D[c][s[k].ptr.chiptr].id
    BY <1>6, <1>14
  <2>3. \A x \in M : \E k \in K : pairs[k] = x
    BY <1>3 DEF Pairing
  <2>4. \A k, l \in K : pairs[k] = pairs[l] => k = l
    BY <1>3 DEF Pairing
  <2>5. ASSUME NEW k \in K
        PROVE  /\ after(k) # NoRow => after(k) \in K /\ k < after(k) /\ pairs[after(k)][1] = pairs[k][1]
               /\ after(k) = NoRow => \A l \in K : pairs[l][1] = pairs[k][1] => l <= k
    <3>1. k \in Nat /\ \A l \in K : l \in Nat
      BY <1>6
    <3>2. CASE k + 1 \in OfParent(pairs[k][1])
      BY <3>1, <3>2 DEF after, NoRow
    <3>3. CASE k + 1 \notin OfParent(pairs[k][1])
      BY <3>3, <1>7, <3>1 DEF after
    <3>4. QED
      BY <3>2, <3>3
  <2>a. ASSUME NEW k \in K
        PROVE  /\ before(k) # NoRow => before(k) \in K /\ before(k) < k /\ pairs[before(k)][1] = pairs[k][1]
               /\ before(k) = NoRow => \A l \in K : pairs[l][1] = pairs[k][1] => k <= l
    <3>1. k \in Nat /\ \A l \in K : l \in Nat /\ l # 0
      BY <1>6
    <3>2. CASE k - 1 \in OfParent(pairs[k][1])
      BY <3>2, <3>1 DEF before, NoRow
    <3>3. CASE k - 1 \notin OfParent(pairs[k][1])
      <4>1. \A l \in K : pairs[l][1] = pairs[k][1] => ~(l < k)
        BY <3>3, <1>7
      <4>2. before(k) = NoRow
        BY <3>3 DEF before
      <4>3. QED
        BY <4>1, <4>2, <3>1
    <3>4. QED
      BY <3>2, <3>3
  <2> HIDE DEF K
  <2>6. DOMAIN E[r] = K /\ E[r] = s
    BY <1>11, <1>21
  <2>7. \A k \in K : LET q == s[k].ptr.fptr IN
           /\ q # NoRow => q \in K /\ k < q /\ s[q].ptr.parptr = s[k].ptr.parptr
           /\ q = NoRow => \A l \in K : s[l].ptr.parptr = s[k].ptr.parptr => l <= k
    BY <2>5, <1>14
  <2>8. \A k \in K : LET q == s[k].ptr.bptr IN
           /\ q # NoRow => q \in K /\ q < k /\ s[q].ptr.parptr = s[k].ptr.parptr
           /\ q = NoRow => \A l \in K : s[l].ptr.parptr = s[k].ptr.parptr => k <= l
    BY <2>a, <1>14
  <2>9. QED
    BY <2>1, <2>2, <2>3, <2>4, <2>6, <2>7, <2>8 DEF RelatedTo
<1>27. QED
  BY <1>11, <1>21, <1>22, <1>23, <1>24, <1>25, <1>26 DEF E

-----------------------------------------------------------------------------
(* What a pass of DoValidate has built so far.                             *)

\* A pointer that is left alone still leads where it led.
LEMMA GrownPtr ==
  ASSUME NEW D, NEW E, Grows(D, E),
         NEW t \in Tables, NEW f \in DOMAIN Conversions[t], NEW i \in DOMAIN D[t],
         PtrTrue(D, t, i, f), E[t][i].ptr[f] = D[t][i].ptr[f]
  PROVE  PtrTrue(E, t, i, f)
<1> DEFINE q == D[t][i].ptr[f]
           g == Conversions[t][f]
<1>1. SUFFICES ASSUME q # NoRow PROVE q \in DOMAIN E[g] /\ Leads(t, f, E[t][i], E[g][q])
  BY DEF PtrTrue
<1>2. q \in DOMAIN D[g] /\ Leads(t, f, D[t][i], D[g][q])
  BY <1>1 DEF PtrTrue
<1>3. SameKeys(t, D[t][i], E[t][i])
  BY DEF Grows
<1>4. g \in Tables
  BY Targets
<1>5. q \in DOMAIN E[g] /\ SameKeys(g, D[g][q], E[g][q])
  BY <1>2, <1>4 DEF Grows
<1> HIDE DEF q
<1>6. QED
  BY <1>2, <1>3, <1>5, LeadsSame

LEMMA GrownPtrs ==
  ASSUME NEW D, NEW E, Grows(D, E), NEW W, PtrsTrue(D, W), NEW t \in Tables, E[t] = D[t]
  PROVE  \A f \in DOMAIN Conversions[t] : \A i \in DOMAIN E[t] : PtrTrue(E, t, i, f) \/ Old(W, t, f)
BY GrownPtr DEF PtrsTrue

\* The pointers into a relation that is not built are not set.
LEMMA UnbuiltPtr ==
  ASSUME NEW D, NEW W, PassTrue(D, W), NEW r \in W,
         NEW t \in Tables, NEW f \in DOMAIN Conversions[t], Conversions[t][f] = r, NEW i \in DOMAIN D[t],
         ~Old(W, t, f)
  PROVE  D[t][i].ptr[f] = NoRow
<1>1. D[r] = <<>>
  BY DEF PassTrue
<1>2. DOMAIN D[r] = {}
  BY <1>1, EmptyList
<1>3. QED
  BY <1>2 DEF PassTrue, PtrsTrue, PtrTrue

\* A relation is built on tables whose pointers are true.
LEMMA RelatedKeeps ==
  ASSUME NEW D, Typed(D), UniqueIds(D), NEW W \in SUBSET Relations, PassTrue(D, W),
         NEW r \in W, r \in Linking, NEW p, NEW c, RelationEnds[r] = <<p, c>>, p # c, p # "nd", c # "nd",
         NEW pf \in Ptrs(p), NEW cf \in Ptrs(c),
         pf \in DOMAIN Conversions[p] => Conversions[p][pf] = r,
         cf \in DOMAIN Conversions[c] => Conversions[c][cf] = r,
         r \notin {ND_RebuildPtr[f] : f \in DOMAIN ND_RebuildPtr},
         NEW M \in SUBSET ((DOMAIN D[p]) \X (DOMAIN D[c])),
         r = "r_st_switch" =>
           p = "st" /\ pf = "r_switch" /\ \A i \in DOMAIN D[p] : D[p][i].ptr[pf] # NoRow => \E m \in M : m[1] = i,
         cf # "r_switch"
  PROVE  LET E == Related(D, r, p, pf, c, cf, M)
         IN  Typed(E) /\ UniqueIds(E) /\ Grows(D, E) /\ PassTrue(E, W \ {r})
<1> DEFINE E == Related(D, r, p, pf, c, cf, M)
           V == W \ {r}
<1>1. /\ p \in Components /\ c \in Components /\ r \in Relations
      /\ p \in Tables /\ c \in Tables /\ r \in Tables /\ r # p /\ r # c
  BY RelationConversions, TableNames DEF Linking
<1>2. /\ Typed(E)
      /\ \A t \in Tables \ {r, p, c} : E[t] = D[t]
      /\ OnlyPtr(D, E, p, pf) /\ OnlyPtr(D, E, c, cf)
      /\ RelatedTo(D, E, r, p, c, M)
      /\ LedTo(D, E, r, p, pf, "parptr") /\ LedTo(D, E, r, c, cf, "chiptr")
      /\ M = {} => E[r] = <<>>
  BY <1>1, RelatedRows
<1> HIDE DEF E
<1>3. D[r] = <<>> /\ DOMAIN D[r] = {}
  BY EmptyList DEF PassTrue
<1>4. Grows(D, E)
  <2>1. ASSUME NEW t \in Tables, NEW i \in DOMAIN D[t]
        PROVE  i \in DOMAIN E[t] /\ SameKeys(t, D[t][i], E[t][i])
    <3>1. CASE t \in {p, c}
      BY <1>2, <3>1 DEF OnlyPtr, SameKeys, Keys
    <3>2. CASE t \notin {r, p, c}
      BY <1>2, <3>2 DEF SameKeys
    <3>3. QED
      BY <3>1, <3>2, <1>3
  <2>2. QED
    BY <2>1 DEF Grows
<1>5. \A t \in Components : DOMAIN E[t] = DOMAIN D[t] /\ \A i \in DOMAIN D[t] : E[t][i].id = D[t][i].id
  <2> TAKE t \in Components
  <2>1. t \in Tables /\ t # r
    BY <1>1, TableNames
  <2>2. "id" \in Keys(t)
    BY RowNames
  <2>3. DOMAIN E[t] = DOMAIN D[t]
    BY <1>2, <2>1 DEF OnlyPtr
  <2>4. QED
    BY <1>4, <2>1, <2>2, <2>3 DEF Grows, SameKeys
<1>6. UniqueIds(E)
  BY <1>5 DEF UniqueIds
<1>a. ASSUME NEW k \in DOMAIN E[r]
      PROVE  /\ E[r][k].ptr.parptr \in DOMAIN D[p] /\ E[r][k].par = D[p][E[r][k].ptr.parptr].id
             /\ E[r][k].ptr.chiptr \in DOMAIN D[c] /\ E[r][k].chi = D[c][E[r][k].ptr.chiptr].id
  <2>1. /\ <<E[r][k].ptr.parptr, E[r][k].ptr.chiptr>> \in M
        /\ E[r][k].par = D[p][E[r][k].ptr.parptr].id /\ E[r][k].chi = D[c][E[r][k].ptr.chiptr].id
    BY <1>2 DEF RelatedTo
  <2>2. <<E[r][k].ptr.parptr, E[r][k].ptr.chiptr>> \in (DOMAIN D[p]) \X (DOMAIN D[c])
    BY <2>1
  <2>3. QED
    BY <2>1, <2>2
<1>7. PtrsTrue(E, V)
  <2>0. ASSUME NEW t \in Tables, NEW f, Old(W, t, f), r # "r_st_switch" PROVE Old(V, t, f)
    BY <2>0 DEF Old
  <2>1. ASSUME NEW t \in Tables, t \notin {r, p, c}, NEW f \in DOMAIN Conversions[t], NEW i \in DOMAIN E[t]
        PROVE  PtrTrue(E, t, i, f) \/ Old(V, t, f)
    BY <1>2, <1>4, <2>1, GrownPtrs, <2>0 DEF PassTrue, Old
  <2>2. ASSUME NEW f \in DOMAIN Conversions[p], NEW i \in DOMAIN E[p]
        PROVE  PtrTrue(E, p, i, f) \/ Old(V, p, f)
    <3>1. i \in DOMAIN D[p]
      BY <1>2 DEF OnlyPtr
    <3>2. CASE f # pf
      <4>1. E[p][i].ptr[f] = D[p][i].ptr[f]
        BY <1>1, <1>2, <3>1, <3>2, Targets DEF OnlyPtr
      <4>2. PtrTrue(D, p, i, f) \/ Old(W, p, f)
        BY <1>1, <3>1 DEF PassTrue, PtrsTrue
      <4>3. Old(W, p, f) => Old(V, p, f)
        BY <3>2 DEF Old
      <4>4. PtrTrue(D, p, i, f) => PtrTrue(E, p, i, f)
        BY <1>1, <1>4, <3>1, <4>1, GrownPtr
      <4>5. QED
        BY <4>2, <4>3, <4>4
    <3>3. CASE f = pf
      <4>1. Conversions[p][f] = r
        BY <3>3
      <4>2. CASE E[p][i].ptr[pf] = D[p][i].ptr[pf] /\ \A k \in DOMAIN E[r] : E[r][k].ptr.parptr # i
        <5>1. D[p][i].ptr[pf] = NoRow
          <6>1. CASE r = "r_st_switch"
            <7>1. \A m \in M : m[1] # i
              BY <1>2, <4>2 DEF RelatedTo
            <7>2. QED
              BY <6>1, <7>1, <3>1
          <6>2. CASE r # "r_st_switch" /\ ~Old(W, p, f)
            BY <1>1, <3>1, <3>3, <4>1, <6>2, UnbuiltPtr
          <6>3. CASE r # "r_st_switch" /\ Old(W, p, f)
            BY <6>3, <4>1 DEF Conversions, ST_RebuildPtr, Old
          <6>4. QED
            BY <6>1, <6>2, <6>3
        <5>2. QED
          BY <3>3, <4>2, <5>1 DEF PtrTrue
      <4>3. CASE E[p][i].ptr[pf] \in DOMAIN E[r] /\ E[r][E[p][i].ptr[pf]].ptr.parptr = i
        <5> DEFINE q == E[p][i].ptr[pf]
        <5>1. E[r][q].par = D[p][i].id
          BY <1>a, <4>3
        <5>2. E[p][i].id = D[p][i].id
          BY <1>1, <1>5, <3>1
        <5>3. f \notin {"ind", "iznd"}
          BY <1>1, <4>1, ComponentConversions, TableNames
        <5>4. Leads(p, f, E[p][i], E[r][q])
          BY <1>1, <5>1, <5>2, <5>3 DEF Leads
        <5>5. QED
          BY <3>3, <4>1, <4>3, <5>4 DEF PtrTrue
      <4>4. QED
        BY <1>2, <3>1, <4>2, <4>3 DEF LedTo
    <3>4. QED
      BY <3>2, <3>3
  <2>3. ASSUME NEW f \in DOMAIN Conversions[c], NEW i \in DOMAIN E[c]
        PROVE  PtrTrue(E, c, i, f) \/ Old(V, c, f)
    <3>1. i \in DOMAIN D[c]
      BY <1>2 DEF OnlyPtr
    <3>2. CASE f # cf
      <4>1. E[c][i].ptr[f] = D[c][i].ptr[f]
        BY <1>1, <1>2, <3>1, <3>2, Targets DEF OnlyPtr
      <4>2. PtrTrue(D, c, i, f) \/ Old(W, c, f)
        BY <1>1, <3>1 DEF PassTrue, PtrsTrue
      <4>3. Old(W, c, f) => Old(V, c, f)
        BY <1>1 DEF Old
      <4>4. PtrTrue(D, c, i, f) => PtrTrue(E, c, i, f)
        BY <1>1, <1>4, <3>1, <4>1, GrownPtr
      <4>5. QED
        BY <4>2, <4>3, <4>4
    <3>3. CASE f = cf
      <4>1. Conversions[c][f] = r
        BY <3>3
      <4>2. CASE E[c][i].ptr[cf] = D[c][i].ptr[cf] /\ \A k \in DOMAIN E[r] : E[r][k].ptr.chiptr # i
        <5>1. D[c][i].ptr[cf] = NoRow
          BY <1>1, <3>1, <3>3, <4>1, UnbuiltPtr DEF Old
        <5>2. QED
          BY <3>3, <4>2, <5>1 DEF PtrTrue
      <4>3. CASE E[c][i].ptr[cf] \in DOMAIN E[r] /\ E[r][E[c][i].ptr[cf]].ptr.chiptr = i
        <5> DEFINE q == E[c][i].ptr[cf]
        <5>1. E[r][q].chi = D[c][i].id
          BY <1>a, <4>3
        <5>2. E[c][i].id = D[c][i].id
          BY <1>1, <1>5, <3>1
        <5>3. f \notin {"ind", "iznd"}
          BY <1>1, <4>1, ComponentConversions, TableNames
        <5>4. Leads(c, f, E[c][i], E[r][q])
          BY <1>1, <5>1, <5>2, <5>3 DEF Leads
        <5>5. QED
          BY <3>3, <4>1, <4>3, <5>4 DEF PtrTrue
      <4>4. QED
        BY <1>2, <3>1, <4>2, <4>3 DEF LedTo
    <3>4. QED
      BY <3>2, <3>3
  <2>4. ASSUME NEW f \in DOMAIN Conversions[r], NEW i \in DOMAIN E[r]
        PROVE  PtrTrue(E, r, i, f)
    <3> DEFINE row == E[r][i]
    <3>1. f \in {"parptr", "chiptr", "fptr", "bptr"}
      BY <1>1, RelationNames, RelationConversions
    <3>2. /\ Conversions[r]["parptr"] = p /\ Conversions[r]["chiptr"] = c
          /\ Conversions[r]["fptr"] = r /\ Conversions[r]["bptr"] = r
      BY <1>1, RelationConversions
    <3>3. /\ row.ptr.parptr \in DOMAIN D[p] /\ row.par = D[p][row.ptr.parptr].id
          /\ row.ptr.chiptr \in DOMAIN D[c] /\ row.chi = D[c][row.ptr.chiptr].id
      BY SMTT(40), <1>a
    <3>4. CASE f = "parptr"
      BY SMTT(40), <1>1, <1>5, <3>2, <3>3, <3>4 DEF PtrTrue, Leads
    <3>5. CASE f = "chiptr"
      BY SMTT(40), <1>1, <1>5, <3>2, <3>3, <3>5 DEF PtrTrue, Leads
    <3>6. CASE f \in {"fptr", "bptr"}
      <4>1. row.ptr[f] # NoRow => row.ptr[f] \in DOMAIN E[r] /\ E[r][row.ptr[f]].ptr.parptr = row.ptr.parptr
        BY <1>2, <3>6 DEF RelatedTo
      <4>2. row.ptr[f] # NoRow => E[r][row.ptr[f]].par = row.par
        BY <1>a, <4>1
      <4>3. QED
        BY <3>2, <3>6, <4>1, <4>2 DEF PtrTrue, Leads
    <3>7. QED
      BY <3>1, <3>4, <3>5, <3>6
  <2>5. QED
    BY <1>1, <2>1, <2>2, <2>3, <2>4 DEF PtrsTrue
<1>b. \A s \in Relations \ {r} : E[s] = D[s]
  BY <1>1, <1>2, TableNames
<1>8. ASSUME NEW s \in Linking PROVE EndsSet(E[s]) /\ Chained(E[s])
  <2>1. CASE s # r
    BY <1>b, <2>1 DEF PassTrue, Linking
  <2>2. EndsSet(E[r])
    <3>1. 0 \notin DOMAIN D[p] /\ 0 \notin DOMAIN D[c]
      BY <1>1 DEF Typed, IsTable, IsList
    <3>2. QED
      BY <1>a, <3>1 DEF EndsSet, NoRow
  <2>3. \A k, l \in DOMAIN E[r] : E[r][k].par = E[r][l].par => E[r][k].ptr.parptr = E[r][l].ptr.parptr
    BY <1>1, <1>a DEF UniqueIds
  <2>4. Chained(E[r])
    <3>1. \A k \in DOMAIN E[r] : E[r][k].ptr.fptr # NoRow => k < E[r][k].ptr.fptr
      BY <1>2 DEF RelatedTo
    <3>2. \A k \in DOMAIN E[r] : E[r][k].ptr.bptr # NoRow => E[r][k].ptr.bptr < k
      BY <1>2 DEF RelatedTo
    <3>3. \A k, l \in DOMAIN E[r] : E[r][k].ptr.fptr = NoRow /\ E[r][l].par = E[r][k].par => l <= k
      BY <1>2, <2>3 DEF RelatedTo
    <3>4. \A k, l \in DOMAIN E[r] : E[r][k].ptr.bptr = NoRow /\ E[r][l].par = E[r][k].par => k <= l
      BY <1>2, <2>3 DEF RelatedTo
    <3>5. QED
      BY <3>1, <3>2, <3>3, <3>4 DEF Chained
  <2>5. QED
    BY <2>1, <2>2, <2>4
<1>9. Heads(E) /\ ZoneNodes(E)
  <2>1. E["nd"] = D["nd"]
    BY <1>1, <1>2, TableNames
  <2>2. \A f \in DOMAIN ND_RebuildPtr : ND_RebuildPtr[f] \in Relations \ {r}
    BY DEF ND_RebuildPtr, Relations
  <2>3. Heads(E)
    BY <1>b, <2>1, <2>2 DEF Heads, PassTrue
  <2>4. "zn" \in Tables /\ "zn" # r /\ "inds" \in Fields("zn") \ {"ptr"}
    BY <1>1, TableNames, RowNames DEF FieldNames
  <2>5. DOMAIN E["zn"] = DOMAIN D["zn"] /\ \A z \in DOMAIN E["zn"] : E["zn"][z].inds = D["zn"][z].inds
    BY <1>2, <2>4 DEF OnlyPtr
  <2>6. ZoneNodes(E)
    BY <2>1, <2>5 DEF ZoneNodes, PassTrue
  <2>7. QED
    BY <2>3, <2>6
<1>10. \A s \in V : E[s] = <<>>
  BY <1>b DEF PassTrue
<1>11. QED
  BY <1>2, <1>4, <1>6, <1>7, <1>8, <1>9, <1>10 DEF PassTrue, E

-----------------------------------------------------------------------------
(* What holds of the tables at every time.                                 *)

\* Tables that only grow stay sound.
LEMMA GrownSound ==
  ASSUME NEW D, Sound(D), D.st # <<>>, NEW E, Typed(E), UniqueIds(E), Grows(D, E),
         DOMAIN E.st = DOMAIN D.st, DOMAIN E.zn = DOMAIN D.zn,
         \A i \in DOMAIN D.st : D.st[i].ptr.r_switch = NoRow => E.st[i].ptr.r_switch = NoRow
  PROVE  Sound(E) /\ E.st # <<>>
<1>1. "st" \in Components /\ "zn" \in Components /\ "switch" \in Components
      /\ "st" \in Tables /\ "zn" \in Tables /\ "switch" \in Tables
  BY DEF Components, Tables
<1>2. "id" \in Keys("zn") /\ "pid" \in Keys("st") /\ "stid" \in Keys("switch")
  BY <1>1, TableNames DEF Keys, Fields, FieldNames
<1>3. \A t \in Tables : IsList(D[t]) /\ IsList(E[t])
  BY DEF Sound, Typed, IsTable
<1>4. ZoneIds(E)
  <2>1. Len(E.zn) = Len(D.zn)
    BY <1>1, <1>3 DEF IsList
  <2>2. \A z \in DOMAIN D.zn : E.zn[z].id = D.zn[z].id
    BY <1>1, <1>2 DEF Grows, SameKeys
  <2>3. QED
    BY <2>1, <2>2 DEF ZoneIds, Sound
<1>5. Stale(E)
  BY <1>1, <1>2 DEF Grows, SameKeys, Stale, Sound
<1>6. E.st # <<>>
  BY <1>1, <1>3, EmptyList DEF Grows, IsList
<1>7. QED
  BY <1>4, <1>5, <1>6 DEF Sound, NoStations

\* A row with a station is a row of a network with stations.
LEMMA StationsThere ==
  ASSUME NEW D, Sound(D), NEW t \in Tables \ {"co", "cb"}, D[t] # <<>>
  PROVE  D.st # <<>>
BY DEF Sound, NoStations

LEMMA KeptPtrs ==
  ASSUME NEW D, NEW E, Grows(D, E), Kept(D, E), NEW W, PtrsTrue(D, W)
  PROVE  PtrsTrue(E, W)
BY GrownPtr DEF PtrsTrue, Kept

-----------------------------------------------------------------------------
(* The relations that are built as a whole.                                *)

LEMMA Builds ==
  /\ IsBuild("r_co_st", "co", "r_st", "st", "r_co")
  /\ IsBuild("r_st_zn", "st", "r_zn", "zn", "r_st")
  /\ IsBuild("r_st_cb", "st", "r_cb", "cb", "r_st")
  /\ IsBuild("r_st_switch", "st", "r_switch", "switch", "r_st")
  /\ IsBuild("r_st_bus", "st", "r_bus", "bus", "r_st")
  /\ IsBuild("r_st_cp", "st", "r_cp", "cp", "r_st")
  /\ IsBuild("r_st_so", "st", "r_so", "so", "r_st")
  /\ IsBuild("r_st_ld", "st", "r_ld", "ld", "r_st")
  /\ IsBuild("r_zn_ld", "zn", "r_ld", "ld", "r_zn")
  /\ IsBuild("r_zn_sec", "zn", "r_sec", "sec", "r_zn")
  /\ IsBuild("r_sec_fi", "sec", "r_fi", "fi", "r_sec")
<1> USE DEF IsBuild, Linking, Relations, RelationEnds, Ptrs, PtrNames, Conversions, ND_RebuildPtr
<1>1. IsBuild("r_co_st", "co", "r_st", "st", "r_co")
  BY DEF CO_RebuildPtr, ST_RebuildPtr
<1>2. IsBuild("r_st_zn", "st", "r_zn", "zn", "r_st")
  BY DEF ST_RebuildPtr, ZN_RebuildPtr
<1>3. IsBuild("r_st_cb", "st", "r_cb", "cb", "r_st")
  BY DEF ST_RebuildPtr, CB_RebuildPtr
<1>4. IsBuild("r_st_switch", "st", "r_switch", "switch", "r_st")
  BY DEF ST_RebuildPtr, SWITCH_RebuildPtr
<1>5. IsBuild("r_st_bus", "st", "r_bus", "bus", "r_st")
  BY DEF ST_RebuildPtr, BUS_RebuildPtr
<1>6. IsBuild("r_st_cp", "st", "r_cp", "cp", "r_st")
  BY DEF ST_RebuildPtr, CP_RebuildPtr
<1>7. IsBuild("r_st_so", "st", "r_so", "so", "r_st")
  BY DEF ST_RebuildPtr, SO_RebuildPtr
<1>8. IsBuild("r_st_ld", "st", "r_ld", "ld", "r_st")
  BY DEF ST_RebuildPtr, LD_RebuildPtr
<1>9. IsBuild("r_zn_ld", "zn", "r_ld", "ld", "r_zn")
  BY DEF ZN_RebuildPtr, LD_RebuildPtr
<1>10. IsBuild("r_zn_sec", "zn", "r_sec", "sec", "r_zn")
  BY DEF ZN_RebuildPtr, SEC_RebuildPtr
<1>11. IsBuild("r_sec_fi", "sec", "r_fi", "fi", "r_sec")
  BY DEF SEC_RebuildPtr, FI_RebuildPtr
<1> HIDE DEF IsBuild
<1>12. QED
  BY <1>1, <1>2, <1>3, <1>4, <1>5, <1>6, <1>7, <1>8, <1>9, <1>10, <1>11

LEMMA RelatedSound ==
  ASSUME NEW D, Sound(D), NEW W \in SUBSET Relations, PassTrue(D, W),
         NEW r \in W, NEW p, NEW pf, NEW c, NEW cf, IsBuild(r, p, pf, c, cf),
         NEW M \in SUBSET ((DOMAIN D[p]) \X (DOMAIN D[c])),
         r = "r_st_switch" =>
           \A i \in DOMAIN D[p] : \A j \in DOMAIN D[c] : <<i, j>> \in M <=> D[p][i].pid = D[c][j].stid
  PROVE  LET E == Related(D, r, p, pf, c, cf, M)
         IN  Sound(E) /\ PassTrue(E, W \ {r})
<1> DEFINE E == Related(D, r, p, pf, c, cf, M)
<1>1. /\ p \in Components /\ c \in Components /\ r \in Relations
      /\ p \in Tables /\ c \in Tables /\ r \in Tables /\ r # p /\ r # c
  BY RelationConversions, TableNames DEF IsBuild, Linking
<1>2. /\ Typed(E)
      /\ \A t \in Tables \ {r, p, c} : E[t] = D[t]
      /\ OnlyPtr(D, E, p, pf) /\ OnlyPtr(D, E, c, cf)
      /\ RelatedTo(D, E, r, p, c, M)
      /\ LedTo(D, E, r, p, pf, "parptr")
      /\ M = {} => E[r] = <<>>
  BY <1>1, RelatedRows DEF Sound, IsBuild
<1>3. r = "r_st_switch" =>
        p = "st" /\ pf = "r_switch" /\ \A i \in DOMAIN D[p] : D[p][i].ptr[pf] # NoRow => \E m \in M : m[1] = i
  <2> SUFFICES ASSUME r = "r_st_switch", NEW i \in DOMAIN D[p], D[p][i].ptr[pf] # NoRow
               PROVE  \E m \in M : m[1] = i
    BY DEF IsBuild
  <2>1. p = "st" /\ c = "switch" /\ pf = "r_switch"
    BY DEF IsBuild
  <2>2. PICK j \in DOMAIN D[c] : D[c][j].stid = D[p][i].pid
    BY <2>1 DEF Sound, Stale
  <2>3. <<i, j>> \in M
    BY <2>2
  <2>4. QED
    BY <2>3
<1>4. Typed(E) /\ UniqueIds(E) /\ Grows(D, E) /\ PassTrue(E, W \ {r})
  BY <1>3, RelatedKeeps DEF IsBuild, Sound
<1> HIDE DEF E
<1>5. "st" \in Tables /\ "zn" \in Tables /\ "switch" \in Tables /\ r \notin {"st", "zn", "switch"}
  BY <1>1 DEF Components, Tables, Relations
<1>6. \A t \in Tables \ {r} : DOMAIN E[t] = DOMAIN D[t] /\ Len(E[t]) = Len(D[t])
  BY <1>2 DEF OnlyPtr
<1>7. ZoneIds(E)
  <2>1. "id" \in Keys("zn")
    BY RowNames, TableNames
  <2>2. \A z \in DOMAIN D.zn : E.zn[z].id = D.zn[z].id
    BY <1>4, <1>5, <2>1 DEF Grows, SameKeys
  <2>3. QED
    BY <1>5, <1>6, <2>2 DEF Sound, ZoneIds
<1>8. Stale(E)
  <2>1. "pid" \in Keys("st") /\ "stid" \in Keys("switch") /\ "r_switch" \in Ptrs("st")
    BY TableNames DEF Keys, Fields, FieldNames, Ptrs, PtrNames, Components, Relations
  <2>2. \A i \in DOMAIN D.st : E.st[i].pid = D.st[i].pid
    BY <1>4, <1>5, <2>1 DEF Grows, SameKeys
  <2>3. \A i \in DOMAIN D.switch : E.switch[i].stid = D.switch[i].stid
    BY <1>4, <1>5, <2>1 DEF Grows, SameKeys
  <2>4. SUFFICES ASSUME NEW i \in DOMAIN D.st, E.st[i].ptr.r_switch # NoRow
                 PROVE  \E s \in DOMAIN D.switch : D.switch[s].stid = D.st[i].pid
    BY <1>5, <1>6, <2>2, <2>3 DEF Stale
  <2>5. CASE E.st[i].ptr.r_switch = D.st[i].ptr.r_switch
    BY <2>4, <2>5 DEF Sound, Stale
  <2>6. CASE E.st[i].ptr.r_switch # D.st[i].ptr.r_switch
    <3>1. p = "st" /\ c = "switch" /\ r = "r_st_switch" /\ pf = "r_switch"
      <4>1. p = "st" => pf = "r_switch"
        BY <1>2, <2>1, <2>6 DEF OnlyPtr
      <4>2. c # "st"
        BY <1>2, <2>1, <2>6 DEF OnlyPtr, IsBuild
      <4>3. p = "st"
        BY <1>2, <1>5, <2>6, <4>2
      <4>4. QED
        BY <4>1, <4>3 DEF IsBuild
    <3>2. PICK k \in DOMAIN E[r] : E[r][k].ptr.parptr = i
      BY <1>2, <2>6, <3>1 DEF LedTo
    <3>3. <<i, E[r][k].ptr.chiptr>> \in M
      BY <1>2, <3>2 DEF RelatedTo
    <3>4. E[r][k].ptr.chiptr \in DOMAIN D.switch
      BY <3>1, <3>3
    <3>5. QED
      BY <3>1, <3>3, <3>4
  <2>7. QED
    BY <2>5, <2>6
<1>9. NoStations(E)
  <2> SUFFICES ASSUME E.st = <<>>, NEW t \in Tables \ {"co", "cb"} PROVE E[t] = <<>>
    BY DEF NoStations
  <2>1. \A u \in Tables : IsList(E[u]) /\ IsList(D[u])
    BY <1>2 DEF Sound, Typed, IsTable
  <2>2. D.st = <<>>
    BY <1>5, <1>6, <2>1, EmptyList
  <2>3. \A u \in Tables \ {"co", "cb"} : D[u] = <<>>
    BY <2>2 DEF Sound, NoStations
  <2>4. DOMAIN D[p] = {} \/ DOMAIN D[c] = {}
    <3>1. p \notin {"co", "cb"} \/ c \notin {"co", "cb"}
      BY DEF IsBuild
    <3>2. QED
      BY <1>1, <2>3, <3>1, EmptyList
  <2>5. E[r] = <<>>
    BY <1>2, <2>4
  <2>6. t # r => E[t] = <<>>
    BY <1>6, <2>1, <2>3, EmptyList
  <2>7. QED
    BY <2>5, <2>6
<1>10. QED
  BY <1>4, <1>7, <1>8, <1>9 DEF E, Sound

\* Each build leaves true pointers and has built its relation.
LEMMA RelationBuilt ==
  ASSUME NEW D, Sound(D), NEW W \in SUBSET Relations, PassTrue(D, W)
  PROVE  /\ "r_co_st" \in W => Sound(R_CO_ST_Build(D)) /\ PassTrue(R_CO_ST_Build(D), W \ {"r_co_st"})
         /\ "r_st_zn" \in W => Sound(R_ST_ZN_Build(D)) /\ PassTrue(R_ST_ZN_Build(D), W \ {"r_st_zn"})
         /\ "r_st_cb" \in W => Sound(R_ST_CB_Build(D)) /\ PassTrue(R_ST_CB_Build(D), W \ {"r_st_cb"})
         /\ "r_st_switch" \in W =>
              Sound(R_ST_SWITCH_Build(D)) /\ PassTrue(R_ST_SWITCH_Build(D), W \ {"r_st_switch"})
         /\ "r_st_bus" \in W => Sound(R_ST_BUS_Build(D)) /\ PassTrue(R_ST_BUS_Build(D), W \ {"r_st_bus"})
         /\ "r_st_cp" \in W => Sound(R_ST_CP_Build(D)) /\ PassTrue(R_ST_CP_Build(D), W \ {"r_st_cp"})
         /\ "r_st_so" \in W => Sound(R_ST_SO_Build(D)) /\ PassTrue(R_ST_SO_Build(D), W \ {"r_st_so"})
         /\ "r_st_ld" \in W => Sound(R_ST_LD_Build(D)) /\ PassTrue(R_ST_LD_Build(D), W \ {"r_st_ld"})
         /\ "r_zn_ld" \in W => Sound(R_ZN_LD_Build(D)) /\ PassTrue(R_ZN_LD_Build(D), W \ {"r_zn_ld"})
         /\ "r_zn_sec" \in W => Sound(R_ZN_SEC_Build(D)) /\ PassTrue(R_ZN_SEC_Build(D), W \ {"r_zn_sec"})
         /\ "r_sec_fi" \in W => Sound(R_SEC_FI_Build(D)) /\ PassTrue(R_SEC_FI_Build(D), W \ {"r_sec_fi"})
<1>0. \A t \in Tables : Range1(t, D) = DOMAIN D[t]
  BY DEF Sound, Typed, IsTable, IsList, Range1
<1>1. {"co", "st", "zn", "cb", "switch", "bus", "cp", "so", "ld", "sec", "fi"} \subseteq Tables
  BY DEF Tables, Components
<1>2. ASSUME "r_co_st" \in W PROVE Sound(R_CO_ST_Build(D)) /\ PassTrue(R_CO_ST_Build(D), W \ {"r_co_st"})
  BY <1>0, <1>1, <1>2, Builds, RelatedSound DEF Matching, R_CO_ST_Build
<1>3. ASSUME "r_st_zn" \in W PROVE Sound(R_ST_ZN_Build(D)) /\ PassTrue(R_ST_ZN_Build(D), W \ {"r_st_zn"})
  BY <1>0, <1>1, <1>3, Builds, RelatedSound DEF Matching, R_ST_ZN_Build
<1>4. ASSUME "r_st_cb" \in W PROVE Sound(R_ST_CB_Build(D)) /\ PassTrue(R_ST_CB_Build(D), W \ {"r_st_cb"})
  BY <1>0, <1>1, <1>4, Builds, RelatedSound DEF Matching, R_ST_CB_Build
<1>5. ASSUME "r_st_switch" \in W
      PROVE  Sound(R_ST_SWITCH_Build(D)) /\ PassTrue(R_ST_SWITCH_Build(D), W \ {"r_st_switch"})
  <2> DEFINE M == Matching(D, "st", "switch", OfStation)
  <2>1. M \in SUBSET ((DOMAIN D["st"]) \X (DOMAIN D["switch"]))
    BY <1>0, <1>1 DEF Matching
  <2>2. \A i \in DOMAIN D["st"] : \A j \in DOMAIN D["switch"] : <<i, j>> \in M <=> D["st"][i].pid = D["switch"][j].stid
    BY <1>0, <1>1 DEF Matching, OfStation
  <2>3. R_ST_SWITCH_Build(D) = Related(D, "r_st_switch", "st", "r_switch", "switch", "r_st", M)
    BY DEF R_ST_SWITCH_Build
  <2> HIDE DEF M
  <2>4. QED
    BY <1>5, <2>1, <2>2, <2>3, Builds, RelatedSound
<1>6. ASSUME "r_st_bus" \in W PROVE Sound(R_ST_BUS_Build(D)) /\ PassTrue(R_ST_BUS_Build(D), W \ {"r_st_bus"})
  BY <1>0, <1>1, <1>6, Builds, RelatedSound DEF Matching, R_ST_BUS_Build
<1>7. ASSUME "r_st_cp" \in W PROVE Sound(R_ST_CP_Build(D)) /\ PassTrue(R_ST_CP_Build(D), W \ {"r_st_cp"})
  BY <1>0, <1>1, <1>7, Builds, RelatedSound DEF Matching, R_ST_CP_Build
<1>8. ASSUME "r_st_so" \in W PROVE Sound(R_ST_SO_Build(D)) /\ PassTrue(R_ST_SO_Build(D), W \ {"r_st_so"})
  BY <1>0, <1>1, <1>8, Builds, RelatedSound DEF Matching, R_ST_SO_Build
<1>9. ASSUME "r_st_ld" \in W PROVE Sound(R_ST_LD_Build(D)) /\ PassTrue(R_ST_LD_Build(D), W \ {"r_st_ld"})
  BY <1>0, <1>1, <1>9, Builds, RelatedSound DEF Matching, R_ST_LD_Build
<1>10. ASSUME "r_zn_ld" \in W PROVE Sound(R_ZN_LD_Build(D)) /\ PassTrue(R_ZN_LD_Build(D), W \ {"r_zn_ld"})
  BY <1>0, <1>1, <1>10, Builds, RelatedSound DEF Matching, R_ZN_LD_Build
<1>11. ASSUME "r_zn_sec" \in W PROVE Sound(R_ZN_SEC_Build(D)) /\ PassTrue(R_ZN_SEC_Build(D), W \ {"r_zn_sec"})
  BY <1>0, <1>1, <1>11, Builds, RelatedSound DEF Matching, R_ZN_SEC_Build
<1>12. ASSUME "r_sec_fi" \in W PROVE Sound(R_SEC_FI_Build(D)) /\ PassTrue(R_SEC_FI_Build(D), W \ {"r_sec_fi"})
  BY <1>0, <1>1, <1>12, Builds, RelatedSound DEF Matching, R_SEC_FI_Build
<1>13. QED
  BY <1>2, <1>3, <1>4, <1>5, <1>6, <1>7, <1>8, <1>9, <1>10, <1>11, <1>12

-----------------------------------------------------------------------------
(* The nodes of the zones.                                                 *)

LEMMA Bounded ==
  ASSUME NEW n \in Nat, NEW f \in [1..n -> Nat]
  PROVE  \E m \in Nat : \A z \in 1..n : f[z] <= m
<1> DEFINE S == {f[z] : z \in 1..n}
           Down == {ab \in S \X S : ab[2] < ab[1]}
<1>1. S \subseteq Nat
  OBVIOUS
<1>2. IsFiniteSet(S)
  <2>1. f \in Surjection(1..n, S)
    BY Fun_IsSurj
  <2>2. IsFiniteSet(1..n)
    BY FS_Interval
  <2>3. QED
    BY <2>1, <2>2, FS_Surjection
<1>3. CASE S = {}
  BY <1>3
<1>a. \A z \in 1..n : f[z] \in S
  OBVIOUS
<1> HIDE DEF S
<1>4. CASE S # {}
  <2>1. Orders(Down, S)
    BY <1>1 DEF Orders
  <2>2. \A x, y \in S : <<y, x>> \in Down <=> x < y
    OBVIOUS
  <2> HIDE DEF Down
  <2>3. PICK m \in S : \A y \in S : <<y, m>> \notin Down
    BY <1>2, <1>4, <2>1, LeastElement
  <2>4. \A y \in S : ~(m < y)
    BY <2>2, <2>3
  <2>5. m \in Nat /\ \A y \in S : y <= m
    BY <1>1, <2>4
  <2>6. QED
    BY <2>5, <1>a
<1>5. QED
  BY <1>3, <1>4, <1>a

LEMMA SetField ==
  ASSUME NEW t \in Tables, NEW s, IsTable(t, s), NEW f, f \notin Keys(t) \cup {"ptr", "nds", "inds"}, NEW q, NEW S
  PROVE  LET u == Valued(s, S, f, q)
         IN  /\ IsTable(t, u) /\ DOMAIN u = DOMAIN s /\ Len(u) = Len(s)
             /\ \A i \in DOMAIN s :
                  SameKeys(t, s[i], u[i]) /\ u[i].ptr = s[i].ptr /\ (t = "zn" => u[i].inds = s[i].inds)
<1> DEFINE u == Valued(s, S, f, q)
<1>1. Len(s) \in Nat /\ DOMAIN s = 1..Len(s)
  BY DEF IsTable, IsList
<1>2. u = [i \in DOMAIN s |-> IF i \in S THEN s[i] ELSE [s[i] EXCEPT ![f] = q[i]]]
  BY DEF Valued
<1> HIDE DEF u
<1>3. IsList(u) /\ Len(u) = Len(s) /\ DOMAIN u = DOMAIN s
  <2>1. u = [i \in 1..Len(s) |-> u[i]]
    BY <1>1, <1>2
  <2>2. QED
    BY <2>1, <1>1, FunctionList
<1>4. ASSUME NEW i \in DOMAIN s
      PROVE  /\ IsRow(t, u[i]) /\ SameKeys(t, s[i], u[i]) /\ u[i].ptr = s[i].ptr
             /\ t = "zn" => u[i].inds = s[i].inds
  <2>1. IsRow(t, s[i])
    BY DEF IsTable
  <2>2. "ptr" \in Fields(t) /\ Keys(t) \subseteq Fields(t) \ {"ptr"} /\ (t = "zn" => {"nds", "inds"} \subseteq Fields(t))
    BY RowNames, RelationNames, TableNames DEF Keys, FieldNames
  <2>3. CASE i \in S
    BY <1>2, <2>1, <2>3 DEF SameKeys
  <2>4. CASE i \notin S
    <3> DEFINE row == s[i]
               new == u[i]
    <3>1. new = [row EXCEPT ![f] = q[i]]
      BY <1>2, <2>4
    <3>2. /\ row = [g \in Fields(t) |-> row[g]]
          /\ row.ptr \in [Ptrs(t) -> Nat]
          /\ \A k \in Keys(t) \ {"pid", "stid"} : row[k] \in Nat
          /\ t = "zn" => /\ IsList(row.nds) /\ \A n \in DOMAIN row.nds : row.nds[n] \in Nat
                         /\ row.inds \in [DOMAIN row.nds -> Nat]
      BY <2>1 DEF IsRow
    <3> HIDE DEF row, new
    <3>3. new = [g \in Fields(t) |-> new[g]] /\ \A g \in Fields(t) \ {f} : new[g] = row[g]
      BY <3>1, <3>2
    <3>4. new.ptr = row.ptr /\ (t = "zn" => new.inds = row.inds /\ new.nds = row.nds)
      BY <2>2, <3>3
    <3>5. \A k \in Keys(t) : new[k] = row[k]
      BY <2>2, <3>3
    <3>6. IsRow(t, new)
      BY <3>2, <3>3, <3>4, <3>5 DEF IsRow
    <3>7. QED
      BY <3>4, <3>5, <3>6 DEF row, new, SameKeys
  <2>5. QED
    BY <2>3, <2>4
<1>5. QED
  BY <1>3, <1>4 DEF IsTable, u

\* The table of the zones' nodes is built once every node is placed.
LEMMA ZoneNodesBuilt ==
  ASSUME NEW D, Sound(D), NEW W \in SUBSET Relations, PassTrue(D, W), "r_zn_nd" \in W, D.zn # <<>>,
         \A z \in DOMAIN D.zn : \A n \in DOMAIN D.zn[z].inds : D.zn[z].inds[n] # NoRow
  PROVE  /\ Sound(R_ZN_ND_Build(D)) /\ PassTrue(R_ZN_ND_Build(D), W \ {"r_zn_nd"})
         /\ ZonesListed(D, R_ZN_ND_Build(D))
<1> DEFINE E == R_ZN_ND_Build(D)
           V == W \ {"r_zn_nd"}
           M == UNION {{z} \X DOMAIN D.zn[z].nds : z \in DOMAIN D.zn}
           pairs == Ordered(M, LAMBDA a, b : a[1] < b[1] \/ (a[1] = b[1] /\ a[2] < b[2]))
           K == DOMAIN pairs
           OfZone(z) == {k \in K : pairs[k][1] = z}
           after(k) == IF k + 1 \in OfZone(pairs[k][1]) THEN k + 1 ELSE NoRow
           before(k) == IF k - 1 \in OfZone(pairs[k][1]) THEN k - 1 ELSE NoRow
           Row(k) == Relation(D.zn[pairs[k][1]].id, D.zn[pairs[k][1]].nds[pairs[k][2]], pairs[k][1],
                              D.zn[pairs[k][1]].inds[pairs[k][2]], after(k), before(k))
           s == [k \in K |-> Row(k)]
           ZonesAt(i) == {z \in DOMAIN D.zn : \E n \in DOMAIN D.zn[z].inds : D.zn[z].inds[n] = i}
           empty == {z \in DOMAIN D.zn : OfZone(z) = {}}
           free == {i \in DOMAIN D.nd : ZonesAt(i) = {}}
           first == [z \in DOMAIN D.zn |-> Min(OfZone(z))]
           zone == [i \in DOMAIN D.nd |-> D.zn[Max(ZonesAt(i))].id]
           Z == [z \in DOMAIN D.zn |-> IF z \in empty THEN D.zn[z] ELSE [D.zn[z] EXCEPT !.ptr["r_nd"] = first[z]]]
           N == [i \in DOMAIN D.nd |-> IF i \in free THEN D.nd[i] ELSE [D.nd[i] EXCEPT !["zn_id"] = zone[i]]]
<1>1. PassTrue(D, V)
  BY DEF PassTrue, PtrsTrue, Old
<1>2. CASE D.nd = <<>>
  BY <1>2, EmptyList, <1>1 DEF R_ZN_ND_Build, PassTrue, ZonesListed
<1>3. CASE D.nd # <<>>
  <2>1. /\ "zn" \in Tables /\ "nd" \in Tables /\ "r_zn_nd" \in Tables
        /\ "zn" \in Components /\ "nd" \in Components /\ "r_zn_nd" \in Relations
    BY DEF Tables, Components, Relations
  <2>2. IsTable("zn", D.zn) /\ IsTable("nd", D.nd) /\ D = [t \in Tables |-> D[t]]
    BY <2>1 DEF Sound, Typed
  <2>3. \A z \in DOMAIN D.zn :
          /\ D.zn[z].id \in Nat /\ IsList(D.zn[z].nds) /\ \A n \in DOMAIN D.zn[z].nds : D.zn[z].nds[n] \in Nat
          /\ D.zn[z].inds \in [DOMAIN D.zn[z].nds -> Nat]
          /\ \A n \in DOMAIN D.zn[z].nds : D.zn[z].inds[n] \in DOMAIN D.nd
    <3> TAKE z \in DOMAIN D.zn
    <3>1. IsRow("zn", D.zn[z]) /\ "id" \in Keys("zn")
      BY <2>1, <2>2, RowNames DEF IsTable
    <3>2. /\ D.zn[z].id \in Nat /\ IsList(D.zn[z].nds) /\ \A n \in DOMAIN D.zn[z].nds : D.zn[z].nds[n] \in Nat
          /\ D.zn[z].inds \in [DOMAIN D.zn[z].nds -> Nat]
      BY <3>1 DEF IsRow
    <3>3. \A n \in DOMAIN D.zn[z].nds : D.zn[z].inds[n] \in DOMAIN D.nd
      BY <3>2 DEF PassTrue, ZoneNodes
    <3>4. QED
      BY <3>2, <3>3
  <2>4. E = [D EXCEPT !["r_zn_nd"] = Inserted("r_zn_nd", s), !["zn"] = Z, !["nd"] = N]
    <3>1. Z = [z \in DOMAIN D.zn |-> IF OfZone(z) = {} THEN D.zn[z] ELSE [D.zn[z] EXCEPT !.ptr.r_nd = Min(OfZone(z))]]
      OBVIOUS
    <3>2. N = [i \in DOMAIN D.nd |-> IF ZonesAt(i) = {} THEN D.nd[i]
                                     ELSE [D.nd[i] EXCEPT !.zn_id = D.zn[Max(ZonesAt(i))].id]]
      OBVIOUS
    <3> HIDE DEF Z, N
    <3>3. QED
      BY <1>3, <2>1, <2>2, <3>1, <3>2 DEF R_ZN_ND_Build
  <2> DEFINE m == Len(D.zn)
             lens == [z \in 1..m |-> Len(D.zn[z].nds)]
  <2>5. m \in Nat /\ DOMAIN D.zn = 1..m /\ lens \in [1..m -> Nat]
    BY <2>2, <2>3 DEF IsTable, IsList
  <2>6. PICK n \in Nat : \A z \in 1..m : lens[z] <= n
    <3> HIDE DEF lens, m
    <3>1. QED
      BY <2>5, Bounded
  <2>7. M \in SUBSET ((1..m) \X (1..n))
    <3>1. \A z \in DOMAIN D.zn : \A x \in DOMAIN D.zn[z].nds : x \in 1..n
      <4> TAKE z \in DOMAIN D.zn
      <4>1. Len(D.zn[z].nds) \in Nat /\ Len(D.zn[z].nds) <= n /\ DOMAIN D.zn[z].nds = 1..Len(D.zn[z].nds)
        BY <2>3, <2>5, <2>6 DEF IsList
      <4>2. QED
        BY <4>1
    <3> HIDE DEF m
    <3>2. QED
      BY <2>5, <3>1
  <2> HIDE DEF m
  <2>8. Pairing(pairs, M)
    BY <2>5, <2>7, LoopOrder
  <2>m. \A x \in M : x[1] \in DOMAIN D.zn /\ x[2] \in DOMAIN D.zn[x[1]].nds
    OBVIOUS
  <2> HIDE DEF pairs, M
  <2>9. PICK l \in Nat : K = 1..l
    BY <2>8 DEF Pairing
  <2>10. \A k \in K : /\ k \in Nat /\ k # 0 /\ pairs[k][1] \in DOMAIN D.zn
                      /\ pairs[k][2] \in DOMAIN D.zn[pairs[k][1]].nds
                      /\ pairs[k][1] \in Nat
    BY <2>5, <2>8, <2>9, <2>m DEF Pairing
  <2>11. \A k \in K : /\ after(k) \in Nat /\ before(k) \in Nat
                      /\ after(k) # NoRow => after(k) \in K
                      /\ before(k) # NoRow => before(k) \in K
    BY <2>9 DEF NoRow
  <2> HIDE DEF after, before
  <2>12. IsTable("r_zn_nd", s) /\ DOMAIN s = K
    <3>1. \A k \in K : IsRow("r_zn_nd", Row(k))
      BY <2>1, <2>3, <2>10, <2>11, RelationRow
    <3> HIDE DEF Row
    <3>2. s = [k \in 1..l |-> s[k]] /\ DOMAIN s = K
      BY <2>9
    <3>3. \A k \in DOMAIN s : IsRow("r_zn_nd", s[k])
      BY <3>1
    <3> HIDE DEF s, K
    <3>4. QED
      BY <3>2, <3>3, FunctionList DEF IsTable
  <2>13. Inserted("r_zn_nd", s) = s
    BY <2>1, <2>12, InsertedIsCopy
  <2>14. \A k \in K : /\ s[k].ptr.parptr = pairs[k][1]
                      /\ s[k].ptr.chiptr = D.zn[pairs[k][1]].inds[pairs[k][2]]
                      /\ s[k].ptr.fptr = after(k) /\ s[k].ptr.bptr = before(k)
    BY DEF Relation
  <2>a. \A k \in K : s[k].par = D.zn[pairs[k][1]].id /\ s[k].chi = D.zn[pairs[k][1]].nds[pairs[k][2]]
    BY DEF Relation
  <2>b. \A k, j \in K : pairs[k][1] = pairs[j][1] /\ pairs[k][2] = pairs[j][2] => k = j
    BY <2>7, <2>8 DEF Pairing
  <2>15. \A z \in DOMAIN D.zn \ empty : first[z] \in Nat
    <3> SUFFICES ASSUME NEW z \in DOMAIN D.zn, OfZone(z) # {} PROVE Min(OfZone(z)) \in Nat
      OBVIOUS
    <3>1. OfZone(z) \in SUBSET (1..l)
      BY <2>9
    <3> HIDE DEF OfZone
    <3>2. l \in Nat /\ OfZone(z) # {}
      OBVIOUS
    <3>3. Min(OfZone(z)) \in OfZone(z)
      BY ONLY <3>1, <3>2, Extremes
    <3>4. QED
      BY <3>1, <3>3
  <2> HIDE DEF empty, free, first, zone
  <2>16. /\ IsTable("zn", Z) /\ DOMAIN Z = DOMAIN D.zn /\ Len(Z) = Len(D.zn)
         /\ \A i \in DOMAIN D.zn :
              /\ \A g \in Fields("zn") \ {"ptr"} : Z[i][g] = D.zn[i][g]
              /\ \A g \in Ptrs("zn") \ {"r_nd"} : Z[i].ptr[g] = D.zn[i].ptr[g]
    <3>1. "r_nd" \in Ptrs("zn")
      BY <2>1, RowNames DEF PtrNames
    <3>2. Z = Pointed(D.zn, empty, "r_nd", first)
      BY DEF Pointed
    <3> HIDE DEF Z
    <3>3. QED
      BY <2>1, <2>2, <2>15, <3>1, <3>2, SetPtrs
  <2>17. /\ IsTable("nd", N) /\ DOMAIN N = DOMAIN D.nd /\ Len(N) = Len(D.nd)
         /\ \A i \in DOMAIN D.nd : SameKeys("nd", D.nd[i], N[i]) /\ N[i].ptr = D.nd[i].ptr
    <3>1. "zn_id" \notin Keys("nd") \cup {"ptr", "nds", "inds"}
      BY DEF Keys
    <3>2. N = Valued(D.nd, free, "zn_id", zone)
      BY DEF Valued
    <3> HIDE DEF N
    <3>3. QED
      BY <2>1, <2>2, <3>1, <3>2, SetField
  <2> HIDE DEF Z, N, s, E
  <2>18. /\ E = [t \in Tables |-> E[t]] /\ E["r_zn_nd"] = s /\ E["zn"] = Z /\ E["nd"] = N
         /\ \A t \in Tables \ {"r_zn_nd", "zn", "nd"} : E[t] = D[t]
    BY <2>1, <2>2, <2>4, <2>13
  <2>19. Typed(E)
    BY <2>12, <2>16, <2>17, <2>18 DEF Typed, Sound
  <2>20. D["r_zn_nd"] = <<>> /\ DOMAIN D["r_zn_nd"] = {}
    BY EmptyList DEF PassTrue
  <2>21. Grows(D, E)
    <3> SUFFICES ASSUME NEW t \in Tables, NEW i \in DOMAIN D[t]
                 PROVE  i \in DOMAIN E[t] /\ SameKeys(t, D[t][i], E[t][i])
      BY DEF Grows
    <3>1. CASE t = "zn"
      BY <2>16, <2>18, <3>1 DEF SameKeys, Keys
    <3>2. CASE t = "nd"
      BY <2>17, <2>18, <3>2
    <3>3. CASE t \notin {"r_zn_nd", "zn", "nd"}
      BY <2>18, <3>3 DEF SameKeys
    <3>4. QED
      BY <2>20, <3>1, <3>2, <3>3
  <2>22. \A t \in Components : DOMAIN E[t] = DOMAIN D[t]
    BY <2>1, <2>16, <2>17, <2>18, TableNames
  <2>23. UniqueIds(E)
    BY <2>21, RowNames, TableNames, <2>22 DEF Grows, SameKeys, UniqueIds, Sound
  <2>24. Sound(E)
    <3>1. D.st # <<>>
      BY <2>1, StationsThere
    <3>2. "st" \in Tables \ {"r_zn_nd", "zn", "nd"}
      BY DEF Tables, Components
    <3>3. E["st"] = D["st"]
      BY <2>18, <3>2
    <3>4. QED
      BY <2>1, <2>19, <2>21, <2>22, <2>23, <3>1, <3>3, GrownSound
  <2>25. PtrsTrue(E, V)
    <3>1. ASSUME NEW k \in K, NEW f \in Ptrs("r_zn_nd") PROVE PtrTrue(E, "r_zn_nd", k, f)
      <4>1. Ptrs("r_zn_nd") = {"parptr", "chiptr", "fptr", "bptr"}
        BY <2>1, RelationNames
      <4>2. RelationEnds["r_zn_nd"] = <<"zn", "nd">>
        BY DEF RelationEnds
      <4>3. /\ Conversions["r_zn_nd"]["parptr"] = "zn" /\ Conversions["r_zn_nd"]["chiptr"] = "nd"
            /\ Conversions["r_zn_nd"]["fptr"] = "r_zn_nd" /\ Conversions["r_zn_nd"]["bptr"] = "r_zn_nd"
        BY <2>1, <4>2, RelationConversions
      <4>4. /\ s[k].ptr.parptr \in DOMAIN E["zn"] /\ s[k].ptr.chiptr \in DOMAIN E["nd"]
            /\ s[k].ptr.fptr # NoRow => s[k].ptr.fptr \in DOMAIN E["r_zn_nd"]
            /\ s[k].ptr.bptr # NoRow => s[k].ptr.bptr \in DOMAIN E["r_zn_nd"]
        <5>1. DOMAIN E["zn"] = DOMAIN D.zn /\ DOMAIN E["nd"] = DOMAIN D.nd /\ DOMAIN E["r_zn_nd"] = K
          BY <2>12, <2>16, <2>17, <2>18
        <5>2. pairs[k][1] \in DOMAIN D.zn /\ D.zn[pairs[k][1]].inds[pairs[k][2]] \in DOMAIN D.nd
          BY <2>3, <2>10
        <5> HIDE DEF K
        <5>3. QED
          BY <2>11, <2>14, <5>1, <5>2
      <4>5. QED
        BY <2>18, <4>1, <4>3, <4>4 DEF PtrTrue, Leads
    <3>2. ASSUME NEW t \in Tables, NEW f \in DOMAIN Conversions[t], NEW i \in DOMAIN E[t]
          PROVE  PtrTrue(E, t, i, f) \/ (i \in DOMAIN D[t] /\ E[t][i].ptr[f] = D[t][i].ptr[f])
      <4>1. CASE t = "r_zn_nd"
        <5>1. f \in Ptrs("r_zn_nd") /\ i \in K
          BY <2>1, <2>12, <2>18, <4>1, Targets
        <5>2. QED
          BY <3>1, <4>1, <5>1
      <4>2. CASE t = "zn"
        <5>1. f \in Ptrs("zn") \ {"r_nd"}
          BY <2>1, <4>2, Targets DEF Conversions, ZN_RebuildPtr
        <5>2. QED
          BY <2>16, <2>18, <4>2, <5>1
      <4>3. CASE t = "nd"
        BY <2>17, <2>18, <4>3
      <4>4. CASE t \notin {"r_zn_nd", "zn", "nd"}
        BY <2>18, <4>4
      <4>5. QED
        BY <4>1, <4>2, <4>3, <4>4
    <3> HIDE DEF V
    <3>3. PtrsTrue(D, V)
      BY <1>1 DEF PassTrue
    <3>4. Kept(D, E)
      BY <3>2 DEF Kept
    <3>5. QED
      BY <2>21, <3>3, <3>4, KeptPtrs
  <2>26. \A r \in Relations \ {"r_zn_nd"} : E[r] = D[r]
    BY <2>1, <2>18, TableNames
  <2>27. Heads(E)
    <3>1. \A f \in DOMAIN ND_RebuildPtr : ND_RebuildPtr[f] \in Relations \ {"r_zn_nd"}
      BY DEF ND_RebuildPtr, Relations
    <3>2. \A i \in DOMAIN E["nd"] : E["nd"][i].ptr = D["nd"][i].ptr /\ E["nd"][i].id = D["nd"][i].id
      BY <2>1, <2>17, <2>18, RowNames DEF SameKeys
    <3>3. DOMAIN E["nd"] = DOMAIN D["nd"]
      BY <2>17, <2>18
    <3>4. \A f \in DOMAIN ND_RebuildPtr : E[ND_RebuildPtr[f]] = D[ND_RebuildPtr[f]]
      BY <2>26, <3>1
    <3>5. Heads(D)
      BY DEF PassTrue
    <3>6. QED
      BY <3>2, <3>3, <3>4, <3>5 DEF Heads
  <2>28. ZoneNodes(E)
    <3>1. "inds" \in Fields("zn") \ {"ptr"}
      BY <2>1, RowNames DEF FieldNames
    <3>2. \A z \in DOMAIN E["zn"] : E["zn"][z].inds = D["zn"][z].inds
      BY <2>16, <2>18, <3>1
    <3>3. QED
      BY <2>16, <2>17, <2>18, <3>2 DEF ZoneNodes, PassTrue
  <2>29. \A r \in V : E[r] = <<>>
    BY <2>26 DEF PassTrue
  <2>30. \A r \in Linking : EndsSet(E[r]) /\ Chained(E[r])
    BY <2>26 DEF PassTrue, Linking
  <2>c. ZonesListed(D, E)
    <3>1. DOMAIN E["r_zn_nd"] = K
      BY <2>12, <2>18
    <3> HIDE DEF K
    <3>2. \A k \in DOMAIN E["r_zn_nd"] :
            /\ pairs[k][1] \in DOMAIN D["zn"] /\ pairs[k][2] \in DOMAIN D["zn"][pairs[k][1]].nds
            /\ E["r_zn_nd"][k].par = D["zn"][pairs[k][1]].id
            /\ E["r_zn_nd"][k].chi = D["zn"][pairs[k][1]].nds[pairs[k][2]]
            /\ \A j \in DOMAIN E["r_zn_nd"] : pairs[k][1] = pairs[j][1] /\ pairs[k][2] = pairs[j][2] => k = j
      BY <2>10, <2>18, <2>a, <2>b, <3>1
    <3>3. /\ DOMAIN E["zn"] = DOMAIN D["zn"]
          /\ \A z \in DOMAIN D["zn"] : \A g \in Fields("zn") \ {"ptr"} : E["zn"][z][g] = D["zn"][z][g]
      BY <2>16, <2>18
    <3>4. \A t \in Tables \ {"r_zn_nd", "zn", "nd"} : E[t] = D[t]
      BY <2>18
    <3> HIDE DEF pairs, E, Row, OfZone, ZonesAt, lens
    <3>5. \E w : \A k \in DOMAIN E["r_zn_nd"] :
            /\ w[k][1] \in DOMAIN D["zn"] /\ w[k][2] \in DOMAIN D["zn"][w[k][1]].nds
            /\ E["r_zn_nd"][k].par = D["zn"][w[k][1]].id
            /\ E["r_zn_nd"][k].chi = D["zn"][w[k][1]].nds[w[k][2]]
            /\ \A j \in DOMAIN E["r_zn_nd"] : w[k][1] = w[j][1] /\ w[k][2] = w[j][2] => k = j
      BY <3>2
    <3>6. QED
      BY <3>3, <3>4, <3>5 DEF ZonesListed
  <2>31. QED
    BY <2>24, <2>25, <2>27, <2>28, <2>29, <2>30, <2>c DEF PassTrue, E
<1>4. QED
  BY <1>2, <1>3

-----------------------------------------------------------------------------
(* Nodes and their branches.                                               *)

LEMMA Position ==
  ASSUME NEW D, NEW t, IsList(D[t]), NEW id
  PROVE  LET p == PosOf(id, t, D)
         IN  /\ p = NoRow => \A i \in DOMAIN D[t] : D[t][i].id # id
             /\ p # NoRow => p \in DOMAIN D[t] /\ D[t][p].id = id
<1>1. At(id, t, D) = {i \in DOMAIN D[t] : D[t][i].id = id} /\ NoRow \notin DOMAIN D[t]
  BY DEF At, Range1, IsList, NoRow
<1>2. QED
  BY <1>1 DEF PosOf

LEMMA NodeInserted ==
  ASSUME NEW D, Sound(D), D.st # <<>>, NEW W \in SUBSET Relations, PassTrue(D, W), NEW id \in Nat
  PROVE  LET E == ND_Insert(D, id)
         IN  /\ Going(D, E, W) /\ Elsewhere(D, E, {"nd"})
             /\ PosOf(id, "nd", E) \in DOMAIN E["nd"] /\ E["nd"][PosOf(id, "nd", E)].id = id
<1> DEFINE E == ND_Insert(D, id)
           row == CLS_ND(id)
           n == Len(D["nd"])
<1>1. "nd" \in Tables /\ "nd" \in Components /\ "nd" \notin Relations
  BY TableNames
<1>2. IsTable("nd", D["nd"]) /\ D = [t \in Tables |-> D[t]]
  BY <1>1 DEF Sound, Typed
<1>3. CASE PosOf(id, "nd", D) # NoRow
  <2>1. E = D
    BY <1>3 DEF ND_Insert
  <2>2. Grows(D, D)
    BY DEF Grows, SameKeys
  <2> HIDE DEF E
  <2>3. QED
    BY <1>2, <1>3, <2>1, <2>2, Position DEF Going, Elsewhere, IsTable, E
<1>4. CASE PosOf(id, "nd", D) = NoRow
  <2>1. IsRow("nd", row) /\ \A f \in Ptrs("nd") : row.ptr[f] = NoRow
    <3>1. Ptrs("nd") = {"r_cb", "r_switch", "r_xf", "r_sec", "r_cp", "r_ld"}
          /\ Fields("nd") = {"id", "zn_id", "unproc", "ptr"} /\ Keys("nd") = {"id"}
      BY <1>1 DEF Ptrs, Fields, PtrNames, FieldNames, Keys
    <3>2. row = [f \in {"id", "zn_id", "unproc", "ptr"} |-> row[f]]
      BY DEF CLS_ND
    <3>3. /\ row.ptr \in [{"r_cb", "r_switch", "r_xf", "r_sec", "r_cp", "r_ld"} -> Nat] /\ row.id = id
          /\ \A f \in {"r_cb", "r_switch", "r_xf", "r_sec", "r_cp", "r_ld"} : row.ptr[f] = NoRow
      BY DEF CLS_ND, NoPtrs, NoRow
    <3> HIDE DEF row
    <3>4. QED
      BY <3>1, <3>2, <3>3 DEF IsRow
  <2>a. row.id = id
    BY DEF CLS_ND
  <2> HIDE DEF row, n
  <2>2. E = [D EXCEPT !["nd"] = Insert("nd", D["nd"], row)]
    BY <1>4 DEF ND_Insert, row
  <2> HIDE DEF E
  <2>3. E = [t \in Tables |-> E[t]] /\ E["nd"] = Insert("nd", D["nd"], row)
        /\ \A t \in Tables \ {"nd"} : E[t] = D[t]
    BY <1>1, <1>2, <2>2
  <2>4. /\ IsTable("nd", E["nd"]) /\ n \in Nat /\ DOMAIN E["nd"] = 1 .. (n + 1)
        /\ \A i \in DOMAIN D["nd"] : i \in DOMAIN E["nd"] /\ E["nd"][i] = D["nd"][i]
        /\ E["nd"][n + 1] = row
    BY <1>1, <1>2, <2>1, <2>3, InsertRow DEF n
  <2>5. \A i \in DOMAIN E["nd"] : i \in DOMAIN D["nd"] \/ i = n + 1
    BY <1>2, <2>4 DEF IsTable, IsList, n
  <2>6. Typed(E)
    BY <2>3, <2>4 DEF Typed, Sound
  <2>7. Grows(D, E)
    BY <2>3, <2>4 DEF Grows, SameKeys
  <2>b. \A i \in DOMAIN D["nd"] : D["nd"][i].id # id
    BY <1>2, <1>4, Position DEF IsTable
  <2>8. UniqueIds(E)
    <3>1. \A t \in Components \ {"nd"} : E[t] = D[t]
      BY <2>3, TableNames
    <3>2. ASSUME NEW i \in DOMAIN E["nd"], NEW j \in DOMAIN E["nd"], E["nd"][i].id = E["nd"][j].id PROVE i = j
      <4>1. (i \in DOMAIN D["nd"] /\ E["nd"][i] = D["nd"][i]) \/ (i = n + 1 /\ E["nd"][i].id = id)
        BY <2>4, <2>5, <2>a
      <4>2. (j \in DOMAIN D["nd"] /\ E["nd"][j] = D["nd"][j]) \/ (j = n + 1 /\ E["nd"][j].id = id)
        BY <2>4, <2>5, <2>a
      <4>3. QED
        BY <1>1, <2>b, <3>2, <4>1, <4>2 DEF Sound, UniqueIds
    <3>3. QED
      BY <3>1, <3>2 DEF UniqueIds, Sound
  <2>9. Sound(E) /\ E.st # <<>>
    BY <2>3, <2>6, <2>7, <2>8, GrownSound DEF Tables, Components
  <2>10. PtrsTrue(E, W)
    <3>1. ASSUME NEW t \in Tables, NEW f \in DOMAIN Conversions[t], NEW i \in DOMAIN E[t]
          PROVE  PtrTrue(E, t, i, f) \/ (i \in DOMAIN D[t] /\ E[t][i].ptr[f] = D[t][i].ptr[f])
      <4>1. CASE t # "nd"
        BY <2>3, <4>1
      <4>2. CASE t = "nd" /\ i \in DOMAIN D["nd"]
        BY <2>4, <4>2
      <4>3. CASE t = "nd" /\ i = n + 1
        <5>1. E[t][i].ptr[f] = NoRow
          BY <1>1, <2>1, <2>4, <4>3, Targets
        <5>2. QED
          BY <5>1 DEF PtrTrue
      <4>4. QED
        BY <2>5, <4>1, <4>2, <4>3
    <3>2. Kept(D, E)
      BY <3>1 DEF Kept
    <3>3. QED
      BY <2>7, <3>2, KeptPtrs DEF PassTrue
  <2>11. \A r \in Relations : E[r] = D[r]
    BY <1>1, <2>3, TableNames
  <2>12. Heads(E)
    <3> SUFFICES ASSUME NEW f \in DOMAIN ND_RebuildPtr, NEW i \in DOMAIN E["nd"], E["nd"][i].ptr[f] = NoRow,
                        NEW k \in DOMAIN E[ND_RebuildPtr[f]]
                 PROVE  E[ND_RebuildPtr[f]][k].par # E["nd"][i].id
      BY DEF Heads
    <3> DEFINE r == ND_RebuildPtr[f]
    <3>1. r \in Linking /\ r \in Relations /\ RelationEnds[r][1] = "nd"
      BY DEF ND_RebuildPtr, Linking, Relations, RelationEnds
    <3> HIDE DEF r
    <3>2. E[r] = D[r]
      BY <2>11, <3>1
    <3>3. CASE i \in DOMAIN D["nd"]
      BY <2>4, <3>2, <3>3 DEF PassTrue, Heads, r
    <3>4. CASE i = n + 1
      <4>1. E["nd"][i].id = id
        BY <2>4, <2>a, <3>4
      <4>2. D[r][k].ptr.parptr # NoRow
        BY <3>1, <3>2 DEF PassTrue, EndsSet, r
      <4>3. r \in Tables /\ "parptr" \in DOMAIN Conversions[r] /\ Conversions[r]["parptr"] = "nd"
        BY <3>1, TableNames, RelationNames, RelationConversions
      <4>4. PtrTrue(D, r, k, "parptr")
        BY <3>1, <3>2, <4>3, TableNames DEF PassTrue, PtrsTrue, Old, r
      <4>5. D[r][k].ptr.parptr \in DOMAIN D["nd"] /\ D["nd"][D[r][k].ptr.parptr].id = D[r][k].par
        BY <3>1, <4>2, <4>3, <4>4, TableNames DEF PtrTrue, Leads, Linking
      <4>6. QED
        BY <2>b, <3>2, <4>1, <4>5 DEF r
    <3>5. QED
      BY <2>5, <3>3, <3>4
  <2>13. ZoneNodes(E)
    <3>1. "zn" \in Tables \ {"nd"}
      BY DEF Tables, Components
    <3>2. E["zn"] = D["zn"]
      BY <2>3, <3>1
    <3>3. \A i : i \in DOMAIN D["nd"] => i \in DOMAIN E["nd"]
      BY <2>4
    <3>4. QED
      BY <3>2, <3>3 DEF ZoneNodes, PassTrue
  <2>14. PassTrue(E, W)
    BY <2>10, <2>11, <2>12, <2>13 DEF PassTrue, Linking
  <2>15. PosOf(id, "nd", E) \in DOMAIN E["nd"] /\ E["nd"][PosOf(id, "nd", E)].id = id
    BY <2>4, <2>a, Position DEF IsTable
  <2>16. QED
    BY <2>3, <2>7, <2>9, <2>14, <2>15 DEF Going, Elsewhere, E
<1>5. QED
  BY <1>3, <1>4

LEMMA SetPtr ==
  ASSUME NEW t \in Tables, NEW s, IsTable(t, s), NEW i \in DOMAIN s, NEW f \in Ptrs(t), NEW p \in Nat
  PROVE  LET u == PtrSet(s, i, f, p)
         IN  /\ IsTable(t, u) /\ DOMAIN u = DOMAIN s /\ Len(u) = Len(s)
             /\ \A j \in DOMAIN s : SameKeys(t, s[j], u[j]) /\ (j # i => u[j] = s[j])
             /\ \A g \in Fields(t) \ {"ptr"} : u[i][g] = s[i][g]
             /\ \A g \in Ptrs(t) \ {f} : u[i].ptr[g] = s[i].ptr[g]
             /\ u[i].ptr[f] = p
<1> DEFINE u == PtrSet(s, i, f, p)
           S == DOMAIN s \ {i}
           q == [j \in DOMAIN s |-> p]
<1>1. u = Pointed(s, S, f, q)
  BY DEF IsTable, IsList, PtrSet, Pointed
<1>2. \A j \in DOMAIN s \ S : q[j] \in Nat
  OBVIOUS
<1>3. S = DOMAIN s \ {i} /\ q[i] = p /\ \A j \in S : u[j] = s[j]
  BY DEF IsTable, IsList, PtrSet
<1> HIDE DEF u, S, q
<1>4. /\ IsTable(t, u) /\ DOMAIN u = DOMAIN s /\ Len(u) = Len(s)
      /\ \A j \in DOMAIN s :
           /\ \A g \in Fields(t) \ {"ptr"} : u[j][g] = s[j][g]
           /\ \A g \in Ptrs(t) \ {f} : u[j].ptr[g] = s[j].ptr[g]
           /\ u[j].ptr[f] = IF j \in S THEN s[j].ptr[f] ELSE q[j]
  BY SMTT(40), <1>1, <1>2, SetPtrs
<1>5. QED
  BY <1>3, <1>4 DEF SameKeys, Keys, u

LEMMA SetToNode ==
  ASSUME NEW D, NEW W, Ready(D, W), NEW t, NEW i, NEW f, NEW id, NodeKey(D, t, i, f, id)
  PROVE  NodeIsSet(D, OnNode(D, t, i, f, id), W, t, i, f)
<1> SUFFICES ASSUME Sound(D), D.st # <<>>, W \in SUBSET Relations, PassTrue(D, W),
                      t \in Placed, i \in DOMAIN D[t], f \in {"ind", "iznd"}, f \in Ptrs(t),
                      id = D[t][i][IF f = "ind" THEN "nd" ELSE "znd"]
               PROVE  LET E == OnNode(D, t, i, f, id)
                      IN  /\ Going(D, E, W) /\ Elsewhere(D, E, {"nd", t})
                          /\ DOMAIN E[t] = DOMAIN D[t]
                          /\ \A g \in Ptrs(t) \ {f} : E[t][i].ptr[g] = D[t][i].ptr[g]
                          /\ E[t][i].ptr[f] \in DOMAIN E["nd"] /\ E[t][i].ptr[f] # NoRow
  BY DEF Ready, NodeKey, NodeIsSet
<1> DEFINE F == ND_Insert(D, id)
           p == PosOf(id, "nd", F)
           E == OnNode(D, t, i, f, id)
           key == IF f = "ind" THEN "nd" ELSE "znd"
<1>1. t \in Components /\ t \in Tables /\ t \notin {"nd", "st", "zn"} /\ "nd" \in Tables
  BY DEF Placed, Components, Tables
<1>2. f \in DOMAIN Conversions[t] /\ Conversions[t][f] = "nd" /\ key \in Keys(t)
  <2>1. f \in DOMAIN Conversions[t]
    BY <1>1, RowNames DEF Placed, PtrNames, Conversions, CB_RebuildPtr, SWITCH_RebuildPtr, SO_RebuildPtr,
       LD_RebuildPtr, CP_RebuildPtr, BUS_RebuildPtr, SEC_RebuildPtr
  <2>2. QED
    BY <1>1, <2>1, ComponentConversions
<1>3. id \in Nat
  <2>1. IsRow(t, D[t][i])
    BY <1>1 DEF Sound, Typed, IsTable
  <2>2. QED
    BY <1>2, <2>1 DEF IsRow
<1>4. /\ Going(D, F, W) /\ Elsewhere(D, F, {"nd"})
      /\ p \in DOMAIN F["nd"] /\ F["nd"][p].id = id
  BY <1>3, NodeInserted
<1>5. E = [F EXCEPT ![t] = [F[t] EXCEPT ![i].ptr[f] = p]]
  <2>1. E = [F EXCEPT ![t][i].ptr[f] = p]
    BY DEF OnNode
  <2> HIDE DEF E, F, p
  <2>2. QED
    BY <2>1
<1> HIDE DEF F, p, E
<1>6. F[t] = D[t] /\ Typed(F)
  BY <1>1, <1>4 DEF Elsewhere, Going, Sound
<1>7. IsTable(t, D[t]) /\ p \in Nat /\ p # NoRow
  BY <1>1, <1>4, <1>6 DEF Typed, IsTable, IsList, NoRow
<1>8. /\ IsTable(t, E[t]) /\ DOMAIN E[t] = DOMAIN D[t]
      /\ \A j \in DOMAIN D[t] : SameKeys(t, D[t][j], E[t][j]) /\ (j # i => E[t][j] = D[t][j])
      /\ \A g \in Ptrs(t) \ {f} : E[t][i].ptr[g] = D[t][i].ptr[g]
      /\ E[t][i].ptr[f] = p
  <2>1. E[t] = PtrSet(D[t], i, f, p)
    BY <1>1, <1>5, <1>6 DEF Typed, PtrSet
  <2>2. QED
    BY <1>1, <1>7, <2>1, SetPtr
<1>9. E = [u \in Tables |-> E[u]] /\ \A u \in Tables \ {t} : E[u] = F[u]
  BY <1>1, <1>5, <1>6 DEF Typed
<1>10. Typed(E)
  BY <1>6, <1>8, <1>9 DEF Typed
<1>11. Grows(F, E)
  BY <1>6, <1>8, <1>9 DEF Grows, SameKeys
<1>12. Grows(D, E)
  BY <1>4, <1>11 DEF Going, Grows, SameKeys
<1>13. UniqueIds(E)
  <2>1. \A u \in Components : DOMAIN E[u] = DOMAIN F[u]
    BY <1>6, <1>8, <1>9, TableNames
  <2>2. \A u \in Components : \A j \in DOMAIN F[u] : E[u][j].id = F[u][j].id
    BY <1>11, RowNames, TableNames DEF Grows, SameKeys
  <2>3. QED
    BY <1>4, <2>1, <2>2 DEF UniqueIds, Going, Sound
<1>14. Sound(E) /\ E.st # <<>>
  <2>1. {"st", "zn"} \subseteq Tables \ {t}
    BY <1>1 DEF Tables, Components
  <2>2. E.st = F.st /\ E.zn = F.zn
    BY <1>9, <2>1
  <2>3. QED
    BY <1>4, <1>10, <1>11, <1>13, <2>2, GrownSound DEF Going
<1>15. PtrsTrue(E, W)
  <2>1. ASSUME NEW u \in Tables, NEW g \in DOMAIN Conversions[u], NEW j \in DOMAIN E[u]
        PROVE  PtrTrue(E, u, j, g) \/ (j \in DOMAIN F[u] /\ E[u][j].ptr[g] = F[u][j].ptr[g])
    <3>1. CASE u # t
      BY <1>9, <3>1
    <3>2. CASE u = t /\ j # i
      BY <1>6, <1>8, <3>2
    <3>3. CASE u = t /\ g # f
      BY <1>1, <1>6, <1>8, <3>3, Targets
    <3>4. CASE u = t /\ j = i /\ g = f
      <4>1. E["nd"] = F["nd"]
        BY <1>1, <1>9
      <4>2. E[t][i][key] = id
        BY <1>2, <1>8 DEF SameKeys
      <4>3. Leads(t, f, E[t][i], E["nd"][p])
        BY <1>4, <4>1, <4>2 DEF Leads
      <4>4. QED
        BY <1>2, <1>4, <1>8, <3>4, <4>1, <4>3 DEF PtrTrue
    <3>5. QED
      BY <3>1, <3>2, <3>3, <3>4
  <2>2. Kept(F, E)
    BY <2>1 DEF Kept
  <2>3. QED
    BY <1>4, <1>11, <2>2, KeptPtrs DEF Going, PassTrue
<1>16. PassTrue(E, W)
  <2>1. \A r \in Relations : E[r] = F[r]
    BY <1>1, <1>9, TableNames
  <2>2. E["nd"] = F["nd"] /\ E["zn"] = F["zn"]
    BY <1>1, <1>9, TableNames
  <2>3. \A g \in DOMAIN ND_RebuildPtr : ND_RebuildPtr[g] \in Relations
    BY DEF ND_RebuildPtr, Relations
  <2>4. Heads(E)
    BY <1>4, <2>1, <2>2, <2>3 DEF Going, PassTrue, Heads
  <2>5. ZoneNodes(E)
    BY <1>4, <2>2 DEF Going, PassTrue, ZoneNodes
  <2>6. QED
    BY <1>4, <1>15, <2>1, <2>4, <2>5 DEF Going, PassTrue, Linking
<1>17. QED
  <2>1. E["nd"] = F["nd"]
    BY <1>1, <1>9
  <2>2. Elsewhere(D, E, {"nd", t})
    BY <1>4, <1>9 DEF Elsewhere
  <2>3. QED
    BY <1>4, <1>7, <1>8, <1>12, <1>14, <1>16, <2>1, <2>2 DEF Going, E

\* The last row of a chain is found (the loop over fptr in ..._Insert ends).
LEMMA ChainEnd ==
  ASSUME NEW D, NEW r, IsList(D[r]), Chained(D[r]),
         \A j \in DOMAIN D[r] : D[r][j].ptr.fptr # NoRow =>
           D[r][j].ptr.fptr \in DOMAIN D[r] /\ D[r][D[r][j].ptr.fptr].par = D[r][j].par,
         NEW k \in DOMAIN D[r]
  PROVE  /\ LastOf(D, r, k) \in DOMAIN D[r]
         /\ D[r][LastOf(D, r, k)].ptr.fptr = NoRow /\ D[r][LastOf(D, r, k)].par = D[r][k].par
<1> DEFINE S == DOMAIN D[r]
           next(j) == D[r][j].ptr.fptr
           par(j) == D[r][j].par
           IsLast(g) == g = [j \in S |-> IF next(j) = NoRow THEN j ELSE g[next(j)]]
           Good(j, x) == x \in S /\ next(x) = NoRow /\ par(x) = par(j)
           end == [j \in S |-> CHOOSE x \in S : Good(j, x)]
           last == CHOOSE g : IsLast(g)
<1>1. LastOf(D, r, k) = last[k]
  BY DEF LastOf
<1>2. S \in SUBSET (1..Len(D[r])) /\ Len(D[r]) \in Nat /\ \A j \in S : j \in Nat /\ j # NoRow
  BY DEF IsList, NoRow
<1>3. \A j \in S : /\ next(j) # NoRow => next(j) \in S /\ par(next(j)) = par(j) /\ j < next(j)
                   /\ next(j) = NoRow => \A x \in S : par(x) = par(j) => x <= j
  BY DEF Chained
<1> HIDE DEF S, next, par
<1>4. \A j \in S : \E x \in S : Good(j, x)
  <2> TAKE j \in S
  <2> DEFINE T == {x \in S : par(x) = par(j)}
  <2>1. T \in SUBSET (1..Len(D[r])) /\ j \in T
    BY <1>2
  <2>2. Max(T) \in T /\ \A x \in T : x <= Max(T)
    <3> HIDE DEF T
    <3>1. QED
      BY <1>2, <2>1, Extremes
  <2> DEFINE m == Max(T)
  <2> HIDE DEF m
  <2>3. m \in S /\ par(m) = par(j) /\ \A x \in S : par(x) = par(j) => x <= m
    BY <2>2 DEF m
  <2>4. next(m) = NoRow
    <3>1. SUFFICES ASSUME next(m) # NoRow PROVE FALSE
      OBVIOUS
    <3>2. next(m) \in S /\ par(next(m)) = par(j) /\ m < next(m)
      BY <1>3, <2>3, <3>1
    <3>3. next(m) <= m /\ m \in Nat /\ next(m) \in Nat
      BY <1>2, <2>3, <3>2
    <3>4. QED
      BY <3>2, <3>3
  <2>5. QED
    BY <2>3, <2>4
<1>5. \A j \in S : \A x, y \in S : Good(j, x) /\ Good(j, y) => x = y
  <2> SUFFICES ASSUME NEW j \in S, NEW x \in S, NEW y \in S, Good(j, x), Good(j, y) PROVE x = y
    OBVIOUS
  <2>1. x <= y /\ y <= x
    BY <1>3
  <2>2. QED
    BY <1>2, <2>1
<1>6. \A j \in S : Good(j, end[j])
  BY <1>4
<1>7. IsLast(end)
  <2> SUFFICES ASSUME NEW j \in S PROVE end[j] = IF next(j) = NoRow THEN j ELSE end[next(j)]
    <3>1. end = [j \in S |-> end[j]]
      OBVIOUS
    <3> HIDE DEF end
    <3>2. QED
      BY <3>1
  <2>1. CASE next(j) = NoRow
    <3>1. Good(j, j)
      BY <2>1
    <3>2. QED
      BY <1>5, <1>6, <2>1, <3>1
  <2>2. CASE next(j) # NoRow
    <3>1. next(j) \in S /\ par(next(j)) = par(j)
      BY <1>3, <2>2
    <3>2. Good(j, end[next(j)])
      BY <1>6, <3>1
    <3> HIDE DEF end
    <3>3. QED
      BY <1>5, <1>6, <2>2, <3>2
  <2>3. QED
    BY <2>1, <2>2
<1>8. IsLast(last)
  <2> HIDE DEF IsLast, end
  <2>1. QED
    BY <1>7
<1> HIDE DEF last
<1>9. \A j \in S : last[j] = IF next(j) = NoRow THEN j ELSE last[next(j)]
  BY <1>8
<1>10. Good(k, last[k])
  <2> DEFINE Bad == {j \in S : ~Good(j, last[j])}
  <2>1. SUFFICES ASSUME Bad # {} PROVE FALSE
    BY DEF S
  <2>2. Bad \in SUBSET (1..Len(D[r]))
    BY <1>2
  <2> HIDE DEF Good
  <2>3. Max(Bad) \in Bad /\ \A j \in Bad : j <= Max(Bad)
    <3> HIDE DEF Bad
    <3>1. QED
      BY <1>2, <2>1, <2>2, Extremes
  <2> DEFINE m == Max(Bad)
  <2> HIDE DEF m
  <2>4. m \in S /\ ~Good(m, last[m]) /\ \A j \in S : ~Good(j, last[j]) => j <= m
    BY <2>3 DEF m
  <2>5. CASE next(m) = NoRow
    BY <1>9, <2>4, <2>5 DEF Good
  <2>6. CASE next(m) # NoRow
    <3>1. next(m) \in S /\ par(next(m)) = par(m) /\ m < next(m)
      BY <1>3, <2>4, <2>6
    <3>2. ~(next(m) <= m)
      <4>1. m \in S
        BY <2>4
      <4>2. m \in Nat /\ next(m) \in Nat
        BY <1>2, <3>1, <4>1
      <4> HIDE DEF next
      <4>3. QED
        BY <3>1, <4>2
    <3>3. Good(next(m), last[next(m)])
      BY <2>4, <3>1, <3>2
    <3>4. last[m] = last[next(m)]
      BY <1>9, <2>4, <2>6
    <3>5. QED
      BY <2>4, <3>1, <3>3, <3>4 DEF Good
  <2>7. QED
    BY <2>5, <2>6
<1>11. QED
  BY <1>1, <1>10 DEF S, next, par

\* A branch is put at the end of the chain of its node.
LEMMA RowPut ==
  ASSUME NEW D, NEW W, Ready(D, W), NEW r, r \notin W, NEW f, NEW n, NEW t, NEW i, RowPlace(D, r, f, n, t, i)
  PROVE  LET E == ND_BR_Insert(D, r, f, n, t, i) IN RowIsIn(D, E, W, r) /\ RowIsLast(D, E, r, n, t, i)
<1> SUFFICES ASSUME Sound(D), D.st # <<>>, W \in SUBSET Relations, PassTrue(D, W),
                      f \in DOMAIN ND_RebuildPtr, r = ND_RebuildPtr[f], t = RelationEnds[r][2],
                      n \in DOMAIN D["nd"], i \in DOMAIN D[t]
               PROVE  LET E == ND_BR_Insert(D, r, f, n, t, i)
                      IN  /\ Going(D, E, W) /\ Elsewhere(D, E, {"nd", r}) /\ DOMAIN E["nd"] = DOMAIN D["nd"]
                          /\ RowIsLast(D, E, r, n, t, i)
  BY DEF Ready, RowPlace, RowIsIn
<1> DEFINE E == ND_BR_Insert(D, r, f, n, t, i)
           m == Len(D[r])
           head == D["nd"][n].ptr[f]
           id == D["nd"][n].id
           last == IF head = NoRow THEN NoRow ELSE LastOf(D, r, head)
           s == IF head = NoRow THEN D[r] ELSE PtrSet(D[r], last, "fptr", m + 1)
           N == IF head = NoRow THEN PtrSet(D["nd"], n, f, m + 1) ELSE D["nd"]
           row == Relation(id, D[t][i].id, n, i, NoRow, last)
<1>1. /\ r \in Linking /\ r \in Relations /\ r \in Tables /\ r # "r_zn_nd"
      /\ RelationEnds[r] = <<"nd", t>> /\ t \in Components /\ t \in Tables
      /\ f \in Ptrs("nd") /\ f \in DOMAIN Conversions["nd"] /\ Conversions["nd"][f] = r
      /\ "nd" \in Tables /\ "nd" \in Components /\ r # "nd"
      /\ {"st", "zn"} \subseteq Tables \ {"nd", r} /\ t \notin {"nd", "st", "zn", r}
      /\ \A g \in DOMAIN ND_RebuildPtr : ND_RebuildPtr[g] \in Relations /\ (g # f => ND_RebuildPtr[g] # r)
  <2>1. /\ r \in Linking /\ r \in Relations /\ r # "r_zn_nd" /\ RelationEnds[r] = <<"nd", t>>
        /\ t \in {"cb", "switch", "sec", "cp", "ld"}
    BY DEF ND_RebuildPtr, RelationEnds, Linking, Relations
  <2>2. t \in Components /\ t \notin {"nd", "st", "zn"} /\ "st" \in Components
    BY <2>1 DEF Components
  <2>3. f \in DOMAIN Conversions["nd"] /\ Conversions["nd"][f] = r
    BY DEF Conversions
  <2>4. \A g \in DOMAIN ND_RebuildPtr : ND_RebuildPtr[g] \in Relations /\ (g # f => ND_RebuildPtr[g] # r)
    BY DEF ND_RebuildPtr, Relations
  <2>5. f \in Ptrs("nd")
    BY <2>3, TableNames, Targets
  <2>6. QED
    BY <2>1, <2>2, <2>3, <2>4, <2>5, TableNames
<1>2. /\ Typed(D) /\ D = [u \in Tables |-> D[u]]
      /\ IsTable(r, D[r]) /\ IsTable("nd", D["nd"]) /\ IsTable(t, D[t])
  BY <1>1 DEF Sound, Typed
<1>3. /\ m \in Nat /\ DOMAIN D[r] = 1..m /\ m + 1 # NoRow /\ m + 1 \in Nat /\ m + 1 \notin DOMAIN D[r]
      /\ \A j \in DOMAIN D[r] : j \in Nat /\ j < m + 1
  <2>1. m \in Nat /\ DOMAIN D[r] = 1..m
    BY <1>2 DEF IsTable, IsList
  <2> HIDE DEF m
  <2>2. QED
    BY <2>1 DEF NoRow
<1>4. /\ id \in Nat /\ D[t][i].id \in Nat /\ n \in Nat /\ n # NoRow /\ i \in Nat /\ i # NoRow
  <2>1. IsRow("nd", D["nd"][n]) /\ IsRow(t, D[t][i])
    BY <1>2 DEF IsTable
  <2>2. "id" \in Keys("nd") /\ "id" \in Keys(t)
    BY <1>1, RowNames
  <2>3. id \in Nat /\ D[t][i].id \in Nat
    BY <2>1, <2>2 DEF IsRow
  <2>4. /\ DOMAIN D["nd"] = 1..Len(D["nd"]) /\ Len(D["nd"]) \in Nat
        /\ DOMAIN D[t] = 1..Len(D[t]) /\ Len(D[t]) \in Nat
    BY <1>2 DEF IsTable, IsList
  <2>5. n \in Nat /\ n # NoRow /\ i \in Nat /\ i # NoRow
    BY <2>4 DEF NoRow
  <2>6. QED
    BY <2>3, <2>5
<1>5. head # NoRow => last \in DOMAIN D[r] /\ D[r][last].ptr.fptr = NoRow /\ D[r][last].par = id
  <2> SUFFICES ASSUME head # NoRow
               PROVE  last \in DOMAIN D[r] /\ D[r][last].ptr.fptr = NoRow /\ D[r][last].par = id
    OBVIOUS
  <2>1. PtrTrue(D, "nd", n, f)
    BY <1>1 DEF PassTrue, PtrsTrue, Old
  <2>2. head \in DOMAIN D[r] /\ D[r][head].par = id
    BY <1>1, <2>1, RelationConversions, TableNames, ComponentConversions DEF PtrTrue, Leads
  <2>3. Conversions[r]["fptr"] = r /\ "fptr" \in DOMAIN Conversions[r]
    BY <1>1, RelationConversions, RelationNames
  <2>4. \A j \in DOMAIN D[r] : PtrTrue(D, r, j, "fptr")
    BY <1>1, <2>3 DEF PassTrue, PtrsTrue, Old
  <2>5. \A j \in DOMAIN D[r] : D[r][j].ptr.fptr # NoRow =>
           D[r][j].ptr.fptr \in DOMAIN D[r] /\ D[r][D[r][j].ptr.fptr].par = D[r][j].par
    BY <1>1, <2>3, <2>4, TableNames DEF PtrTrue, Leads, Components
  <2>6. IsList(D[r]) /\ Chained(D[r])
    BY <1>1, <1>2 DEF IsTable, PassTrue
  <2>7. LastOf(D, r, head) \in DOMAIN D[r] /\ D[r][LastOf(D, r, head)].ptr.fptr = NoRow
        /\ D[r][LastOf(D, r, head)].par = D[r][head].par
    BY <2>2, <2>5, <2>6, ChainEnd
  <2>8. QED
    BY <2>2, <2>7
<1>6. last \in Nat /\ (last = NoRow => head = NoRow) /\ (head = NoRow => last = NoRow)
  BY <1>3, <1>5 DEF NoRow
<1>7. IsRow(r, row) /\ row.par = id /\ row.chi = D[t][i].id /\ row.ptr.parptr = n /\ row.ptr.chiptr = i
      /\ row.ptr.fptr = NoRow /\ row.ptr.bptr = last
  <2>1. IsRow(r, row)
    <3> HIDE DEF id, last
    <3>1. NoRow \in Nat
      BY DEF NoRow
    <3>2. QED
      BY <1>1, <1>4, <1>6, <3>1, RelationRow
  <2>2. QED
    BY <2>1 DEF Relation
<1> HIDE DEF row
<1>8. E = [D EXCEPT !["nd"] = N, ![r] = Insert(r, s, row)]
  <2> HIDE DEF last, id
  <2>1. CASE head = NoRow
    BY <1>1, <1>2, <2>1 DEF ND_BR_Insert, PtrSet, row, last, id
  <2>2. CASE head # NoRow
    BY <1>1, <1>2, <2>2 DEF ND_BR_Insert, PtrSet, row, last, id
  <2>3. QED
    BY <2>1, <2>2
<1> HIDE DEF E
<1>9. /\ IsTable(r, s) /\ DOMAIN s = DOMAIN D[r] /\ Len(s) = m
      /\ \A j \in DOMAIN D[r] :
           /\ SameKeys(r, D[r][j], s[j])
           /\ \A g \in Ptrs(r) \ {"fptr"} : s[j].ptr[g] = D[r][j].ptr[g]
           /\ s[j].ptr.fptr = IF j = last THEN m + 1 ELSE D[r][j].ptr.fptr
  <2>1. CASE head = NoRow
    <3>1. \A j \in DOMAIN D[r] : j # last
      BY <1>3, <1>6, <2>1 DEF NoRow
    <3> HIDE DEF last
    <3>2. QED
      BY <1>2, <2>1, <3>1 DEF SameKeys
  <2>2. CASE head # NoRow
    <3>1. s = PtrSet(D[r], last, "fptr", m + 1) /\ last \in DOMAIN D[r] /\ "fptr" \in Ptrs(r)
      BY <1>1, <1>5, <2>2, RelationNames
    <3> HIDE DEF s, last
    <3>2. /\ IsTable(r, s) /\ DOMAIN s = DOMAIN D[r] /\ Len(s) = Len(D[r])
          /\ \A j \in DOMAIN D[r] : SameKeys(r, D[r][j], s[j]) /\ (j # last => s[j] = D[r][j])
          /\ \A g \in Ptrs(r) \ {"fptr"} : s[last].ptr[g] = D[r][last].ptr[g]
          /\ s[last].ptr["fptr"] = m + 1
      <4> DEFINE q == D[r]
      <4>1. IsTable(r, q) /\ last \in DOMAIN q /\ m + 1 \in Nat /\ s = PtrSet(q, last, "fptr", m + 1)
        BY <1>2, <1>3, <3>1
      <4> HIDE DEF q, m
      <4>2. /\ IsTable(r, s) /\ DOMAIN s = DOMAIN q /\ Len(s) = Len(q)
            /\ \A j \in DOMAIN q : SameKeys(r, q[j], s[j]) /\ (j # last => s[j] = q[j])
            /\ \A g \in Ptrs(r) \ {"fptr"} : s[last].ptr[g] = q[last].ptr[g]
            /\ s[last].ptr["fptr"] = m + 1
        BY <1>1, <3>1, <4>1, SetPtr
      <4>3. QED
        BY <4>2 DEF q
    <3>3. QED
      BY <3>2
  <2>3. QED
    BY <2>1, <2>2
<1>10. /\ IsTable("nd", N) /\ DOMAIN N = DOMAIN D["nd"]
       /\ \A j \in DOMAIN D["nd"] :
            /\ SameKeys("nd", D["nd"][j], N[j])
            /\ \A g \in Ptrs("nd") \ {f} : N[j].ptr[g] = D["nd"][j].ptr[g]
            /\ N[j].ptr[f] = IF j = n /\ head = NoRow THEN m + 1 ELSE D["nd"][j].ptr[f]
  <2>1. CASE head # NoRow
    BY <1>2, <2>1 DEF SameKeys
  <2>2. CASE head = NoRow
    <3>1. N = PtrSet(D["nd"], n, f, m + 1)
      BY <2>2
    <3> HIDE DEF N, m
    <3>2. /\ IsTable("nd", N) /\ DOMAIN N = DOMAIN D["nd"]
          /\ \A j \in DOMAIN D["nd"] : SameKeys("nd", D["nd"][j], N[j]) /\ (j # n => N[j] = D["nd"][j])
          /\ \A g \in Ptrs("nd") \ {f} : N[n].ptr[g] = D["nd"][n].ptr[g]
          /\ N[n].ptr[f] = m + 1
      BY <1>1, <1>2, <1>3, <3>1, SetPtr
    <3>3. QED
      BY <2>2, <3>2
  <2>3. QED
    BY <2>1, <2>2
<1> HIDE DEF N, s, m
<1>11. /\ E = [u \in Tables |-> E[u]] /\ E["nd"] = N /\ E[r] = Insert(r, s, row)
       /\ \A u \in Tables \ {"nd", r} : E[u] = D[u]
  BY <1>1, <1>2, <1>8
<1>12. /\ IsTable(r, E[r]) /\ DOMAIN E[r] = 1 .. (m + 1)
       /\ \A j \in DOMAIN D[r] : j \in DOMAIN E[r] /\ E[r][j] = s[j]
       /\ E[r][m + 1] = row
  BY <1>1, <1>7, <1>9, <1>11, InsertRow
<1>13. \A j \in DOMAIN E[r] : j \in DOMAIN D[r] \/ j = m + 1
  BY <1>3, <1>12
<1>14. Typed(E)
  BY <1>2, <1>10, <1>11, <1>12 DEF Typed
<1>15. Grows(D, E)
  <2> SUFFICES ASSUME NEW u \in Tables, NEW j \in DOMAIN D[u]
               PROVE  j \in DOMAIN E[u] /\ SameKeys(u, D[u][j], E[u][j])
    BY DEF Grows
  <2>1. CASE u = "nd"
    BY <1>10, <1>11, <2>1
  <2>2. CASE u = r
    BY <1>9, <1>12, <2>2
  <2>3. CASE u \notin {"nd", r}
    BY <1>11, <2>3 DEF SameKeys
  <2>4. QED
    BY <2>1, <2>2, <2>3
<1>16. UniqueIds(E)
  <2>1. \A u \in Components : DOMAIN E[u] = DOMAIN D[u]
    BY <1>1, <1>10, <1>11, TableNames
  <2>2. \A u \in Components : \A j \in DOMAIN D[u] : E[u][j].id = D[u][j].id
    BY <1>15, RowNames, TableNames DEF Grows, SameKeys
  <2>3. QED
    BY <2>1, <2>2 DEF UniqueIds, Sound
<1>17. Sound(E) /\ E.st # <<>>
  <2>1. E.st = D.st /\ E.zn = D.zn
    BY <1>1, <1>11
  <2>2. QED
    BY <1>14, <1>15, <1>16, <2>1, GrownSound
<1>a. \A j \in DOMAIN D[r] : /\ E[r][j].par = D[r][j].par
                             /\ \A g \in Ptrs(r) \ {"fptr"} : E[r][j].ptr[g] = D[r][j].ptr[g]
                             /\ E[r][j].ptr.fptr = IF j = last THEN m + 1 ELSE D[r][j].ptr.fptr
  <2>1. "par" \in Keys(r)
    BY <1>1, RelationNames
  <2>2. \A j \in DOMAIN D[r] : E[r][j] = s[j] /\ s[j].par = D[r][j].par
    BY <2>1, <1>9, <1>12 DEF SameKeys
  <2>3. QED
    BY <1>9, <2>2
<1>b. \A j \in DOMAIN D["nd"] : E["nd"][j].id = D["nd"][j].id
  BY <1>1, <1>10, <1>11, RowNames DEF SameKeys
<1>c. Ptrs(r) = {"parptr", "chiptr", "fptr", "bptr"}
  BY <1>1, RelationNames
<1> HIDE DEF last
<1>18. Kept(D, E)
  <2> SUFFICES ASSUME NEW u \in Tables, NEW g \in DOMAIN Conversions[u], NEW j \in DOMAIN E[u]
               PROVE  PtrTrue(E, u, j, g) \/ (j \in DOMAIN D[u] /\ E[u][j].ptr[g] = D[u][j].ptr[g])
    BY DEF Kept
  <2>1. CASE u = "nd"
    <3>1. j \in DOMAIN D["nd"] /\ g \in Ptrs("nd")
      BY <1>10, <1>11, <2>1, Targets
    <3>2. CASE g = f /\ j = n /\ head = NoRow
      <4>1. E["nd"][n].ptr[f] = m + 1 /\ E[r][m + 1].par = E["nd"][n].id
        BY <1>7, <1>10, <1>11, <1>12, <1>b, <3>2
      <4>2. m + 1 \in DOMAIN E[r]
        BY <1>3, <1>12
      <4>3. QED
        BY <1>1, <2>1, <3>2, <4>1, <4>2 DEF PtrTrue, Leads
    <3>3. CASE ~(g = f /\ j = n /\ head = NoRow)
      BY <1>10, <1>11, <2>1, <3>1, <3>3
    <3>4. QED
      BY <3>2, <3>3
  <2>2. CASE u = r
    <3>1. g \in {"parptr", "chiptr", "fptr", "bptr"}
      BY <1>1, <1>c, <2>2, Targets
    <3>2. /\ Conversions[r]["parptr"] = "nd" /\ Conversions[r]["chiptr"] = t
          /\ Conversions[r]["fptr"] = r /\ Conversions[r]["bptr"] = r
      <4>1. /\ Conversions[r]["parptr"] = RelationEnds[r][1] /\ Conversions[r]["chiptr"] = RelationEnds[r][2]
            /\ Conversions[r]["fptr"] = r /\ Conversions[r]["bptr"] = r
        BY <1>1, RelationConversions
      <4>2. QED
        BY <1>1, <4>1
    <3>3. CASE j \in DOMAIN D[r] /\ (g # "fptr" \/ j # last)
      BY <1>a, <1>c, <2>2, <3>1, <3>3
    <3>4. CASE j \in DOMAIN D[r] /\ g = "fptr" /\ j = last
      <4>1. E[r][j].ptr.fptr = m + 1 /\ E[r][m + 1].par = id /\ E[r][j].par = D[r][j].par
        BY <1>7, <1>12, <1>a, <3>4
      <4>2. D[r][j].par = id
        BY <1>3, <1>5, <1>6, <3>4 DEF NoRow
      <4>3. m + 1 \in DOMAIN E[r]
        BY <1>3, <1>12
      <4>4. QED
        BY <2>2, <3>2, <3>4, <4>1, <4>2, <4>3 DEF PtrTrue, Leads
    <3>5. CASE j = m + 1
      <4>1. E[r][j] = row
        BY <1>12, <3>5
      <4>2. n \in DOMAIN E["nd"] /\ E["nd"][n].id = id
        BY <1>10, <1>11, <1>b
      <4>3. E[t] = D[t]
        BY <1>1, <1>11
      <4>4. CASE g = "parptr"
        BY <1>7, <2>2, <3>2, <4>1, <4>2, <4>4 DEF PtrTrue, Leads
      <4>5. CASE g = "chiptr"
        BY <1>7, <2>2, <3>2, <4>1, <4>3, <4>5 DEF PtrTrue, Leads
      <4>6. CASE g = "fptr"
        BY <1>7, <2>2, <4>1, <4>6 DEF PtrTrue
      <4>7. CASE g = "bptr"
        <5>1. last # NoRow => last \in DOMAIN E[r] /\ E[r][last].par = id
          BY <1>5, <1>6, <1>12, <1>a
        <5>2. QED
          BY <1>7, <2>2, <3>2, <4>1, <4>7, <5>1 DEF PtrTrue, Leads
      <4>8. QED
        BY <3>1, <4>4, <4>5, <4>6, <4>7
    <3>6. QED
      BY <1>13, <2>2, <3>3, <3>4, <3>5
  <2>3. CASE u \notin {"nd", r}
    BY <1>11, <2>3
  <2>4. QED
    BY <2>1, <2>2, <2>3
<1>19. PtrsTrue(E, W)
  BY <1>15, <1>18, KeptPtrs DEF PassTrue
<1>20. EndsSet(E[r])
  <2>1. EndsSet(D[r])
    BY <1>1 DEF PassTrue
  <2>2. \A j \in DOMAIN D[r] : E[r][j].ptr.parptr # NoRow /\ E[r][j].ptr.chiptr # NoRow
    BY <1>a, <1>c, <2>1 DEF EndsSet
  <2>3. QED
    BY <1>4, <1>7, <1>12, <1>13, <2>2 DEF EndsSet
<1>21. Chained(E[r])
  <2>1. Chained(D[r])
    BY <1>1 DEF PassTrue
  <2>2. ASSUME NEW k \in DOMAIN E[r]
        PROVE  /\ E[r][k].ptr.fptr # NoRow => k < E[r][k].ptr.fptr
               /\ E[r][k].ptr.bptr # NoRow => E[r][k].ptr.bptr < k
    <3>1. CASE k \in DOMAIN D[r]
      BY <1>3, <1>a, <1>c, <2>1, <3>1 DEF Chained
    <3>2. CASE k = m + 1
      <4>1. last # NoRow => last < m + 1
        BY <1>3, <1>5, <1>6
      <4>2. QED
        BY <1>7, <1>12, <3>2, <4>1
    <3>3. QED
      BY <1>13, <3>1, <3>2
  <2>3. ASSUME NEW k \in DOMAIN E[r], NEW l \in DOMAIN E[r], E[r][l].par = E[r][k].par, E[r][k].ptr.fptr = NoRow
        PROVE  l <= k
    <3>1. CASE k = m + 1
      <4>1. l \in 1 .. (m + 1)
        BY <1>12
      <4>2. QED
        BY <1>3, <3>1, <4>1
    <3>2. CASE k \in DOMAIN D[r] /\ l \in DOMAIN D[r]
      BY <1>3, <1>a, <2>3, <3>2, <2>1 DEF Chained
    <3>3. CASE k \in DOMAIN D[r] /\ l = m + 1
      <4>1. D[r][k].ptr.fptr = NoRow /\ k # last /\ D[r][k].par = id
        BY <1>3, <1>7, <1>12, <1>a, <2>3, <3>3
      <4>2. CASE head = NoRow
        <5>1. \A j \in DOMAIN D[r] : D[r][j].par # id
          BY <1>1, <4>2 DEF PassTrue, Heads
        <5>2. QED
          BY <3>3, <4>1, <5>1
      <4>3. CASE head # NoRow
        BY <1>5, <4>3, <2>1, <3>3, <4>1, <1>3 DEF Chained
      <4>4. QED
        BY <4>2, <4>3
    <3>4. QED
      BY <1>13, <3>1, <3>2, <3>3
  <2>4. ASSUME NEW k \in DOMAIN E[r], NEW l \in DOMAIN E[r], E[r][l].par = E[r][k].par, E[r][k].ptr.bptr = NoRow
        PROVE  k <= l
    <3>1. CASE l = m + 1
      <4>1. k \in 1 .. (m + 1)
        BY <1>12
      <4>2. QED
        BY <1>3, <3>1, <4>1
    <3>2. CASE k \in DOMAIN D[r] /\ l \in DOMAIN D[r]
      BY <1>a, <1>c, <2>4, <3>2, <2>1 DEF Chained
    <3>3. CASE k = m + 1 /\ l \in DOMAIN D[r]
      BY <1>6, <1>7, <1>12, <1>a, <2>4, <3>3, <1>1 DEF PassTrue, Heads
    <3>4. QED
      BY <1>13, <3>1, <3>2, <3>3
  <2>5. QED
    BY <2>2, <2>3, <2>4 DEF Chained
<1>22. \A v \in Relations \ {r} : E[v] = D[v]
  BY <1>1, <1>11, TableNames
<1>23. Heads(E)
  <2> SUFFICES ASSUME NEW g \in DOMAIN ND_RebuildPtr, NEW j \in DOMAIN E["nd"], E["nd"][j].ptr[g] = NoRow,
                      NEW k \in DOMAIN E[ND_RebuildPtr[g]]
               PROVE  E[ND_RebuildPtr[g]][k].par # E["nd"][j].id
    BY DEF Heads
  <2>1. j \in DOMAIN D["nd"] /\ g \in Ptrs("nd")
    <3>1. g \in DOMAIN Conversions["nd"]
      BY DEF Conversions
    <3>2. QED
      BY <1>1, <1>10, <1>11, <3>1, Targets
  <2>2. CASE g # f
    <3>1. E[ND_RebuildPtr[g]] = D[ND_RebuildPtr[g]]
      BY <1>1, <1>22, <2>2
    <3>2. D["nd"][j].ptr[g] = NoRow
      BY <1>10, <1>11, <2>1, <2>2
    <3>3. QED
      BY <1>b, <2>1, <3>1, <3>2 DEF PassTrue, Heads
  <2>3. CASE g = f
    <3>1. D["nd"][j].ptr[f] = NoRow /\ j # n
      BY <1>3, <1>10, <1>11, <2>1, <2>3
    <3>2. CASE k \in DOMAIN D[r]
      BY <1>a, <1>b, <2>1, <2>3, <3>1, <3>2 DEF PassTrue, Heads
    <3>3. CASE k = m + 1
      <4>1. E[r][k].par = id /\ E["nd"][j].id = D["nd"][j].id
        BY <1>7, <1>12, <1>b, <2>1, <3>3
      <4>2. D["nd"][j].id # id
        BY <1>1, <2>1, <3>1 DEF Sound, UniqueIds
      <4>3. QED
        BY <2>3, <4>1, <4>2
    <3>4. QED
      BY <1>13, <2>3, <3>2, <3>3
  <2>4. QED
    BY <2>2, <2>3
<1>24. ZoneNodes(E)
  <2>1. E["zn"] = D["zn"] /\ DOMAIN E["nd"] = DOMAIN D["nd"]
    BY <1>1, <1>10, <1>11
  <2>2. QED
    BY <2>1 DEF PassTrue, ZoneNodes
<1>25. PassTrue(E, W)
  BY <1>19, <1>20, <1>21, <1>22, <1>23, <1>24 DEF PassTrue, Linking
<1>26. RowIsLast(D, E, r, n, t, i)
  BY <1>3, <1>12, <1>7 DEF m, RowIsLast
<1>27. QED
  BY <1>10, <1>11, <1>15, <1>17, <1>25, <1>26 DEF Going, Elsewhere, E

LEMMA GoingOn ==
  ASSUME NEW D, NEW E, NEW F, NEW W, Going(D, E, W), Going(E, F, W)
  PROVE  Going(D, F, W)
<1>1. \A t \in Tables : \A i \in DOMAIN D[t] : i \in DOMAIN E[t] /\ SameKeys(t, D[t][i], E[t][i])
  BY DEF Going, Grows
<1>2. \A t \in Tables : \A i \in DOMAIN E[t] : i \in DOMAIN F[t] /\ SameKeys(t, E[t][i], F[t][i])
  BY DEF Going, Grows
<1>3. Grows(D, F)
  BY <1>1, <1>2 DEF Grows, SameKeys
<1>4. QED
  BY <1>3 DEF Going

LEMMA BranchNames ==
  ASSUME NEW t, NEW r, NEW f, <<t, r, f>> \in Branches \cup Places
  PROVE  /\ t \in Placed /\ t \in Tables \ {"nd", r} /\ "ind" \in Ptrs(t) /\ "nd" \in Keys(t)
         /\ f \in DOMAIN ND_RebuildPtr /\ r = ND_RebuildPtr[f] /\ t = RelationEnds[r][2]
         /\ <<t, r, f>> \in Branches => "iznd" \in Ptrs(t) /\ "znd" \in Keys(t)
<1>1. \/ t = "cb" /\ r = "r_nd_cb" /\ f = "r_cb"
      \/ t = "switch" /\ r = "r_nd_switch" /\ f = "r_switch"
      \/ t = "sec" /\ r = "r_nd_sec" /\ f = "r_sec"
      \/ t = "ld" /\ r = "r_nd_ld" /\ f = "r_ld"
      \/ t = "cp" /\ r = "r_nd_cp" /\ f = "r_cp"
  BY DEF Branches, Places
<1>2. t \in Placed /\ t \in Tables \ {"nd", r}
  BY <1>1 DEF Placed, Tables, Components
<1>3. f \in DOMAIN ND_RebuildPtr /\ r = ND_RebuildPtr[f] /\ t = RelationEnds[r][2]
  BY <1>1 DEF ND_RebuildPtr, RelationEnds
<1>4. "ind" \in Ptrs(t) /\ "nd" \in Keys(t)
  BY <1>1 DEF Ptrs, PtrNames, Keys, Fields, FieldNames, Relations
<1>5. <<t, r, f>> \in Branches => "iznd" \in Ptrs(t) /\ "znd" \in Keys(t)
  BY <1>1 DEF Ptrs, PtrNames, Keys, Fields, FieldNames, Relations, Branches
<1>6. QED
  BY <1>2, <1>3, <1>4, <1>5

LEMMA StillReady ==
  ASSUME NEW D, NEW E, NEW W, Ready(D, W), Going(D, E, W)
  PROVE  Ready(E, W)
BY DEF Ready, Going

LEMMA OneEndKept ==
  ASSUME NEW D, NEW W, Ready(D, W),
         NEW t, NEW r, NEW f, <<t, r, f>> \in Branches \cup Places, r \notin W, NEW i \in DOMAIN D[t]
  PROVE  Going(D, OneEnd(D, t, i, r, f), W)
<1> DEFINE on == OnNode(D, t, i, "ind", D[t][i].nd)
           n == on[t][i].ptr["ind"]
           E == ND_BR_Insert(on, r, f, n, t, i)
<1>1. /\ t \in Placed /\ "ind" \in Ptrs(t)
      /\ f \in DOMAIN ND_RebuildPtr /\ r = ND_RebuildPtr[f] /\ t = RelationEnds[r][2]
  BY BranchNames
<1>2. NodeKey(D, t, i, "ind", D[t][i].nd)
  BY <1>1 DEF NodeKey
<1>3. NodeIsSet(D, on, W, t, i, "ind")
  BY <1>2, SetToNode
<1>4. OneEnd(D, t, i, r, f) = E
  BY DEF OneEnd
<1> HIDE DEF on, E
<1>5. Going(D, on, W) /\ n \in DOMAIN on["nd"] /\ i \in DOMAIN on[t]
  BY <1>3 DEF NodeIsSet
<1>6. RowPlace(on, r, f, n, t, i)
  BY <1>1, <1>5 DEF RowPlace
<1>7. Ready(on, W)
  BY <1>5, StillReady
<1>8. Going(on, E, W)
  <2> HIDE DEF n
  <2>1. RowIsIn(on, ND_BR_Insert(on, r, f, n, t, i), W, r)
    BY <1>6, <1>7, RowPut
  <2>2. QED
    BY <2>1 DEF RowIsIn, E
<1>9. QED
  BY <1>5, <1>8, <1>4, GoingOn

LEMMA BothEndsKept ==
  ASSUME NEW D, NEW W, Ready(D, W),
         NEW t, NEW r, NEW f, <<t, r, f>> \in Branches, r \notin W, NEW i \in DOMAIN D[t]
  PROVE  Going(D, BothEnds(D, t, i, r, f), W)
<1> DEFINE near == OnNode(D, t, i, "ind", D[t][i].nd)
           far == OnNode(near, t, i, "iznd", near[t][i].znd)
           n == far[t][i].ptr["ind"]
           z == far[t][i].ptr["iznd"]
           one == ND_BR_Insert(far, r, f, n, t, i)
           two == ND_BR_Insert(one, r, f, z, t, i)
<1>1. /\ t \in Placed /\ t \in Tables \ {"nd", r}
      /\ "ind" \in Ptrs(t) /\ "iznd" \in Ptrs(t) /\ "znd" \in Keys(t) /\ "nd" \in Tables
      /\ f \in DOMAIN ND_RebuildPtr /\ r = ND_RebuildPtr[f] /\ t = RelationEnds[r][2]
  BY BranchNames, TableNames
<1>2. NodeIsSet(D, near, W, t, i, "ind")
  <2>1. NodeKey(D, t, i, "ind", D[t][i].nd)
    BY <1>1 DEF NodeKey
  <2>2. QED
    BY <2>1, SetToNode
<1>3. Going(D, near, W) /\ near[t][i].ptr["ind"] \in DOMAIN near["nd"] /\ DOMAIN near[t] = DOMAIN D[t]
  BY <1>2 DEF NodeIsSet
<1>4. near[t][i].znd = D[t][i].znd
  <2>1. SameKeys(t, D[t][i], near[t][i])
    BY <1>1, <1>3 DEF Going, Grows
  <2>2. QED
    BY SMTT(40), <1>1, <2>1 DEF SameKeys
<1>5. BothEnds(D, t, i, r, f) \in {D, near, two}
  BY <1>4 DEF BothEnds
<1> HIDE DEF near
<1>6. Ready(near, W)
  BY <1>3, StillReady
<1>7. NodeIsSet(near, far, W, t, i, "iznd")
  <2>1. NodeKey(near, t, i, "iznd", near[t][i].znd)
    BY <1>1, <1>3 DEF NodeKey
  <2>2. QED
    BY <1>6, <2>1, SetToNode
<1> HIDE DEF far
<1>8. /\ Going(near, far, W) /\ z \in DOMAIN far["nd"] /\ DOMAIN far[t] = DOMAIN near[t]
      /\ n = near[t][i].ptr["ind"]
  <2>1. "ind" \in Ptrs(t) \ {"iznd"}
    BY <1>1
  <2>2. QED
    BY <1>7, <2>1 DEF NodeIsSet
<1>9. n \in DOMAIN far["nd"]
  BY <1>1, <1>3, <1>8 DEF Going, Grows
<1>10. Ready(far, W)
  BY <1>6, <1>8, StillReady
<1>11. RowPlace(far, r, f, n, t, i)
  BY <1>1, <1>3, <1>8, <1>9 DEF RowPlace
<1> HIDE DEF n, z
<1>12. RowIsIn(far, one, W, r)
  BY <1>10, <1>11, RowPut
<1> HIDE DEF one
<1>13. Going(far, one, W) /\ one[t] = far[t] /\ DOMAIN one["nd"] = DOMAIN far["nd"]
  BY <1>1, <1>12 DEF RowIsIn, Elsewhere
<1>14. Ready(one, W)
  BY <1>10, <1>13, StillReady
<1>15. RowPlace(one, r, f, z, t, i)
  BY <1>8, <1>11, <1>13 DEF RowPlace
<1>16. RowIsIn(one, two, W, r)
  BY <1>14, <1>15, RowPut
<1> HIDE DEF two
<1>17. Going(one, two, W)
  BY <1>16 DEF RowIsIn
<1>18. Going(D, far, W)
  BY <1>3, <1>8, GoingOn
<1>19. Going(D, one, W)
  BY <1>13, <1>18, GoingOn
<1>20. Going(D, two, W)
  BY <1>17, <1>19, GoingOn
<1>21. Going(D, D, W)
  BY DEF Going, Grows, SameKeys, Ready
<1>22. QED
  BY <1>3, <1>5, <1>20, <1>21

\* What is enough with more relations to build is enough with fewer.
LEMMA FewerLeft ==
  ASSUME NEW D, NEW W, PassTrue(D, W), NEW V \in SUBSET W, "r_st_switch" \in W => "r_st_switch" \in V
  PROVE  PassTrue(D, V)
BY DEF PassTrue, PtrsTrue, Old

\* A node of a zone is placed.
LEMMA ZoneNodePlaced ==
  ASSUME NEW D, NEW W, Ready(D, W), NEW z \in DOMAIN D.zn, NEW n \in DOMAIN D.zn[z].inds
  PROVE  Going(D, ZN_Node(D, z, n), W) /\ ZonesHeld(D, ZN_Node(D, z, n))
<1> DEFINE id == D.zn[z].nds[n]
           F == ND_Insert(D, id)
           p == PosOf(id, "nd", F)
           E == ZN_Node(D, z, n)
           row == F["zn"][z]
           new == [row EXCEPT !.inds[n] = p]
<1>1. "zn" \in Tables /\ "nd" \in Tables /\ "zn" \in Components /\ "zn" # "nd" /\ "st" \in Tables /\ "zn" \notin Relations
  BY TableNames DEF Tables, Components
<1>2. Sound(D) /\ D.st # <<>> /\ W \in SUBSET Relations /\ PassTrue(D, W)
  BY DEF Ready
<1>3. IsRow("zn", D["zn"][z]) /\ IsTable("zn", D["zn"])
  BY <1>1, <1>2 DEF Sound, Typed, IsTable
<1>4. id \in Nat
  BY <1>3 DEF IsRow
<1>5. /\ Going(D, F, W) /\ Elsewhere(D, F, {"nd"})
      /\ p \in DOMAIN F["nd"] /\ F["nd"][p].id = id
  <2> HIDE DEF id
  <2>1. QED
    BY <1>2, <1>4, NodeInserted
<1>6. E = [F EXCEPT !["zn"] = [F["zn"] EXCEPT ![z] = new]]
  <2>1. E = [F EXCEPT !.zn[z].inds[n] = p]
    BY DEF ZN_Node
  <2> HIDE DEF E, F, p
  <2>2. QED
    BY <2>1
<1> HIDE DEF E, F, p, id
<1>7. F["zn"] = D["zn"] /\ Typed(F)
  BY <1>1, <1>5 DEF Elsewhere, Going, Sound
<1>8. p \in Nat /\ p # NoRow
  BY <1>1, <1>5, <1>7 DEF Typed, IsTable, IsList, NoRow
<1>9. /\ E = [t \in Tables |-> E[t]] /\ \A t \in Tables \ {"zn"} : E[t] = F[t]
      /\ E["zn"] = [j \in DOMAIN D["zn"] |-> IF j = z THEN new ELSE D["zn"][j]]
  <2>1. F = [t \in Tables |-> F[t]]
    BY <1>7 DEF Typed
  <2>2. D["zn"] = [j \in DOMAIN D["zn"] |-> D["zn"][j]]
    BY <1>3 DEF IsTable, IsList
  <2> HIDE DEF new
  <2>3. QED
    BY <1>1, <1>6, <1>7, <2>1, <2>2
<1>10. /\ IsRow("zn", new) /\ SameKeys("zn", row, new) /\ new.ptr = row.ptr /\ new.id = row.id
       /\ DOMAIN new.inds = DOMAIN row.inds /\ new.inds[n] = p
       /\ \A m \in DOMAIN row.inds : m # n => new.inds[m] = row.inds[m]
       /\ \A g \in Fields("zn") \ {"inds"} : new[g] = row[g]
  <2>1. Fields("zn") = {"id", "stid", "nds", "ends", "ptr", "inds"} /\ Keys("zn") = {"id", "stid"}
    BY <1>1 DEF Fields, FieldNames, Keys
  <2>2. row = D["zn"][z] /\ n \in DOMAIN row.inds
    BY <1>7
  <2>3. /\ row = [f \in Fields("zn") |-> row[f]] /\ row.ptr \in [Ptrs("zn") -> Nat] /\ row.id \in Nat
        /\ IsList(row.nds) /\ \A m \in DOMAIN row.nds : row.nds[m] \in Nat
        /\ row.inds \in [DOMAIN row.nds -> Nat]
    BY <1>3, <2>1, <2>2 DEF IsRow
  <2>a. new = [row EXCEPT !.inds[n] = p]
    OBVIOUS
  <2> HIDE DEF row, new
  <2>b. new = [row EXCEPT !.inds = [row.inds EXCEPT ![n] = p]]
    BY <2>a
  <2>4. /\ new = [f \in Fields("zn") |-> new[f]] /\ \A f \in Fields("zn") \ {"inds"} : new[f] = row[f]
        /\ new.inds = [row.inds EXCEPT ![n] = p]
    BY <2>1, <2>3, <2>b
  <2>5. /\ new.id = row.id /\ new.stid = row.stid /\ new.nds = row.nds /\ new.ptr = row.ptr
    BY <2>1, <2>4
  <2>6. /\ new.inds \in [DOMAIN row.nds -> Nat] /\ DOMAIN new.inds = DOMAIN row.inds /\ new.inds[n] = p
        /\ \A m \in DOMAIN row.inds : m # n => new.inds[m] = row.inds[m]
    BY <1>8, <2>2, <2>3, <2>4
  <2>7. IsRow("zn", new) /\ SameKeys("zn", row, new)
    BY <2>1, <2>3, <2>4, <2>5, <2>6 DEF IsRow, SameKeys
  <2>8. QED
    BY <2>4, <2>5, <2>6, <2>7
<1> HIDE DEF new, row
<1>11. row = F["zn"][z] /\ row = D["zn"][z]
  BY <1>7 DEF row
<1>12. IsTable("zn", E["zn"]) /\ DOMAIN E["zn"] = DOMAIN D["zn"]
  <2>1. Len(D["zn"]) \in Nat /\ DOMAIN D["zn"] = 1..Len(D["zn"])
    BY <1>3 DEF IsTable, IsList
  <2>2. IsList(E["zn"]) /\ DOMAIN E["zn"] = DOMAIN D["zn"]
    <3>1. E["zn"] = [j \in 1..Len(D["zn"]) |-> E["zn"][j]]
      BY <1>9, <2>1
    <3>2. QED
      BY <2>1, <3>1, FunctionList
  <2>3. QED
    BY <1>3, <1>9, <1>10, <2>2 DEF IsTable
<1>13. Typed(E)
  BY <1>7, <1>9, <1>12 DEF Typed
<1>14. \A t \in Tables : \A i \in DOMAIN E[t] :
         i \in DOMAIN F[t] /\ SameKeys(t, F[t][i], E[t][i]) /\ E[t][i].ptr = F[t][i].ptr
  <2>1. ASSUME NEW i \in DOMAIN E["zn"]
        PROVE  SameKeys("zn", F["zn"][i], E["zn"][i]) /\ E["zn"][i].ptr = F["zn"][i].ptr
    BY <1>7, <1>9, <1>10, <1>11, <1>12 DEF SameKeys
  <2>2. QED
    BY <1>7, <1>9, <1>12, <2>1 DEF SameKeys
<1>15. Grows(F, E)
  BY <1>7, <1>9, <1>12, <1>14 DEF Grows
<1>16. \A t \in Tables : DOMAIN E[t] = DOMAIN F[t]
  BY <1>7, <1>9, <1>12
<1>17. UniqueIds(E)
  BY <1>14, RowNames, TableNames, <1>5 DEF SameKeys, UniqueIds, Going, Sound
<1>18. Sound(E) /\ E.st # <<>>
  BY <1>1, <1>14, <1>16, <1>5, <1>13, <1>15, <1>17, GrownSound DEF Going
<1>19. PassTrue(E, W)
  <2>1. PassTrue(F, W)
    BY <1>5 DEF Going
  <2>2. Kept(F, E)
    BY <1>14 DEF Kept
  <2>3. PtrsTrue(E, W)
    BY <1>15, <2>1, <2>2, KeptPtrs DEF PassTrue
  <2>4. \A r \in Relations : E[r] = F[r]
    BY <1>1, <1>9, TableNames
  <2>5. E["nd"] = F["nd"]
    BY <1>1, <1>9
  <2>6. Heads(E)
    BY <2>1, <2>4, <2>5 DEF PassTrue, Heads, ND_RebuildPtr, Relations
  <2>7. ZoneNodes(E)
    <3>1. ASSUME NEW y \in DOMAIN E["zn"], NEW m \in DOMAIN E["zn"][y].inds, E["zn"][y].inds[m] # NoRow
          PROVE  E["zn"][y].inds[m] \in DOMAIN E["nd"]
      <4>0. \A x \in DOMAIN D["zn"] : \A l \in DOMAIN D["zn"][x].inds :
              D["zn"][x].inds[l] # NoRow => D["zn"][x].inds[l] \in DOMAIN F["nd"]
        BY <1>7, <2>1 DEF PassTrue, ZoneNodes
      <4>1. CASE y = z /\ m = n
        BY <1>5, <1>9, <1>10, <1>12, <2>5, <4>1
      <4>2. CASE y = z /\ m # n
        BY <1>9, <1>10, <1>11, <1>12, <2>5, <3>1, <4>0, <4>2
      <4>3. CASE y # z
        BY <1>9, <1>12, <2>5, <3>1, <4>0, <4>3
      <4>4. QED
        BY <4>1, <4>2, <4>3
    <3>2. QED
      BY <3>1 DEF ZoneNodes
  <2>8. QED
    BY <1>2, <2>1, <2>3, <2>4, <2>6, <2>7 DEF PassTrue, Linking
<1>20. Going(F, E, W)
  BY <1>15, <1>18, <1>19 DEF Going
<1>21. ZonesHeld(D, E)
  BY <1>5, <1>9, <1>10, <1>11, <1>12 DEF Elsewhere, ZonesHeld
<1>22. QED
  BY <1>5, <1>20, <1>21, GoingOn DEF E

-----------------------------------------------------------------------------
(* The start of a pass.                                                    *)

LEMMA ResetNames ==
  ASSUME NEW t \in Components \ {"nd"}
  PROVE  /\ t \in DOMAIN Resets
         /\ \A f \in DOMAIN Conversions[t] : f \in Resets[t] \/ (t = "st" /\ f = "r_switch")
         /\ t = "st" => "r_switch" \notin Resets[t]
<1>0. t \in DOMAIN Resets
  BY DEF Resets, Components
<1>1. CASE t \in {"co", "st"}
  BY <1>0, <1>1 DEF Resets, Conversions, CO_ResetPtr, ST_ResetPtr, CO_RebuildPtr, ST_RebuildPtr
<1>2. CASE t \in {"cb", "switch", "so"}
  BY <1>0, <1>2 DEF Resets, Conversions, CB_ResetPtr, SWITCH_ResetPtr, SO_ResetPtr, CB_RebuildPtr,
     SWITCH_RebuildPtr, SO_RebuildPtr
<1>3. CASE t \in {"ld", "cp", "bus", "fi"}
  BY <1>0, <1>3 DEF Resets, Conversions, LD_ResetPtr, CP_ResetPtr, BUS_ResetPtr, FI_ResetPtr, LD_RebuildPtr,
     CP_RebuildPtr, BUS_RebuildPtr, FI_RebuildPtr
<1>4. CASE t \in {"zn", "sec"}
  BY <1>0, <1>4 DEF Resets, Conversions, ZN_ResetPtr, SEC_ResetPtr, ZN_RebuildPtr, SEC_RebuildPtr
<1>5. QED
  BY <1>1, <1>2, <1>3, <1>4 DEF Components

LEMMA UnsetRow ==
  ASSUME NEW t \in Components, NEW row, IsRow(t, row)
  PROVE  LET new == Unset(t, row)
         IN  /\ IsRow(t, new) /\ SameKeys(t, row, new) /\ \A g \in Fields(t) \ {"ptr"} : new[g] = row[g]
             /\ \A f \in Ptrs(t) : new.ptr[f] = IF f \in Resets[t] THEN NoRow ELSE row.ptr[f]
<1> DEFINE new == Unset(t, row)
<1>1. "ptr" \in Fields(t) /\ Keys(t) \subseteq Fields(t) \ {"ptr"} /\ (t = "zn" => {"nds", "inds"} \subseteq Fields(t) \ {"ptr"})
  BY RowNames, TableNames DEF Keys, FieldNames
<1>2. row = [g \in Fields(t) |-> row[g]] /\ row.ptr \in [Ptrs(t) -> Nat]
  BY DEF IsRow
<1>3. new = [row EXCEPT !.ptr = [f \in Ptrs(t) |-> IF f \in Resets[t] THEN NoRow ELSE row.ptr[f]]]
  BY <1>2 DEF Unset
<1> HIDE DEF new
<1>4. /\ new = [g \in Fields(t) |-> new[g]] /\ \A g \in Fields(t) \ {"ptr"} : new[g] = row[g]
      /\ new.ptr = [f \in Ptrs(t) |-> IF f \in Resets[t] THEN NoRow ELSE row.ptr[f]]
  BY <1>1, <1>2, <1>3
<1>5. new.ptr \in [Ptrs(t) -> Nat]
  BY <1>2, <1>4 DEF NoRow
<1>6. \A k \in Keys(t) : new[k] = row[k]
  BY <1>1, <1>4
<1>7. t = "zn" => new.nds = row.nds /\ new.inds = row.inds
  BY <1>1, <1>4
<1>8. IsRow(t, new)
  BY <1>4, <1>5, <1>6, <1>7 DEF IsRow
<1>9. QED
  BY <1>4, <1>6, <1>8 DEF SameKeys, new

LEMMA UnplacedRow ==
  ASSUME NEW row, IsRow("zn", row)
  PROVE  LET new == Unplaced(row)
         IN  /\ IsRow("zn", new) /\ SameKeys("zn", row, new) /\ new.ptr = row.ptr
             /\ \A g \in Fields("zn") \ {"inds"} : new[g] = row[g]
<1> DEFINE new == Unplaced(row)
<1>1. Fields("zn") = {"id", "stid", "nds", "ends", "ptr", "inds"} /\ Keys("zn") \subseteq Fields("zn") \ {"inds", "ptr"}
  BY TableNames DEF Fields, FieldNames, Keys
<1>2. /\ row = [f \in Fields("zn") |-> row[f]] /\ row.ptr \in [Ptrs("zn") -> Nat]
      /\ \A k \in Keys("zn") \ {"pid", "stid"} : row[k] \in Nat
      /\ IsList(row.nds) /\ \A m \in DOMAIN row.nds : row.nds[m] \in Nat
      /\ row.inds \in [DOMAIN row.nds -> Nat]
  BY DEF IsRow
<1>3. new = [row EXCEPT !.inds = [n \in DOMAIN row.inds |-> NoRow]]
  BY DEF Unplaced
<1> HIDE DEF new
<1>4. /\ new = [f \in Fields("zn") |-> new[f]] /\ \A f \in Fields("zn") \ {"inds"} : new[f] = row[f]
      /\ new.inds = [n \in DOMAIN row.inds |-> NoRow]
  BY <1>1, <1>2, <1>3
<1>5. new.nds = row.nds /\ new.ptr = row.ptr /\ \A k \in Keys("zn") : new[k] = row[k]
  BY <1>1, <1>4
<1>6. new.inds \in [DOMAIN row.nds -> Nat]
  BY <1>2, <1>4 DEF NoRow
<1>7. QED
  BY <1>2, <1>4, <1>5, <1>6 DEF IsRow, SameKeys, new

\* After DoValidate has removed what it builds, all relations are to be built.
LEMMA PassStarts ==
  ASSUME NEW D, Sound(D), D.st # <<>>
  PROVE  Ready(Cleared(D), Whole) /\ IsCleared(D, Cleared(D))
<1> DEFINE E == Cleared(D)
           Row(t, row) == IF t = "zn" THEN Unplaced(Unset(t, row)) ELSE Unset(t, row)
           Empty == Relations \cup {"nd"}
<1>0. "zn" \in Components \ {"nd"} /\ "st" \in Components \ {"nd"} /\ Tables = Components \cup Relations
      /\ Components \cap Relations = {} /\ "nd" \in Components /\ DOMAIN Resets = Components \ {"nd"}
  BY TableNames DEF Components, Resets
<1>1. /\ E = [t \in Tables |-> E[t]] /\ \A t \in Empty : E[t] = <<>>
      /\ \A t \in Components \ {"nd"} : E[t] = [i \in DOMAIN D[t] |-> Row(t, D[t][i])]
  <2> DEFINE emptied == [t \in Tables |-> IF t = "nd" \/ t \in Relations THEN <<>> ELSE D[t]]
             F == ResetPtr(emptied)
  <2>1. F = [t \in Tables |-> F[t]]
    BY DEF ResetPtr
  <2>2. \A t \in Empty : F[t] = <<>>
    BY <1>0 DEF ResetPtr
  <2>3. \A t \in Components \ {"nd"} : F[t] = [i \in DOMAIN D[t] |-> Unset(t, D[t][i])]
    BY <1>0 DEF ResetPtr, Unset
  <2>4. E = [F EXCEPT !["zn"] = [z \in DOMAIN F["zn"] |-> Unplaced(F["zn"][z])]]
    BY DEF Cleared
  <2> HIDE DEF F, E
  <2>5. E = [t \in Tables |-> E[t]] /\ \A t \in Tables \ {"zn"} : E[t] = F[t]
    BY <1>0, <2>1, <2>4
  <2>6. E["zn"] = [z \in DOMAIN F["zn"] |-> Unplaced(F["zn"][z])]
    BY <1>0, <2>1, <2>4
  <2>7. E["zn"] = [i \in DOMAIN D["zn"] |-> Row("zn", D["zn"][i])]
    BY <1>0, <2>3, <2>6
  <2>8. \A t \in Components \ {"nd", "zn"} : E[t] = [i \in DOMAIN D[t] |-> Row(t, D[t][i])]
    BY <1>0, <2>3, <2>5
  <2> HIDE DEF Row
  <2>9. QED
    BY <1>0, <2>2, <2>5, <2>7, <2>8
<1> HIDE DEF E
<1>2. ASSUME NEW t \in Components \ {"nd"}
      PROVE  /\ IsTable(t, E[t]) /\ DOMAIN E[t] = DOMAIN D[t] /\ Len(E[t]) = Len(D[t])
             /\ \A i \in DOMAIN D[t] : /\ SameKeys(t, D[t][i], E[t][i])
                                       /\ \A f \in Ptrs(t) : E[t][i].ptr[f] = IF f \in Resets[t] THEN NoRow ELSE D[t][i].ptr[f]
                                       /\ \A g \in Fields(t) \ {"ptr", "inds"} : E[t][i][g] = D[t][i][g]
  <2>1. IsTable(t, D[t])
    BY <1>0 DEF Sound, Typed
  <2>2. Len(D[t]) \in Nat /\ DOMAIN D[t] = 1..Len(D[t])
    BY <2>1 DEF IsTable, IsList
  <2>3. IsList(E[t]) /\ DOMAIN E[t] = DOMAIN D[t] /\ Len(E[t]) = Len(D[t])
    <3>1. E[t] = [i \in 1..Len(D[t]) |-> E[t][i]]
      BY <1>1, <2>2
    <3>2. QED
      BY <2>2, <3>1, FunctionList
  <2>4. ASSUME NEW i \in DOMAIN D[t]
        PROVE  /\ IsRow(t, E[t][i]) /\ SameKeys(t, D[t][i], E[t][i])
               /\ \A f \in Ptrs(t) : E[t][i].ptr[f] = IF f \in Resets[t] THEN NoRow ELSE D[t][i].ptr[f]
               /\ \A g \in Fields(t) \ {"ptr", "inds"} : E[t][i][g] = D[t][i][g]
    <3>1. IsRow(t, D[t][i])
      BY <2>1 DEF IsTable
    <3>2. E[t][i] = Row(t, D[t][i])
      BY <1>1
    <3>3. /\ IsRow(t, Unset(t, D[t][i])) /\ SameKeys(t, D[t][i], Unset(t, D[t][i]))
          /\ \A g \in Fields(t) \ {"ptr", "inds"} : Unset(t, D[t][i])[g] = D[t][i][g]
          /\ \A f \in Ptrs(t) : Unset(t, D[t][i]).ptr[f] = IF f \in Resets[t] THEN NoRow ELSE D[t][i].ptr[f]
      BY <3>1, UnsetRow
    <3>4. CASE t # "zn"
      BY <3>2, <3>3, <3>4
    <3>5. CASE t = "zn"
      <4> DEFINE u == Unset(t, D[t][i])
      <4>1. IsRow("zn", u) /\ E[t][i] = Unplaced(u)
        BY <3>2, <3>3, <3>5
      <4> HIDE DEF u
      <4>2. /\ IsRow("zn", Unplaced(u)) /\ SameKeys("zn", u, Unplaced(u)) /\ Unplaced(u).ptr = u.ptr
            /\ \A g \in Fields("zn") \ {"ptr", "inds"} : Unplaced(u)[g] = u[g]
        BY <4>1, UnplacedRow
      <4>3. /\ SameKeys(t, D[t][i], u) /\ \A f \in Ptrs(t) : u.ptr[f] = IF f \in Resets[t] THEN NoRow ELSE D[t][i].ptr[f]
            /\ \A g \in Fields(t) \ {"ptr", "inds"} : u[g] = D[t][i][g]
        BY <3>3 DEF u
      <4>4. QED
        BY <3>5, <4>1, <4>2, <4>3 DEF SameKeys
    <3>6. QED
      BY <3>4, <3>5
  <2>5. QED
    BY <2>3, <2>4 DEF IsTable
<1>3. Typed(E)
  <2>1. \A t \in Empty : IsTable(t, E[t])
    BY <1>1, EmptyList DEF IsTable
  <2>2. QED
    BY <1>0, <1>1, <1>2, <2>1 DEF Typed
<1>4. UniqueIds(E)
  <2>1. ASSUME NEW t \in Components, NEW i \in DOMAIN E[t] PROVE i \in DOMAIN D[t] /\ E[t][i].id = D[t][i].id
    <3>1. t # "nd"
      BY <1>1, EmptyList
    <3>2. QED
      BY <1>2, <3>1, RowNames DEF SameKeys
  <2>2. QED
    BY <2>1 DEF UniqueIds, Sound
<1>5. ZoneIds(E)
  <2>1. \A z \in DOMAIN D["zn"] : E["zn"][z].id = D["zn"][z].id
    BY <1>0, <1>2, RowNames DEF SameKeys
  <2>2. DOMAIN E["zn"] = DOMAIN D["zn"] /\ Len(E["zn"]) = Len(D["zn"])
    BY <1>0, <1>2
  <2>3. QED
    BY <2>1, <2>2 DEF ZoneIds, Sound
<1>6. E.st # <<>>
  BY <1>0, <1>2, EmptyList DEF Sound, Typed, IsTable
<1>7. Stale(E)
  <2>1. "switch" \in Components \ {"nd"} /\ "r_switch" \in Ptrs("st") /\ "pid" \in Keys("st") /\ "stid" \in Keys("switch")
    BY <1>0, TableNames DEF Components, Ptrs, PtrNames, Keys, Fields, FieldNames
  <2>2. \A i \in DOMAIN E["st"] : i \in DOMAIN D["st"] /\ E["st"][i].pid = D["st"][i].pid
                                /\ E["st"][i].ptr["r_switch"] = D["st"][i].ptr["r_switch"]
    BY <1>0, <1>2, <2>1, ResetNames DEF SameKeys
  <2>3. \A i \in DOMAIN D["switch"] : i \in DOMAIN E["switch"] /\ E["switch"][i].stid = D["switch"][i].stid
    BY <1>2, <2>1 DEF SameKeys
  <2>4. QED
    BY <2>2, <2>3 DEF Stale, Sound
<1>8. Sound(E)
  BY <1>3, <1>4, <1>5, <1>6, <1>7 DEF Sound, NoStations
<1>9. PtrsTrue(E, Whole)
  <2> SUFFICES ASSUME NEW t \in Tables, NEW f \in DOMAIN Conversions[t], NEW i \in DOMAIN E[t], ~Old(Whole, t, f)
               PROVE  PtrTrue(E, t, i, f)
    BY DEF PtrsTrue
  <2>1. t \in Components \ {"nd"}
    BY <1>0, <1>1, EmptyList
  <2>2. "r_st_switch" \in Whole
    BY DEF Whole, Relations, ND_RebuildPtr
  <2>3. f \in Resets[t] /\ f \in Ptrs(t) /\ i \in DOMAIN D[t]
    BY <1>2, <2>1, <2>2, ResetNames, ComponentConversions DEF Old
  <2>4. E[t][i].ptr[f] = NoRow
    BY <1>2, <2>1, <2>3
  <2>5. QED
    BY <2>4 DEF PtrTrue
<1>10. PassTrue(E, Whole)
  <2>1. \A r \in Relations : E[r] = <<>>
    BY <1>1
  <2>2. \A r \in Relations : DOMAIN E[r] = {}
    BY <2>1, EmptyList
  <2>3. \A r \in Linking : EndsSet(E[r]) /\ Chained(E[r])
    BY <2>2 DEF Linking, EndsSet, Chained
  <2>4. DOMAIN E.nd = {}
    BY <1>1, EmptyList
  <2>5. Heads(E)
    BY <2>4 DEF Heads
  <2>6. ZoneNodes(E)
    <3> SUFFICES ASSUME NEW z \in DOMAIN E["zn"], NEW n \in DOMAIN E["zn"][z].inds PROVE E["zn"][z].inds[n] = NoRow
      BY DEF ZoneNodes
    <3> DEFINE u == Unset("zn", D["zn"][z])
    <3>1. E["zn"][z] = Unplaced(u) /\ z \in DOMAIN D["zn"]
      BY <1>0, <1>1, <1>2
    <3>2. IsRow("zn", D["zn"][z])
      BY <1>0, <3>1 DEF Sound, Typed, IsTable
    <3>3. IsRow("zn", u)
      BY <1>0, <3>2, UnsetRow
    <3>4. "inds" \in DOMAIN u
      <4>1. u = [g \in Fields("zn") |-> u[g]] /\ "inds" \in Fields("zn")
        BY <1>0, <3>3 DEF IsRow, Fields, FieldNames
      <4> HIDE DEF u
      <4>2. QED
        BY <4>1
    <3> HIDE DEF u
    <3>5. Unplaced(u).inds = [m \in DOMAIN u.inds |-> NoRow]
      BY <3>4 DEF Unplaced
    <3>6. QED
      BY <3>1, <3>5
  <2>7. QED
    BY <1>9, <2>1, <2>3, <2>5, <2>6 DEF PassTrue, Whole
<1>11. IsCleared(D, E)
  BY <1>1, <1>2 DEF IsCleared
<1>12. QED
  BY <1>6, <1>8, <1>10, <1>11 DEF Ready, Whole, E

-----------------------------------------------------------------------------
(* The order of the tables.                                                *)

\* The logical positions of the rows of a table are its positions, in the
\* order of the keys (Sequence).
LEMMA Positions ==
  ASSUME NEW D, Typed(D), UniqueIds(D), ~Twice(D), NEW t \in Tables
  PROVE  /\ Permutes(LogByPh(D)[t], DOMAIN D[t])
         /\ \A i, j \in DOMAIN D[t] : LogByPh(D)[t][i] < LogByPh(D)[t][j] <=> Less(t, D[t][i], D[t][j])
<1> DEFINE n == Len(D[t])
           S == DOMAIN D[t]
           key(i) == D[t][i]
           R == {ij \in S \X S : Less(t, D[t][ij[1]], D[t][ij[2]])}
           L == LogByPh(D)[t]
           rank(i) == Cardinality(Below(R, S, i))
<1>1. n \in Nat /\ S = 1..n
  BY DEF Typed, IsTable, IsList
<1>2. IsFiniteSet(S) /\ Cardinality(S) = n
  BY <1>1, FS_Interval
<1>3. ASSUME NEW i \in S
      PROVE  /\ t \in Relations => D[t][i].par \in Nat /\ D[t][i].chi \in Nat
             /\ t \notin Relations => D[t][i].id \in Nat
  <2>1. IsRow(t, D[t][i])
    BY DEF Typed, IsTable
  <2>2. t \in Relations => {"par", "chi"} \subseteq Keys(t) \ {"pid", "stid"}
    BY RelationNames
  <2>3. t \notin Relations => "id" \in Keys(t) \ {"pid", "stid"}
    BY RowNames, TableNames
  <2>4. QED
    BY <2>1, <2>2, <2>3 DEF IsRow
<1>4. \A i, j \in S : <<i, j>> \in R <=> Less(t, D[t][i], D[t][j])
  OBVIOUS
<1>5. \A i, j \in S : i = j \/ Less(t, D[t][i], D[t][j]) \/ Less(t, D[t][j], D[t][i])
  <2> TAKE i, j \in S
  <2>1. CASE t \in Relations
    BY <2>1, <1>3 DEF Twice, Less
  <2>2. CASE t \notin Relations
    BY <2>2, TableNames, <1>3 DEF UniqueIds, Less
  <2>3. QED
    BY <2>1, <2>2
<1>6. \A i \in S : ~Less(t, D[t][i], D[t][i])
  BY <1>3 DEF Less
<1>7. \A i, j, k \in S : Less(t, D[t][i], D[t][j]) /\ Less(t, D[t][j], D[t][k]) => Less(t, D[t][i], D[t][k])
  BY <1>3 DEF Less
<1>8. \A i, j \in S : Before(t, D[t][j], D[t][i]) <=> (Less(t, D[t][j], D[t][i]) \/ j = i)
  <2> TAKE i, j \in S
  <2>1. CASE t \in Relations
    BY <2>1, <1>3 DEF Twice, Less, Before
  <2>2. CASE t \notin Relations
    BY <2>2, TableNames, <1>3 DEF UniqueIds, Less, Before
  <2>3. QED
    BY <2>1, <2>2
<1>9. L = [i \in S |-> Cardinality({j \in S : Before(t, D[t][j], D[t][i])})]
  BY DEF LogByPh
<1> HIDE DEF R, S, L, n
<1>10. Orders(R, S)
  BY <1>4, <1>5, <1>6, <1>7 DEF Orders
<1>11. /\ \A x \in S : IsFiniteSet(Below(R, S, x)) /\ Cardinality(Below(R, S, x)) \in Nat
                       /\ Cardinality(Below(R, S, x)) < Cardinality(S)
       /\ \A x, y \in S : <<x, y>> \in R <=> Cardinality(Below(R, S, x)) < Cardinality(Below(R, S, y))
       /\ \A x, y \in S : Cardinality(Below(R, S, x)) = Cardinality(Below(R, S, y)) => x = y
       /\ \A k \in 0 .. (Cardinality(S) - 1) : \E x \in S : Cardinality(Below(R, S, x)) = k
  BY <1>2, <1>10, Ranking
<1>12. ASSUME NEW i \in S PROVE L[i] = rank(i) + 1
  <2>1. {j \in S : Before(t, D[t][j], D[t][i])} = Below(R, S, i) \cup {i}
    BY <1>4, <1>8 DEF Below
  <2>2. i \notin Below(R, S, i)
    BY <1>4, <1>6 DEF Below
  <2>3. Cardinality(Below(R, S, i) \cup {i}) = Cardinality(Below(R, S, i)) + 1
    BY <1>11, <2>2, FS_AddElement
  <2>4. QED
    BY <1>9, <2>1, <2>3
<1>13. \A i \in S : rank(i) \in Nat /\ rank(i) < n
  BY <1>2, <1>11
<1> HIDE DEF rank
<1>14. \A i \in S : L[i] \in S
  <2> TAKE i \in S
  <2>1. L[i] = rank(i) + 1 /\ rank(i) \in Nat /\ rank(i) < n /\ n \in Nat
    BY <1>1, <1>12, <1>13
  <2>2. L[i] \in 1..n
    BY <2>1
  <2>3. QED
    BY <1>1, <2>2
<1>15. L \in [S -> S]
  BY <1>9, <1>14
<1>a. /\ \A x, y \in S : <<x, y>> \in R <=> rank(x) < rank(y)
      /\ \A x, y \in S : rank(x) = rank(y) => x = y
      /\ \A k \in 0 .. (Cardinality(S) - 1) : \E x \in S : rank(x) = k
  BY <1>11 DEF rank
<1>16. \A i, j \in S : L[i] = L[j] => i = j
  BY <1>a, <1>12, <1>13
<1>17. ASSUME NEW k \in S PROVE \E i \in S : L[i] = k
  <2>1. k - 1 \in 0 .. (Cardinality(S) - 1)
    BY <1>1, <1>2
  <2>2. PICK i \in S : rank(i) = k - 1
    BY <1>a, <2>1
  <2>3. k \in Nat /\ rank(i) \in Nat
    BY <1>1, <1>13
  <2>4. L[i] = k
    BY <1>12, <2>2, <2>3
  <2>5. QED
    BY <2>4
<1>18. \A i, j \in S : L[i] < L[j] <=> Less(t, D[t][i], D[t][j])
  <2> TAKE i, j \in S
  <2>1. rank(i) \in Nat /\ rank(j) \in Nat /\ L[i] = rank(i) + 1 /\ L[j] = rank(j) + 1
    BY <1>12, <1>13
  <2>2. rank(i) < rank(j) <=> Less(t, D[t][i], D[t][j])
    BY <1>4, <1>a
  <2>3. QED
    BY <2>1, <2>2
<1>19. Permutes(L, S)
  BY <1>15, <1>16, <1>17 DEF Permutes
<1>20. QED
  BY <1>18, <1>19 DEF L, S

\* Moving the rows to their positions loses none.
LEMMA MovedRows ==
  ASSUME NEW C, Typed(C), NEW L, \A t \in Tables : Permutes(L[t], DOMAIN C[t])
  PROVE  LET M == Moved(C, L)
         IN  /\ Typed(M) /\ \A t \in Tables : DOMAIN M[t] = DOMAIN C[t] /\ Len(M[t]) = Len(C[t])
             /\ \A t \in Tables : \A i \in DOMAIN C[t] : M[t][L[t][i]] = C[t][i]
<1> DEFINE M == Moved(C, L)
           Source(t, k) == CHOOSE i \in DOMAIN C[t] : L[t][i] = k
           Seq1(t) == [k \in DOMAIN C[t] |-> Assign(t, C[t][k], C[t][Source(t, k)])]
<1>1. M = [t \in Tables |-> Seq1(t)]
  BY DEF Moved
<1> HIDE DEF M
<1>2. ASSUME NEW t \in Tables
      PROVE  /\ IsTable(t, M[t]) /\ DOMAIN M[t] = DOMAIN C[t] /\ Len(M[t]) = Len(C[t])
             /\ \A i \in DOMAIN C[t] : M[t][L[t][i]] = C[t][i]
  <2>1. IsTable(t, C[t]) /\ Permutes(L[t], DOMAIN C[t])
    BY DEF Typed
  <2>2. M[t] = Seq1(t)
    BY <1>1
  <2>3. Len(C[t]) \in Nat /\ DOMAIN C[t] = 1..Len(C[t])
    BY <2>1 DEF IsTable, IsList
  <2>4. \A k \in DOMAIN C[t] : Source(t, k) \in DOMAIN C[t] /\ L[t][Source(t, k)] = k
    BY <2>1 DEF Permutes
  <2>5. M[t] = [k \in DOMAIN C[t] |-> M[t][k]]
    BY <2>2
  <2>6. \A k \in DOMAIN C[t] : M[t][k] = Assign(t, C[t][k], C[t][Source(t, k)])
    BY <2>2
  <2> HIDE DEF Source
  <2>7. \A k \in DOMAIN C[t] : M[t][k] = C[t][Source(t, k)] /\ IsRow(t, C[t][Source(t, k)])
    BY <2>1, <2>4, <2>6, AssignIsCopy DEF IsTable
  <2>8. IsList(M[t]) /\ DOMAIN M[t] = DOMAIN C[t] /\ Len(M[t]) = Len(C[t])
    BY <2>3, <2>5, FunctionList
  <2>9. \A i \in DOMAIN C[t] : L[t][i] \in DOMAIN C[t] /\ Source(t, L[t][i]) = i
    <3> TAKE i \in DOMAIN C[t]
    <3>1. L[t][i] \in DOMAIN C[t]
      BY <2>1 DEF Permutes
    <3>2. Source(t, L[t][i]) \in DOMAIN C[t] /\ L[t][Source(t, L[t][i])] = L[t][i]
      BY <2>4, <3>1
    <3>3. \A j, k \in DOMAIN C[t] : L[t][j] = L[t][k] => j = k
      BY <2>1 DEF Permutes
    <3>4. QED
      BY <3>1, <3>2, <3>3
  <2>10. QED
    BY <2>7, <2>8, <2>9 DEF IsTable
<1>3. M = [t \in Tables |-> M[t]]
  BY <1>1
<1>4. QED
  BY <1>2, <1>3 DEF Typed, M

-----------------------------------------------------------------------------
(* RebuildPtr.                                                             *)

LEMMA ConvertedPtr ==
  ASSUME NEW D, Typed(D), NEW L, Places1(L, D), NEW t \in Tables, NEW ptr \in [Ptrs(t) -> Nat],
         \A f \in DOMAIN Conversions[t] : ptr[f] # NoRow => ptr[f] \in DOMAIN D[Conversions[t][f]]
  PROVE  LET new == Converted(L, Conversions[t], ptr)
         IN  /\ new \in [Ptrs(t) -> Nat]
             /\ \A f \in DOMAIN Conversions[t] :
                  /\ new[f] = Convert(L, Conversions[t][f], ptr[f])
                  /\ new[f] # NoRow => new[f] \in DOMAIN D[Conversions[t][f]]
<1> DEFINE new == Converted(L, Conversions[t], ptr)
<1>1. new = [f \in Ptrs(t) |-> IF f \in DOMAIN Conversions[t] THEN Convert(L, Conversions[t][f], ptr[f]) ELSE ptr[f]]
  BY DEF Converted
<1> HIDE DEF new
<1>2. ASSUME NEW f \in DOMAIN Conversions[t]
      PROVE  /\ new[f] = Convert(L, Conversions[t][f], ptr[f]) /\ new[f] \in Nat
             /\ new[f] # NoRow => new[f] \in DOMAIN D[Conversions[t][f]]
  <2> DEFINE g == Conversions[t][f]
             p == ptr[f]
  <2>1. f \in Ptrs(t) /\ g \in Tables
    BY Targets
  <2>2. new[f] = Convert(L, g, p)
    BY <1>1, <2>1
  <2>3. Permutes(L[g], DOMAIN D[g]) /\ DOMAIN D[g] = 1..Len(D[g]) /\ Len(D[g]) \in Nat
    BY <2>1 DEF Places1, Typed, IsTable, IsList
  <2>4. p # NoRow => p \in DOMAIN D[g]
    OBVIOUS
  <2> HIDE DEF g, p
  <2>5. CASE p = NoRow
    <3>1. Convert(L, g, p) = NoRow
      BY <2>5 DEF Convert
    <3>2. QED
      BY <2>2, <3>1 DEF NoRow, g, p
  <2>6. CASE p # NoRow
    <3>1. Convert(L, g, p) = L[g][p] /\ L[g][p] \in DOMAIN D[g]
      BY <2>3, <2>4, <2>6 DEF Convert, Permutes
    <3>2. L[g][p] \in Nat
      BY <2>3, <3>1
    <3>3. QED
      BY <2>2, <3>1, <3>2 DEF g, p
  <2>7. QED
    BY <2>5, <2>6
<1>3. new \in [Ptrs(t) -> Nat]
  <2>1. \A f \in Ptrs(t) : new[f] \in Nat
    BY <1>1, <1>2
  <2>2. QED
    BY <1>1, <2>1
<1>4. QED
  BY <1>2, <1>3 DEF new

LEMMA RebuiltRow ==
  ASSUME NEW D, Typed(D), NEW L, Places1(L, D), NEW t \in Tables, NEW row, IsRow(t, row), InRange(D, t, row),
         t = "zn" => \A n \in DOMAIN row.inds : row.inds[n] # NoRow => row.inds[n] \in DOMAIN D["nd"]
  PROVE  LET new == Rebuilt(t, L, row)
         IN  /\ IsRow(t, new) /\ SameKeys(t, row, new) /\ DOMAIN new.ptr = Ptrs(t)
             /\ \A g \in Fields(t) \ {"ptr", "inds"} : new[g] = row[g]
             /\ t \notin Twofold => \A f \in DOMAIN Conversions[t] : new.ptr[f] = Convert(L, Conversions[t][f], row.ptr[f])
<1> DEFINE new == Rebuilt(t, L, row)
           once == Converted(L, Conversions[t], row.ptr)
           twice == Converted(L, Conversions[t], once)
           ptr == RebuiltPtr(t, L, row.ptr)
           inds == [n \in DOMAIN row.inds |-> Convert(L, "nd", row.inds[n])]
<1>1. row.ptr \in [Ptrs(t) -> Nat] /\ row = [g \in Fields(t) |-> row[g]]
  BY DEF IsRow
<1>2. /\ once \in [Ptrs(t) -> Nat]
      /\ \A f \in DOMAIN Conversions[t] :
           /\ once[f] = Convert(L, Conversions[t][f], row.ptr[f])
           /\ once[f] # NoRow => once[f] \in DOMAIN D[Conversions[t][f]]
  BY <1>1, ConvertedPtr DEF InRange
<1>3. ptr = IF t \in Twofold THEN twice ELSE once
  BY DEF RebuiltPtr
<1>4. twice \in [Ptrs(t) -> Nat]
  <2> HIDE DEF once
  <2>1. QED
    BY <1>2, ConvertedPtr
<1> HIDE DEF once, twice, ptr
<1>5. /\ ptr \in [Ptrs(t) -> Nat]
      /\ t \notin Twofold => \A f \in DOMAIN Conversions[t] : ptr[f] = Convert(L, Conversions[t][f], row.ptr[f])
  BY <1>2, <1>3, <1>4
<1>6. "ptr" \in Fields(t) /\ Keys(t) \subseteq Fields(t) \ {"ptr", "inds", "nds"} /\ (t = "zn" => {"nds", "inds"} \subseteq Fields(t))
  BY RowNames, RelationNames, TableNames DEF Keys, FieldNames
<1>7. CASE t # "zn"
  <2>1. new = [row EXCEPT !.ptr = ptr]
    BY <1>7 DEF Rebuilt, ptr
  <2> HIDE DEF new
  <2>2. new = [g \in Fields(t) |-> new[g]] /\ new.ptr = ptr /\ \A g \in Fields(t) \ {"ptr"} : new[g] = row[g]
    BY <1>1, <1>6, <2>1
  <2>3. \A k \in Keys(t) : new[k] = row[k]
    BY <1>6, <2>2
  <2>4. IsRow(t, new)
    BY <1>5, <1>7, <2>2, <2>3 DEF IsRow
  <2>5. DOMAIN new.ptr = Ptrs(t)
    BY <1>5, <2>2
  <2>6. QED
    BY <1>5, <2>2, <2>3, <2>4, <2>5 DEF SameKeys, new
<1>8. CASE t = "zn"
  <2>1. new = [row EXCEPT !.ptr = ptr, !.inds = inds]
    BY <1>8 DEF Rebuilt, ptr
  <2>a. inds \in [DOMAIN row.nds -> Nat]
    <3>1. row.inds \in [DOMAIN row.nds -> Nat]
      BY <1>8 DEF IsRow
    <3>2. ASSUME NEW n \in DOMAIN row.inds PROVE Convert(L, "nd", row.inds[n]) \in Nat
      <4>1. CASE row.inds[n] = NoRow
        BY <4>1 DEF Convert, NoRow
      <4>2. CASE row.inds[n] # NoRow
        <5>1. row.inds[n] \in DOMAIN D["nd"] /\ "nd" \in Tables
          BY <1>8, <4>2, TableNames
        <5>2. L["nd"][row.inds[n]] \in DOMAIN D["nd"] /\ DOMAIN D["nd"] = 1..Len(D["nd"])
          BY <5>1 DEF Places1, Permutes, Typed, IsTable, IsList
        <5>3. QED
          BY <4>2, <5>2 DEF Convert
      <4>3. QED
        BY <4>1, <4>2
    <3>3. QED
      BY <3>1, <3>2
  <2> HIDE DEF new, inds
  <2>2. /\ new = [g \in Fields(t) |-> new[g]] /\ new.ptr = ptr /\ new.inds = inds
        /\ \A g \in Fields(t) \ {"ptr", "inds"} : new[g] = row[g]
    <3> DEFINE one == [row EXCEPT !.ptr = ptr]
    <3>1. new = [one EXCEPT !.inds = inds]
      BY <2>1
    <3>2. one = [g \in Fields(t) |-> one[g]] /\ one.ptr = ptr /\ \A g \in Fields(t) \ {"ptr"} : one[g] = row[g]
      BY <1>1, <1>6
    <3> HIDE DEF one
    <3>3. /\ new = [g \in Fields(t) |-> new[g]] /\ new.inds = inds
          /\ \A g \in Fields(t) \ {"inds"} : new[g] = one[g]
      BY <1>6, <1>8, <3>1, <3>2
    <3>4. "ptr" \in Fields(t) \ {"inds"}
      BY <1>6
    <3>5. QED
      BY <3>2, <3>3, <3>4
  <2>3. (\A k \in Keys(t) : new[k] = row[k]) /\ new.nds = row.nds
    BY <1>6, <1>8, <2>2
  <2>4. IsRow(t, new)
    BY <1>5, <1>8, <2>a, <2>2, <2>3 DEF IsRow
  <2>5. DOMAIN new.ptr = Ptrs(t)
    BY <1>5, <2>2
  <2>6. QED
    BY <1>5, <2>2, <2>3, <2>4, <2>5 DEF SameKeys, new
<1>9. QED
  BY <1>7, <1>8

LEMMA RebuildIsMove ==
  ASSUME NEW D, Sound(D), ~Twice(D), PassTrue(D, {})
  PROVE  RebuiltFrom(D, RebuildPtr(D), LogByPh(D))
<1> DEFINE L == LogByPh(D)
           C == [t \in Tables |-> [i \in DOMAIN D[t] |-> Rebuilt(t, L, D[t][i])]]
           R == RebuildPtr(D)
<1>1. Typed(D) /\ UniqueIds(D) /\ PtrsTrue(D, {}) /\ ZoneNodes(D)
  BY DEF Sound, PassTrue
<1>2. R = Moved(C, L)
  BY DEF RebuildPtr
<1>3. Places1(L, D)
  <2>1. \A t \in Tables : DOMAIN D[t] = 1..Len(D[t]) /\ NoRow = 0
    BY <1>1 DEF Typed, IsTable, IsList, NoRow
  <2>2. \A t \in Tables : NoRow \notin DOMAIN D[t]
    BY <2>1
  <2> HIDE DEF L
  <2>3. \A t \in Tables : Permutes(L[t], DOMAIN D[t])
    BY <1>1, Positions DEF L
  <2>4. QED
    BY <2>2, <2>3 DEF Places1
<1> HIDE DEF L, R
<1>4. ASSUME NEW t \in Tables, NEW i \in DOMAIN D[t]
      PROVE  LET new == Rebuilt(t, L, D[t][i])
             IN  /\ IsRow(t, new) /\ SameKeys(t, D[t][i], new)
                 /\ \A g \in Fields(t) \ {"ptr", "inds"} : new[g] = D[t][i][g]
                 /\ t \notin Twofold => \A f \in DOMAIN Conversions[t] :
                      new.ptr[f] = Convert(L, Conversions[t][f], D[t][i].ptr[f])
  <2> DEFINE row == D[t][i]
  <2>1. IsRow(t, row)
    BY <1>1 DEF Typed, IsTable
  <2>2. InRange(D, t, row)
    BY <1>1 DEF InRange, PtrsTrue, PtrTrue, Old
  <2>3. t = "zn" => \A n \in DOMAIN row.inds : row.inds[n] # NoRow => row.inds[n] \in DOMAIN D["nd"]
    BY <1>1 DEF ZoneNodes
  <2> HIDE DEF row
  <2>4. /\ IsRow(t, Rebuilt(t, L, row)) /\ SameKeys(t, row, Rebuilt(t, L, row))
        /\ \A g \in Fields(t) \ {"ptr", "inds"} : Rebuilt(t, L, row)[g] = row[g]
        /\ t \notin Twofold => \A f \in DOMAIN Conversions[t] :
             Rebuilt(t, L, row).ptr[f] = Convert(L, Conversions[t][f], row.ptr[f])
    BY <1>1, <1>3, <2>1, <2>2, <2>3, RebuiltRow
  <2>5. QED
    BY <2>4 DEF row
<1>5. \A t \in Tables : C[t] = [i \in DOMAIN D[t] |-> Rebuilt(t, L, D[t][i])]
  OBVIOUS
<1>6. C = [t \in Tables |-> C[t]]
  OBVIOUS
<1> HIDE DEF C
<1>7. ASSUME NEW t \in Tables PROVE IsTable(t, C[t]) /\ DOMAIN C[t] = DOMAIN D[t] /\ Len(C[t]) = Len(D[t])
  <2>1. Len(D[t]) \in Nat /\ DOMAIN D[t] = 1..Len(D[t])
    BY <1>1 DEF Typed, IsTable, IsList
  <2>2. C[t] = [i \in 1..Len(D[t]) |-> C[t][i]] /\ \A i \in DOMAIN D[t] : C[t][i] = Rebuilt(t, L, D[t][i])
    BY <1>5, <2>1
  <2>3. IsList(C[t]) /\ DOMAIN C[t] = DOMAIN D[t] /\ Len(C[t]) = Len(D[t])
    BY <2>1, <2>2, FunctionList
  <2>4. \A i \in DOMAIN D[t] : IsRow(t, Rebuilt(t, L, D[t][i]))
    BY <1>4
  <2>5. \A i \in DOMAIN C[t] : IsRow(t, C[t][i])
    BY <2>2, <2>3, <2>4
  <2>6. QED
    BY <2>3, <2>5 DEF IsTable
<1>8. Typed(C)
  BY <1>6, <1>7 DEF Typed
<1>9. \A t \in Tables : Permutes(L[t], DOMAIN C[t])
  BY <1>3, <1>7 DEF Places1
<1>10. /\ Typed(R) /\ \A t \in Tables : DOMAIN R[t] = DOMAIN C[t] /\ Len(R[t]) = Len(C[t])
       /\ \A t \in Tables : \A i \in DOMAIN C[t] : R[t][L[t][i]] = C[t][i]
  BY <1>2, <1>8, <1>9, MovedRows
<1>11. ASSUME NEW t \in Tables, NEW i \in DOMAIN D[t] PROVE R[t][L[t][i]] = Rebuilt(t, L, D[t][i])
  <2>1. i \in DOMAIN C[t] /\ C[t][i] = Rebuilt(t, L, D[t][i])
    BY <1>5, <1>7
  <2>2. QED
    BY <1>10, <2>1
<1>12. \A t \in Tables : DOMAIN R[t] = DOMAIN D[t] /\ Len(R[t]) = Len(D[t])
  BY <1>7, <1>10
<1>13. RebuiltFrom(D, R, L)
  BY <1>3, <1>4, <1>10, <1>11, <1>12 DEF RebuiltFrom
<1>14. QED
  BY <1>13 DEF R, L

LEMMA ChainOnceEnded ==
  ASSUME NEW s, IsList(s), Chained(s),
         \A j \in DOMAIN s : \A f \in {"fptr", "bptr"} : s[j].ptr[f] # NoRow =>
           s[j].ptr[f] \in DOMAIN s /\ s[s[j].ptr[f]].par = s[j].par
  PROVE  OnceEnded(s)
<1> SUFFICES ASSUME NEW k \in DOMAIN s
             PROVE  \A f \in {"fptr", "bptr"} :
                      \E x \in DOMAIN s : \A j \in DOMAIN s : (s[j].par = s[k].par /\ s[j].ptr[f] = NoRow) <=> j = x
  BY DEF OnceEnded
<1> DEFINE n == Len(s)
           K == {j \in DOMAIN s : s[j].par = s[k].par}
           a == Min(K)
           b == Max(K)
<1>1. n \in Nat /\ DOMAIN s = 1..n
  BY DEF IsList
<1>2. K \in SUBSET (1..n) /\ K # {}
  BY <1>1
<1>3. /\ a \in K /\ b \in K
      /\ \A j \in K : a <= j /\ j <= b
  <2> HIDE DEF K
  <2>1. QED
    BY <1>1, <1>2, Extremes
<1> HIDE DEF a, b
<1>4. \A i, j \in K : (i <= j /\ j <= i => i = j) /\ (i < j => ~(j <= i)) /\ i \in Nat
  BY <1>1
<1>5. \A j \in K : s[j].ptr["fptr"] = NoRow <=> j = b
  <2>1. ASSUME NEW j \in K, s[j].ptr["fptr"] = NoRow PROVE j = b
    <3>1. b <= j /\ j <= b
      BY <1>3, <2>1 DEF Chained
    <3>2. QED
      BY <1>3, <1>4, <3>1
  <2>2. ASSUME s[b].ptr["fptr"] # NoRow PROVE FALSE
    BY <1>3, <2>2, <1>4 DEF Chained
  <2>3. QED
    BY <2>1, <2>2
<1>6. \A j \in K : s[j].ptr["bptr"] = NoRow <=> j = a
  <2>1. ASSUME NEW j \in K, s[j].ptr["bptr"] = NoRow PROVE j = a
    <3>1. a <= j /\ j <= a
      BY <1>3, <2>1 DEF Chained
    <3>2. QED
      BY <1>3, <1>4, <3>1
  <2>2. ASSUME s[a].ptr["bptr"] # NoRow PROVE FALSE
    BY <1>3, <2>2, <1>4 DEF Chained
  <2>3. QED
    BY <2>1, <2>2
<1>7. \E x \in DOMAIN s : \A j \in DOMAIN s : (s[j].par = s[k].par /\ s[j].ptr["fptr"] = NoRow) <=> j = x
  BY <1>3, <1>5
<1>8. \E x \in DOMAIN s : \A j \in DOMAIN s : (s[j].par = s[k].par /\ s[j].ptr["bptr"] = NoRow) <=> j = x
  BY <1>3, <1>6
<1>9. QED
  BY <1>7, <1>8

LEMMA LessSame ==
  ASSUME NEW t \in Tables, NEW a, NEW b, NEW c, NEW d, SameKeys(t, a, c), SameKeys(t, b, d)
  PROVE  Less(t, a, b) <=> Less(t, c, d)
<1>1. t \in Relations => {"par", "chi"} = Keys(t)
  BY RelationNames
<1>2. t \notin Relations => "id" \in Keys(t)
  BY RowNames, TableNames
<1>3. QED
  BY <1>1, <1>2 DEF SameKeys, Less

LEMMA RebuiltInOrder ==
  ASSUME NEW D, Sound(D), ~Twice(D), NEW R, RebuiltFrom(D, R, LogByPh(D))
  PROVE  InOrder(R)
<1> DEFINE L == LogByPh(D)
<1> SUFFICES ASSUME NEW t \in Tables, NEW k \in DOMAIN R[t], NEW l \in DOMAIN R[t]
             PROVE  Less(t, R[t][k], R[t][l]) <=> k < l
  BY DEF InOrder
<1>1. /\ Permutes(L[t], DOMAIN D[t])
      /\ \A i, j \in DOMAIN D[t] : L[t][i] < L[t][j] <=> Less(t, D[t][i], D[t][j])
  <2>1. Typed(D) /\ UniqueIds(D)
    BY DEF Sound
  <2>2. QED
    BY <2>1, Positions
<1> HIDE DEF L
<1>2. DOMAIN R[t] = DOMAIN D[t] /\ \A i \in DOMAIN D[t] : SameKeys(t, D[t][i], R[t][L[t][i]])
  BY DEF RebuiltFrom, L
<1>3. PICK i \in DOMAIN D[t] : L[t][i] = k
  BY <1>1, <1>2 DEF Permutes
<1>4. PICK j \in DOMAIN D[t] : L[t][j] = l
  BY <1>1, <1>2 DEF Permutes
<1>5. SameKeys(t, D[t][i], R[t][k]) /\ SameKeys(t, D[t][j], R[t][l])
  BY <1>2, <1>3, <1>4
<1>6. Less(t, D[t][i], D[t][j]) <=> Less(t, R[t][k], R[t][l])
  BY <1>5, LessSame
<1>7. QED
  BY <1>1, <1>3, <1>4, <1>6

\* A permutation of the first numbers that keeps their order moves none.
LEMMA MonotoneIsIdentity ==
  ASSUME NEW n \in Nat, NEW p \in [1..n -> 1..n],
         \A k, l \in 1..n : p[k] < p[l] <=> k < l,
         \A k \in 1..n : \E l \in 1..n : p[l] = k
  PROVE  \A k \in 1..n : p[k] = k
<1> DEFINE B == {k \in 1..n : p[k] # k}
           Up == {kl \in B \X B : kl[1] < kl[2]}
<1>1. SUFFICES ASSUME B # {} PROVE FALSE
  OBVIOUS
<1>2. IsFiniteSet(B)
  BY FS_Interval, FS_Subset
<1>3. Orders(Up, B)
  BY DEF Orders
<1>4. \A x, y \in B : <<y, x>> \in Up <=> y < x
  OBVIOUS
<1> HIDE DEF Up
<1>5. PICK b \in B : \A y \in B : <<y, b>> \notin Up
  BY <1>1, <1>2, <1>3, LeastElement
<1>6. \A k \in 1..n : k < b => p[k] = k
  BY <1>4, <1>5
<1>7. b \in 1..n /\ p[b] # b /\ p[b] \in 1..n
  OBVIOUS
<1>8. ~(p[b] < b)
  <2>1. ASSUME p[b] < b PROVE FALSE
    BY <1>6, <1>7, <2>1
  <2>2. QED
    BY <2>1
<1>9. PICK l \in 1..n : p[l] = b
  BY <1>7
<1>10. p[l] < p[b]
  BY <1>7, <1>8, <1>9
<1>11. l < b
  BY <1>7, <1>9, <1>10
<1>12. p[l] = l
  BY <1>6, <1>11
<1>13. QED
  BY <1>7, <1>9, <1>11, <1>12

\* In tables that are in order no key is twice, and the rows stay where they are.
LEMMA OrderedStay ==
  ASSUME NEW D, Typed(D), InOrder(D)
  PROVE  UniqueIds(D) /\ ~Twice(D) /\ Moved(D, LogByPh(D)) = D
<1>1. \A t \in Tables : DOMAIN D[t] = 1..Len(D[t]) /\ Len(D[t]) \in Nat
  BY DEF Typed, IsTable, IsList
<1>2. ASSUME NEW t \in Components, NEW i \in DOMAIN D[t], NEW j \in DOMAIN D[t], D[t][i].id = D[t][j].id PROVE i = j
  BY TableNames, <1>2, <1>1 DEF Less, InOrder
<1>3. ASSUME NEW t \in Relations, NEW i \in DOMAIN D[t], NEW j \in DOMAIN D[t],
             D[t][i].par = D[t][j].par, D[t][i].chi = D[t][j].chi
      PROVE  i = j
  BY TableNames, <1>3, <1>1 DEF Less, InOrder
<1>4. UniqueIds(D)
  BY <1>2 DEF UniqueIds
<1>5. ~Twice(D)
  BY <1>3 DEF Twice
<1> DEFINE L == LogByPh(D)
           M == Moved(D, L)
<1>6. \A t \in Tables :
        /\ Permutes(L[t], DOMAIN D[t])
        /\ \A i, j \in DOMAIN D[t] : L[t][i] < L[t][j] <=> Less(t, D[t][i], D[t][j])
  BY <1>4, <1>5, Positions
<1> HIDE DEF L
<1>7. ASSUME NEW t \in Tables, NEW i \in DOMAIN D[t] PROVE L[t][i] = i
  <2> DEFINE n == Len(D[t])
             p == L[t]
  <2>1. n \in Nat /\ DOMAIN D[t] = 1..n /\ p \in [1..n -> 1..n]
    BY <1>1, <1>6 DEF Permutes
  <2>2. \A k, l \in 1..n : p[k] < p[l] <=> k < l
    BY <1>6, <2>1 DEF InOrder
  <2>3. \A k \in 1..n : \E l \in 1..n : p[l] = k
    BY <1>6, <2>1 DEF Permutes
  <2> HIDE DEF n, p
  <2>5. \A k \in 1..n : p[k] = k
    BY <2>1, <2>2, <2>3, MonotoneIsIdentity
  <2>6. QED
    BY <2>1, <2>5 DEF p
<1>8. /\ Typed(M) /\ \A t \in Tables : DOMAIN M[t] = DOMAIN D[t] /\ Len(M[t]) = Len(D[t])
      /\ \A t \in Tables : \A i \in DOMAIN D[t] : M[t][L[t][i]] = D[t][i]
  BY <1>6, MovedRows
<1> HIDE DEF M
<1>9. ASSUME NEW t \in Tables PROVE M[t] = D[t]
  <2>1. M[t] = [i \in DOMAIN M[t] |-> M[t][i]] /\ D[t] = [i \in DOMAIN D[t] |-> D[t][i]]
    BY <1>8 DEF Typed, IsTable, IsList
  <2>2. DOMAIN M[t] = DOMAIN D[t] /\ \A i \in DOMAIN D[t] : M[t][i] = D[t][i]
    BY <1>7, <1>8
  <2>3. QED
    BY <2>1, <2>2
<1>10. M = D
  BY <1>8, <1>9 DEF Typed
<1>11. QED
  BY <1>4, <1>5, <1>10 DEF M, L

-----------------------------------------------------------------------------
(* The tables a pass leaves.                                               *)

LEMMA OnceEndedMoved ==
  ASSUME NEW D, NEW R, NEW L, RebuiltFrom(D, R, L), NEW r \in Linking, OnceEnded(D[r]),
         \A j \in DOMAIN D[r] : \A f \in {"fptr", "bptr"} : D[r][j].ptr[f] # NoRow => D[r][j].ptr[f] \in DOMAIN D[r]
  PROVE  OnceEnded(R[r])
<1>1. r \in Tables /\ r \notin Twofold
  BY TableNames DEF Linking, Twofold
<1>2. /\ {"fptr", "bptr"} \subseteq DOMAIN Conversions[r]
      /\ Conversions[r]["fptr"] = r /\ Conversions[r]["bptr"] = r
  BY RelationConversions DEF Linking, RelationPtr
<1>3. /\ \A i \in DOMAIN D[r] : L[r][i] \in DOMAIN D[r] /\ L[r][i] # NoRow
      /\ \A i, j \in DOMAIN D[r] : L[r][i] = L[r][j] => i = j
      /\ \A k \in DOMAIN D[r] : \E i \in DOMAIN D[r] : L[r][i] = k
      /\ DOMAIN R[r] = DOMAIN D[r]
  BY <1>1 DEF RebuiltFrom, Places1, Permutes
<1>4. \A i \in DOMAIN D[r] : R[r][L[r][i]].par = D[r][i].par
  BY <1>1, RelationNames DEF RebuiltFrom, SameKeys, Linking
<1>5. \A i \in DOMAIN D[r] : \A f \in {"fptr", "bptr"} :
        R[r][L[r][i]].ptr[f] = NoRow <=> D[r][i].ptr[f] = NoRow
  <2> SUFFICES ASSUME NEW i \in DOMAIN D[r], NEW f \in {"fptr", "bptr"}
               PROVE  R[r][L[r][i]].ptr[f] = NoRow <=> D[r][i].ptr[f] = NoRow
    OBVIOUS
  <2>1. R[r][L[r][i]].ptr[f] = Convert(L, r, D[r][i].ptr[f])
    BY <1>1, <1>2 DEF RebuiltFrom
  <2> QED
    BY <2>1, <1>3 DEF Convert
<1> SUFFICES ASSUME NEW k \in DOMAIN R[r], NEW f \in {"fptr", "bptr"}
             PROVE  \E x \in DOMAIN R[r] : \A j \in DOMAIN R[r] :
                      (R[r][j].par = R[r][k].par /\ R[r][j].ptr[f] = NoRow) <=> j = x
  BY DEF OnceEnded
<1>6. PICK i \in DOMAIN D[r] : L[r][i] = k
  BY <1>3
<1>7. PICK x \in DOMAIN D[r] : \A j \in DOMAIN D[r] :
        (D[r][j].par = D[r][i].par /\ D[r][j].ptr[f] = NoRow) <=> j = x
  BY DEF OnceEnded
<1>8. ASSUME NEW j \in DOMAIN R[r]
      PROVE  (R[r][j].par = R[r][k].par /\ R[r][j].ptr[f] = NoRow) <=> j = L[r][x]
  <2>1. PICK l \in DOMAIN D[r] : L[r][l] = j
    BY <1>3
  <2>2. /\ R[r][j].par = D[r][l].par /\ R[r][k].par = D[r][i].par
        /\ R[r][j].ptr[f] = NoRow <=> D[r][l].ptr[f] = NoRow
        /\ j = L[r][x] <=> l = x
    BY <2>1, <1>3, <1>4, <1>5, <1>6
  <2> QED
    BY <2>2, <1>7
<1>9. L[r][x] \in DOMAIN R[r]
  BY <1>3
<1> QED
  <2> WITNESS L[r][x] \in DOMAIN R[r]
  <2> QED
    BY <1>8

\* Converting the pointers and moving the rows leaves every pointer true.
LEMMA RebuiltJoined ==
  ASSUME NEW D, Sound(D), PassTrue(D, {}), NEW R, NEW L, RebuiltFrom(D, R, L)
  PROVE  Joined(R)
<1>0. \A t \in Tables : \A f \in DOMAIN Conversions[t] : \A i \in DOMAIN D[t] : PtrTrue(D, t, i, f)
  BY DEF PassTrue, PtrsTrue, Old
<1>1. ASSUME NEW t \in Tables \ {"r_st_so", "r_zn_nd"}, NEW f \in DOMAIN Conversions[t], NEW k \in DOMAIN R[t]
      PROVE  PtrTrue(R, t, k, f)
  <2> DEFINE T == Conversions[t][f]
  <2>1. T \in Tables /\ t \notin Twofold
    BY Targets DEF Twofold
  <2>2. PICK i \in DOMAIN D[t] : L[t][i] = k
    BY DEF RebuiltFrom, Places1, Permutes
  <2> DEFINE p == D[t][i].ptr[f]
             q == R[t][k].ptr[f]
  <2>3. q = Convert(L, T, p) /\ SameKeys(t, D[t][i], R[t][k])
    BY <2>1, <2>2 DEF RebuiltFrom
  <2>4. SUFFICES ASSUME q # NoRow
                 PROVE  q \in DOMAIN R[T] /\ Leads(t, f, R[t][k], R[T][q])
    BY DEF PtrTrue
  <2>5. p # NoRow /\ q = L[T][p]
    BY <2>3, <2>4 DEF Convert
  <2>6. p \in DOMAIN D[T] /\ Leads(t, f, D[t][i], D[T][p])
    BY <1>0, <2>5 DEF PtrTrue
  <2> HIDE DEF T, p, q
  <2>7. q \in DOMAIN R[T] /\ SameKeys(T, D[T][p], R[T][q])
    <3>1. /\ Permutes(L[T], DOMAIN D[T]) /\ DOMAIN R[T] = DOMAIN D[T]
          /\ \A x \in DOMAIN D[T] : SameKeys(T, D[T][x], R[T][L[T][x]])
      BY <2>1 DEF RebuiltFrom, Places1
    <3>2. L[T][p] \in DOMAIN D[T]
      BY <3>1, <2>6 DEF Permutes
    <3> QED
      BY <3>1, <3>2, <2>5, <2>6
  <2>8. SameKeys(Conversions[t][f], D[T][p], R[T][q])
    BY <2>7 DEF T
  <2> QED
    BY <2>3, <2>6, <2>7, <2>8, LeadsSame
<1>2. ASSUME NEW r \in Linking \ {"r_st_so"}
      PROVE  EndsSet(R[r]) /\ OnceEnded(R[r])
  <2>1. r \in Relations /\ r \in Tables /\ r \notin Twofold
    BY TableNames DEF Linking, Twofold
  <2>2. EndsSet(D[r]) /\ Chained(D[r]) /\ IsList(D[r])
    BY <2>1 DEF PassTrue, Sound, Typed, IsTable
  <2>3. /\ DOMAIN Conversions[r] = {"parptr", "chiptr", "fptr", "bptr"}
        /\ Conversions[r]["fptr"] = r /\ Conversions[r]["bptr"] = r
        /\ Conversions[r]["parptr"] \in Tables /\ Conversions[r]["chiptr"] \in Tables
    BY <2>1, RelationConversions, RelationNames, TableNames
  <2>4. \A j \in DOMAIN D[r] : \A f \in {"fptr", "bptr"} : D[r][j].ptr[f] # NoRow =>
          D[r][j].ptr[f] \in DOMAIN D[r] /\ D[r][D[r][j].ptr[f]].par = D[r][j].par
    <3> SUFFICES ASSUME NEW j \in DOMAIN D[r], NEW f \in {"fptr", "bptr"}, D[r][j].ptr[f] # NoRow
                 PROVE  D[r][j].ptr[f] \in DOMAIN D[r] /\ D[r][D[r][j].ptr[f]].par = D[r][j].par
      OBVIOUS
    <3>1. PtrTrue(D, r, j, f) /\ Conversions[r][f] = r
      BY <1>0, <2>1, <2>3
    <3>2. r # "r_zn_nd" /\ r \notin Components /\ r # "nd"
      BY TableNames DEF Linking
    <3> QED
      BY <3>1, <3>2 DEF PtrTrue, Leads
  <2>5. OnceEnded(D[r])
    BY <2>2, <2>4, ChainOnceEnded
  <2>6. OnceEnded(R[r])
    BY <2>4, <2>5, OnceEndedMoved
  <2>7. ASSUME NEW k \in DOMAIN R[r], NEW f \in {"parptr", "chiptr"}
        PROVE  R[r][k].ptr[f] # NoRow
    <3> DEFINE T == Conversions[r][f]
    <3>1. PICK i \in DOMAIN D[r] : L[r][i] = k
      BY <2>1 DEF RebuiltFrom, Places1, Permutes
    <3>2. R[r][k].ptr[f] = Convert(L, T, D[r][i].ptr[f])
      BY <2>1, <2>3, <3>1 DEF RebuiltFrom
    <3>3. D[r][i].ptr[f] # NoRow /\ T \in Tables
      BY <2>2, <2>3 DEF EndsSet
    <3>4. D[r][i].ptr[f] \in DOMAIN D[T]
      BY <1>0, <2>1, <2>3, <3>3 DEF PtrTrue
    <3> QED
      BY <3>2, <3>3, <3>4 DEF Convert, RebuiltFrom, Places1, Permutes
  <2> QED
    BY <2>6, <2>7 DEF EndsSet
<1> QED
  BY <1>1, <1>2 DEF Joined

LEMMA JoinedSame ==
  ASSUME NEW D, Joined(D), NEW E, SameLinks(D, E)
  PROVE  Joined(E)
<1>1. ASSUME NEW t \in Tables \ {"r_st_so", "r_zn_nd"}, NEW f \in DOMAIN Conversions[t], NEW i \in DOMAIN E[t]
      PROVE  PtrTrue(E, t, i, f)
  <2>1. i \in DOMAIN D[t] /\ PtrTrue(D, t, i, f) /\ E[t][i].ptr = D[t][i].ptr
    BY <1>1 DEF SameLinks, Joined
  <2>2. Grows(D, E)
    BY DEF SameLinks, Grows
  <2>3. t \in Tables
    OBVIOUS
  <2>4. E[t][i].ptr[f] = D[t][i].ptr[f]
    BY <2>1
  <2> QED
    BY <2>1, <2>2, <2>3, <2>4, GrownPtr
<1>2. ASSUME NEW r \in Linking \ {"r_st_so"}
      PROVE  EndsSet(E[r]) /\ OnceEnded(E[r])
  <2>1. r \in Tables /\ Keys(r) = {"par", "chi"}
    BY TableNames, RelationNames DEF Linking
  <2>2. /\ DOMAIN E[r] = DOMAIN D[r]
        /\ \A i \in DOMAIN D[r] : E[r][i].par = D[r][i].par /\ E[r][i].ptr = D[r][i].ptr
    BY <2>1 DEF SameLinks, SameKeys
  <2>3. EndsSet(D[r]) /\ OnceEnded(D[r])
    BY DEF Joined
  <2>4. EndsSet(E[r])
    BY <2>2, <2>3 DEF EndsSet
  <2> SUFFICES ASSUME NEW k \in DOMAIN E[r], NEW f \in {"fptr", "bptr"}
               PROVE  \E x \in DOMAIN E[r] : \A j \in DOMAIN E[r] :
                        (E[r][j].par = E[r][k].par /\ E[r][j].ptr[f] = NoRow) <=> j = x
    BY <2>4 DEF OnceEnded
  <2>5. PICK x \in DOMAIN D[r] : \A j \in DOMAIN D[r] :
          (D[r][j].par = D[r][k].par /\ D[r][j].ptr[f] = NoRow) <=> j = x
    BY <2>2, <2>3 DEF OnceEnded
  <2>6. x \in DOMAIN E[r] /\ \A j \in DOMAIN E[r] :
          (E[r][j].par = E[r][k].par /\ E[r][j].ptr[f] = NoRow) <=> j = x
    BY <2>2, <2>5
  <2> QED
    BY <2>6
<1> QED
  BY <1>1, <1>2 DEF Joined

LEMMA JoinedLinked ==
  ASSUME NEW D, Joined(D), \A t \in Tables : \A i \in DOMAIN D[t] : DOMAIN D[t][i].ptr = Ptrs(t)
  PROVE  Linked(D)
<1>1. ASSUME NEW r \in Relations \ {"r_zn_nd", "r_st_so"}
      PROVE  RelationTrue(D, r)
  <2>1. /\ r \in Linking \ {"r_st_so"} /\ r \in Tables \ {"r_st_so", "r_zn_nd"}
        /\ r \notin Components /\ r # "nd"
    BY TableNames DEF Linking
  <2>2. /\ DOMAIN Conversions[r] = {"parptr", "chiptr", "fptr", "bptr"}
        /\ Conversions[r]["fptr"] = r /\ Conversions[r]["bptr"] = r
        /\ Conversions[r]["parptr"] = RelationEnds[r][1] /\ Conversions[r]["chiptr"] = RelationEnds[r][2]
    BY <2>1, RelationConversions, RelationNames DEF Linking
  <2>3. \A j \in DOMAIN D[r] : \A f \in {"parptr", "chiptr", "fptr", "bptr"} : PtrTrue(D, r, j, f)
    BY <2>1, <2>2 DEF Joined
  <2>4. \A k \in DOMAIN D[r] : D[r][k].ptr["parptr"] # NoRow /\ D[r][k].ptr["chiptr"] # NoRow
    BY <2>1 DEF Joined, EndsSet
  <2>5. ASSUME NEW k \in DOMAIN D[r]
        PROVE  /\ D[RelationEnds[r][1]][D[r][k].ptr.parptr].id = D[r][k].par
               /\ D[RelationEnds[r][2]][D[r][k].ptr.chiptr].id = D[r][k].chi
    <3> DEFINE par == D[RelationEnds[r][1]][D[r][k].ptr["parptr"]]
               chi == D[RelationEnds[r][2]][D[r][k].ptr["chiptr"]]
    <3>1. PtrTrue(D, r, k, "parptr") /\ D[r][k].ptr["parptr"] # NoRow
      BY <2>3, <2>4
    <3>2. PtrTrue(D, r, k, "chiptr") /\ D[r][k].ptr["chiptr"] # NoRow
      BY <2>3, <2>4
    <3>3. Leads(r, "parptr", D[r][k], par)
      BY <3>1, <2>2 DEF PtrTrue
    <3>4. Leads(r, "chiptr", D[r][k], chi)
      BY <3>2, <2>2 DEF PtrTrue
    <3> HIDE DEF par, chi
    <3>5. par.id = D[r][k].par /\ chi.id = D[r][k].chi
      BY <3>3, <3>4, <2>1 DEF Leads
    <3> QED
      BY <3>5 DEF par, chi
  <2>6. \A j \in DOMAIN D[r] : \A f \in {"fptr", "bptr"} : D[r][j].ptr[f] # NoRow =>
          D[r][j].ptr[f] \in DOMAIN D[r] /\ D[r][D[r][j].ptr[f]].par = D[r][j].par
    <3> SUFFICES ASSUME NEW j \in DOMAIN D[r], NEW f \in {"fptr", "bptr"}, D[r][j].ptr[f] # NoRow
                 PROVE  D[r][j].ptr[f] \in DOMAIN D[r] /\ D[r][D[r][j].ptr[f]].par = D[r][j].par
      OBVIOUS
    <3>1. PtrTrue(D, r, j, f) /\ Conversions[r][f] = r
      BY <2>2, <2>3
    <3> QED
      BY <3>1, <2>1 DEF PtrTrue, Leads
  <2>7. ASSUME NEW k \in DOMAIN D[r], NEW f \in {"fptr", "bptr"}
        PROVE  LET siblings == {j \in DOMAIN D[r] : D[r][j].par = D[r][k].par} IN
               /\ {D[r][j].ptr[f] : j \in siblings} \subseteq siblings \cup {NoRow}
               /\ Cardinality({j \in siblings : D[r][j].ptr[f] = NoRow}) = 1
    <3> DEFINE siblings == {j \in DOMAIN D[r] : D[r][j].par = D[r][k].par}
    <3>1. PICK x \in DOMAIN D[r] : \A j \in DOMAIN D[r] :
            (D[r][j].par = D[r][k].par /\ D[r][j].ptr[f] = NoRow) <=> j = x
      <4>1. OnceEnded(D[r])
        BY <2>1 DEF Joined
      <4> QED
        BY <4>1 DEF OnceEnded
    <3>2. {j \in siblings : D[r][j].ptr[f] = NoRow} = {x}
      BY <3>1
    <3>3. Cardinality({x}) = 1
      BY FS_Singleton
    <3>4. {D[r][j].ptr[f] : j \in siblings} \subseteq siblings \cup {NoRow}
      BY <2>6
    <3> QED
      BY <3>2, <3>3, <3>4
  <2> QED
    BY <2>5, <2>7 DEF RelationTrue
<1>2. ASSUME NEW t \in Components, NEW i \in DOMAIN D[t]
      PROVE  /\ t \in Tables /\ t \notin {"r_zn_nd"} /\ \A f \in DOMAIN Conversions[t] : PtrTrue(D, t, i, f)
             /\ DOMAIN D[t][i].ptr = PtrNames[t]
  <2>1. t \in Tables \ {"r_st_so", "r_zn_nd"}
    BY TableNames DEF Relations
  <2> QED
    BY <2>1, RowNames DEF Joined
<1>3. ASSUME NEW t \in {"cb", "switch", "so", "ld", "cp", "bus", "sec"}, NEW i \in DOMAIN D[t]
      PROVE  NodeTrue(D, D[t][i])
  <2>1. t \in Components /\ t # "nd" /\ t \in Placed
    BY DEF Components, Placed
  <2>2. "ind" \in DOMAIN Conversions[t] /\ Conversions[t]["ind"] = "nd"
    BY DEF Conversions, CB_RebuildPtr, SWITCH_RebuildPtr, SO_RebuildPtr, LD_RebuildPtr, CP_RebuildPtr, BUS_RebuildPtr,
           SEC_RebuildPtr
  <2>3. "iznd" \in PtrNames[t] => "iznd" \in DOMAIN Conversions[t] /\ Conversions[t]["iznd"] = "nd"
    BY DEF Conversions, CB_RebuildPtr, SWITCH_RebuildPtr, SO_RebuildPtr, LD_RebuildPtr, CP_RebuildPtr, BUS_RebuildPtr,
           SEC_RebuildPtr, PtrNames
  <2>4. PtrTrue(D, t, i, "ind") /\ ("iznd" \in DOMAIN D[t][i].ptr => PtrTrue(D, t, i, "iznd"))
    BY <2>1, <2>2, <2>3, <1>2
  <2>5. D[t][i].ptr["ind"] # NoRow => Leads(t, "ind", D[t][i], D["nd"][D[t][i].ptr["ind"]])
    BY <2>2, <2>4 DEF PtrTrue
  <2>6. "iznd" \in DOMAIN D[t][i].ptr /\ D[t][i].ptr["iznd"] # NoRow =>
          Leads(t, "iznd", D[t][i], D["nd"][D[t][i].ptr["iznd"]])
    BY SMTT(40), <2>1, <2>3, <2>4, <1>2 DEF PtrTrue
  <2> QED
    BY <2>1, <2>5, <2>6 DEF NodeTrue, Leads
<1>4. ASSUME NEW t \in Components, NEW i \in DOMAIN D[t], NEW f \in DOMAIN Conversions[t],
             Conversions[t][f] \in Relations \ {"r_st_so"}
      PROVE  OwnRow(D, D[t][i], Conversions[t][f], f)
  <2>1. f \notin {"parptr", "chiptr", "fptr", "bptr", "ind", "iznd"}
    BY <1>4, ComponentConversions, TableNames
  <2>2. PtrTrue(D, t, i, f) /\ t # "r_zn_nd"
    BY <1>2, TableNames
  <2> DEFINE to == D[Conversions[t][f]][D[t][i].ptr[f]]
  <2>3. D[t][i].ptr[f] # NoRow => Leads(t, f, D[t][i], to)
    BY <2>2 DEF PtrTrue
  <2> HIDE DEF to
  <2>4. D[t][i].ptr[f] # NoRow => D[t][i].id \in {to.par, to.chi}
    BY <2>1, <2>2, <2>3 DEF Leads
  <2> QED
    BY <2>4 DEF OwnRow, to
<1>5. ASSUME NEW t, NEW d \in ToSet(D[t])
      PROVE  \E i \in DOMAIN D[t] : d = D[t][i]
  BY DEF ToSet
<1>6. ASSUME NEW t \in {"cb", "switch", "so", "ld", "cp", "bus", "sec"}, NEW d \in ToSet(D[t])
      PROVE  NodeTrue(D, d)
  BY <1>3, <1>5
<1>7. ASSUME NEW t \in Components, NEW d \in ToSet(D[t]), NEW f \in DOMAIN Conversions[t],
             Conversions[t][f] \in Relations \ {"r_st_so"}
      PROVE  OwnRow(D, d, Conversions[t][f], f)
  BY <1>4, <1>5, <1>7
<1> QED
  BY <1>1, <1>6, <1>7 DEF Linked

-----------------------------------------------------------------------------
(* Taking rows.                                                            *)

LEMMA NumberedPicks ==
  ASSUME NEW s, IsList(s), NEW S \in SUBSET (DOMAIN s), NEW v \in [S -> Nat],
         \A x, y \in S : v[x] = v[y] => x = y
  PROVE  Picks(s, ByNumber(s, S, v), S, v)
<1> DEFINE R == {ab \in S \X S : v[ab[1]] < v[ab[2]]}
           N == Cardinality(S)
           list == [k \in 1..N |-> CHOOSE x \in S : Cardinality(Below(R, S, x)) = k - 1]
           met(k) == CHOOSE x \in S : Cardinality({y \in S : v[y] < v[x]}) = k - 1
           nth(k) == CHOOSE x \in S : Cardinality(Below(R, S, x)) = k - 1
<1>1. IsFiniteSet(S)
  <2>1. IsFiniteSet(1..Len(s)) /\ S \subseteq 1..Len(s)
    BY FS_Interval DEF IsList
  <2> QED
    BY <2>1, FS_Subset
<1>2. \A x, y \in S : <<x, y>> \in R <=> v[x] < v[y]
  OBVIOUS
<1>3. \A x \in S : Below(R, S, x) = {y \in S : v[y] < v[x]}
  BY DEF Below
<1>4. Orders(R, S)
  <2> HIDE DEF R
  <2>1. \A x \in S : v[x] \in Nat
    OBVIOUS
  <2> QED
    BY <2>1, <1>2 DEF Orders
<1> HIDE DEF R
<1>5. /\ N \in Nat /\ list \in [1..N -> S]
      /\ \A k, l \in 1..N : k < l <=> <<list[k], list[l]>> \in R
      /\ \A k, l \in 1..N : list[k] = list[l] => k = l
  BY <1>1, <1>4, OrderedList
<1>6. ByNumber(s, S, v) = [k \in 1..N |-> s[list[k]]]
  <2>1. ASSUME NEW k PROVE met(k) = nth(k)
    BY <1>3
  <2>2. list = [k \in 1..N |-> nth(k)]
    OBVIOUS
  <2> DEFINE kept == [k \in 1..N |-> met(k)]
  <2>3. ByNumber(s, S, v) = [k \in DOMAIN kept |-> s[kept[k]]]
    BY DEF ByNumber
  <2>4. kept = list
    <3> HIDE DEF met, nth, list
    <3> QED
      BY <2>1, <2>2
  <2>5. DOMAIN kept = 1..N
    OBVIOUS
  <2> HIDE DEF kept, list
  <2> QED
    BY <2>3, <2>4, <2>5
<1> HIDE DEF list, N
<1> DEFINE c == [k \in 1..N |-> s[list[k]]]
<1>7. IsList(c) /\ DOMAIN c = 1..N
  <2>1. c = [k \in 1..N |-> c[k]]
    OBVIOUS
  <2> HIDE DEF c
  <2> QED
    BY <2>1, <1>5, FunctionList
<1>8. \A k \in DOMAIN c : c[k] = s[list[k]]
  BY <1>7
<1>9. /\ list \in [DOMAIN c -> S]
      /\ \A k, l \in DOMAIN c : list[k] = list[l] => k = l
      /\ \A k, l \in DOMAIN c : k < l <=> v[list[k]] < v[list[l]]
  BY <1>2, <1>5, <1>7
<1> HIDE DEF c
<1>10. Picks(s, c, S, v)
  BY <1>7, <1>8, <1>9 DEF Picks
<1> QED
  BY <1>6, <1>10 DEF c

LEMMA ChosenPicks ==
  ASSUME NEW s, IsList(s), NEW S \in SUBSET (DOMAIN s)
  PROVE  Picks(s, Chosen(s, S), S, [i \in S |-> i])
<1> DEFINE v == [i \in S |-> i]
           met(k) == CHOOSE x \in S : Cardinality({y \in S : v[y] < v[x]}) = k - 1
           nth(k) == CHOOSE x \in S : Cardinality({y \in S : y < x}) = k - 1
           kept == [k \in 1..Cardinality(S) |-> met(k)]
           taken == [k \in 1..Cardinality(S) |-> nth(k)]
<1>1. v \in [S -> Nat] /\ \A x, y \in S : v[x] = v[y] => x = y
  BY DEF IsList
<1>2. \A x \in S : {y \in S : v[y] < v[x]} = {y \in S : y < x}
  OBVIOUS
<1>3. ASSUME NEW k PROVE met(k) = nth(k)
  <2> HIDE DEF v
  <2> QED
    BY <1>2
<1>4. kept = taken
  <2> HIDE DEF met, nth
  <2> QED
    BY <1>3
<1>5. ByNumber(s, S, v) = [k \in DOMAIN kept |-> s[kept[k]]]
  BY DEF ByNumber
<1>6. Chosen(s, S) = [k \in DOMAIN taken |-> s[taken[k]]]
  BY DEF Chosen, Ordered
<1> HIDE DEF kept, taken, v
<1>7. ByNumber(s, S, v) = Chosen(s, S)
  BY <1>4, <1>5, <1>6
<1>8. Picks(s, ByNumber(s, S, v), S, v)
  BY <1>1, NumberedPicks
<1> QED
  BY <1>7, <1>8 DEF v

LEMMA SortedPicks ==
  ASSUME NEW s, IsList(s), \A i \in DOMAIN s : s[i].id \in Nat, \A i, j \in DOMAIN s : s[i].id = s[j].id => i = j
  PROVE  Picks(s, SortedById(s), DOMAIN s, [i \in DOMAIN s |-> s[i].id])
<1> DEFINE S == DOMAIN s
           v == [i \in S |-> s[i].id]
           met(k) == CHOOSE x \in S : Cardinality({y \in S : v[y] < v[x]}) = k - 1
           nth(k) == CHOOSE x \in S : Cardinality({y \in S : s[y].id < s[x].id}) = k - 1
           kept == [k \in 1..Cardinality(S) |-> met(k)]
           taken == [k \in 1..Cardinality(S) |-> nth(k)]
<1>1. v \in [S -> Nat] /\ \A x, y \in S : v[x] = v[y] => x = y
  OBVIOUS
<1>2. \A x \in S : {y \in S : v[y] < v[x]} = {y \in S : s[y].id < s[x].id}
  OBVIOUS
<1>3. ASSUME NEW k PROVE met(k) = nth(k)
  <2> HIDE DEF v
  <2> QED
    BY <1>2
<1>4. kept = taken
  <2> HIDE DEF met, nth
  <2> QED
    BY <1>3
<1>5. ByNumber(s, S, v) = [k \in DOMAIN kept |-> s[kept[k]]]
  BY DEF ByNumber
<1>6. SortedById(s) = [k \in DOMAIN taken |-> s[taken[k]]]
  BY DEF SortedById, Ordered
<1> HIDE DEF kept, taken, v
<1>7. ByNumber(s, S, v) = SortedById(s)
  BY <1>4, <1>5, <1>6
<1>8. Picks(s, ByNumber(s, S, v), S, v)
  BY <1>1, NumberedPicks
<1> QED
  BY <1>7, <1>8 DEF v

-----------------------------------------------------------------------------
(* The end of a pass.                                                      *)

LEMMA SomeKeys ==
  /\ Keys("st") = {"id", "pid"} /\ Keys("switch") = {"id", "stid", "nd", "znd"} /\ Keys("zn") = {"id", "stid"}
  /\ Keys("nd") = {"id"} /\ Keys("bus") = {"id", "pid", "stid", "nd"} /\ Keys("so") = {"id", "stid", "nd"}
  /\ {"st", "switch", "zn", "nd", "bus", "so", "sec", "ld"} \subseteq Tables
BY RowNames DEF Keys, FieldNames, Components, Tables

\* Empty tables stay empty.
LEMMA SameEmpty ==
  ASSUME NEW D, Typed(D), NEW E, Typed(E), NEW t \in Tables, Len(E[t]) = Len(D[t])
  PROVE  E[t] = <<>> <=> D[t] = <<>>
BY EmptyList DEF Typed, IsTable

LEMMA FinishedSame ==
  ASSUME NEW D, Finished(D), NEW E, Typed(E), SameLinks(D, E)
  PROVE  Finished(E)
<1>1. Joined(E)
  BY JoinedSame DEF Finished
<1>2. InOrder(E)
  <2> SUFFICES ASSUME NEW t \in Tables, NEW i \in DOMAIN E[t], NEW j \in DOMAIN E[t]
               PROVE  Less(t, E[t][i], E[t][j]) <=> i < j
    BY DEF InOrder
  <2>1. i \in DOMAIN D[t] /\ j \in DOMAIN D[t]
    BY DEF SameLinks
  <2>2. SameKeys(t, D[t][i], E[t][i]) /\ SameKeys(t, D[t][j], E[t][j])
    BY <2>1 DEF SameLinks
  <2>3. Less(t, D[t][i], D[t][j]) <=> Less(t, E[t][i], E[t][j])
    BY <2>2, LessSame
  <2>4. Less(t, D[t][i], D[t][j]) <=> i < j
    BY <2>1 DEF Finished, InOrder
  <2> QED
    BY <2>3, <2>4
<1>3. UniqueIds(E)
  BY <1>2, OrderedStay
<1>4. /\ DOMAIN E["zn"] = DOMAIN D["zn"] /\ Len(E["zn"]) = Len(D["zn"])
      /\ DOMAIN E["st"] = DOMAIN D["st"] /\ Len(E["st"]) = Len(D["st"])
      /\ DOMAIN E["switch"] = DOMAIN D["switch"]
      /\ \A i \in DOMAIN D["zn"] : E["zn"][i].id = D["zn"][i].id
      /\ \A i \in DOMAIN D["st"] : E["st"][i].pid = D["st"][i].pid /\ E["st"][i].ptr = D["st"][i].ptr
      /\ \A i \in DOMAIN D["switch"] : E["switch"][i].stid = D["switch"][i].stid
  BY SomeKeys DEF SameLinks, SameKeys
<1>5. ZoneIds(E)
  BY <1>4 DEF ZoneIds, Finished, Sound
<1>6. Stale(E)
  BY <1>4 DEF Stale, Finished, Sound
<1>7. E.st # <<>>
  BY <1>4, SameEmpty, SomeKeys DEF Finished, Sound
<1> QED
  BY <1>1, <1>2, <1>3, <1>5, <1>6, <1>7 DEF Finished, Sound, NoStations

LEMMA RebuiltFinished ==
  ASSUME NEW D, Sound(D), D.st # <<>>, ~Twice(D), PassTrue(D, {})
  PROVE  Finished(RebuildPtr(D))
<1> DEFINE R == RebuildPtr(D)
           L == LogByPh(D)
<1>1. RebuiltFrom(D, R, L)
  BY RebuildIsMove
<1> HIDE DEF R, L
<1>2. Joined(R)
  BY <1>1, RebuiltJoined
<1>3. InOrder(R)
  BY <1>1, RebuiltInOrder DEF L
<1>4. Typed(R) /\ Typed(D)
  BY <1>1 DEF RebuiltFrom, Sound
<1>5. UniqueIds(R)
  BY <1>3, <1>4, OrderedStay
<1>6. \A t \in Tables : Len(R[t]) = Len(D[t]) /\ DOMAIN R[t] = DOMAIN D[t] /\ Permutes(L[t], DOMAIN D[t])
  BY <1>1 DEF RebuiltFrom, Places1
<1>7. \A t \in Tables : \A i \in DOMAIN D[t] : SameKeys(t, D[t][i], R[t][L[t][i]])
  BY <1>1 DEF RebuiltFrom
<1>8. ZoneIds(R)
  <2> SUFFICES ASSUME NEW z \in DOMAIN R["zn"] PROVE R["zn"][z].id <= Len(R["zn"])
    BY DEF ZoneIds
  <2>1. PICK i \in DOMAIN D["zn"] : L["zn"][i] = z
    BY <1>6, SomeKeys DEF Permutes
  <2>2. R["zn"][z].id = D["zn"][i].id /\ Len(R["zn"]) = Len(D["zn"])
    BY <2>1, <1>6, <1>7, SomeKeys DEF SameKeys
  <2> QED
    BY <2>2 DEF Sound, ZoneIds
<1>9. Stale(R)
  <2> SUFFICES ASSUME NEW k \in DOMAIN R["st"], R["st"][k].ptr["r_switch"] # NoRow
               PROVE  \E s \in DOMAIN R["switch"] : R["switch"][s].stid = R["st"][k].pid
    BY DEF Stale
  <2>1. PICK i \in DOMAIN D["st"] : L["st"][i] = k
    BY <1>6, SomeKeys DEF Permutes
  <2>2. "r_switch" \in DOMAIN Conversions["st"] /\ "st" \notin Twofold
    BY DEF Conversions, ST_RebuildPtr, Twofold
  <2>3. R["st"][k].ptr["r_switch"] = Convert(L, Conversions["st"]["r_switch"], D["st"][i].ptr["r_switch"])
    BY <1>1, <2>1, <2>2, SomeKeys DEF RebuiltFrom
  <2>4. D["st"][i].ptr["r_switch"] # NoRow
    BY <2>3 DEF Convert
  <2>5. PICK s \in DOMAIN D["switch"] : D["switch"][s].stid = D["st"][i].pid
    BY <2>4 DEF Sound, Stale
  <2>6. L["switch"][s] \in DOMAIN R["switch"]
    BY <1>6, SomeKeys DEF Permutes
  <2>7. R["switch"][L["switch"][s]].stid = D["switch"][s].stid /\ R["st"][k].pid = D["st"][i].pid
    BY <2>1, <1>7, SomeKeys DEF SameKeys
  <2> QED
    BY <2>5, <2>6, <2>7
<1>10. R.st # <<>>
  BY <1>4, <1>6, SameEmpty, SomeKeys
<1>11. Sound(R)
  BY <1>4, <1>5, <1>8, <1>9, <1>10 DEF Sound, NoStations
<1> QED
  BY <1>2, <1>3, <1>10, <1>11 DEF Finished, R

LEMMA SetVLFinished ==
  ASSUME NEW D, Finished(D)
  PROVE  Finished(SetVL(D))
<1> DEFINE met == Spread(D, {D.bus[b].ptr.ind : b \in DOMAIN D.bus} \ {NoRow})
           q == [i \in DOMAIN D.nd |-> i \notin met]
           u == Valued(D.nd, {}, "unproc", q)
           E == [D EXCEPT !.nd = u]
<1>1. Typed(D) /\ D = [t \in Tables |-> D[t]] /\ "nd" \in Tables
  BY SomeKeys DEF Finished, Sound, Typed
<1>2. IsTable("nd", D["nd"])
  BY <1>1 DEF Typed
<1>3. "unproc" \notin Keys("nd") \cup {"ptr", "nds", "inds"}
  BY SomeKeys
<1>4. [i \in DOMAIN D.nd |-> [D.nd[i] EXCEPT !.unproc = i \notin met]] = u
  <2> HIDE DEF met
  <2> QED
    BY DEF Valued
<1>5. SetVL(D) = IF D.bus = <<>> THEN D ELSE E
  <2>1. SetVL(D) = IF D.bus = <<>> THEN D
                   ELSE [D EXCEPT !.nd = [i \in DOMAIN D.nd |-> [D.nd[i] EXCEPT !.unproc = i \notin met]]]
    BY DEF SetVL
  <2> HIDE DEF met, u
  <2> QED
    BY <2>1, <1>4
<1>6. /\ IsTable("nd", u) /\ DOMAIN u = DOMAIN D["nd"] /\ Len(u) = Len(D["nd"])
      /\ \A i \in DOMAIN D["nd"] : SameKeys("nd", D["nd"][i], u[i]) /\ u[i].ptr = D["nd"][i].ptr
  <2> HIDE DEF q
  <2> QED
    BY <1>1, <1>2, <1>3, SetField
<1> HIDE DEF u, met
<1>7. /\ E = [t \in Tables |-> E[t]] /\ E["nd"] = u /\ \A t \in Tables \ {"nd"} : E[t] = D[t]
  BY <1>1
<1> HIDE DEF E
<1>8. Typed(E)
  BY <1>1, <1>6, <1>7 DEF Typed
<1>9. SameLinks(D, E)
  BY <1>7, <1>6 DEF SameKeys, SameLinks
<1> QED
  BY <1>5, <1>8, <1>9, FinishedSame

LEMMA SourcesFinished ==
  ASSUME NEW D, Finished(D), NEW live
  PROVE  Finished(add_so(D, live))
<1> DEFINE S == {i \in DOMAIN D.bus : D.bus[i].ptr.ind # NoRow /\ D.bus[i].pid \in live}
           fed == Chosen(D.bus, S)
           v == [i \in S |-> i]
           s == [k \in DOMAIN fed |-> CLS_SO(fed[k].id, fed[k].stid, fed[k].nd, fed[k].ptr.ind)]
           E == [D EXCEPT !.so = s]
<1>1. Typed(D) /\ D = [t \in Tables |-> D[t]] /\ "so" \in Tables /\ "bus" \in Tables /\ IsTable("bus", D["bus"])
  BY SomeKeys DEF Finished, Sound, Typed
<1>2. add_so(D, live) = [D EXCEPT !.so = Inserted("so", s)]
  BY DEF add_so, Selected, Chosen
<1>3. Picks(D["bus"], fed, S, v)
  <2>1. IsList(D["bus"]) /\ S \in SUBSET (DOMAIN D["bus"])
    BY <1>1 DEF IsTable
  <2> HIDE DEF S
  <2> QED
    BY <2>1, ChosenPicks
<1>4. S \subseteq DOMAIN D["bus"]
  OBVIOUS
<1>5. \A i \in S : D["bus"][i].ptr["ind"] # NoRow
  OBVIOUS
<1> HIDE DEF fed, S
<1>6. PICK p \in [DOMAIN fed -> S] : /\ \A k \in DOMAIN fed : fed[k] = D["bus"][p[k]]
                                     /\ \A k, l \in DOMAIN fed : k < l <=> v[p[k]] < v[p[l]]
  BY <1>3 DEF Picks
<1>7. DOMAIN fed = 1..Len(fed) /\ Len(fed) \in Nat
  BY <1>3 DEF Picks, IsList
<1>8. IsList(s) /\ DOMAIN s = DOMAIN fed
  <2>1. s = [k \in 1..Len(fed) |-> s[k]]
    BY <1>7
  <2> HIDE DEF s
  <2> QED
    BY <2>1, <1>7, FunctionList
<1>9. ASSUME NEW k \in DOMAIN fed
      PROVE  /\ p[k] \in DOMAIN D["bus"] /\ s[k].id = D["bus"][p[k]].id /\ s[k].nd = D["bus"][p[k]].nd
             /\ s[k].ptr["ind"] = D["bus"][p[k]].ptr["ind"] /\ s[k].ptr["r_st"] = NoRow
             /\ IsRow("so", s[k])
  <2>1. p[k] \in DOMAIN D["bus"] /\ fed[k] = D["bus"][p[k]]
    BY <1>4, <1>6
  <2> DEFINE b == D["bus"][p[k]]
  <2>2. IsRow("bus", b)
    BY <2>1, <1>1 DEF IsTable
  <2>3. s[k] = CLS_SO(b.id, b.stid, b.nd, b.ptr.ind)
    BY <2>1
  <2> HIDE DEF b
  <2>4. b.id \in Nat /\ b.nd \in Nat /\ b.ptr["ind"] \in Nat
    <3>1. Ptrs("bus") = {"ind", "r_st"}
      BY RowNames DEF Components, PtrNames
    <3> QED
      BY <2>2, <3>1, SomeKeys DEF IsRow
  <2>5. Ptrs("so") = {"ind", "r_st"} /\ Fields("so") = {"id", "stid", "nd", "ptr"}
    BY RowNames DEF Components, PtrNames, FieldNames
  <2>6. IsRow("so", CLS_SO(b.id, b.stid, b.nd, b.ptr.ind))
    BY <2>4, <2>5, SomeKeys DEF IsRow, CLS_SO, NoRow
  <2>7. /\ CLS_SO(b.id, b.stid, b.nd, b.ptr.ind).id = b.id /\ CLS_SO(b.id, b.stid, b.nd, b.ptr.ind).nd = b.nd
        /\ CLS_SO(b.id, b.stid, b.nd, b.ptr.ind).ptr["ind"] = b.ptr.ind
        /\ CLS_SO(b.id, b.stid, b.nd, b.ptr.ind).ptr["r_st"] = NoRow
    BY DEF CLS_SO
  <2> QED
    BY <2>1, <2>3, <2>6, <2>7 DEF b
<1>10. \A k, l \in DOMAIN fed : k < l <=> p[k] < p[l]
  BY <1>6
<1> HIDE DEF s, v
<1>11. IsTable("so", s)
  BY <1>8, <1>9 DEF IsTable
<1>12. add_so(D, live) = E
  BY <1>1, <1>2, <1>11, InsertedIsCopy
<1>13. E = [t \in Tables |-> E[t]] /\ E["so"] = s /\ \A t \in Tables \ {"so"} : E[t] = D[t]
  BY <1>1
<1> HIDE DEF E
<1>14. Typed(E)
  BY <1>1, <1>11, <1>13 DEF Typed
<1>15. InOrder(E)
  <2>1. ASSUME NEW k \in DOMAIN s, NEW l \in DOMAIN s PROVE Less("so", s[k], s[l]) <=> k < l
    <3>1. "so" \notin Relations /\ "bus" \notin Relations
      BY TableNames DEF Components
    <3>2. Less("bus", D["bus"][p[k]], D["bus"][p[l]]) <=> p[k] < p[l]
      BY <1>1, <1>8, <1>9 DEF Finished, InOrder
    <3> QED
      BY <3>1, <3>2, <1>8, <1>9, <1>10 DEF Less
  <2> QED
    BY <2>1, <1>13 DEF Finished, InOrder
<1>16. Joined(E)
  <2>1. ASSUME NEW t \in Tables \ {"r_st_so", "r_zn_nd"}, NEW f \in DOMAIN Conversions[t], NEW i \in DOMAIN E[t]
        PROVE  PtrTrue(E, t, i, f)
    <3>1. t # "so" => PtrTrue(D, t, i, f)
      BY <1>13 DEF Finished, Joined
    <3>2. Conversions[t][f] \in Tables \ {"so"}
      <4>1. CASE t \in Components
        BY <4>1, ComponentConversions, SomeKeys, TableNames DEF Components
      <4>2. CASE t \in Relations
        <5>1. t # "r_st_so" => RelationEnds[t][1] # "so" /\ RelationEnds[t][2] # "so"
          BY <4>2 DEF Relations, RelationEnds
        <5>2. f \in {"parptr", "chiptr", "fptr", "bptr"}
          BY <4>2, RelationConversions, RelationNames
        <5>3. t # "so" /\ t \in Tables
          BY <4>2, TableNames DEF Components
        <5> QED
          BY <4>2, <5>1, <5>2, <5>3, RelationConversions, TableNames
      <4> QED
        BY <4>1, <4>2, TableNames
    <3>3. CASE t # "so"
      BY <3>1, <3>2, <3>3, <1>13 DEF PtrTrue
    <3>4. CASE t = "so"
      <4>1. DOMAIN Conversions["so"] = {"r_st", "ind"} /\ Conversions["so"]["ind"] = "nd"
        BY DEF Conversions, SO_RebuildPtr
      <4>2. f = "r_st" => E[t][i].ptr[f] = NoRow
        BY <3>4, <1>8, <1>9, <1>13
      <4>3. ASSUME f = "ind" PROVE PtrTrue(E, t, i, f)
        <5>1. i \in DOMAIN fed /\ p[i] \in DOMAIN D["bus"]
          BY <3>4, <1>8, <1>9, <1>13
        <5>2. "ind" \in DOMAIN Conversions["bus"] /\ Conversions["bus"]["ind"] = "nd" /\ "bus" \notin {"r_st_so", "r_zn_nd"}
          BY DEF Conversions, BUS_RebuildPtr
        <5>3. PtrTrue(D, "bus", p[i], "ind")
          BY <5>1, <5>2, <1>1 DEF Finished, Joined
        <5>4. D["bus"][p[i]].ptr["ind"] # NoRow => /\ D["bus"][p[i]].ptr["ind"] \in DOMAIN D["nd"]
                 /\ D["nd"][D["bus"][p[i]].ptr["ind"]].id = D["bus"][p[i]].nd
          BY <5>2, <5>3 DEF PtrTrue, Leads
        <5>5. E["nd"] = D["nd"]
          BY <1>13, SomeKeys
        <5>6. s[i].nd = D["bus"][p[i]].nd /\ s[i].ptr["ind"] = D["bus"][p[i]].ptr["ind"]
          BY <5>1, <1>9
        <5> QED
          BY <4>1, <4>3, <5>4, <5>5, <5>6, <3>4, <1>13 DEF PtrTrue, Leads
      <4> QED
        BY <4>1, <4>2, <4>3, <3>4 DEF PtrTrue
    <3> QED
      BY <3>3, <3>4
  <2>2. ASSUME NEW r \in Linking \ {"r_st_so"} PROVE EndsSet(E[r]) /\ OnceEnded(E[r])
    <3>1. r \in Tables \ {"so"}
      BY TableNames DEF Linking, Components
    <3> QED
      BY <3>1, <1>13 DEF Finished, Joined
  <2> QED
    BY <2>1, <2>2 DEF Joined
<1>17. UniqueIds(E)
  BY <1>14, <1>15, OrderedStay
<1>18. E["st"] = D["st"] /\ E["zn"] = D["zn"] /\ E["switch"] = D["switch"]
  BY <1>13, SomeKeys
<1>19. Sound(E)
  BY <1>14, <1>17, <1>18 DEF Finished, Sound, ZoneIds, Stale, NoStations
<1> QED
  BY <1>12, <1>15, <1>16, <1>18, <1>19 DEF Finished

-----------------------------------------------------------------------------
(* The zones.                                                              *)

LEMMA ZonedRows ==
  ASSUME NEW t \in {"nd", "sec", "ld"}, NEW s, IsTable(t, s), NEW S, NEW id
  PROVE  SameRows(t, s, Zoned(s, S, id))
<1> DEFINE left == DOMAIN s \ S
           q == [i \in DOMAIN s |-> id]
<1>1. Zoned(s, S, id) = Valued(s, left, "zn_id", q)
  BY DEF Zoned, Valued
<1>2. t \in Tables /\ "zn_id" \notin Keys(t) \cup {"ptr", "nds", "inds"}
  BY SomeKeys DEF Keys
<1> HIDE DEF left, q
<1>3. /\ IsTable(t, Valued(s, left, "zn_id", q)) /\ DOMAIN Valued(s, left, "zn_id", q) = DOMAIN s
      /\ Len(Valued(s, left, "zn_id", q)) = Len(s)
      /\ \A i \in DOMAIN s : SameKeys(t, s[i], Valued(s, left, "zn_id", q)[i])
  BY <1>2, SetField
<1> QED
  BY <1>1, <1>3 DEF SameRows

LEMMA ZonedLoads ==
  ASSUME NEW s, IsTable("ld", s), NEW S, NEW id
  PROVE  SameRows("ld", s, InZone(s, S, id))
<1> DEFINE left == DOMAIN s \ S
           q == [i \in DOMAIN s |-> 1]
           u == Valued(s, left, "type", q)
<1>1. "ld" \in Tables /\ "type" \notin Keys("ld") \cup {"ptr", "nds", "inds"}
  BY SomeKeys DEF Keys
<1>2. /\ IsTable("ld", u) /\ DOMAIN u = DOMAIN s /\ Len(u) = Len(s)
      /\ \A i \in DOMAIN s : SameKeys("ld", s[i], u[i])
  <2> HIDE DEF left, q
  <2> QED
    BY <1>1, SetField
<1>3. InZone(s, S, id) = Zoned(u, S, id)
  <2>1. \A i \in DOMAIN s : i \in S => u[i] = [s[i] EXCEPT !.type = 1]
    BY DEF Valued
  <2>2. \A i \in DOMAIN s : i \notin S => u[i] = s[i]
    BY DEF Valued
  <2> HIDE DEF u
  <2>3. ASSUME NEW i \in DOMAIN s, i \in S
        PROVE  [s[i] EXCEPT !.type = 1, !.zn_id = id] = [u[i] EXCEPT !.zn_id = id]
    BY <2>1, <2>3
  <2> DEFINE x(i) == IF i \in S THEN [s[i] EXCEPT !.type = 1, !.zn_id = id] ELSE s[i]
             y(i) == IF i \in S THEN [u[i] EXCEPT !.zn_id = id] ELSE u[i]
  <2>4. ASSUME NEW i \in DOMAIN s PROVE x(i) = y(i)
    <3>1. CASE i \in S
      <4>1. x(i) = [s[i] EXCEPT !.type = 1, !.zn_id = id]
        BY <3>1
      <4>2. y(i) = [u[i] EXCEPT !.zn_id = id]
        BY <3>1
      <4>3. [s[i] EXCEPT !.type = 1, !.zn_id = id] = [u[i] EXCEPT !.zn_id = id]
        BY <2>3, <3>1, Zenon
      <4> HIDE DEF x, y
      <4> QED
        BY <4>1, <4>2, <4>3
    <3>2. CASE i \notin S
      BY <3>2, <2>2
    <3> QED
      BY <3>1, <3>2
  <2>5. InZone(s, S, id) = [i \in DOMAIN s |-> x(i)]
    BY DEF InZone
  <2>6. Zoned(u, S, id) = [i \in DOMAIN s |-> y(i)]
    BY <1>2 DEF Zoned
  <2> HIDE DEF x, y
  <2> QED
    BY <2>4, <2>5, <2>6
<1> HIDE DEF u
<1>4. SameRows("ld", u, Zoned(u, S, id))
  BY <1>2, ZonedRows
<1>5. \A i \in DOMAIN s : SameKeys("ld", s[i], Zoned(u, S, id)[i])
  BY <1>2, <1>4 DEF SameRows, SameKeys
<1> QED
  BY <1>2, <1>3, <1>4, <1>5 DEF SameRows

\* A zone gets the next number, and the rows it is made of keep their keys.
LEMMA ZoneAdded ==
  ASSUME NEW D, Sound(D), D.st # <<>>, NEW v
  PROVE  Sound(AddZone(D, v)) /\ AddZone(D, v).st # <<>> /\ ZonesAre(D, AddZone(D, v))
<1> DEFINE id == Len(D.zn) + 1
           all == [i \in DOMAIN D.nd |-> i]
           S == {i \in DOMAIN all : all[i] \in v.inds}
           nds == Chosen(all, S)
           ids == [n \in DOMAIN nds |-> D.nd[nds[n]].id]
           ends == {D.nd[i].id : i \in v.ends}
           zone == CLS_ZN(id, ids, ends)
           Z == Insert("zn", D.zn, zone)
           E == [D EXCEPT !.zn = Z, !.nd = Zoned(D.nd, v.inds, id), !.sec = Zoned(D.sec, v.secs, id),
                          !.ld = InZone(D.ld, v.lds, id)]
<1>1. AddZone(D, v) = D \/ AddZone(D, v) = E
  <2>1. AddZone(D, v) = IF v.ends = {} \/ \E i \in v.ends : IsBus(D, i) THEN D ELSE E
    BY DEF AddZone, Zoned, InZone, Selected, Chosen
  <2> QED
    BY <2>1
<1>a. ZonesAre(D, D)
  <2>1. \A t \in Tables : IsTable(t, D[t])
    BY DEF Sound, Typed
  <2> QED
    BY <2>1 DEF ZonesAre, SameRows, SameKeys
<1>2. SUFFICES ASSUME AddZone(D, v) = E PROVE Sound(E) /\ E.st # <<>> /\ ZonesAre(D, E)
  BY <1>1, <1>a
<1>3. /\ Typed(D) /\ D = [t \in Tables |-> D[t]] /\ {"zn", "nd", "sec", "ld", "st"} \subseteq Tables
      /\ IsTable("nd", D["nd"]) /\ IsTable("zn", D["zn"]) /\ IsTable("sec", D["sec"]) /\ IsTable("ld", D["ld"])
  BY SomeKeys DEF Sound, Typed
<1>4. IsList(all) /\ DOMAIN all = DOMAIN D["nd"] /\ \A i \in DOMAIN all : all[i] = i
  <2>1. DOMAIN D["nd"] = 1..Len(D["nd"]) /\ Len(D["nd"]) \in Nat
    BY <1>3 DEF IsTable, IsList
  <2>2. all = [i \in 1..Len(D["nd"]) |-> all[i]]
    BY <2>1
  <2> HIDE DEF all
  <2>3. IsList(all)
    BY <2>1, <2>2, FunctionList
  <2> QED
    BY <2>3 DEF all
<1>5. S \in SUBSET (DOMAIN all)
  OBVIOUS
<1> HIDE DEF all, S
<1>6. Picks(all, nds, S, [i \in S |-> i])
  BY <1>4, <1>5, ChosenPicks
<1> HIDE DEF nds
<1>7. /\ IsList(nds) /\ \A n \in DOMAIN nds : nds[n] \in DOMAIN D["nd"]
      /\ \A m, n \in DOMAIN nds : nds[m] = nds[n] => m = n
  <2>1. PICK p \in [DOMAIN nds -> S] : /\ \A k \in DOMAIN nds : nds[k] = all[p[k]]
                                       /\ \A k, l \in DOMAIN nds : p[k] = p[l] => k = l
    BY <1>6 DEF Picks
  <2>2. \A n \in DOMAIN nds : p[n] \in DOMAIN all
    BY <1>5
  <2> QED
    BY <1>4, <1>6, <2>1, <2>2 DEF Picks
<1>b. \A m, n \in DOMAIN ids : ids[m] = ids[n] => m = n
  BY TableNames, <1>7 DEF Sound, UniqueIds, Components
<1>8. IsList(ids) /\ \A n \in DOMAIN ids : ids[n] \in Nat
  <2>1. \A i \in DOMAIN D["nd"] : D["nd"][i].id \in Nat
    BY <1>3, SomeKeys DEF IsTable, IsRow
  <2>2. DOMAIN nds = 1..Len(nds) /\ Len(nds) \in Nat
    BY <1>7 DEF IsList
  <2>3. ids = [n \in 1..Len(nds) |-> ids[n]]
    BY <2>2
  <2>4. \A n \in DOMAIN ids : ids[n] \in Nat
    BY <1>7, <2>1
  <2> HIDE DEF ids
  <2> QED
    BY <2>2, <2>3, <2>4, FunctionList
<1> HIDE DEF ids, ends
<1>9. id \in Nat /\ Len(D["zn"]) \in Nat /\ id = Len(D["zn"]) + 1
  BY <1>3 DEF IsTable, IsList
<1> HIDE DEF id
<1>10. IsRow("zn", zone) /\ zone.id = id /\ zone.nds = ids
  <2>1. /\ Fields("zn") = {"id", "stid", "nds", "ends", "ptr", "inds"}
        /\ Ptrs("zn") = {"r_st", "r_ld", "r_sec", "r_nd"}
    BY RowNames DEF Components, PtrNames, FieldNames
  <2> QED
    BY <1>8, <1>9, <2>1, SomeKeys DEF IsRow, CLS_ZN, NoRow, NoPtrs
<1> HIDE DEF zone
<1>11. /\ IsTable("zn", Z) /\ Len(Z) = id /\ DOMAIN Z = 1..id
       /\ \A i \in DOMAIN D["zn"] : i \in DOMAIN Z /\ Z[i] = D["zn"][i]
       /\ Z[id] = zone
  BY <1>3, <1>9, <1>10, InsertRow
<1> HIDE DEF Z
<1>12. /\ SameRows("nd", D["nd"], Zoned(D["nd"], v.inds, id))
       /\ SameRows("sec", D["sec"], Zoned(D["sec"], v.secs, id))
       /\ SameRows("ld", D["ld"], InZone(D["ld"], v.lds, id))
  BY <1>3, ZonedRows, ZonedLoads
<1>13. /\ E = [t \in Tables |-> E[t]] /\ E["zn"] = Z /\ E["nd"] = Zoned(D["nd"], v.inds, id)
       /\ E["sec"] = Zoned(D["sec"], v.secs, id) /\ E["ld"] = InZone(D["ld"], v.lds, id)
       /\ \A t \in Tables \ {"zn", "nd", "sec", "ld"} : E[t] = D[t]
  <2> DEFINE N == Zoned(D.nd, v.inds, id)
             B == Zoned(D.sec, v.secs, id)
             L == InZone(D.ld, v.lds, id)
             F == [D EXCEPT !["zn"] = Z]
             G == [F EXCEPT !["nd"] = N]
             H == [G EXCEPT !["sec"] = B]
             I == [H EXCEPT !["ld"] = L]
  <2>1. E = I
    OBVIOUS
  <2> HIDE DEF N, B, L, E
  <2>2. F = [t \in Tables |-> F[t]] /\ F["zn"] = Z /\ \A t \in Tables \ {"zn"} : F[t] = D[t]
    BY <1>3
  <2> HIDE DEF F
  <2>3. G = [t \in Tables |-> G[t]] /\ G["nd"] = N /\ \A t \in Tables \ {"nd"} : G[t] = F[t]
    BY <1>3, <2>2
  <2> HIDE DEF G
  <2>4. H = [t \in Tables |-> H[t]] /\ H["sec"] = B /\ \A t \in Tables \ {"sec"} : H[t] = G[t]
    BY <1>3, <2>3
  <2> HIDE DEF H
  <2>5. I = [t \in Tables |-> I[t]] /\ I["ld"] = L /\ \A t \in Tables \ {"ld"} : I[t] = H[t]
    BY <1>3, <2>4
  <2> HIDE DEF I
  <2> QED
    BY <1>3, <2>1, <2>2, <2>3, <2>4, <2>5 DEF N, B, L
<1> HIDE DEF E
<1>14. \A t \in Tables \ {"zn"} : SameRows(t, D[t], E[t])
  BY <1>3, <1>13, <1>12 DEF SameRows, SameKeys, Typed
<1>15. Typed(E)
  BY <1>11, <1>13, <1>14 DEF SameRows, Typed
<1>16. DOMAIN D["zn"] = 1..Len(D["zn"]) /\ \A z \in DOMAIN D["zn"] : D["zn"][z].id <= Len(D["zn"]) /\ D["zn"][z].id \in Nat
  BY <1>3, SomeKeys DEF IsTable, IsList, Sound, ZoneIds, IsRow
<1>17. \A z \in DOMAIN Z : z \in DOMAIN D["zn"] \/ z = id
  BY <1>9, <1>11, <1>16
<1>18. UniqueIds(E)
  <2> SUFFICES ASSUME NEW t \in Components, NEW i \in DOMAIN E[t], NEW j \in DOMAIN E[t], E[t][i].id = E[t][j].id
               PROVE  i = j
    BY DEF UniqueIds
  <2>1. CASE t = "zn"
    <3>1. E[t] = Z
      BY <2>1, <1>13
    <3>2. \A x, y \in DOMAIN D["zn"] : D["zn"][x].id = D["zn"][y].id => x = y
      BY SomeKeys, TableNames DEF Sound, UniqueIds
    <3>3. \A x \in DOMAIN D["zn"] : D["zn"][x].id # id
      BY <1>9, <1>16
    <3> QED
      BY <3>1, <3>2, <3>3, <1>10, <1>11, <1>17
  <2>2. CASE t # "zn"
    <3>1. t \in Tables \ {"zn"} /\ "id" \in Keys(t)
      BY <2>2, TableNames, RowNames
    <3>2. i \in DOMAIN D[t] /\ j \in DOMAIN D[t] /\ E[t][i].id = D[t][i].id /\ E[t][j].id = D[t][j].id
      BY <3>1, <1>14 DEF SameRows, SameKeys
    <3> QED
      BY <3>2 DEF Sound, UniqueIds
  <2> QED
    BY <2>1, <2>2
<1>19. ZoneIds(E)
  BY SMTT(40), <1>9, <1>10, <1>11, <1>13, <1>16, <1>17 DEF ZoneIds
<1>20. E["st"] = D["st"] /\ E["switch"] = D["switch"]
  BY <1>13, SomeKeys
<1>21. ZonesAre(D, E)
  BY <1>b, <1>10, <1>11, <1>13, <1>17, <1>14 DEF ZonesAre
<1> QED
  BY <1>15, <1>18, <1>19, <1>20, <1>21 DEF Sound, Stale, NoStations

-----------------------------------------------------------------------------
(* What is read.                                                           *)

LEMMA ChosenRows ==
  ASSUME NEW s, IsList(s), NEW S \in SUBSET (DOMAIN s)
  PROVE  /\ IsList(Chosen(s, S)) /\ \A k \in DOMAIN Chosen(s, S) : \E i \in S : Chosen(s, S)[k] = s[i]
         /\ S = {} => Chosen(s, S) = <<>>
<1> DEFINE c == Chosen(s, S)
<1>1. Picks(s, c, S, [i \in S |-> i])
  BY ChosenPicks
<1> HIDE DEF c
<1>2. IsList(c) /\ \E p \in [DOMAIN c -> S] : \A k \in DOMAIN c : c[k] = s[p[k]]
  BY <1>1 DEF Picks
<1>3. \A k \in DOMAIN c : \E i \in S : c[k] = s[i]
  BY <1>2
<1>4. S = {} => DOMAIN c = {}
  BY <1>3
<1>5. S = {} => Len(c) = 0
  BY <1>2, <1>4 DEF IsList
<1> QED
  BY <1>2, <1>3, <1>5, EmptyList DEF c

LEMMA WithoutStations ==
  ASSUME source.st = <<>>
  PROVE  \A id : Station(id) = {} /\ is_substn_dev(id)
BY EmptyList DEF Station, is_substn_dev, ToSet

LEMMA ReadLists ==
  ASSUME SourceTyped(source)
  PROVE  /\ BetweenNodes(disconnector) /\ OfStations(disconnector)
         /\ BetweenNodes(grounddisconnector) /\ OfStations(grounddisconnector)
         /\ BetweenNodes(subcontrolarea) /\ BetweenNodes(breaker)
         /\ IsList(faultinfo) /\ OfStations(faultinfo)
         /\ AtNodes(energyconsumer) /\ OfStations(energyconsumer)
         /\ AtNodes(busbarsection) /\ OfStations(busbarsection)
         /\ BetweenNodes(aclinesegment) /\ OfStations(aclinesegment)
         /\ \A i \in DOMAIN aclinesegment : aclinesegment[i].id \in Nat
         /\ \A i, j \in DOMAIN aclinesegment : aclinesegment[i].id = aclinesegment[j].id => i = j
<1>1. BetweenNodes(disconnector) /\ OfStations(disconnector)
  <2> DEFINE S == {i \in DOMAIN source.switch :
                     TwoEnded(source.switch[i]) /\ ~is_substn_dev(source.switch[i].stid)}
  <2>1. disconnector = Chosen(source.switch, S)
    BY DEF disconnector, Selected, Chosen
  <2>2. S \in SUBSET (DOMAIN source.switch) /\ (source.st = <<>> => S = {})
    BY WithoutStations
  <2> HIDE DEF S
  <2>3. IsList(source.switch) /\ \A i \in DOMAIN source.switch : source.switch[i].nd \in Nat /\ source.switch[i].znd \in Nat
    BY DEF SourceTyped
  <2> QED
    BY <2>1, <2>2, <2>3, ChosenRows DEF BetweenNodes, AtNodes, OfStations
<1>2. BetweenNodes(grounddisconnector) /\ OfStations(grounddisconnector)
  <2> DEFINE S == {i \in DOMAIN source.ground :
                     source.ground[i].nd > 0 /\ source.ground[i].kv10 /\ ~is_substn_dev(source.ground[i].stid)}
             taken == Chosen(source.ground, S)
             g == [i \in DOMAIN taken |-> [stid |-> taken[i].stid, nd |-> taken[i].nd, znd |-> taken[i].id]]
  <2>1. grounddisconnector = g
    BY DEF grounddisconnector, Selected, Chosen
  <2>2. S \in SUBSET (DOMAIN source.ground) /\ (source.st = <<>> => S = {})
    BY WithoutStations
  <2> HIDE DEF S
  <2>3. IsList(source.ground) /\ \A i \in DOMAIN source.ground : source.ground[i].nd \in Nat /\ source.ground[i].id \in Nat
    BY DEF SourceTyped
  <2>4. IsList(taken) /\ \A k \in DOMAIN taken : taken[k].nd \in Nat /\ taken[k].id \in Nat
    BY <2>2, <2>3, ChosenRows
  <2>5. source.st = <<>> => DOMAIN taken = {} /\ Len(taken) = 0
    BY <2>2, <2>3, ChosenRows, EmptyList
  <2> HIDE DEF taken
  <2>6. IsList(g) /\ Len(g) = Len(taken) /\ \A i \in DOMAIN g : g[i].nd \in Nat /\ g[i].znd \in Nat
    <3>1. DOMAIN taken = 1..Len(taken) /\ Len(taken) \in Nat
      BY <2>4 DEF IsList
    <3>2. g = [i \in 1..Len(taken) |-> g[i]] /\ \A i \in DOMAIN g : g[i].nd \in Nat /\ g[i].znd \in Nat
      BY <2>4, <3>1
    <3> HIDE DEF g
    <3> QED
      BY <3>1, <3>2, FunctionList
  <2> QED
    BY <2>1, <2>5, <2>6, EmptyList DEF BetweenNodes, AtNodes, OfStations
<1>3. BetweenNodes(subcontrolarea)
  <2> DEFINE S == {i \in DOMAIN source.dv : source.dv[i].nd > 0 /\ source.dv[i].feeder /\ source.dv[i].bus # 0}
             taken == Chosen(source.dv, S)
             g == [i \in DOMAIN taken |-> [stid |-> taken[i].sourceid, nd |-> taken[i].nd, znd |-> taken[i].busnd]]
  <2>1. subcontrolarea = g
    BY DEF subcontrolarea, Selected, Chosen
  <2>2. S \in SUBSET (DOMAIN source.dv)
    OBVIOUS
  <2> HIDE DEF S
  <2>3. IsList(source.dv) /\ \A i \in DOMAIN source.dv : source.dv[i].nd \in Nat /\ source.dv[i].busnd \in Nat
    BY DEF SourceTyped
  <2>4. IsList(taken) /\ \A k \in DOMAIN taken : taken[k].nd \in Nat /\ taken[k].busnd \in Nat
    BY <2>2, <2>3, ChosenRows
  <2> HIDE DEF taken
  <2>5. DOMAIN taken = 1..Len(taken) /\ Len(taken) \in Nat
    BY <2>4 DEF IsList
  <2>6. g = [i \in 1..Len(taken) |-> g[i]] /\ \A i \in DOMAIN g : g[i].nd \in Nat /\ g[i].znd \in Nat
    BY <2>4, <2>5
  <2> HIDE DEF g
  <2>7. IsList(g)
    BY <2>5, <2>6, FunctionList
  <2> QED
    BY <2>1, <2>6, <2>7 DEF BetweenNodes, AtNodes
<1>4. BetweenNodes(breaker)
  <2> DEFINE S == {i \in DOMAIN source.cb : TwoEnded(source.cb[i]) /\ ~is_substn_dev(source.cb[i].stid)}
  <2>1. breaker = Chosen(source.cb, S)
    BY DEF breaker, Selected, Chosen
  <2>2. S \in SUBSET (DOMAIN source.cb)
    OBVIOUS
  <2> HIDE DEF S
  <2>3. IsList(source.cb) /\ \A i \in DOMAIN source.cb : source.cb[i].nd \in Nat /\ source.cb[i].znd \in Nat
    BY DEF SourceTyped
  <2> QED
    BY <2>1, <2>2, <2>3, ChosenRows DEF BetweenNodes, AtNodes
<1>5. IsList(faultinfo) /\ OfStations(faultinfo)
  <2> DEFINE S == {i \in DOMAIN source.fi :
                     source.fi[i].kv10 /\ ~is_substn_dev(source.fi[i].stid) /\ source.fi[i].sec > 0}
  <2>1. faultinfo = Chosen(source.fi, S)
    BY DEF faultinfo, Selected, Chosen
  <2>2. S \in SUBSET (DOMAIN source.fi) /\ (source.st = <<>> => S = {})
    BY WithoutStations
  <2> HIDE DEF S
  <2>3. IsList(source.fi)
    BY DEF SourceTyped
  <2> QED
    BY <2>1, <2>2, <2>3, ChosenRows DEF OfStations
<1>6. AtNodes(energyconsumer) /\ OfStations(energyconsumer)
  <2> DEFINE S == {i \in DOMAIN source.ld :
                     source.ld[i].nd > 0 /\ source.ld[i].kv10 /\ ~is_substn_dev(source.ld[i].stid)}
  <2>1. energyconsumer = Chosen(source.ld, S)
    BY DEF energyconsumer, Selected, Chosen
  <2>2. S \in SUBSET (DOMAIN source.ld) /\ (source.st = <<>> => S = {})
    BY WithoutStations
  <2> HIDE DEF S
  <2>3. IsList(source.ld) /\ \A i \in DOMAIN source.ld : source.ld[i].nd \in Nat
    BY DEF SourceTyped
  <2> QED
    BY <2>1, <2>2, <2>3, ChosenRows DEF AtNodes, OfStations
<1>7. AtNodes(busbarsection) /\ OfStations(busbarsection)
  <2> DEFINE virtual == {d.bus : d \in ToSet(source.dv)}
             S == {i \in DOMAIN source.bus :
                     /\ source.bus[i].nd > 0 /\ source.bus[i].kv10
                     /\ is_substn_dev(source.bus[i].stid) => source.bus[i].id \in virtual
                     /\ \E st \in Station(source.bus[i].stid) : st.kind # "ringmain"}
  <2>1. busbarsection = Chosen(source.bus, S)
    BY DEF busbarsection, Selected, Chosen
  <2>2. S \in SUBSET (DOMAIN source.bus) /\ (source.st = <<>> => S = {})
    BY WithoutStations
  <2> HIDE DEF S
  <2>3. IsList(source.bus) /\ \A i \in DOMAIN source.bus : source.bus[i].nd \in Nat
    BY DEF SourceTyped
  <2> QED
    BY <2>1, <2>2, <2>3, ChosenRows DEF AtNodes, OfStations
<1>8. /\ BetweenNodes(aclinesegment) /\ OfStations(aclinesegment)
      /\ \A i \in DOMAIN aclinesegment : aclinesegment[i].id \in Nat
      /\ \A i, j \in DOMAIN aclinesegment : aclinesegment[i].id = aclinesegment[j].id => i = j
  <2> DEFINE S == {i \in DOMAIN source.sec :
                     TwoEnded(source.sec[i]) /\ ~is_substn_dev(source.sec[i].stid) /\ ~is_substn_dev(source.sec[i].zstid)}
             taken == Chosen(source.sec, S)
             sorted == SortedById(taken)
  <2>1. aclinesegment = sorted
    BY DEF aclinesegment, Selected, Chosen, SortedById
  <2>2. S \in SUBSET (DOMAIN source.sec) /\ (source.st = <<>> => S = {})
    BY WithoutStations
  <2> HIDE DEF S
  <2>3. /\ IsList(source.sec)
        /\ \A i \in DOMAIN source.sec : source.sec[i].nd \in Nat /\ source.sec[i].znd \in Nat /\ source.sec[i].id \in Nat
        /\ \A i, j \in DOMAIN source.sec : source.sec[i].id = source.sec[j].id => i = j
    BY DEF SourceTyped
  <2>4. Picks(source.sec, taken, S, [i \in S |-> i])
    BY <2>2, <2>3, ChosenPicks
  <2>5. source.st = <<>> => DOMAIN taken = {}
    BY <2>2, <2>3, ChosenRows, EmptyList
  <2> HIDE DEF taken
  <2>6. PICK p \in [DOMAIN taken -> S] : /\ \A k \in DOMAIN taken : taken[k] = source.sec[p[k]]
                                         /\ \A k, l \in DOMAIN taken : p[k] = p[l] => k = l
    BY <2>4 DEF Picks
  <2>7. \A k \in DOMAIN taken : p[k] \in DOMAIN source.sec
    BY <2>2
  <2>8. /\ IsList(taken)
        /\ \A i \in DOMAIN taken : taken[i].nd \in Nat /\ taken[i].znd \in Nat /\ taken[i].id \in Nat
        /\ \A i, j \in DOMAIN taken : taken[i].id = taken[j].id => i = j
    BY <2>3, <2>4, <2>6, <2>7 DEF Picks
  <2>9. Picks(taken, sorted, DOMAIN taken, [i \in DOMAIN taken |-> taken[i].id])
    BY <2>8, SortedPicks
  <2> HIDE DEF sorted
  <2>10. PICK q \in [DOMAIN sorted -> DOMAIN taken] : /\ \A k \in DOMAIN sorted : sorted[k] = taken[q[k]]
                                                      /\ \A k, l \in DOMAIN sorted : q[k] = q[l] => k = l
    BY <2>9 DEF Picks
  <2>11. /\ IsList(sorted)
         /\ \A i \in DOMAIN sorted : sorted[i].nd \in Nat /\ sorted[i].znd \in Nat /\ sorted[i].id \in Nat
         /\ \A i, j \in DOMAIN sorted : sorted[i].id = sorted[j].id => i = j
    BY <2>8, <2>9, <2>10 DEF Picks
  <2>12. source.st = <<>> => sorted = <<>>
    <3>1. source.st = <<>> => DOMAIN sorted = {}
      BY <2>5, <2>10
    <3> QED
      BY <3>1, <2>11, EmptyList DEF IsList
  <2> QED
    BY <2>1, <2>11, <2>12 DEF BetweenNodes, AtNodes, OfStations
<1> QED
  BY <1>1, <1>2, <1>3, <1>4, <1>5, <1>6, <1>7, <1>8

LEMMA ReadIs ==
  /\ Read("co") = [i \in DOMAIN source.co |-> CLS_CO(i)]
  /\ Read("st") = [i \in DOMAIN source.st |-> CLS_ST(i, source.st[i].id)]
  /\ LET s == disconnector \o grounddisconnector
     IN  Read("switch") = [i \in DOMAIN s |-> CLS_SWITCH(i, s[i].stid, s[i].nd, s[i].znd)]
  /\ LET s == subcontrolarea \o breaker
     IN  Read("cb") = [i \in DOMAIN s |-> CLS_CB(i, s[i].stid, s[i].nd, s[i].znd)]
  /\ Read("fi") = [i \in DOMAIN faultinfo |-> CLS_FI(i, faultinfo[i].sec)]
  /\ Read("ld") = [i \in DOMAIN energyconsumer |-> CLS_LD(i, energyconsumer[i].stid, energyconsumer[i].nd)]
  /\ Read("bus") = [i \in DOMAIN busbarsection |->
                      CLS_BUS(i, busbarsection[i].id, busbarsection[i].stid, busbarsection[i].nd)]
  /\ Read("sec") = [i \in DOMAIN aclinesegment |->
                      CLS_SEC(aclinesegment[i].id, aclinesegment[i].nd, aclinesegment[i].znd)]
  /\ \A t : t \notin {"co", "st", "switch", "cb", "fi", "ld", "bus", "sec"} => Read(t) = <<>>
<1>1. Read("co") = [i \in DOMAIN source.co |-> CLS_CO(i)]
  BY DEF Read, Numbered
<1>2. Read("st") = [i \in DOMAIN source.st |-> CLS_ST(i, source.st[i].id)]
  BY DEF Read, Numbered
<1>3. LET s == disconnector \o grounddisconnector
      IN  Read("switch") = [i \in DOMAIN s |-> CLS_SWITCH(i, s[i].stid, s[i].nd, s[i].znd)]
  BY DEF Read, Numbered
<1>4. LET s == subcontrolarea \o breaker
      IN  Read("cb") = [i \in DOMAIN s |-> CLS_CB(i, s[i].stid, s[i].nd, s[i].znd)]
  BY DEF Read, Numbered
<1>5. Read("fi") = [i \in DOMAIN faultinfo |-> CLS_FI(i, faultinfo[i].sec)]
  BY DEF Read, Numbered
<1>6. Read("ld") = [i \in DOMAIN energyconsumer |-> CLS_LD(i, energyconsumer[i].stid, energyconsumer[i].nd)]
  BY DEF Read, Numbered
<1>7. Read("bus") = [i \in DOMAIN busbarsection |->
                       CLS_BUS(i, busbarsection[i].id, busbarsection[i].stid, busbarsection[i].nd)]
  BY DEF Read, Numbered
<1>8. Read("sec") = [i \in DOMAIN aclinesegment |->
                       CLS_SEC(aclinesegment[i].id, aclinesegment[i].nd, aclinesegment[i].znd)]
  BY DEF Read, Numbered
<1>9. ASSUME NEW t, t \notin {"co", "st", "switch", "cb", "fi", "ld", "bus", "sec"}
      PROVE  Read(t) = <<>>
  BY <1>9 DEF Read, Numbered
<1> QED
  BY <1>1, <1>2, <1>3, <1>4, <1>5, <1>6, <1>7, <1>8, <1>9

LEMMA RowList ==
  ASSUME NEW t \in Tables, NEW s, IsList(s), NEW r, r = [i \in DOMAIN s |-> r[i]], \A i \in DOMAIN s : IsRow(t, r[i])
  PROVE  IsTable(t, r) /\ DOMAIN r = DOMAIN s /\ Len(r) = Len(s)
<1>1. DOMAIN s = 1..Len(s) /\ Len(s) \in Nat
  BY DEF IsList
<1>2. r = [i \in 1..Len(s) |-> r[i]]
  BY <1>1
<1>3. IsList(r) /\ Len(r) = Len(s) /\ DOMAIN r = 1..Len(s)
  BY <1>1, <1>2, FunctionList
<1> QED
  BY <1>1, <1>3 DEF IsTable

LEMMA ReadTables ==
  ASSUME SourceTyped(source), NEW t \in Tables
  PROVE  ReadTrue(t)
<1>1. CASE t = "co"
  <2> DEFINE s == source.co
             r == [i \in DOMAIN s |-> CLS_CO(i)]
  <2>1. IsList(s) /\ DOMAIN s \subseteq Nat
    BY DEF SourceTyped, IsList
  <2>2. Ptrs("co") = {"r_st"} /\ Fields("co") = {"id", "ptr"}
    BY RowNames DEF Components, PtrNames, FieldNames
  <2>3. \A i \in DOMAIN s : r[i] = CLS_CO(i)
    OBVIOUS
  <2>4. \A i \in Nat : /\ IsRow("co", CLS_CO(i)) /\ CLS_CO(i).id = i
                       /\ \A f \in Ptrs("co") : CLS_CO(i).ptr[f] = NoRow
    BY <2>2 DEF IsRow, CLS_CO, NoPtrs, NoRow, Keys
  <2>5. r = [i \in DOMAIN s |-> r[i]]
    OBVIOUS
  <2>6. r = Read("co")
    BY ReadIs
  <2> HIDE DEF r, s
  <2>7. IsTable("co", r) /\ DOMAIN r = DOMAIN s
    BY <1>1, <2>1, <2>3, <2>4, <2>5, RowList
  <2> QED
    BY <1>1, <2>1, <2>3, <2>4, <2>6, <2>7 DEF ReadTrue
<1>2. CASE t = "st"
  <2> DEFINE s == source.st
             r == [i \in DOMAIN s |-> CLS_ST(i, s[i].id)]
  <2>1. IsList(s) /\ DOMAIN s \subseteq Nat
    BY DEF SourceTyped, IsList
  <2>2. /\ Ptrs("st") = {"r_co", "r_xfmr", "r_so", "r_cb", "r_switch", "r_ld", "r_cp", "r_bus", "r_zn"}
        /\ Fields("st") = {"id", "pid", "ptr"}
    BY RowNames DEF Components, PtrNames, FieldNames
  <2>3. \A i \in DOMAIN s : r[i] = CLS_ST(i, s[i].id)
    OBVIOUS
  <2>4. ASSUME NEW i \in Nat, NEW k
        PROVE  /\ IsRow("st", CLS_ST(i, k)) /\ CLS_ST(i, k).id = i
               /\ \A f \in Ptrs("st") : CLS_ST(i, k).ptr[f] = NoRow
    BY <2>2 DEF IsRow, CLS_ST, NoPtrs, NoRow, Keys
  <2>5. r = [i \in DOMAIN s |-> r[i]]
    OBVIOUS
  <2>6. r = Read("st")
    BY ReadIs
  <2>7. source.st = <<>> => Len(s) = 0
    BY EmptyList
  <2> HIDE DEF r, s
  <2>8. IsTable("st", r) /\ DOMAIN r = DOMAIN s /\ Len(r) = Len(s)
    BY <1>1, <1>2, <2>1, <2>3, <2>4, <2>5, RowList
  <2>9. OfStations(r)
    BY <2>7, <2>8, EmptyList DEF OfStations, IsTable
  <2> QED
    BY <1>2, <2>1, <2>3, <2>4, <2>6, <2>8, <2>9 DEF ReadTrue
<1>3. CASE t = "switch"
  <2> DEFINE s == disconnector \o grounddisconnector
             r == [i \in DOMAIN s |-> CLS_SWITCH(i, s[i].stid, s[i].nd, s[i].znd)]
  <2>0. /\ BetweenNodes(disconnector) /\ OfStations(disconnector)
        /\ BetweenNodes(grounddisconnector) /\ OfStations(grounddisconnector)
    BY ReadLists
  <2>1. IsList(s) /\ \A i \in DOMAIN s : s[i].nd \in Nat /\ s[i].znd \in Nat
    <3>1. IsList(disconnector) /\ \A i \in DOMAIN disconnector : disconnector[i].nd \in Nat /\ disconnector[i].znd \in Nat
      BY <2>0 DEF BetweenNodes, AtNodes
    <3>2. /\ IsList(grounddisconnector)
          /\ \A i \in DOMAIN grounddisconnector : grounddisconnector[i].nd \in Nat /\ grounddisconnector[i].znd \in Nat
      BY <2>0 DEF BetweenNodes, AtNodes
    <3>3. IsList(s) /\ \A i \in DOMAIN s :
            s[i] \in {disconnector[j] : j \in DOMAIN disconnector}
                       \cup {grounddisconnector[j] : j \in DOMAIN grounddisconnector}
      BY <3>1, <3>2, ConcatList
    <3> HIDE DEF s
    <3> QED
      BY <3>1, <3>2, <3>3
  <2>2. source.st = <<>> => s = <<>>
    BY <2>0, EmptyList, ConcatList DEF OfStations
  <2>3. Ptrs("switch") = {"ind", "iznd", "r_st"} /\ Fields("switch") = {"id", "stid", "nd", "znd", "ptr"}
    BY RowNames DEF Components, PtrNames, FieldNames
  <2>4. \A i \in DOMAIN s : r[i] = CLS_SWITCH(i, s[i].stid, s[i].nd, s[i].znd)
    OBVIOUS
  <2>5. ASSUME NEW i \in Nat, NEW k, NEW m \in Nat, NEW n \in Nat
        PROVE  IsRow("switch", CLS_SWITCH(i, k, m, n)) /\ CLS_SWITCH(i, k, m, n).id = i
    BY <2>3 DEF IsRow, CLS_SWITCH, ZeroPtrs, Keys
  <2>6. r = [i \in DOMAIN s |-> r[i]]
    OBVIOUS
  <2>7. r = Read("switch")
    BY ReadIs
  <2> HIDE DEF r, s
  <2>8. DOMAIN s \subseteq Nat
    BY <2>1 DEF IsList
  <2>9. \A i \in DOMAIN s : IsRow("switch", r[i]) /\ r[i].id = i
    BY <2>1, <2>4, <2>5, <2>8
  <2>10. IsTable("switch", r) /\ DOMAIN r = DOMAIN s /\ Len(r) = Len(s)
    BY <1>3, <2>1, <2>6, <2>9, RowList
  <2>11. OfStations(r)
    BY <2>2, <2>10, EmptyList DEF OfStations, IsTable
  <2> QED
    BY <1>3, <2>7, <2>9, <2>10, <2>11 DEF ReadTrue
<1>4. CASE t = "cb"
  <2> DEFINE s == subcontrolarea \o breaker
             r == [i \in DOMAIN s |-> CLS_CB(i, s[i].stid, s[i].nd, s[i].znd)]
  <2>0. BetweenNodes(subcontrolarea) /\ BetweenNodes(breaker)
    BY ReadLists
  <2>1. IsList(s) /\ \A i \in DOMAIN s : s[i].nd \in Nat /\ s[i].znd \in Nat
    <3>1. IsList(subcontrolarea) /\ \A i \in DOMAIN subcontrolarea : subcontrolarea[i].nd \in Nat /\ subcontrolarea[i].znd \in Nat
      BY <2>0 DEF BetweenNodes, AtNodes
    <3>2. IsList(breaker) /\ \A i \in DOMAIN breaker : breaker[i].nd \in Nat /\ breaker[i].znd \in Nat
      BY <2>0 DEF BetweenNodes, AtNodes
    <3>3. IsList(s) /\ \A i \in DOMAIN s :
            s[i] \in {subcontrolarea[j] : j \in DOMAIN subcontrolarea} \cup {breaker[j] : j \in DOMAIN breaker}
      BY <3>1, <3>2, ConcatList
    <3> HIDE DEF s
    <3> QED
      BY <3>1, <3>2, <3>3
  <2>3. Ptrs("cb") = {"ind", "iznd", "r_st"} /\ Fields("cb") = {"id", "stid", "nd", "znd", "ptr"}
    BY RowNames DEF Components, PtrNames, FieldNames
  <2>4. \A i \in DOMAIN s : r[i] = CLS_CB(i, s[i].stid, s[i].nd, s[i].znd)
    OBVIOUS
  <2>5. ASSUME NEW i \in Nat, NEW k, NEW m \in Nat, NEW n \in Nat
        PROVE  /\ IsRow("cb", CLS_CB(i, k, m, n)) /\ CLS_CB(i, k, m, n).id = i
               /\ \A f \in Ptrs("cb") : CLS_CB(i, k, m, n).ptr[f] = NoRow
    BY <2>3 DEF IsRow, CLS_CB, NoPtrs, NoRow, Keys
  <2>6. r = [i \in DOMAIN s |-> r[i]]
    OBVIOUS
  <2>7. r = Read("cb")
    BY ReadIs
  <2> HIDE DEF r, s
  <2>8. DOMAIN s \subseteq Nat
    BY <2>1 DEF IsList
  <2>9. \A i \in DOMAIN s : IsRow("cb", r[i]) /\ r[i].id = i /\ \A f \in Ptrs("cb") : r[i].ptr[f] = NoRow
    BY <2>1, <2>4, <2>5, <2>8
  <2>10. IsTable("cb", r) /\ DOMAIN r = DOMAIN s
    BY <1>4, <2>1, <2>6, <2>9, RowList
  <2> QED
    BY <1>4, <2>7, <2>9, <2>10 DEF ReadTrue
<1>5. CASE t = "fi"
  <2> DEFINE s == faultinfo
             r == [i \in DOMAIN s |-> CLS_FI(i, s[i].sec)]
  <2>1. IsList(s) /\ OfStations(s)
    BY ReadLists
  <2>3. Ptrs("fi") = {"r_sec"} /\ Fields("fi") = {"id", "sec", "ptr"}
    BY RowNames DEF Components, PtrNames, FieldNames
  <2>4. \A i \in DOMAIN s : r[i] = CLS_FI(i, s[i].sec)
    OBVIOUS
  <2>5. ASSUME NEW i \in Nat, NEW k
        PROVE  IsRow("fi", CLS_FI(i, k)) /\ CLS_FI(i, k).id = i
    BY <2>3 DEF IsRow, CLS_FI, NoPtrs, NoRow, Keys
  <2>6. r = [i \in DOMAIN s |-> r[i]]
    OBVIOUS
  <2>7. r = Read("fi")
    BY ReadIs
  <2> HIDE DEF r, s
  <2>8. DOMAIN s \subseteq Nat
    BY <2>1 DEF IsList
  <2>9. \A i \in DOMAIN s : IsRow("fi", r[i]) /\ r[i].id = i
    BY <2>4, <2>5, <2>8
  <2>10. IsTable("fi", r) /\ DOMAIN r = DOMAIN s /\ Len(r) = Len(s)
    BY <1>5, <2>1, <2>6, <2>9, RowList
  <2>11. OfStations(r)
    BY <2>1, <2>10, EmptyList DEF OfStations, IsTable
  <2> QED
    BY <1>5, <2>7, <2>9, <2>10, <2>11 DEF ReadTrue
<1>6. CASE t = "ld"
  <2> DEFINE s == energyconsumer
             r == [i \in DOMAIN s |-> CLS_LD(i, s[i].stid, s[i].nd)]
  <2>1. IsList(s) /\ OfStations(s) /\ \A i \in DOMAIN s : s[i].nd \in Nat
    BY ReadLists DEF AtNodes
  <2>3. Ptrs("ld") = {"ind", "r_st", "r_zn"} /\ Fields("ld") = {"id", "stid", "nd", "type", "zn_id", "ptr"}
    BY RowNames DEF Components, PtrNames, FieldNames
  <2>4. \A i \in DOMAIN s : r[i] = CLS_LD(i, s[i].stid, s[i].nd)
    OBVIOUS
  <2>5. ASSUME NEW i \in Nat, NEW k, NEW n \in Nat
        PROVE  IsRow("ld", CLS_LD(i, k, n)) /\ CLS_LD(i, k, n).id = i
    BY <2>3 DEF IsRow, CLS_LD, NoPtrs, NoRow, Keys
  <2>6. r = [i \in DOMAIN s |-> r[i]]
    OBVIOUS
  <2>7. r = Read("ld")
    BY ReadIs
  <2> HIDE DEF r, s
  <2>8. DOMAIN s \subseteq Nat
    BY <2>1 DEF IsList
  <2>9. \A i \in DOMAIN s : IsRow("ld", r[i]) /\ r[i].id = i
    BY <2>1, <2>4, <2>5, <2>8
  <2>10. IsTable("ld", r) /\ DOMAIN r = DOMAIN s /\ Len(r) = Len(s)
    BY <1>6, <2>1, <2>6, <2>9, RowList
  <2>11. OfStations(r)
    BY <2>1, <2>10, EmptyList DEF OfStations, IsTable
  <2> QED
    BY <1>6, <2>7, <2>9, <2>10, <2>11 DEF ReadTrue
<1>7. CASE t = "bus"
  <2> DEFINE s == busbarsection
             r == [i \in DOMAIN s |-> CLS_BUS(i, s[i].id, s[i].stid, s[i].nd)]
  <2>1. IsList(s) /\ OfStations(s) /\ \A i \in DOMAIN s : s[i].nd \in Nat
    BY ReadLists DEF AtNodes
  <2>3. Ptrs("bus") = {"ind", "r_st"} /\ Fields("bus") = {"id", "pid", "stid", "nd", "ptr"}
    BY RowNames DEF Components, PtrNames, FieldNames
  <2>4. \A i \in DOMAIN s : r[i] = CLS_BUS(i, s[i].id, s[i].stid, s[i].nd)
    OBVIOUS
  <2>5. ASSUME NEW i \in Nat, NEW p, NEW k, NEW n \in Nat
        PROVE  IsRow("bus", CLS_BUS(i, p, k, n)) /\ CLS_BUS(i, p, k, n).id = i
    BY <2>3 DEF IsRow, CLS_BUS, NoPtrs, NoRow, Keys
  <2>6. r = [i \in DOMAIN s |-> r[i]]
    OBVIOUS
  <2>7. r = Read("bus")
    BY ReadIs
  <2> HIDE DEF r, s
  <2>8. DOMAIN s \subseteq Nat
    BY <2>1 DEF IsList
  <2>9. \A i \in DOMAIN s : IsRow("bus", r[i]) /\ r[i].id = i
    BY <2>1, <2>4, <2>5, <2>8
  <2>10. IsTable("bus", r) /\ DOMAIN r = DOMAIN s /\ Len(r) = Len(s)
    BY <1>7, <2>1, <2>6, <2>9, RowList
  <2>11. OfStations(r)
    BY <2>1, <2>10, EmptyList DEF OfStations, IsTable
  <2> QED
    BY <1>7, <2>7, <2>9, <2>10, <2>11 DEF ReadTrue
<1>8. CASE t = "sec"
  <2> DEFINE s == aclinesegment
             r == [i \in DOMAIN s |-> CLS_SEC(s[i].id, s[i].nd, s[i].znd)]
  <2>1. /\ IsList(s) /\ OfStations(s) /\ \A i \in DOMAIN s : s[i].nd \in Nat /\ s[i].znd \in Nat /\ s[i].id \in Nat
        /\ \A i, j \in DOMAIN s : s[i].id = s[j].id => i = j
    BY ReadLists DEF AtNodes, BetweenNodes
  <2>3. Ptrs("sec") = {"ind", "iznd", "r_zn", "r_fi"} /\ Fields("sec") = {"id", "nd", "znd", "zn_id", "ptr"}
    BY RowNames DEF Components, PtrNames, FieldNames
  <2>4. \A i \in DOMAIN s : r[i] = CLS_SEC(s[i].id, s[i].nd, s[i].znd)
    OBVIOUS
  <2>5. ASSUME NEW i \in Nat, NEW m \in Nat, NEW n \in Nat
        PROVE  IsRow("sec", CLS_SEC(i, m, n)) /\ CLS_SEC(i, m, n).id = i
    BY <2>3 DEF IsRow, CLS_SEC, NoPtrs, NoRow, Keys
  <2>6. r = [i \in DOMAIN s |-> r[i]]
    OBVIOUS
  <2>7. r = Read("sec")
    BY ReadIs
  <2> HIDE DEF r, s
  <2>9. \A i \in DOMAIN s : IsRow("sec", r[i]) /\ r[i].id = s[i].id
    BY <2>1, <2>4, <2>5
  <2>10. IsTable("sec", r) /\ DOMAIN r = DOMAIN s /\ Len(r) = Len(s)
    BY <1>8, <2>1, <2>6, <2>9, RowList
  <2>11. OfStations(r)
    BY <2>1, <2>10, EmptyList DEF OfStations, IsTable
  <2> QED
    BY <1>8, <2>1, <2>7, <2>9, <2>10, <2>11 DEF ReadTrue
<1>9. CASE t \notin {"co", "st", "switch", "cb", "fi", "ld", "bus", "sec"}
  <2>1. Read(t) = <<>>
    BY <1>9, ReadIs
  <2> QED
    BY <1>9, <2>1, EmptyList DEF ReadTrue, IsTable, OfStations
<1> QED
  BY <1>1, <1>2, <1>3, <1>4, <1>5, <1>6, <1>7, <1>8, <1>9

LEMMA TablesRead ==
  ASSUME SourceTyped(source), NEW D, D = [t \in Tables |-> Inserted(t, Read(t))]
  PROVE  Sound(D) /\ Idle(D)
<1>1. \A t \in Tables : ReadTrue(t)
  BY ReadTables
<1>2. D = [t \in Tables |-> D[t]] /\ \A t \in Tables : D[t] = Read(t)
  BY <1>1, InsertedIsCopy DEF ReadTrue
<1>3. Typed(D)
  BY <1>1, <1>2 DEF Typed, ReadTrue
<1>4. UniqueIds(D)
  BY <1>1, <1>2, TableNames DEF UniqueIds, ReadTrue
<1>5. D["zn"] = <<>> /\ DOMAIN D["zn"] = {}
  <2>1. Read("zn") = <<>>
    BY ReadIs
  <2> QED
    BY <2>1, <1>2, SomeKeys, EmptyList
<1>6. ZoneIds(D)
  BY <1>5 DEF ZoneIds
<1>7. Stale(D)
  <2>1. "r_switch" \in Ptrs("st")
    BY RowNames DEF Components, PtrNames
  <2> QED
    BY <2>1, <1>1, <1>2, SomeKeys DEF Stale, ReadTrue
<1>8. D["st"] = <<>> => source.st = <<>>
  <2>1. Read("st") = [i \in DOMAIN source.st |-> CLS_ST(i, source.st[i].id)]
    BY ReadIs
  <2>2. DOMAIN Read("st") = DOMAIN source.st
    BY <2>1
  <2>3. IsList(source.st)
    BY DEF SourceTyped
  <2>4. D["st"] = <<>> => DOMAIN source.st = {}
    BY <2>2, <1>2, SomeKeys, EmptyList
  <2>5. D["st"] = <<>> => Len(source.st) = 0
    BY <2>3, <2>4 DEF IsList
  <2> QED
    BY <2>3, <2>5, EmptyList
<1>9. \A t \in Tables \ {"co", "cb"} : source.st = <<>> => D[t] = <<>>
  BY <1>1, <1>2 DEF ReadTrue, OfStations
<1>10. NoStations(D)
  BY <1>8, <1>9 DEF NoStations
<1>11. Idle(D)
  <2> SUFFICES ASSUME D["st"] = <<>>,
                      NEW t \in Tables, NEW f \in DOMAIN Conversions[t], NEW i \in DOMAIN D[t]
               PROVE  PtrTrue(D, t, i, f)
    BY DEF Idle, PtrsTrue
  <2>1. t \in {"co", "cb"}
    BY <1>8, <1>9, EmptyList
  <2>2. f \in Ptrs(t)
    BY Targets
  <2>3. D[t][i].ptr[f] = NoRow
    BY <2>1, <2>2, <1>1, <1>2 DEF ReadTrue
  <2> QED
    BY <2>3 DEF PtrTrue
<1> QED
  BY <1>3, <1>4, <1>6, <1>7, <1>10, <1>11 DEF Sound

\* Without stations a pass finds nothing built.
LEMMA IdleStarts ==
  ASSUME NEW D, Sound(D), D.st = <<>>, Idle(D)
  PROVE  PassTrue(D, Whole)
<1>1. \A t \in Tables \ {"co", "cb"} : D[t] = <<>> /\ DOMAIN D[t] = {}
  BY EmptyList DEF Sound, NoStations
<1>2. \A r \in Relations : r \in Tables \ {"co", "cb"}
  BY TableNames DEF Components
<1>3. \A r \in Relations : D[r] = <<>> /\ DOMAIN D[r] = {}
  BY <1>1, <1>2
<1>4. PtrsTrue(D, {})
  BY DEF Idle
<1>5. PtrsTrue(D, Whole)
  BY <1>4 DEF PtrsTrue, Old
<1>6. \A r \in Linking : EndsSet(D[r]) /\ Chained(D[r])
  BY <1>3 DEF Linking, EndsSet, Chained
<1>7. DOMAIN D["nd"] = {} /\ DOMAIN D["zn"] = {}
  BY <1>1, SomeKeys
<1>8. Heads(D) /\ ZoneNodes(D)
  BY <1>7 DEF Heads, ZoneNodes
<1>9. \A r \in Whole : D[r] = <<>>
  BY <1>3 DEF Whole
<1> QED
  BY <1>5, <1>6, <1>8, <1>9 DEF PassTrue

-----------------------------------------------------------------------------
(* The calls of a pass.                                                    *)

LEMMA Calls ==
  /\ DOMAIN Left = {"ST_Validate", "ZN_Validate", "CB_Validate", "SWITCH_Validate", "BUS_Validate", "CP_Validate",
                    "LD_Validate", "SO_Validate", "SEC_Validate", "R_SEC_FI_Build", "ValidateEnd"}
  /\ \A call \in DOMAIN Left : \A i : Pending(call, i) \in SUBSET Whole
  /\ Whole \in SUBSET Relations
  /\ Whole \cap {"r_nd_cb", "r_nd_switch", "r_nd_sec", "r_nd_cp", "r_nd_ld"} = {}
  /\ Left["ZN_Validate"] = Whole \ {"r_co_st"} /\ "r_co_st" \in Whole
<1>1. {ND_RebuildPtr[f] : f \in DOMAIN ND_RebuildPtr} = {"r_nd_cb", "r_nd_switch", "r_nd_sec", "r_nd_cp", "r_nd_ld"}
  BY DEF ND_RebuildPtr
<1>2. Whole = {"r_co_st", "r_st_zn", "r_zn_nd", "r_st_cb", "r_st_switch", "r_st_bus", "r_st_cp", "r_st_ld", "r_zn_ld",
               "r_st_so", "r_zn_sec", "r_sec_fi"}
  BY <1>1 DEF Whole, Relations
<1>3. DOMAIN Left = {"ST_Validate", "ZN_Validate", "CB_Validate", "SWITCH_Validate", "BUS_Validate", "CP_Validate",
                     "LD_Validate", "SO_Validate", "SEC_Validate", "R_SEC_FI_Build", "ValidateEnd"}
  BY DEF Left
<1>4. \A call \in DOMAIN Left : Left[call] \in SUBSET Whole
  BY <1>2, <1>3 DEF Left
<1> QED
  BY <1>1, <1>2, <1>3, <1>4 DEF Pending, Left, Whole

\* The tables are what the next call expects, or a key was twice.
LEMMA Becoming ==
  ASSUME NEW STATE D, NEW STATE next, NEW STATE i, Becomes(D, next, i),
         next \in DOMAIN Left, i \in Nat, Sound(D), PassTrue(D, Pending(next, i))
  PROVE  Running' \/ Stopped'
<1>1. CASE Twice(D)
  BY <1>1 DEF Becomes, Stopped, Sound
<1>2. CASE ~Twice(D)
  <2>1. rows' = D /\ pc' = next /\ at' = i
    BY <1>2 DEF Becomes
  <2> QED
    BY <1>2, <2>1 DEF Running
<1> QED
  BY <1>1, <1>2

LEMMA Failing ==
  ASSUME NEW STATE D, NEW STATE i, Becomes(D, "failed", i), i \in Nat, Typed(D)
  PROVE  Stopped'
BY DEF Becomes, Stopped

LEMMA LoopCases ==
  ASSUME NEW STATE this, NEW STATE t, NEW STATE built, NEW STATE turn, NEW STATE next, Loop(this, t, built, turn, next),
         t \in Tables, Typed(rows)
  PROVE  /\ pc = this
         /\ \/ at = 0 /\ Becomes(built, this, 1)
            \/ at \in DOMAIN rows[t] /\ at # 0 /\ Becomes(turn, this, at + 1)
            \/ at \notin DOMAIN rows[t] /\ at # 0 /\ Becomes(rows, next, 0)
<1>1. 0 \notin DOMAIN rows[t]
  BY DEF Typed, IsTable, IsList
<1>2. CASE at = 0
  BY <1>1, <1>2 DEF Loop
<1>3. CASE at \in DOMAIN rows[t]
  BY <1>1, <1>3 DEF Loop
<1>4. CASE at # 0 /\ at \notin DOMAIN rows[t]
  BY <1>4 DEF Loop
<1> QED
  BY <1>2, <1>3, <1>4

LEMMA PlacingCases ==
  ASSUME NEW STATE this, NEW STATE t, NEW STATE built, NEW STATE wanted, NEW STATE placed, NEW STATE next,
         Placing(this, t, built, wanted, placed, next), t \in Tables, Typed(rows)
  PROVE  /\ pc = this
         /\ \/ at = 0 /\ Becomes(built, this, 1)
            \/ at \in DOMAIN rows[t] /\ at # 0 /\ ~wanted /\ Becomes(rows, this, at + 1)
            \/ at \in DOMAIN rows[t] /\ at # 0 /\ Becomes(rows, "failed", at)
            \/ at \in DOMAIN rows[t] /\ at # 0 /\ wanted /\ Becomes(placed, this, at + 1)
            \/ at \notin DOMAIN rows[t] /\ at # 0 /\ Becomes(rows, next, 0)
<1>1. 0 \notin DOMAIN rows[t]
  BY DEF Typed, IsTable, IsList
<1>2. CASE at = 0
  BY <1>1, <1>2 DEF Placing
<1>3. CASE at \in DOMAIN rows[t]
  BY <1>1, <1>3 DEF Placing
<1>4. CASE at # 0 /\ at \notin DOMAIN rows[t]
  BY <1>4 DEF Placing
<1> QED
  BY <1>2, <1>3, <1>4

LEMMA ReadyAt ==
  ASSUME Running, NEW t \in Tables \ {"co", "cb"}, NEW i \in DOMAIN rows[t]
  PROVE  Ready(rows, Pending(pc, at))
<1>1. rows[t] # <<>>
  BY EmptyList
<1>2. rows.st # <<>>
  BY <1>1, StationsThere DEF Running
<1>3. Pending(pc, at) \in SUBSET Relations
  BY Calls DEF Running
<1> QED
  BY <1>2, <1>3 DEF Ready, Running

\* The next row of the same call.
LEMMA TurnTaken ==
  ASSUME Running, NEW STATE E, at # 0, Going(rows, E, Pending(pc, at)), Becomes(E, pc, at + 1)
  PROVE  Running' \/ Stopped'
<1>1. at + 1 \in Nat /\ Pending(pc, at + 1) = Pending(pc, at)
  BY DEF Running, Pending
<1>2. Sound(E) /\ PassTrue(E, Pending(pc, at + 1))
  BY <1>1 DEF Going
<1> QED
  BY <1>1, <1>2, Becoming DEF Running

LEMMA TurnSkipped ==
  ASSUME Running, at # 0, Becomes(rows, pc, at + 1)
  PROVE  Running' \/ Stopped'
<1>1. at + 1 \in Nat /\ Pending(pc, at + 1) = Pending(pc, at)
  BY DEF Running, Pending
<1> QED
  BY <1>1, Becoming DEF Running

\* The first row of a call, and the next call.
LEMMA FirstBuilt ==
  ASSUME Running, NEW STATE E, Sound(E), PassTrue(E, Left[pc] \ First[pc]), Becomes(E, pc, 1)
  PROVE  Running' \/ Stopped'
<1>1. PassTrue(E, Pending(pc, 1))
  BY DEF Pending
<1> QED
  BY <1>1, Becoming DEF Running

LEMMA NextCall ==
  ASSUME Running, NEW STATE E, NEW STATE next, next \in DOMAIN Left, Sound(E), PassTrue(E, Left[next]), Becomes(E, next, 0)
  PROVE  Running' \/ Stopped'
<1>1. PassTrue(E, Pending(next, 0))
  BY DEF Pending
<1> QED
  BY <1>1, Becoming

LEMMA CallOrder ==
  /\ Left["ZN_Validate"] \ (First["ZN_Validate"] \cup {"r_zn_nd"}) = Left["CB_Validate"]
  /\ First["ZN_Validate"] = {"r_st_zn"} /\ "r_st_zn" \in Left["ZN_Validate"]
  /\ "r_zn_nd" \in Left["ZN_Validate"] \ First["ZN_Validate"]
  /\ Left["CB_Validate"] \ First["CB_Validate"] = Left["SWITCH_Validate"]
  /\ First["CB_Validate"] = {"r_st_cb"} /\ "r_st_cb" \in Left["CB_Validate"]
  /\ Left["SWITCH_Validate"] \ First["SWITCH_Validate"] = Left["BUS_Validate"]
  /\ First["SWITCH_Validate"] = {"r_st_switch"} /\ "r_st_switch" \in Left["SWITCH_Validate"]
  /\ Left["BUS_Validate"] \ First["BUS_Validate"] = Left["CP_Validate"]
  /\ First["BUS_Validate"] = {"r_st_bus"} /\ "r_st_bus" \in Left["BUS_Validate"]
  /\ Left["CP_Validate"] \ First["CP_Validate"] = Left["LD_Validate"]
  /\ First["CP_Validate"] = {"r_st_cp"} /\ "r_st_cp" \in Left["CP_Validate"]
  /\ Left["LD_Validate"] \ First["LD_Validate"] = Left["SO_Validate"]
  /\ First["LD_Validate"] = {"r_st_ld", "r_zn_ld"} /\ {"r_st_ld", "r_zn_ld"} \subseteq Left["LD_Validate"]
  /\ Left["SO_Validate"] \ First["SO_Validate"] = Left["SEC_Validate"]
  /\ First["SO_Validate"] = {"r_st_so"} /\ "r_st_so" \in Left["SO_Validate"]
  /\ Left["SEC_Validate"] \ First["SEC_Validate"] = Left["R_SEC_FI_Build"]
  /\ First["SEC_Validate"] = {"r_zn_sec"} /\ "r_zn_sec" \in Left["SEC_Validate"]
  /\ Left["R_SEC_FI_Build"] = {"r_sec_fi"} /\ First["R_SEC_FI_Build"] = {}
  /\ Left["ValidateEnd"] = {} /\ First["ValidateEnd"] = {}
BY DEF Left, First

LEMMA AfterLoop ==
  ASSUME Running, at # 0, NEW STATE next, next \in DOMAIN Left, Left[pc] \ First[pc] = Left[next], Becomes(rows, next, 0)
  PROVE  Running' \/ Stopped'
<1>1. Sound(rows) /\ PassTrue(rows, Left[next])
  BY DEF Running, Pending
<1> QED
  BY <1>1, NextCall

\* The calls that go over the branches.
LEMMA SwitchesKept ==
  ASSUME Running, SWITCH_Validate
  PROVE  Running' \/ Stopped'
<1> DEFINE turn == IF HasStation(rows.switch[at]) THEN BothEnds(rows, "switch", at, "r_nd_switch", "r_switch") ELSE rows
<1>1. /\ pc = "SWITCH_Validate"
      /\ \/ at = 0 /\ Becomes(R_ST_SWITCH_Build(rows), "SWITCH_Validate", 1)
         \/ at \in DOMAIN rows["switch"] /\ at # 0 /\ Becomes(turn, "SWITCH_Validate", at + 1)
         \/ at # 0 /\ Becomes(rows, "BUS_Validate", 0)
  <2>1. Loop("SWITCH_Validate", "switch", R_ST_SWITCH_Build(rows), turn, "BUS_Validate")
    BY DEF SWITCH_Validate
  <2> HIDE DEF turn
  <2> QED
    BY <2>1, LoopCases, SomeKeys DEF Running, Sound
<1>2. CASE at = 0 /\ Becomes(R_ST_SWITCH_Build(rows), "SWITCH_Validate", 1)
  <2>1. PassTrue(rows, Left["SWITCH_Validate"]) /\ Left["SWITCH_Validate"] \in SUBSET Relations
    BY <1>1, <1>2, Calls DEF Running, Pending
  <2>2. /\ Sound(R_ST_SWITCH_Build(rows))
        /\ PassTrue(R_ST_SWITCH_Build(rows), Left["SWITCH_Validate"] \ First["SWITCH_Validate"])
    BY <2>1, RelationBuilt, CallOrder DEF Running
  <2> QED
    BY <1>1, <1>2, <2>2, FirstBuilt
<1>3. CASE at \in DOMAIN rows["switch"] /\ at # 0 /\ Becomes(turn, "SWITCH_Validate", at + 1)
  <2>1. Ready(rows, Pending(pc, at))
    BY <1>3, ReadyAt, SomeKeys
  <2>2. <<"switch", "r_nd_switch", "r_switch">> \in Branches /\ "r_nd_switch" \notin Pending(pc, at)
    BY Calls DEF Branches, Running
  <2>3. Going(rows, BothEnds(rows, "switch", at, "r_nd_switch", "r_switch"), Pending(pc, at))
    BY <1>3, <2>1, <2>2, BothEndsKept
  <2>4. CASE HasStation(rows.switch[at])
    <3>1. turn = BothEnds(rows, "switch", at, "r_nd_switch", "r_switch")
      BY <2>4
    <3> HIDE DEF turn
    <3>2. Going(rows, turn, Pending(pc, at)) /\ Becomes(turn, pc, at + 1)
      BY <1>1, <1>3, <2>3, <3>1
    <3> QED
      BY <1>3, <3>2, TurnTaken
  <2>5. CASE ~HasStation(rows.switch[at])
    <3>1. turn = rows
      BY <2>5
    <3> HIDE DEF turn
    <3> QED
      BY <1>1, <1>3, <3>1, TurnSkipped
  <2> QED
    BY <2>4, <2>5
<1>4. CASE at # 0 /\ Becomes(rows, "BUS_Validate", 0)
  BY <1>1, CallOrder, Calls, <1>4, AfterLoop
<1> QED
  BY <1>1, <1>2, <1>3, <1>4

\* A breaker with a station is one of a network with stations.
LEMMA BreakersKept ==
  ASSUME Running, CB_Validate
  PROVE  Running' \/ Stopped'
<1> DEFINE turn == IF HasStation(rows.cb[at]) THEN BothEnds(rows, "cb", at, "r_nd_cb", "r_cb") ELSE rows
<1>1. /\ pc = "CB_Validate"
      /\ \/ at = 0 /\ Becomes(R_ST_CB_Build(rows), "CB_Validate", 1)
         \/ at \in DOMAIN rows["cb"] /\ at # 0 /\ Becomes(turn, "CB_Validate", at + 1)
         \/ at # 0 /\ Becomes(rows, "SWITCH_Validate", 0)
  <2>1. Loop("CB_Validate", "cb", R_ST_CB_Build(rows), turn, "SWITCH_Validate")
    BY DEF CB_Validate
  <2> HIDE DEF turn
  <2> QED
    BY <2>1, LoopCases DEF Running, Sound, Tables, Components
<1>2. CASE at = 0 /\ Becomes(R_ST_CB_Build(rows), "CB_Validate", 1)
  <2>1. PassTrue(rows, Left["CB_Validate"]) /\ Left["CB_Validate"] \in SUBSET Relations
    BY <1>1, <1>2, Calls DEF Running, Pending
  <2>2. /\ Sound(R_ST_CB_Build(rows))
        /\ PassTrue(R_ST_CB_Build(rows), Left["CB_Validate"] \ First["CB_Validate"])
    BY <2>1, RelationBuilt, CallOrder DEF Running
  <2> QED
    BY <1>1, <1>2, <2>2, FirstBuilt
<1>3. CASE at \in DOMAIN rows["cb"] /\ at # 0 /\ Becomes(turn, "CB_Validate", at + 1)
  <2>1. ASSUME HasStation(rows.cb[at]) PROVE Ready(rows, Pending(pc, at))
    <3>1. /\ "r_st" \in DOMAIN Conversions["cb"] /\ Conversions["cb"]["r_st"] = "r_st_cb"
          /\ "cb" \in Tables /\ "r_st_cb" \in Tables \ {"co", "cb"}
      BY DEF Conversions, CB_RebuildPtr, Tables, Components, Relations
    <3>2. PtrTrue(rows, "cb", at, "r_st")
      BY <1>3, <3>1 DEF Running, PassTrue, PtrsTrue, Old
    <3>3. rows["cb"][at].ptr["r_st"] \in DOMAIN rows["r_st_cb"]
      BY <2>1, <3>1, <3>2 DEF PtrTrue, HasStation
    <3> QED
      BY <3>1, <3>3, ReadyAt
  <2>2. <<"cb", "r_nd_cb", "r_cb">> \in Branches /\ "r_nd_cb" \notin Pending(pc, at)
    BY Calls DEF Branches, Running
  <2>3. HasStation(rows.cb[at]) => Going(rows, BothEnds(rows, "cb", at, "r_nd_cb", "r_cb"), Pending(pc, at))
    BY <1>3, <2>1, <2>2, BothEndsKept
  <2>4. CASE HasStation(rows.cb[at])
    <3>1. turn = BothEnds(rows, "cb", at, "r_nd_cb", "r_cb")
      BY <2>4
    <3> HIDE DEF turn
    <3>2. Going(rows, turn, Pending(pc, at)) /\ Becomes(turn, pc, at + 1)
      BY <1>1, <1>3, <2>3, <2>4, <3>1
    <3> QED
      BY <1>3, <3>2, TurnTaken
  <2>5. CASE ~HasStation(rows.cb[at])
    <3>1. turn = rows
      BY <2>5
    <3> HIDE DEF turn
    <3> QED
      BY <1>1, <1>3, <3>1, TurnSkipped
  <2> QED
    BY <2>4, <2>5
<1>4. CASE at # 0 /\ Becomes(rows, "SWITCH_Validate", 0)
  BY <1>1, CallOrder, Calls, <1>4, AfterLoop
<1> QED
  BY <1>1, <1>2, <1>3, <1>4

\* The calls that place rows at one node.
LEMMA BusesKept ==
  ASSUME Running, BUS_Validate
  PROVE  Running' \/ Stopped'
<1> DEFINE built == R_ST_BUS_Build(rows)
           wanted == HasStation(rows.bus[at])
           placed == OnNode(rows, "bus", at, "ind", rows.bus[at].nd)
<1>1. /\ pc = "BUS_Validate"
      /\ \/ at = 0 /\ Becomes(built, "BUS_Validate", 1)
         \/ at \in DOMAIN rows["bus"] /\ at # 0 /\ Becomes(rows, "BUS_Validate", at + 1)
         \/ at \in DOMAIN rows["bus"] /\ at # 0 /\ Becomes(rows, "failed", at)
         \/ at \in DOMAIN rows["bus"] /\ at # 0 /\ Becomes(placed, "BUS_Validate", at + 1)
         \/ at # 0 /\ Becomes(rows, "CP_Validate", 0)
  <2>1. Placing("BUS_Validate", "bus", built, wanted, placed, "CP_Validate")
    BY DEF BUS_Validate
  <2>2. "bus" \in Tables /\ Typed(rows)
    BY DEF Tables, Components, Running, Sound
  <2> HIDE DEF built, wanted, placed
  <2> QED
    BY <2>1, <2>2, PlacingCases
<1>2. CASE at = 0 /\ Becomes(built, "BUS_Validate", 1)
  <2>1. PassTrue(rows, Left["BUS_Validate"]) /\ Left["BUS_Validate"] \in SUBSET Relations
    BY <1>1, <1>2, Calls DEF Running, Pending
  <2>2. Sound(built) /\ PassTrue(built, Left["BUS_Validate"] \ First["BUS_Validate"])
    BY <2>1, RelationBuilt, CallOrder DEF Running
  <2> HIDE DEF built
  <2> QED
    BY <1>1, <1>2, <2>2, FirstBuilt
<1>3. CASE at \in DOMAIN rows["bus"] /\ at # 0 /\ Becomes(placed, "BUS_Validate", at + 1)
  <2>1. Ready(rows, Pending(pc, at))
    <3>1. "bus" \in Tables \ {"co", "cb"}
      BY DEF Tables, Components
    <3> QED
      BY <1>3, <3>1, ReadyAt
  <2>2. NodeKey(rows, "bus", at, "ind", rows.bus[at].nd)
    <3>1. "ind" \in Ptrs("bus") /\ "bus" \in Placed
      BY RowNames DEF Components, PtrNames, Placed
    <3> QED
      BY <1>3, <3>1 DEF NodeKey
  <2>3. Going(rows, placed, Pending(pc, at))
    BY <2>1, <2>2, SetToNode DEF NodeIsSet
  <2> HIDE DEF placed
  <2> QED
    BY <1>1, <1>3, <2>3, TurnTaken
<1>4. CASE at # 0 /\ Becomes(rows, "BUS_Validate", at + 1)
  BY <1>1, <1>4, TurnSkipped
<1>5. CASE at \in DOMAIN rows["bus"] /\ Becomes(rows, "failed", at)
  BY <1>5, Failing DEF Running, Sound
<1>6. CASE at # 0 /\ Becomes(rows, "CP_Validate", 0)
  BY <1>1, CallOrder, Calls, <1>6, AfterLoop
<1> QED
  BY <1>1, <1>2, <1>3, <1>4, <1>5, <1>6

LEMMA CapacitorsKept ==
  ASSUME Running, CP_Validate
  PROVE  Running' \/ Stopped'
<1> DEFINE built == R_ST_CP_Build(rows)
           wanted == HasStation(rows.cp[at])
           placed == OneEnd(rows, "cp", at, "r_nd_cp", "r_cp")
<1>1. /\ pc = "CP_Validate"
      /\ \/ at = 0 /\ Becomes(built, "CP_Validate", 1)
         \/ at \in DOMAIN rows["cp"] /\ at # 0 /\ Becomes(rows, "CP_Validate", at + 1)
         \/ at \in DOMAIN rows["cp"] /\ at # 0 /\ Becomes(rows, "failed", at)
         \/ at \in DOMAIN rows["cp"] /\ at # 0 /\ Becomes(placed, "CP_Validate", at + 1)
         \/ at # 0 /\ Becomes(rows, "LD_Validate", 0)
  <2>1. Placing("CP_Validate", "cp", built, wanted, placed, "LD_Validate")
    BY DEF CP_Validate
  <2>2. "cp" \in Tables /\ Typed(rows)
    BY DEF Tables, Components, Running, Sound
  <2> HIDE DEF built, wanted, placed
  <2> QED
    BY <2>1, <2>2, PlacingCases
<1>2. CASE at = 0 /\ Becomes(built, "CP_Validate", 1)
  <2>1. PassTrue(rows, Left["CP_Validate"]) /\ Left["CP_Validate"] \in SUBSET Relations
    BY <1>1, <1>2, Calls DEF Running, Pending
  <2>2. Sound(built) /\ PassTrue(built, Left["CP_Validate"] \ First["CP_Validate"])
    BY <2>1, RelationBuilt, CallOrder DEF Running
  <2> HIDE DEF built
  <2> QED
    BY <1>1, <1>2, <2>2, FirstBuilt
<1>3. CASE at \in DOMAIN rows["cp"] /\ at # 0 /\ Becomes(placed, "CP_Validate", at + 1)
  <2>1. Ready(rows, Pending(pc, at))
    <3>1. "cp" \in Tables \ {"co", "cb"}
      BY DEF Tables, Components
    <3> QED
      BY <1>3, <3>1, ReadyAt
  <2>2. <<"cp", "r_nd_cp", "r_cp">> \in Branches \cup Places /\ "r_nd_cp" \notin Pending(pc, at)
    BY Calls DEF Places, Running
  <2>3. Going(rows, placed, Pending(pc, at))
    BY <1>3, <2>1, <2>2, OneEndKept
  <2> HIDE DEF placed
  <2> QED
    BY <1>1, <1>3, <2>3, TurnTaken
<1>4. CASE at # 0 /\ Becomes(rows, "CP_Validate", at + 1)
  BY <1>1, <1>4, TurnSkipped
<1>5. CASE at \in DOMAIN rows["cp"] /\ Becomes(rows, "failed", at)
  BY <1>5, Failing DEF Running, Sound
<1>6. CASE at # 0 /\ Becomes(rows, "LD_Validate", 0)
  BY <1>1, CallOrder, Calls, <1>6, AfterLoop
<1> QED
  BY <1>1, <1>2, <1>3, <1>4, <1>5, <1>6

LEMMA LoadsKept ==
  ASSUME Running, LD_Validate
  PROVE  Running' \/ Stopped'
<1> DEFINE built == R_ZN_LD_Build(R_ST_LD_Build(rows))
           wanted == HasOwner(rows.ld[at])
           placed == OneEnd(rows, "ld", at, "r_nd_ld", "r_ld")
<1>1. /\ pc = "LD_Validate"
      /\ \/ at = 0 /\ Becomes(built, "LD_Validate", 1)
         \/ at \in DOMAIN rows["ld"] /\ at # 0 /\ Becomes(rows, "LD_Validate", at + 1)
         \/ at \in DOMAIN rows["ld"] /\ at # 0 /\ Becomes(rows, "failed", at)
         \/ at \in DOMAIN rows["ld"] /\ at # 0 /\ Becomes(placed, "LD_Validate", at + 1)
         \/ at # 0 /\ Becomes(rows, "SO_Validate", 0)
  <2>1. Placing("LD_Validate", "ld", built, wanted, placed, "SO_Validate")
    BY DEF LD_Validate
  <2>2. "ld" \in Tables /\ Typed(rows)
    BY DEF Tables, Components, Running, Sound
  <2> HIDE DEF built, wanted, placed
  <2> QED
    BY <2>1, <2>2, PlacingCases
<1>2. CASE at = 0 /\ Becomes(built, "LD_Validate", 1)
  <2>1. PassTrue(rows, Left["LD_Validate"]) /\ Left["LD_Validate"] \in SUBSET Relations
    BY <1>1, <1>2, Calls DEF Running, Pending
  <2>2. LET E == R_ST_LD_Build(rows)
        IN  Sound(E) /\ PassTrue(E, Left["LD_Validate"] \ {"r_st_ld"})
    BY <2>1, RelationBuilt, CallOrder DEF Running
  <2>3. /\ "r_zn_ld" \in Left["LD_Validate"] \ {"r_st_ld"} /\ Left["LD_Validate"] \ {"r_st_ld"} \in SUBSET Relations
        /\ (Left["LD_Validate"] \ {"r_st_ld"}) \ {"r_zn_ld"} = Left["LD_Validate"] \ First["LD_Validate"]
    BY <2>1, CallOrder
  <2>4. Sound(built) /\ PassTrue(built, Left["LD_Validate"] \ First["LD_Validate"])
    BY <2>2, <2>3, RelationBuilt
  <2> HIDE DEF built
  <2> QED
    BY <1>1, <1>2, <2>4, FirstBuilt
<1>3. CASE at \in DOMAIN rows["ld"] /\ at # 0 /\ Becomes(placed, "LD_Validate", at + 1)
  <2>1. Ready(rows, Pending(pc, at))
    <3>1. "ld" \in Tables \ {"co", "cb"}
      BY DEF Tables, Components
    <3> QED
      BY <1>3, <3>1, ReadyAt
  <2>2. <<"ld", "r_nd_ld", "r_ld">> \in Branches \cup Places /\ "r_nd_ld" \notin Pending(pc, at)
    BY Calls DEF Places, Running
  <2>3. Going(rows, placed, Pending(pc, at))
    BY <1>3, <2>1, <2>2, OneEndKept
  <2> HIDE DEF placed
  <2> QED
    BY <1>1, <1>3, <2>3, TurnTaken
<1>4. CASE at # 0 /\ Becomes(rows, "LD_Validate", at + 1)
  BY <1>1, <1>4, TurnSkipped
<1>5. CASE at \in DOMAIN rows["ld"] /\ Becomes(rows, "failed", at)
  BY <1>5, Failing DEF Running, Sound
<1>6. CASE at # 0 /\ Becomes(rows, "SO_Validate", 0)
  BY <1>1, CallOrder, Calls, <1>6, AfterLoop
<1> QED
  BY <1>1, <1>2, <1>3, <1>4, <1>5, <1>6

LEMMA SourcesKept ==
  ASSUME Running, SO_Validate
  PROVE  Running' \/ Stopped'
<1> DEFINE built == R_ST_SO_Build(rows)
           wanted == HasStation(rows.so[at])
           placed == OnNode(rows, "so", at, "ind", rows.so[at].nd)
<1>1. /\ pc = "SO_Validate"
      /\ \/ at = 0 /\ Becomes(built, "SO_Validate", 1)
         \/ at \in DOMAIN rows["so"] /\ at # 0 /\ Becomes(rows, "SO_Validate", at + 1)
         \/ at \in DOMAIN rows["so"] /\ at # 0 /\ Becomes(rows, "failed", at)
         \/ at \in DOMAIN rows["so"] /\ at # 0 /\ Becomes(placed, "SO_Validate", at + 1)
         \/ at # 0 /\ Becomes(rows, "SEC_Validate", 0)
  <2>1. Placing("SO_Validate", "so", built, wanted, placed, "SEC_Validate")
    BY DEF SO_Validate
  <2>2. "so" \in Tables /\ Typed(rows)
    BY DEF Tables, Components, Running, Sound
  <2> HIDE DEF built, wanted, placed
  <2> QED
    BY <2>1, <2>2, PlacingCases
<1>2. CASE at = 0 /\ Becomes(built, "SO_Validate", 1)
  <2>1. PassTrue(rows, Left["SO_Validate"]) /\ Left["SO_Validate"] \in SUBSET Relations
    BY <1>1, <1>2, Calls DEF Running, Pending
  <2>2. Sound(built) /\ PassTrue(built, Left["SO_Validate"] \ First["SO_Validate"])
    BY <2>1, RelationBuilt, CallOrder DEF Running
  <2> HIDE DEF built
  <2> QED
    BY <1>1, <1>2, <2>2, FirstBuilt
<1>3. CASE at \in DOMAIN rows["so"] /\ at # 0 /\ Becomes(placed, "SO_Validate", at + 1)
  <2>1. Ready(rows, Pending(pc, at))
    <3>1. "so" \in Tables \ {"co", "cb"}
      BY DEF Tables, Components
    <3> QED
      BY <1>3, <3>1, ReadyAt
  <2>2. NodeKey(rows, "so", at, "ind", rows.so[at].nd)
    <3>1. "ind" \in Ptrs("so") /\ "so" \in Placed
      BY RowNames DEF Components, PtrNames, Placed
    <3> QED
      BY <1>3, <3>1 DEF NodeKey
  <2>3. Going(rows, placed, Pending(pc, at))
    BY <2>1, <2>2, SetToNode DEF NodeIsSet
  <2> HIDE DEF placed
  <2> QED
    BY <1>1, <1>3, <2>3, TurnTaken
<1>4. CASE at # 0 /\ Becomes(rows, "SO_Validate", at + 1)
  BY <1>1, <1>4, TurnSkipped
<1>5. CASE at \in DOMAIN rows["so"] /\ Becomes(rows, "failed", at)
  BY <1>5, Failing DEF Running, Sound
<1>6. CASE at # 0 /\ Becomes(rows, "SEC_Validate", 0)
  BY <1>1, CallOrder, Calls, <1>6, AfterLoop
<1> QED
  BY <1>1, <1>2, <1>3, <1>4, <1>5, <1>6

LEMMA SectionsKept ==
  ASSUME Running, SEC_Validate
  PROVE  Running' \/ Stopped'
<1> DEFINE built == R_ZN_SEC_Build(rows)
           D == BothEnds(rows, "sec", at, "r_nd_sec", "r_sec")
<1>1. /\ pc = "SEC_Validate"
      /\ \/ at = 0 /\ Becomes(built, "SEC_Validate", 1)
         \/ at \in DOMAIN rows["sec"] /\ at # 0 /\ Becomes(D, "failed", at + 1)
         \/ at \in DOMAIN rows["sec"] /\ at # 0 /\ Becomes(D, "SEC_Validate", at + 1)
         \/ at # 0 /\ Becomes(rows, "R_SEC_FI_Build", 0)
  <2>1. 0 \notin DOMAIN rows["sec"]
    BY SomeKeys DEF Running, Sound, Typed, IsTable, IsList
  <2>2. /\ pc = "SEC_Validate"
        /\ CASE at = 0 -> Becomes(built, "SEC_Validate", 1)
             [] at \in DOMAIN rows.sec ->
                  Becomes(D, IF NodeLost(D, "sec", at) THEN "failed" ELSE "SEC_Validate", at + 1)
             [] OTHER -> Becomes(rows, "R_SEC_FI_Build", 0)
    BY DEF SEC_Validate
  <2> HIDE DEF built, D
  <2>3. CASE at = 0
    BY <2>1, <2>2, <2>3
  <2>4. CASE at \in DOMAIN rows["sec"]
    BY <2>1, <2>2, <2>4
  <2>5. CASE at # 0 /\ at \notin DOMAIN rows["sec"]
    BY <2>2, <2>5
  <2> QED
    BY <2>3, <2>4, <2>5
<1>2. CASE at = 0 /\ Becomes(built, "SEC_Validate", 1)
  <2>1. PassTrue(rows, Left["SEC_Validate"]) /\ Left["SEC_Validate"] \in SUBSET Relations
    BY <1>1, <1>2, Calls DEF Running, Pending
  <2>2. Sound(built) /\ PassTrue(built, Left["SEC_Validate"] \ First["SEC_Validate"])
    BY <2>1, RelationBuilt, CallOrder DEF Running
  <2> HIDE DEF built
  <2> QED
    BY <1>1, <1>2, <2>2, FirstBuilt
<1>3. ASSUME at \in DOMAIN rows["sec"], at # 0 PROVE Going(rows, D, Pending(pc, at))
  BY <1>3, ReadyAt, SomeKeys, Calls, BothEndsKept DEF Branches, Running
<1> HIDE DEF D
<1>4. CASE at \in DOMAIN rows["sec"] /\ at # 0 /\ Becomes(D, "failed", at + 1)
  <2>1. at + 1 \in Nat /\ Typed(D)
    BY <1>3, <1>4 DEF Running, Going, Sound
  <2> QED
    BY <1>4, <2>1, Failing
<1>5. CASE at \in DOMAIN rows["sec"] /\ at # 0 /\ Becomes(D, "SEC_Validate", at + 1)
  BY <1>1, <1>3, <1>5, TurnTaken
<1>6. CASE at # 0 /\ Becomes(rows, "R_SEC_FI_Build", 0)
  BY <1>1, CallOrder, Calls, <1>6, AfterLoop
<1> QED
  BY <1>1, <1>2, <1>4, <1>5, <1>6

LEMMA StationsKept ==
  ASSUME Running, ST_Validate
  PROVE  Running' \/ Stopped'
<1>1. pc = "ST_Validate" /\ Pending(pc, at) = Whole
  BY DEF ST_Validate, Pending, Left, First
<1>2. Sound(rows) /\ PassTrue(rows, Whole) /\ Whole \in SUBSET Relations
  BY <1>1, Calls DEF Running
<1>3. \/ Becomes(R_CO_ST_Build(rows), "ZN_Validate", 0)
      \/ Becomes(rows, "ZN_Validate", 0)
      \/ Becomes(rows, "failed", 0)
  BY DEF ST_Validate
<1>4. CASE Becomes(R_CO_ST_Build(rows), "ZN_Validate", 0)
  <2>1. Sound(R_CO_ST_Build(rows)) /\ PassTrue(R_CO_ST_Build(rows), Left["ZN_Validate"])
    <3>1. Left["ZN_Validate"] = Whole \ {"r_co_st"} /\ "r_co_st" \in Whole
      BY Calls
    <3>2. Sound(R_CO_ST_Build(rows)) /\ PassTrue(R_CO_ST_Build(rows), Whole \ {"r_co_st"})
      BY <1>2, <3>1, RelationBuilt
    <3> QED
      BY <3>1, <3>2
  <2> QED
    BY <1>4, <2>1, NextCall, Calls
<1>5. CASE Becomes(rows, "ZN_Validate", 0)
  BY Calls, <1>2, FewerLeft, <1>5, NextCall DEF Left
<1>6. CASE Becomes(rows, "failed", 0)
  BY <1>2, <1>6, Failing DEF Sound
<1> QED
  BY <1>3, <1>4, <1>5, <1>6

LEMMA ZonesKept ==
  ASSUME Running, ZN_Validate
  PROVE  Running' \/ Stopped'
<1> DEFINE left == {n \in DOMAIN rows.zn[at].inds : rows.zn[at].inds[n] = NoRow}
           bad == \E z \in DOMAIN rows.zn : \E n \in DOMAIN rows.zn[z].inds : rows.zn[z].inds[n] = NoRow
           built == R_ST_ZN_Build(rows)
           placed == ZN_Node(rows, at, Min(left))
           whole == IF rows.zn = <<>> THEN rows ELSE R_ZN_ND_Build(rows)
<1>1. /\ pc = "ZN_Validate"
      /\ \/ at = 0 /\ Becomes(built, "ZN_Validate", 1)
         \/ at # 0 /\ Becomes(rows, "ZN_Validate", at + 1)
         \/ at \in DOMAIN rows["zn"] /\ at # 0 /\ left # {} /\ Becomes(placed, "ZN_Validate", at)
         \/ Becomes(rows, "failed", 0)
         \/ at # 0 /\ ~bad /\ Becomes(whole, "CB_Validate", 0)
  <2>1. 0 \notin DOMAIN rows["zn"]
    BY SomeKeys DEF Running, Sound, Typed, IsTable, IsList
  <2>2. /\ pc = "ZN_Validate"
        /\ CASE at = 0 -> Becomes(built, "ZN_Validate", 1)
             [] at \in DOMAIN rows.zn ->
                  IF left = {} \/ Full(rows, rows.zn[at].nds[Min(left)])
                  THEN Becomes(rows, "ZN_Validate", at + 1)
                  ELSE Becomes(placed, "ZN_Validate", at)
             [] OTHER -> IF bad THEN Becomes(rows, "failed", 0) ELSE Becomes(whole, "CB_Validate", 0)
    BY DEF ZN_Validate
  <2> HIDE DEF built, placed, whole, left, bad
  <2>3. CASE at = 0
    BY <2>1, <2>2, <2>3
  <2>4. CASE at \in DOMAIN rows["zn"]
    BY <2>1, <2>2, <2>4
  <2>5. CASE at # 0 /\ at \notin DOMAIN rows["zn"]
    BY <2>2, <2>5
  <2> QED
    BY <2>3, <2>4, <2>5
<1>2. CASE at = 0 /\ Becomes(built, "ZN_Validate", 1)
  <2>1. PassTrue(rows, Left["ZN_Validate"]) /\ Left["ZN_Validate"] \in SUBSET Relations
    BY <1>1, <1>2, Calls DEF Running, Pending
  <2>2. Sound(built) /\ PassTrue(built, Left["ZN_Validate"] \ First["ZN_Validate"])
    BY <2>1, RelationBuilt, CallOrder DEF Running
  <2> HIDE DEF built
  <2> QED
    BY <1>1, <1>2, <2>2, FirstBuilt
<1>3. CASE at \in DOMAIN rows["zn"] /\ at # 0 /\ left # {} /\ Becomes(placed, "ZN_Validate", at)
  <2>1. Ready(rows, Pending(pc, at))
    BY <1>3, ReadyAt, SomeKeys
  <2>2. Min(left) \in DOMAIN rows.zn[at].inds
    <3>1. IsRow("zn", rows["zn"][at])
      BY <1>3, SomeKeys DEF Running, Sound, Typed, IsTable
    <3>2. PICK n \in Nat : DOMAIN rows["zn"][at].inds = 1..n
      BY <3>1 DEF IsRow, IsList
    <3>3. left \in SUBSET (1..n) /\ left # {}
      BY <1>3, <3>2
    <3> HIDE DEF left
    <3>4. Min(left) \in left
      BY <3>3, Extremes
    <3> QED
      BY <3>2, <3>3, <3>4
  <2> HIDE DEF left
  <2>3. Going(rows, placed, Pending(pc, at))
    BY <1>3, <2>1, <2>2, ZoneNodePlaced
  <2> HIDE DEF placed
  <2>4. Sound(placed) /\ PassTrue(placed, Pending("ZN_Validate", at)) /\ at \in Nat
    BY <1>1, <2>3 DEF Going, Running
  <2> QED
    BY <1>3, <2>4, Becoming, Calls
<1>4. CASE at # 0 /\ Becomes(rows, "ZN_Validate", at + 1)
  BY <1>1, <1>4, TurnSkipped
<1>5. CASE Becomes(rows, "failed", 0)
  BY <1>5, Failing DEF Running, Sound
<1>6. CASE at # 0 /\ ~bad /\ Becomes(whole, "CB_Validate", 0)
  <2> DEFINE W == Left["ZN_Validate"] \ First["ZN_Validate"]
  <2>1. /\ Sound(rows) /\ PassTrue(rows, W) /\ W \in SUBSET Relations
        /\ Left["CB_Validate"] = W \ {"r_zn_nd"} /\ "r_zn_nd" \in W
        /\ "r_st_switch" \in Left["CB_Validate"]
    BY <1>1, <1>6, Calls, CallOrder DEF Running, Pending, Left
  <2> HIDE DEF W
  <2>2. Sound(whole) /\ PassTrue(whole, Left["CB_Validate"])
    <3>1. CASE rows.zn = <<>>
      <4>1. PassTrue(rows, Left["CB_Validate"])
        BY <2>1, FewerLeft
      <4> QED
        BY <2>1, <3>1, <4>1
    <3>2. CASE rows.zn # <<>>
      BY <1>6, <2>1, <3>2, ZoneNodesBuilt
    <3> QED
      BY <3>1, <3>2
  <2> HIDE DEF whole
  <2> QED
    BY <1>6, <2>2, NextCall, Calls
<1> QED
  BY <1>1, <1>2, <1>3, <1>4, <1>5, <1>6

LEMMA FaultInfosKept ==
  ASSUME Running, FI_Validate
  PROVE  Running' \/ Stopped'
<1>1. Becomes(R_SEC_FI_Build(rows), "ValidateEnd", 0) /\ pc = "R_SEC_FI_Build"
  BY DEF FI_Validate
<1>2. PassTrue(rows, {"r_sec_fi"}) /\ {"r_sec_fi"} \in SUBSET Relations
  <2>1. Pending(pc, at) = {"r_sec_fi"}
    BY <1>1, CallOrder DEF Pending
  <2> QED
    BY <2>1 DEF Running, Relations
<1>3. Sound(R_SEC_FI_Build(rows)) /\ PassTrue(R_SEC_FI_Build(rows), {"r_sec_fi"} \ {"r_sec_fi"})
  BY <1>2, RelationBuilt DEF Running
<1>4. PassTrue(R_SEC_FI_Build(rows), Left["ValidateEnd"])
  BY <1>3 DEF Left
<1> QED
  BY <1>1, <1>3, <1>4, NextCall, Calls

-----------------------------------------------------------------------------
(* Before, between and after the passes.                                   *)

LEMMA PassBegins ==
  ASSUME Waiting, ValidateStart
  PROVE  Running' \/ Stopped'
<1>1. Left["ST_Validate"] = Whole /\ "ST_Validate" \in DOMAIN Left /\ Pending("ST_Validate", 0) = Whole
  BY DEF Left, Pending
<1>2. CASE rows.st = <<>>
  BY <1>2, <1>1, IdleStarts, Becoming DEF ValidateStart, Waiting
<1>3. CASE rows.st # <<>>
  BY <1>3, <1>1, PassStarts, Becoming DEF ValidateStart, Waiting, Ready
<1> QED
  BY <1>2, <1>3

LEMMA PassEnds ==
  ASSUME Running, ValidateEnd
  PROVE  AfterPass'
<1>1. Sound(rows) /\ ~Twice(rows) /\ PassTrue(rows, {})
  BY DEF Pending, Left, First, ValidateEnd, Running
<1>2. Ended(rows')
  <2>1. CASE rows.nd = <<>> /\ rows' = rows
    <3>1. Idle(rows)
      BY <1>1 DEF Idle, PassTrue
    <3> QED
      BY <1>1, <2>1, <3>1 DEF Ended
  <2>2. CASE rows.nd # <<>> /\ \E live \in source.live : rows' = add_so(SetVL(RebuildPtr(rows)), live)
    <3>1. rows.st # <<>>
      <4>1. rows["nd"] # <<>> /\ "nd" \in Tables \ {"co", "cb"}
        BY <2>2, SomeKeys
      <4> QED
        BY <1>1, <4>1, StationsThere
    <3>2. Finished(RebuildPtr(rows))
      BY <1>1, <3>1, RebuiltFinished
    <3>3. Finished(rows')
      BY <2>2, <3>2, SetVLFinished, SourcesFinished
    <3>4. Sound(rows') /\ rows'.st # <<>> /\ Typed(rows') /\ InOrder(rows')
      BY <3>3 DEF Finished, Sound
    <3>5. ~Twice(rows')
      BY <3>4, OrderedStay
    <3> QED
      BY <3>3, <3>4, <3>5 DEF Ended, Idle
  <2> QED
    BY <2>1, <2>2 DEF ValidateEnd
<1>3. pc' \in {"find_so", "ReadFromDsbob2"}
  BY DEF ValidateEnd
<1> QED
  BY <1>2, <1>3 DEF AfterPass

LEMMA ZonesBegin ==
  ASSUME AfterPass, find_so
  PROVE  Waiting'
<1> DEFINE E == [rows EXCEPT !.r_zn_ld = <<>>]
<1>1. rows' = E /\ pc' = "BuildZones"
  BY DEF find_so
<1>2. "r_zn_ld" \in Tables /\ "r_zn_ld" \notin Components /\ {"st", "zn", "switch"} \subseteq Tables
  BY DEF Tables, Components, Relations
<1>3. Sound(rows) /\ Idle(rows) /\ Typed(rows) /\ rows = [t \in Tables |-> rows[t]]
  BY DEF AfterPass, Ended, Sound, Typed
<1>4. E = [t \in Tables |-> E[t]] /\ E["r_zn_ld"] = <<>> /\ \A t \in Tables \ {"r_zn_ld"} : E[t] = rows[t]
  BY <1>2, <1>3
<1> HIDE DEF E
<1>5. E["st"] = rows["st"] /\ E["zn"] = rows["zn"] /\ E["switch"] = rows["switch"]
      /\ \A t \in Components : E[t] = rows[t]
  BY <1>2, <1>4 DEF Tables
<1>6. IsTable("r_zn_ld", <<>>)
  BY EmptyList DEF IsTable
<1>7. Typed(E)
  BY <1>3, <1>4, <1>6 DEF Typed
<1>8. UniqueIds(E) /\ ZoneIds(E) /\ Stale(E)
  <2>1. UniqueIds(rows) /\ ZoneIds(rows) /\ Stale(rows)
    BY <1>3 DEF Sound
  <2>2. UniqueIds(E)
    BY <1>5, <2>1 DEF UniqueIds
  <2>3. ZoneIds(E)
    BY <1>5, <2>1 DEF ZoneIds
  <2>4. Stale(E)
    BY <1>5, <2>1 DEF Stale
  <2> QED
    BY <2>2, <2>3, <2>4
<1>9. NoStations(E)
  BY <1>3, <1>4, <1>5 DEF Sound, NoStations
<1>10. Idle(E)
  <2>1. CASE rows["st"] = <<>>
    <3>1. rows["r_zn_ld"] = <<>>
      <4>1. "r_zn_ld" \in Tables \ {"co", "cb"}
        BY <1>2
      <4> QED
        BY <1>3, <2>1, <4>1 DEF Sound, NoStations
    <3>2. \A t \in Tables : E[t] = rows[t]
      BY <1>4, <3>1
    <3>3. E = rows
      BY <1>3, <1>4, <3>2
    <3> QED
      BY <1>3, <3>3
  <2>2. CASE rows["st"] # <<>>
    BY <1>5, <2>2 DEF Idle
  <2> QED
    BY <2>1, <2>2
<1> QED
  BY <1>1, <1>7, <1>8, <1>9, <1>10 DEF Waiting, Sound

LEMMA ZonesBuilt ==
  ASSUME Waiting, BuildZones
  PROVE  Waiting'
<1>1. CASE rows' = rows
  BY <1>1 DEF Waiting, BuildZones
<1>2. CASE at \in DOMAIN rows["nd"] /\ \E v : rows' = AddZone(rows, v)
  <2>1. rows.st # <<>>
    <3>1. rows["nd"] # <<>> /\ "nd" \in Tables \ {"co", "cb"}
      BY <1>2, SomeKeys, EmptyList
    <3> QED
      BY <3>1, StationsThere DEF Waiting
  <2>2. Sound(rows') /\ rows'.st # <<>>
    BY <1>2, <2>1, ZoneAdded DEF Waiting
  <2>3. pc' \in {"ValidateStart", "BuildZones"}
    BY DEF BuildZones
  <2> QED
    BY <2>2, <2>3 DEF Waiting, Idle
<1>3. rows' = rows \/ (at \in DOMAIN rows["nd"] /\ \E v : rows' = AddZone(rows, v))
  BY DEF BuildZones
<1> QED
  BY <1>1, <1>2, <1>3

\* The first pass starts from what was read.
LEMMA ReadingWaits ==
  ASSUME source \in Sources, ReadPSBOB
  PROVE  Waiting'
<1> DEFINE D == [t \in Tables |-> Inserted(t, Read(t))]
<1>1. rows' = D /\ pc' = "ValidateStart"
  BY DEF ReadPSBOB
<1>2. SourceTyped(source)
  BY SourcesAssumption
<1>3. Sound(D) /\ Idle(D)
  BY <1>2, TablesRead
<1> QED
  BY <1>1, <1>3 DEF Waiting

-----------------------------------------------------------------------------
(* The copies.                                                             *)

\* The tables of the fault processors are those of the server.
LEMMA TablesCopied ==
  ASSUME AfterPass, ReadFromDsbob2
  PROVE  Copying'
<1>1. Typed(rows)
  BY DEF AfterPass, Ended, Sound
<1>2. \A t \in Tables : Inserted(t, rows[t]) = rows[t]
  BY <1>1, InsertedIsCopy DEF Typed
<1>3. copy' = [t \in Tables |-> rows[t]]
  BY <1>2 DEF ReadFromDsbob2
<1>4. copy' = rows /\ rows' = rows /\ pc' = "WriteReDB2"
  BY <1>1, <1>3 DEF ReadFromDsbob2, Typed
<1> QED
  BY <1>4 DEF AfterPass, Copying

\* Tables whose pointers are joined are linked.
LEMMA FinishedLinked ==
  ASSUME NEW D, Finished(D)
  PROVE  Linked(D)
<1>1. Joined(D) /\ Typed(D)
  BY DEF Finished, Sound
<1>2. \A t \in Tables : \A i \in DOMAIN D[t] : DOMAIN D[t][i].ptr = Ptrs(t)
  BY <1>1 DEF Typed, IsTable, IsRow
<1> QED
  BY <1>1, <1>2, JoinedLinked

LEMMA StoredTable ==
  ASSUME NEW D, Typed(D), NEW t \in Tables
  PROVE  /\ DOMAIN Stored(D, t) = DOMAIN D[t] /\ Len(Stored(D, t)) = Len(D[t])
         /\ \A i \in DOMAIN D[t] : /\ SameKeys(t, D[t][i], Stored(D, t)[i])
                                   /\ Stored(D, t)[i].ptr = D[t][i].ptr
<1> DEFINE s == [i \in DOMAIN D[t] |-> Record(t, D[t][i])]
<1>1. Len(D[t]) \in Nat /\ DOMAIN D[t] = 1..Len(D[t]) /\ \A i \in DOMAIN D[t] : IsRow(t, D[t][i])
  BY DEF Typed, IsTable, IsList
<1>2. s = [i \in 1..Len(D[t]) |-> s[i]]
  BY <1>1
<1>3. \A i \in DOMAIN D[t] : s[i] = Record(t, D[t][i])
  OBVIOUS
<1>4. Stored(D, t) = ResetAllTables[t] \o s
  BY DEF Stored
<1> HIDE DEF s
<1>5. IsList(s) /\ Len(s) = Len(D[t]) /\ DOMAIN s = DOMAIN D[t]
  BY <1>1, <1>2, FunctionList
<1>6. ResetAllTables[t] = <<>>
  BY DEF ResetAllTables, NoRows
<1>7. Stored(D, t) = s
  BY <1>4, <1>5, <1>6, ConcatList, EmptyList
<1> QED
  BY <1>1, <1>3, <1>5, <1>7, RecordKeeps

LEMMA StoredLinked ==
  ASSUME NEW D, Finished(D), NEW E, E = [t \in Tables |-> Stored(D, t)]
  PROVE  Linked(E) /\ \A t \in Tables : Len(E[t]) = Len(D[t])
<1>1. Joined(D) /\ Typed(D)
  BY DEF Finished, Sound
<1>2. \A t \in Tables : E[t] = Stored(D, t)
  OBVIOUS
<1>3. SameLinks(D, E)
  <2> SUFFICES ASSUME NEW t \in Tables
               PROVE  /\ DOMAIN E[t] = DOMAIN D[t] /\ Len(E[t]) = Len(D[t])
                      /\ \A i \in DOMAIN D[t] : SameKeys(t, D[t][i], E[t][i]) /\ E[t][i].ptr = D[t][i].ptr
    BY DEF SameLinks
  <2> QED
    BY <1>1, <1>2, StoredTable
<1>4. Joined(E)
  BY <1>1, <1>3, JoinedSame
<1>5. \A t \in Tables : \A i \in DOMAIN E[t] : DOMAIN E[t][i].ptr = Ptrs(t)
  BY <1>1, <1>3 DEF Typed, IsTable, IsRow, SameLinks
<1>6. Linked(E)
  BY <1>4, <1>5, JoinedLinked
<1> QED
  BY <1>3, <1>6 DEF SameLinks

\* The database is written in the order the server has, and holds its links.
LEMMA DatabaseWritten ==
  ASSUME Copying, WriteReDB2, at \in Nat
  PROVE  (Served \/ Stopped)' /\ DOMAIN dms' = Tables
<1> DEFINE D == Moved(rows, LogByPh(rows))
           of(t) == [i \in DOMAIN D[t] |-> Record(t, D[t][i])]
<1>1. /\ rows' = D /\ copy' = copy /\ at' = at
      /\ \/ dms' = [t \in Tables |-> Stored(D, t)] /\ pc' = "serving"
         \/ DOMAIN dms' = Tables /\ pc' = "failed"
  <2>1. rows' = D /\ copy' = copy /\ at' = at
    BY DEF WriteReDB2
  <2>2. \/ dms' = [t \in Tables |-> ResetAllTables[t] \o of(t)] /\ pc' = "serving"
        \/ pc' = "failed" /\ \E k \in DOMAIN WriteOrder :
             LET before == {WriteOrder[j] : j \in 1 .. (k - 1)} IN
             \E n \in DOMAIN D[WriteOrder[k]] :
               dms' = [t \in Tables |->
                         ResetAllTables[t] \o
                         CASE t \in before -> of(t)
                           [] t = WriteOrder[k] -> SubSeq(of(t), 1, n - 1)
                           [] OTHER -> <<>>]
    BY DEF WriteReDB2
  <2> HIDE DEF D
  <2>3. [t \in Tables |-> ResetAllTables[t] \o of(t)] = [t \in Tables |-> Stored(D, t)]
    BY DEF Stored
  <2> HIDE DEF of
  <2>4. pc' = "failed" => DOMAIN dms' = Tables
    BY <2>2
  <2> QED
    BY <2>1, <2>2, <2>3, <2>4
<1>2. Typed(rows) /\ Typed(D) /\ \A t \in Tables : Len(D[t]) = Len(rows[t])
  BY Positions, MovedRows DEF Copying, Ended, Sound
<1>3. rows["nd"] # <<>> => Finished(rows) /\ D = rows
  BY OrderedStay DEF Copying, Ended, Finished, Sound
<1>4. D["nd"] # <<>> <=> rows["nd"] # <<>>
  BY <1>2, SameEmpty, SomeKeys
<1> HIDE DEF D
<1>5. CASE pc' = "failed" /\ DOMAIN dms' = Tables
  BY <1>1, <1>2, <1>5 DEF Stopped
<1>6. CASE dms' = [t \in Tables |-> Stored(D, t)] /\ pc' = "serving"
  <2>1. CASE rows["nd"] = <<>>
    BY <1>1, <1>2, <1>4, <1>6, <2>1 DEF Served
  <2>2. CASE rows["nd"] # <<>>
    BY <1>3, <2>2, <1>6, StoredLinked, <1>1, FinishedLinked, <1>2 DEF Copying, Served
  <2>3. DOMAIN dms' = Tables
    BY <1>6
  <2> QED
    BY <2>1, <2>2, <2>3
<1> QED
  BY <1>1, <1>5, <1>6

-----------------------------------------------------------------------------
(* The invariant of the start-up: the phases it goes through.              *)

LEMMA PhaseOf ==
  ASSUME Phases
  PROVE  /\ pc = "ReadPSBOB" => Unread
         /\ pc \in {"ValidateStart", "BuildZones"} => Waiting
         /\ pc \in DOMAIN Left => Running
         /\ pc \in {"find_so", "ReadFromDsbob2"} => AfterPass
         /\ pc = "WriteReDB2" => Copying
         /\ pc = "serving" => Served
         /\ Typed(rows)
<1>1. pc \in DOMAIN Left <=>
        pc \in {"ST_Validate", "ZN_Validate", "CB_Validate", "SWITCH_Validate", "BUS_Validate", "CP_Validate",
                "LD_Validate", "SO_Validate", "SEC_Validate", "R_SEC_FI_Build", "ValidateEnd"}
  BY Calls
<1>2. CASE Running
  BY <1>1, <1>2 DEF Running, Sound
<1>3. CASE Unread \/ Stopped \/ Served
  BY <1>1, <1>3 DEF Unread, Stopped, Served
<1>4. CASE Waiting \/ AfterPass \/ Copying
  BY <1>1, <1>4 DEF Waiting, AfterPass, Copying, Ended, Sound
<1> QED
  BY <1>2, <1>3, <1>4 DEF Phases

LEMMA StartsUnread == Init => IInv
<1> SUFFICES ASSUME Init PROVE IInv
  OBVIOUS
<1>1. DOMAIN dms = Tables /\ DOMAIN copy = Tables
  BY DEF Init, NoRows
<1>2. Typed(rows)
  BY EmptyList DEF Init, NoRows, IsTable, Typed
<1>3. Counts /\ pc = "ReadPSBOB"
  BY <1>1 DEF Init, Counts
<1> QED
  BY <1>2, <1>3 DEF IInv, Phases, Unread

\* The number of errors of a pass is counted in whole numbers.
LEMMA ErrorsCounted ==
  ASSUME NEW s, IsList(s), NEW S \in SUBSET (DOMAIN s)
  PROVE  Cardinality(S) \in Nat
<1>1. Len(s) \in Nat /\ DOMAIN s = 1..Len(s)
  BY DEF IsList
<1>2. IsFiniteSet(1..Len(s))
  BY <1>1, FS_Interval
<1>3. IsFiniteSet(S)
  BY <1>1, <1>2, FS_Subset
<1> QED
  BY <1>3, FS_CardinalityType

LEMMA PhaseKept ==
  ASSUME IInv, Next
  PROVE  Phases' /\ DOMAIN dms' = Tables /\ DOMAIN copy' = Tables /\ at' \in Nat
<1> DEFINE results1 == copy' = copy /\ dms' = dms
<1>1. Counts /\ Phases /\ DOMAIN copy = Tables /\ DOMAIN dms = Tables /\ at \in Nat /\ source \in Sources
  BY DEF IInv, Counts
<1>2. ASSUME Running' \/ Stopped', results1
      PROVE  Phases' /\ DOMAIN dms' = Tables /\ DOMAIN copy' = Tables /\ at' \in Nat
  BY <1>1, <1>2 DEF Phases, Running, Stopped
<1>3. DOMAIN Left = {"ST_Validate", "ZN_Validate", "CB_Validate", "SWITCH_Validate", "BUS_Validate", "CP_Validate",
                     "LD_Validate", "SO_Validate", "SEC_Validate", "R_SEC_FI_Build", "ValidateEnd"}
  BY Calls
<1>4. CASE ReadPSBOB
  BY <1>1, <1>4, ReadingWaits DEF ReadPSBOB, results, Phases
<1>5. CASE ValidateStart
  BY <1>1, <1>5, PhaseOf, <1>2, PassBegins DEF ValidateStart, results
<1>6. CASE ST_Validate \/ ZN_Validate \/ CB_Validate \/ SWITCH_Validate \/ BUS_Validate \/ CP_Validate
  <2>1. pc \in {"ST_Validate", "ZN_Validate", "CB_Validate", "SWITCH_Validate", "BUS_Validate", "CP_Validate"}
        /\ results1
    BY <1>6 DEF ST_Validate, ZN_Validate, CB_Validate, SWITCH_Validate, BUS_Validate, CP_Validate, Loop, Placing, results
  <2>2. Running
    BY <1>1, <1>3, <2>1, PhaseOf
  <2>3. Running' \/ Stopped'
    BY <1>6, <2>2, StationsKept, ZonesKept, BreakersKept, SwitchesKept, BusesKept, CapacitorsKept
  <2> QED
    BY <1>2, <2>1, <2>3
<1>7. CASE LD_Validate \/ SO_Validate \/ SEC_Validate \/ FI_Validate
  <2>1. pc \in {"LD_Validate", "SO_Validate", "SEC_Validate", "R_SEC_FI_Build"} /\ results1
    BY <1>7 DEF LD_Validate, SO_Validate, SEC_Validate, FI_Validate, Placing, results
  <2>2. Running
    BY <1>1, <1>3, <2>1, PhaseOf
  <2>3. Running' \/ Stopped'
    BY <1>7, <2>2, LoadsKept, SourcesKept, SectionsKept, FaultInfosKept
  <2> QED
    BY <1>2, <2>1, <2>3
<1>8. CASE ValidateEnd
  BY <1>8, <1>1, <1>3, PhaseOf, PassEnds DEF ValidateEnd, Phases
<1>9. CASE find_so
  BY <1>9, <1>1, PhaseOf, ZonesBegin DEF find_so, Phases
<1>10. CASE BuildZones
  <2>1. pc = "BuildZones" /\ results1 /\ at' \in {at + 1, 0}
    BY <1>10 DEF BuildZones
  <2>2. Waiting'
    BY <1>1, <1>10, <2>1, PhaseOf, ZonesBuilt
  <2>3. at' \in Nat
    BY <1>1, <2>1
  <2> QED
    BY <1>1, <2>1, <2>2, <2>3 DEF Phases
<1>11. CASE ReadFromDsbob2
  BY <1>11, <1>1, PhaseOf, TablesCopied DEF ReadFromDsbob2, Phases
<1>12. CASE WriteReDB2
  BY <1>12, <1>1, PhaseOf, DatabaseWritten DEF WriteReDB2, Phases
<1> QED
  BY <1>4, <1>5, <1>6, <1>7, <1>8, <1>9, <1>10, <1>11, <1>12 DEF Next

LEMMA CountsKept ==
  ASSUME IInv, Next
  PROVE  source' \in Sources /\ dberrnum' \in Nat /\ statusdb' \in BOOLEAN /\ zones' \in BOOLEAN
<1>1. Counts /\ Phases
  BY DEF IInv
<1>2. source' = source /\ statusdb' \in BOOLEAN /\ zones' \in BOOLEAN
  <2>1. CASE ReadPSBOB \/ ValidateStart \/ ST_Validate \/ ZN_Validate \/ FI_Validate \/ SEC_Validate
    BY <1>1, <2>1 DEF Counts, ReadPSBOB, ValidateStart, ST_Validate, ZN_Validate, FI_Validate, SEC_Validate, results
  <2>2. CASE CB_Validate \/ SWITCH_Validate \/ BUS_Validate \/ CP_Validate \/ LD_Validate \/ SO_Validate
    BY <1>1, <2>2 DEF Counts, CB_Validate, SWITCH_Validate, BUS_Validate, CP_Validate, LD_Validate, SO_Validate,
       Loop, Placing, results
  <2>3. CASE ValidateEnd \/ find_so \/ BuildZones \/ ReadFromDsbob2 \/ WriteReDB2
    BY <1>1, <2>3 DEF Counts, ValidateEnd, find_so, BuildZones, ReadFromDsbob2, WriteReDB2
  <2> QED
    BY <2>1, <2>2, <2>3 DEF Next
<1>3. dberrnum' \in Nat
  <2>1. CASE ReadPSBOB \/ ValidateStart \/ ZN_Validate \/ FI_Validate \/ SEC_Validate \/ CB_Validate \/ SWITCH_Validate
    BY <1>1, <2>1 DEF Counts, ReadPSBOB, ValidateStart, ZN_Validate, FI_Validate, SEC_Validate, CB_Validate,
       SWITCH_Validate, Loop
  <2>2. CASE ST_Validate
    <3> DEFINE S == {i \in DOMAIN rows'["st"] : rows'["st"][i].ptr.r_co = NoRow}
    <3>1. dberrnum' = dberrnum + Cardinality(S)
      BY <2>2 DEF ST_Validate
    <3>2. Running' \/ Stopped'
      <4>1. pc \in DOMAIN Left
        BY <2>2, Calls DEF ST_Validate
      <4> QED
        BY <1>1, <2>2, <4>1, PhaseOf, StationsKept
    <3>3. IsList(rows'["st"])
      BY <3>2, SomeKeys DEF Running, Stopped, Sound, Typed, IsTable
    <3>4. S \in SUBSET (DOMAIN rows'["st"])
      OBVIOUS
    <3> HIDE DEF S
    <3>5. Cardinality(S) \in Nat
      BY <3>3, <3>4, ErrorsCounted
    <3> QED
      BY <1>1, <3>1, <3>5 DEF Counts
  <2>3. CASE BUS_Validate
    <3>1. dberrnum' \in {dberrnum, dberrnum + 1}
      BY <2>3 DEF BUS_Validate
    <3> QED
      BY <1>1, <3>1 DEF Counts
  <2>4. CASE CP_Validate \/ LD_Validate \/ SO_Validate \/ ValidateEnd \/ find_so \/ BuildZones \/ ReadFromDsbob2
             \/ WriteReDB2
    BY <1>1, <2>4 DEF Counts, CP_Validate, LD_Validate, SO_Validate, ValidateEnd, find_so, BuildZones, ReadFromDsbob2,
       WriteReDB2
  <2> QED
    BY <2>1, <2>2, <2>3, <2>4 DEF Next
<1> QED
  BY <1>1, <1>2, <1>3 DEF Counts

LEMMA InvariantKept == IInv /\ [Next]_vars => IInv'
<1> SUFFICES ASSUME IInv, [Next]_vars PROVE IInv'
  OBVIOUS
<1>1. CASE Next
  BY <1>1, PhaseKept, CountsKept DEF IInv, Counts
<1>2. CASE UNCHANGED vars
  <2>1. /\ rows' = rows /\ copy' = copy /\ dms' = dms /\ source' = source /\ dberrnum' = dberrnum
        /\ statusdb' = statusdb /\ zones' = zones /\ pc' = pc /\ at' = at
    BY <1>2 DEF vars
  <2>2. Counts'
    BY <2>1 DEF IInv, Counts
  <2>3. Phases'
    BY <2>1 DEF IInv, Phases, Unread, Waiting, Running, Stopped, AfterPass, Copying, Served
  <2> QED
    BY <2>2, <2>3 DEF IInv
<1> QED
  BY <1>1, <1>2

\* Every position in the tables is a natural number, the tables are never
\* lost, and the start-up is always at one of its calls (DoValidate,
\* find_so, ReadFromDsbob2, WriteReDB2).
THEOREM TypesKept == Spec => []TypeOK
<1>1. IInv => TypeOK
  <2> SUFFICES ASSUME IInv PROVE TypeOK
    OBVIOUS
  <2>1. Typed(rows)
    BY PhaseOf DEF IInv
  <2>2. DOMAIN rows = Tables
    BY <2>1 DEF Typed
  <2>3. \A t \in Tables : \A i \in DOMAIN rows[t] : \A f \in DOMAIN rows[t][i].ptr : rows[t][i].ptr[f] \in Nat
    BY <2>1 DEF Typed, IsTable, IsRow
  <2>4. pc \in {"ReadPSBOB", "ValidateStart", "ST_Validate", "ZN_Validate", "CB_Validate", "SWITCH_Validate",
                "BUS_Validate", "CP_Validate", "LD_Validate", "SO_Validate", "SEC_Validate", "R_SEC_FI_Build",
                "ValidateEnd", "find_so", "BuildZones", "ReadFromDsbob2", "WriteReDB2", "serving", "failed", "exited"}
    <3>1. CASE Running
      BY <3>1, Calls DEF Running
    <3>2. CASE ~Running
      BY <3>2 DEF IInv, Phases, Unread, Waiting, Stopped, AfterPass, Copying, Served
    <3> QED
      BY <3>1, <3>2
  <2> QED
    BY <2>2, <2>3, <2>4 DEF IInv, Counts, TypeOK
<1> QED
  BY <1>1, StartsUnread, InvariantKept, PTL DEF Spec

\* Whatever the database holds, a pass that ends and the start-up that is done
\* leave every pointer at the row it was set to, in the server's tables, in
\* those of the fault processors and in the DMS database (RebuildPtr,
\* operator=, ReadFromDsbob2, WriteReDB2).
THEOREM LinksKept == Spec => []LinksTrue
<1>1. IInv => LinksTrue
  <2> SUFFICES ASSUME IInv PROVE LinksTrue
    OBVIOUS
  <2>1. Passed => Linked(rows)
    <3> SUFFICES ASSUME Passed PROVE Linked(rows)
      OBVIOUS
    <3>1. pc \in {"find_so", "ReadFromDsbob2"} /\ rows["nd"] # <<>>
      BY DEF Passed
    <3>2. AfterPass
      BY <3>1, PhaseOf DEF IInv
    <3> QED
      BY <3>1, <3>2, FinishedLinked DEF AfterPass, Ended
  <2>2. pc = "serving" => Served
    BY PhaseOf DEF IInv
  <2> QED
    BY <2>1, <2>2 DEF LinksTrue, Served
<1> QED
  BY <1>1, StartsUnread, InvariantKept, PTL DEF Spec

-----------------------------------------------------------------------------
(* What a pass has listed so far.                                          *)

-----------------------------------------------------------------------------
(* One step of a pass.                                                     *)

LEMMA NetworkFields ==
  /\ Network \subseteq Components
  /\ \A t \in {"cb", "switch"} : Fields(t) \ {"ptr", "inds"} = {"id", "stid", "nd", "znd"}
  /\ Fields("sec") \ {"ptr", "inds"} = {"id", "nd", "znd", "zn_id"}
  /\ Fields("st") \ {"ptr", "inds"} = {"id", "pid"}
  /\ Fields("bus") \ {"ptr", "inds"} = {"id", "pid", "stid", "nd"}
  /\ Fields("zn") \ {"ptr", "inds"} = {"id", "stid", "nds", "ends"}
  /\ Fields("ld") \ {"ptr", "inds"} = {"id", "stid", "nd", "type", "zn_id"}
  /\ \A t \in {"cb", "switch", "sec"} : {"ind", "iznd"} \subseteq Ptrs(t)
  /\ \A t \in {"bus", "ld"} : "ind" \in Ptrs(t)
BY DEF Network, Components, Fields, FieldNames, Ptrs, PtrNames, Relations

LEMMA TwiceMeans ==
  ASSUME NEW D
  PROVE  ~Twice(D) <=> \A r \in Relations : OnceIn(D, r)
BY DEF Twice, OnceIn

LEMMA ApartKept ==
  ASSUME NEW D, NEW E, Apart(D), RowsHeld(D, E)
  PROVE  Apart(E)
<1>1. \A t \in {"cb", "switch", "sec", "st", "bus", "zn", "cp"} : FieldsHeld(D, E, t)
  BY DEF RowsHeld, Network
<1>2. \A t \in {"cb", "switch", "sec"} :
        /\ DOMAIN E[t] = DOMAIN D[t]
        /\ \A j \in DOMAIN D[t] : E[t][j].nd = D[t][j].nd /\ E[t][j].znd = D[t][j].znd
  BY <1>1, NetworkFields DEF FieldsHeld
<1>3. DOMAIN E["st"] = DOMAIN D["st"] /\ \A j \in DOMAIN D["st"] : E["st"][j].pid = D["st"][j].pid
  BY <1>1, NetworkFields DEF FieldsHeld
<1>4. DOMAIN E["bus"] = DOMAIN D["bus"] /\ \A j \in DOMAIN D["bus"] : E["bus"][j].stid = D["bus"][j].stid
  BY <1>1, NetworkFields DEF FieldsHeld
<1>5. DOMAIN E["zn"] = DOMAIN D["zn"] /\ \A j \in DOMAIN D["zn"] : E["zn"][j].nds = D["zn"][j].nds
  BY <1>1, NetworkFields DEF FieldsHeld
<1>6. DOMAIN E["cp"] = DOMAIN D["cp"]
  BY <1>1 DEF FieldsHeld
<1>7. \A t \in {"cb", "switch", "sec"} : \A j \in DOMAIN E[t] : E[t][j].nd # E[t][j].znd
  BY <1>2 DEF Apart
<1>8. \A i, j \in DOMAIN E["st"] : E["st"][i].pid = E["st"][j].pid => i = j
  BY <1>3 DEF Apart
<1>9. \A j \in DOMAIN E["bus"] : \E i \in DOMAIN E["st"] : E["st"][i].pid = E["bus"][j].stid
  BY <1>3, <1>4 DEF Apart
<1>10. ASSUME NEW z \in DOMAIN E["zn"], NEW m \in DOMAIN E["zn"][z].nds, NEW n \in DOMAIN E["zn"][z].nds,
              E["zn"][z].nds[m] = E["zn"][z].nds[n]
       PROVE  m = n
  <2>1. z \in DOMAIN D["zn"] /\ E["zn"][z].nds = D["zn"][z].nds
    BY <1>5
  <2> QED
    BY <1>10, <2>1 DEF Apart
<1> QED
  BY <1>6, <1>7, <1>8, <1>9, <1>10 DEF Apart

\* A list of branches depends on its rows and on the nodes of the branches.
LEMMA BranchesSame ==
  ASSUME NEW D, NEW E, NEW t \in {"cb", "switch", "sec"}, NEW r, NEW S \in SUBSET (DOMAIN D[t]),
         BranchesListed(D, t, r, S), FieldsHeld(D, E, t), NodesHeld(D, E, t), PairsOf(E, r) = PairsOf(D, r)
  PROVE  BranchesListed(E, t, r, S)
<1>1. {"id", "nd", "znd"} \subseteq Fields(t) \ {"ptr", "inds"} /\ {"ind", "iznd"} \subseteq Ptrs(t)
  BY NetworkFields
<1>2. \A j \in DOMAIN D[t] : E[t][j].id = D[t][j].id /\ E[t][j].nd = D[t][j].nd /\ E[t][j].znd = D[t][j].znd
  BY <1>1 DEF FieldsHeld
<1>3. \A j \in DOMAIN D[t] :
        E[t][j].ptr["ind"] = D[t][j].ptr["ind"] /\ E[t][j].ptr["iznd"] = D[t][j].ptr["iznd"]
  BY <1>1 DEF NodesHeld
<1>4. \A j \in DOMAIN D[t] : (BothSet(E[t][j]) <=> BothSet(D[t][j])) /\ EndPairs(E[t][j]) = EndPairs(D[t][j])
  BY <1>2, <1>3 DEF BothSet, EndPairs
<1>5. {k \in S : BothSet(E[t][k])} = {k \in S : BothSet(D[t][k])}
  BY <1>4
<1>6. {EndPairs(E[t][j]) : j \in {k \in S : BothSet(E[t][k])}} = {EndPairs(D[t][j]) : j \in {k \in S : BothSet(D[t][k])}}
  BY <1>4, <1>5
<1> QED
  BY <1>3, <1>6 DEF BranchesListed, FieldsHeld

LEMMA NodeSetOnly ==
  ASSUME NEW D, NEW W, Ready(D, W), NEW t, NEW i, NEW f, NEW id, NodeKey(D, t, i, f, id)
  PROVE  NodeOnly(D, OnNode(D, t, i, f, id), t, i, f)
<1> DEFINE F == ND_Insert(D, id)
           p == PosOf(id, "nd", F)
           E == OnNode(D, t, i, f, id)
<1>1. t \in Components /\ t \in Tables /\ t # "nd" /\ "nd" \in Tables /\ f \in Ptrs(t) /\ i \in DOMAIN D[t]
  BY DEF NodeKey, Placed, Components, Tables
<1>2. id \in Nat
  <2>1. IsRow(t, D[t][i]) /\ "nd" \in Keys(t) /\ (f = "iznd" => "znd" \in Keys(t))
    <3>1. "nd" \in Keys(t)
      BY DEF NodeKey, Placed, Keys, Fields, FieldNames, Relations
    <3>2. f = "iznd" => "znd" \in Keys(t)
      BY DEF NodeKey, Placed, Keys, Fields, FieldNames, Ptrs, PtrNames, Relations
    <3> QED
      BY <1>1, <3>1, <3>2 DEF Ready, Sound, Typed, IsTable
  <2> QED
    BY <2>1 DEF IsRow, NodeKey
<1>3. Elsewhere(D, F, {"nd"}) /\ Going(D, F, W) /\ p \in DOMAIN F["nd"]
  BY <1>2, NodeInserted DEF Ready
<1>4. E = [F EXCEPT ![t] = [F[t] EXCEPT ![i].ptr[f] = p]]
  <2>1. E = [F EXCEPT ![t][i].ptr[f] = p]
    BY DEF OnNode
  <2> HIDE DEF E, F, p
  <2> QED
    BY <2>1
<1> HIDE DEF E, F, p
<1>5. F[t] = D[t] /\ Typed(F) /\ IsTable(t, D[t])
  BY <1>1, <1>3 DEF Elsewhere, Going, Sound, Typed
<1>6. p \in Nat /\ p # NoRow
  BY <1>1, <1>3, <1>5 DEF Typed, IsTable, IsList, NoRow
<1>7. E[t] = PtrSet(D[t], i, f, p) /\ \A u \in Tables \ {t} : E[u] = F[u]
  BY <1>1, <1>4, <1>5 DEF Typed, PtrSet
<1>8. /\ DOMAIN E[t] = DOMAIN D[t]
      /\ \A j \in DOMAIN D[t] : j # i => E[t][j] = D[t][j]
      /\ \A g \in Fields(t) \ {"ptr"} : E[t][i][g] = D[t][i][g]
      /\ \A g \in Ptrs(t) \ {f} : E[t][i].ptr[g] = D[t][i].ptr[g]
      /\ E[t][i].ptr[f] = p
  BY <1>1, <1>5, <1>6, <1>7, SetPtr
<1>9. Elsewhere(D, E, {"nd", t})
  BY <1>3, <1>7 DEF Elsewhere
<1> QED
  BY <1>6, <1>8, <1>9 DEF NodeOnly, E

\* A row is put into a relation that has none for its ends.
LEMMA PairAdded ==
  ASSUME NEW D, Typed(D), NEW E, NEW W, NEW r \in Relations, NEW n, NEW t, NEW i,
         RowIsIn(D, E, W, r), RowIsLast(D, E, r, n, t, i)
  PROVE  LET q == <<D["nd"][n].id, D[t][i].id>>
         IN  /\ PairsOf(E, r) = PairsOf(D, r) \cup {q}
             /\ ~Twice(D) /\ q \notin PairsOf(D, r) => ~Twice(E)
<1> DEFINE q == <<D["nd"][n].id, D[t][i].id>>
           k == Len(D[r]) + 1
<1>1. /\ DOMAIN E[r] = DOMAIN D[r] \cup {k} /\ k \notin DOMAIN D[r]
      /\ E[r][k].par = D["nd"][n].id /\ E[r][k].chi = D[t][i].id
  BY DEF RowIsLast
<1> HIDE DEF k
<1>2. \A j \in DOMAIN D[r] : E[r][j].par = D[r][j].par /\ E[r][j].chi = D[r][j].chi
  <2>1. {"par", "chi"} \subseteq Keys(r) /\ r \in Tables
    BY RelationNames, TableNames
  <2> QED
    BY <2>1 DEF RowIsIn, Going, Grows, SameKeys
<1>3. PairsOf(E, r) = PairsOf(D, r) \cup {q}
  <2>1. \A j \in DOMAIN D[r] : <<E[r][j].par, E[r][j].chi>> = <<D[r][j].par, D[r][j].chi>>
    BY <1>2
  <2>2. <<E[r][k].par, E[r][k].chi>> = q
    BY <1>1
  <2>3. \A x : x \in PairsOf(E, r) <=> \E j \in DOMAIN E[r] : x = <<E[r][j].par, E[r][j].chi>>
    BY DEF PairsOf
  <2>4. \A x : x \in PairsOf(D, r) <=> \E j \in DOMAIN D[r] : x = <<D[r][j].par, D[r][j].chi>>
    BY DEF PairsOf
  <2> HIDE DEF q
  <2> QED
    BY <1>1, <2>1, <2>2, <2>3, <2>4
<1>4. ASSUME ~Twice(D), q \notin PairsOf(D, r) PROVE ~Twice(E)
  <2>1. \A v \in Relations \ {r} : E[v] = D[v]
    BY TableNames DEF RowIsIn, Elsewhere
  <2>2. \A v \in Relations \ {r} : OnceIn(E, v)
    BY <1>4, <2>1, TwiceMeans DEF OnceIn
  <2>3. \A j \in DOMAIN D[r] : ~(D[r][j].par = D["nd"][n].id /\ D[r][j].chi = D[t][i].id)
    BY <1>4 DEF PairsOf
  <2>4. OnceIn(D, r)
    BY <1>4, TwiceMeans
  <2>5. OnceIn(E, r)
    BY <1>1, <1>2, <2>3, <2>4 DEF OnceIn
  <2> QED
    BY <2>2, <2>5, TwiceMeans
<1> QED
  BY <1>3, <1>4

LEMMA BranchTurn ==
  ASSUME NEW D, NEW W, Ready(D, W), NEW t, NEW r, NEW f, <<t, r, f>> \in Branches, r \notin W,
         NEW i \in DOMAIN D[t], ~Twice(D), NEW S \in SUBSET (DOMAIN D[t]), i \notin S, BranchesListed(D, t, r, S),
         D[t][i].nd # D[t][i].znd
  PROVE  BranchDone(D, BothEnds(D, t, i, r, f), t, r, S, i)
<1> DEFINE near == OnNode(D, t, i, "ind", D[t][i].nd)
           far == OnNode(near, t, i, "iznd", near[t][i].znd)
           n == far[t][i].ptr["ind"]
           z == far[t][i].ptr["iznd"]
           one == ND_BR_Insert(far, r, f, n, t, i)
           two == ND_BR_Insert(one, r, f, z, t, i)
           row == D[t][i]
           Listed == UNION {EndPairs(D[t][j]) : j \in {k \in S : BothSet(D[t][k])}}
<1>1. /\ t \in Placed /\ t \in Tables \ {"nd", r} /\ t \in Components /\ r \in Relations /\ r # "nd"
      /\ "ind" \in Ptrs(t) /\ "iznd" \in Ptrs(t) /\ "znd" \in Keys(t) /\ "nd" \in Tables /\ r \in Tables
      /\ f \in DOMAIN ND_RebuildPtr /\ r = ND_RebuildPtr[f] /\ t = RelationEnds[r][2]
      /\ {"id", "nd", "znd"} \subseteq Fields(t) \ {"ptr"} /\ t \in {"cb", "switch", "sec"}
  <2>1. t \in {"cb", "switch", "sec"} /\ r \in Relations /\ r # "nd"
    BY DEF Branches, Relations
  <2>2. {"id", "nd", "znd"} \subseteq Fields(t) \ {"ptr"} /\ t \in Components
    BY <2>1, NetworkFields DEF Components
  <2> QED
    BY <2>1, <2>2, BranchNames, TableNames
<1>2. Typed(D) /\ IsTable(t, D[t])
  BY <1>1 DEF Ready, Sound, Typed
<1>3. NodeKey(D, t, i, "ind", D[t][i].nd)
  BY <1>1 DEF NodeKey
<1>4. NodeIsSet(D, near, W, t, i, "ind") /\ NodeOnly(D, near, t, i, "ind")
  BY SMTT(40), <1>3, SetToNode, NodeSetOnly
<1>5. near[t][i].znd = row.znd /\ near[t][i].id = row.id /\ near[t][i].nd = row.nd
  BY <1>1, <1>4 DEF NodeOnly
<1>6. BothEnds(D, t, i, r, f) =
        IF Full(D, row.nd) THEN D ELSE IF Full(near, row.znd) THEN near ELSE two
  BY <1>5 DEF BothEnds
<1> HIDE DEF near
<1>7. Ready(near, W) /\ Going(D, near, W) /\ i \in DOMAIN near[t]
  BY <1>4, StillReady DEF NodeIsSet, NodeOnly
<1>8. NodeKey(near, t, i, "iznd", near[t][i].znd)
  BY <1>1, <1>7 DEF NodeKey
<1>9. NodeIsSet(near, far, W, t, i, "iznd") /\ NodeOnly(near, far, t, i, "iznd")
  BY <1>7, <1>8, SetToNode, NodeSetOnly
<1> HIDE DEF far
<1>10. /\ Going(near, far, W) /\ z \in DOMAIN far["nd"] /\ DOMAIN far[t] = DOMAIN near[t]
       /\ n = near[t][i].ptr["ind"] /\ Ready(far, W) /\ i \in DOMAIN far[t]
  <2>1. "ind" \in Ptrs(t) \ {"iznd"}
    BY <1>1
  <2> QED
    BY <1>7, <1>9, <2>1, StillReady DEF NodeIsSet
<1>11. n \in DOMAIN far["nd"]
  BY SMTT(40), <1>1, <1>4, <1>10 DEF NodeIsSet, Going, Grows
<1>12. /\ far[t][i].znd = row.znd /\ far[t][i].id = row.id /\ far[t][i].nd = row.nd
       /\ n # NoRow /\ z # NoRow
  BY <1>1, <1>4, <1>5, <1>9, <1>10 DEF NodeOnly
<1>13. far["nd"][n].id = row.nd /\ far["nd"][z].id = row.znd
  <2>1. /\ "ind" \in DOMAIN Conversions[t] /\ Conversions[t]["ind"] = "nd"
        /\ "iznd" \in DOMAIN Conversions[t] /\ Conversions[t]["iznd"] = "nd"
    BY <1>1 DEF Conversions, CB_RebuildPtr, SWITCH_RebuildPtr, SEC_RebuildPtr
  <2>2. PtrTrue(far, t, i, "ind") /\ PtrTrue(far, t, i, "iznd")
    BY <1>1, <1>10, <2>1 DEF Ready, PassTrue, PtrsTrue, Old
  <2>3. t # "r_zn_nd" /\ t # "nd"
    BY <1>1
  <2> QED
    BY <1>12, <2>1, <2>2, <2>3 DEF PtrTrue, Leads
<1>14. RowPlace(far, r, f, n, t, i)
  BY <1>1, <1>10, <1>11 DEF RowPlace
<1> HIDE DEF n, z
<1>15. RowIsIn(far, one, W, r) /\ RowIsLast(far, one, r, n, t, i)
  BY <1>10, <1>14, RowPut
<1> HIDE DEF one
<1>16. Going(far, one, W) /\ one[t] = far[t] /\ DOMAIN one["nd"] = DOMAIN far["nd"] /\ Ready(one, W)
  BY <1>1, <1>10, <1>15, StillReady DEF RowIsIn, Elsewhere
<1>17. RowPlace(one, r, f, z, t, i)
  BY <1>10, <1>14, <1>16 DEF RowPlace
<1>18. RowIsIn(one, two, W, r) /\ RowIsLast(one, two, r, z, t, i)
  BY <1>16, <1>17, RowPut
<1> HIDE DEF two
<1>19. one["nd"][z].id = row.znd /\ one[t][i].id = row.id
  BY SomeKeys, <1>1, <1>10, <1>16, <1>12, <1>13 DEF Going, Grows, SameKeys
<1>20. PairsOf(D, r) = Listed /\ \A j \in DOMAIN D[t] \ S : D[t][j].ptr["ind"] = NoRow /\ D[t][j].ptr["iznd"] = NoRow
  BY DEF BranchesListed
<1>21. row.ptr["ind"] = NoRow /\ row.ptr["iznd"] = NoRow
  BY <1>20
\* What is listed for the others when the row at i has come to be new.
<1>22. ASSUME NEW E, DOMAIN E[t] = DOMAIN D[t], \A j \in DOMAIN D[t] \ {i} : E[t][j] = D[t][j],
              PairsOf(E, r) = Listed \cup IF BothSet(E[t][i]) THEN EndPairs(E[t][i]) ELSE {}
       PROVE  BranchesListed(E, t, r, S \cup {i})
  <2>1. \A j \in S : E[t][j] = D[t][j]
    BY <1>22
  <2>2. Listed = UNION {EndPairs(E[t][j]) : j \in {k \in S : BothSet(E[t][k])}}
    BY <2>1
  <2>3. UNION {EndPairs(E[t][j]) : j \in {k \in S \cup {i} : BothSet(E[t][k])}}
          = (UNION {EndPairs(E[t][j]) : j \in {k \in S : BothSet(E[t][k])}})
              \cup IF BothSet(E[t][i]) THEN EndPairs(E[t][i]) ELSE {}
    OBVIOUS
  <2>4. \A j \in DOMAIN E[t] \ (S \cup {i}) : E[t][j].ptr["ind"] = NoRow /\ E[t][j].ptr["iznd"] = NoRow
    BY <1>20, <1>22
  <2> QED
    BY <1>22, <2>2, <2>3, <2>4 DEF BranchesListed
<1>23. \A q \in Listed : q[2] # row.id
  <2> SUFFICES ASSUME NEW j \in S, NEW q \in EndPairs(D[t][j])
               PROVE  q[2] # row.id
    OBVIOUS
  <2>1. q[2] = D[t][j].id
    BY DEF EndPairs
  <2>2. j \in DOMAIN D[t] /\ j # i
    OBVIOUS
  <2> QED
    BY <1>1, <2>1, <2>2 DEF Ready, Sound, UniqueIds
<1> HIDE DEF Listed
<1>24. Elsewhere(D, near, {"nd", t}) /\ Elsewhere(near, far, {"nd", t})
  BY <1>4, <1>9 DEF NodeOnly
<1>25. \A v \in Relations : near[v] = D[v] /\ far[v] = D[v]
  <2>1. \A v \in Relations : v \in Tables \ {"nd", t}
    BY <1>1, TableNames
  <2> QED
    BY <1>24, <2>1 DEF Elsewhere
<1>26. ~Twice(near) /\ ~Twice(far) /\ PairsOf(near, r) = Listed /\ PairsOf(far, r) = Listed
  <2>1. \A v \in Relations : OnceIn(near, v) /\ OnceIn(far, v)
    BY <1>25, TwiceMeans DEF OnceIn
  <2> QED
    BY <1>1, <1>20, <1>25, <2>1, TwiceMeans DEF PairsOf
<1>27. CASE BothEnds(D, t, i, r, f) = D
  <2>1. BranchesListed(D, t, r, S \cup {i})
    BY <1>20, <1>21, <1>22 DEF BothSet
  <2> QED
    BY <1>27, <2>1 DEF BranchDone, Elsewhere
<1>28. CASE BothEnds(D, t, i, r, f) = near
  <2>1. near[t][i].ptr["iznd"] = NoRow
    BY <1>1, <1>4, <1>21 DEF NodeOnly
  <2>2. BranchesListed(near, t, r, S \cup {i})
    BY <1>4, <1>22, <1>26, <2>1 DEF BothSet, NodeOnly
  <2>3. \A j \in DOMAIN D[t] : \A g \in Fields(t) \ {"ptr"} : near[t][j][g] = D[t][j][g]
    BY <1>4 DEF NodeOnly
  <2>4. Elsewhere(D, near, {"nd", r, t}) /\ DOMAIN near[t] = DOMAIN D[t]
    BY <1>4, <1>24 DEF Elsewhere, NodeOnly
  <2> QED
    BY <1>4, <1>26, <1>28, <2>2, <2>3, <2>4 DEF BranchDone, NodeOnly
<1>29. CASE BothEnds(D, t, i, r, f) = two
  <2> DEFINE q1 == <<row.nd, row.id>>
             q2 == <<row.znd, row.id>>
  <2>1. two[t] = far[t] /\ Elsewhere(far, one, {"nd", r}) /\ Elsewhere(one, two, {"nd", r})
    BY <1>1, <1>15, <1>16, <1>18 DEF RowIsIn, Elsewhere
  <2>2. Elsewhere(D, two, {"nd", r, t})
    BY <1>24, <2>1 DEF Elsewhere
  <2>3. PairsOf(one, r) = Listed \cup {q1} /\ ~Twice(one)
    <3>1. Typed(far) /\ <<far["nd"][n].id, far[t][i].id>> = q1
      BY <1>10, <1>12, <1>13 DEF Ready, Sound
    <3>2. q1 \notin Listed
      BY <1>23
    <3> HIDE DEF q1
    <3> QED
      BY <1>1, <1>15, <1>26, <3>1, <3>2, PairAdded
  <2>4. PairsOf(two, r) = Listed \cup {q1, q2} /\ ~Twice(two)
    <3>1. Typed(one) /\ <<one["nd"][z].id, one[t][i].id>> = q2
      BY <1>16, <1>19 DEF Ready, Sound
    <3>2. q2 \notin Listed /\ q1 # q2
      BY <1>23
    <3> HIDE DEF q1, q2
    <3> QED
      BY <1>1, <1>18, <2>3, <3>1, <3>2, PairAdded
  <2>5. /\ DOMAIN far[t] = DOMAIN D[t]
        /\ \A j \in DOMAIN D[t] \ {i} : far[t][j] = D[t][j]
        /\ \A g \in Fields(t) \ {"ptr"} : far[t][i][g] = D[t][i][g]
    BY <1>4, <1>9 DEF NodeOnly
  <2>6. far[t][i].ptr["ind"] # NoRow /\ far[t][i].ptr["iznd"] # NoRow
    BY <1>12 DEF n, z
  <2>7. BothSet(two[t][i]) /\ EndPairs(two[t][i]) = {q1, q2}
    BY <1>12, <2>1, <2>6 DEF BothSet, EndPairs
  <2>8. BranchesListed(two, t, r, S \cup {i})
    <3> HIDE DEF q1, q2
    <3> QED
      BY <1>22, <2>1, <2>4, <2>5, <2>7
  <2>9. /\ \A j \in DOMAIN D[t] : \A g \in Fields(t) \ {"ptr"} : two[t][j][g] = D[t][j][g]
        /\ \A j \in DOMAIN D[t] \ {i} : two[t][j] = D[t][j]
    BY <2>1, <2>5
  <2> QED
    BY <1>29, <2>1, <2>2, <2>4, <2>5, <2>8, <2>9 DEF BranchDone
<1> QED
  BY <1>6, <1>27, <1>28, <1>29

LEMMA LoadTurn ==
  ASSUME NEW D, NEW W, Ready(D, W), "r_nd_ld" \notin W, NEW i \in DOMAIN D["ld"], ~Twice(D),
         NEW S \in SUBSET (DOMAIN D["ld"]), i \notin S, LoadsListed(D, S), HasOwner(D["ld"][i])
  PROVE  LoadDone(D, OneEnd(D, "ld", i, "r_nd_ld", "r_ld"), S, i)
<1> DEFINE on == OnNode(D, "ld", i, "ind", D["ld"][i].nd)
           n == on["ld"][i].ptr["ind"]
           E == ND_BR_Insert(on, "r_nd_ld", "r_ld", n, "ld", i)
           row == D["ld"][i]
           Listed == {<<D["ld"][j].nd, D["ld"][j].id>> : j \in {k \in S : HasOwner(D["ld"][k])}}
<1>1. /\ "ld" \in Placed /\ "ld" \in Components /\ {"ld", "nd", "r_nd_ld"} \subseteq Tables /\ "r_nd_ld" \in Relations
      /\ "r_ld" \in DOMAIN ND_RebuildPtr /\ "r_nd_ld" = ND_RebuildPtr["r_ld"] /\ "ld" = RelationEnds["r_nd_ld"][2]
      /\ "ind" \in Ptrs("ld") /\ {"r_st", "r_zn"} \subseteq Ptrs("ld") \ {"ind"}
      /\ Fields("ld") = {"id", "stid", "nd", "type", "zn_id", "ptr"}
  <2>1. <<"ld", "r_nd_ld", "r_ld">> \in Branches \cup Places
    BY DEF Places
  <2>2. {"r_st", "r_zn"} \subseteq Ptrs("ld") \ {"ind"} /\ Fields("ld") = {"id", "stid", "nd", "type", "zn_id", "ptr"}
    BY DEF Ptrs, PtrNames, Fields, FieldNames, Relations
  <2>3. "ld" \in Components /\ {"ld", "nd", "r_nd_ld"} \subseteq Tables /\ "r_nd_ld" \in Relations
    BY DEF Tables, Components, Relations
  <2> QED
    BY <2>1, <2>2, <2>3, BranchNames
<1>2. NodeKey(D, "ld", i, "ind", row.nd)
  BY <1>1 DEF NodeKey
<1>3. NodeIsSet(D, on, W, "ld", i, "ind") /\ NodeOnly(D, on, "ld", i, "ind")
  BY <1>2, SetToNode, NodeSetOnly
<1>4. OneEnd(D, "ld", i, "r_nd_ld", "r_ld") = E
  BY DEF OneEnd
<1> HIDE DEF on, E
<1>5. Ready(on, W) /\ n \in DOMAIN on["nd"] /\ i \in DOMAIN on["ld"] /\ Going(D, on, W)
  BY <1>3, StillReady DEF NodeIsSet, NodeOnly
<1>6. /\ FieldsHeld(D, on, "ld") /\ OwnersHeld(D, on)
      /\ \A j \in DOMAIN D["ld"] : on["ld"][j].nd = D["ld"][j].nd /\ on["ld"][j].id = D["ld"][j].id
  <2>1. \A j \in DOMAIN D["ld"] : \A g \in Fields("ld") \ {"ptr"} : on["ld"][j][g] = D["ld"][j][g]
    BY <1>3 DEF NodeOnly
  <2>2. \A j \in DOMAIN D["ld"] : \A g \in {"r_st", "r_zn"} : on["ld"][j].ptr[g] = D["ld"][j].ptr[g]
    BY <1>1, <1>3 DEF NodeOnly
  <2>3. \A j \in DOMAIN D["ld"] : on["ld"][j].type = D["ld"][j].type
    BY <1>1, <2>1
  <2>4. OwnersHeld(D, on)
    BY <2>2, <2>3 DEF OwnersHeld, HasOwner
  <2> QED
    BY <1>1, <1>3, <2>1, <2>4 DEF FieldsHeld, NodeOnly
<1>7. on["nd"][n].id = row.nd
  <2>1. "ind" \in DOMAIN Conversions["ld"] /\ Conversions["ld"]["ind"] = "nd"
    BY DEF Conversions, LD_RebuildPtr
  <2>2. PtrTrue(on, "ld", i, "ind")
    BY <1>1, <1>5, <2>1 DEF Ready, PassTrue, PtrsTrue, Old
  <2>3. n # NoRow
    BY <1>3 DEF NodeOnly
  <2> QED
    BY <1>6, <2>1, <2>2, <2>3 DEF PtrTrue, Leads
<1>8. RowPlace(on, "r_nd_ld", "r_ld", n, "ld", i)
  BY <1>1, <1>5 DEF RowPlace
<1> HIDE DEF n
<1>9. RowIsIn(on, E, W, "r_nd_ld") /\ RowIsLast(on, E, "r_nd_ld", n, "ld", i)
  BY <1>5, <1>8, RowPut DEF E
<1>10. E["ld"] = on["ld"] /\ Elsewhere(D, E, {"nd", "ld", "r_nd_ld"})
  <2>1. "ld" \in Tables \ {"nd", "r_nd_ld"}
    BY <1>1
  <2> QED
    BY <1>3, <1>9, <2>1 DEF RowIsIn, Elsewhere, NodeOnly
<1>11. \A v \in Relations : on[v] = D[v]
  <2>1. \A v \in Relations : v \in Tables \ {"nd", "ld"}
    BY <1>1, TableNames
  <2> QED
    BY <1>3, <2>1 DEF Elsewhere, NodeOnly
<1>12. ~Twice(on) /\ PairsOf(on, "r_nd_ld") = Listed
  <2>1. \A v \in Relations : OnceIn(on, v)
    BY <1>11, TwiceMeans DEF OnceIn
  <2> QED
    BY <1>1, <1>11, <2>1, TwiceMeans DEF PairsOf, LoadsListed
<1>13. <<row.nd, row.id>> \notin Listed
  <2> SUFFICES ASSUME NEW j \in S PROVE D["ld"][j].id # row.id
    OBVIOUS
  <2>1. j \in DOMAIN D["ld"] /\ j # i
    OBVIOUS
  <2> QED
    BY <1>1, <2>1 DEF Ready, Sound, UniqueIds
<1>14. PairsOf(E, "r_nd_ld") = Listed \cup {<<row.nd, row.id>>} /\ ~Twice(E)
  <2> DEFINE q == <<row.nd, row.id>>
  <2>1. Typed(on) /\ <<on["nd"][n].id, on["ld"][i].id>> = q
    BY <1>5, <1>6, <1>7 DEF Ready, Sound
  <2> HIDE DEF q, Listed
  <2>2. q \notin Listed
    BY <1>13 DEF q
  <2>3. PairsOf(E, "r_nd_ld") = Listed \cup {q} /\ ~Twice(E)
    BY <1>1, <1>9, <1>12, <2>1, <2>2, PairAdded
  <2> QED
    BY <2>3 DEF q
<1>15. LoadsListed(E, S \cup {i})
  BY <1>6, <1>10, <1>14 DEF OwnersHeld, LoadsListed
<1> QED
  BY <1>4, <1>6, <1>10, <1>14, <1>15 DEF LoadDone, FieldsHeld, OwnersHeld

LEMMA WholeBuilt ==
  ASSUME NEW D, Sound(D), ~Twice(D), NEW r, NEW p, NEW pf, NEW c, NEW cf, IsBuild(r, p, pf, c, cf),
         NEW M \in SUBSET ((DOMAIN D[p]) \X (DOMAIN D[c]))
  PROVE  BuildDone(D, Related(D, r, p, pf, c, cf, M), r, p, pf, c, cf, M)
<1> DEFINE E == Related(D, r, p, pf, c, cf, M)
<1>1. r \in Relations /\ p \in Components /\ c \in Components /\ p # c /\ pf \in Ptrs(p) /\ cf \in Ptrs(c)
  BY RelationConversions DEF IsBuild, Linking
<1>2. /\ Typed(E) /\ \A t \in Tables \ {r, p, c} : E[t] = D[t]
      /\ OnlyPtr(D, E, p, pf) /\ OnlyPtr(D, E, c, cf)
      /\ RelatedTo(D, E, r, p, c, M) /\ LedTo(D, E, r, c, cf, "chiptr")
  BY <1>1, RelatedRows DEF Sound
<1> HIDE DEF E
<1> DEFINE Of(k) == <<E[r][k].ptr.parptr, E[r][k].ptr.chiptr>>
<1>3. /\ \A k \in DOMAIN E[r] : /\ Of(k) \in M
                                /\ E[r][k].par = D[p][Of(k)[1]].id /\ E[r][k].chi = D[c][Of(k)[2]].id
      /\ \A m \in M : \E k \in DOMAIN E[r] : Of(k) = m
      /\ \A k, l \in DOMAIN E[r] : Of(k) = Of(l) => k = l
  BY <1>2 DEF RelatedTo
<1>4. \A k \in DOMAIN E[r] : E[r][k].ptr.chiptr = Of(k)[2]
  OBVIOUS
<1> HIDE DEF Of
<1>5. PairsOf(E, r) = {<<D[p][m[1]].id, D[c][m[2]].id>> : m \in M}
  BY <1>3 DEF PairsOf
<1>6. OnceIn(E, r)
  <2> SUFFICES ASSUME NEW k \in DOMAIN E[r], NEW l \in DOMAIN E[r], E[r][k].par = E[r][l].par, E[r][k].chi = E[r][l].chi
               PROVE  k = l
    BY DEF OnceIn
  <2>1. Of(k)[1] \in DOMAIN D[p] /\ Of(l)[1] \in DOMAIN D[p] /\ Of(k)[2] \in DOMAIN D[c] /\ Of(l)[2] \in DOMAIN D[c]
        /\ Of(k) = <<Of(k)[1], Of(k)[2]>> /\ Of(l) = <<Of(l)[1], Of(l)[2]>>
    BY <1>3
  <2>2. D[p][Of(k)[1]].id = D[p][Of(l)[1]].id /\ D[c][Of(k)[2]].id = D[c][Of(l)[2]].id
    BY <1>3
  <2>3. Of(k)[1] = Of(l)[1] /\ Of(k)[2] = Of(l)[2]
    BY <1>1, <2>1, <2>2 DEF Sound, UniqueIds
  <2> QED
    BY <1>3, <2>1, <2>3
<1>7. ~Twice(E)
  <2>1. \A v \in Relations \ {r} : E[v] = D[v]
    BY <1>1, <1>2, TableNames
  <2>2. \A v \in Relations \ {r} : OnceIn(E, v)
    BY <2>1, TwiceMeans DEF OnceIn
  <2> QED
    BY <1>6, <2>2, TwiceMeans
<1>8. ASSUME NEW j \in DOMAIN D[c]
      PROVE  \/ E[c][j].ptr[cf] = D[c][j].ptr[cf] /\ \A m \in M : m[2] # j
             \/ E[c][j].ptr[cf] # NoRow /\ \E m \in M : m[2] = j
  <2>1. CASE E[c][j].ptr[cf] = D[c][j].ptr[cf] /\ \A k \in DOMAIN E[r] : E[r][k].ptr["chiptr"] # j
    BY <1>3, <1>4, <2>1
  <2>2. CASE E[c][j].ptr[cf] \in DOMAIN E[r] /\ E[r][E[c][j].ptr[cf]].ptr["chiptr"] = j
    <3>1. 0 \notin DOMAIN E[r]
      BY <1>1, <1>2, TableNames DEF Typed, IsTable, IsList
    <3> QED
      BY <1>3, <1>4, <2>2, <3>1 DEF NoRow
  <2> QED
    BY <1>2, <2>1, <2>2 DEF LedTo
<1> QED
  BY <1>2, <1>5, <1>7, <1>8 DEF BuildDone, E

-----------------------------------------------------------------------------
(* The lists through a step.                                               *)

LEMMA LoadsSame ==
  ASSUME NEW D, NEW E, NEW S \in SUBSET (DOMAIN D["ld"]), LoadsListed(D, S), FieldsHeld(D, E, "ld"),
         OwnersHeld(D, E) \/ S = {}, PairsOf(E, "r_nd_ld") = PairsOf(D, "r_nd_ld")
  PROVE  LoadsListed(E, S)
<1>1. \A j \in DOMAIN D["ld"] : E["ld"][j].nd = D["ld"][j].nd /\ E["ld"][j].id = D["ld"][j].id
  BY NetworkFields DEF FieldsHeld
<1>2. {k \in S : HasOwner(E["ld"][k])} = {k \in S : HasOwner(D["ld"][k])}
  BY DEF OwnersHeld
<1>3. {<<E["ld"][j].nd, E["ld"][j].id>> : j \in {k \in S : HasOwner(E["ld"][k])}}
        = {<<D["ld"][j].nd, D["ld"][j].id>> : j \in {k \in S : HasOwner(D["ld"][k])}}
  BY <1>1, <1>2
<1> QED
  BY <1>3 DEF LoadsListed

LEMMA OwnedSame ==
  ASSUME NEW D, NEW E, LoadsOwned(D), FieldsHeld(D, E, "ld"), OwnersHeld(D, E),
         PairsOf(E, "r_st_ld") = PairsOf(D, "r_st_ld"), PairsOf(E, "r_zn_ld") = PairsOf(D, "r_zn_ld")
  PROVE  LoadsOwned(E)
<1>1. DOMAIN E["ld"] = DOMAIN D["ld"] /\ \A j \in DOMAIN D["ld"] : E["ld"][j].id = D["ld"][j].id
  BY NetworkFields DEF FieldsHeld
<1>2. \A j \in DOMAIN D["ld"] : Owners(E, j) = Owners(D, j)
  BY <1>1 DEF Owners
<1> QED
  BY <1>1, <1>2 DEF LoadsOwned, OwnersHeld

\* The rows a pass has gone over.
LEMMA GoneRows ==
  ASSUME NEW D, Typed(D), NEW t \in DOMAIN TurnOf, NEW call \in DOMAIN Turn, NEW i \in Nat
  PROVE  /\ Gone(D, call, i, t) \in SUBSET (DOMAIN D[t])
         /\ Turn[call] \in Nat /\ TurnOf[t] \in Nat
         /\ Turn[call] < TurnOf[t] => Gone(D, call, i, t) = {}
         /\ Turn[call] > TurnOf[t] => Gone(D, call, i, t) = DOMAIN D[t]
         /\ Turn[call] = TurnOf[t] => /\ i \notin Gone(D, call, i, t)
                                      /\ i \in {0, 1} => Gone(D, call, i, t) = {}
                                      /\ i \in DOMAIN D[t] => Gone(D, call, i + 1, t) = Gone(D, call, i, t) \cup {i}
                                      /\ i # 0 /\ i \notin DOMAIN D[t] => Gone(D, call, i, t) = DOMAIN D[t]
<1>1. t \in Tables
  BY DEF TurnOf, Tables, Components
<1>2. Len(D[t]) \in Nat /\ DOMAIN D[t] = 1..Len(D[t])
  BY <1>1 DEF Typed, IsTable, IsList
<1>3. Turn[call] \in Nat /\ TurnOf[t] \in Nat
  BY DEF Turn, TurnOf
<1> QED
  BY <1>2, <1>3 DEF Gone

LEMMA GoneSame ==
  ASSUME NEW D, NEW E, NEW t, DOMAIN E[t] = DOMAIN D[t], NEW call, NEW i
  PROVE  Gone(E, call, i, t) = Gone(D, call, i, t)
BY DEF Gone

LEMMA TurnTables == /\ DOMAIN TurnOf = {"cb", "switch", "bus", "ld", "sec"} /\ DOMAIN TurnOf \subseteq Network
                    /\ DOMAIN Turn = DOMAIN Left
BY DEF TurnOf, Turn, Left, Network

LEMMA BuiltKept ==
  ASSUME NEW D, Typed(D), NEW E, NEW call \in DOMAIN Left, NEW i \in Nat, Built(D, call, i), Steady(D, E),
         call = "BUS_Validate" /\ i # 0 => BusesHeld(E),
         OwnersSame(D, E) \/ ~Begun(call, i, "ld")
  PROVE  Built(E, call, i)
<1>1. \A t \in DOMAIN TurnOf : DOMAIN E[t] = DOMAIN D[t] /\ FieldsHeld(D, E, t)
  BY TurnTables DEF Steady, RowsHeld, FieldsHeld
<1>2. \A t \in DOMAIN TurnOf : Gone(E, call, i, t) = Gone(D, call, i, t)
  BY <1>1, GoneSame
<1>3. \A t \in DOMAIN TurnOf : Gone(D, call, i, t) \in SUBSET (DOMAIN D[t])
  BY GoneRows, TurnTables
<1>4. /\ BranchesListed(E, "cb", "r_nd_cb", Gone(E, call, i, "cb"))
      /\ BranchesListed(E, "switch", "r_nd_switch", Gone(E, call, i, "switch"))
      /\ BranchesListed(E, "sec", "r_nd_sec", Gone(E, call, i, "sec"))
  BY <1>1, <1>2, <1>3, BranchesSame, TurnTables DEF Built, Steady
<1>5. \A t \in {"sec", "bus"} : \A j \in DOMAIN D[t] :
        /\ E[t][j].ptr["ind"] = D[t][j].ptr["ind"]
        /\ t = "sec" => E[t][j].ptr["iznd"] = D[t][j].ptr["iznd"]
  BY NetworkFields DEF Steady, NodesHeld
<1>6. SectionsPlaced(E, Gone(E, call, i, "sec")) /\ BusesPlaced(E, Gone(E, call, i, "bus"))
  BY <1>2, <1>3, <1>5, TurnTables DEF Built, SectionsPlaced, BusesPlaced, BothSet
<1>7. OwnersHeld(D, E) \/ Gone(D, call, i, "ld") = {}
  <2>1. CASE ~Begun(call, i, "ld")
    <3>1. Turn[call] < TurnOf["ld"] \/ (Turn[call] = TurnOf["ld"] /\ i = 0)
      BY <2>1, GoneRows, TurnTables DEF Begun
    <3> QED
      BY <3>1, GoneRows, TurnTables
  <2> QED
    BY <2>1 DEF OwnersSame
<1>8. LoadsListed(E, Gone(E, call, i, "ld"))
  BY <1>1, <1>2, <1>3, <1>7, LoadsSame, TurnTables DEF Built, Steady
<1>9. Begun(call, i, "ld") => LoadsOwned(E)
  BY <1>1, OwnedSame, TurnTables DEF Built, OwnersSame
<1> QED
  BY <1>4, <1>6, <1>8, <1>9 DEF Built

\* The lists when the next row or the next call comes.
LEMMA BuiltOn ==
  ASSUME NEW D, NEW call, NEW i, Built(D, call, i), NEW next, NEW k,
         \A t \in DOMAIN TurnOf : Gone(D, next, k, t) = Gone(D, call, i, t),
         next = "BUS_Validate" /\ k # 0 => BusesHeld(D),
         Begun(next, k, "ld") => LoadsOwned(D)
  PROVE  Built(D, next, k)
<1>1. /\ Gone(D, next, k, "cb") = Gone(D, call, i, "cb") /\ Gone(D, next, k, "switch") = Gone(D, call, i, "switch")
      /\ Gone(D, next, k, "sec") = Gone(D, call, i, "sec") /\ Gone(D, next, k, "ld") = Gone(D, call, i, "ld")
      /\ Gone(D, next, k, "bus") = Gone(D, call, i, "bus")
  BY TurnTables
<1> QED
  BY <1>1 DEF Built

-----------------------------------------------------------------------------
(* The builds.                                                             *)

LEMMA BuildNames ==
  ASSUME NEW r, NEW p, NEW pf, NEW c, NEW cf, IsBuild(r, p, pf, c, cf)
  PROVE  /\ r \in Relations /\ p \in Components /\ c \in Components /\ p # c
         /\ {pf, cf} \cap {"ind", "iznd"} = {}
         /\ r \notin {"r_nd_cb", "r_nd_switch", "r_nd_sec", "r_nd_cp", "r_nd_ld"}
         /\ r \notin {"r_st_ld", "r_zn_ld"} => "ld" \notin {p, c}
<1>1. r \in Relations /\ RelationEnds[r] = <<p, c>> /\ RelationEnds[r][1] = p /\ RelationEnds[r][2] = c
  BY DEF IsBuild, Linking
<1>2. p \in Components /\ c \in Components /\ p # c
  BY <1>1, RelationConversions DEF IsBuild
<1>3. \A t \in Components : \A f \in {"ind", "iznd"} :
        f \in Ptrs(t) => f \in DOMAIN Conversions[t] /\ Conversions[t][f] = "nd"
  BY DEF Components, Ptrs, PtrNames, Relations, Conversions, CO_RebuildPtr, ST_RebuildPtr, CB_RebuildPtr,
         SWITCH_RebuildPtr, SO_RebuildPtr, FI_RebuildPtr, LD_RebuildPtr, CP_RebuildPtr, BUS_RebuildPtr, ZN_RebuildPtr,
         SEC_RebuildPtr, ND_RebuildPtr
<1>4. r # "nd"
  BY <1>1 DEF Relations
<1>5. {pf, cf} \cap {"ind", "iznd"} = {}
  BY <1>2, <1>3, <1>4 DEF IsBuild
<1>6. \A v \in Relations : v \notin {"r_st_ld", "r_zn_ld", "r_nd_ld"} => RelationEnds[v][1] # "ld" /\ RelationEnds[v][2] # "ld"
  BY DEF Relations, RelationEnds
<1>7. {ND_RebuildPtr[f] : f \in DOMAIN ND_RebuildPtr} = {"r_nd_cb", "r_nd_switch", "r_nd_sec", "r_nd_cp", "r_nd_ld"}
  BY DEF ND_RebuildPtr
<1> QED
  BY <1>1, <1>2, <1>5, <1>6, <1>7 DEF IsBuild

\* A build that is not one of the loads lists nothing anew.
LEMMA BuildSteady ==
  ASSUME NEW D, NEW E, NEW r, NEW p, NEW pf, NEW c, NEW cf, IsBuild(r, p, pf, c, cf), NEW M,
         BuildDone(D, E, r, p, pf, c, cf, M)
  PROVE  /\ Steady(D, E)
         /\ r \notin {"r_st_ld", "r_zn_ld"} => OwnersSame(D, E)
<1>1. /\ r \in Relations /\ p \in Components /\ c \in Components /\ p # c
      /\ {pf, cf} \cap {"ind", "iznd"} = {}
      /\ r \notin {"r_nd_cb", "r_nd_switch", "r_nd_sec", "r_nd_cp", "r_nd_ld"}
      /\ r \notin {"r_st_ld", "r_zn_ld"} => "ld" \notin {p, c}
  BY BuildNames
<1>2. /\ \A t \in Tables \ {r, p, c} : E[t] = D[t]
      /\ OnlyPtr(D, E, p, pf) /\ OnlyPtr(D, E, c, cf)
  BY DEF BuildDone
<1>3. Network \subseteq Tables \ {r}
  BY <1>1, NetworkFields, TableNames
<1>4. ASSUME NEW t \in Network
      PROVE  /\ FieldsHeld(D, E, t) /\ NodesHeld(D, E, t)
             /\ t \notin {p, c} => E[t] = D[t]
  <2> DEFINE Held(u) == FieldsHeld(D, E, u) /\ NodesHeld(D, E, u)
  <2>0. ASSUME NEW u, NEW f, OnlyPtr(D, E, u, f), f \notin {"ind", "iznd"}
        PROVE  Held(u)
    BY <2>0 DEF OnlyPtr, FieldsHeld, NodesHeld
  <2> HIDE DEF Held
  <2>4. Held(p) /\ Held(c)
    BY <1>1, <1>2, <2>0
  <2>1. CASE t = p
    BY <2>1, <2>4 DEF Held
  <2>2. CASE t = c
    BY <2>2, <2>4 DEF Held
  <2>3. CASE t \notin {p, c}
    BY <1>2, <1>3, <2>3 DEF FieldsHeld, NodesHeld
  <2> QED
    BY <2>1, <2>2, <2>3
<1>5. \A v \in Relations \ {r} : PairsOf(E, v) = PairsOf(D, v)
  <2>1. \A v \in Relations \ {r} : E[v] = D[v]
    BY <1>1, <1>2, TableNames
  <2> QED
    BY <2>1 DEF PairsOf
<1>6. {"r_nd_cb", "r_nd_switch", "r_nd_sec", "r_nd_ld", "r_st_ld", "r_zn_ld"} \subseteq Relations
  BY DEF Relations
<1>7. Steady(D, E)
  BY <1>1, <1>5, <1>6, <1>4 DEF Network, Steady, RowsHeld
<1>8. ASSUME r \notin {"r_st_ld", "r_zn_ld"} PROVE OwnersSame(D, E)
  <2>1. E["ld"] = D["ld"]
    BY <1>1, <1>4, <1>8 DEF Network
  <2> QED
    BY <1>5, <1>6, <1>8, <2>1 DEF OwnersSame, OwnersHeld
<1> QED
  BY <1>7, <1>8

\* The builds of the calls, but those of the loads.
LEMMA BuildsSteady ==
  ASSUME NEW D, Sound(D), ~Twice(D),
         NEW E \in {R_CO_ST_Build(D), R_ST_ZN_Build(D), R_ST_CB_Build(D), R_ST_SWITCH_Build(D), R_ST_BUS_Build(D),
                    R_ST_CP_Build(D), R_ST_SO_Build(D), R_ZN_SEC_Build(D), R_SEC_FI_Build(D)}
  PROVE  Typed(E) /\ ~Twice(E) /\ Steady(D, E) /\ OwnersSame(D, E)
<1>1. ASSUME NEW r, NEW p, NEW pf, NEW c, NEW cf, IsBuild(r, p, pf, c, cf), r \notin {"r_st_ld", "r_zn_ld"},
             NEW M, M \in SUBSET ((DOMAIN D[p]) \X (DOMAIN D[c])), E = Related(D, r, p, pf, c, cf, M)
      PROVE  Typed(E) /\ ~Twice(E) /\ Steady(D, E) /\ OwnersSame(D, E)
  <2>1. BuildDone(D, E, r, p, pf, c, cf, M)
    BY <1>1, WholeBuilt
  <2> QED
    BY <1>1, <2>1, BuildSteady DEF BuildDone
<1>2. \A p, c \in Components : /\ Range1(p, D) = DOMAIN D[p] /\ Range1(c, D) = DOMAIN D[c]
  BY TableNames DEF Sound, Typed, IsTable, IsList, Range1
<1>3. {"co", "st", "zn", "cb", "switch", "bus", "cp", "so", "sec", "fi"} \subseteq Components
  BY DEF Components
<1>4. CASE E = R_CO_ST_Build(D)
  BY <1>2, <1>3, <1>1, <1>4, Builds DEF Matching, R_CO_ST_Build
<1>5. CASE E = R_ST_ZN_Build(D)
  BY <1>2, <1>3, <1>1, <1>5, Builds DEF Matching, R_ST_ZN_Build
<1>6. CASE E = R_ST_CB_Build(D)
  BY <1>2, <1>3, <1>1, <1>6, Builds DEF Matching, R_ST_CB_Build
<1>7. CASE E = R_ST_SWITCH_Build(D)
  BY <1>2, <1>3, <1>1, <1>7, Builds DEF Matching, R_ST_SWITCH_Build
<1>8. CASE E = R_ST_BUS_Build(D)
  BY <1>2, <1>3, <1>1, <1>8, Builds DEF Matching, R_ST_BUS_Build
<1>9. CASE E = R_ST_CP_Build(D)
  BY <1>2, <1>3, <1>1, <1>9, Builds DEF Matching, R_ST_CP_Build
<1>10. CASE E = R_ST_SO_Build(D)
  BY <1>2, <1>3, <1>1, <1>10, Builds DEF Matching, R_ST_SO_Build
<1>11. CASE E = R_ZN_SEC_Build(D)
  BY <1>2, <1>3, <1>1, <1>11, Builds DEF Matching, R_ZN_SEC_Build
<1>12. CASE E = R_SEC_FI_Build(D)
  BY <1>2, <1>3, <1>1, <1>12, Builds DEF Matching, R_SEC_FI_Build
<1> QED
  BY <1>4, <1>5, <1>6, <1>7, <1>8, <1>9, <1>10, <1>11, <1>12

LEMMA SteadyOn ==
  ASSUME NEW D, NEW E, NEW F, Steady(D, E), Steady(E, F)
  PROVE  Steady(D, F)
<1>1. \A t \in Network : FieldsHeld(D, E, t) /\ FieldsHeld(E, F, t)
  BY DEF Steady, RowsHeld
<1>2. \A t \in Network : FieldsHeld(D, F, t)
  BY <1>1 DEF FieldsHeld
<1>3. \A t \in {"cb", "switch", "sec", "bus"} : DOMAIN E[t] = DOMAIN D[t] /\ NodesHeld(D, E, t) /\ NodesHeld(E, F, t)
  BY <1>1 DEF Steady, Network, FieldsHeld
<1>4. \A t \in {"cb", "switch", "sec", "bus"} : NodesHeld(D, F, t)
  BY <1>3 DEF NodesHeld
<1> QED
  BY <1>2, <1>4 DEF Steady, RowsHeld

\* Every bus finds its station (R_ST_BUS_Build).
LEMMA BusesBuilt ==
  ASSUME NEW D, Sound(D), ~Twice(D), Apart(D)
  PROVE  BusesHeld(R_ST_BUS_Build(D))
<1> DEFINE M == Matching(D, "st", "bus", OfStation)
           E == Related(D, "r_st_bus", "st", "r_bus", "bus", "r_st", M)
<1>1. {"st", "bus"} \subseteq Tables
  BY SomeKeys
<1>2. Range1("st", D) = DOMAIN D["st"] /\ Range1("bus", D) = DOMAIN D["bus"]
  BY <1>1 DEF Sound, Typed, IsTable, IsList, Range1
<1>3. M \in SUBSET ((DOMAIN D["st"]) \X (DOMAIN D["bus"]))
  BY <1>2 DEF Matching
<1>4. \A i \in DOMAIN D["st"] : \A j \in DOMAIN D["bus"] : D["st"][i].pid = D["bus"][j].stid => <<i, j>> \in M
  BY <1>2 DEF Matching, OfStation
<1>5. R_ST_BUS_Build(D) = E
  BY DEF R_ST_BUS_Build
<1> HIDE DEF M
<1>6. BuildDone(D, E, "r_st_bus", "st", "r_bus", "bus", "r_st", M)
  BY <1>3, WholeBuilt, Builds
<1> HIDE DEF E
<1>7. DOMAIN E["bus"] = DOMAIN D["bus"]
  BY <1>6 DEF BuildDone, OnlyPtr
<1>8. ASSUME NEW j \in DOMAIN D["bus"] PROVE E["bus"][j].ptr["r_st"] # NoRow
  <2>1. PICK i \in DOMAIN D["st"] : D["st"][i].pid = D["bus"][j].stid
    BY DEF Apart
  <2>2. <<i, j>> \in M /\ <<i, j>>[2] = j
    BY <1>4, <2>1
  <2> QED
    BY <1>6, <2>2 DEF BuildDone
<1> QED
  BY <1>5, <1>7, <1>8 DEF BusesHeld, HasStation

\* The pointers of a relation's children that was not built before.
LEMMA ChildrenOwned ==
  ASSUME NEW D, Sound(D), ~Twice(D), NEW W, PassTrue(D, W), NEW r \in W, NEW p, NEW pf, NEW cf,
         IsBuild(r, p, pf, "ld", cf), cf \in DOMAIN Conversions["ld"], Conversions["ld"][cf] = r,
         NEW M \in SUBSET ((DOMAIN D[p]) \X (DOMAIN D["ld"])),
         \A m, n \in M : m[2] = n[2] => m[1] = n[1]
  PROVE  LET E == Related(D, r, p, pf, "ld", cf, M)
         IN  /\ BuildDone(D, E, r, p, pf, "ld", cf, M)
             /\ \A j \in DOMAIN D["ld"] :
                  LET own == {q \in PairsOf(E, r) : q[2] = D["ld"][j].id}
                  IN  /\ E["ld"][j].ptr[cf] # NoRow => \E q \in own : own = {q}
                      /\ E["ld"][j].ptr[cf] = NoRow => own = {}
                      /\ E["ld"][j].ptr[cf] # NoRow <=> \E m \in M : m[2] = j
<1> DEFINE E == Related(D, r, p, pf, "ld", cf, M)
<1>1. BuildDone(D, E, r, p, pf, "ld", cf, M)
  BY WholeBuilt
<1> HIDE DEF E
<1>2. /\ PairsOf(E, r) = {<<D[p][m[1]].id, D["ld"][m[2]].id>> : m \in M}
      /\ \A j \in DOMAIN D["ld"] : \/ E["ld"][j].ptr[cf] = D["ld"][j].ptr[cf] /\ \A m \in M : m[2] # j
                                   \/ E["ld"][j].ptr[cf] # NoRow /\ \E m \in M : m[2] = j
  BY <1>1 DEF BuildDone
<1>3. \A j \in DOMAIN D["ld"] : D["ld"][j].ptr[cf] = NoRow
  BY UnbuiltPtr, SomeKeys DEF Old
<1>4. \A m \in M : m[1] \in DOMAIN D[p] /\ m[2] \in DOMAIN D["ld"] /\ m = <<m[1], m[2]>>
  OBVIOUS
<1>5. \A i, j \in DOMAIN D["ld"] : D["ld"][i].id = D["ld"][j].id => i = j
  BY DEF Sound, UniqueIds, Components
<1>6. ASSUME NEW j \in DOMAIN D["ld"]
      PROVE  LET own == {q \in PairsOf(E, r) : q[2] = D["ld"][j].id}
             IN  /\ E["ld"][j].ptr[cf] # NoRow => \E q \in own : own = {q}
                 /\ E["ld"][j].ptr[cf] = NoRow => own = {}
                 /\ E["ld"][j].ptr[cf] # NoRow <=> \E m \in M : m[2] = j
  <2> DEFINE own == {q \in PairsOf(E, r) : q[2] = D["ld"][j].id}
             Pair(m) == <<D[p][m[1]].id, D["ld"][m[2]].id>>
  <2>1. E["ld"][j].ptr[cf] # NoRow <=> \E m \in M : m[2] = j
    BY <1>2, <1>3
  <2>2. \A q \in own : \E m \in M : q = Pair(m) /\ m[2] = j
    <3> SUFFICES ASSUME NEW q \in own PROVE \E m \in M : q = Pair(m) /\ m[2] = j
      OBVIOUS
    <3>1. PICK m \in M : q = Pair(m)
      BY <1>2
    <3>2. D["ld"][m[2]].id = D["ld"][j].id
      BY <3>1
    <3> QED
      BY <1>4, <1>5, <3>1, <3>2
  <2>3. \A m \in M : m[2] = j => Pair(m) \in own
    BY <1>2
  <2>4. CASE E["ld"][j].ptr[cf] = NoRow
    BY <2>1, <2>2, <2>4
  <2>5. CASE E["ld"][j].ptr[cf] # NoRow
    <3>1. PICK m \in M : m[2] = j
      BY <2>1, <2>5
    <3>2. \A n \in M : n[2] = j => Pair(n) = Pair(m)
      BY <3>1
    <3>3. own = {Pair(m)}
      BY <2>2, <2>3, <3>1, <3>2
    <3> QED
      BY <2>1, <2>5, <3>3
  <2> QED
    BY <2>4, <2>5
<1> QED
  BY <1>1, <1>6 DEF E

\* A load gets one owner, its station or its zone, or none.
LEMMA LoadsBuilt ==
  ASSUME NEW D, Sound(D), ~Twice(D), Apart(D), NEW W \in SUBSET Relations, PassTrue(D, W),
         {"r_st_ld", "r_zn_ld"} \subseteq W
  PROVE  LET E == R_ZN_LD_Build(R_ST_LD_Build(D))
         IN  Typed(E) /\ ~Twice(E) /\ Steady(D, E) /\ LoadsOwned(E)
<1> DEFINE F == R_ST_LD_Build(D)
           E == R_ZN_LD_Build(F)
           M == Matching(D, "st", "ld", LoadOfStation)
           N == Matching(F, "zn", "ld", LoadOfZone)
<1>1. {"st", "ld", "zn"} \subseteq Tables /\ "zn" \in Components /\ {"st", "ld", "zn"} \subseteq Network
  BY SomeKeys, TableNames DEF Network
<1>2. Range1("st", D) = DOMAIN D["st"] /\ Range1("ld", D) = DOMAIN D["ld"]
  BY <1>1 DEF Sound, Typed, IsTable, IsList, Range1
<1>3. /\ M \in SUBSET ((DOMAIN D["st"]) \X (DOMAIN D["ld"]))
      /\ \A m \in M : D["ld"][m[2]].type = 0 /\ D["st"][m[1]].pid = D["ld"][m[2]].stid
  BY <1>2 DEF Matching, LoadOfStation, OfStation
<1>4. \A m, n \in M : m[2] = n[2] => m[1] = n[1]
  <2>1. \A m \in M : m[1] \in DOMAIN D["st"]
    BY <1>3
  <2> HIDE DEF M
  <2> QED
    BY <1>3, <2>1 DEF Apart
<1>5. F = Related(D, "r_st_ld", "st", "r_ld", "ld", "r_st", M)
  BY DEF R_ST_LD_Build
<1>6. Sound(F) /\ PassTrue(F, W \ {"r_st_ld"})
  BY RelationBuilt
<1> HIDE DEF M
<1>7. /\ BuildDone(D, F, "r_st_ld", "st", "r_ld", "ld", "r_st", M)
      /\ \A j \in DOMAIN D["ld"] :
           LET own == {q \in PairsOf(F, "r_st_ld") : q[2] = D["ld"][j].id}
           IN  /\ F["ld"][j].ptr["r_st"] # NoRow => \E q \in own : own = {q}
               /\ F["ld"][j].ptr["r_st"] = NoRow => own = {}
               /\ F["ld"][j].ptr["r_st"] # NoRow <=> \E m \in M : m[2] = j
  <2>1. "r_st" \in DOMAIN Conversions["ld"] /\ Conversions["ld"]["r_st"] = "r_st_ld"
    BY DEF Conversions, LD_RebuildPtr
  <2> HIDE DEF F
  <2> QED
    BY <1>3, <1>4, <1>5, <2>1, ChildrenOwned, Builds
<1> HIDE DEF F
<1>8. ~Twice(F) /\ Steady(D, F)
  BY <1>7, BuildSteady, Builds DEF BuildDone
<1>9. Range1("zn", F) = DOMAIN F["zn"] /\ Range1("ld", F) = DOMAIN F["ld"]
  BY <1>1, <1>6 DEF Sound, Typed, IsTable, IsList, Range1
<1>10. /\ N \in SUBSET ((DOMAIN F["zn"]) \X (DOMAIN F["ld"]))
       /\ \A m \in N : F["ld"][m[2]].type = 1 /\ F["zn"][m[1]].id = F["ld"][m[2]].zn_id
  BY <1>9 DEF Matching, LoadOfZone
<1>11. \A m, n \in N : m[2] = n[2] => m[1] = n[1]
  <2>1. \A m \in N : m[1] \in DOMAIN F["zn"]
    BY <1>10
  <2> HIDE DEF N
  <2> QED
    BY <1>1, <1>6, <1>10, <2>1 DEF Sound, UniqueIds
<1>12. E = Related(F, "r_zn_ld", "zn", "r_ld", "ld", "r_zn", N)
  BY DEF R_ZN_LD_Build
<1> HIDE DEF N
<1>13. /\ BuildDone(F, E, "r_zn_ld", "zn", "r_ld", "ld", "r_zn", N)
       /\ \A j \in DOMAIN F["ld"] :
            LET own == {q \in PairsOf(E, "r_zn_ld") : q[2] = F["ld"][j].id}
            IN  /\ E["ld"][j].ptr["r_zn"] # NoRow => \E q \in own : own = {q}
                /\ E["ld"][j].ptr["r_zn"] = NoRow => own = {}
                /\ E["ld"][j].ptr["r_zn"] # NoRow <=> \E m \in N : m[2] = j
  <2>1. "r_zn" \in DOMAIN Conversions["ld"] /\ Conversions["ld"]["r_zn"] = "r_zn_ld"
    BY DEF Conversions, LD_RebuildPtr
  <2>2. "r_zn_ld" \in W \ {"r_st_ld"}
    OBVIOUS
  <2> HIDE DEF E
  <2> QED
    BY <1>6, <1>8, <1>10, <1>11, <1>12, <2>1, <2>2, ChildrenOwned, Builds
<1> HIDE DEF E
<1>14. Typed(E) /\ ~Twice(E) /\ Steady(F, E)
  BY <1>13, BuildSteady, Builds DEF BuildDone
<1>15. Steady(D, E)
  BY <1>8, <1>14, SteadyOn
<1>16. /\ DOMAIN F["ld"] = DOMAIN D["ld"] /\ DOMAIN E["ld"] = DOMAIN D["ld"]
       /\ \A j \in DOMAIN D["ld"] : /\ F["ld"][j].id = D["ld"][j].id /\ E["ld"][j].id = D["ld"][j].id
                                    /\ F["ld"][j].type = D["ld"][j].type /\ E["ld"][j].type = D["ld"][j].type
  <2>1. FieldsHeld(D, F, "ld") /\ FieldsHeld(D, E, "ld")
    BY <1>1, <1>8, <1>15 DEF Steady, RowsHeld
  <2> QED
    BY <2>1, NetworkFields DEF FieldsHeld
<1>17. E["r_st_ld"] = F["r_st_ld"] /\ \A j \in DOMAIN D["ld"] : E["ld"][j].ptr["r_st"] = F["ld"][j].ptr["r_st"]
  BY <1>13, <1>16 DEF Tables, Relations, Ptrs, PtrNames, BuildDone, OnlyPtr
<1>18. ASSUME NEW j \in DOMAIN D["ld"]
       PROVE  IF HasOwner(E["ld"][j]) THEN \E p \in Owners(E, j) : Owners(E, j) = {p} ELSE Owners(E, j) = {}
  <2> DEFINE S == {q \in PairsOf(F, "r_st_ld") : q[2] = D["ld"][j].id}
             Z == {q \in PairsOf(E, "r_zn_ld") : q[2] = D["ld"][j].id}
  <2>1. Owners(E, j) = S \cup Z
    BY <1>16, <1>17 DEF Owners, PairsOf
  <2>2. /\ F["ld"][j].ptr["r_st"] # NoRow => D["ld"][j].type = 0
        /\ E["ld"][j].ptr["r_zn"] # NoRow => D["ld"][j].type = 1
    BY <1>3, <1>7, <1>10, <1>13, <1>16
  <2>3. /\ F["ld"][j].ptr["r_st"] # NoRow => \E q \in S : S = {q}
        /\ F["ld"][j].ptr["r_st"] = NoRow => S = {}
    BY <1>7
  <2>4. /\ E["ld"][j].ptr["r_zn"] # NoRow => \E q \in Z : Z = {q}
        /\ E["ld"][j].ptr["r_zn"] = NoRow => Z = {}
    BY <1>13, <1>16
  <2> HIDE DEF S, Z
  <2>5. HasOwner(E["ld"][j]) <=> IF D["ld"][j].type = 0 THEN F["ld"][j].ptr["r_st"] # NoRow
                                                       ELSE E["ld"][j].ptr["r_zn"] # NoRow
    BY <1>16, <1>17 DEF HasOwner
  <2> QED
    BY <2>1, <2>2, <2>3, <2>4, <2>5
<1>19. LoadsOwned(E)
  BY <1>16, <1>18 DEF LoadsOwned
<1> QED
  BY <1>14, <1>15, <1>19 DEF E, F

\* Nothing is listed by what changes nodes, zones and sources.
LEMMA FrameSteady ==
  ASSUME NEW D, NEW E, \A t \in Tables \ {"zn", "nd", "r_zn_nd", "so"} : E[t] = D[t], FieldsHeld(D, E, "zn")
  PROVE  Steady(D, E) /\ OwnersSame(D, E)
<1>1. Network \ {"zn"} \subseteq Tables \ {"zn", "nd", "r_zn_nd", "so"}
  BY DEF Network, Tables, Components
<1>2. {"r_nd_cb", "r_nd_switch", "r_nd_sec", "r_nd_ld", "r_st_ld", "r_zn_ld"} \subseteq Tables \ {"zn", "nd", "r_zn_nd", "so"}
  BY DEF Tables, Relations
<1>3. \A r \in {"r_nd_cb", "r_nd_switch", "r_nd_sec", "r_nd_ld", "r_st_ld", "r_zn_ld"} : E[r] = D[r]
  BY <1>2
<1>4. \A r \in {"r_nd_cb", "r_nd_switch", "r_nd_sec", "r_nd_ld", "r_st_ld", "r_zn_ld"} : PairsOf(E, r) = PairsOf(D, r)
  BY <1>3 DEF PairsOf
<1>5. \A t \in Network \ {"zn"} : E[t] = D[t]
  BY <1>1
<1>6. \A t \in Network : FieldsHeld(D, E, t)
  BY <1>5 DEF FieldsHeld
<1>7. \A t \in {"cb", "switch", "sec", "bus"} : NodesHeld(D, E, t)
  BY <1>5 DEF NodesHeld, Network
<1>8. E["ld"] = D["ld"]
  BY <1>5 DEF Network
<1> QED
  BY <1>4, <1>6, <1>7, <1>8 DEF Steady, RowsHeld, OwnersSame, OwnersHeld

LEMMA ZonesListedSteady ==
  ASSUME NEW D, Sound(D), ~Twice(D), Apart(D), NEW E, ZonesListed(D, E)
  PROVE  ~Twice(E) /\ Steady(D, E) /\ OwnersSame(D, E)
<1>1. FieldsHeld(D, E, "zn")
  BY DEF ZonesListed, FieldsHeld
<1>2. Steady(D, E) /\ OwnersSame(D, E)
  BY <1>1, FrameSteady DEF ZonesListed
<1>3. OnceIn(E, "r_zn_nd")
  <2>1. PICK w : \A k \in DOMAIN E["r_zn_nd"] :
          /\ w[k][1] \in DOMAIN D["zn"] /\ w[k][2] \in DOMAIN D["zn"][w[k][1]].nds
          /\ E["r_zn_nd"][k].par = D["zn"][w[k][1]].id /\ E["r_zn_nd"][k].chi = D["zn"][w[k][1]].nds[w[k][2]]
          /\ \A l \in DOMAIN E["r_zn_nd"] : w[k][1] = w[l][1] /\ w[k][2] = w[l][2] => k = l
    BY DEF ZonesListed
  <2> SUFFICES ASSUME NEW k \in DOMAIN E["r_zn_nd"], NEW l \in DOMAIN E["r_zn_nd"],
                      E["r_zn_nd"][k].par = E["r_zn_nd"][l].par, E["r_zn_nd"][k].chi = E["r_zn_nd"][l].chi
               PROVE  k = l
    BY DEF OnceIn
  <2>2. w[k][1] = w[l][1]
    BY <2>1, TableNames DEF Sound, UniqueIds
  <2>3. w[k][2] = w[l][2]
    BY <2>1, <2>2 DEF Apart
  <2> QED
    BY <2>1, <2>2, <2>3
<1>4. \A r \in Relations \ {"r_zn_nd"} : E[r] = D[r]
  BY TableNames DEF ZonesListed
<1>5. \A r \in Relations : OnceIn(E, r)
  BY <1>3, <1>4, TwiceMeans DEF OnceIn
<1> QED
  BY <1>2, <1>5, TwiceMeans

LEMMA ZonesHeldSteady ==
  ASSUME NEW D, ~Twice(D), NEW E, ZonesHeld(D, E)
  PROVE  ~Twice(E) /\ Steady(D, E) /\ OwnersSame(D, E)
<1>1. FieldsHeld(D, E, "zn")
  BY DEF ZonesHeld, FieldsHeld
<1>2. \A t \in Tables \ {"zn", "nd"} : E[t] = D[t]
  BY DEF ZonesHeld, Elsewhere
<1>3. Steady(D, E) /\ OwnersSame(D, E)
  BY <1>1, <1>2, FrameSteady
<1>4. \A r \in Relations : E[r] = D[r]
  BY <1>2, TableNames
<1>5. \A r \in Relations : OnceIn(E, r)
  BY <1>4, TwiceMeans DEF OnceIn
<1> QED
  BY <1>3, <1>5, TwiceMeans

-----------------------------------------------------------------------------
(* The lists after the turn of a row.                                      *)

LEMMA TurnedApart ==
  ASSUME NEW D, NEW E, NEW t, NEW r, <<t, r>> \in Turns, NEW S, NEW i, Turned(D, E, t, r, S, i), Apart(D)
  PROVE  Apart(E)
<1>1. Network \ {t} \subseteq Tables \ {"nd", r, t}
  BY DEF Network, Tables, Components, Turns
<1>2. \A u \in Network \ {t} : E[u] = D[u]
  BY <1>1 DEF Turned, Elsewhere
<1>3. \A u \in Network : FieldsHeld(D, E, u)
  BY <1>2 DEF Turned, FieldsHeld
<1> QED
  BY <1>3, ApartKept DEF RowsHeld

LEMMA TurnBuilt ==
  ASSUME NEW D, Typed(D), NEW E, NEW t, NEW r, <<t, r>> \in Turns, NEW call \in DOMAIN Left, Turn[call] = TurnOf[t],
         NEW i \in DOMAIN D[t], i # 0, i \in Nat, Built(D, call, i), Turned(D, E, t, r, Gone(D, call, i, t), i)
  PROVE  Built(E, call, i + 1)
<1>1. t \in DOMAIN TurnOf /\ t \in {"cb", "switch", "sec", "ld", "bus"}
  BY TurnTables DEF Turns
<1>2. \A u \in DOMAIN TurnOf \ {t} : E[u] = D[u]
  BY <1>1, TurnTables DEF Turned, Elsewhere, Turns, Tables, Components
<1>3. \A v \in {"r_nd_cb", "r_nd_switch", "r_nd_sec", "r_nd_ld", "r_st_ld", "r_zn_ld"} \ {r} : E[v] = D[v]
  BY DEF Turned, Elsewhere, Turns, Tables, Relations
<1>4. \A v \in {"r_nd_cb", "r_nd_switch", "r_nd_sec", "r_nd_ld", "r_st_ld", "r_zn_ld"} \ {r} : PairsOf(E, v) = PairsOf(D, v)
  BY <1>3 DEF PairsOf
<1>5. \A u \in DOMAIN TurnOf : u # t => TurnOf[u] # Turn[call]
  BY <1>1 DEF TurnOf
<1>6. call \in DOMAIN Turn /\ Turn[call] \in Nat /\ \A u \in DOMAIN TurnOf : TurnOf[u] \in Nat
  BY TurnTables DEF Turn, TurnOf
<1>7. \A u \in DOMAIN TurnOf \ {t} : Gone(E, call, i + 1, u) = Gone(D, call, i, u)
  BY <1>2, <1>5 DEF Gone
<1>8. Gone(E, call, i + 1, t) = Gone(D, call, i, t) \cup {i}
  <2>1. DOMAIN E[t] = DOMAIN D[t]
    BY DEF Turned, FieldsHeld
  <2> QED
    BY <1>1, <1>6, <2>1, GoneRows, GoneSame
<1>9. /\ BranchesListed(E, "cb", "r_nd_cb", Gone(E, call, i + 1, "cb"))
      /\ BranchesListed(E, "switch", "r_nd_switch", Gone(E, call, i + 1, "switch"))
      /\ BranchesListed(E, "sec", "r_nd_sec", Gone(E, call, i + 1, "sec"))
  <2>1. ASSUME NEW u, NEW v, <<u, v>> \in {<<"cb", "r_nd_cb">>, <<"switch", "r_nd_switch">>, <<"sec", "r_nd_sec">>},
               BranchesListed(D, u, v, Gone(D, call, i, u))
        PROVE  BranchesListed(E, u, v, Gone(E, call, i + 1, u))
    <3>1. CASE u = t
      <4>1. v = r /\ t \in {"cb", "switch", "sec"}
        BY <2>1, <3>1 DEF Turns
      <4> QED
        BY <1>8, <3>1, <4>1 DEF Turned
    <3>2. CASE u # t
      BY <2>1, <3>2, TurnTables, <1>2, <1>4, <1>7 DEF Turns, BranchesListed
    <3> QED
      BY <3>1, <3>2
  <2> QED
    BY <2>1 DEF Built
<1>10. SectionsPlaced(E, Gone(E, call, i + 1, "sec"))
  <2>1. CASE t = "sec"
    BY <1>8, <2>1 DEF Turned
  <2>2. CASE t # "sec"
    BY <1>2, <1>7, <2>2, TurnTables DEF Built, SectionsPlaced
  <2> QED
    BY <2>1, <2>2
<1>11. LoadsListed(E, Gone(E, call, i + 1, "ld")) /\ (Begun(call, i + 1, "ld") => LoadsOwned(E))
  <2>1. CASE t = "ld"
    BY <1>8, <2>1 DEF Turned
  <2>2. CASE t # "ld"
    <3>1. E["ld"] = D["ld"] /\ Gone(E, call, i + 1, "ld") = Gone(D, call, i, "ld")
      BY <1>2, <1>7, <2>2, TurnTables
    <3>2. PairsOf(E, "r_nd_ld") = PairsOf(D, "r_nd_ld") /\ PairsOf(E, "r_st_ld") = PairsOf(D, "r_st_ld")
          /\ PairsOf(E, "r_zn_ld") = PairsOf(D, "r_zn_ld")
      BY <1>4, <2>2 DEF Turns
    <3>3. Begun(call, i + 1, "ld") => Begun(call, i, "ld")
      BY <1>5, <2>2, TurnTables DEF Begun
    <3>4. LoadsOwned(D) => LoadsOwned(E)
      BY <3>1, <3>2 DEF LoadsOwned, Owners
    <3> QED
      BY <3>1, <3>2, <3>3, <3>4 DEF Built, LoadsListed
  <2> QED
    BY <2>1, <2>2
<1>12. BusesPlaced(E, Gone(E, call, i + 1, "bus")) /\ (call = "BUS_Validate" => BusesHeld(E))
  <2>1. CASE t = "bus"
    BY <1>8, <2>1 DEF Turned
  <2>2. CASE t # "bus"
    <3>1. call # "BUS_Validate"
      BY <1>5, <2>2, TurnTables DEF Turn, TurnOf
    <3> QED
      BY <1>2, <1>7, <2>2, <3>1, TurnTables DEF Built, BusesPlaced
  <2> QED
    BY <2>1, <2>2
<1> QED
  BY <1>9, <1>10, <1>11, <1>12 DEF Built

-----------------------------------------------------------------------------
(* The calls of a pass keep what they list.                                *)

LEMMA Continues ==
  ASSUME NEW STATE D, NEW STATE next, NEW STATE i, Becomes(D, next, i), next \in DOMAIN Left, Goes(D, next, i)
  PROVE  SInv'
<1>1. rows' = D /\ pc' = next /\ at' = i
  BY DEF Becomes, Goes
<1>2. next \notin {"exited", "ValidateStart", "BuildZones", "find_so", "ReadFromDsbob2"}
  BY Calls
<1>3. SInv' <=> /\ pc' # "exited"
                /\ pc' \in DOMAIN Left \cup {"ValidateStart", "BuildZones", "find_so", "ReadFromDsbob2"} => Apart(rows')
                /\ pc' \in DOMAIN Left => Built(rows', pc', at')
                /\ pc' \in {"find_so", "ReadFromDsbob2"} /\ rows'["nd"] # <<>> => Complete(rows')
  BY DEF SInv
<1> QED
  BY <1>1, <1>2, <1>3 DEF Goes

LEMMA Fails ==
  ASSUME NEW STATE D, NEW STATE i, Becomes(D, "failed", i), ~Twice(D)
  PROVE  SInv'
<1>1. pc' = "failed"
  BY DEF Becomes
<1>2. "failed" \notin DOMAIN Left \cup {"exited", "ValidateStart", "BuildZones", "find_so", "ReadFromDsbob2"}
  BY Calls
<1> QED
  BY <1>1, <1>2 DEF SInv

LEMMA SteadySelf ==
  ASSUME NEW D
  PROVE  Steady(D, D) /\ OwnersSame(D, D)
BY DEF Steady, RowsHeld, FieldsHeld, NodesHeld, OwnersSame, OwnersHeld

LEMMA TurnNumbers ==
  /\ DOMAIN Turn = DOMAIN Left /\ \A call \in DOMAIN Turn : Turn[call] \in Nat
  /\ \A t \in DOMAIN TurnOf : TurnOf[t] \in Nat
  /\ \A c, d \in DOMAIN Turn : Turn[c] = Turn[d] => c = d
  /\ \A t, u \in DOMAIN TurnOf : TurnOf[t] = TurnOf[u] => t = u
<1>1. DOMAIN Turn = DOMAIN Left /\ \A call \in DOMAIN Turn : Turn[call] \in Nat
  BY TurnTables DEF Turn
<1>2. \A c, d \in DOMAIN Turn : Turn[c] = Turn[d] => c = d
  BY DEF Turn
<1>3. /\ \A t \in DOMAIN TurnOf : TurnOf[t] \in Nat
      /\ \A t, u \in DOMAIN TurnOf : TurnOf[t] = TurnOf[u] => t = u
  BY DEF TurnOf
<1> QED
  BY <1>1, <1>2, <1>3

LEMMA QuietStep ==
  ASSUME Running, SInv, pc \in Quiet, NEW STATE E, ~Twice(E), Steady(rows, E), OwnersSame(rows, E), Typed(E),
         NEW STATE next, NEW STATE i, i \in Nat, next \in DOMAIN Left, Becomes(E, next, i),
         next = pc \/ (i = 0 /\ Turn[next] = Turn[pc] + 1)
  PROVE  SInv'
<1>1. pc \in DOMAIN Left /\ at \in Nat /\ Typed(rows) /\ Built(rows, pc, at) /\ Apart(rows) /\ pc # "BUS_Validate"
  BY DEF Running, SInv, Sound, Quiet
<1>2. Built(E, pc, at) /\ Apart(E)
  BY <1>1, BuiltKept, ApartKept DEF Steady
<1>3. \A t \in DOMAIN TurnOf : TurnOf[t] # Turn[pc]
  BY DEF TurnOf, Turn, Quiet
<1>4. ASSUME NEW t \in DOMAIN TurnOf
      PROVE  Gone(E, next, i, t) = Gone(E, pc, at, t) /\ (Begun(next, i, t) => Begun(pc, at, t))
  <2>1. CASE next = pc
    BY <1>3, <2>1 DEF Gone, Begun
  <2>2. CASE i = 0 /\ Turn[next] = Turn[pc] + 1
    <3>1. Turn[pc] \in Nat /\ TurnOf[t] \in Nat /\ pc \in DOMAIN Turn /\ next \in DOMAIN Turn
      BY <1>1, TurnNumbers
    <3>2. CASE TurnOf[t] < Turn[pc]
      <4>1. Turn[next] > TurnOf[t]
        BY <2>2, <3>1, <3>2
      <4> QED
        BY <1>1, <3>1, <3>2, <4>1, GoneRows DEF Begun
    <3>3. CASE TurnOf[t] > Turn[pc]
      <4>1. Turn[next] = TurnOf[t] \/ Turn[next] < TurnOf[t]
        BY <2>2, <3>1, <3>3
      <4>2. Gone(E, next, i, t) = {} /\ Gone(E, pc, at, t) = {}
        BY <1>1, <2>2, <3>1, <3>3, <4>1, GoneRows
      <4>3. ~Begun(next, i, t)
        BY <2>2, <3>1, <4>1 DEF Begun
      <4> QED
        BY <4>2, <4>3
    <3> QED
      BY <1>3, <3>1, <3>2, <3>3
  <2> QED
    BY <2>1, <2>2
<1>5. Begun(next, i, "ld") => LoadsOwned(E)
  BY <1>2, <1>4, TurnTables DEF Built
<1>6. ~(next = "BUS_Validate" /\ i # 0)
  BY <1>1
<1>7. Built(E, next, i)
  BY <1>2, <1>4, <1>5, <1>6, BuiltOn
<1> QED
  BY <1>2, <1>7, Continues DEF Goes

\* The first row of a call that lists its rows.
LEMMA FirstListed ==
  ASSUME Running, SInv, at = 0, pc \notin Quiet, pc # "ValidateEnd",
         NEW STATE E, ~Twice(E), Steady(rows, E), Typed(E), Becomes(E, pc, 1),
         IF pc = "LD_Validate" THEN LoadsOwned(E) ELSE OwnersSame(rows, E), pc = "BUS_Validate" => BusesHeld(E)
  PROVE  SInv'
<1>1. pc \in DOMAIN Left /\ Typed(rows) /\ Built(rows, pc, 0) /\ Apart(rows)
  BY DEF Running, SInv, Sound
<1>2. pc = "LD_Validate" => ~Begun(pc, 0, "ld")
  BY DEF Begun, Turn, TurnOf
<1>3. Built(E, pc, 0) /\ Apart(E)
  BY <1>1, <1>2, BuiltKept, ApartKept DEF Steady
<1>4. \A t \in DOMAIN TurnOf : Gone(E, pc, 1, t) = Gone(E, pc, 0, t)
  <2> TAKE t \in DOMAIN TurnOf
  <2>1. Turn[pc] \in Nat /\ TurnOf[t] \in Nat /\ pc \in DOMAIN Turn
    BY <1>1, TurnNumbers
  <2>2. Turn[pc] < TurnOf[t] \/ Turn[pc] > TurnOf[t] \/ Turn[pc] = TurnOf[t]
    BY <2>1
  <2>3. Gone(E, pc, 1, t) = Gone(E, pc, 0, t)
    BY <2>1, <2>2, GoneRows
  <2> QED
    BY <2>3
<1>5. Begun(pc, 1, "ld") => LoadsOwned(E)
  <2>1. CASE pc = "LD_Validate"
    BY <2>1
  <2>2. CASE pc # "LD_Validate"
    <3>1. TurnOf["ld"] # Turn[pc]
      BY <1>1, <2>2, TurnNumbers, TurnTables DEF TurnOf, Turn
    <3> QED
      BY <1>3, <3>1 DEF Built, Begun
  <2> QED
    BY <2>1, <2>2
<1>6. Built(E, pc, 1)
  BY <1>3, <1>4, <1>5, BuiltOn
<1> QED
  BY <1>1, <1>3, <1>6, Continues DEF Goes

\* The next call, after a call has gone over its table.
LEMMA LastListed ==
  ASSUME Running, SInv, NEW STATE t, t \in DOMAIN TurnOf, TurnOf[t] = Turn[pc], at # 0, at \notin DOMAIN rows[t],
         NEW STATE next, next \in DOMAIN Left, Turn[next] = Turn[pc] + 1, Becomes(rows, next, 0)
  PROVE  SInv'
<1>1. pc \in DOMAIN Left /\ at \in Nat /\ Typed(rows) /\ ~Twice(rows) /\ Built(rows, pc, at) /\ Apart(rows)
  BY DEF Running, SInv, Sound
<1>2. ASSUME NEW u \in DOMAIN TurnOf
      PROVE  Gone(rows, next, 0, u) = Gone(rows, pc, at, u) /\ (Begun(next, 0, u) => Begun(pc, at, u))
  <2>1. Turn[pc] \in Nat /\ TurnOf[u] \in Nat /\ pc \in DOMAIN Turn /\ next \in DOMAIN Turn
    BY <1>1, TurnNumbers
  <2>2. CASE TurnOf[u] < Turn[pc]
    <3>1. Turn[next] > TurnOf[u]
      BY <2>1, <2>2
    <3> QED
      BY <1>1, <2>1, <2>2, <3>1, GoneRows DEF Begun
  <2>3. CASE TurnOf[u] > Turn[pc]
    <3>1. Turn[next] = TurnOf[u] \/ Turn[next] < TurnOf[u]
      BY <2>1, <2>3
    <3>2. Gone(rows, next, 0, u) = {} /\ Gone(rows, pc, at, u) = {}
      BY <1>1, <2>1, <2>3, <3>1, GoneRows
    <3>3. ~Begun(next, 0, u)
      BY <2>1, <3>1 DEF Begun
    <3> QED
      BY <3>2, <3>3
  <2>4. CASE TurnOf[u] = Turn[pc]
    <3>1. u = t /\ Turn[next] > TurnOf[u]
      BY <2>1, <2>4, TurnNumbers
    <3> QED
      BY <1>1, <2>1, <2>4, <3>1, GoneRows DEF Begun
  <2> QED
    BY <2>1, <2>2, <2>3, <2>4
<1>3. Begun(next, 0, "ld") => LoadsOwned(rows)
  BY <1>1, <1>2, TurnTables DEF Built
<1>4. Built(rows, next, 0)
  BY <1>1, <1>2, <1>3, BuiltOn
<1> QED
  BY <1>1, <1>4, Continues DEF Goes

\* The next row of the same call.
LEMMA RowListed ==
  ASSUME Running, SInv, NEW STATE t, NEW STATE r, <<t, r>> \in Turns, TurnOf[t] = Turn[pc], at \in DOMAIN rows[t], at # 0,
         NEW STATE E, ~Twice(E), Turned(rows, E, t, r, Gone(rows, pc, at, t), at), Becomes(E, pc, at + 1)
  PROVE  SInv'
<1>1. pc \in DOMAIN Left /\ at \in Nat /\ Typed(rows) /\ Built(rows, pc, at) /\ Apart(rows)
  BY DEF Running, SInv, Sound
<1>2. Built(E, pc, at + 1) /\ Apart(E)
  BY <1>1, TurnBuilt, TurnedApart
<1> QED
  BY <1>1, <1>2, Continues DEF Goes

-----------------------------------------------------------------------------
(* The calls of a pass keep what is listed.                                *)

LEMMA StationsListed ==
  ASSUME Running, SInv, ST_Validate
  PROVE  SInv'
<1>1. pc = "ST_Validate" /\ Sound(rows) /\ ~Twice(rows) /\ Typed(rows)
  BY DEF ST_Validate, Running, Sound
<1>2. \/ Becomes(R_CO_ST_Build(rows), "ZN_Validate", 0)
      \/ Becomes(rows, "ZN_Validate", 0)
      \/ Becomes(rows, "failed", 0)
  BY DEF ST_Validate
<1>3. "ZN_Validate" \in DOMAIN Left /\ Turn["ZN_Validate"] = Turn[pc] + 1 /\ pc \in Quiet
  BY <1>1, Calls DEF Turn, Quiet
<1>4. CASE Becomes(R_CO_ST_Build(rows), "ZN_Validate", 0)
  <2> DEFINE E == R_CO_ST_Build(rows)
  <2>1. Typed(E) /\ ~Twice(E) /\ Steady(rows, E) /\ OwnersSame(rows, E)
    BY <1>1, BuildsSteady
  <2> HIDE DEF E
  <2> QED
    BY <1>3, <1>4, <2>1, QuietStep DEF E
<1>5. CASE Becomes(rows, "ZN_Validate", 0)
  BY <1>1, <1>3, <1>5, SteadySelf, QuietStep
<1>6. CASE Becomes(rows, "failed", 0)
  BY <1>1, <1>6, Fails
<1> QED
  BY <1>2, <1>4, <1>5, <1>6

LEMMA ZonesPlaced ==
  ASSUME Running, SInv, ZN_Validate
  PROVE  SInv'
<1> DEFINE left == {n \in DOMAIN rows.zn[at].inds : rows.zn[at].inds[n] = NoRow}
           bad == \E z \in DOMAIN rows.zn : \E n \in DOMAIN rows.zn[z].inds : rows.zn[z].inds[n] = NoRow
           built == R_ST_ZN_Build(rows)
           placed == ZN_Node(rows, at, Min(left))
           whole == IF rows.zn = <<>> THEN rows ELSE R_ZN_ND_Build(rows)
<1>1. /\ pc = "ZN_Validate"
      /\ \/ at = 0 /\ Becomes(built, "ZN_Validate", 1)
         \/ at # 0 /\ Becomes(rows, "ZN_Validate", at + 1)
         \/ at \in DOMAIN rows["zn"] /\ at # 0 /\ left # {} /\ Becomes(placed, "ZN_Validate", at)
         \/ Becomes(rows, "failed", 0)
         \/ at # 0 /\ ~bad /\ Becomes(whole, "CB_Validate", 0)
  <2>1. 0 \notin DOMAIN rows["zn"]
    BY SomeKeys DEF Running, Sound, Typed, IsTable, IsList
  <2>2. /\ pc = "ZN_Validate"
        /\ CASE at = 0 -> Becomes(built, "ZN_Validate", 1)
             [] at \in DOMAIN rows.zn ->
                  IF left = {} \/ Full(rows, rows.zn[at].nds[Min(left)])
                  THEN Becomes(rows, "ZN_Validate", at + 1)
                  ELSE Becomes(placed, "ZN_Validate", at)
             [] OTHER -> IF bad THEN Becomes(rows, "failed", 0) ELSE Becomes(whole, "CB_Validate", 0)
    BY DEF ZN_Validate
  <2> HIDE DEF built, placed, whole, left, bad
  <2>3. CASE at = 0
    BY <2>1, <2>2, <2>3
  <2>4. CASE at \in DOMAIN rows["zn"]
    BY <2>1, <2>2, <2>4
  <2>5. CASE at # 0 /\ at \notin DOMAIN rows["zn"]
    BY <2>2, <2>5
  <2> QED
    BY <2>3, <2>4, <2>5
<1>2. /\ Sound(rows) /\ ~Twice(rows) /\ Typed(rows) /\ Apart(rows) /\ at \in Nat /\ at + 1 \in Nat
      /\ "ZN_Validate" \in DOMAIN Left /\ "CB_Validate" \in DOMAIN Left
      /\ Turn["CB_Validate"] = Turn[pc] + 1 /\ pc \in Quiet
  BY <1>1, Calls DEF Running, Sound, SInv, Turn, Quiet
<1>3. CASE at = 0 /\ Becomes(built, "ZN_Validate", 1)
  <2>1. Typed(built) /\ ~Twice(built) /\ Steady(rows, built) /\ OwnersSame(rows, built)
    BY <1>2, BuildsSteady
  <2> HIDE DEF built
  <2> QED
    BY <1>1, <1>2, <1>3, <2>1, QuietStep
<1>4. CASE at # 0 /\ Becomes(rows, "ZN_Validate", at + 1)
  BY <1>1, <1>2, <1>4, SteadySelf, QuietStep
<1>5. CASE at \in DOMAIN rows["zn"] /\ at # 0 /\ left # {} /\ Becomes(placed, "ZN_Validate", at)
  <2>1. Ready(rows, Pending(pc, at))
    BY <1>5, ReadyAt, SomeKeys
  <2>2. Min(left) \in DOMAIN rows.zn[at].inds
    <3>1. IsRow("zn", rows["zn"][at])
      BY <1>2, <1>5, SomeKeys DEF Typed, IsTable
    <3>2. PICK n \in Nat : DOMAIN rows["zn"][at].inds = 1..n
      BY <3>1 DEF IsRow, IsList
    <3>3. left \in SUBSET (1..n) /\ left # {}
      BY <1>5, <3>2
    <3> HIDE DEF left
    <3>4. Min(left) \in left
      BY <3>3, Extremes
    <3> QED
      BY <3>2, <3>3, <3>4
  <2> HIDE DEF left
  <2>3. Going(rows, placed, Pending(pc, at)) /\ ZonesHeld(rows, placed)
    BY <1>5, <2>1, <2>2, ZoneNodePlaced
  <2> HIDE DEF placed
  <2>4. Typed(placed) /\ ~Twice(placed) /\ Steady(rows, placed) /\ OwnersSame(rows, placed)
    BY <1>2, <2>3, ZonesHeldSteady DEF Going, Sound
  <2> QED
    BY <1>1, <1>2, <1>5, <2>4, QuietStep
<1>6. CASE Becomes(rows, "failed", 0)
  BY <1>2, <1>6, Fails
<1>7. CASE at # 0 /\ ~bad /\ Becomes(whole, "CB_Validate", 0)
  <2>1. Typed(whole) /\ ~Twice(whole) /\ Steady(rows, whole) /\ OwnersSame(rows, whole)
    <3>1. CASE rows.zn = <<>>
      <4>1. whole = rows
        BY <3>1
      <4> HIDE DEF whole
      <4> QED
        BY <1>2, <4>1, SteadySelf
    <3>2. CASE rows.zn # <<>>
      <4> DEFINE W == Left["ZN_Validate"] \ First["ZN_Validate"]
      <4>1. PassTrue(rows, W) /\ W \in SUBSET Relations /\ "r_zn_nd" \in W
        BY <1>1, <1>7, Calls, CallOrder DEF Running, Pending
      <4> HIDE DEF W
      <4>2. \A z \in DOMAIN rows.zn : \A n \in DOMAIN rows.zn[z].inds : rows.zn[z].inds[n] # NoRow
        BY <1>7
      <4>3. Sound(R_ZN_ND_Build(rows)) /\ ZonesListed(rows, R_ZN_ND_Build(rows))
        BY <1>2, <3>2, <4>1, <4>2, ZoneNodesBuilt
      <4>4. whole = R_ZN_ND_Build(rows)
        BY <3>2
      <4> HIDE DEF whole
      <4> QED
        BY <1>2, <4>3, <4>4, ZonesListedSteady DEF Sound
    <3> QED
      BY <3>1, <3>2
  <2> HIDE DEF whole
  <2> QED
    BY <1>1, <1>2, <1>7, <2>1, QuietStep
<1> QED
  BY <1>1, <1>3, <1>4, <1>5, <1>6, <1>7

LEMMA FaultInfosListed ==
  ASSUME Running, SInv, FI_Validate
  PROVE  SInv'
<1>1. Becomes(R_SEC_FI_Build(rows), "ValidateEnd", 0) /\ pc = "R_SEC_FI_Build"
  BY DEF FI_Validate
<1>2. /\ Sound(rows) /\ ~Twice(rows) /\ "ValidateEnd" \in DOMAIN Left
      /\ Turn["ValidateEnd"] = Turn[pc] + 1 /\ pc \in Quiet
  BY <1>1, Calls DEF Running, Turn, Quiet
<1> DEFINE E == R_SEC_FI_Build(rows)
<1>3. Typed(E) /\ ~Twice(E) /\ Steady(rows, E) /\ OwnersSame(rows, E)
  BY <1>2, BuildsSteady
<1> HIDE DEF E
<1> QED
  BY <1>1, <1>2, <1>3, QuietStep DEF E

\* No condenser is read, so that none takes a turn.
LEMMA CapacitorsListed ==
  ASSUME Running, SInv, CP_Validate
  PROVE  SInv'
<1> DEFINE built == R_ST_CP_Build(rows)
           wanted == HasStation(rows.cp[at])
           placed == OneEnd(rows, "cp", at, "r_nd_cp", "r_cp")
<1>1. /\ pc = "CP_Validate"
      /\ \/ at = 0 /\ Becomes(built, "CP_Validate", 1)
         \/ at \in DOMAIN rows["cp"]
         \/ Becomes(rows, "LD_Validate", 0)
  <2>1. Placing("CP_Validate", "cp", built, wanted, placed, "LD_Validate")
    BY DEF CP_Validate
  <2>2. "cp" \in Tables /\ Typed(rows)
    BY DEF Tables, Components, Running, Sound
  <2> HIDE DEF built, wanted, placed
  <2> QED
    BY <2>1, <2>2, PlacingCases
<1>2. /\ Sound(rows) /\ ~Twice(rows) /\ Typed(rows) /\ DOMAIN rows["cp"] = {}
      /\ "CP_Validate" \in DOMAIN Left /\ "LD_Validate" \in DOMAIN Left
      /\ Turn["LD_Validate"] = Turn[pc] + 1 /\ pc \in Quiet
  BY <1>1, Calls DEF Running, Sound, SInv, Apart, Turn, Quiet
<1>3. CASE at = 0 /\ Becomes(built, "CP_Validate", 1)
  <2>1. Typed(built) /\ ~Twice(built) /\ Steady(rows, built) /\ OwnersSame(rows, built)
    BY <1>2, BuildsSteady
  <2> HIDE DEF built
  <2> QED
    BY <1>1, <1>2, <1>3, <2>1, QuietStep
<1>4. CASE Becomes(rows, "LD_Validate", 0)
  BY <1>2, <1>4, SteadySelf, QuietStep
<1> QED
  BY <1>1, <1>2, <1>3, <1>4

LEMMA SourcesListed ==
  ASSUME Running, SInv, SO_Validate
  PROVE  SInv'
<1> DEFINE built == R_ST_SO_Build(rows)
           wanted == HasStation(rows.so[at])
           placed == OnNode(rows, "so", at, "ind", rows.so[at].nd)
<1>1. /\ pc = "SO_Validate"
      /\ \/ at = 0 /\ Becomes(built, "SO_Validate", 1)
         \/ at \in DOMAIN rows["so"] /\ at # 0 /\ Becomes(rows, "SO_Validate", at + 1)
         \/ at \in DOMAIN rows["so"] /\ at # 0 /\ Becomes(rows, "failed", at)
         \/ at \in DOMAIN rows["so"] /\ at # 0 /\ Becomes(placed, "SO_Validate", at + 1)
         \/ at # 0 /\ Becomes(rows, "SEC_Validate", 0)
  <2>1. Placing("SO_Validate", "so", built, wanted, placed, "SEC_Validate")
    BY DEF SO_Validate
  <2>2. "so" \in Tables /\ Typed(rows)
    BY DEF Tables, Components, Running, Sound
  <2> HIDE DEF built, wanted, placed
  <2> QED
    BY <2>1, <2>2, PlacingCases
<1>2. /\ Sound(rows) /\ ~Twice(rows) /\ Typed(rows) /\ at \in Nat /\ at + 1 \in Nat
      /\ "SO_Validate" \in DOMAIN Left /\ "SEC_Validate" \in DOMAIN Left
      /\ Turn["SEC_Validate"] = Turn[pc] + 1 /\ pc \in Quiet
  BY <1>1, Calls DEF Running, Sound, Turn, Quiet
<1>3. CASE at = 0 /\ Becomes(built, "SO_Validate", 1)
  <2>1. Typed(built) /\ ~Twice(built) /\ Steady(rows, built) /\ OwnersSame(rows, built)
    BY <1>2, BuildsSteady
  <2> HIDE DEF built
  <2> QED
    BY <1>1, <1>2, <1>3, <2>1, QuietStep
<1>4. CASE Becomes(rows, "SO_Validate", at + 1)
  BY <1>1, <1>2, <1>4, SteadySelf, QuietStep
<1>5. CASE Becomes(rows, "failed", at)
  BY <1>2, <1>5, Fails
<1>6. CASE at \in DOMAIN rows["so"] /\ at # 0 /\ Becomes(placed, "SO_Validate", at + 1)
  <2>1. Ready(rows, Pending(pc, at))
    <3>1. "so" \in Tables \ {"co", "cb"}
      BY DEF Tables, Components
    <3> QED
      BY <1>6, <3>1, ReadyAt
  <2>2. NodeKey(rows, "so", at, "ind", rows.so[at].nd)
    <3>1. "ind" \in Ptrs("so") /\ "so" \in Placed
      BY RowNames DEF Components, PtrNames, Placed
    <3> QED
      BY <1>6, <3>1 DEF NodeKey
  <2>3. Typed(placed) /\ NodeOnly(rows, placed, "so", at, "ind")
    BY <2>1, <2>2, SetToNode, NodeSetOnly DEF NodeIsSet, Going, Sound
  <2> HIDE DEF placed
  <2>4. \A t \in Tables \ {"nd", "so"} : placed[t] = rows[t]
    BY <2>3 DEF NodeOnly, Elsewhere
  <2>5. FieldsHeld(rows, placed, "zn")
    <3>1. "zn" \in Tables \ {"nd", "so"}
      BY SomeKeys
    <3> QED
      BY <2>4, <3>1 DEF FieldsHeld
  <2>6. Steady(rows, placed) /\ OwnersSame(rows, placed)
    BY <2>4, <2>5, FrameSteady
  <2>7. ~Twice(placed)
    <3>1. Relations \subseteq Tables \ {"nd", "so"}
      BY DEF Relations, Tables, Components
    <3>2. \A r \in Relations : OnceIn(placed, r)
      BY <1>2, <2>4, <3>1, TwiceMeans DEF OnceIn
    <3> QED
      BY <3>2, TwiceMeans
  <2> QED
    BY <1>1, <1>2, <1>6, <2>3, <2>6, <2>7, QuietStep
<1>7. CASE at # 0 /\ Becomes(rows, "SEC_Validate", 0)
  BY <1>2, <1>7, SteadySelf, QuietStep
<1> QED
  BY <1>1, <1>3, <1>4, <1>5, <1>6, <1>7

\* A branch that is skipped has no node, so that it is listed at none.
LEMMA BranchSkipped ==
  ASSUME NEW D, Typed(D), NEW t \in {"cb", "switch"}, NEW r, NEW S \in SUBSET (DOMAIN D[t]), NEW i \in DOMAIN D[t],
         i \notin S, BranchesListed(D, t, r, S)
  PROVE  BranchesListed(D, t, r, S \cup {i})
<1>1. ~BothSet(D[t][i])
  BY DEF BranchesListed, BothSet
<1>2. {k \in S \cup {i} : BothSet(D[t][k])} = {k \in S : BothSet(D[t][k])}
  BY <1>1
<1> QED
  BY <1>2 DEF BranchesListed

\* The rows gone over when a call comes to row at of its table.
LEMMA HereGone ==
  ASSUME Running, SInv, NEW STATE t, t \in DOMAIN TurnOf, TurnOf[t] = Turn[pc], at \in DOMAIN rows[t]
  PROVE  /\ Gone(rows, pc, at, t) \in SUBSET (DOMAIN rows[t]) /\ at \notin Gone(rows, pc, at, t)
         /\ Built(rows, pc, at) /\ Apart(rows)
<1>1. pc \in DOMAIN Turn /\ Typed(rows) /\ at \in Nat
  BY TurnNumbers DEF Running, Sound
<1> QED
  BY <1>1, GoneRows DEF Running, SInv

\* The calls that go over the breakers and the switches.
LEMMA BranchListed ==
  ASSUME Running, SInv, NEW STATE t, NEW STATE r, NEW STATE f,
         <<t, r, f>> \in {<<"cb", "r_nd_cb", "r_cb">>, <<"switch", "r_nd_switch", "r_switch">>},
         TurnOf[t] = Turn[pc], at \in DOMAIN rows[t], at # 0, HasStation(rows[t][at]) => Ready(rows, Pending(pc, at)),
         Becomes(IF HasStation(rows[t][at]) THEN BothEnds(rows, t, at, r, f) ELSE rows, pc, at + 1)
  PROVE  SInv'
<1> DEFINE S == Gone(rows, pc, at, t)
           E == BothEnds(rows, t, at, r, f)
<1>1. /\ t \in {"cb", "switch"} /\ t \in DOMAIN TurnOf /\ <<t, r>> \in Turns /\ <<t, r, f>> \in Branches
      /\ r \notin Pending(pc, at)
  BY Calls, TurnTables DEF Turns, Branches, Running
<1>2. S \in SUBSET (DOMAIN rows[t]) /\ at \notin S /\ Built(rows, pc, at) /\ Apart(rows) /\ ~Twice(rows) /\ Typed(rows)
  BY <1>1, HereGone DEF Running, Sound
<1>3. BranchesListed(rows, t, r, S) /\ rows[t][at].nd # rows[t][at].znd
  BY <1>1, <1>2 DEF Built, Apart
<1> HIDE DEF S
<1>4. CASE HasStation(rows[t][at])
  <2>1. BranchDone(rows, E, t, r, S, at)
    BY <1>1, <1>2, <1>3, <1>4, BranchTurn
  <2> HIDE DEF E
  <2>2. FieldsHeld(rows, E, t) /\ ~Twice(E)
    BY <2>1 DEF BranchDone, FieldsHeld
  <2>3. Turned(rows, E, t, r, S, at)
    BY <1>1, <2>1, <2>2 DEF Turned, BranchDone
  <2>4. Becomes(E, pc, at + 1)
    BY <1>4 DEF E
  <2> QED
    BY <1>1, <2>2, <2>3, <2>4, RowListed DEF S
<1>5. CASE ~HasStation(rows[t][at])
  <2>1. BranchesListed(rows, t, r, S \cup {at})
    BY <1>1, <1>2, <1>3, BranchSkipped
  <2>2. Turned(rows, rows, t, r, S, at)
    BY <1>1, <2>1 DEF Turned, Elsewhere, FieldsHeld
  <2>3. Becomes(rows, pc, at + 1)
    BY <1>5
  <2> QED
    BY <1>1, <1>2, <2>2, <2>3, RowListed DEF S
<1> QED
  BY <1>4, <1>5

LEMMA SwitchesListed ==
  ASSUME Running, SInv, SWITCH_Validate
  PROVE  SInv'
<1> DEFINE turn == IF HasStation(rows.switch[at]) THEN BothEnds(rows, "switch", at, "r_nd_switch", "r_switch") ELSE rows
           built == R_ST_SWITCH_Build(rows)
<1>1. /\ pc = "SWITCH_Validate"
      /\ \/ at = 0 /\ Becomes(built, "SWITCH_Validate", 1)
         \/ at \in DOMAIN rows["switch"] /\ at # 0 /\ Becomes(turn, "SWITCH_Validate", at + 1)
         \/ at \notin DOMAIN rows["switch"] /\ at # 0 /\ Becomes(rows, "BUS_Validate", 0)
  <2>1. Loop("SWITCH_Validate", "switch", built, turn, "BUS_Validate")
    BY DEF SWITCH_Validate
  <2> HIDE DEF turn, built
  <2> QED
    BY <2>1, LoopCases, SomeKeys DEF Running, Sound
<1>2. /\ Sound(rows) /\ ~Twice(rows) /\ "switch" \in DOMAIN TurnOf /\ TurnOf["switch"] = Turn[pc] /\ pc \notin Quiet
      /\ "BUS_Validate" \in DOMAIN Left /\ Turn["BUS_Validate"] = Turn[pc] + 1
  BY <1>1, Calls DEF Running, Turn, TurnOf, Quiet
<1>3. CASE at = 0 /\ Becomes(built, "SWITCH_Validate", 1)
  <2>1. Typed(built) /\ ~Twice(built) /\ Steady(rows, built) /\ OwnersSame(rows, built)
    BY <1>2, BuildsSteady
  <2> HIDE DEF built
  <2> QED
    BY <1>1, <1>2, <1>3, <2>1, FirstListed
<1>4. CASE at \in DOMAIN rows["switch"] /\ at # 0 /\ Becomes(turn, "SWITCH_Validate", at + 1)
  <2>1. Ready(rows, Pending(pc, at))
    BY <1>4, ReadyAt, SomeKeys
  <2> QED
    BY <1>1, <1>2, <1>4, <2>1, BranchListed
<1>5. CASE at \notin DOMAIN rows["switch"] /\ at # 0 /\ Becomes(rows, "BUS_Validate", 0)
  BY <1>2, <1>5, LastListed
<1> QED
  BY <1>1, <1>3, <1>4, <1>5

LEMMA BreakersListed ==
  ASSUME Running, SInv, CB_Validate
  PROVE  SInv'
<1> DEFINE turn == IF HasStation(rows.cb[at]) THEN BothEnds(rows, "cb", at, "r_nd_cb", "r_cb") ELSE rows
           built == R_ST_CB_Build(rows)
<1>1. /\ pc = "CB_Validate"
      /\ \/ at = 0 /\ Becomes(built, "CB_Validate", 1)
         \/ at \in DOMAIN rows["cb"] /\ at # 0 /\ Becomes(turn, "CB_Validate", at + 1)
         \/ at \notin DOMAIN rows["cb"] /\ at # 0 /\ Becomes(rows, "SWITCH_Validate", 0)
  <2>1. Loop("CB_Validate", "cb", built, turn, "SWITCH_Validate")
    BY DEF CB_Validate
  <2> HIDE DEF turn, built
  <2> QED
    BY <2>1, LoopCases DEF Running, Sound, Tables, Components
<1>2. /\ Sound(rows) /\ ~Twice(rows) /\ "cb" \in DOMAIN TurnOf /\ TurnOf["cb"] = Turn[pc] /\ pc \notin Quiet
      /\ "SWITCH_Validate" \in DOMAIN Left /\ Turn["SWITCH_Validate"] = Turn[pc] + 1
  BY <1>1, Calls DEF Running, Turn, TurnOf, Quiet
<1>3. CASE at = 0 /\ Becomes(built, "CB_Validate", 1)
  <2>1. Typed(built) /\ ~Twice(built) /\ Steady(rows, built) /\ OwnersSame(rows, built)
    BY <1>2, BuildsSteady
  <2> HIDE DEF built
  <2> QED
    BY <1>1, <1>2, <1>3, <2>1, FirstListed
<1>4. CASE at \in DOMAIN rows["cb"] /\ at # 0 /\ Becomes(turn, "CB_Validate", at + 1)
  <2>1. ASSUME HasStation(rows["cb"][at]) PROVE Ready(rows, Pending(pc, at))
    <3>1. /\ "r_st" \in DOMAIN Conversions["cb"] /\ Conversions["cb"]["r_st"] = "r_st_cb"
          /\ "cb" \in Tables /\ "r_st_cb" \in Tables \ {"co", "cb"}
      BY DEF Conversions, CB_RebuildPtr, Tables, Components, Relations
    <3>2. PtrTrue(rows, "cb", at, "r_st")
      BY <1>4, <3>1 DEF Running, PassTrue, PtrsTrue, Old
    <3>3. rows["cb"][at].ptr["r_st"] \in DOMAIN rows["r_st_cb"]
      BY <2>1, <3>1, <3>2 DEF PtrTrue, HasStation
    <3> QED
      BY <3>1, <3>3, ReadyAt
  <2> QED
    BY <1>1, <1>2, <1>4, <2>1, BranchListed
<1>5. CASE at \notin DOMAIN rows["cb"] /\ at # 0 /\ Becomes(rows, "SWITCH_Validate", 0)
  BY <1>2, <1>5, LastListed
<1> QED
  BY <1>1, <1>3, <1>4, <1>5

\* A section that keeps a node missing fails the pass.
LEMMA SectionsListed ==
  ASSUME Running, SInv, SEC_Validate
  PROVE  SInv'
<1> DEFINE built == R_ZN_SEC_Build(rows)
           D == BothEnds(rows, "sec", at, "r_nd_sec", "r_sec")
           S == Gone(rows, pc, at, "sec")
<1>1. /\ pc = "SEC_Validate"
      /\ \/ at = 0 /\ Becomes(built, "SEC_Validate", 1)
         \/ at \in DOMAIN rows["sec"] /\ at # 0 /\ Becomes(D, "failed", at + 1)
         \/ at \in DOMAIN rows["sec"] /\ at # 0 /\ ~NodeLost(D, "sec", at) /\ Becomes(D, "SEC_Validate", at + 1)
         \/ at \notin DOMAIN rows["sec"] /\ at # 0 /\ Becomes(rows, "R_SEC_FI_Build", 0)
  <2>1. 0 \notin DOMAIN rows["sec"]
    BY SomeKeys DEF Running, Sound, Typed, IsTable, IsList
  <2>2. /\ pc = "SEC_Validate"
        /\ CASE at = 0 -> Becomes(built, "SEC_Validate", 1)
             [] at \in DOMAIN rows.sec ->
                  Becomes(D, IF NodeLost(D, "sec", at) THEN "failed" ELSE "SEC_Validate", at + 1)
             [] OTHER -> Becomes(rows, "R_SEC_FI_Build", 0)
    BY DEF SEC_Validate
  <2> HIDE DEF built, D
  <2>3. CASE at = 0
    BY <2>1, <2>2, <2>3
  <2>4. CASE at \in DOMAIN rows["sec"]
    BY <2>1, <2>2, <2>4
  <2>5. CASE at # 0 /\ at \notin DOMAIN rows["sec"]
    BY <2>2, <2>5
  <2> QED
    BY <2>3, <2>4, <2>5
<1>2. /\ Sound(rows) /\ ~Twice(rows) /\ "sec" \in DOMAIN TurnOf /\ TurnOf["sec"] = Turn[pc] /\ pc \notin Quiet
      /\ "R_SEC_FI_Build" \in DOMAIN Left /\ Turn["R_SEC_FI_Build"] = Turn[pc] + 1
  BY <1>1, Calls DEF Running, Turn, TurnOf, Quiet
<1>3. CASE at = 0 /\ Becomes(built, "SEC_Validate", 1)
  <2>1. Typed(built) /\ ~Twice(built) /\ Steady(rows, built) /\ OwnersSame(rows, built)
    BY <1>2, BuildsSteady
  <2> HIDE DEF built
  <2> QED
    BY <1>1, <1>2, <1>3, <2>1, FirstListed
<1>4. ASSUME at \in DOMAIN rows["sec"] PROVE BranchDone(rows, D, "sec", "r_nd_sec", S, at) /\ Built(rows, pc, at)
  <2>1. Ready(rows, Pending(pc, at))
    BY <1>4, ReadyAt, SomeKeys
  <2>2. <<"sec", "r_nd_sec", "r_sec">> \in Branches /\ "r_nd_sec" \notin Pending(pc, at)
    BY Calls DEF Branches, Running
  <2>3. S \in SUBSET (DOMAIN rows["sec"]) /\ at \notin S /\ Built(rows, pc, at) /\ Apart(rows)
    BY <1>2, <1>4, HereGone
  <2>4. BranchesListed(rows, "sec", "r_nd_sec", S) /\ rows["sec"][at].nd # rows["sec"][at].znd
    BY <1>4, <2>3 DEF Built, Apart
  <2> HIDE DEF S, D
  <2> QED
    BY <1>2, <1>4, <2>1, <2>2, <2>3, <2>4, BranchTurn DEF D
<1> HIDE DEF D
<1>5. CASE at \in DOMAIN rows["sec"] /\ at # 0 /\ Becomes(D, "failed", at + 1)
  BY <1>4, <1>5, Fails DEF BranchDone
<1>6. CASE at \in DOMAIN rows["sec"] /\ at # 0 /\ ~NodeLost(D, "sec", at) /\ Becomes(D, "SEC_Validate", at + 1)
  <2>1. SectionsPlaced(rows, S) /\ S \in SUBSET (DOMAIN rows["sec"])
    BY <1>2, <1>4, <1>6, HereGone DEF Built
  <2> HIDE DEF S
  <2>2. SectionsPlaced(D, S \cup {at})
    BY <1>4, <1>6, <2>1 DEF SectionsPlaced, BranchDone, NodeLost, BothSet
  <2>3. FieldsHeld(rows, D, "sec") /\ ~Twice(D) /\ <<"sec", "r_nd_sec">> \in Turns
    BY <1>4, <1>6 DEF BranchDone, FieldsHeld, Turns
  <2>4. Turned(rows, D, "sec", "r_nd_sec", S, at)
    BY <1>4, <1>6, <2>2, <2>3 DEF Turned, BranchDone
  <2> QED
    BY <1>1, <1>2, <1>6, <2>3, <2>4, RowListed DEF S
<1>7. CASE at \notin DOMAIN rows["sec"] /\ at # 0 /\ Becomes(rows, "R_SEC_FI_Build", 0)
  BY <1>2, <1>7, LastListed
<1> QED
  BY <1>1, <1>3, <1>5, <1>6, <1>7

\* Every bus has a station and gets its node, or fails the pass.
LEMMA BusesListed ==
  ASSUME Running, SInv, BUS_Validate
  PROVE  SInv'
<1> DEFINE built == R_ST_BUS_Build(rows)
           wanted == HasStation(rows.bus[at])
           placed == OnNode(rows, "bus", at, "ind", rows.bus[at].nd)
           S == Gone(rows, pc, at, "bus")
<1>1. /\ pc = "BUS_Validate"
      /\ \/ at = 0 /\ Becomes(built, "BUS_Validate", 1)
         \/ at \in DOMAIN rows["bus"] /\ at # 0 /\ ~wanted /\ Becomes(rows, "BUS_Validate", at + 1)
         \/ at \in DOMAIN rows["bus"] /\ at # 0 /\ Becomes(rows, "failed", at)
         \/ at \in DOMAIN rows["bus"] /\ at # 0 /\ wanted /\ Becomes(placed, "BUS_Validate", at + 1)
         \/ at \notin DOMAIN rows["bus"] /\ at # 0 /\ Becomes(rows, "CP_Validate", 0)
  <2>1. Placing("BUS_Validate", "bus", built, wanted, placed, "CP_Validate")
    BY DEF BUS_Validate
  <2>2. "bus" \in Tables /\ Typed(rows)
    BY DEF Tables, Components, Running, Sound
  <2> HIDE DEF built, wanted, placed
  <2> QED
    BY <2>1, <2>2, PlacingCases
<1>2. /\ Sound(rows) /\ ~Twice(rows) /\ Typed(rows) /\ Apart(rows) /\ Built(rows, pc, at)
      /\ "bus" \in DOMAIN TurnOf /\ TurnOf["bus"] = Turn[pc] /\ pc \notin Quiet
      /\ "CP_Validate" \in DOMAIN Left /\ Turn["CP_Validate"] = Turn[pc] + 1
  BY <1>1, Calls DEF Running, SInv, Sound, Turn, TurnOf, Quiet
<1>3. CASE at = 0 /\ Becomes(built, "BUS_Validate", 1)
  <2>1. Typed(built) /\ ~Twice(built) /\ Steady(rows, built) /\ OwnersSame(rows, built) /\ BusesHeld(built)
    BY <1>2, BuildsSteady, BusesBuilt
  <2> HIDE DEF built
  <2> QED
    BY <1>1, <1>2, <1>3, <2>1, FirstListed
<1>4. at # 0 => BusesHeld(rows)
  BY <1>1, <1>2 DEF Built
<1>5. CASE at \in DOMAIN rows["bus"] /\ at # 0 /\ ~wanted /\ Becomes(rows, "BUS_Validate", at + 1)
  BY <1>4, <1>5 DEF BusesHeld
<1>6. CASE at \in DOMAIN rows["bus"] /\ at # 0 /\ Becomes(rows, "failed", at)
  BY <1>2, <1>6, Fails
<1>7. CASE at \in DOMAIN rows["bus"] /\ at # 0 /\ wanted /\ Becomes(placed, "BUS_Validate", at + 1)
  <2>1. Ready(rows, Pending(pc, at))
    <3>1. "bus" \in Tables \ {"co", "cb"}
      BY DEF Tables, Components
    <3> QED
      BY <1>7, <3>1, ReadyAt
  <2>2. NodeKey(rows, "bus", at, "ind", rows.bus[at].nd)
    <3>1. "ind" \in Ptrs("bus") /\ "bus" \in Placed
      BY RowNames DEF Components, PtrNames, Placed
    <3> QED
      BY <1>7, <3>1 DEF NodeKey
  <2>3. NodeOnly(rows, placed, "bus", at, "ind")
    BY <2>1, <2>2, NodeSetOnly
  <2> HIDE DEF placed
  <2>4. BusesPlaced(rows, S) /\ S \in SUBSET (DOMAIN rows["bus"]) /\ at \notin S /\ BusesHeld(rows)
    BY <1>2, <1>4, <1>7, HereGone DEF Built
  <2> HIDE DEF S
  <2>5. BusesPlaced(placed, S \cup {at})
    BY <2>3, <2>4 DEF BusesPlaced, NodeOnly
  <2>6. BusesHeld(placed)
    BY <2>3, <2>4 DEF Ptrs, PtrNames, Relations, NodeOnly, BusesHeld, HasStation
  <2>7. Elsewhere(rows, placed, {"nd", "bus"}) /\ FieldsHeld(rows, placed, "bus")
    BY <2>3 DEF NodeOnly, FieldsHeld
  <2>8. ~Twice(placed)
    <3>1. Relations \subseteq Tables \ {"nd", "bus"}
      BY DEF Relations, Tables, Components
    <3>2. \A r \in Relations : OnceIn(placed, r)
      BY <1>2, <2>7, <3>1, TwiceMeans DEF OnceIn, Elsewhere
    <3> QED
      BY <3>2, TwiceMeans
  <2>9. Turned(rows, placed, "bus", "nd", S, at)
    BY <2>5, <2>6, <2>7 DEF Turned, Elsewhere
  <2>10. <<"bus", "nd">> \in Turns
    BY DEF Turns
  <2> QED
    BY <1>1, <1>2, <1>7, <2>8, <2>9, <2>10, RowListed DEF S
<1>8. CASE at \notin DOMAIN rows["bus"] /\ at # 0 /\ Becomes(rows, "CP_Validate", 0)
  BY <1>2, <1>8, LastListed
<1> QED
  BY <1>1, <1>3, <1>5, <1>6, <1>7, <1>8

LEMMA LoadTurnsListed ==
  ASSUME Running, SInv, LD_Validate
  PROVE  SInv'
<1> DEFINE built == R_ZN_LD_Build(R_ST_LD_Build(rows))
           wanted == HasOwner(rows.ld[at])
           placed == OneEnd(rows, "ld", at, "r_nd_ld", "r_ld")
           S == Gone(rows, pc, at, "ld")
<1>1. /\ pc = "LD_Validate"
      /\ \/ at = 0 /\ Becomes(built, "LD_Validate", 1)
         \/ at \in DOMAIN rows["ld"] /\ at # 0 /\ ~wanted /\ Becomes(rows, "LD_Validate", at + 1)
         \/ at \in DOMAIN rows["ld"] /\ at # 0 /\ Becomes(rows, "failed", at)
         \/ at \in DOMAIN rows["ld"] /\ at # 0 /\ wanted /\ Becomes(placed, "LD_Validate", at + 1)
         \/ at \notin DOMAIN rows["ld"] /\ at # 0 /\ Becomes(rows, "SO_Validate", 0)
  <2>1. Placing("LD_Validate", "ld", built, wanted, placed, "SO_Validate")
    BY DEF LD_Validate
  <2>2. "ld" \in Tables /\ Typed(rows)
    BY DEF Tables, Components, Running, Sound
  <2> HIDE DEF built, wanted, placed
  <2> QED
    BY <2>1, <2>2, PlacingCases
<1>2. /\ Sound(rows) /\ ~Twice(rows) /\ Typed(rows) /\ Apart(rows) /\ Built(rows, pc, at)
      /\ "ld" \in DOMAIN TurnOf /\ TurnOf["ld"] = Turn[pc] /\ pc \notin Quiet
      /\ "SO_Validate" \in DOMAIN Left /\ Turn["SO_Validate"] = Turn[pc] + 1 /\ <<"ld", "r_nd_ld">> \in Turns
  BY <1>1, Calls DEF Running, SInv, Sound, Turn, TurnOf, Quiet, Turns
<1>3. CASE at = 0 /\ Becomes(built, "LD_Validate", 1)
  <2>1. /\ PassTrue(rows, Left["LD_Validate"]) /\ Left["LD_Validate"] \in SUBSET Relations
        /\ {"r_st_ld", "r_zn_ld"} \subseteq Left["LD_Validate"]
    BY <1>1, <1>3, Calls, CallOrder DEF Running, Pending
  <2>2. Typed(built) /\ ~Twice(built) /\ Steady(rows, built) /\ LoadsOwned(built)
    BY <1>2, <2>1, LoadsBuilt
  <2> HIDE DEF built
  <2> QED
    BY <1>1, <1>2, <1>3, <2>2, FirstListed
<1>4. ASSUME at \in DOMAIN rows["ld"], at # 0
      PROVE  /\ LoadsListed(rows, S) /\ S \in SUBSET (DOMAIN rows["ld"]) /\ at \notin S
             /\ LoadsOwned(rows)
  <2>1. Begun(pc, at, "ld")
    BY <1>2, <1>4 DEF Begun
  <2> QED
    BY <1>2, <1>4, <2>1, HereGone DEF Built
<1> HIDE DEF S
<1>5. CASE at \in DOMAIN rows["ld"] /\ at # 0 /\ ~wanted /\ Becomes(rows, "LD_Validate", at + 1)
  <2>1. {k \in S \cup {at} : HasOwner(rows["ld"][k])} = {k \in S : HasOwner(rows["ld"][k])}
    BY <1>5
  <2>2. LoadsListed(rows, S \cup {at})
    BY <1>4, <1>5, <2>1 DEF LoadsListed
  <2>3. Turned(rows, rows, "ld", "r_nd_ld", S, at)
    BY <1>4, <1>5, <2>2 DEF Turned, Elsewhere, FieldsHeld
  <2> QED
    BY <1>1, <1>2, <1>5, <2>3, RowListed DEF S
<1>6. CASE at \in DOMAIN rows["ld"] /\ at # 0 /\ Becomes(rows, "failed", at)
  BY <1>2, <1>6, Fails
<1>7. CASE at \in DOMAIN rows["ld"] /\ at # 0 /\ wanted /\ Becomes(placed, "LD_Validate", at + 1)
  <2>1. Ready(rows, Pending(pc, at))
    <3>1. "ld" \in Tables \ {"co", "cb"}
      BY DEF Tables, Components
    <3> QED
      BY <1>7, <3>1, ReadyAt
  <2>2. "r_nd_ld" \notin Pending(pc, at)
    BY Calls DEF Running
  <2>3. LoadDone(rows, placed, S, at)
    BY <1>2, <1>4, <1>7, <2>1, <2>2, LoadTurn
  <2> HIDE DEF placed
  <2>4. PairsOf(placed, "r_st_ld") = PairsOf(rows, "r_st_ld") /\ PairsOf(placed, "r_zn_ld") = PairsOf(rows, "r_zn_ld")
    BY <2>3 DEF Tables, Relations, LoadDone, Elsewhere, PairsOf
  <2>5. LoadsOwned(placed)
    BY <1>4, <1>7, <2>3, <2>4, OwnedSame DEF LoadDone
  <2>6. Turned(rows, placed, "ld", "r_nd_ld", S, at) /\ ~Twice(placed)
    BY <2>3, <2>5 DEF Turned, LoadDone, Elsewhere
  <2> QED
    BY <1>1, <1>2, <1>7, <2>6, RowListed DEF S
<1>8. CASE at \notin DOMAIN rows["ld"] /\ at # 0 /\ Becomes(rows, "SO_Validate", 0)
  BY <1>2, <1>8, LastListed
<1> QED
  BY <1>1, <1>3, <1>5, <1>6, <1>7, <1>8

-----------------------------------------------------------------------------
(* The start of a pass.                                                    *)

\* A pass has listed nothing when it starts.
LEMMA NothingListed ==
  ASSUME NEW D, Typed(D), PassTrue(D, Whole), DOMAIN D["nd"] = {}, \A r \in Relations : DOMAIN D[r] = {}
  PROVE  Built(D, "ST_Validate", 0) /\ ~Twice(D)
<1>1. \A t \in DOMAIN TurnOf : Gone(D, "ST_Validate", 0, t) = {}
  <2>1. "ST_Validate" \in DOMAIN Turn /\ \A t \in DOMAIN TurnOf : Turn["ST_Validate"] < TurnOf[t]
    BY DEF Turn, TurnOf
  <2> QED
    BY <2>1, GoneRows
<1>2. /\ Gone(D, "ST_Validate", 0, "cb") = {} /\ Gone(D, "ST_Validate", 0, "switch") = {}
      /\ Gone(D, "ST_Validate", 0, "sec") = {} /\ Gone(D, "ST_Validate", 0, "ld") = {}
      /\ Gone(D, "ST_Validate", 0, "bus") = {} /\ ~Begun("ST_Validate", 0, "ld")
  BY <1>1, TurnTables DEF Begun, Turn, TurnOf
<1>3. \A r \in Relations : PairsOf(D, r) = {}
  BY DEF PairsOf
<1>4. ASSUME NEW t \in {"cb", "switch", "sec"}, NEW j \in DOMAIN D[t], NEW f \in {"ind", "iznd"}
      PROVE  D[t][j].ptr[f] = NoRow
  <2>1. f \in DOMAIN Conversions[t] /\ Conversions[t][f] = "nd" /\ t \in Tables /\ t # "st"
    BY DEF Conversions, CB_RebuildPtr, SWITCH_RebuildPtr, SEC_RebuildPtr, Tables, Components
  <2> QED
    BY <2>1 DEF PassTrue, PtrsTrue, PtrTrue, Old
<1>5. \A t \in {"cb", "switch", "sec"} : \A r \in Relations : BranchesListed(D, t, r, {})
  BY <1>3, <1>4 DEF BranchesListed
<1>6. {"r_nd_cb", "r_nd_switch", "r_nd_sec", "r_nd_ld"} \subseteq Relations
  BY DEF Relations
<1>7. SectionsPlaced(D, {}) /\ BusesPlaced(D, {}) /\ LoadsListed(D, {})
  BY <1>3, <1>6 DEF SectionsPlaced, BusesPlaced, LoadsListed
<1>8. Built(D, "ST_Validate", 0)
  BY <1>2, <1>5, <1>6, <1>7 DEF Built
<1>9. ~Twice(D)
  BY DEF Twice
<1> QED
  BY <1>8, <1>9

LEMMA PassListed ==
  ASSUME Waiting, SInv, ValidateStart
  PROVE  SInv'
<1>1. Apart(rows) /\ Sound(rows) /\ "ST_Validate" \in DOMAIN Left
  BY Calls DEF Waiting, SInv
<1>2. CASE rows.st = <<>>
  <2>1. Becomes(rows, "ST_Validate", 0)
    BY <1>2 DEF ValidateStart
  <2>2. PassTrue(rows, Whole)
    BY <1>1, <1>2, IdleStarts DEF Waiting
  <2>3. \A t \in Tables \ {"co", "cb"} : DOMAIN rows[t] = {}
    BY <1>1, <1>2, EmptyList DEF Sound, NoStations
  <2>4. DOMAIN rows["nd"] = {} /\ \A r \in Relations : DOMAIN rows[r] = {}
    <3>1. Relations \cup {"nd"} \subseteq Tables \ {"co", "cb"}
      BY DEF Relations, Tables, Components
    <3> QED
      BY <2>3, <3>1
  <2>5. Built(rows, "ST_Validate", 0) /\ ~Twice(rows)
    BY <1>1, <2>2, <2>4, NothingListed DEF Sound
  <2> QED
    BY <1>1, <2>1, <2>5, Continues DEF Goes
<1>3. CASE rows.st # <<>>
  <2> DEFINE E == Cleared(rows)
  <2>1. Becomes(E, "ST_Validate", 0)
    BY <1>3 DEF ValidateStart
  <2>2. Sound(E) /\ PassTrue(E, Whole) /\ IsCleared(rows, E)
    BY <1>1, <1>3, PassStarts DEF Ready
  <2> HIDE DEF E
  <2>3. DOMAIN E["nd"] = {} /\ \A r \in Relations : DOMAIN E[r] = {}
    BY <2>2, EmptyList DEF IsCleared
  <2>4. Built(E, "ST_Validate", 0) /\ ~Twice(E)
    BY <2>2, <2>3, NothingListed DEF Sound
  <2>5. RowsHeld(rows, E)
    <3>1. Network \subseteq Components \ {"nd"}
      BY DEF Network, Components
    <3> QED
      BY <2>2, <3>1 DEF IsCleared, RowsHeld, FieldsHeld
  <2>6. Apart(E)
    BY <1>1, <2>5, ApartKept
  <2> QED
    BY <1>1, <2>1, <2>4, <2>6, Continues DEF Goes
<1> QED
  BY <1>2, <1>3

-----------------------------------------------------------------------------
(* What is read has no branch that ends where it starts.                   *)

LEMMA ReadApart ==
  ASSUME SourceTyped(source), SourceApart(source)
  PROVE  /\ EndsApart(disconnector) /\ EndsApart(grounddisconnector)
         /\ EndsApart(subcontrolarea) /\ EndsApart(breaker) /\ EndsApart(aclinesegment)
         /\ \A i \in DOMAIN busbarsection : \E j \in DOMAIN source.st : source.st[j].id = busbarsection[i].stid
<1>1. EndsApart(disconnector)
  <2> DEFINE S == {i \in DOMAIN source.switch :
                     TwoEnded(source.switch[i]) /\ ~is_substn_dev(source.switch[i].stid)}
  <2>1. disconnector = Chosen(source.switch, S)
    BY DEF disconnector, Selected, Chosen
  <2>2. S \in SUBSET (DOMAIN source.switch) /\ \A i \in S : source.switch[i].nd # source.switch[i].znd
    BY DEF TwoEnded
  <2> HIDE DEF S
  <2>3. IsList(source.switch)
    BY DEF SourceTyped
  <2> QED
    BY <2>1, <2>2, <2>3, ChosenRows DEF EndsApart
<1>2. EndsApart(grounddisconnector)
  <2> DEFINE S == {i \in DOMAIN source.ground :
                     source.ground[i].nd > 0 /\ source.ground[i].kv10 /\ ~is_substn_dev(source.ground[i].stid)}
             taken == Chosen(source.ground, S)
  <2>1. grounddisconnector = [i \in DOMAIN taken |-> [stid |-> taken[i].stid, nd |-> taken[i].nd, znd |-> taken[i].id]]
    BY DEF grounddisconnector, Selected, Chosen
  <2>2. S \in SUBSET (DOMAIN source.ground) /\ \A i \in S : source.ground[i].nd # source.ground[i].id
    BY DEF SourceApart
  <2> HIDE DEF S
  <2>3. IsList(source.ground)
    BY DEF SourceTyped
  <2>4. \A i \in DOMAIN taken : taken[i].nd # taken[i].id
    BY <2>2, <2>3, ChosenRows
  <2> HIDE DEF taken
  <2> QED
    BY <2>1, <2>4 DEF EndsApart
<1>3. EndsApart(subcontrolarea)
  <2> DEFINE S == {i \in DOMAIN source.dv : source.dv[i].nd > 0 /\ source.dv[i].feeder /\ source.dv[i].bus # 0}
             taken == Chosen(source.dv, S)
  <2>1. subcontrolarea = [i \in DOMAIN taken |-> [stid |-> taken[i].sourceid, nd |-> taken[i].nd, znd |-> taken[i].busnd]]
    BY DEF subcontrolarea, Selected, Chosen
  <2>2. S \in SUBSET (DOMAIN source.dv) /\ \A i \in S : source.dv[i].nd # source.dv[i].busnd
    BY DEF SourceApart
  <2> HIDE DEF S
  <2>3. IsList(source.dv)
    BY DEF SourceTyped
  <2>4. \A i \in DOMAIN taken : taken[i].nd # taken[i].busnd
    BY <2>2, <2>3, ChosenRows
  <2> HIDE DEF taken
  <2> QED
    BY <2>1, <2>4 DEF EndsApart
<1>4. EndsApart(breaker)
  <2> DEFINE S == {i \in DOMAIN source.cb : TwoEnded(source.cb[i]) /\ ~is_substn_dev(source.cb[i].stid)}
  <2>1. breaker = Chosen(source.cb, S)
    BY DEF breaker, Selected, Chosen
  <2>2. S \in SUBSET (DOMAIN source.cb) /\ \A i \in S : source.cb[i].nd # source.cb[i].znd
    BY DEF TwoEnded
  <2> HIDE DEF S
  <2>3. IsList(source.cb)
    BY DEF SourceTyped
  <2> QED
    BY <2>1, <2>2, <2>3, ChosenRows DEF EndsApart
<1>5. EndsApart(aclinesegment)
  <2> DEFINE S == {i \in DOMAIN source.sec :
                     TwoEnded(source.sec[i]) /\ ~is_substn_dev(source.sec[i].stid) /\ ~is_substn_dev(source.sec[i].zstid)}
             taken == Chosen(source.sec, S)
             sorted == SortedById(taken)
  <2>1. aclinesegment = sorted
    BY DEF aclinesegment, Selected, Chosen, SortedById
  <2>2. S \in SUBSET (DOMAIN source.sec) /\ \A i \in S : source.sec[i].nd # source.sec[i].znd
    BY DEF TwoEnded
  <2> HIDE DEF S
  <2>3. /\ IsList(source.sec) /\ \A i \in DOMAIN source.sec : source.sec[i].id \in Nat
        /\ \A i, j \in DOMAIN source.sec : source.sec[i].id = source.sec[j].id => i = j
    BY DEF SourceTyped
  <2>4. Picks(source.sec, taken, S, [i \in S |-> i])
    BY <2>2, <2>3, ChosenPicks
  <2> HIDE DEF taken
  <2>5. PICK p \in [DOMAIN taken -> S] : /\ \A k \in DOMAIN taken : taken[k] = source.sec[p[k]]
                                         /\ \A k, l \in DOMAIN taken : p[k] = p[l] => k = l
    BY <2>4 DEF Picks
  <2>6. \A k \in DOMAIN taken : p[k] \in DOMAIN source.sec /\ p[k] \in S
    BY <2>2
  <2>7. /\ IsList(taken) /\ \A i \in DOMAIN taken : taken[i].id \in Nat /\ taken[i].nd # taken[i].znd
        /\ \A i, j \in DOMAIN taken : taken[i].id = taken[j].id => i = j
    BY <2>2, <2>3, <2>4, <2>5, <2>6 DEF Picks
  <2>8. Picks(taken, sorted, DOMAIN taken, [i \in DOMAIN taken |-> taken[i].id])
    BY <2>7, SortedPicks
  <2> HIDE DEF sorted
  <2>9. PICK q \in [DOMAIN sorted -> DOMAIN taken] : \A k \in DOMAIN sorted : sorted[k] = taken[q[k]]
    BY <2>8 DEF Picks
  <2> QED
    BY <2>1, <2>7, <2>9 DEF EndsApart
<1>6. \A i \in DOMAIN busbarsection : \E j \in DOMAIN source.st : source.st[j].id = busbarsection[i].stid
  <2> DEFINE virtual == {d.bus : d \in ToSet(source.dv)}
             S == {i \in DOMAIN source.bus :
                     /\ source.bus[i].nd > 0 /\ source.bus[i].kv10
                     /\ is_substn_dev(source.bus[i].stid) => source.bus[i].id \in virtual
                     /\ \E st \in Station(source.bus[i].stid) : st.kind # "ringmain"}
  <2>1. busbarsection = Chosen(source.bus, S)
    BY DEF busbarsection, Selected, Chosen
  <2>2. S \in SUBSET (DOMAIN source.bus) /\ \A i \in S : Station(source.bus[i].stid) # {}
    OBVIOUS
  <2> HIDE DEF S
  <2>3. IsList(source.bus)
    BY DEF SourceTyped
  <2>4. \A i \in DOMAIN busbarsection : Station(busbarsection[i].stid) # {}
    BY <2>1, <2>2, <2>3, ChosenRows
  <2> QED
    BY <2>4 DEF Station, ToSet
<1> QED
  BY <1>1, <1>2, <1>3, <1>4, <1>5, <1>6

\* Two lists of such branches make one.
LEMMA ConcatApart ==
  ASSUME NEW s, IsList(s), EndsApart(s), NEW u, IsList(u), EndsApart(u)
  PROVE  EndsApart(s \o u)
<1> DEFINE c == s \o u
<1>1. \A i \in DOMAIN c : c[i] \in {s[j] : j \in DOMAIN s} \cup {u[j] : j \in DOMAIN u}
  BY ConcatList
<1> HIDE DEF c
<1>2. \A i \in DOMAIN c : c[i].nd # c[i].znd
  BY <1>1 DEF EndsApart
<1> QED
  BY <1>2 DEF EndsApart, c

LEMMA ReadingApart ==
  ASSUME source \in Sources, ReadPSBOB
  PROVE  SInv'
<1> DEFINE D == [t \in Tables |-> Inserted(t, Read(t))]
<1>1. rows' = D /\ pc' = "ValidateStart"
  BY DEF ReadPSBOB
<1>2. SourceTyped(source) /\ SourceApart(source)
  BY SourcesAssumption, ApartAssumption
<1>3. \A t \in Tables : D[t] = Read(t)
  BY <1>2, ReadTables, InsertedIsCopy DEF ReadTrue
<1> HIDE DEF D
<1>4. {"cb", "switch", "sec", "st", "bus", "zn", "cp"} \subseteq Tables
  BY DEF Tables, Components
<1>5. \A j \in DOMAIN D["cb"] : D["cb"][j].nd # D["cb"][j].znd
  <2> DEFINE s == subcontrolarea \o breaker
  <2>1. EndsApart(s)
    BY <1>2, ReadLists, ReadApart, ConcatApart DEF BetweenNodes, AtNodes
  <2>2. Read("cb") = [i \in DOMAIN s |-> CLS_CB(i, s[i].stid, s[i].nd, s[i].znd)]
    BY ReadIs
  <2> HIDE DEF s
  <2> QED
    BY <1>3, <1>4, <2>1, <2>2 DEF EndsApart, CLS_CB
<1>6. \A j \in DOMAIN D["switch"] : D["switch"][j].nd # D["switch"][j].znd
  <2> DEFINE s == disconnector \o grounddisconnector
  <2>1. EndsApart(s)
    BY <1>2, ReadLists, ReadApart, ConcatApart DEF BetweenNodes, AtNodes
  <2>2. Read("switch") = [i \in DOMAIN s |-> CLS_SWITCH(i, s[i].stid, s[i].nd, s[i].znd)]
    BY ReadIs
  <2> HIDE DEF s
  <2> QED
    BY <1>3, <1>4, <2>1, <2>2 DEF EndsApart, CLS_SWITCH
<1>7. \A j \in DOMAIN D["sec"] : D["sec"][j].nd # D["sec"][j].znd
  <2> DEFINE s == aclinesegment
  <2>1. EndsApart(s)
    BY <1>2, ReadApart
  <2>2. Read("sec") = [i \in DOMAIN s |-> CLS_SEC(s[i].id, s[i].nd, s[i].znd)]
    BY ReadIs
  <2> HIDE DEF s
  <2> QED
    BY <1>3, <1>4, <2>1, <2>2 DEF EndsApart, CLS_SEC
<1>8. /\ DOMAIN D["st"] = DOMAIN source.st
      /\ \A i \in DOMAIN D["st"] : D["st"][i].pid = source.st[i].id
  BY <1>3, <1>4, ReadIs DEF CLS_ST
<1>9. \A i, j \in DOMAIN D["st"] : D["st"][i].pid = D["st"][j].pid => i = j
  BY <1>2, <1>8 DEF SourceApart
<1>10. /\ DOMAIN D["bus"] = DOMAIN busbarsection
       /\ \A i \in DOMAIN D["bus"] : D["bus"][i].stid = busbarsection[i].stid
  BY <1>3, <1>4, ReadIs DEF CLS_BUS
<1>11. \A j \in DOMAIN D["bus"] : \E i \in DOMAIN D["st"] : D["st"][i].pid = D["bus"][j].stid
  BY <1>2, <1>8, <1>10, ReadApart
<1>12. DOMAIN D["zn"] = {} /\ DOMAIN D["cp"] = {}
  BY <1>3, <1>4, ReadIs, EmptyList
<1>13. Apart(D)
  BY <1>5, <1>6, <1>7, <1>9, <1>11, <1>12 DEF Apart
<1>14. pc' # "exited" /\ pc' \notin DOMAIN Left /\ pc' \notin {"find_so", "ReadFromDsbob2"}
  BY <1>1, Calls
<1> QED
  BY <1>1, <1>13, <1>14 DEF SInv

-----------------------------------------------------------------------------
(* The end of a pass moves the rows and converts the pointers: what is     *)
(* listed and what is placed stays so.                                     *)

LEMMA BuiltIsComplete ==
  ASSUME NEW D, Typed(D), Built(D, "ValidateEnd", 0)
  PROVE  Complete(D)
<1>1. \A t \in DOMAIN TurnOf : Gone(D, "ValidateEnd", 0, t) = DOMAIN D[t]
  BY GoneRows DEF Turn, TurnOf
<1>2. Begun("ValidateEnd", 0, "ld")
  BY DEF Begun, Turn, TurnOf
<1> QED
  BY <1>1, <1>2, TurnTables DEF Built, Complete

LEMMA CarriedFrom ==
  ASSUME NEW D, NEW E, NEW L, Carried(D, E, L), NEW t \in Network, NEW k \in DOMAIN E[t]
  PROVE  \E i \in DOMAIN D[t] :
           L[t][i] = k /\ \A g \in Fields(t) \ {"ptr", "inds"} : E[t][k][g] = D[t][i][g]
BY DEF Carried, Permutes

LEMMA CarriedApart ==
  ASSUME NEW D, NEW E, NEW L, Carried(D, E, L), Apart(D)
  PROVE  Apart(E)
<1>0. {"cb", "switch", "sec", "st", "bus", "zn", "cp"} \subseteq Network
  BY DEF Network
<1>1. ASSUME NEW t \in {"cb", "switch", "sec"}, NEW k \in DOMAIN E[t]
      PROVE  E[t][k].nd # E[t][k].znd
  <2>1. t \in Network
    BY <1>0
  <2>2. PICK i \in DOMAIN D[t] : \A g \in Fields(t) \ {"ptr", "inds"} : E[t][k][g] = D[t][i][g]
    BY <2>1, CarriedFrom
  <2>3. E[t][k].nd = D[t][i].nd /\ E[t][k].znd = D[t][i].znd
    BY <2>2, NetworkFields
  <2> QED
    BY <2>3 DEF Apart
<1>2. ASSUME NEW k \in DOMAIN E["st"], NEW l \in DOMAIN E["st"], E["st"][k].pid = E["st"][l].pid
      PROVE  k = l
  <2>1. PICK i \in DOMAIN D["st"] : L["st"][i] = k /\ E["st"][k].pid = D["st"][i].pid
    BY <1>0, CarriedFrom, NetworkFields
  <2>2. PICK j \in DOMAIN D["st"] : L["st"][j] = l /\ E["st"][l].pid = D["st"][j].pid
    BY <1>0, CarriedFrom, NetworkFields
  <2>3. i = j
    BY <1>2, <2>1, <2>2 DEF Apart
  <2> QED
    BY <2>1, <2>2, <2>3
<1>3. ASSUME NEW k \in DOMAIN E["bus"]
      PROVE  \E l \in DOMAIN E["st"] : E["st"][l].pid = E["bus"][k].stid
  <2>1. PICK j \in DOMAIN D["bus"] : E["bus"][k].stid = D["bus"][j].stid
    BY <1>0, CarriedFrom, NetworkFields
  <2>2. PICK i \in DOMAIN D["st"] : D["st"][i].pid = D["bus"][j].stid
    BY DEF Apart
  <2>3. L["st"][i] \in DOMAIN E["st"] /\ E["st"][L["st"][i]].pid = D["st"][i].pid
    BY <1>0, NetworkFields DEF Carried, Permutes
  <2> QED
    BY <2>1, <2>2, <2>3
<1>4. ASSUME NEW k \in DOMAIN E["zn"], NEW m \in DOMAIN E["zn"][k].nds, NEW n \in DOMAIN E["zn"][k].nds,
             E["zn"][k].nds[m] = E["zn"][k].nds[n]
      PROVE  m = n
  <2>1. PICK i \in DOMAIN D["zn"] : E["zn"][k].nds = D["zn"][i].nds
    BY <1>0, CarriedFrom, NetworkFields
  <2> QED
    BY <1>4, <2>1 DEF Apart
<1>5. DOMAIN E["cp"] = {}
  BY <1>0 DEF Apart, Carried
<1> QED
  BY <1>1, <1>2, <1>3, <1>4, <1>5 DEF Apart

LEMMA CarriedBranches ==
  ASSUME NEW D, NEW E, NEW L, Carried(D, E, L), NEW t \in {"cb", "switch", "sec"}, NEW r \in Lists,
         BranchesListed(D, t, r, DOMAIN D[t])
  PROVE  BranchesListed(E, t, r, DOMAIN E[t])
<1>1. {"id", "nd", "znd"} \subseteq Fields(t) \ {"ptr", "inds"} /\ {"ind", "iznd"} \subseteq Ptrs(t) /\ t \in Network
  BY NetworkFields DEF Network
<1>2. Permutes(L[t], DOMAIN D[t]) /\ DOMAIN E[t] = DOMAIN D[t]
  BY <1>1 DEF Carried
<1>3. ASSUME NEW i \in DOMAIN D[t]
      PROVE  (BothSet(E[t][L[t][i]]) <=> BothSet(D[t][i])) /\ EndPairs(E[t][L[t][i]]) = EndPairs(D[t][i])
  <2>1. E[t][L[t][i]].id = D[t][i].id /\ E[t][L[t][i]].nd = D[t][i].nd /\ E[t][L[t][i]].znd = D[t][i].znd
    BY <1>1 DEF Carried
  <2>2. \A f \in {"ind", "iznd"} : E[t][L[t][i]].ptr[f] = NoRow <=> D[t][i].ptr[f] = NoRow
    BY <1>1 DEF Carried
  <2> QED
    BY <2>1, <2>2 DEF BothSet, EndPairs
<1> DEFINE A == {EndPairs(D[t][j]) : j \in {k \in DOMAIN D[t] : BothSet(D[t][k])}}
           B == {EndPairs(E[t][j]) : j \in {k \in DOMAIN E[t] : BothSet(E[t][k])}}
<1>4. \A x \in A : x \in B
  <2> SUFFICES ASSUME NEW i \in DOMAIN D[t], BothSet(D[t][i]) PROVE EndPairs(D[t][i]) \in B
    OBVIOUS
  <2>1. L[t][i] \in DOMAIN E[t] /\ BothSet(E[t][L[t][i]]) /\ EndPairs(E[t][L[t][i]]) = EndPairs(D[t][i])
    BY <1>2, <1>3 DEF Permutes
  <2> QED
    BY <2>1
<1>5. \A x \in B : x \in A
  <2> SUFFICES ASSUME NEW k \in DOMAIN E[t], BothSet(E[t][k]) PROVE EndPairs(E[t][k]) \in A
    OBVIOUS
  <2>1. PICK i \in DOMAIN D[t] : L[t][i] = k
    BY <1>2 DEF Permutes
  <2>2. BothSet(D[t][i]) /\ EndPairs(E[t][k]) = EndPairs(D[t][i])
    BY <1>3, <2>1
  <2> QED
    BY <2>2
<1>6. A = B
  BY <1>4, <1>5
<1>7. PairsOf(E, r) = PairsOf(D, r)
  BY DEF Carried
<1> QED
  BY <1>6, <1>7 DEF BranchesListed

LEMMA CarriedComplete ==
  ASSUME NEW D, NEW E, NEW L, Carried(D, E, L), Complete(D)
  PROVE  Complete(E)
<1>0. {"sec", "ld", "bus"} \subseteq Network /\ \A t \in {"sec", "ld", "bus"} :
        Permutes(L[t], DOMAIN D[t]) /\ DOMAIN E[t] = DOMAIN D[t]
  BY DEF Carried, Network
<1>1. /\ BranchesListed(E, "cb", "r_nd_cb", DOMAIN E["cb"])
      /\ BranchesListed(E, "switch", "r_nd_switch", DOMAIN E["switch"])
      /\ BranchesListed(E, "sec", "r_nd_sec", DOMAIN E["sec"])
  BY CarriedBranches DEF Complete, Lists
<1>2. SectionsPlaced(E, DOMAIN E["sec"])
  <2> SUFFICES ASSUME NEW k \in DOMAIN E["sec"] PROVE BothSet(E["sec"][k])
    BY DEF SectionsPlaced
  <2>1. PICK i \in DOMAIN D["sec"] : L["sec"][i] = k
    BY <1>0 DEF Permutes
  <2>2. BothSet(D["sec"][i])
    BY DEF Complete, SectionsPlaced
  <2>3. \A f \in {"ind", "iznd"} : E["sec"][k].ptr[f] = NoRow <=> D["sec"][i].ptr[f] = NoRow
    BY <2>1, NetworkFields DEF Carried
  <2> QED
    BY <2>2, <2>3 DEF BothSet
<1>3. BusesPlaced(E, DOMAIN E["bus"])
  <2> SUFFICES ASSUME NEW k \in DOMAIN E["bus"] PROVE E["bus"][k].ptr["ind"] # NoRow
    BY DEF BusesPlaced
  <2>1. PICK i \in DOMAIN D["bus"] : L["bus"][i] = k
    BY <1>0 DEF Permutes
  <2>2. E["bus"][k].ptr["ind"] = NoRow <=> D["bus"][i].ptr["ind"] = NoRow
    BY <2>1, NetworkFields DEF Carried
  <2> QED
    BY <2>2 DEF Complete, BusesPlaced
<1>4. \A i \in DOMAIN D["ld"] :
        /\ E["ld"][L["ld"][i]].nd = D["ld"][i].nd /\ E["ld"][L["ld"][i]].id = D["ld"][i].id
        /\ HasOwner(E["ld"][L["ld"][i]]) <=> HasOwner(D["ld"][i])
  <2> SUFFICES ASSUME NEW i \in DOMAIN D["ld"]
               PROVE  /\ E["ld"][L["ld"][i]].nd = D["ld"][i].nd /\ E["ld"][L["ld"][i]].id = D["ld"][i].id
                      /\ HasOwner(E["ld"][L["ld"][i]]) <=> HasOwner(D["ld"][i])
    OBVIOUS
  <2>1. \A g \in {"id", "stid", "nd", "type", "zn_id"} : E["ld"][L["ld"][i]][g] = D["ld"][i][g]
    BY <1>0, NetworkFields DEF Carried
  <2>2. {"r_st", "r_zn"} \subseteq Ptrs("ld")
    BY RowNames DEF Components, PtrNames
  <2>3. \A f \in {"r_st", "r_zn"} : E["ld"][L["ld"][i]].ptr[f] = NoRow <=> D["ld"][i].ptr[f] = NoRow
    BY <2>2 DEF Carried
  <2>4. E["ld"][L["ld"][i]].type = D["ld"][i].type
    BY <2>1
  <2> QED
    BY <2>1, <2>3, <2>4 DEF HasOwner
<1>5. LoadsListed(E, DOMAIN E["ld"])
  <2> DEFINE A == {<<D["ld"][j].nd, D["ld"][j].id>> : j \in {k \in DOMAIN D["ld"] : HasOwner(D["ld"][k])}}
             B == {<<E["ld"][j].nd, E["ld"][j].id>> : j \in {k \in DOMAIN E["ld"] : HasOwner(E["ld"][k])}}
  <2>1. \A x \in A : x \in B
    <3> SUFFICES ASSUME NEW i \in DOMAIN D["ld"], HasOwner(D["ld"][i]) PROVE <<D["ld"][i].nd, D["ld"][i].id>> \in B
      OBVIOUS
    <3>1. L["ld"][i] \in DOMAIN E["ld"] /\ HasOwner(E["ld"][L["ld"][i]])
      BY <1>0, <1>4 DEF Permutes
    <3>2. <<E["ld"][L["ld"][i]].nd, E["ld"][L["ld"][i]].id>> = <<D["ld"][i].nd, D["ld"][i].id>>
      BY <1>4
    <3> QED
      BY <3>1, <3>2
  <2>2. \A x \in B : x \in A
    <3> SUFFICES ASSUME NEW k \in DOMAIN E["ld"], HasOwner(E["ld"][k]) PROVE <<E["ld"][k].nd, E["ld"][k].id>> \in A
      OBVIOUS
    <3>1. PICK i \in DOMAIN D["ld"] : L["ld"][i] = k
      BY <1>0 DEF Permutes
    <3>2. HasOwner(D["ld"][i]) /\ <<E["ld"][k].nd, E["ld"][k].id>> = <<D["ld"][i].nd, D["ld"][i].id>>
      BY <1>4, <3>1
    <3> QED
      BY <3>2
  <2>3. A = B
    BY <2>1, <2>2
  <2>4. PairsOf(E, "r_nd_ld") = PairsOf(D, "r_nd_ld") /\ PairsOf(D, "r_nd_ld") = A
    BY DEF Carried, Lists, Complete, LoadsListed
  <2> QED
    BY <2>3, <2>4 DEF LoadsListed
<1>6. LoadsOwned(E)
  <2> SUFFICES ASSUME NEW k \in DOMAIN E["ld"]
               PROVE  IF HasOwner(E["ld"][k]) THEN \E p \in Owners(E, k) : Owners(E, k) = {p} ELSE Owners(E, k) = {}
    BY DEF LoadsOwned
  <2>1. PICK i \in DOMAIN D["ld"] : L["ld"][i] = k
    BY <1>0 DEF Permutes
  <2>2. E["ld"][k].id = D["ld"][i].id /\ (HasOwner(E["ld"][k]) <=> HasOwner(D["ld"][i]))
    BY <1>4, <2>1
  <2>3. Owners(E, k) = Owners(D, i)
    BY <2>2 DEF Owners, Carried, Lists
  <2> QED
    BY <2>2, <2>3 DEF Complete, LoadsOwned
<1> QED
  BY <1>1, <1>2, <1>3, <1>5, <1>6 DEF Complete

LEMMA RebuiltCarried ==
  ASSUME NEW D, Sound(D), ~Twice(D), PassTrue(D, {})
  PROVE  Carried(D, RebuildPtr(D), LogByPh(D))
<1> DEFINE R == RebuildPtr(D)
           L == LogByPh(D)
<1>1. RebuiltFrom(D, R, L)
  BY RebuildIsMove
<1> HIDE DEF R, L
<1>2. ASSUME NEW t \in Network
      PROVE  /\ DOMAIN R[t] = DOMAIN D[t] /\ Permutes(L[t], DOMAIN D[t])
             /\ \A i \in DOMAIN D[t] : \A g \in Fields(t) \ {"ptr", "inds"} : R[t][L[t][i]][g] = D[t][i][g]
  <2>1. t \in Tables
    BY DEF Network, Tables, Components
  <2> QED
    BY <1>1, <2>1 DEF RebuiltFrom, Places1
<1>3. ASSUME NEW t \in {"cb", "switch", "sec", "bus", "ld"}, NEW f \in Ptrs(t) \cap {"ind", "iznd", "r_st", "r_zn"},
             NEW i \in DOMAIN D[t]
      PROVE  R[t][L[t][i]].ptr[f] = NoRow <=> D[t][i].ptr[f] = NoRow
  <2>1. t \in Tables /\ t \notin Twofold /\ f \in DOMAIN Conversions[t]
    <3>1. t \in Components
      BY DEF Components
    <3>2. Ptrs("cb") = {"ind", "iznd", "r_st"} /\ Ptrs("switch") = {"ind", "iznd", "r_st"}
          /\ Ptrs("sec") = {"ind", "iznd", "r_zn", "r_fi"} /\ Ptrs("bus") = {"ind", "r_st"}
          /\ Ptrs("ld") = {"ind", "r_st", "r_zn"}
      BY RowNames DEF Components, PtrNames
    <3> QED
      BY <3>1, <3>2 DEF Tables, Twofold, Conversions, CB_RebuildPtr, SWITCH_RebuildPtr, SEC_RebuildPtr, BUS_RebuildPtr,
         LD_RebuildPtr
  <2> DEFINE T == Conversions[t][f]
  <2>2. T \in Tables
    BY <2>1, Targets
  <2>3. R[t][L[t][i]].ptr[f] = Convert(L, T, D[t][i].ptr[f])
    BY <1>1, <2>1 DEF RebuiltFrom
  <2>4. D[t][i].ptr[f] # NoRow => D[t][i].ptr[f] \in DOMAIN D[T]
    BY <2>1 DEF PassTrue, PtrsTrue, PtrTrue, Old
  <2> HIDE DEF T
  <2>5. Permutes(L[T], DOMAIN D[T]) /\ NoRow \notin DOMAIN D[T]
    BY <1>1, <2>2 DEF RebuiltFrom, Places1
  <2> QED
    BY <2>3, <2>4, <2>5 DEF Convert, Permutes
<1>4. ASSUME NEW r \in Lists PROVE PairsOf(R, r) = PairsOf(D, r)
  <2>1. r \in Tables /\ r \in Relations
    BY DEF Lists, Relations, Tables
  <2>2. /\ DOMAIN R[r] = DOMAIN D[r] /\ Permutes(L[r], DOMAIN D[r])
        /\ \A i \in DOMAIN D[r] : SameKeys(r, D[r][i], R[r][L[r][i]])
    BY <1>1, <2>1 DEF RebuiltFrom, Places1
  <2>3. \A i \in DOMAIN D[r] : R[r][L[r][i]].par = D[r][i].par /\ R[r][L[r][i]].chi = D[r][i].chi
    BY <2>1, <2>2, RelationNames DEF SameKeys
  <2>4. \A x \in PairsOf(D, r) : x \in PairsOf(R, r)
    <3> SUFFICES ASSUME NEW i \in DOMAIN D[r] PROVE <<D[r][i].par, D[r][i].chi>> \in PairsOf(R, r)
      BY DEF PairsOf
    <3>1. L[r][i] \in DOMAIN R[r]
      BY <2>2 DEF Permutes
    <3>2. <<R[r][L[r][i]].par, R[r][L[r][i]].chi>> \in PairsOf(R, r)
      BY <3>1 DEF PairsOf
    <3> QED
      BY <2>3, <3>2
  <2>5. \A x \in PairsOf(R, r) : x \in PairsOf(D, r)
    <3> SUFFICES ASSUME NEW k \in DOMAIN R[r] PROVE <<R[r][k].par, R[r][k].chi>> \in PairsOf(D, r)
      BY DEF PairsOf
    <3>1. PICK i \in DOMAIN D[r] : L[r][i] = k
      BY <2>2 DEF Permutes
    <3>2. <<D[r][i].par, D[r][i].chi>> \in PairsOf(D, r)
      BY DEF PairsOf
    <3> QED
      BY <2>3, <3>1, <3>2
  <2> QED
    BY <2>4, <2>5
<1> QED
  BY <1>2, <1>3, <1>4 DEF Carried, R, L

\* What is done after the pointers are converted concerns the nodes and sources.
LEMMA LastTouches ==
  ASSUME NEW D, Typed(D), NEW live
  PROVE  \A t \in Tables \ {"nd", "so"} : add_so(SetVL(D), live)[t] = D[t]
<1> DEFINE E == SetVL(D)
           F == add_so(E, live)
<1>1. D = [t \in Tables |-> D[t]]
  BY DEF Typed
<1>2. DOMAIN E = Tables /\ \A t \in Tables \ {"nd"} : E[t] = D[t]
  <2>1. \E u : E = [D EXCEPT !.nd = u]
    <3>1. CASE D.bus = <<>>
      <4>1. E = D
        BY <3>1 DEF SetVL
      <4>2. D = [D EXCEPT !.nd = D.nd]
        BY <1>1
      <4> HIDE DEF E
      <4> QED
        BY <4>1, <4>2
    <3>2. CASE D.bus # <<>>
      BY <3>2 DEF SetVL
    <3> QED
      BY <3>1, <3>2
  <2> HIDE DEF E
  <2> QED
    BY <1>1, <2>1
<1>3. \E s : F = [E EXCEPT !.so = s]
  BY DEF add_so
<1> HIDE DEF E, F
<1>4. \A t \in Tables \ {"so"} : F[t] = E[t]
  BY <1>2, <1>3
<1> QED
  BY <1>2, <1>4 DEF E, F

LEMMA PassCompletes ==
  ASSUME Running, SInv, ValidateEnd
  PROVE  SInv'
<1>1. Sound(rows) /\ ~Twice(rows) /\ PassTrue(rows, {}) /\ Apart(rows) /\ Complete(rows) /\ Typed(rows)
  <2>1. Pending("ValidateEnd", at) = {}
    BY DEF Pending, Left, First
  <2>2. pc = "ValidateEnd" /\ pc \in DOMAIN Left
    BY Calls DEF ValidateEnd
  <2>3. Sound(rows) /\ ~Twice(rows) /\ PassTrue(rows, {}) /\ Typed(rows)
    BY <2>1, <2>2 DEF Running, Sound
  <2>4. Apart(rows) /\ Built(rows, "ValidateEnd", at)
    BY <2>2 DEF SInv
  <2>5. Built(rows, "ValidateEnd", 0)
    <3>1. \A t \in DOMAIN TurnOf : Gone(rows, "ValidateEnd", at, t) = Gone(rows, "ValidateEnd", 0, t)
      BY DEF Turn, TurnOf, Gone
    <3>2. Begun("ValidateEnd", 0, "ld") /\ Begun("ValidateEnd", at, "ld")
      BY DEF Begun, Turn, TurnOf
    <3> QED
      BY <2>4, <3>1, <3>2, TurnTables DEF Built
  <2> QED
    BY <2>3, <2>4, <2>5, BuiltIsComplete
<1>2. pc' \in {"find_so", "ReadFromDsbob2"} /\ pc' # "exited" /\ pc' \notin DOMAIN Left
  BY Calls DEF ValidateEnd
<1>3. CASE rows.nd = <<>> /\ rows' = rows
  BY <1>1, <1>2, <1>3 DEF SInv
<1>4. CASE \E live \in source.live : rows' = add_so(SetVL(RebuildPtr(rows)), live)
  <2> DEFINE R == RebuildPtr(rows)
             L == LogByPh(rows)
  <2>1. PICK live \in source.live : rows' = add_so(SetVL(R), live)
    BY <1>4
  <2>2. Carried(rows, R, L)
    BY <1>1, RebuiltCarried
  <2>3. Typed(R)
    BY <1>1, RebuildIsMove DEF RebuiltFrom
  <2> HIDE DEF R, L
  <2>4. \A t \in Tables \ {"nd", "so"} : rows'[t] = R[t]
    BY <2>1, <2>3, LastTouches
  <2>5. Network \cup Lists \cup {"cb", "switch", "sec", "bus", "ld"} \subseteq Tables \ {"nd", "so"}
    BY DEF Network, Lists, Tables, Components, Relations
  <2>6. \A t \in Network \cup Lists \cup {"cb", "switch", "sec", "bus", "ld"} : rows'[t] = R[t]
    BY <2>4, <2>5
  <2>7. Carried(rows, rows', L)
    BY <2>2, <2>6 DEF Carried, PairsOf
  <2> QED
    BY <1>1, <1>2, <2>7, CarriedApart, CarriedComplete DEF SInv
<1> QED
  BY <1>3, <1>4 DEF ValidateEnd

-----------------------------------------------------------------------------
(* The whole start-up.                                                     *)

LEMMA ZonesClear ==
  ASSUME AfterPass, SInv, find_so
  PROVE  SInv'
<1>1. pc = "find_so" /\ pc' = "BuildZones" /\ rows' = [rows EXCEPT !.r_zn_ld = <<>>] /\ Apart(rows)
  BY DEF find_so, SInv
<1>2. \A t \in Network : rows'[t] = rows[t]
  BY <1>1 DEF AfterPass, Ended, Sound, Typed, Network, Tables, Components
<1>3. Apart(rows')
  BY <1>1, <1>2 DEF Apart, Network
<1> QED
  BY <1>1, <1>3, Calls DEF SInv

LEMMA ZonesApart ==
  ASSUME NEW D, Apart(D), NEW E, ZonesAre(D, E)
  PROVE  Apart(E)
<1>1. \A t \in {"cb", "switch", "sec", "st", "bus", "cp"} : SameRows(t, D[t], E[t])
  BY DEF Tables, Components, ZonesAre
<1>2. /\ \A t \in {"cb", "switch", "sec"} : {"nd", "znd"} \subseteq Keys(t)
      /\ "pid" \in Keys("st") /\ "stid" \in Keys("bus")
  BY DEF Keys, Fields, FieldNames, Relations
<1>3. \A t \in {"cb", "switch", "sec"} : \A j \in DOMAIN E[t] : E[t][j].nd # E[t][j].znd
  <2> SUFFICES ASSUME NEW t \in {"cb", "switch", "sec"}, NEW j \in DOMAIN E[t] PROVE E[t][j].nd # E[t][j].znd
    OBVIOUS
  <2>1. j \in DOMAIN D[t] /\ E[t][j].nd = D[t][j].nd /\ E[t][j].znd = D[t][j].znd
    BY <1>1, <1>2 DEF SameRows, SameKeys
  <2> QED
    BY <2>1 DEF Apart
<1>4. DOMAIN E["st"] = DOMAIN D["st"] /\ \A i \in DOMAIN D["st"] : E["st"][i].pid = D["st"][i].pid
  BY <1>1, <1>2 DEF SameRows, SameKeys
<1>5. DOMAIN E["bus"] = DOMAIN D["bus"] /\ \A i \in DOMAIN D["bus"] : E["bus"][i].stid = D["bus"][i].stid
  BY <1>1, <1>2 DEF SameRows, SameKeys
<1>6. DOMAIN E["cp"] = {}
  BY <1>1 DEF SameRows, Apart
<1>7. \A i, j \in DOMAIN E["st"] : E["st"][i].pid = E["st"][j].pid => i = j
  BY <1>4 DEF Apart
<1>8. \A j \in DOMAIN E["bus"] : \E i \in DOMAIN E["st"] : E["st"][i].pid = E["bus"][j].stid
  BY <1>4, <1>5 DEF Apart
<1>9. \A z \in DOMAIN E["zn"] : \A m, n \in DOMAIN E["zn"][z].nds :
        E["zn"][z].nds[m] = E["zn"][z].nds[n] => m = n
  BY DEF ZonesAre, Apart
<1> QED
  BY <1>3, <1>6, <1>7, <1>8, <1>9 DEF Apart

LEMMA ZonesBuiltApart ==
  ASSUME Waiting, SInv, BuildZones
  PROVE  SInv'
<1>1. pc = "BuildZones" /\ pc' \in {"ValidateStart", "BuildZones"} /\ Apart(rows) /\ Sound(rows)
  BY DEF BuildZones, SInv, Waiting
<1>2. Apart(rows')
  <2>1. CASE rows' = rows
    BY <1>1, <2>1
  <2>2. CASE at \in DOMAIN rows["nd"] /\ \E v : rows' = AddZone(rows, v)
    <3>1. rows.st # <<>>
      BY <2>2, SomeKeys, EmptyList, <1>1, StationsThere
    <3>2. ZonesAre(rows, rows')
      BY <1>1, <2>2, <3>1, ZoneAdded
    <3> QED
      BY <1>1, <3>2, ZonesApart
  <2>3. rows' = rows \/ (at \in DOMAIN rows["nd"] /\ \E v : rows' = AddZone(rows, v))
    BY DEF BuildZones
  <2> QED
    BY <2>1, <2>2, <2>3
<1> QED
  BY <1>1, <1>2, Calls DEF SInv

LEMMA ServedKept == IInv /\ SInv /\ [Next]_vars => SInv'
<1> SUFFICES ASSUME IInv, SInv, [Next]_vars PROVE SInv'
  OBVIOUS
<1>0. Phases /\ source \in Sources
  BY DEF IInv, Counts
<1>1. CASE ReadPSBOB
  BY <1>0, <1>1, ReadingApart
<1>2. CASE ValidateStart
  <2>1. Waiting
    BY <1>0, <1>2, PhaseOf DEF ValidateStart
  <2> QED
    BY <1>2, <2>1, PassListed
<1>3. CASE ST_Validate \/ ZN_Validate \/ CB_Validate \/ SWITCH_Validate \/ BUS_Validate \/ CP_Validate
  <2>1. Running
    BY <1>0, <1>3, PhaseOf, Calls DEF ST_Validate, ZN_Validate, CB_Validate, SWITCH_Validate, BUS_Validate, CP_Validate,
       Loop, Placing
  <2> QED
    BY <1>3, <2>1, StationsListed, ZonesPlaced, BreakersListed, SwitchesListed, BusesListed, CapacitorsListed
<1>4. CASE LD_Validate \/ SO_Validate \/ SEC_Validate \/ FI_Validate \/ ValidateEnd
  <2>1. Running
    BY <1>0, <1>4, PhaseOf, Calls DEF LD_Validate, SO_Validate, SEC_Validate, FI_Validate, ValidateEnd, Placing
  <2> QED
    BY <1>4, <2>1, LoadTurnsListed, SourcesListed, SectionsListed, FaultInfosListed, PassCompletes
<1>5. CASE find_so
  <2>1. AfterPass
    BY <1>0, <1>5, PhaseOf DEF find_so
  <2> QED
    BY <1>5, <2>1, ZonesClear
<1>6. CASE BuildZones
  <2>1. Waiting
    BY <1>0, <1>6, PhaseOf DEF BuildZones
  <2> QED
    BY <1>6, <2>1, ZonesBuiltApart
<1>7. CASE ReadFromDsbob2 \/ WriteReDB2
  <2>1. pc' \in {"WriteReDB2", "serving", "failed"}
    BY <1>7 DEF ReadFromDsbob2, WriteReDB2
  <2> QED
    BY <2>1, Calls DEF SInv
<1>8. CASE UNCHANGED vars
  BY <1>8 DEF vars, SInv
<1> QED
  BY <1>1, <1>2, <1>3, <1>4, <1>5, <1>6, <1>7, <1>8 DEF Next

\* A pass that has listed everything leaves the network complete.
LEMMA CompleteNetwork ==
  ASSUME Typed(rows), Complete(rows)
  PROVE  NetworkComplete
<1>1. \A r \in Relations : Pairs(r) = PairsOf(rows, r)
  <2> SUFFICES ASSUME NEW r \in Relations PROVE Pairs(r) = PairsOf(rows, r)
    OBVIOUS
  <2>1. RowsOf(r) = {rows[r][k] : k \in DOMAIN rows[r]}
    BY DEF RowsOf, ToSet
  <2> QED
    BY <2>1 DEF Pairs, PairsOf
<1>2. \A t \in Tables : RowsOf(t) = {rows[t][k] : k \in DOMAIN rows[t]}
  BY DEF RowsOf, ToSet
<1>3. /\ {"r_nd_cb", "r_nd_switch", "r_nd_sec", "r_nd_ld", "r_st_ld", "r_zn_ld"} \subseteq Relations
      /\ {"cb", "switch", "sec", "ld", "bus"} \subseteq Tables
  BY DEF Relations, Tables, Components
<1>4. \A d : EndPairs(d) = EndsOf(d) \X {d.id}
  BY DEF EndPairs, EndsOf
<1>5. ASSUME NEW t \in {"cb", "switch", "sec"}, NEW r \in Relations, BranchesListed(rows, t, r, DOMAIN rows[t])
      PROVE  Pairs(r) = UNION {EndsOf(d) \X {d.id} : d \in Placeds(t)}
  BY <1>2, <1>3, <1>4, <1>1, <1>5 DEF Placeds, BothSet, BranchesListed
<1>6. Placeds("sec") = RowsOf("sec")
  BY <1>2, <1>3 DEF Complete, SectionsPlaced, BothSet, Placeds
<1>7. OwnedLoads = {rows["ld"][j] : j \in {k \in DOMAIN rows["ld"] : HasOwner(rows["ld"][k])}}
  BY <1>2, <1>3 DEF OwnedLoads
<1>8. Pairs("r_nd_ld") = {<<l.nd, l.id>> : l \in OwnedLoads}
  BY <1>1, <1>3, <1>7 DEF Complete, LoadsListed
<1>9. \A b \in RowsOf("bus") : b.ptr.ind # NoRow
  BY <1>2, <1>3 DEF Complete, BusesPlaced
<1>10. ASSUME NEW l \in RowsOf("ld")
       PROVE  Cardinality({p \in Pairs("r_st_ld") \cup Pairs("r_zn_ld") : p[2] = l.id}) = (IF l \in OwnedLoads THEN 1 ELSE 0)
  <2>1. PICK j \in DOMAIN rows["ld"] : l = rows["ld"][j]
    BY <1>2, <1>3
  <2>2. {p \in Pairs("r_st_ld") \cup Pairs("r_zn_ld") : p[2] = l.id} = Owners(rows, j)
    BY <1>1, <1>3, <2>1 DEF Owners
  <2>3. l \in OwnedLoads <=> HasOwner(rows["ld"][j])
    BY <2>1 DEF OwnedLoads
  <2>4. CASE HasOwner(rows["ld"][j])
    <3>1. PICK p : Owners(rows, j) = {p}
      BY <2>4 DEF Complete, LoadsOwned
    <3> QED
      BY <2>2, <2>3, <2>4, <3>1, FS_Singleton
  <2>5. CASE ~HasOwner(rows["ld"][j])
    <3>1. Owners(rows, j) = {}
      BY <2>5 DEF Complete, LoadsOwned
    <3> QED
      BY <2>2, <2>3, <2>5, <3>1, FS_EmptySet
  <2> QED
    BY <2>4, <2>5
<1>11. /\ Pairs("r_nd_sec") = UNION {EndsOf(s) \X {s.id} : s \in RowsOf("sec")}
       /\ Pairs("r_nd_cb") = UNION {EndsOf(d) \X {d.id} : d \in Placeds("cb")}
       /\ Pairs("r_nd_switch") = UNION {EndsOf(d) \X {d.id} : d \in Placeds("switch")}
  BY <1>3, <1>5, <1>6 DEF Complete
<1> QED
  BY <1>8, <1>9, <1>10, <1>11 DEF NetworkComplete

\* Whatever the database holds, the start-up never inserts a row twice, which
\* would end the server, and a pass that ends has listed every branch at its
\* nodes, every load at its node and at one owner, and every bus at its node
\* (DoValidate, find_so).
THEOREM NetworkServedKept == Spec => []NetworkServed
<1>1. Init => SInv
  BY Calls DEF Init, SInv
<1>2. IInv /\ SInv => NetworkServed
  <2> SUFFICES ASSUME IInv, SInv PROVE NetworkServed
    OBVIOUS
  <2>1. NeverExits
    BY DEF SInv, NeverExits
  <2>2. NetworkComplete
    <3>1. CASE Passed
      BY <3>1, PhaseOf, CompleteNetwork DEF Passed, SInv, IInv
    <3>2. CASE ~Passed
      BY <3>2 DEF NetworkComplete
    <3> QED
      BY <3>1, <3>2
  <2> QED
    BY <2>1, <2>2 DEF NetworkServed
<1> QED
  BY <1>1, <1>2, StartsUnread, InvariantKept, ServedKept, PTL DEF Spec
=============================================================================
