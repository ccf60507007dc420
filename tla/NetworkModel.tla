---------------------------- MODULE NetworkModel ----------------------------
(***************************************************************************)
(* The network model of the distribution grid, as the server builds it     *)
(* when it starts: DSBOB2::ReadPSBOB reads the components of the real-time *)
(* database (dsbob2.cpp), NMD::DoValidate links them by relation tables    *)
(* and makes the table of nodes, NMD::find_so divides the network into     *)
(* zones, and a second DoValidate links the zones (Nmd.cpp, main.cpp).     *)
(* DSBOB::ReadFromDsbob2 copies the tables for the fault processors, and   *)
(* DSBOB2::WriteReDB2 writes them to the DMS database for the consoles.    *)
(*                                                                         *)
(* A table is the sequence of its rows, in physical order.  A row has the  *)
(* fields that decide what the code does and, under "ptr", its pointers:   *)
(* positions of rows of other tables.  The code's -1 is NoRow, and         *)
(* positions count from 1.                                                 *)
(***************************************************************************)
EXTENDS Integers, Sequences, FiniteSets, FiniteSetsExt, SequencesExt

CONSTANT Sources       \* the contents the real-time database may have; .live is the sets of
                       \* buses that may have a voltage when a pass ends

VARIABLES rows,        \* the tables (g_bob2)
          copy,        \* those of the fault processors (g_bob)
          dms,         \* those of the DMS database
          source,      \* what the real-time database holds
          dberrnum,    \* errors counted in the global record of the pass
          statusdb,    \* the verdict a finished pass has written
          zones,       \* the zones have been built
          pc,          \* the call of the start-up that is made, or comes next
          at,          \* the row its loop has come to, 0 before the loop
          visited      \* the nodes find has visited (bvisited_nd)

results == <<copy, dms, source, statusdb, zones, visited>>
vars == <<rows, copy, dms, source, dberrnum, statusdb, zones, pc, at, visited>>

\* Node numbers and keys are naturals, and a key of the database names one row.
IsList(s) == Len(s) \in Nat /\ DOMAIN s = 1..Len(s) /\ s = [i \in DOMAIN s |-> s[i]]
SourceTyped(s) ==
  /\ \A t \in {"co", "st", "dv", "cb", "switch", "ground", "sec", "bus", "ld", "fi"} : IsList(s[t])
  /\ \A t \in {"dv", "cb", "switch", "ground", "sec", "bus", "ld"} : \A i \in DOMAIN s[t] : s[t][i].nd \in Nat
  /\ \A t \in {"cb", "switch", "sec"} : \A i \in DOMAIN s[t] : s[t][i].znd \in Nat
  /\ \A i \in DOMAIN s.dv : s.dv[i].busnd \in Nat
  /\ \A t \in {"ground", "sec"} : \A i \in DOMAIN s[t] : s[t][i].id \in Nat
  /\ \A i, j \in DOMAIN s.sec : s.sec[i].id = s.sec[j].id => i = j
  /\ s.nd_size \in Nat

ASSUME SourcesAssumption == \A s \in Sources : SourceTyped(s)

\* A station is there once.  The ends of an earthing switch and of a feeder area
\* differ: of these two, unlike of the other branches, the code compares no ends.
SourceApart(s) ==
  /\ \A i, j \in DOMAIN s.st : s.st[i].id = s.st[j].id => i = j
  /\ \A i \in DOMAIN s.ground : s.ground[i].nd > 0 => s.ground[i].nd # s.ground[i].id
  /\ \A i \in DOMAIN s.dv : s.dv[i].nd > 0 => s.dv[i].nd # s.dv[i].busnd

ASSUME ApartAssumption == \A s \in Sources : SourceApart(s)

NoRow == 0

Range1(t, D) == 1..Len(D[t])
NoPtrs(names) == [f \in names |-> NoRow]
ZeroPtrs(names) == [f \in names |-> 1]     \* a record cleared by bzero
At(id, t, D) == {i \in Range1(t, D) : D[t][i].id = id}
\* A finite set in the order Less, which is total on it.
Ordered(S, Less(_, _)) ==
  [k \in 1..Cardinality(S) |-> CHOOSE x \in S : Cardinality({y \in S : Less(y, x)}) = k - 1]
\* The rows that are taken, in their order.
Selected(s, Taken(_)) ==
  LET kept == Ordered({i \in DOMAIN s : Taken(s[i])}, LAMBDA a, b : a < b)
  IN  [k \in DOMAIN kept |-> s[kept[k]]]
PosOf(id, t, D) == IF At(id, t, D) = {} THEN NoRow ELSE CHOOSE i \in At(id, t, D) : TRUE

-----------------------------------------------------------------------------
(* The records (netmom.h).                                                 *)

CLS_CO(id) == [id |-> id, ptr |-> NoPtrs({"r_st"})]
CLS_ST(id, pid) ==
  [id |-> id, pid |-> pid,
   ptr |-> NoPtrs({"r_co", "r_xfmr", "r_so", "r_cb", "r_switch", "r_ld", "r_cp", "r_bus", "r_zn"})]
CLS_CB(id, stid, nd, znd) ==
  [id |-> id, stid |-> stid, nd |-> nd, znd |-> znd, ptr |-> NoPtrs({"ind", "iznd", "r_st"})]
CLS_SWITCH(id, stid, nd, znd) ==
  [id |-> id, stid |-> stid, nd |-> nd, znd |-> znd, ptr |-> ZeroPtrs({"ind", "iznd", "r_st"})]
CLS_SO(id, stid, nd, ind) ==
  [id |-> id, stid |-> stid, nd |-> nd, ptr |-> [ind |-> ind, r_st |-> NoRow]]
CLS_LD(id, stid, nd) ==
  [id |-> id, stid |-> stid, nd |-> nd, type |-> 0, zn_id |-> 0,
   ptr |-> NoPtrs({"ind", "r_st", "r_zn"})]
CLS_CP(id, stid, nd) == [id |-> id, stid |-> stid, nd |-> nd, ptr |-> NoPtrs({"ind", "r_st"})]
CLS_BUS(id, pid, stid, nd) ==
  [id |-> id, pid |-> pid, stid |-> stid, nd |-> nd, ptr |-> NoPtrs({"ind", "r_st"})]
\* Mutant: the position is the code's -1.
CLS_FIMinusOne(id, sec) == [id |-> id, sec |-> sec, ptr |-> [r_sec |-> -1]]
CLS_FI(id, sec) == [id |-> id, sec |-> sec, ptr |-> NoPtrs({"r_sec"})]
CLS_ZN(id, nds, ends) ==
  [id |-> id, stid |-> 0, nds |-> nds, ends |-> ends, ptr |-> NoPtrs({"r_st", "r_ld", "r_sec", "r_nd"}),
   inds |-> [n \in DOMAIN nds |-> NoRow]]
CLS_SEC(id, nd, znd) ==
  [id |-> id, nd |-> nd, znd |-> znd, zn_id |-> 0,
   ptr |-> NoPtrs({"ind", "iznd", "r_zn", "r_fi"})]
CLS_ND(id) ==
  [id |-> id, zn_id |-> 0, unproc |-> FALSE,
   ptr |-> NoPtrs({"r_cb", "r_switch", "r_xf", "r_sec", "r_cp", "r_ld"})]

\* A row of a relation table: its parent, its child, their positions, and
\* the rows after and before it in the chain of its parent.
Relation(par, chi, parptr, chiptr, fptr, bptr) ==
  [par |-> par, chi |-> chi,
   ptr |-> [parptr |-> parptr, chiptr |-> chiptr, fptr |-> fptr, bptr |-> bptr]]

\* What operator= of each class copies: hand-written lists of members, by
\* which every row enters a table, is moved in it and is copied to another.
\* (The ends of a zone are no member: they stand for its properties.)
CO_Copied == {"id", "r_st"}
ST_Copied ==
  {"id", "pid", "r_co", "r_xfmr", "r_so", "r_cb", "r_switch", "r_ld", "r_cp", "r_bus", "r_zn"}
CB_Copied == {"id", "stid", "nd", "znd", "ind", "iznd", "r_st"}
SWITCH_Copied == {"id", "stid", "nd", "znd", "ind", "iznd", "r_st"}
SO_Copied == {"id", "stid", "nd", "ind", "r_st"}
LD_Copied == {"id", "stid", "nd", "ind", "type", "zn_id", "r_st", "r_zn"}
CP_Copied == {"id", "stid", "nd", "ind", "r_st"}
BUS_Copied == {"id", "pid", "stid", "nd", "ind", "r_st"}
FI_Copied == {"id", "sec", "r_sec"}
ZN_Copied == {"id", "stid", "nds", "inds", "ends", "r_st", "r_ld", "r_sec", "r_nd"}
SEC_Copied == {"id", "nd", "znd", "ind", "iznd", "zn_id", "r_zn", "r_fi"}
ND_Copied == {"id", "zn_id", "unproc", "r_cb", "r_switch", "r_xf", "r_sec", "r_cp", "r_ld"}
RelationCopied == {"par", "chi", "parptr", "chiptr", "fptr", "bptr"}

Relations ==
  {"r_co_st", "r_st_cb", "r_st_switch", "r_st_so", "r_st_ld", "r_st_cp", "r_st_bus", "r_st_zn",
   "r_zn_ld", "r_zn_sec", "r_zn_nd", "r_nd_cb", "r_nd_switch", "r_nd_sec", "r_nd_cp", "r_nd_ld",
   "r_sec_fi"}
Components == {"co", "st", "cb", "switch", "so", "ld", "cp", "bus", "zn", "sec", "nd", "fi"}
Tables == Components \cup Relations
NoRows == [t \in Tables |-> <<>>]

Copied ==
  [co |-> CO_Copied, st |-> ST_Copied, cb |-> CB_Copied, switch |-> SWITCH_Copied, so |-> SO_Copied,
   ld |-> LD_Copied, cp |-> CP_Copied, bus |-> BUS_Copied, fi |-> FI_Copied, zn |-> ZN_Copied,
   sec |-> SEC_Copied, nd |-> ND_Copied]
\* The row to after to = from; fields names what is copied.
Assigned(fields, to, from) ==
  [f \in DOMAIN from |->
     IF f = "ptr" THEN [p \in DOMAIN from.ptr |-> IF p \in fields THEN from.ptr[p] ELSE to.ptr[p]]
     ELSE IF f \in fields THEN from[f] ELSE to[f]]
Assign(t, to, from) == Assigned(IF t \in Relations THEN RelationCopied ELSE Copied[t], to, from)
\* A record that only has been constructed, and a row inserted over one.
Blank(row) == [f \in DOMAIN row |-> IF f = "ptr" THEN NoPtrs(DOMAIN row.ptr) ELSE 0]
Insert(t, seq, row) == Append(seq, Assign(t, Blank(row), row))
Inserted(t, seq) == [i \in DOMAIN seq |-> Assign(t, Blank(seq[i]), seq[i])]

-----------------------------------------------------------------------------
(* ReadPSBOB: which components of the real-time database are taken.  A     *)
(* component is left out when a node is missing, when both its ends are    *)
(* one node, when its voltage is not 10 kV, or when its station is         *)
(* unknown or a transformer substation.  Accepted rows are numbered.       *)

Station(id) == {st \in ToSet(source.st) : st.id = id}
is_substn_dev(stid) == \A st \in Station(stid) : st.kind = "substation"
Numbered(seq, Row(_, _)) == [i \in DOMAIN seq |-> Row(i, seq[i])]
\* Mutant: without the comparison of the two ends.
AnyEnds(d) == d.nd > 0 /\ d.znd > 0 /\ d.kv10
TwoEnded(d) == d.nd > 0 /\ d.znd > 0 /\ d.nd # d.znd /\ d.kv10

disconnector ==
  Selected(source.switch, LAMBDA d : TwoEnded(d) /\ ~is_substn_dev(d.stid))
\* The second end of an earthing switch is a node of its own.
grounddisconnector ==
  LET taken == Selected(source.ground, LAMBDA d : d.nd > 0 /\ d.kv10 /\ ~is_substn_dev(d.stid))
  IN  [i \in DOMAIN taken |-> [stid |-> taken[i].stid, nd |-> taken[i].nd, znd |-> taken[i].id]]
\* A feeder area fed through a substation's bus gets a virtual breaker.
subcontrolarea ==
  LET taken == Selected(source.dv, LAMBDA d : d.nd > 0 /\ d.feeder /\ d.bus # 0)
  IN  [i \in DOMAIN taken |-> [stid |-> taken[i].sourceid, nd |-> taken[i].nd, znd |-> taken[i].busnd]]
breaker == Selected(source.cb, LAMBDA d : TwoEnded(d) /\ ~is_substn_dev(d.stid))
faultinfo == Selected(source.fi, LAMBDA d : d.kv10 /\ ~is_substn_dev(d.stid) /\ d.sec > 0)
energyconsumer == Selected(source.ld, LAMBDA d : d.nd > 0 /\ d.kv10 /\ ~is_substn_dev(d.stid))
busbarsection ==
  LET virtual == {d.bus : d \in ToSet(source.dv)} IN
  Selected(source.bus, LAMBDA d :
    /\ d.nd > 0 /\ d.kv10
    /\ is_substn_dev(d.stid) => d.id \in virtual
    /\ \E st \in Station(d.stid) : st.kind # "ringmain")
aclinesegment ==
  LET taken == Selected(source.sec, LAMBDA d :
                 TwoEnded(d) /\ ~is_substn_dev(d.stid) /\ ~is_substn_dev(d.zstid))
      kept == Ordered(DOMAIN taken, LAMBDA i, j : taken[i].id < taken[j].id)
  IN  [k \in DOMAIN kept |-> taken[kept[k]]]

\* The rows of each table that are read.
Read(t) ==
  CASE t = "co" -> Numbered(source.co, LAMBDA i, d : CLS_CO(i))
    [] t = "st" -> Numbered(source.st, LAMBDA i, d : CLS_ST(i, d.id))
    [] t = "switch" -> Numbered(disconnector \o grounddisconnector,
                                LAMBDA i, d : CLS_SWITCH(i, d.stid, d.nd, d.znd))
    [] t = "cb" -> Numbered(subcontrolarea \o breaker, LAMBDA i, d : CLS_CB(i, d.stid, d.nd, d.znd))
    [] t = "fi" -> Numbered(faultinfo, LAMBDA i, d : CLS_FI(i, d.sec))
    [] t = "ld" -> Numbered(energyconsumer, LAMBDA i, d : CLS_LD(i, d.stid, d.nd))
    [] t = "bus" -> Numbered(busbarsection, LAMBDA i, d : CLS_BUS(i, d.id, d.stid, d.nd))
    [] t = "sec" -> Numbered(aclinesegment, LAMBDA i, d : CLS_SEC(d.id, d.nd, d.znd))
    [] OTHER -> <<>>
ReadPSBOB ==
  /\ pc = "ReadPSBOB"
  /\ rows' = [t \in Tables |-> Inserted(t, Read(t))]
  /\ pc' = "ValidateStart"
  /\ UNCHANGED <<results, dberrnum, at>>

-----------------------------------------------------------------------------
(* The pointers each ..._ResetPtr clears, and those each ..._RebuildPtr    *)
(* turns from physical into logical positions, with the table they point   *)
(* into.                                                                   *)

CO_ResetPtr == {"r_st"}
ST_ResetPtr == {"r_co", "r_xfmr", "r_so", "r_cb", "r_ld", "r_cp", "r_bus", "r_zn"}
CB_ResetPtr == {"ind", "iznd", "r_st"}
SWITCH_ResetPtr == {"ind", "iznd", "r_st"}
SO_ResetPtr == {"ind", "r_st"}
LD_ResetPtr == {"ind", "r_st", "r_zn"}
CP_ResetPtr == {"ind", "r_st"}
BUS_ResetPtr == {"ind", "r_st"}
ZN_ResetPtr == {"r_st", "r_ld", "r_sec"}
SEC_ResetPtr == {"ind", "iznd", "r_zn", "r_fi"}
FI_ResetPtr == {"r_sec"}

Resets ==
  [co |-> CO_ResetPtr, st |-> ST_ResetPtr, cb |-> CB_ResetPtr, switch |-> SWITCH_ResetPtr,
   so |-> SO_ResetPtr, ld |-> LD_ResetPtr, cp |-> CP_ResetPtr, bus |-> BUS_ResetPtr,
   zn |-> ZN_ResetPtr, sec |-> SEC_ResetPtr, fi |-> FI_ResetPtr]

Unset(t, row) == [row EXCEPT !.ptr = [f \in DOMAIN @ |-> IF f \in Resets[t] THEN NoRow ELSE @[f]]]
Unplaced(zone) == [zone EXCEPT !.inds = [n \in DOMAIN @ |-> NoRow]]
ResetPtr(D) ==
  [t \in Tables |->
     IF t \in DOMAIN Resets THEN [i \in DOMAIN D[t] |-> Unset(t, D[t][i])] ELSE D[t]]

CO_RebuildPtr == [r_st |-> "r_co_st"]
ST_RebuildPtr ==
  [r_co |-> "r_co_st", r_so |-> "r_st_so", r_cb |-> "r_st_cb", r_switch |-> "r_st_switch",
   r_ld |-> "r_st_ld", r_cp |-> "r_st_cp", r_bus |-> "r_st_bus", r_zn |-> "r_st_zn"]
CB_RebuildPtr == [r_st |-> "r_st_cb", ind |-> "nd", iznd |-> "nd"]
SWITCH_RebuildPtr == [r_st |-> "r_st_switch", ind |-> "nd", iznd |-> "nd"]
SO_RebuildPtr == [r_st |-> "r_st_so", ind |-> "nd"]
FI_RebuildPtr == [r_sec |-> "r_sec_fi"]
LD_RebuildPtr == [r_st |-> "r_st_ld", r_zn |-> "r_zn_ld", ind |-> "nd"]
CP_RebuildPtr == [r_st |-> "r_st_cp", ind |-> "nd"]
BUS_RebuildPtr == [r_st |-> "r_st_bus", ind |-> "nd"]
ZN_RebuildPtr == [r_st |-> "r_st_zn", r_ld |-> "r_zn_ld", r_sec |-> "r_zn_sec"]
SEC_RebuildPtr == [r_zn |-> "r_zn_sec", ind |-> "nd", iznd |-> "nd"]
ND_RebuildPtr ==
  [r_cb |-> "r_nd_cb", r_switch |-> "r_nd_switch", r_sec |-> "r_nd_sec", r_cp |-> "r_nd_cp",
   r_ld |-> "r_nd_ld"]

RelationPtr(r, p, c) == [parptr |-> p, chiptr |-> c, fptr |-> r, bptr |-> r]
R_CO_ST_RebuildPtr == RelationPtr("r_co_st", "co", "st")
R_ST_CB_RebuildPtr == RelationPtr("r_st_cb", "st", "cb")
R_ST_SWITCH_RebuildPtr == RelationPtr("r_st_switch", "st", "switch")
R_ST_SO_RebuildPtr == RelationPtr("r_st_so", "st", "so")
R_ST_LD_RebuildPtr == RelationPtr("r_st_ld", "st", "ld")
R_ST_CP_RebuildPtr == RelationPtr("r_st_cp", "st", "cp")
R_ST_BUS_RebuildPtr == RelationPtr("r_st_bus", "st", "bus")
R_ST_ZN_RebuildPtr == RelationPtr("r_st_zn", "st", "zn")
R_ZN_LD_RebuildPtr == RelationPtr("r_zn_ld", "zn", "ld")
R_ZN_SEC_RebuildPtr == RelationPtr("r_zn_sec", "zn", "sec")
R_ND_CB_RebuildPtr == RelationPtr("r_nd_cb", "nd", "cb")
R_ND_SWITCH_RebuildPtr == RelationPtr("r_nd_switch", "nd", "switch")
R_ZN_ND_RebuildPtr == RelationPtr("r_zn_nd", "zn", "nd")
R_ND_CP_RebuildPtr == RelationPtr("r_nd_cp", "nd", "cp")
R_ND_LD_RebuildPtr == RelationPtr("r_nd_ld", "nd", "ld")
R_SEC_FI_RebuildPtr == RelationPtr("r_sec_fi", "sec", "fi")
\* Mutant: the parent position is not converted.
R_ND_SEC_RebuildChild == [chiptr |-> "sec", fptr |-> "r_nd_sec", bptr |-> "r_nd_sec"]
R_ND_SEC_RebuildPtr == RelationPtr("r_nd_sec", "nd", "sec")

\* The calls of RebuildPtr; r_zn_nd is converted twice.  They are independent,
\* since no table is sorted before all are converted.
Conversions ==
  [co |-> CO_RebuildPtr, st |-> ST_RebuildPtr, zn |-> ZN_RebuildPtr, cb |-> CB_RebuildPtr,
   switch |-> SWITCH_RebuildPtr, so |-> SO_RebuildPtr, ld |-> LD_RebuildPtr, cp |-> CP_RebuildPtr,
   bus |-> BUS_RebuildPtr, sec |-> SEC_RebuildPtr, nd |-> ND_RebuildPtr, fi |-> FI_RebuildPtr,
   r_sec_fi |-> R_SEC_FI_RebuildPtr, r_co_st |-> R_CO_ST_RebuildPtr, r_st_cb |-> R_ST_CB_RebuildPtr,
   r_st_switch |-> R_ST_SWITCH_RebuildPtr, r_st_so |-> R_ST_SO_RebuildPtr,
   r_st_ld |-> R_ST_LD_RebuildPtr, r_st_cp |-> R_ST_CP_RebuildPtr, r_st_bus |-> R_ST_BUS_RebuildPtr,
   r_st_zn |-> R_ST_ZN_RebuildPtr, r_zn_ld |-> R_ZN_LD_RebuildPtr, r_zn_nd |-> R_ZN_ND_RebuildPtr,
   r_zn_sec |-> R_ZN_SEC_RebuildPtr, r_nd_cb |-> R_ND_CB_RebuildPtr,
   r_nd_switch |-> R_ND_SWITCH_RebuildPtr, r_nd_sec |-> R_ND_SEC_RebuildPtr,
   r_nd_cp |-> R_ND_CP_RebuildPtr, r_nd_ld |-> R_ND_LD_RebuildPtr]
Twofold == {"r_zn_nd"}

\* The order of a table: by id, a relation by parent and then by child.
Before(t, a, b) ==
  IF t \in Relations THEN a.par < b.par \/ (a.par = b.par /\ a.chi <= b.chi) ELSE a.id <= b.id
\* Sequence(false): the logical position of each row.
LogByPh(D) ==
  [t \in Tables |-> [i \in DOMAIN D[t] |->
     Cardinality({j \in DOMAIN D[t] : Before(t, D[t][j], D[t][i])})]]
\* Sequence(): the rows moved to their logical positions.
Moved(D, L) ==
  [t \in Tables |-> [k \in DOMAIN D[t] |->
     Assign(t, D[t][k], D[t][CHOOSE i \in DOMAIN D[t] : L[t][i] = k])]]

\* A position in the table of that name, from physical to logical.
Convert(L, table, p) == IF p = NoRow THEN NoRow ELSE L[table][p]
Converted(L, conv, ptr) ==
  [f \in DOMAIN ptr |-> IF f \in DOMAIN conv THEN Convert(L, conv[f], ptr[f]) ELSE ptr[f]]

RebuiltPtr(t, L, ptr) ==
  LET once == Converted(L, Conversions[t], ptr)
  IN  IF t \in Twofold THEN Converted(L, Conversions[t], once) ELSE once
Rebuilt(t, L, row) ==
  IF t = "zn"
  THEN [row EXCEPT !.ptr = RebuiltPtr(t, L, @), !.inds = [n \in DOMAIN @ |-> Convert(L, "nd", @[n])]]
  ELSE [row EXCEPT !.ptr = RebuiltPtr(t, L, @)]
RebuildPtr(D) ==
  LET L == LogByPh(D)
  IN  Moved([t \in Tables |-> [i \in DOMAIN D[t] |-> Rebuilt(t, L, D[t][i])]], L)

-----------------------------------------------------------------------------
(* A relation between two tables: a row for every matching pair, in the    *)
(* order of the two loops, chained per parent; the parent points to its    *)
(* first row and the child to its last.                                    *)

Matching(D, p, c, Match(_, _)) ==
  {ij \in Range1(p, D) \X Range1(c, D) : Match(D[p][ij[1]], D[c][ij[2]])}
Related(D, r, p, pf, c, cf, matching) ==
  LET pairs == Ordered(matching, LAMBDA a, b : a[1] < b[1] \/ (a[1] = b[1] /\ a[2] < b[2]))
      K == DOMAIN pairs
      OfParent(i) == {k \in K : pairs[k][1] = i}
      OfChild(j) == {k \in K : pairs[k][2] = j}
      Row(k) == LET i == pairs[k][1]
                    j == pairs[k][2]
                IN  Relation(D[p][i].id, D[c][j].id, i, j,
                             IF k + 1 \in OfParent(i) THEN k + 1 ELSE NoRow,
                             IF k - 1 \in OfParent(i) THEN k - 1 ELSE NoRow)
  IN  [D EXCEPT
        ![r] = Inserted(r, [k \in K |-> Row(k)]),
        ![p] = [i \in DOMAIN @ |-> IF OfParent(i) = {} THEN @[i]
                                   ELSE [@[i] EXCEPT !.ptr[pf] = Min(OfParent(i))]],
        ![c] = [j \in DOMAIN @ |-> IF OfChild(j) = {} THEN @[j]
                                   ELSE [@[j] EXCEPT !.ptr[cf] = Max(OfChild(j))]]]

OfStation(st, d) == st.pid = d.stid
LoadOfStation(st, ld) == ld.type = 0 /\ OfStation(st, ld)
LoadOfZone(zn, ld) == ld.type = 1 /\ zn.id = ld.zn_id
SecOfZone(zn, sec) == zn.id = sec.zn_id
OnSection(sec, fi) == fi.sec = sec.id
Always(co, st) == TRUE
R_CO_ST_Build(D) ==
  Related(D, "r_co_st", "co", "r_st", "st", "r_co", Matching(D, "co", "st", Always))
R_ST_ZN_Build(D) ==
  Related(D, "r_st_zn", "st", "r_zn", "zn", "r_st", Matching(D, "st", "zn", OfStation))
R_ST_CB_Build(D) ==
  Related(D, "r_st_cb", "st", "r_cb", "cb", "r_st", Matching(D, "st", "cb", OfStation))
R_ST_SWITCH_Build(D) ==
  Related(D, "r_st_switch", "st", "r_switch", "switch", "r_st", Matching(D, "st", "switch", OfStation))
R_ST_BUS_Build(D) ==
  Related(D, "r_st_bus", "st", "r_bus", "bus", "r_st", Matching(D, "st", "bus", OfStation))
R_ST_CP_Build(D) ==
  Related(D, "r_st_cp", "st", "r_cp", "cp", "r_st", Matching(D, "st", "cp", OfStation))
R_ST_SO_Build(D) ==
  Related(D, "r_st_so", "st", "r_so", "so", "r_st", Matching(D, "st", "so", OfStation))
R_ST_LD_Build(D) ==
  Related(D, "r_st_ld", "st", "r_ld", "ld", "r_st", Matching(D, "st", "ld", LoadOfStation))
R_ZN_LD_Build(D) ==
  Related(D, "r_zn_ld", "zn", "r_ld", "ld", "r_zn", Matching(D, "zn", "ld", LoadOfZone))
R_ZN_SEC_Build(D) ==
  Related(D, "r_zn_sec", "zn", "r_sec", "sec", "r_zn", Matching(D, "zn", "sec", SecOfZone))
R_SEC_FI_Build(D) ==
  Related(D, "r_sec_fi", "sec", "r_fi", "fi", "r_sec", Matching(D, "sec", "fi", OnSection))

\* The nodes of the zones; a node remembers its zone.
R_ZN_ND_Build(D) ==
  IF D.nd = <<>> THEN D ELSE
  LET inZone == UNION {{z} \X DOMAIN D.zn[z].nds : z \in DOMAIN D.zn}
      pairs == Ordered(inZone, LAMBDA a, b : a[1] < b[1] \/ (a[1] = b[1] /\ a[2] < b[2]))
      K == DOMAIN pairs
      OfZone(z) == {k \in K : pairs[k][1] = z}
      Row(k) == LET z == pairs[k][1]
                    n == pairs[k][2]
                IN  Relation(D.zn[z].id, D.zn[z].nds[n], z, D.zn[z].inds[n],
                             IF k + 1 \in OfZone(z) THEN k + 1 ELSE NoRow,
                             IF k - 1 \in OfZone(z) THEN k - 1 ELSE NoRow)
      ZonesAt(i) == {z \in DOMAIN D.zn : \E n \in DOMAIN D.zn[z].inds : D.zn[z].inds[n] = i}
  IN  [D EXCEPT
        !.r_zn_nd = Inserted("r_zn_nd", [k \in K |-> Row(k)]),
        !.zn = [z \in DOMAIN @ |-> IF OfZone(z) = {} THEN @[z]
                                   ELSE [@[z] EXCEPT !.ptr.r_nd = Min(OfZone(z))]],
        !.nd = [i \in DOMAIN @ |->
                 IF ZonesAt(i) = {} THEN @[i]
                 ELSE [@[i] EXCEPT !.zn_id = D.zn[Max(ZonesAt(i))].id]]]

-----------------------------------------------------------------------------
(* Nodes.                                                                  *)

\* No room for the node: ND_Insert fails.
Full(D, id) == PosOf(id, "nd", D) = NoRow /\ Len(D.nd) >= source.nd_size
ND_Insert(D, id) == IF PosOf(id, "nd", D) # NoRow THEN D ELSE [D EXCEPT !.nd = Insert("nd", @, CLS_ND(id))]

LastOf(D, r, k) ==
  LET last[j \in DOMAIN D[r]] ==
        IF D[r][j].ptr.fptr = NoRow THEN j ELSE last[D[r][j].ptr.fptr]
  IN  last[k]

\* Mutant: a node that has a chain keeps only its newest row.
ND_BR_Replace(D, r, f, nd, t, i) ==
  LET k == Len(D[r]) + 1 IN
  IF D.nd[nd].ptr[f] = NoRow
  THEN [D EXCEPT !.nd[nd].ptr[f] = k, ![r] = Append(@, Relation(D.nd[nd].id, D[t][i].id, nd, i, NoRow, NoRow))]
  ELSE [D EXCEPT ![r][D.nd[nd].ptr[f]] = Relation(D.nd[nd].id, D[t][i].id, nd, i, NoRow, NoRow)]
\* A row for the node at nd and the branch at i, at the end of the node's chain.
ND_BR_Insert(D, r, f, nd, t, i) ==
  LET k == Len(D[r]) + 1
      head == D.nd[nd].ptr[f]
      last == IF head = NoRow THEN NoRow ELSE LastOf(D, r, head)
      linked == IF head = NoRow THEN [D EXCEPT !.nd[nd].ptr[f] = k]
                ELSE [D EXCEPT ![r][last].ptr.fptr = k]
  IN  [linked EXCEPT ![r] = Insert(r, @, Relation(D.nd[nd].id, D[t][i].id, nd, i, NoRow, last))]

\* Set the pointer f of row i to the node id, which is inserted when new.
OnNode(D, t, i, f, id) ==
  LET E == ND_Insert(D, id) IN [E EXCEPT ![t][i].ptr[f] = PosOf(id, "nd", E)]

\* Both ends of a branch, then its rows; nothing more once a node does not fit.
BothEnds(D, t, i, r, f) ==
  LET row == D[t][i] IN
  IF Full(D, row.nd) THEN D
  ELSE LET near == OnNode(D, t, i, "ind", row.nd) IN
       IF Full(near, row.znd) THEN near
       ELSE LET far == OnNode(near, t, i, "iznd", row.znd)
                one == ND_BR_Insert(far, r, f, far[t][i].ptr.ind, t, i)
            IN  ND_BR_Insert(one, r, f, far[t][i].ptr.iznd, t, i)

\* The one node of a load or a capacitor, and its row.
OneEnd(D, t, i, r, f) ==
  LET on == OnNode(D, t, i, "ind", D[t][i].nd) IN ND_BR_Insert(on, r, f, on[t][i].ptr.ind, t, i)

NodeLost(D, t, i) == D[t][i].ptr.ind = NoRow \/ D[t][i].ptr.iznd = NoRow

-----------------------------------------------------------------------------
(* The calls of DoValidate.  A call that fails ends the server, and so     *)
(* does the second row of a relation for one parent and child, which       *)
(* DTable::Insert answers with exit.                                       *)

Twice(D) ==
  \E r \in Relations : \E j, k \in DOMAIN D[r] :
    j # k /\ D[r][j].par = D[r][k].par /\ D[r][j].chi = D[r][k].chi

\* The tables become D; the call next comes to row i.
Becomes(D, next, i) ==
  /\ rows' = D
  /\ pc' = IF Twice(D) THEN "exited" ELSE next
  /\ at' = i

\* A call that builds relations and then goes over the rows of a table.
Loop(this, t, built, turn, next) ==
  /\ pc = this
  /\ CASE at = 0 -> Becomes(built, this, 1)
       [] at \in DOMAIN rows[t] -> Becomes(turn, this, at + 1)
       [] OTHER -> Becomes(rows, next, 0)
  /\ UNCHANGED <<results, dberrnum>>

\* The same for rows with a place at one node: it fails at the first wanted
\* row whose node does not fit.
Placing(this, t, built, wanted, placed, next) ==
  /\ pc = this
  /\ CASE at = 0 -> Becomes(built, this, 1)
       [] at \in DOMAIN rows[t] ->
            IF ~wanted THEN Becomes(rows, this, at + 1)
            ELSE IF Full(rows, rows[t][at].nd) THEN Becomes(rows, "failed", at)
            ELSE Becomes(placed, this, at + 1)
       [] OTHER -> Becomes(rows, next, 0)
  /\ UNCHANGED results

\* Everything a pass builds is removed and the pointers are reset.
Cleared(D) ==
  LET emptied == [t \in Tables |-> IF t = "nd" \/ t \in Relations THEN <<>> ELSE D[t]]
  IN  [ResetPtr(emptied) EXCEPT !.zn = [z \in DOMAIN @ |-> Unplaced(@[z])]]
ValidateStart ==
  /\ pc = "ValidateStart"
  /\ Becomes(IF rows.st = <<>> THEN rows ELSE Cleared(rows), "ST_Validate", 0)
  /\ dberrnum' = 0
  /\ UNCHANGED results

ST_Validate ==
  /\ pc = "ST_Validate"
  /\ IF Len(rows.co) <= 1
     THEN Becomes(IF Len(rows.co) = 1 THEN R_CO_ST_Build(rows) ELSE rows, "ZN_Validate", 0)
     ELSE Becomes(rows, "failed", 0)
  /\ dberrnum' = dberrnum + Cardinality({i \in DOMAIN rows'.st : rows'.st[i].ptr.r_co = NoRow})
  /\ UNCHANGED results

\* The nodes of each zone, up to the first that does not fit.
ZN_Node(D, z, n) ==
  LET E == ND_Insert(D, D.zn[z].nds[n]) IN [E EXCEPT !.zn[z].inds[n] = PosOf(D.zn[z].nds[n], "nd", E)]
ZN_Validate ==
  LET left == {n \in DOMAIN rows.zn[at].inds : rows.zn[at].inds[n] = NoRow}
      bad == \E z \in DOMAIN rows.zn : \E n \in DOMAIN rows.zn[z].inds : rows.zn[z].inds[n] = NoRow
  IN  /\ pc = "ZN_Validate"
      /\ CASE at = 0 -> Becomes(R_ST_ZN_Build(rows), "ZN_Validate", 1)
           [] at \in DOMAIN rows.zn ->
                IF left = {} \/ Full(rows, rows.zn[at].nds[Min(left)])
                THEN Becomes(rows, "ZN_Validate", at + 1)
                ELSE Becomes(ZN_Node(rows, at, Min(left)), "ZN_Validate", at)
           [] OTHER -> IF bad THEN Becomes(rows, "failed", 0)
                       ELSE Becomes(IF rows.zn = <<>> THEN rows ELSE R_ZN_ND_Build(rows), "CB_Validate", 0)
      /\ UNCHANGED <<results, dberrnum>>

\* A breaker without a station is counted in the emptied table of the
\* global record, not in the record of the pass; a breaker whose node does
\* not fit is only reported.
HasStation(d) == d.ptr.r_st # NoRow
CB_Validate ==
  Loop("CB_Validate", "cb", R_ST_CB_Build(rows),
       IF HasStation(rows.cb[at]) THEN BothEnds(rows, "cb", at, "r_nd_cb", "r_cb") ELSE rows,
       "SWITCH_Validate")

SWITCH_Validate ==
  Loop("SWITCH_Validate", "switch", R_ST_SWITCH_Build(rows),
       IF HasStation(rows.switch[at])
       THEN BothEnds(rows, "switch", at, "r_nd_switch", "r_switch") ELSE rows,
       "BUS_Validate")

BUS_Validate ==
  /\ Placing("BUS_Validate", "bus", R_ST_BUS_Build(rows), HasStation(rows.bus[at]),
             OnNode(rows, "bus", at, "ind", rows.bus[at].nd), "CP_Validate")
  /\ dberrnum' = IF at \in DOMAIN rows.bus /\ ~HasStation(rows.bus[at]) THEN dberrnum + 1 ELSE dberrnum

CP_Validate ==
  /\ Placing("CP_Validate", "cp", R_ST_CP_Build(rows), HasStation(rows.cp[at]),
             OneEnd(rows, "cp", at, "r_nd_cp", "r_cp"), "LD_Validate")
  /\ UNCHANGED dberrnum

\* A load hangs on its station or on its zone.
HasOwner(ld) == ld.ptr[IF ld.type = 0 THEN "r_st" ELSE "r_zn"] # NoRow
LD_Validate ==
  /\ Placing("LD_Validate", "ld", R_ZN_LD_Build(R_ST_LD_Build(rows)), HasOwner(rows.ld[at]),
             OneEnd(rows, "ld", at, "r_nd_ld", "r_ld"), "SO_Validate")
  /\ UNCHANGED dberrnum

SO_Validate ==
  /\ Placing("SO_Validate", "so", R_ST_SO_Build(rows), HasStation(rows.so[at]),
             OnNode(rows, "so", at, "ind", rows.so[at].nd), "SEC_Validate")
  /\ UNCHANGED dberrnum

\* A section whose node does not fit ends the pass.
SEC_Validate ==
  LET D == BothEnds(rows, "sec", at, "r_nd_sec", "r_sec")
  IN  /\ pc = "SEC_Validate"
      /\ CASE at = 0 -> Becomes(R_ZN_SEC_Build(rows), "SEC_Validate", 1)
           [] at \in DOMAIN rows.sec ->
                Becomes(D, IF NodeLost(D, "sec", at) THEN "failed" ELSE "SEC_Validate", at + 1)
           [] OTHER -> Becomes(rows, "R_SEC_FI_Build", 0)
      /\ UNCHANGED <<results, dberrnum>>

FI_Validate ==
  /\ pc = "R_SEC_FI_Build"
  /\ Becomes(R_SEC_FI_Build(rows), "ValidateEnd", 0)
  /\ UNCHANGED <<results, dberrnum>>

-----------------------------------------------------------------------------
(* The end of a pass.                                                      *)

Opposite(branch, i) == IF branch.ptr.ind = i THEN branch.ptr.iznd ELSE branch.ptr.ind
\* FindChildPtr1: the children of the parent of a relation row.
Children(D, r, head) ==
  IF head = NoRow THEN <<>>
  ELSE LET own == SelectSeq(D[r], LAMBDA row : row.par = D[r][head].par)
       IN  [k \in DOMAIN own |-> own[k].ptr.chiptr]

Spread(D, buses) ==
  LET spread[S \in SUBSET DOMAIN D.nd] ==
        LET Over(t, r, f) ==
              UNION {{Opposite(D[t][b], i) : b \in ToSet(Children(D, r, D.nd[i].ptr[f]))} : i \in S}
            next == Over("cb", "r_nd_cb", "r_cb") \cup Over("sec", "r_nd_sec", "r_sec")
        IN  IF next \subseteq S THEN S ELSE spread[S \cup next]
  IN  spread[buses]

\* The nodes that breakers and sections join to no bus stay unprocessed.
SetVL(D) ==
  LET met == Spread(D, {D.bus[b].ptr.ind : b \in DOMAIN D.bus} \ {NoRow})
  IN  IF D.bus = <<>> THEN D
      ELSE [D EXCEPT !.nd = [i \in DOMAIN @ |-> [@[i] EXCEPT !.unproc = i \notin met]]]

\* One source for each bus that has a node and, now, a voltage.
add_so(D, live) ==
  LET fed == Selected(D.bus, LAMBDA b : b.ptr.ind # NoRow /\ b.pid \in live)
  IN  [D EXCEPT !.so = Inserted("so", [k \in DOMAIN fed |->
                        CLS_SO(fed[k].id, fed[k].stid, fed[k].nd, fed[k].ptr.ind)])]

ValidateEnd ==
  /\ pc = "ValidateEnd"
  /\ \/ /\ rows.nd = <<>>
        /\ UNCHANGED <<rows, statusdb>>
     \/ /\ rows.nd # <<>>
        /\ statusdb' = (dberrnum = 0)
        /\ \E live \in source.live : rows' = add_so(SetVL(RebuildPtr(rows)), live)
  /\ pc' = IF zones THEN "ReadFromDsbob2" ELSE "find_so"
  /\ UNCHANGED <<copy, dms, source, dberrnum, zones, at, visited>>

-----------------------------------------------------------------------------
(* Zones: the nodes that sections and switches join, up to the breakers    *)
(* and the buses.                                                          *)

IsBus(D, i) == \E b \in DOMAIN D.bus : D.bus[b].nd = D.nd[i].id

\* The search from node i: what was found so far, and what is found from i.
Found == [visited : SUBSET Nat, inds : SUBSET Nat, ends : SUBSET Nat, lds : SUBSET Nat, secs : SUBSET Nat]
find(D, start, seen) ==
  LET search[i \in DOMAIN D.nd, v \in Found] ==
        LET loads == ToSet(Children(D, "r_nd_ld", D.nd[i].ptr.r_ld))
            here == [v EXCEPT !.visited = @ \cup {i}, !.inds = @ \cup {i}, !.lds = @ \cup loads,
                              !.ends = IF loads = {} THEN @ ELSE @ \cup {i}]
            BySec(w, s) == LET z == Opposite(D.sec[s], i) IN
                           IF z \in w.visited THEN w ELSE search[z, [w EXCEPT !.secs = @ \cup {s}]]
            BySwitch(w, s) == LET z == Opposite(D.switch[s], i) IN
                              CASE z \notin w.visited -> search[z, w]
                                [] IsBus(D, z) -> [w EXCEPT !.ends = @ \cup {z}]
                                [] OTHER -> w
            over == FoldLeft(BySwitch, FoldLeft(BySec, here, Children(D, "r_nd_sec", D.nd[i].ptr.r_sec)),
                             Children(D, "r_nd_switch", D.nd[i].ptr.r_switch))
        IN  CASE IsBus(D, i) -> [here EXCEPT !.ends = @ \cup {i}]
              [] D.nd[i].ptr.r_cb # NoRow -> [over EXCEPT !.ends = @ \cup {i}]
              [] OTHER -> over
  IN  search[start, [visited |-> seen, inds |-> {}, ends |-> {}, lds |-> {}, secs |-> {}]]

\* Mutant: a zone has only its end nodes.
AddZoneOfEnds(D, v) ==
  LET id == Len(D.zn) + 1
      nds == Selected([i \in DOMAIN D.nd |-> i], LAMBDA i : i \in v.ends)
      zone == CLS_ZN(id, [n \in DOMAIN nds |-> D.nd[nds[n]].id], {D.nd[i].id : i \in v.ends})
  IN  IF v.ends = {} \/ \E i \in v.ends : IsBus(D, i) THEN D ELSE [D EXCEPT !.zn = Insert("zn", @, zone)]
\* A region that ends nowhere or at a bus makes no zone.
AddZone(D, v) ==
  LET id == Len(D.zn) + 1
      nds == Selected([i \in DOMAIN D.nd |-> i], LAMBDA i : i \in v.inds)
      zone == CLS_ZN(id, [n \in DOMAIN nds |-> D.nd[nds[n]].id], {D.nd[i].id : i \in v.ends})
      Zoned(t, S) == [i \in DOMAIN D[t] |-> IF i \in S THEN [D[t][i] EXCEPT !.zn_id = id] ELSE D[t][i]]
      InZone(i) == [D.ld[i] EXCEPT !.type = 1, !.zn_id = id]
  IN  IF v.ends = {} \/ \E i \in v.ends : IsBus(D, i) THEN D
      ELSE [D EXCEPT
             !.zn = Insert("zn", @, zone),
             !.nd = Zoned("nd", v.inds),
             !.sec = Zoned("sec", v.secs),
             !.ld = [i \in DOMAIN @ |-> IF i \in v.lds THEN InZone(i) ELSE @[i]]]

find_so ==
  /\ pc = "find_so"
  /\ rows' = [rows EXCEPT !.r_zn_ld = <<>>]
  /\ visited' = {}
  /\ pc' = "BuildZones" /\ at' = 1
  /\ UNCHANGED <<copy, dms, source, dberrnum, statusdb, zones>>

\* Every node that is at no bus and in no region yet starts a search.
BuildZones ==
  /\ pc = "BuildZones"
  /\ IF at \in DOMAIN rows.nd
     THEN /\ IF IsBus(rows, at) \/ at \in visited
             THEN UNCHANGED <<rows, visited>>
             ELSE \E v \in {find(rows, at, visited)} :
                    rows' = AddZone(rows, v) /\ visited' = v.visited
          /\ at' = at + 1
          /\ UNCHANGED <<pc, zones>>
     ELSE /\ zones' = TRUE
          /\ pc' = "ValidateStart" /\ at' = 0
          /\ UNCHANGED <<rows, visited>>
  /\ UNCHANGED <<copy, dms, source, dberrnum, statusdb>>

-----------------------------------------------------------------------------
(* The copies.                                                             *)

ReadFromDsbob2 ==
  /\ pc = "ReadFromDsbob2"
  /\ copy' = [t \in Tables |-> Inserted(t, rows[t])]
  /\ pc' = "WriteReDB2"
  /\ UNCHANGED <<rows, dms, source, dberrnum, statusdb, zones, at, visited>>

\* The members of each class that are written; of a zone not its nodes.
DMS_BUS == {"id", "pid", "stid", "nd", "ind", "r_st"}
DMS_CB == {"id", "stid", "nd", "znd", "ind", "iznd", "r_st"}
DMS_SWITCH == {"id", "stid", "nd", "znd", "ind", "iznd", "r_st"}
DMS_CO == {"id", "r_st"}
DMS_CP == {"id", "stid", "nd", "ind", "r_st"}
DMS_LD == {"id", "stid", "nd", "ind", "type", "zn_id", "r_st", "r_zn"}
DMS_ND == {"id", "zn_id", "unproc", "r_cb", "r_switch", "r_xf", "r_sec", "r_cp", "r_ld"}
DMS_SO == {"id", "stid", "nd", "ind", "r_st"}
DMS_ST ==
  {"id", "pid", "r_co", "r_xfmr", "r_so", "r_cb", "r_switch", "r_ld", "r_cp", "r_bus", "r_zn"}
DMS_ZN == {"id", "stid", "r_st", "r_ld", "r_sec", "r_nd"}
DMS_SEC == {"id", "nd", "znd", "ind", "iznd", "zn_id", "r_zn", "r_fi"}
DMS_FI == {"id", "sec", "r_sec"}
DMS_Relation == {"par", "chi", "parptr", "chiptr", "fptr", "bptr"}

Written ==
  [bus |-> DMS_BUS, cb |-> DMS_CB, switch |-> DMS_SWITCH, co |-> DMS_CO, cp |-> DMS_CP, ld |-> DMS_LD,
   nd |-> DMS_ND, so |-> DMS_SO, st |-> DMS_ST, zn |-> DMS_ZN, sec |-> DMS_SEC, fi |-> DMS_FI]

\* The order in which the tables are written.
DeviceTables == <<"bus", "cb", "switch", "co", "cp", "ld", "nd", "so", "st", "zn", "sec">>
CoNdTables == <<"r_co_st", "r_nd_cb", "r_nd_switch", "r_st_switch">>
NdTables == <<"r_nd_cp", "r_nd_ld", "r_nd_sec">>
ZnStTables == <<"r_zn_nd", "r_st_bus", "r_st_cb", "r_st_cp">>
StTables == <<"r_st_ld", "r_st_so", "r_st_zn">>
ZnSecTables == <<"r_zn_ld", "r_zn_sec", "fi", "r_sec_fi">>
WriteOrder == DeviceTables \o CoNdTables \o NdTables \o ZnStTables \o StTables \o ZnSecTables

ResetAllTables == NoRows

\* The row in the database: a record cleared by bzero, then the members.
Record(t, row) ==
  Assigned(IF t \in Relations THEN DMS_Relation ELSE Written[t],
           [f \in DOMAIN row |-> IF f = "ptr" THEN ZeroPtrs(DOMAIN row.ptr) ELSE 0], row)

\* The rows in sorted order.  The first row that cannot be inserted ends it,
\* and the server.
WriteReDB2 ==
  LET D == Moved(rows, LogByPh(rows))
      Of(t) == [i \in DOMAIN D[t] |-> Record(t, D[t][i])]
  IN /\ pc = "WriteReDB2"
     /\ rows' = D
     /\ \/ /\ dms' = [t \in Tables |-> ResetAllTables[t] \o Of(t)]
           /\ pc' = "serving"
        \/ /\ \E k \in DOMAIN WriteOrder :
                LET before == {WriteOrder[j] : j \in 1 .. (k - 1)} IN
                \E n \in DOMAIN D[WriteOrder[k]] :
                  dms' = [t \in Tables |->
                            ResetAllTables[t] \o
                            CASE t \in before -> Of(t)
                              [] t = WriteOrder[k] -> SubSeq(Of(t), 1, n - 1)
                              [] OTHER -> <<>>]
           /\ pc' = "failed"
     /\ UNCHANGED <<copy, source, dberrnum, statusdb, zones, at, visited>>

-----------------------------------------------------------------------------
\* The database may still hold what an earlier start has written.
LeftRow(t) ==
  LET ends == [par |-> 1, chi |-> 1, ptr |-> NoPtrs({"parptr", "chiptr", "fptr", "bptr"})]
  IN IF t \in Relations THEN ends ELSE CLS_CO(1)

Init ==
  /\ source \in Sources
  /\ rows = NoRows /\ copy = NoRows
  /\ dms \in {NoRows, [t \in Tables |-> <<LeftRow(t)>>]}
  /\ dberrnum = 0
  /\ statusdb = FALSE
  /\ zones = FALSE
  /\ pc = "ReadPSBOB" /\ at = 0 /\ visited = {}

Next ==
  \/ ReadPSBOB
  \/ ValidateStart \/ ST_Validate \/ ZN_Validate \/ CB_Validate \/ SWITCH_Validate \/ BUS_Validate
  \/ CP_Validate \/ LD_Validate \/ SO_Validate \/ SEC_Validate \/ FI_Validate \/ ValidateEnd
  \/ find_so \/ BuildZones
  \/ ReadFromDsbob2 \/ WriteReDB2

Spec == Init /\ [][Next]_vars
-----------------------------------------------------------------------------
(* What a finished pass is relied on for.                                  *)

\* Every position is a natural number, and the calls are known.
TypeOK ==
  /\ DOMAIN rows = Tables /\ DOMAIN copy = Tables /\ DOMAIN dms = Tables
  /\ \A t \in Tables : \A i \in DOMAIN rows[t] : \A f \in DOMAIN rows[t][i].ptr : rows[t][i].ptr[f] \in Nat
  /\ source \in Sources
  /\ dberrnum \in Nat /\ at \in Nat
  /\ statusdb \in BOOLEAN /\ zones \in BOOLEAN
  /\ pc \in {"ReadPSBOB", "ValidateStart", "ST_Validate", "ZN_Validate", "CB_Validate", "SWITCH_Validate",
             "BUS_Validate", "CP_Validate", "LD_Validate", "SO_Validate", "SEC_Validate", "R_SEC_FI_Build",
             "ValidateEnd", "find_so", "BuildZones", "ReadFromDsbob2", "WriteReDB2", "serving", "failed", "exited"}

Passed == pc \in {"find_so", "ReadFromDsbob2"} /\ rows.nd # <<>>
RowsOf(t) == ToSet(rows[t])
EndsOf(d) == {d.nd, d.znd}
\* The branches that got both nodes.
Placeds(t) == {d \in RowsOf(t) : d.ptr.ind # NoRow /\ d.ptr.iznd # NoRow}
OwnedLoads == {l \in RowsOf("ld") : HasOwner(l)}

\* No table gets two rows with one key, which would end the server
\* (DTable::Insert): the readers drop the branches whose ends are one node.
NeverExits == pc # "exited"

RelationEnds ==
  [r_co_st |-> <<"co", "st">>, r_st_cb |-> <<"st", "cb">>, r_st_switch |-> <<"st", "switch">>,
   r_st_so |-> <<"st", "so">>, r_st_ld |-> <<"st", "ld">>, r_st_cp |-> <<"st", "cp">>,
   r_st_bus |-> <<"st", "bus">>, r_st_zn |-> <<"st", "zn">>, r_zn_ld |-> <<"zn", "ld">>,
   r_zn_sec |-> <<"zn", "sec">>, r_zn_nd |-> <<"zn", "nd">>, r_nd_cb |-> <<"nd", "cb">>,
   r_nd_switch |-> <<"nd", "switch">>, r_nd_sec |-> <<"nd", "sec">>, r_nd_cp |-> <<"nd", "cp">>,
   r_nd_ld |-> <<"nd", "ld">>, r_sec_fi |-> <<"sec", "fi">>]
\* A row points to its parent, its child and the rows of its parent before
\* and after it; of the rows of a parent one is first and one last.
RelationTrue(D, r) ==
  \A k \in DOMAIN D[r] :
    LET row == D[r][k]
        siblings == {j \in DOMAIN D[r] : D[r][j].par = row.par}
    IN  /\ D[RelationEnds[r][1]][row.ptr.parptr].id = row.par
        /\ D[RelationEnds[r][2]][row.ptr.chiptr].id = row.chi
        /\ \A f \in {"fptr", "bptr"} :
              {D[r][j].ptr[f] : j \in siblings} \subseteq siblings \cup {NoRow}
              /\ Cardinality({j \in siblings : D[r][j].ptr[f] = NoRow}) = 1
\* A component's node is the one it names, and the row it points to in a
\* relation has it as its parent or its child.
NodeTrue(D, d) ==
  /\ d.ptr.ind # NoRow => D.nd[d.ptr.ind].id = d.nd
  /\ "iznd" \in DOMAIN d.ptr /\ d.ptr.iznd # NoRow => D.nd[d.ptr.iznd].id = d.znd
OwnRow(D, d, r, f) == d.ptr[f] # NoRow => d.id \in {D[r][d.ptr[f]].par, D[r][d.ptr[f]].chi}
Linked(D) ==
  /\ \A r \in Relations \ {"r_zn_nd", "r_st_so"} : RelationTrue(D, r)
  /\ \A t \in {"cb", "switch", "so", "ld", "cp", "bus", "sec"} : \A d \in ToSet(D[t]) : NodeTrue(D, d)
  /\ \A t \in Components : \A d \in ToSet(D[t]) : \A f \in DOMAIN Conversions[t] :
       Conversions[t][f] \in Relations \ {"r_st_so"} => OwnRow(D, d, Conversions[t][f], f)

\* Rows are sorted after the pointers between them were set, are assigned
\* member by member and are copied twice: in the server's tables, in those of
\* the fault processors and in the DMS database, whatever that held before,
\* every pointer still leads to the row it was set to (RebuildPtr, operator=,
\* ReadFromDsbob2, WriteReDB2).  Not r_zn_nd, which RebuildPtr converts twice,
\* and r_st_so, whose children add_so replaces.
LinksTrue ==
  /\ Passed => Linked(rows)
  /\ pc = "serving" /\ rows.nd # <<>> =>
       /\ \A t \in Tables : Len(copy[t]) = Len(rows[t]) /\ Len(dms[t]) = Len(rows[t])
       /\ Linked(copy) /\ Linked(dms)

\* RebuildPtr "rebuilds all position pointers between tables" (Nmd.cpp:3480).
PointersRebuilt ==
  Passed => /\ \A d \in RowsOf("sec") : OwnRow(rows, d, "r_sec_fi", "r_fi")
            /\ \A z \in RowsOf("zn") : OwnRow(rows, z, "r_zn_nd", "r_nd")
            /\ RelationTrue(rows, "r_zn_nd")

\* When the pass succeeds nothing the search runs over is missing: every
\* section is listed at both its nodes, every bus, source and load is on its
\* node, and a load hangs on exactly one owner.
Pairs(r) == {<<row.par, row.chi>> : row \in RowsOf(r)}
NetworkComplete ==
  Passed =>
    /\ Pairs("r_nd_sec") = UNION {EndsOf(s) \X {s.id} : s \in RowsOf("sec")}
    /\ Pairs("r_nd_ld") = {<<l.nd, l.id>> : l \in OwnedLoads}
    /\ Pairs("r_nd_cb") = UNION {EndsOf(d) \X {d.id} : d \in Placeds("cb")}
    /\ Pairs("r_nd_switch") = UNION {EndsOf(d) \X {d.id} : d \in Placeds("switch")}
    /\ \A b \in RowsOf("bus") : b.ptr.ind # NoRow
    /\ \A l \in RowsOf("ld") :
         Cardinality({p \in Pairs("r_st_ld") \cup Pairs("r_zn_ld") : p[2] = l.id}) = (IF l \in OwnedLoads THEN 1 ELSE 0)

\* The start-up of Nmd ends with a network that can be searched, whatever of the
\* database is missing: it does not exit on the way, and leaves nothing out.
NetworkServed == NeverExits /\ NetworkComplete

\* Regions by definition: the nodes that sections and switches join without
\* passing a bus.
BusNodes == {b.nd : b \in RowsOf("bus")}
Near(n) == UNION {EndsOf(d) : d \in {e \in RowsOf("sec") \cup Placeds("switch") : n \in EndsOf(e)}}
Region(n) ==
  LET from[S \in SUBSET Nat] ==
        LET next == S \cup ((UNION {Near(m) : m \in S}) \ BusNodes) IN IF next = S THEN S ELSE from[next]
  IN  from[{n}]
AtBus(S) == \E n \in S : Near(n) \cap BusNodes # {}
RegionEnds(S) ==
  {n \in S : \/ \E b \in Placeds("cb") : n \in EndsOf(b)
             \/ \E l \in OwnedLoads : l.nd = n}

\* A zone is one whole region, and its ends are the nodes with a breaker or
\* a load; every region with an end that no bus borders is a zone, and no two
\* zones share a node.  The loads of a zone are those on its nodes, and its
\* sections lie in it (the one that closes a ring is left out) (find, find_so).
ZonesTrue ==
  pc = "ReadFromDsbob2" /\ rows.nd # <<>> =>
    /\ \A z \in RowsOf("zn") :
         /\ ToSet(z.nds) = Region(z.nds[1])
         /\ z.ends = RegionEnds(ToSet(z.nds)) /\ z.ends # {}
         /\ {p[2] : p \in {q \in Pairs("r_zn_ld") : q[1] = z.id}}
              = {l.id : l \in {m \in OwnedLoads : m.nd \in ToSet(z.nds)}}
         /\ \A p \in Pairs("r_zn_sec") : p[1] = z.id =>
              \E s \in RowsOf("sec") : s.id = p[2] /\ EndsOf(s) \subseteq ToSet(z.nds)
    /\ \A n \in {d.id : d \in RowsOf("nd")} \ BusNodes :
         LET S == Region(n) IN
         RegionEnds(S) # {} /\ ~AtBus(S) => \E z \in RowsOf("zn") : ToSet(z.nds) = S
    /\ \A y, z \in RowsOf("zn") : y # z => ToSet(y.nds) \cap ToSet(z.nds) = {}

\* Zones that contain a bus are not built (Nmd.cpp:6778): no zone borders a bus.
BusZonesLeftOut == pc = "ReadFromDsbob2" => \A z \in RowsOf("zn") : ~AtBus(ToSet(z.nds))
=============================================================================
