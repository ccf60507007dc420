-------------------------- MODULE NetworkInvariants --------------------------
(***************************************************************************)
(* What holds of the tables of the network model between two calls of the  *)
(* start-up, in words that speak of one pass of DoValidate: what it has    *)
(* built (IInv) and what it has listed (SInv) when it comes to a row.      *)
(***************************************************************************)
EXTENDS NetworkModel

-----------------------------------------------------------------------------
(* Orders.                                                                 *)

\* R orders S strictly.
Orders(R, S) ==
  /\ \A x \in S : <<x, x>> \notin R
  /\ \A x, y, z \in S : <<x, y>> \in R /\ <<y, z>> \in R => <<x, z>> \in R
  /\ \A x, y \in S : x = y \/ <<x, y>> \in R \/ <<y, x>> \in R
Below(R, S, x) == {y \in S : <<y, x>> \in R}

-----------------------------------------------------------------------------
(* The rows of each table.                                                 *)

PtrNames ==
  [co |-> {"r_st"},
   st |-> {"r_co", "r_xfmr", "r_so", "r_cb", "r_switch", "r_ld", "r_cp", "r_bus", "r_zn"},
   cb |-> {"ind", "iznd", "r_st"}, switch |-> {"ind", "iznd", "r_st"}, so |-> {"ind", "r_st"},
   ld |-> {"ind", "r_st", "r_zn"}, cp |-> {"ind", "r_st"}, bus |-> {"ind", "r_st"}, fi |-> {"r_sec"},
   zn |-> {"r_st", "r_ld", "r_sec", "r_nd"}, sec |-> {"ind", "iznd", "r_zn", "r_fi"},
   nd |-> {"r_cb", "r_switch", "r_xf", "r_sec", "r_cp", "r_ld"}]
FieldNames ==
  [co |-> {"id", "ptr"}, st |-> {"id", "pid", "ptr"}, cb |-> {"id", "stid", "nd", "znd", "ptr"},
   switch |-> {"id", "stid", "nd", "znd", "ptr"}, so |-> {"id", "stid", "nd", "ptr"},
   ld |-> {"id", "stid", "nd", "type", "zn_id", "ptr"}, cp |-> {"id", "stid", "nd", "ptr"},
   bus |-> {"id", "pid", "stid", "nd", "ptr"}, fi |-> {"id", "sec", "ptr"},
   zn |-> {"id", "stid", "nds", "ends", "ptr", "inds"}, sec |-> {"id", "nd", "znd", "zn_id", "ptr"},
   nd |-> {"id", "zn_id", "unproc", "ptr"}]
Ptrs(t) == IF t \in Relations THEN {"parptr", "chiptr", "fptr", "bptr"} ELSE PtrNames[t]
Fields(t) == IF t \in Relations THEN {"par", "chi", "ptr"} ELSE FieldNames[t]

\* The fields by which rows find each other.
Keys(t) == Fields(t) \cap {"id", "nd", "znd", "par", "chi", "pid", "stid"}
SameKeys(t, a, b) == \A k \in Keys(t) : a[k] = b[k]
IsRow(t, row) ==
  /\ row = [f \in Fields(t) |-> row[f]]
  /\ row.ptr \in [Ptrs(t) -> Nat]
  /\ \A k \in Keys(t) \ {"pid", "stid"} : row[k] \in Nat
  /\ t = "zn" => /\ IsList(row.nds) /\ \A n \in DOMAIN row.nds : row.nds[n] \in Nat
                 /\ row.inds \in [DOMAIN row.nds -> Nat]
IsTable(t, s) == IsList(s) /\ \A i \in DOMAIN s : IsRow(t, s[i])
Typed(D) == D = [t \in Tables |-> D[t]] /\ \A t \in Tables : IsTable(t, D[t])

-----------------------------------------------------------------------------
(* Where a pointer leads.                                                  *)

\* A row of t is led to the row of its node, a relation row to its ends and
\* its siblings, and a component to a relation row it is an end of.
Leads(t, f, row, to) ==
  \/ t = "r_zn_nd"
  \/ f = "ind" /\ to.id = row.nd
  \/ f = "iznd" /\ to.id = row.znd
  \/ f = "parptr" /\ to.id = row.par
  \/ f = "chiptr" /\ to.id = row.chi
  \/ f \in {"fptr", "bptr"} /\ to.par = row.par
  \/ t = "nd" /\ to.par = row.id
  \/ t \in Components \ {"nd"} /\ f \notin {"ind", "iznd"} /\ row.id \in {to.par, to.chi}

-----------------------------------------------------------------------------
(* The rows of a relation.                                                 *)

\* The pairs of two loops, in the order of the loops.
InLoops(a, b) == a[1] < b[1] \/ (a[1] = b[1] /\ a[2] < b[2])
Pairing(pairs, M) ==
  /\ \E n \in Nat : DOMAIN pairs = 1..n
  /\ pairs = [k \in DOMAIN pairs |-> pairs[k]]
  /\ \A k \in DOMAIN pairs : pairs[k] \in M
  /\ \A m \in M : \E k \in DOMAIN pairs : pairs[k] = m
  /\ \A k, l \in DOMAIN pairs : k < l <=> InLoops(pairs[k], pairs[l])
  /\ \A k, l \in DOMAIN pairs : pairs[k] = pairs[l] => k = l

\* E differs from D in the table t by the pointer f alone.
OnlyPtr(D, E, t, f) ==
  /\ DOMAIN E[t] = DOMAIN D[t] /\ Len(E[t]) = Len(D[t])
  /\ \A i \in DOMAIN D[t] :
       /\ \A g \in Fields(t) \ {"ptr"} : E[t][i][g] = D[t][i][g]
       /\ \A g \in Ptrs(t) \ {f} : E[t][i].ptr[g] = D[t][i].ptr[g]

\* The rows of s with f set to q, except those of S.
Pointed(s, S, f, q) == [i \in DOMAIN s |-> IF i \in S THEN s[i] ELSE [s[i] EXCEPT !.ptr[f] = q[i]]]

\* The rows of r are the pairs of M, each once, chained per parent.
RelatedTo(D, E, r, p, c, M) ==
  LET Of(k) == <<E[r][k].ptr.parptr, E[r][k].ptr.chiptr>>
      K == DOMAIN E[r]
  IN  /\ \A k \in K : /\ Of(k) \in M
                      /\ E[r][k].par = D[p][E[r][k].ptr.parptr].id
                      /\ E[r][k].chi = D[c][E[r][k].ptr.chiptr].id
      /\ \A m \in M : \E k \in K : Of(k) = m
      /\ \A k, l \in K : Of(k) = Of(l) => k = l
      /\ \A k \in K : LET q == E[r][k].ptr.fptr IN
           /\ q # NoRow => q \in K /\ k < q /\ E[r][q].ptr.parptr = E[r][k].ptr.parptr
           /\ q = NoRow => \A l \in K : E[r][l].ptr.parptr = E[r][k].ptr.parptr => l <= k
      /\ \A k \in K : LET q == E[r][k].ptr.bptr IN
           /\ q # NoRow => q \in K /\ q < k /\ E[r][q].ptr.parptr = E[r][k].ptr.parptr
           /\ q = NoRow => \A l \in K : E[r][l].ptr.parptr = E[r][k].ptr.parptr => k <= l

\* The pointer f of the rows of t leads to a row of r that leads back, when there is one.
LedTo(D, E, r, t, f, back) ==
  \A i \in DOMAIN D[t] :
    \/ E[t][i].ptr[f] = D[t][i].ptr[f] /\ \A k \in DOMAIN E[r] : E[r][k].ptr[back] # i
    \/ E[t][i].ptr[f] \in DOMAIN E[r] /\ E[r][E[t][i].ptr[f]].ptr[back] = i

-----------------------------------------------------------------------------
(* What a pass of DoValidate has built so far.                             *)

\* No row is lost and none changes its keys.
Grows(D, E) ==
  \A t \in Tables : \A i \in DOMAIN D[t] : i \in DOMAIN E[t] /\ SameKeys(t, D[t][i], E[t][i])
UniqueIds(D) ==
  \A t \in Components : \A i, j \in DOMAIN D[t] : D[t][i].id = D[t][j].id => i = j
PtrTrue(D, t, i, f) ==
  D[t][i].ptr[f] # NoRow =>
    /\ D[t][i].ptr[f] \in DOMAIN D[Conversions[t][f]]
    /\ Leads(t, f, D[t][i], D[Conversions[t][f]][D[t][i].ptr[f]])
Linking == Relations \ {"r_zn_nd"}

\* The rows of one parent are chained in their order, forwards and backwards.
Chained(s) ==
  \A k \in DOMAIN s :
    /\ s[k].ptr.fptr # NoRow => k < s[k].ptr.fptr
    /\ s[k].ptr.fptr = NoRow => \A l \in DOMAIN s : s[l].par = s[k].par => l <= k
    /\ s[k].ptr.bptr # NoRow => s[k].ptr.bptr < k
    /\ s[k].ptr.bptr = NoRow => \A l \in DOMAIN s : s[l].par = s[k].par => k <= l
EndsSet(s) == \A k \in DOMAIN s : s[k].ptr.parptr # NoRow /\ s[k].ptr.chiptr # NoRow

\* A node without a first row in a relation has none there.
Heads(D) ==
  \A f \in DOMAIN ND_RebuildPtr : \A i \in DOMAIN D.nd :
    D.nd[i].ptr[f] = NoRow => \A k \in DOMAIN D[ND_RebuildPtr[f]] : D[ND_RebuildPtr[f]][k].par # D.nd[i].id
ZoneNodes(D) ==
  \A z \in DOMAIN D.zn : \A n \in DOMAIN D.zn[z].inds :
    D.zn[z].inds[n] # NoRow => D.zn[z].inds[n] \in DOMAIN D.nd

\* The relations of W are not built yet.  ST_ResetPtr leaves a station's
\* switches, so that its pointer is old until they are.
Old(W, t, f) == t = "st" /\ f = "r_switch" /\ "r_st_switch" \in W
PtrsTrue(D, W) ==
  \A t \in Tables : \A f \in DOMAIN Conversions[t] : \A i \in DOMAIN D[t] : PtrTrue(D, t, i, f) \/ Old(W, t, f)
PassTrue(D, W) ==
  /\ \A r \in W : D[r] = <<>>
  /\ PtrsTrue(D, W)
  /\ \A r \in Linking : EndsSet(D[r]) /\ Chained(D[r])
  /\ Heads(D) /\ ZoneNodes(D)

-----------------------------------------------------------------------------
(* What holds of the tables at every time.                                 *)

ZoneIds(D) == \A z \in DOMAIN D.zn : D.zn[z].id <= Len(D.zn)

\* A station keeps its switches from one pass to the next, as the database does.
Stale(D) ==
  \A i \in DOMAIN D.st : D.st[i].ptr.r_switch # NoRow =>
    \E s \in DOMAIN D.switch : D.switch[s].stid = D.st[i].pid

\* Without stations nothing is read but the company and the virtual breakers.
NoStations(D) == D.st = <<>> => \A t \in Tables \ {"co", "cb"} : D[t] = <<>>
Sound(D) == Typed(D) /\ UniqueIds(D) /\ ZoneIds(D) /\ Stale(D) /\ NoStations(D)

\* A pointer is left alone or leads where it should.
Kept(D, E) ==
  \A t \in Tables : \A f \in DOMAIN Conversions[t] : \A i \in DOMAIN E[t] :
    PtrTrue(E, t, i, f) \/ (i \in DOMAIN D[t] /\ E[t][i].ptr[f] = D[t][i].ptr[f])

-----------------------------------------------------------------------------
(* The relations that are built as a whole.                                *)

IsBuild(r, p, pf, c, cf) ==
  /\ r \in Linking /\ RelationEnds[r] = <<p, c>>
  /\ p # c /\ p # "nd" /\ c # "nd" /\ {p, c} # {"co", "cb"}
  /\ pf \in Ptrs(p) /\ cf \in Ptrs(c)
  /\ pf \in DOMAIN Conversions[p] => Conversions[p][pf] = r
  /\ cf \in DOMAIN Conversions[c] => Conversions[c][cf] = r
  /\ r \notin {ND_RebuildPtr[f] : f \in DOMAIN ND_RebuildPtr}
  /\ r = "r_st_switch" <=> pf = "r_switch"
  /\ r = "r_st_switch" => p = "st" /\ c = "switch"
  /\ cf # "r_switch"

-----------------------------------------------------------------------------
(* The nodes of the zones.                                                 *)

\* The rows of s with a field that is no key set to q, except those of S.
Valued(s, S, f, q) == [i \in DOMAIN s |-> IF i \in S THEN s[i] ELSE [s[i] EXCEPT ![f] = q[i]]]

\* E lists each node of each zone once, and keeps of the zones all but a pointer.
ZonesListed(D, E) ==
  /\ \A t \in Tables \ {"r_zn_nd", "zn", "nd"} : E[t] = D[t]
  /\ DOMAIN E["zn"] = DOMAIN D["zn"]
  /\ \A z \in DOMAIN D["zn"] : \A g \in Fields("zn") \ {"ptr"} : E["zn"][z][g] = D["zn"][z][g]
  /\ \E w : \A k \in DOMAIN E["r_zn_nd"] :
       /\ w[k][1] \in DOMAIN D["zn"] /\ w[k][2] \in DOMAIN D["zn"][w[k][1]].nds
       /\ E["r_zn_nd"][k].par = D["zn"][w[k][1]].id /\ E["r_zn_nd"][k].chi = D["zn"][w[k][1]].nds[w[k][2]]
       /\ \A l \in DOMAIN E["r_zn_nd"] : w[k][1] = w[l][1] /\ w[k][2] = w[l][2] => k = l

-----------------------------------------------------------------------------
(* Nodes and their branches.                                               *)

\* The tables in which branches and places have their rows.
Placed == {"cb", "switch", "so", "ld", "cp", "bus", "sec"}

\* Of the tables E differs from D only in those of T.
Elsewhere(D, E, T) == \A t \in Tables \ T : E[t] = D[t]

\* A step of a pass.
Going(D, E, W) == Sound(E) /\ E.st # <<>> /\ PassTrue(E, W) /\ Grows(D, E)

\* One pointer of one row is set.
PtrSet(s, i, f, p) == [s EXCEPT ![i].ptr[f] = p]

\* Where a step of a pass may be made.
Ready(D, W) == Sound(D) /\ D.st # <<>> /\ W \in SUBSET Relations /\ PassTrue(D, W)
NodeKey(D, t, i, f, id) ==
  /\ t \in Placed /\ i \in DOMAIN D[t] /\ f \in Ptrs(t)
  /\ (f = "ind" /\ id = D[t][i].nd) \/ (f = "iznd" /\ id = D[t][i].znd)
NodeIsSet(D, E, W, t, i, f) ==
  /\ Going(D, E, W) /\ DOMAIN E[t] = DOMAIN D[t]
  /\ \A g \in Ptrs(t) \ {f} : E[t][i].ptr[g] = D[t][i].ptr[g]
  /\ E[t][i].ptr[f] \in DOMAIN E["nd"]
RowIsIn(D, E, W, r) == Going(D, E, W) /\ Elsewhere(D, E, {"nd", r}) /\ DOMAIN E["nd"] = DOMAIN D["nd"]

\* The new row is the last one, and joins the node at n with the row of t at i.
RowIsLast(D, E, r, n, t, i) ==
  LET k == Len(D[r]) + 1
  IN  /\ DOMAIN E[r] = DOMAIN D[r] \cup {k} /\ k \notin DOMAIN D[r]
      /\ E[r][k].par = D["nd"][n].id /\ E[r][k].chi = D[t][i].id
RowPlace(D, r, f, n, t, i) ==
  /\ f \in DOMAIN ND_RebuildPtr /\ r = ND_RebuildPtr[f] /\ t = RelationEnds[r][2]
  /\ n \in DOMAIN D["nd"] /\ i \in DOMAIN D[t]
Branches == {<<"cb", "r_nd_cb", "r_cb">>, <<"switch", "r_nd_switch", "r_switch">>, <<"sec", "r_nd_sec", "r_sec">>}
Places == {<<"ld", "r_nd_ld", "r_ld">>, <<"cp", "r_nd_cp", "r_cp">>}

\* Of the zones nothing is changed but the positions of their nodes.
ZonesHeld(D, E) ==
  /\ Elsewhere(D, E, {"zn", "nd"}) /\ DOMAIN E["zn"] = DOMAIN D["zn"]
  /\ \A z \in DOMAIN D["zn"] : \A g \in Fields("zn") \ {"inds"} : E["zn"][z][g] = D["zn"][z][g]

-----------------------------------------------------------------------------
(* The start of a pass.                                                    *)

\* What a pass builds as a whole.
Whole == Relations \ {ND_RebuildPtr[f] : f \in DOMAIN ND_RebuildPtr}

\* What DoValidate empties at its start, and what it leaves of the other rows.
IsCleared(D, E) ==
  /\ \A t \in Relations \cup {"nd"} : E[t] = <<>>
  /\ \A t \in Components \ {"nd"} :
       /\ DOMAIN E[t] = DOMAIN D[t]
       /\ \A i \in DOMAIN D[t] : \A g \in Fields(t) \ {"ptr", "inds"} : E[t][i][g] = D[t][i][g]

-----------------------------------------------------------------------------
(* The order of the tables.                                                *)

Less(t, a, b) ==
  IF t \in Relations THEN a.par < b.par \/ (a.par = b.par /\ a.chi < b.chi) ELSE a.id < b.id
Permutes(p, S) ==
  /\ p \in [S -> S]
  /\ \A i, j \in S : p[i] = p[j] => i = j
  /\ \A k \in S : \E i \in S : p[i] = k

-----------------------------------------------------------------------------
(* RebuildPtr.                                                             *)

\* The positions L leads from are those of D.
Places1(L, D) == \A t \in Tables : Permutes(L[t], DOMAIN D[t]) /\ NoRow \notin DOMAIN D[t]
InRange(D, t, row) ==
  \A f \in DOMAIN Conversions[t] : row.ptr[f] # NoRow => row.ptr[f] \in DOMAIN D[Conversions[t][f]]

\* R is D with its rows at the positions L, and its pointers converted.
RebuiltFrom(D, R, L) ==
  /\ Places1(L, D) /\ Typed(R)
  /\ \A t \in Tables : DOMAIN R[t] = DOMAIN D[t] /\ Len(R[t]) = Len(D[t])
  /\ \A t \in Tables : \A i \in DOMAIN D[t] :
       /\ SameKeys(t, D[t][i], R[t][L[t][i]])
       /\ \A g \in Fields(t) \ {"ptr", "inds"} : R[t][L[t][i]][g] = D[t][i][g]
       /\ t \notin Twofold => \A f \in DOMAIN Conversions[t] :
            R[t][L[t][i]].ptr[f] = Convert(L, Conversions[t][f], D[t][i].ptr[f])

\* Of the rows of a parent one has none after it, and one has none before it.
OnceEnded(s) ==
  \A k \in DOMAIN s : \A f \in {"fptr", "bptr"} :
    \E x \in DOMAIN s : \A j \in DOMAIN s : (s[j].par = s[k].par /\ s[j].ptr[f] = NoRow) <=> j = x
InOrder(D) == \A t \in Tables : \A i, j \in DOMAIN D[t] : Less(t, D[t][i], D[t][j]) <=> i < j

-----------------------------------------------------------------------------
(* The tables a pass leaves.                                               *)

\* Every pointer leads where it should, except those that RebuildPtr converts
\* twice and those of r_st_so, whose children add_so replaces.
Joined(D) ==
  /\ \A t \in Tables \ {"r_st_so", "r_zn_nd"} : \A f \in DOMAIN Conversions[t] : \A i \in DOMAIN D[t] :
       PtrTrue(D, t, i, f)
  /\ \A r \in Linking \ {"r_st_so"} : EndsSet(D[r]) /\ OnceEnded(D[r])

\* The rows are the same but for fields that are no key and no pointer.
SameLinks(D, E) ==
  \A t \in Tables :
    /\ DOMAIN E[t] = DOMAIN D[t] /\ Len(E[t]) = Len(D[t])
    /\ \A i \in DOMAIN D[t] : SameKeys(t, D[t][i], E[t][i]) /\ E[t][i].ptr = D[t][i].ptr

-----------------------------------------------------------------------------
(* Taking rows.                                                            *)

\* c has rows of s at positions of S, no position twice, by the number v gives each.
Picks(s, c, S, v) ==
  /\ IsList(c)
  /\ \E p \in [DOMAIN c -> S] :
       /\ \A k \in DOMAIN c : c[k] = s[p[k]]
       /\ \A k, l \in DOMAIN c : p[k] = p[l] => k = l
       /\ \A k, l \in DOMAIN c : k < l <=> v[p[k]] < v[p[l]]

\* The rows at the positions of S by the number v gives each.
ByNumber(s, S, v) ==
  LET kept == [k \in 1..Cardinality(S) |-> CHOOSE x \in S : Cardinality({y \in S : v[y] < v[x]}) = k - 1]
  IN  [k \in DOMAIN kept |-> s[kept[k]]]
Chosen(s, S) == LET kept == Ordered(S, LAMBDA a, b : a < b) IN [k \in DOMAIN kept |-> s[kept[k]]]
SortedById(s) == LET kept == Ordered(DOMAIN s, LAMBDA i, j : s[i].id < s[j].id) IN [k \in DOMAIN kept |-> s[kept[k]]]

-----------------------------------------------------------------------------
(* The end of a pass.                                                      *)

\* What a pass of a network with stations leaves.
Finished(D) == Sound(D) /\ D.st # <<>> /\ InOrder(D) /\ Joined(D)

-----------------------------------------------------------------------------
(* The zones.                                                              *)

\* A table in which only fields that are no key are changed.
SameRows(t, s, u) ==
  IsTable(t, u) /\ DOMAIN u = DOMAIN s /\ Len(u) = Len(s) /\ \A i \in DOMAIN s : SameKeys(t, s[i], u[i])

\* The load at i is in zone id.
InZone(s, lds, id) ==
  [i \in DOMAIN s |-> IF i \in lds THEN [s[i] EXCEPT !.type = 1, !.zn_id = id] ELSE s[i]]
Zoned(s, S, id) == [i \in DOMAIN s |-> IF i \in S THEN [s[i] EXCEPT !.zn_id = id] ELSE s[i]]

\* The zones of E are those of D and others that have each of their nodes once;
\* of the other rows no key is changed.
ZonesAre(D, E) ==
  /\ \A t \in Tables \ {"zn"} : SameRows(t, D[t], E[t])
  /\ \A z \in DOMAIN E["zn"] :
       \/ z \in DOMAIN D["zn"] /\ E["zn"][z] = D["zn"][z]
       \/ \A m, n \in DOMAIN E["zn"][z].nds : E["zn"][z].nds[m] = E["zn"][z].nds[n] => m = n

-----------------------------------------------------------------------------
(* What is read.                                                           *)

\* A list of rows at nodes, of branches, and none without stations.
AtNodes(s) == IsList(s) /\ \A i \in DOMAIN s : s[i].nd \in Nat
BetweenNodes(s) == AtNodes(s) /\ \A i \in DOMAIN s : s[i].znd \in Nat
OfStations(s) == source.st = <<>> => s = <<>>

\* The rows of a table that are read have keys of their own.
ReadTrue(t) ==
  /\ IsTable(t, Read(t))
  /\ t \in Components => \A i, j \in DOMAIN Read(t) : Read(t)[i].id = Read(t)[j].id => i = j
  /\ t \notin {"co", "cb"} => OfStations(Read(t))
  /\ t \in {"co", "st", "cb"} => \A i \in DOMAIN Read(t) : \A f \in Ptrs(t) : Read(t)[i].ptr[f] = NoRow

\* A network without stations has no pointer that leads astray.
Idle(D) == D.st = <<>> => PtrsTrue(D, {})

-----------------------------------------------------------------------------
(* The calls of a pass.                                                    *)

\* What is still to be built as a whole when a call comes, and what the call
\* builds before it goes over its rows.
Left ==
  [ST_Validate |-> Whole,
   ZN_Validate |-> {"r_st_zn", "r_zn_nd", "r_st_cb", "r_st_switch", "r_st_bus", "r_st_cp", "r_st_ld", "r_zn_ld",
                    "r_st_so", "r_zn_sec", "r_sec_fi"},
   CB_Validate |-> {"r_st_cb", "r_st_switch", "r_st_bus", "r_st_cp", "r_st_ld", "r_zn_ld", "r_st_so", "r_zn_sec",
                    "r_sec_fi"},
   SWITCH_Validate |-> {"r_st_switch", "r_st_bus", "r_st_cp", "r_st_ld", "r_zn_ld", "r_st_so", "r_zn_sec", "r_sec_fi"},
   BUS_Validate |-> {"r_st_bus", "r_st_cp", "r_st_ld", "r_zn_ld", "r_st_so", "r_zn_sec", "r_sec_fi"},
   CP_Validate |-> {"r_st_cp", "r_st_ld", "r_zn_ld", "r_st_so", "r_zn_sec", "r_sec_fi"},
   LD_Validate |-> {"r_st_ld", "r_zn_ld", "r_st_so", "r_zn_sec", "r_sec_fi"},
   SO_Validate |-> {"r_st_so", "r_zn_sec", "r_sec_fi"},
   SEC_Validate |-> {"r_zn_sec", "r_sec_fi"},
   R_SEC_FI_Build |-> {"r_sec_fi"},
   ValidateEnd |-> {}]
First ==
  [ST_Validate |-> {}, ZN_Validate |-> {"r_st_zn"}, CB_Validate |-> {"r_st_cb"}, SWITCH_Validate |-> {"r_st_switch"},
   BUS_Validate |-> {"r_st_bus"}, CP_Validate |-> {"r_st_cp"}, LD_Validate |-> {"r_st_ld", "r_zn_ld"},
   SO_Validate |-> {"r_st_so"}, SEC_Validate |-> {"r_zn_sec"}, R_SEC_FI_Build |-> {}, ValidateEnd |-> {}]
Pending(call, i) == IF i = 0 THEN Left[call] ELSE Left[call] \ First[call]

\* A pass is under way, or has ended the server.
Running ==
  /\ pc \in DOMAIN Left /\ at \in Nat
  /\ Sound(rows) /\ ~Twice(rows) /\ PassTrue(rows, Pending(pc, at))
Stopped == pc \in {"failed", "exited"} /\ at \in Nat /\ Typed(rows)

-----------------------------------------------------------------------------
(* Before, between and after the passes.                                   *)

\* The tables a pass may start from, and those it ends with.
Waiting == pc \in {"ValidateStart", "BuildZones"} /\ Sound(rows) /\ Idle(rows)
Ended(D) == Sound(D) /\ ~Twice(D) /\ Idle(D) /\ (D["nd"] # <<>> => Finished(D))
AfterPass == pc \in {"find_so", "ReadFromDsbob2"} /\ Ended(rows)

-----------------------------------------------------------------------------
(* The copies.                                                             *)

Copying == pc = "WriteReDB2" /\ Ended(rows) /\ copy = rows
Served ==
  /\ pc = "serving" /\ Typed(rows)
  /\ rows["nd"] # <<>> =>
       /\ \A t \in Tables : Len(copy[t]) = Len(rows[t]) /\ Len(dms[t]) = Len(rows[t])
       /\ Linked(copy) /\ Linked(dms)

\* What is written of a table: after nothing, the records of all its rows.
Stored(D, t) == ResetAllTables[t] \o [i \in DOMAIN D[t] |-> Record(t, D[t][i])]

-----------------------------------------------------------------------------
(* The invariant of the start-up: the phases it goes through.              *)

Unread == pc = "ReadPSBOB" /\ Typed(rows)
Phases == Unread \/ Waiting \/ Running \/ Stopped \/ AfterPass \/ Copying \/ Served
Counts ==
  /\ DOMAIN copy = Tables /\ DOMAIN dms = Tables
  /\ source \in Sources
  /\ dberrnum \in Nat /\ at \in Nat
  /\ statusdb \in BOOLEAN /\ zones \in BOOLEAN

\* What holds between any two calls of the start-up.
IInv == Counts /\ Phases

-----------------------------------------------------------------------------
(* What a pass has listed so far.                                          *)

PairsOf(D, r) == {<<D[r][k].par, D[r][k].chi>> : k \in DOMAIN D[r]}
BothSet(row) == row.ptr["ind"] # NoRow /\ row.ptr["iznd"] # NoRow
EndPairs(row) == {<<row.nd, row.id>>, <<row.znd, row.id>>}

\* Of the branches in S those with both nodes are listed at them, and nothing
\* else is; the other branches have no node yet.
BranchesListed(D, t, r, S) ==
  /\ PairsOf(D, r) = UNION {EndPairs(D[t][j]) : j \in {k \in S : BothSet(D[t][k])}}
  /\ \A j \in DOMAIN D[t] \ S : D[t][j].ptr["ind"] = NoRow /\ D[t][j].ptr["iznd"] = NoRow
LoadsListed(D, S) ==
  PairsOf(D, "r_nd_ld") = {<<D["ld"][j].nd, D["ld"][j].id>> : j \in {k \in S : HasOwner(D["ld"][k])}}
BusesPlaced(D, S) == \A j \in S : D["bus"][j].ptr["ind"] # NoRow
BusesHeld(D) == \A j \in DOMAIN D["bus"] : HasStation(D["bus"][j])
SectionsPlaced(D, S) == \A j \in S : BothSet(D["sec"][j])

\* The owners of the load at j.
Owners(D, j) == {p \in PairsOf(D, "r_st_ld") \cup PairsOf(D, "r_zn_ld") : p[2] = D["ld"][j].id}
LoadsOwned(D) ==
  \A j \in DOMAIN D["ld"] :
    IF HasOwner(D["ld"][j]) THEN \E p \in Owners(D, j) : Owners(D, j) = {p} ELSE Owners(D, j) = {}

\* What was read never changes: no branch ends where it starts, every station
\* is there once, and every bus has one.  A zone has each of its nodes once, and
\* nothing reads capacitors (ReadPSBOB).
Apart(D) ==
  /\ \A t \in {"cb", "switch", "sec"} : \A j \in DOMAIN D[t] : D[t][j].nd # D[t][j].znd
  /\ \A i, j \in DOMAIN D["st"] : D["st"][i].pid = D["st"][j].pid => i = j
  /\ \A j \in DOMAIN D["bus"] : \E i \in DOMAIN D["st"] : D["st"][i].pid = D["bus"][j].stid
  /\ \A z \in DOMAIN D["zn"] : \A m, n \in DOMAIN D["zn"][z].nds : D["zn"][z].nds[m] = D["zn"][z].nds[n] => m = n
  /\ DOMAIN D["cp"] = {}

\* The calls in their order, and the one that goes over each table.
Turn ==
  [ST_Validate |-> 1, ZN_Validate |-> 2, CB_Validate |-> 3, SWITCH_Validate |-> 4, BUS_Validate |-> 5,
   CP_Validate |-> 6, LD_Validate |-> 7, SO_Validate |-> 8, SEC_Validate |-> 9, R_SEC_FI_Build |-> 10,
   ValidateEnd |-> 11]
TurnOf == [cb |-> 3, switch |-> 4, bus |-> 5, ld |-> 7, sec |-> 9]

\* The rows of t a pass has gone over when call comes to row i.
Gone(D, call, i, t) == {j \in DOMAIN D[t] : TurnOf[t] < Turn[call] \/ (TurnOf[t] = Turn[call] /\ j < i)}
Begun(call, i, t) == TurnOf[t] < Turn[call] \/ (TurnOf[t] = Turn[call] /\ i # 0)
Built(D, call, i) ==
  /\ BranchesListed(D, "cb", "r_nd_cb", Gone(D, call, i, "cb"))
  /\ BranchesListed(D, "switch", "r_nd_switch", Gone(D, call, i, "switch"))
  /\ BranchesListed(D, "sec", "r_nd_sec", Gone(D, call, i, "sec"))
  /\ SectionsPlaced(D, Gone(D, call, i, "sec"))
  /\ LoadsListed(D, Gone(D, call, i, "ld"))
  /\ BusesPlaced(D, Gone(D, call, i, "bus"))
  /\ call = "BUS_Validate" /\ i # 0 => BusesHeld(D)
  /\ Begun(call, i, "ld") => LoadsOwned(D)
Complete(D) ==
  /\ BranchesListed(D, "cb", "r_nd_cb", DOMAIN D["cb"])
  /\ BranchesListed(D, "switch", "r_nd_switch", DOMAIN D["switch"])
  /\ BranchesListed(D, "sec", "r_nd_sec", DOMAIN D["sec"])
  /\ SectionsPlaced(D, DOMAIN D["sec"])
  /\ LoadsListed(D, DOMAIN D["ld"])
  /\ BusesPlaced(D, DOMAIN D["bus"])
  /\ LoadsOwned(D)

\* The server has not ended, and the pass has listed what it has gone over.
SInv ==
  /\ pc # "exited"
  /\ pc \in DOMAIN Left \cup {"ValidateStart", "BuildZones", "find_so", "ReadFromDsbob2"} => Apart(rows)
  /\ pc \in DOMAIN Left => Built(rows, pc, at)
  /\ pc \in {"find_so", "ReadFromDsbob2"} /\ rows["nd"] # <<>> => Complete(rows)

-----------------------------------------------------------------------------
(* One step of a pass.                                                     *)

\* The tables that the lists are made of, and the rows that keep their fields.
Network == {"cb", "switch", "sec", "st", "bus", "zn", "cp", "ld"}
FieldsHeld(D, E, t) ==
  /\ DOMAIN E[t] = DOMAIN D[t]
  /\ \A i \in DOMAIN D[t] : \A g \in Fields(t) \ {"ptr", "inds"} : E[t][i][g] = D[t][i][g]
RowsHeld(D, E) == \A t \in Network : FieldsHeld(D, E, t)
NodesHeld(D, E, t) == \A i \in DOMAIN D[t] : \A g \in Ptrs(t) \cap {"ind", "iznd"} : E[t][i].ptr[g] = D[t][i].ptr[g]
OnceIn(D, r) == \A j, k \in DOMAIN D[r] : D[r][j].par = D[r][k].par /\ D[r][j].chi = D[r][k].chi => j = k

\* The pointer to a node is set and no row but this one is changed.
NodeOnly(D, E, t, i, f) ==
  /\ Elsewhere(D, E, {"nd", t}) /\ DOMAIN E[t] = DOMAIN D[t]
  /\ \A j \in DOMAIN D[t] \ {i} : E[t][j] = D[t][j]
  /\ \A g \in Fields(t) \ {"ptr"} : E[t][i][g] = D[t][i][g]
  /\ \A g \in Ptrs(t) \ {f} : E[t][i].ptr[g] = D[t][i].ptr[g]
  /\ E[t][i].ptr[f] # NoRow

\* A branch is given its nodes and is listed at both, or keeps a node missing
\* and is listed at none.
BranchDone(D, E, t, r, S, i) ==
  /\ Elsewhere(D, E, {"nd", r, t}) /\ DOMAIN E[t] = DOMAIN D[t]
  /\ \A j \in DOMAIN D[t] : \A g \in Fields(t) \ {"ptr"} : E[t][j][g] = D[t][j][g]
  /\ \A j \in DOMAIN D[t] \ {i} : E[t][j] = D[t][j]
  /\ ~Twice(E)
  /\ BranchesListed(E, t, r, S \cup {i})

\* A load is given its node and is listed at it.
OwnersHeld(D, E) == \A j \in DOMAIN D["ld"] : HasOwner(E["ld"][j]) <=> HasOwner(D["ld"][j])
LoadDone(D, E, S, i) ==
  /\ Elsewhere(D, E, {"nd", "ld", "r_nd_ld"}) /\ FieldsHeld(D, E, "ld") /\ OwnersHeld(D, E)
  /\ ~Twice(E) /\ LoadsListed(E, S \cup {i})

\* What the build of a whole relation lists and leaves alone.
BuildDone(D, E, r, p, pf, c, cf, M) ==
  /\ Typed(E)
  /\ \A t \in Tables \ {r, p, c} : E[t] = D[t]
  /\ OnlyPtr(D, E, p, pf) /\ OnlyPtr(D, E, c, cf)
  /\ PairsOf(E, r) = {<<D[p][m[1]].id, D[c][m[2]].id>> : m \in M}
  /\ \A j \in DOMAIN D[c] : \/ E[c][j].ptr[cf] = D[c][j].ptr[cf] /\ \A m \in M : m[2] # j
                            \/ E[c][j].ptr[cf] # NoRow /\ \E m \in M : m[2] = j
  /\ ~Twice(E)

-----------------------------------------------------------------------------
(* The lists through a step.                                               *)

\* What a step leaves of the lists when it lists nothing.
Steady(D, E) ==
  /\ RowsHeld(D, E)
  /\ \A t \in {"cb", "switch", "sec", "bus"} : NodesHeld(D, E, t)
  /\ \A r \in {"r_nd_cb", "r_nd_switch", "r_nd_sec", "r_nd_ld"} : PairsOf(E, r) = PairsOf(D, r)
OwnersSame(D, E) ==
  /\ OwnersHeld(D, E)
  /\ PairsOf(E, "r_st_ld") = PairsOf(D, "r_st_ld") /\ PairsOf(E, "r_zn_ld") = PairsOf(D, "r_zn_ld")

-----------------------------------------------------------------------------
(* The lists after the turn of a row.                                      *)

Turns == {<<"cb", "r_nd_cb">>, <<"switch", "r_nd_switch">>, <<"sec", "r_nd_sec">>, <<"ld", "r_nd_ld">>, <<"bus", "nd">>}

\* E is D after the row at i of t has been gone over.
Turned(D, E, t, r, S, i) ==
  /\ Elsewhere(D, E, {"nd", r, t}) /\ FieldsHeld(D, E, t)
  /\ t \in {"cb", "switch", "sec"} => BranchesListed(E, t, r, S \cup {i})
  /\ t = "sec" => SectionsPlaced(E, S \cup {i})
  /\ t = "ld" => LoadsListed(E, S \cup {i}) /\ LoadsOwned(E)
  /\ t = "bus" => BusesPlaced(E, S \cup {i}) /\ BusesHeld(E)

-----------------------------------------------------------------------------
(* The calls of a pass keep what they list.                                *)

Goes(D, next, i) == ~Twice(D) /\ Apart(D) /\ Built(D, next, i)

\* The calls that go over no table of the lists.
Quiet == {"ST_Validate", "ZN_Validate", "CP_Validate", "SO_Validate", "R_SEC_FI_Build"}

-----------------------------------------------------------------------------
(* What is read has no branch that ends where it starts.                   *)

EndsApart(s) == \A i \in DOMAIN s : s[i].nd # s[i].znd

-----------------------------------------------------------------------------
(* The end of a pass moves the rows and converts the pointers: what is     *)
(* listed and what is placed stays so.                                     *)

Lists == {"r_nd_cb", "r_nd_switch", "r_nd_sec", "r_nd_ld", "r_st_ld", "r_zn_ld"}
Carried(D, E, L) ==
  /\ \A t \in Network :
       /\ DOMAIN E[t] = DOMAIN D[t] /\ Permutes(L[t], DOMAIN D[t])
       /\ \A i \in DOMAIN D[t] : \A g \in Fields(t) \ {"ptr", "inds"} : E[t][L[t][i]][g] = D[t][i][g]
  /\ \A t \in {"cb", "switch", "sec", "bus", "ld"} : \A f \in Ptrs(t) \cap {"ind", "iznd", "r_st", "r_zn"} :
       \A i \in DOMAIN D[t] : E[t][L[t][i]].ptr[f] = NoRow <=> D[t][i].ptr[f] = NoRow
  /\ \A r \in Lists : PairsOf(E, r) = PairsOf(D, r)
=============================================================================
