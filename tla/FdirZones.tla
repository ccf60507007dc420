----------------------------- MODULE FdirZones ------------------------------
(***************************************************************************)
(* The zones of a fault processor (BuildCb, BuildZone and FormIcbOfZone    *)
(* of FDIR_R.cpp) as functions of the network.                             *)
(*                                                                         *)
(* A network is a record of tables; a node is a number, a device the pair  *)
(* of its table and its number there:                                      *)
(*   bus, ld  -  the node of each busbar and load                          *)
(*   cb       -  both nodes of each breaker, and its attributes            *)
(*   sec      -  both nodes of each section and its fault indicators in    *)
(*               their order from the first node                           *)
(*   sw       -  both nodes of each disconnector and whether it is open    *)
(*   zn       -  the nodes of each region of Nmd                           *)
(***************************************************************************)
EXTENDS Integers, Sequences, SequencesExt

Rows(table) == [i \in DOMAIN table |-> i]

\* FindChildPtr of the relations between nodes and two-ended devices.
At(n, table) == SelectSeq(Rows(table), LAMBDA i : n \in {table[i].ind, table[i].iznd})
OtherEnd(row, n) == IF row.ind = n THEN row.iznd ELSE row.ind
BusesAt(n, net) == {b \in DOMAIN net.bus : net.bus[b] = n}
LoadsAt(n, net) == SelectSeq(Rows(net.ld), LAMBDA i : net.ld[i] = n)

-----------------------------------------------------------------------------
(* The tables: a zone has a range of cbnum rows from cbptr on in zone_cb,  *)
(* and a breaker the two zones it lies between, -1 for none.               *)

\* A region counts no breaker at a node with a known busbar, a busbar does.
GetCbCountToNd(n, type, net) ==
  IF type = "ZN" /\ BusesAt(n, net) # {} THEN 0 ELSE Len(At(n, net.cb))

\* The rows go in for every breaker of the node, whatever the count was.
Insert_Zone_Cb(rows, n, net) == rows \o At(n, net.cb)

Sum(f, ns) == FoldLeft(LAMBDA sum, n : sum + f[n], 0, ns)

AddRegion(z, i, net) ==
  LET ns == net.zn[i]
      count == [n \in ToSet(ns) |-> GetCbCountToNd(n, "ZN", net)]
  IN [zone |-> Append(z.zone, [type |-> "ZN", sub |-> i, icb |-> -1,
                               cbptr |-> Len(z.zone_cb), cbnum |-> Sum(count, ns)]),
      zone_cb |-> FoldLeft(LAMBDA rows, n : Insert_Zone_Cb(rows, n, net), z.zone_cb, ns)]

\* Every node met over sections and closed disconnectors, each once.
RECURSIVE BuildBusZone(_, _, _)
BuildBusZone(a, n, net) ==
  IF n \in a.bvisited THEN a
  ELSE LET here == [bvisited |-> a.bvisited \union {n},
                    k |-> a.k + GetCbCountToNd(n, "BUS", net),
                    rows |-> Insert_Zone_Cb(a.rows, n, net)]
           secs == FoldLeft(LAMBDA b, i : BuildBusZone(b, OtherEnd(net.sec[i], n), net),
                            here, At(n, net.sec))
           Closed(i) == ~net.sw[i].open
       IN FoldLeft(LAMBDA b, i : BuildBusZone(b, OtherEnd(net.sw[i], n), net),
                   secs, SelectSeq(At(n, net.sw), Closed))

\* A zone for the busbar, and one more over the same rows if it is a source.
AddBus(z, i, so, net) ==
  LET b == BuildBusZone([bvisited |-> {}, k |-> 0, rows |-> z.zone_cb], net.bus[i], net)
      Z(type) == [type |-> type, sub |-> i, icb |-> -1,
                  cbptr |-> Len(z.zone_cb), cbnum |-> b.k]
  IN [zone |-> z.zone \o IF i \in so THEN <<Z("BUS"), Z("SO")>> ELSE <<Z("BUS")>>,
      zone_cb |-> b.rows]

CbsOf(z, i) == [k \in 1 .. z.zone[i].cbnum |-> z.zone_cb[z.zone[i].cbptr + k]]

\* The first two zones that list a breaker, busbars left aside, are its zones.
ZonesOfCb(z, net) ==
  LET Listing(icb) ==
        FoldLeft(LAMBDA hits, i :
                   hits \o [k \in 1 .. Len(SelectSeq(CbsOf(z, i), LAMBDA c : c = icb)) |-> i],
                 <<>>, SelectSeq(Rows(z.zone), LAMBDA i : z.zone[i].type # "BUS"))
      Hit(icb, k) == IF Len(Listing(icb)) < k THEN -1 ELSE Listing(icb)[k]
  IN [icb \in DOMAIN net.cb |-> [ind |-> Hit(icb, 1), iznd |-> Hit(icb, 2)]]

BuildZone(so, net) ==
  LET none == [zone |-> <<>>, zone_cb |-> <<>>]
      regions == FoldLeft(LAMBDA z, i : AddRegion(z, i, net), none, Rows(net.zn))
      all == FoldLeft(LAMBDA z, i : AddBus(z, i, so, net), regions, Rows(net.bus))
  IN [zone |-> all.zone, zone_cb |-> all.zone_cb, fdir_cb |-> ZonesOfCb(all, net)]

NoZones(net) == [zone |-> <<>>, zone_cb |-> <<>>,
                 fdir_cb |-> [icb \in DOMAIN net.cb |-> [ind |-> -1, iznd |-> -1]]]

-----------------------------------------------------------------------------
(* Through which breaker each zone is supplied.  A breaker without a       *)
(* second zone makes the code use the record before the table: outside.    *)

BeyondFirst(z, i, icb) == z.fdir_cb[icb].ind

Beyond(z, i, icb) ==
  IF z.fdir_cb[icb].ind = i THEN z.fdir_cb[icb].iznd ELSE z.fdir_cb[icb].ind

RECURSIVE spread_so(_, _, _, _)
spread_so(a, i, open, z) ==
  LET Cross(b, icb) ==
        LET next == Beyond(z, i, icb)
            done == [b EXCEPT !.cbs = @ \ {icb}]
        IN IF icb \notin b.cbs THEN b
           ELSE IF icb \in open THEN done
           ELSE IF next = -1 THEN [done EXCEPT !.outside = TRUE]
           ELSE IF z.zone[next].type = "SO" THEN done
           ELSE spread_so([done EXCEPT !.icb[next] = icb], next, open, z)
  IN IF i \notin a.zones THEN a
     ELSE FoldLeft(Cross, [a EXCEPT !.zones = @ \ {i}], CbsOf(z, i))

FormIcbOfZone(z, open) ==
  LET start == [zones |-> DOMAIN z.zone, cbs |-> DOMAIN z.fdir_cb, outside |-> FALSE,
                icb |-> [i \in DOMAIN z.zone |-> -1]]
      sources == SelectSeq(Rows(z.zone), LAMBDA i : z.zone[i].type = "SO")
      end == FoldLeft(LAMBDA a, i : spread_so(a, i, open, z), start, sources)
  IN [z EXCEPT !.zone = [i \in DOMAIN z.zone |-> [z.zone[i] EXCEPT !.icb = end.icb[i]]]]

\* The first zone supplied through a breaker.
FindDownZone(z, icb) ==
  LET fed == SelectSeq(Rows(z.zone), LAMBDA i : z.zone[i].icb = icb)
  IN IF fed = <<>> THEN -1 ELSE fed[1]

\* The first zone on the other side: it lists the breaker and is not
\* supplied through it.
FindUpZone(z, icb) ==
  LET Up(i) == /\ z.zone[i].icb # -1 \/ z.zone[i].type \in {"SO", "BUS"}
               /\ z.zone[i].icb # icb
               /\ icb \in ToSet(CbsOf(z, i))
      up == SelectSeq(Rows(z.zone), Up)
  IN IF up = <<>> THEN -1 ELSE up[1]
=============================================================================
