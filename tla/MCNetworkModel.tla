--------------------------- MODULE MCNetworkModel ---------------------------
(***************************************************************************)
(* The network model on small networks.  A feeder starts at node 9, which  *)
(* a virtual breaker joins to the bus of the substation, and ends at a     *)
(* second bus.  Each source is a part of this network; the ids of the nodes *)
(* fall along the feeder, so that the order of the rows is not the order   *)
(* in which they are met.                                                  *)
(***************************************************************************)
EXTENDS NetworkModel

Branch(id, a, b) == [id |-> id, nd |-> a, znd |-> b, stid |-> 11, zstid |-> 11, kv10 |-> TRUE]
FeederParts ==
  {[in |-> "sec", row |-> Branch(82, 7, 4)], [in |-> "cb", row |-> Branch(1, 7, 6)],
   [in |-> "switch", row |-> Branch(1, 6, 5)],
   [in |-> "ld", row |-> Branch(1, 5, 0)],
   [in |-> "bus", row |-> Branch(22, 2, 0)], [in |-> "sec", row |-> Branch(80, 4, 2)]}
OddParts ==
  {[in |-> "cb", row |-> Branch(2, 6, 6)],
   [in |-> "sec", row |-> [Branch(79, 3, 2) EXCEPT !.zstid = 10]],
   [in |-> "bus", row |-> [Branch(23, 1, 0) EXCEPT !.stid = 99]]}
FixedParts ==
  {[in |-> "sec", row |-> Branch(81, 5, 4)],
   [in |-> "sec", row |-> Branch(83, 9, 7)], [in |-> "ground", row |-> Branch(70, 4, 0)],
   [in |-> "sec", row |-> Branch(78, 3, 2)], [in |-> "cb", row |-> Branch(5, 6, 3)],
   [in |-> "ld", row |-> Branch(2, 9, 0)], [in |-> "ld", row |-> [Branch(3, 4, 0) EXCEPT !.stid = 98]],
   [in |-> "fi", row |-> [stid |-> 11, sec |-> 83, kv10 |-> TRUE]],
   [in |-> "fi", row |-> [stid |-> 11, sec |-> 81, kv10 |-> TRUE]],
   [in |-> "bus", row |-> [Branch(21, 8, 0) EXCEPT !.stid = 10]]}

PartsOf(kind, parts) ==
  Ordered({p.row : p \in {q \in parts : q.in = kind}},
               LAMBDA a, b : IF kind = "fi" THEN a.sec > b.sec ELSE a.id > b.id)
SourceOf(parts, size) ==
  [co |-> <<1>>, nd_size |-> size, live |-> {{21}, {21, 22, 23}},
   st |-> <<[id |-> 12, kind |-> "other"], [id |-> 10, kind |-> "substation"], [id |-> 11, kind |-> "other"]>>,
   dv |-> <<[nd |-> 9, feeder |-> TRUE, bus |-> 21, busnd |-> 8, sourceid |-> 10]>>,
   cb |-> PartsOf("cb", parts), switch |-> PartsOf("switch", parts), ground |-> PartsOf("ground", parts),
   sec |-> PartsOf("sec", parts), bus |-> PartsOf("bus", parts), ld |-> PartsOf("ld", parts),
   fi |-> PartsOf("fi", parts)]

MCSources ==
  {SourceOf(FixedParts \cup parts, 12) : parts \in SUBSET FeederParts}
    \cup {SourceOf(FixedParts \cup FeederParts \cup parts, size) : parts \in SUBSET OddParts, size \in {5, 9, 12}}
    \cup {[SourceOf({}, 12) EXCEPT !.dv = <<>>, !.st = IF empty THEN <<>> ELSE @, !.co = IF empty THEN <<1, 2>> ELSE @]
            : empty \in BOOLEAN}
=============================================================================
