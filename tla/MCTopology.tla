----------------------------- MODULE MCTopology -----------------------------
EXTENDS Topology, FiniteSetsExt, SequencesExt

Pairs == {e \in Edges : e.ind < e.iznd}
Ring == {e \in Pairs : e.iznd \in {e.ind + 1, e.ind + 3}}
Winding == {[ind |-> 3, iznd |-> 0]}

Flagged(so, stale) ==
  [n \in Nodes |-> IF n \in so \cup stale THEN {"ND_SO"} ELSE IF n = 2 THEN {"ND_LD"} ELSE {}]

\* A breaker between any two nodes, open or closed, any sections of a ring, one
\* winding or none, with or without its transformer, and up to three sources.
AllNetworks ==
  {[cb |-> Pairs, open |-> open, sec |-> sec, xf |-> w[1], orphan |-> w[2],
    so |-> SetToSortSeq(so, <), q |-> Flagged(so, stale)] :
     open \in SUBSET Pairs, sec \in SUBSET Ring,
     w \in {<<{}, {}>>, <<Winding, {}>>, <<Winding, Winding>>},
     so \in UNION {kSubset(k, Nodes) : k \in 0..3}, stale \in {{}, {1}}}
=============================================================================
