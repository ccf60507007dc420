-------------------------- MODULE MCFaultLocation --------------------------
EXTENDS FaultLocation

\* Breakers do not matter: every two located faults share one.
OneEdgeSet == {{1}}

\* Three located faults may share breakers pairwise or not.
ManyEdgeSets == {{1}, {2}, {1, 2}}
=============================================================================
