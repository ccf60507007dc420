-------------------------- MODULE MCSimulatedFault --------------------------
EXTENDS SimulatedFault

\* A plan to be kept and one that is not, each of one protection signal, and a
\* check of a device that is no breaker.
TwoPlans == [temp |-> <<"trip">>, saved |-> <<"trip">>]
Checks == {<<"other">>}
=============================================================================
