----------------------------- MODULE MCTaskPool -----------------------------
EXTENDS TaskPool

\* The consoles are alike.
ConsolesAlike == Permutations(Consoles)
=============================================================================
