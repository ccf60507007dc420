-------------------------- MODULE MCStepExecution --------------------------
EXTENDS StepExecution

\* Two breakers that isolate, one that transfers the load and one that
\* restores upstream.
CONSTANTS i1, i2, t1, r1

MCBreakers == {i1, i2, t1, r1}

MCStage ==
  (i1 :> STAGE_FDIR_STEP_ISOLATE) @@ (i2 :> STAGE_FDIR_STEP_ISOLATE) @@
  (t1 :> STAGE_FDIR_STEP_TRANSFER) @@ (r1 :> STAGE_FDIR_STEP_RESTORE)

\* Plans begin with the isolation; none may be controllable at all.
FullPlans == {<<>>, <<i1, t1>>, <<i1, i2, t1, r1>>, <<i2, r1, t1>>}

ShortPlans == {<<i1, t1>>, <<i1, i2, t1>>}

TinyPlans == {<<i1, t1>>, <<i1>>}

\* The consoles are alike.
Consoles == Permutations(Clients)
=============================================================================
