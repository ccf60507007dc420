------------------------------ MODULE StepPlan ------------------------------
(***************************************************************************)
(* What automatic execution of a plan promises: the steps are carried out  *)
(* in the order of the plan, one after the other and each only when the    *)
(* one before has succeeded; the first one that fails ends the execution   *)
(* for good, and only when every step has been carried out is the fault    *)
(* finished.  StepExecution is shown to implement it.                      *)
(***************************************************************************)
EXTENDS Sequences

CONSTANTS Plans, None

VARIABLES
  pending,   \* the steps not started, in the order of the plan
  current,   \* the step being carried out, or None
  state      \* "ready", "running", "failed" or "finished"

planVars == <<pending, current, state>>

Init == pending = <<>> /\ current = None /\ state = "ready"

Start ==
  /\ state = "ready"
  /\ \E p \in Plans :
       /\ p # <<>>
       /\ current' = Head(p) /\ pending' = Tail(p)
  /\ state' = "running"

Succeed ==
  /\ state = "running" /\ current # None
  /\ current' = None
  /\ UNCHANGED <<pending, state>>

Proceed ==
  /\ state = "running" /\ current = None /\ pending # <<>>
  /\ current' = Head(pending) /\ pending' = Tail(pending)
  /\ UNCHANGED state

Finish ==
  /\ state = "running" /\ current = None /\ pending = <<>>
  /\ state' = "finished"
  /\ UNCHANGED <<pending, current>>

Fail ==
  /\ state = "running" /\ current # None
  /\ current' = None /\ state' = "failed"
  /\ UNCHANGED pending

\* The steps of a failed plan are given up, for another plan to be computed.
GiveUp ==
  /\ state = "failed"
  /\ pending' = <<>>
  /\ UNCHANGED <<current, state>>

Next == Start \/ Succeed \/ Proceed \/ Finish \/ Fail \/ GiveUp

Spec == Init /\ [][Next]_planVars
=============================================================================
