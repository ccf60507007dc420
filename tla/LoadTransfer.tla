---------------------------- MODULE LoadTransfer ----------------------------
(***************************************************************************)
(* The transfer of load to other feeders, from the request to the last     *)
(* operation: the console names a breaker (Do of FHZG.cpp) or a busbar     *)
(* (FHZG_Bus), or a fault has been isolated and the breakers around it are *)
(* to be restored from elsewhere (calc_restore_step and recu_calc_restore  *)
(* of FDIRR2.cpp); one of the plans is carried out breaker by breaker, a   *)
(* breaker may refuse, and then the rest is planned again                  *)
(* (re_calc_restore_step).                                                 *)
(*                                                                         *)
(* base is what the program takes the breakers for while it plans, open    *)
(* what they are.                                                          *)
(***************************************************************************)
EXTENDS TransferPlan

CONSTANTS
  Scenes,      \* networks with the loads, capacities and requests to try
  Points,      \* how many samples are averaged, 6 in the code
  MaxSamples,  \* how often currents are measured between a fault and its plan
  MaxRefused   \* how many controls are refused

VARIABLES
  scene,   \* network, loads, capacities and what is asked for
  z,       \* the zones of the processor
  samples, \* g_mapTempIValue: the last currents measured at each breaker
  late,    \* samples since the fault
  open,    \* breakers that are open
  base,    \* breakers with CB_OPEN
  failed,  \* lst_failed
  value,   \* zone_value_map
  pc,
  iso,     \* map_iso: the breakers still to be restored
  all_iso, \* tmp_map_iso
  round,   \* those this round has not come to
  restored,\* lst_restored
  tails,   \* the plans so far: for each the entries in order
  plan,    \* what the last Do has planned
  steps    \* operations of the chosen plan not carried out yet

vars == <<scene, z, samples, late, open, base, failed, value, pc, iso, all_iso, round,
          restored, tails, plan, steps>>
planning == <<iso, all_iso, round, restored, tails>>

Ascending(S) == SetToSortSeq(S, LAMBDA a, b : a < b)

-----------------------------------------------------------------------------
(* The network as it is.                                                   *)

Beside(cb) == {z.fdir_cb[cb].ind, z.fdir_cb[cb].iznd}
RECURSIVE Reached(_, _)
Reached(S, isOpen) ==
  LET next == S \union UNION {Beside(cb) : cb \in {c \in DOMAIN z.fdir_cb :
                                c \notin isOpen /\ Beside(c) \intersect S # {}}}
  IN IF next = S THEN S ELSE Reached(next, isOpen)

Sources == {i \in DOMAIN z.zone : z.zone[i].type = "SO"}
Regions == {i \in DOMAIN z.zone : z.zone[i].type = "ZN"}
Feeding(i, isOpen) == Sources \intersect Reached({i}, isOpen)
\* The incoming breaker of a feeder, and the zones behind it.
Heads == {cb \in DOMAIN z.fdir_cb : Beside(cb) \intersect Sources # {}}
Behind(cb, isOpen) ==
  IF cb \in isOpen THEN {}
  ELSE Reached(Beside(cb) \ Sources, isOpen \union Heads) \ Sources
LoadOf(S) == MapThenSumSet(LAMBDA i : scene.load[i], S)

\* The current of each measured breaker is the load behind it.
RECURSIVE ChainUp(_, _)
ChainUp(zones, i) ==
  LET icb == zones.zone[i].icb
      up == {j \in DOMAIN zones.zone : zones.zone[j].type = "ZN" /\ j # i
               /\ j \in {zones.fdir_cb[icb].ind, zones.fdir_cb[icb].iznd}}
  IN IF icb = -1 THEN {} ELSE {icb} \union UNION {ChainUp(zones, j) : j \in up}
CurrentOf(zones, load) ==
  LET Downstream(cb) == {i \in DOMAIN load : cb \in ChainUp(zones, i)}
  IN [cb \in DOMAIN zones.fdir_cb |-> MapThenSumSet(LAMBDA i : load[i], Downstream(cb))]
\* What is measured once the feeding breaker of the faulted zone has tripped.
Tripped ==
  LET dark == {i \in DOMAIN scene.load : z.zone[scene.ask.of].icb \in ChainUp(z, i)}
  IN CurrentOf(z, [i \in DOMAIN scene.load |-> IF i \in dark THEN 0 ELSE scene.load[i]])

-----------------------------------------------------------------------------
(* The zones of a new FHZG, and the currents it plans with.                *)

BuildDB(so, net, isOpen) == FormIcbOfZone(BuildZone(so, net), isOpen)

\* The average of the last samples, -1 for a breaker without any.
GetCbIVlaue(cb) ==
  IF samples[cb] = <<>> THEN -1
  ELSE FoldLeft(LAMBDA sum, i : sum + i, 0, samples[cb]) \div Len(samples[cb])

Env(isOpen, isolating) ==
  [z |-> FormIcbOfZone(z, isOpen), open |-> isOpen,
   current |-> [cb \in DOMAIN z.fdir_cb |-> GetCbIVlaue(cb)],
   cap |-> [cb \in DOMAIN z.fdir_cb |-> IF cb \in DOMAIN scene.cap THEN scene.cap[cb] ELSE 0],
   failed |-> failed, iso |-> isolating, rising |-> scene.rising]

-----------------------------------------------------------------------------
(* What a plan is written as.                                              *)

Opens(cbs) == [k \in DOMAIN cbs |-> [cb |-> cbs[k], opens |-> TRUE]]
Closes(cbs) == [k \in DOMAIN cbs |-> [cb |-> cbs[k], opens |-> FALSE]]

\* Mutant: of several feeders that share, the first alone is connected.
FirstTie(p) == <<Min({p.ops[k].close : k \in DOMAIN p.ops})>>

Ties(p) == Ascending({p.ops[k].close : k \in DOMAIN p.ops})
OpensOf(p) == [k \in DOMAIN p.ops |-> p.ops[k].open]

\* Mutant: the breaker itself stays closed.
fill_fhzg_dbClosed(p, cb) ==
  IF p.type = "ALL"
  THEN {Opens(p.cut_ops) \o Closes(<<p.t[n].dev.cb>>) : n \in ToSet(p.sel)}
  ELSE {Opens(p.cut_ops \o OpensOf(p)) \o Closes(Ties(p))}

\* fill_fhzg_db: a plan for each feeder that can take all, or one for those
\* that share; first what is cut, then the breaker itself, then the ties.
fill_fhzg_db(p, cb) ==
  IF p.type = "ALL"
  THEN {Opens(Append(p.cut_ops, cb)) \o Closes(<<p.t[n].dev.cb>>) : n \in ToSet(p.sel)}
  ELSE {Opens(p.cut_ops \o OpensOf(p)) \o Closes(Ties(p))}

\* The entries recu_calc_restore adds to a plan: the breaker itself is open
\* already, or is opened first (FHZG_Bus).  What is cut goes with the first
\* operation of those that share; write_fhzg_step keeps the closings of a plan
\* whose load is shared until all its openings are written (main.cpp 10987, 11093).
Entries(p, cb) ==
  LET Part(k) == Opens((IF k = 1 THEN p.cut_ops ELSE <<>>)
                       \o SelectSeq(<<p.ops[k].open>>, LAMBDA c : c # cb))
      byTie == SetToSortSeq(DOMAIN p.ops, LAMBDA j, k : p.ops[j].close < p.ops[k].close)
  IN IF p.type = "ALL"
     THEN [k \in DOMAIN p.sel |->
             [cb |-> cb, steps |-> Opens(p.cut_ops) \o Closes(<<p.t[p.sel[k]].dev.cb>>)]]
     ELSE <<[cb |-> cb, steps |-> FoldLeft(LAMBDA s, k : s \o Part(k), <<>>, byTie) \o Closes(Ties(p))]>>

\* write_fhzg_step: the entries in order.
write_fhzg_step(tail, isolate) ==
  Opens(isolate) \o FoldLeft(LAMBDA s, entry : s \o entry.steps, <<>>, tail)

-----------------------------------------------------------------------------
(* The plan for every breaker to be restored, on every plan so far.        *)

SetCb(isOpen, step) == IF step.opens THEN isOpen \union {step.cb} ELSE isOpen \ {step.cb}
UnsetCb(isOpen, step) == IF step.opens THEN isOpen \ {step.cb} ELSE isOpen \union {step.cb}

\* The entries are gone through from the last to the first, and back again
\* the same way.
Assume(isOpen, tail) ==
  FoldLeft(LAMBDA o, entry : FoldLeft(SetCb, o, entry.steps), isOpen, Reverse(tail))
Retract(isOpen, tail) ==
  FoldLeft(LAMBDA o, entry : FoldLeft(UnsetCb, o, entry.steps), isOpen, Reverse(tail))

\* All breakers of this processor that are to be restored count as closed.
WithPlan(r, tail, cb, assumed, p) ==
  LET more == [k \in DOMAIN Entries(p, cb) |-> Append(tail, Entries(p, cb)[k])]
  IN [base |-> Retract(assumed, tail), value |-> p.value, plan |-> p,
      crashed |-> r.crashed \/ p.ret = "CRASH",
      tails |-> IF p.ret = "OK" THEN r.tails \o more ELSE r.tails]
OnTail(r, tail, cb) ==
  LET assumed == Assume(r.base, tail) \ all_iso
  IN WithPlan(r, tail, cb, assumed, Do(cb, r.value, Env(assumed, scene.isolating)))

RestoreOne ==
  /\ pc = "restore"
  /\ round # <<>>
  /\ LET cb == Head(round)
         start == [base |-> base, value |-> value, plan |-> plan, crashed |-> FALSE, tails |-> <<>>]
     IN \E end \in {FoldLeft(LAMBDA r, tail : OnTail(r, tail, cb), start, tails)} :
          /\ base' = end.base /\ value' = end.value /\ plan' = end.plan
          /\ tails' = IF end.tails = <<>> THEN tails ELSE end.tails
          /\ restored' = IF end.tails = <<>> THEN restored ELSE restored \union {cb}
          /\ pc' = IF end.crashed THEN "crashed" ELSE pc
  /\ round' = Tail(round)
  /\ UNCHANGED <<scene, z, samples, late, open, failed, iso, all_iso, steps>>

\* Mutant: the list of restored breakers is not cleared.
NextRoundUncleared ==
  /\ pc = "restore"
  /\ round = <<>>
  /\ iso' = iso \ restored
  /\ round' = IF restored = {} THEN <<>> ELSE Ascending(iso \ restored)
  /\ pc' = IF restored = {} THEN "planned" ELSE pc
  /\ UNCHANGED <<scene, z, samples, late, open, base, failed, value, restored, all_iso, tails, plan, steps>>

\* Another round for the others if this one has restored any.
NextRound ==
  /\ pc = "restore"
  /\ round = <<>>
  /\ iso' = iso \ restored
  /\ round' = IF restored = {} THEN <<>> ELSE Ascending(iso \ restored)
  /\ restored' = {}
  /\ pc' = IF restored = {} THEN "planned" ELSE pc
  /\ UNCHANGED <<scene, z, samples, late, open, base, failed, value, all_iso, tails, plan, steps>>

StartRestore(cbs, all) ==
  /\ iso' = cbs /\ all_iso' = all
  /\ round' = Ascending(cbs)
  /\ restored' = {}
  /\ tails' = <<<<>>>>
  /\ pc' = "restore"

-----------------------------------------------------------------------------
(* The requests.                                                           *)

\* Every ten seconds the oldest sample makes room for a new one, also of the
\* breakers that carry nothing since the fault.
thread_get_ivalue ==
  /\ pc = "asked" /\ scene.ask.kind = "fault"
  /\ late < MaxSamples
  /\ late' = late + 1
  /\ samples' = [cb \in DOMAIN samples |->
                   IF samples[cb] = <<>> THEN <<>>
                   ELSE LET all == Append(samples[cb], Tripped[cb])
                        IN IF Len(all) > Points THEN Tail(all) ELSE all]
  /\ UNCHANGED <<scene, z, open, base, failed, value, pc, plan, steps, planning>>

\* The console asks for a breaker: a new FHZG builds its zones and plans.
TransferBreaker ==
  /\ pc = "asked" /\ scene.ask.kind = "breaker"
  /\ plan' = Do(scene.ask.of, <<>>, Env(base, {}))
  /\ value' = plan'.value
  /\ pc' = CASE plan'.ret = "OK" -> "planned" [] plan'.ret = "CRASH" -> "crashed" [] OTHER -> "refused"
  /\ UNCHANGED <<scene, z, samples, late, open, base, failed, steps, planning>>

\* The console asks for a busbar: all its closed incoming breakers.
TransferBus ==
  LET zone == {i \in Sources : z.zone[i].sub = scene.ask.of}
      incoming == {cb \in ToSet(CbsOf(z, CHOOSE i \in zone : TRUE)) :
                     scene.net.cb[cb].jx /\ cb \notin base}
  IN /\ pc = "asked" /\ scene.ask.kind = "bus"
     /\ IF zone = {} THEN pc' = "refused" /\ UNCHANGED planning ELSE StartRestore(incoming, incoming)
     /\ UNCHANGED <<scene, z, samples, late, open, base, failed, value, plan, steps>>

\* The breakers that isolate the fault but for the one it was fed through.
ToRestore == {cb \in scene.isolating : z.zone[scene.ask.of].icb # cb}

\* A fault has been isolated: the zones behind those breakers are to be
\* restored.
RestoreFault ==
  /\ pc = "asked" /\ scene.ask.kind = "fault"
  /\ open' = open \union scene.isolating
  /\ StartRestore(ToRestore, ToRestore)
  /\ UNCHANGED <<scene, z, samples, late, base, failed, value, plan, steps>>

\* One of the plans is carried out.
Choose ==
  /\ pc = "planned"
  /\ steps' \in IF scene.ask.kind = "breaker" THEN fill_fhzg_db(plan, scene.ask.of)
                ELSE {write_fhzg_step(tails[k], IF scene.ask.kind = "bus"
                                                 THEN Ascending(all_iso) ELSE <<>>)
                      : k \in DOMAIN tails}
  /\ pc' = "carry_out"
  /\ UNCHANGED <<scene, z, samples, late, open, base, failed, value, plan, planning>>

Operate ==
  /\ pc = "carry_out" /\ steps # <<>>
  /\ open' = SetCb(open, Head(steps))
  /\ steps' = Tail(steps)
  /\ UNCHANGED <<scene, z, samples, late, base, failed, value, pc, plan, planning>>

Finish ==
  /\ pc = "carry_out" /\ steps = <<>>
  /\ pc' = "done"
  /\ UNCHANGED <<scene, z, samples, late, open, base, failed, value, plan, steps, planning>>

\* A breaker of a restoration refuses; the program plans again from what the
\* breakers are then, without those that have been restored.
Refuse ==
  /\ pc = "carry_out" /\ scene.ask.kind = "fault" /\ steps # <<>>
  /\ Cardinality(failed) < MaxRefused
  /\ failed' = failed \union {Head(steps).cb}
  /\ steps' = <<>>
  /\ pc' = "failed"
  /\ UNCHANGED <<scene, z, samples, late, open, base, value, plan, planning>>

\* A breaker counts as restored only if both its zones are supplied, which
\* the faulted one is not.
Supplied(isOpen, cb) ==
  LET now == FormIcbOfZone(z, isOpen) IN \A i \in Beside(cb) : now.zone[i].icb # -1

ReCalc ==
  /\ pc = "failed"
  /\ base' = open \ scene.isolating
  /\ StartRestore({cb \in ToRestore : ~Supplied(open, cb)}, ToRestore)
  /\ UNCHANGED <<scene, z, samples, late, open, failed, value, plan, steps>>

Next == thread_get_ivalue \/ TransferBreaker \/ TransferBus \/ RestoreFault \/ RestoreOne \/ NextRound
        \/ Choose \/ Operate \/ Finish \/ Refuse \/ ReCalc

Init ==
  /\ scene \in Scenes
  /\ z = BuildDB(scene.so, scene.net, scene.tie)
  /\ open = scene.tie /\ base = scene.tie
  /\ samples = [cb \in DOMAIN z.fdir_cb |->
                  IF cb \in scene.unmeasured THEN <<>>
                  ELSE [k \in 1 .. Points |-> CurrentOf(z, scene.load)[cb]]]
  /\ late = 0
  /\ failed = {} /\ value = <<>> /\ pc = "asked"
  /\ iso = {} /\ all_iso = {} /\ round = <<>> /\ restored = {} /\ tails = <<>>
  /\ plan = NoPlan("NONE", <<>>) /\ steps = <<>>

Spec == Init /\ [][Next]_vars

-----------------------------------------------------------------------------
(* What is checked.                                                        *)

Ops(p) == {p.ops[k] : k \in DOMAIN p.ops}
\* Two ties of a tree lead to one feeder.
SharedFeeder(p) ==
  \E n, m \in DOMAIN p.t : n # m /\ IsSource(p.t, n) /\ IsSource(p.t, m)
                           /\ p.t[n].dev.jx = p.t[m].dev.jx
\* More than two branches of a zone lead to a feeder that can take load.
Forked ==
  LET known == UNION {Beside(cb) \intersect Sources : cb \in {c \in DOMAIN scene.cap : scene.cap[c] > 0}}
      Leads(i, cb) == Reached({Beyond(z, i, cb)}, ToSet(CbsOf(z, i))) \intersect known # {}
  IN \E i \in Regions : /\ Len(CbsOf(z, i)) > 3
                        /\ Len(SelectSeq(CbsOf(z, i), LAMBDA cb : Leads(i, cb))) > 3
\* Ties closed to the zones of a feeder.
ClosedTo(cb) ==
  Cardinality({tie \in scene.tie \ open : Beside(tie) \intersect Behind(cb, scene.tie) # {}})
\* The zones of the nodes ns, and those of the nodes that are not cut off.
ZonesOf(p, ns) == UNION {ToSet(p.t[n].dev.zones) : n \in ns}
Kept(p) == ZonesOf(p, ToSet(ZonesFrom(p.t, p.del, 1)))

\* The planner and its caller agree on what exists: entries, trees and
\* restored breakers refer to breakers and nodes there are, everything planned
\* is in reach of the request, and no request makes Do use a tree it has not
\* got unless two ties lead to one feeder (ErgodicTree, FindTree).
TypeOK ==
  LET cbs == DOMAIN z.fdir_cb
      Operations == [cb : cbs, opens : BOOLEAN]
  IN /\ open \subseteq cbs /\ base \subseteq cbs /\ failed \subseteq cbs
     /\ pc \in {"asked", "restore", "planned", "carry_out", "failed", "done", "refused", "crashed"}
     /\ pc = "crashed" => SharedFeeder(plan)
     /\ iso \subseteq all_iso /\ all_iso \subseteq cbs
     /\ restored \subseteq iso /\ ToSet(round) \subseteq iso /\ IsInjective(round)
     /\ ToSet(steps) \subseteq Operations
     /\ \A tail \in ToSet(tails) : \A entry \in ToSet(tail) :
          entry.cb \in all_iso /\ ToSet(entry.steps) \subseteq Operations
     /\ plan.del \subseteq DOMAIN plan.t
     /\ \A n \in ToSet(plan.so_list \o plan.removed \o plan.sel) : IsSource(plan.t, n)
     /\ \A op \in Ops(plan) : op.close \in base \/ op.close \in scene.tie

\* At no time during a transfer do two feeders supply one zone, and a faulted
\* zone stays without supply (Shares of the load in LdTransfer, GetLD, the
\* order of fill_fhzg_db and write_fhzg_step).  Zones with more than two
\* branches to a feeder are left out: GetLD passes over them.
SourcesApart ==
  ~Forked =>
    /\ \A i \in Regions : Cardinality(Feeding(i, open)) <= 1
    /\ scene.ask.kind = "fault" /\ pc # "asked" => Feeding(scene.ask.of, open) = {}

\* A transfer that has been carried out gives no feeder more than its capacity
\* (LeftOf, LdByOne, SelectSo, Shares, SelectCutLD): not one that had as much
\* before, nor one without a measurement, nor one that lost to a rival at the
\* same zone and is offered all the same, nor one chosen for two breakers of
\* one restoration, which are planned from the same currents, nor when some
\* currents are from after the fault.
WithinCapacity ==
  pc = "done" /\ late = 0 /\ ~Forked =>
    \A cb \in Heads : LET load == LoadOf(Behind(cb, open)) IN
      \/ load <= scene.cap[cb]
      \/ load <= LoadOf(Behind(cb, scene.tie))
      \/ cb \in scene.unmeasured
      \/ \E n \in ToSet(plan.removed) : plan.t[n].dev.jx = cb
      \/ scene.ask.kind # "breaker" /\ ClosedTo(cb) > 1

\* A transfer that has been carried out supplies all that it has not cut off,
\* and nothing it has cut off stays behind a feeder it was cut off for
\* (CutOperations, CutOneMore, GetLD); a restoration supplies the zone behind
\* every breaker it counts as restored.
Resupplied ==
  pc = "done" /\ ~Forked =>
    /\ scene.ask.kind = "breaker" =>
         /\ \A i \in Kept(plan) : Feeding(i, open) # {}
         /\ \A i \in ZonesOf(plan, ToSet(plan.cut)) : Feeding(i, open) = {}
    /\ scene.ask.kind = "fault" /\ failed = {} =>
         \A cb \in all_iso \ iso : Feeding(FindDownZone(z, cb), open) # {}
=============================================================================
