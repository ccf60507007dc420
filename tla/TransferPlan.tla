---------------------------- MODULE TransferPlan ----------------------------
(***************************************************************************)
(* How FHZG.cpp plans the transfer of the load behind a breaker to other   *)
(* feeders: Do and what it calls, as functions of e, a record of           *)
(*   z        -  the zones of the network (FdirZones)                      *)
(*   open     -  the open breakers                                         *)
(*   current  -  the measured current of each breaker, -1 for none         *)
(*   cap      -  the part of its feeder's capacity that may be used, for   *)
(*               the incoming breaker of each known feeder, 0 for others   *)
(*   failed   -  the breakers that refused a control                       *)
(*   iso      -  the breakers that isolate a fault                         *)
(* Amounts are whole numbers: a share, in the code a quotient, is kept     *)
(* multiplied by its divisor.                                              *)
(***************************************************************************)
EXTENDS FdirZones, DeviceTree, FiniteSets, FiniteSetsExt

Zn(i, icb) == [type |-> "ZN", zone |-> i, cb |-> icb, amount |-> 0, zones |-> <<i>>]
IsZone(t, n) == t[n].dev.type = "ZN"
IsSource(t, n) == t[n].dev.type = "SO"

-----------------------------------------------------------------------------
(* The trees of zones: a walk w has the tree, the zones and breakers not   *)
(* processed, and for each tie the first zone of the feeder behind it.     *)

\* The first unprocessed zone the breaker does not supply.
GetUpZone(w, icb, z) ==
  LET Up(i) == icb \in ToSet(CbsOf(z, i)) /\ z.zone[i].icb # icb /\ i \in w.zones
      up == SelectSeq(Rows(z.zone), Up)
  IN IF up = <<>> THEN -1 ELSE up[1]

\* From a tie against the current to the incoming breaker of the feeder
\* behind it, pre the last zone passed.
RECURSIVE GetLwcbSo(_, _, _, _)
GetLwcbSo(w, icb, pre, e) ==
  LET up == GetUpZone(w, icb, e.z)
  IN IF icb = -1 \/ icb \in e.iso \/ up = -1 THEN [zone |-> -1, cb |-> -1]
     ELSE IF e.z.zone[up].type # "ZN" THEN [zone |-> pre, cb |-> icb]
     ELSE GetLwcbSo(w, e.z.zone[up].icb, up, e)

\* Mutant: what the feeder carries already is not deducted.
LeftOfAll(cb, e) == e.cap[cb]

\* What the feeder can still take; no measurement counts as a current of -1.
LeftOf(cb, e) == IF e.cap[cb] < e.current[cb] THEN 0 ELSE e.cap[cb] - e.current[cb]

AddSource(w, father, icb, e) ==
  LET up == GetLwcbSo(w, icb, -1, e)
      so == [type |-> "SO", cb |-> icb, jx |-> up.cb, full |-> e.cap[up.cb], left |-> LeftOf(up.cb, e)]
      seen == [w EXCEPT !.cbs = @ \ {up.cb}]
  IN IF up.zone = -1 \/ e.cap[up.cb] = 0 THEN seen
     ELSE [seen EXCEPT !.t = AddLeaf(@, father, so), !.so_zone = Append(@, <<icb, up.zone>>)]

\* The zones reached from zone i over closed breakers, each under the zone it
\* was reached from; in the tree to be transferred an open breaker adds the
\* feeder behind it, in the tree of a feeder it is a leaf.
RECURSIVE ErgodicTree(_, _, _, _, _)
ErgodicTree(w, i, father, so_tree, e) ==
  LET leaf == AddLeaf(w.t, father, Zn(i, e.z.zone[i].icb))
      Cross(v, icb) ==
        LET next == Beyond(e.z, i, icb)
            done == [v EXCEPT !.cbs = @ \ {icb}]
        IN IF icb \notin v.cbs THEN v
           ELSE IF icb \in e.open
           THEN IF icb \in e.failed THEN v
                ELSE IF so_tree THEN [v EXCEPT !.t = AddLeaf(@, Len(leaf), [type |-> "TIE", cb |-> icb])]
                ELSE AddSource(v, Len(leaf), icb, e)
           ELSE IF e.z.zone[next].type = "SO" THEN done
           ELSE ErgodicTree(done, next, Len(leaf), so_tree, e)
      here == [w EXCEPT !.zones = @ \ {i}]
  IN IF i \notin w.zones THEN w
     ELSE IF e.z.zone[i].type # "ZN" THEN here
     ELSE FoldLeft(Cross, [here EXCEPT !.t = leaf], CbsOf(e.z, i))

GetDownZoneId(cb, e) ==
  [zone |-> FindDownZone(e.z, cb),
   w |-> [t |-> <<>>, so_zone |-> <<>>, zones |-> DOMAIN e.z.zone,
          cbs |-> DOMAIN e.z.fdir_cb \ {cb}]]

-----------------------------------------------------------------------------
(* The trees by measured current: only breakers with a measurement bound   *)
(* a node, which stands for all zones behind it up to the next one.        *)

\* Of two feeders at one node only the one that can take more stays.
AddSoNode(b, father, so) ==
  LET leaf == AddLeaf(b.t, father, so)
      rivals == SelectSeq(GetChildNodes(b.t, father), LAMBDA n : IsSource(b.t, n))
      rival == rivals[1]
  IN IF rivals = <<>>
     THEN [b EXCEPT !.t = leaf, !.so_list = Append(@, Len(leaf))]
     ELSE IF b.t[rival].dev.left >= so.left
     THEN [b EXCEPT !.t = leaf, !.removed = Append(@, Len(leaf))]
     ELSE [b EXCEPT !.t = leaf, !.removed = Append(@, rival),
                    !.so_list = Append(SelectSeq(@, LAMBDA n : n # rival), Len(leaf))]

\* What is left to the father of a node once its own current is known.
TakeAway(dev, amount, value) ==
  LET known == SelectSeq(Rows(value), LAMBDA k : value[k][1] = dev.zone)
  IN [dev EXCEPT !.amount = IF known = <<>> THEN @ - amount ELSE value[known[1]][2]]

RECURSIVE ReBuildTree(_, _, _, _, _, _)
ReBuildTree(b, father, n, old, value, e) ==
  LET dev == old[n].dev
      current == e.current[dev.cb]
      Rest(c, up) == FoldLeft(LAMBDA d, m : ReBuildTree(d, up, m, old, value, e),
                               c, GetChildNodes(old, n))
      merged == [b EXCEPT !.t[father].dev.zones = @ \o dev.zones]
      own == [b EXCEPT !.t = AddLeaf([@ EXCEPT ![father].dev = TakeAway(@, current, value)],
                                     father, [dev EXCEPT !.amount = current])]
  IN IF dev.type = "SO" THEN AddSoNode(b, father, dev)
     ELSE IF dev.type = "TIE" THEN [b EXCEPT !.t = AddLeaf(@, father, dev)]
     ELSE IF current < 0 THEN Rest(merged, father)
     ELSE Rest(own, Len(own.t))

Reduced(old, amount, value, e) ==
  LET root == AddLeaf(<<>>, 0, [old[1].dev EXCEPT !.amount = amount])
  IN FoldLeft(LAMBDA b, n : ReBuildTree(b, 1, n, old, value, e),
              [t |-> root, so_list |-> <<>>, removed |-> <<>>], GetChildNodes(old, 1))

\* zone_value_map: the amount of every zone when it was first computed, as
\* pairs; a pass over a tree adds the zones it does not have.
Remember(value, t) ==
  LET Add(v, i, amount) ==
        IF \E k \in DOMAIN v : v[k][1] = i THEN v ELSE Append(v, <<i, amount>>)
      Node(v, n) == IF IsZone(t, n)
                    THEN FoldLeft(LAMBDA u, i : Add(u, i, t[n].dev.amount), v, t[n].dev.zones)
                    ELSE v
  IN FoldLeft(Node, value, Reverse(Rows(t)))

-----------------------------------------------------------------------------
(* Walks over a tree some nodes of which are deleted.                      *)

Children(t, del, n) == SelectSeq(GetChildNodes(t, n), LAMBDA m : m \notin del)

\* Level by level from n, past deleted children; only a deleted node that
\* never had a child is left out when it is n itself.
RECURSIVE Levels(_, _, _)
Levels(t, del, ns) ==
  IF ns = <<>> THEN <<>>
  ELSE ns \o Levels(t, del, FoldLeft(LAMBDA next, n : next \o Children(t, del, n), <<>>, ns))
BreadthFirstErgodic(t, del, n) ==
  IF GetChildNodes(t, n) = <<>> /\ n \in del THEN <<>> ELSE Levels(t, del, <<n>>)

ZonesFrom(t, del, n) == SelectSeq(BreadthFirstErgodic(t, del, n), LAMBDA m : IsZone(t, m))
Amounts(t, ns) == MapThenSumSet(LAMBDA n : t[n].dev.amount, ns)
LdSum(t, del, n) == Amounts(t, ToSet(ZonesFrom(t, del, n)))

\* x before the first element of s that Behind(x, _) holds for.
InsertBefore(s, x, Behind(_, _)) ==
  LET behind == SelectSeq(Rows(s), LAMBDA k : Behind(x, s[k]))
  IN IF behind = <<>> THEN Append(s, x) ELSE InsertAt(s, behind[1], x)

\* The zones without a child left, the greatest amounts first.
FindLeafNode(t, del) ==
  LET Smaller(n, m) == t[m].dev.amount < t[n].dev.amount
      leaves == SelectSeq(ZonesFrom(t, del, 1), LAMBDA n : Children(t, del, n) = <<>>)
  IN FoldLeft(LAMBDA s, n : InsertBefore(s, n, Smaller), <<>>, leaves)

-----------------------------------------------------------------------------
(* What is cut off because the feeders together cannot take it.            *)

\* Of the choices of count leaves with more than over, the last one met: the
\* least found so far is forgotten at every choice.
GetCombination(t, leaves, count, over) ==
  LET Enough(ks) == Amounts(t, {leaves[k] : k \in ks}) > over
      Later(ks, js) == Min(SymDiff(ks, js)) \in js
      enough == {ks \in kSubset(count, DOMAIN leaves) : Enough(ks)}
      last == CHOOSE ks \in enough : \A js \in enough \ {ks} : Later(ks, js)
  IN IF enough = {} THEN <<>> ELSE SelectSeq(leaves, LAMBDA n : n \in {leaves[k] : k \in last})

RECURSIVE SelectCutLD(_, _, _, _)
SelectCutLD(t, del, over, cut) ==
  LET leaves == FindLeafNode(t, del)
      sum == Amounts(t, ToSet(leaves))
      Exceeds(k) == Amounts(t, ToSet(SubSeq(leaves, 1, k))) > over
      counts == SelectSeq(Rows(leaves), Exceeds)
      count == IF counts = <<>> THEN Len(leaves) + 1 ELSE counts[1]
  IN IF leaves = <<>> THEN [ok |-> FALSE, cut |-> cut]
     ELSE IF sum < over
     THEN SelectCutLD(t, del \union ToSet(leaves), over - sum, cut \o leaves)
     ELSE [ok |-> TRUE, cut |-> cut \o GetCombination(t, leaves, count, over)]

\* The breakers to open: those of the cut nodes whose father is not cut.
InList(t, n, ns) == \E m \in ToSet(ns) : t[m].dev.cb = t[n].dev.cb
CutOperations(t, cut) ==
  LET top == SelectSeq(cut, LAMBDA n : ~InList(t, t[n].up, cut))
  IN [k \in DOMAIN top |-> t[top[k]].dev.cb]

-----------------------------------------------------------------------------
(* Which feeders take the rest, and what each of them takes.  A plan p has *)
(* the tree, its deleted nodes, the nodes of the feeders, those removed    *)
(* for a rival, what is cut and the breakers opened for that.              *)

Lefts(t, ns) == MapThenSumSet(LAMBDA n : t[n].dev.left, ns)

\* Nodes above a feeder shared with another feeder, and all nodes above it.
SoDist(t, so_list, n) ==
  LET Shared(a) == \E m \in ToSet(so_list) \ {n} : IsAbove(t, a, m)
  IN Cardinality({a \in ToSet(PathUp(t, n)) \ {n} : Shared(a)})
Depth(t, n) == Len(PathUp(t, n)) - 1

LdByOne(p, ldsum) == SelectSeq(p.so_list, LAMBDA n : p.t[n].dev.left > ldsum)

\* As few feeders as together can take more than ldsum, the nearest first;
\* all of them when they can take ldsum and no more.
SelectSo(p, ldsum) ==
  LET Less(n, m) == p.t[m].dev.left < p.t[n].dev.left
      Farther(n, m) == LET d(k) == SoDist(p.t, p.so_list, k)
                       IN \/ d(m) > d(n)
                          \/ d(m) = d(n) /\ Depth(p.t, m) > Depth(p.t, n)
      falling == FoldLeft(LAMBDA s, n : InsertBefore(s, n, Less), <<>>, p.so_list)
      Suffices(k) == Lefts(p.t, ToSet(SubSeq(falling, 1, k))) > ldsum
      counts == SelectSeq(Rows(falling), Suffices)
      count == IF counts = <<>> THEN Len(falling) ELSE counts[1]
  IN FoldLeft(LAMBDA s, n : InsertBefore(s, n, Farther), <<>>, SubSeq(falling, 1, count))

GetPath(t, n, m) ==
  LET Part(from, to) == SelectSeq(PathUp(t, from), LAMBDA k : k = to \/ IsAbove(t, to, k))
  IN IF n = m THEN <<>>
     ELSE IF IsAbove(t, m, n) THEN Part(n, m) ELSE Reverse(Part(m, n))

FindSO(t, del, n) == SelectSeq(BreadthFirstErgodic(t, del, n), LAMBDA m : IsSource(t, m))

\* GetLD takes what is on the way from n to m, each node k with its branches
\* that have no feeder; where two branches have one the node itself is passed
\* over.  Once the share num is used up, one node more is taken if it exceeds
\* the share by less than offset.
Take(v, k, fed, more, offset, p) ==
  LET num == v.num - p.index * Amounts(p.t, ToSet(more))
      seen == [v EXCEPT !.fed = @ \o fed]
      taken == [seen EXCEPT !.num = num, !.got = @ \o more, !.done = @ \union ToSet(more)]
  IN IF v.stop # "no" THEN v
     ELSE IF IsSource(p.t, k) THEN [v EXCEPT !.done = @ \union {k}]
     ELSE IF k \in v.done THEN [v EXCEPT !.stop = "break"]
     ELSE IF Len(fed) > 1 THEN seen
     ELSE IF num >= 0 THEN taken
     ELSE IF -num < offset THEN [taken EXCEPT !.stop = "return"]
     ELSE [seen EXCEPT !.num = num, !.stop = "return"]

Visit(v, k, offset, p) ==
  LET waiting == SelectSeq(GetChildNodes(p.t, k), LAMBDA c : c \notin v.done)
      HasSO(c) == FindSO(p.t, p.del, c) # <<>>
      bare == SelectSeq(waiting, LAMBDA c : ~HasSO(c))
      more == FoldLeft(LAMBDA s, c : s \o BreadthFirstErgodic(p.t, p.del, c), <<k>>, bare)
  IN Take(v, k, SelectSeq(waiting, HasSO), more, offset, p)

\* Then the branches with a feeder follow, in the order of their addresses.
RECURSIVE GetLD(_, _, _, _, _, _)
Branches(end, offset, p, e) ==
  LET here == [num |-> end.num, got |-> end.got, done |-> end.done]
      addresses == IF e.rising THEN end.fed ELSE Reverse(end.fed)
  IN IF end.stop = "return" THEN here
     ELSE FoldLeft(LAMBDA b, c : GetLD(b, c, FindSO(p.t, p.del, c)[1], offset, p, e), here, addresses)

GetLD(a, n, m, offset, p, e) ==
  LET start == [num |-> a.num, got |-> a.got, done |-> a.done, fed |-> <<>>, stop |-> "no"]
  IN Branches(FoldLeft(LAMBDA v, k : Visit(v, k, offset, p), start, GetPath(p.t, n, m)), offset, p, e)

\* One round: each feeder takes its part of the load, in proportion to what
\* it can take.
Assigned(r, n, got, p) ==
  LET nearest == SelectSeq(got.got, LAMBDA k : \A j \in ToSet(got.got) :
                                                  Depth(p.t, k) <= Depth(p.t, j))
      op == [open |-> p.t[nearest[1]].dev.cb, close |-> p.t[n].dev.cb, so |-> n]
  IN IF got.got = <<>> THEN [r EXCEPT !.done = got.done]
     ELSE [done |-> got.done, ops |-> <<op>> \o r.ops,
           so_zn |-> Append(r.so_zn, [so |-> n, zones |-> ToSet(got.got)])]

Shares(p, sel, ldsum, e) ==
  LET index == Lefts(p.t, ToSet(sel))
      q == [t |-> p.t, del |-> p.del, index |-> index]
      Part(r, n) ==
        LET share == p.t[n].dev.left * ldsum
        IN Assigned(r, n, GetLD([num |-> share, got |-> <<>>, done |-> r.done],
                                n, 1, p.t[n].dev.left * index - share, q, e), p)
  IN FoldLeft(Part, [done |-> p.done, ops |-> <<>>, so_zn |-> <<>>], sel)

\* The smallest leaf goes, and the next round begins.
CutOneMore(p, n) ==
  LET cut == Append(p.cut, n)
  IN [p EXCEPT !.del = @ \union {n}, !.cut = cut,
               !.cut_ops = IF InList(p.t, p.t[n].up, cut) THEN @ ELSE Append(@, p.t[n].dev.cb)]

RECURSIVE LdTransfer(_, _)
Settle(p, sel, s, all, leaves, e) ==
  IF all \subseteq s.done
  THEN [p EXCEPT !.ret = "OK", !.type = "SHARE", !.sel = sel, !.ops = s.ops, !.so_zn = s.so_zn]
  ELSE IF leaves = <<>> THEN [p EXCEPT !.ret = "SO_FULL"]
  ELSE LdTransfer(CutOneMore([p EXCEPT !.done = s.done \ all], leaves[Len(leaves)]), e)

ShareOut(p, sel, ldsum, e) ==
  IF Lefts(p.t, ToSet(sel)) < ldsum THEN [p EXCEPT !.ret = "SO_FULL"]
  ELSE Settle(p, sel, Shares(p, sel, ldsum, e), ToSet(BreadthFirstErgodic(p.t, p.del, 1)),
              FindLeafNode(p.t, p.del), e)

LdTransfer(p, e) ==
  LET ldsum == LdSum(p.t, p.del, 1)
      one == LdByOne(p, ldsum)
  IN IF one # <<>>
     THEN [p EXCEPT !.ret = "OK", !.type = "ALL", !.sel = one \o p.removed]
     ELSE ShareOut(p, SelectSo(p, ldsum), ldsum, e)

-----------------------------------------------------------------------------
(* Do: the plan for the zones behind a breaker.                            *)

\* The trees of the feeders, in the order of their ties; a second tie to the
\* same feeder finds its zones processed and gets no tree.
SourceTrees(w, e) ==
  LET ties == SortSeq(w.so_zone, LAMBDA a, b : a[1] < b[1])
      Build(v, k) == LET u == ErgodicTree([v.w EXCEPT !.t = <<>>], ties[k][2], 0, TRUE, e)
                     IN [w |-> u, trees |-> Append(v.trees, [tie |-> ties[k][1], t |-> u.t])]
  IN FoldLeft(Build, [w |-> w, trees |-> <<>>], Rows(ties)).trees

\* The same trees by current, of the feeders that stayed.
ReducedTrees(trees, b, value, e) ==
  LET Stays(tree) == \E n \in ToSet(b.so_list) : b.t[n].dev.cb = tree.tie
      Reduce(v, tree) ==
        LET r == Reduced(tree.t, e.current[tree.t[1].dev.cb], v.value, e)
        IN [value |-> Remember(v.value, r.t), trees |-> Append(v.trees, [tree EXCEPT !.t = r.t])]
  IN FoldLeft(Reduce, [value |-> value, trees |-> <<>>], SelectSeq(trees, Stays))

NoPlan(ret, value) ==
  [ret |-> ret, type |-> "NONE", t |-> <<>>, del |-> {}, done |-> {}, so_list |-> <<>>,
   removed |-> <<>>, cut |-> <<>>, cut_ops |-> <<>>, sel |-> <<>>, ops |-> <<>>, so_zn |-> <<>>,
   trees |-> <<>>, value |-> value]

\* What a feeder can take once load has been cut is read off its tree.
LeftAfterCut(p) ==
  LET Tree(n) == SelectSeq(p.trees, LAMBDA tree : tree.tie = p.t[n].dev.cb)[1].t
  IN [p EXCEPT !.t = [n \in DOMAIN p.t |->
        IF n \in ToSet(p.so_list)
        THEN [p.t[n] EXCEPT !.dev.left = p.t[n].dev.full - LdSum(Tree(n), {}, 1)] ELSE p.t[n]]]

CutOff(p, c, e) ==
  IF ~c.ok THEN [p EXCEPT !.ret = "SO_FULL"]
  ELSE LdTransfer(LeftAfterCut([p EXCEPT !.cut = c.cut, !.del = @ \union ToSet(c.cut),
                                         !.cut_ops = CutOperations(p.t, c.cut)]), e)

CutAndTransfer(p, e) ==
  LET total == Lefts(p.t, ToSet(p.so_list))
      over == LdSum(p.t, p.del, 1) - total
  IN IF total <= 0 THEN [p EXCEPT !.ret = IF p.so_list = <<>> THEN "NO_SO" ELSE "SO_FULL"]
     ELSE IF over <= 0 THEN LdTransfer(p, e)
     ELSE CutOff(p, SelectCutLD(p.t, p.del, over, <<>>), e)

\* The plan over the tree b to be transferred and those of the feeders.
OnTrees(b, trees, value, e) ==
  LET Formed(n) == \E k \in DOMAIN trees : trees[k].tie = b.t[n].dev.cb /\ trees[k].t # <<>>
      p == [NoPlan("OK", value) EXCEPT !.t = b.t, !.so_list = b.so_list,
                                       !.removed = b.removed, !.del = ToSet(b.removed)]
      r == ReducedTrees(trees, b, Remember(value, b.t), e)
  IN IF \E n \in ToSet(b.so_list) : ~Formed(n) THEN [p EXCEPT !.ret = "CRASH"]
     ELSE CutAndTransfer([p EXCEPT !.trees = r.trees, !.value = r.value], e)

FromZone(w, amount, value, e) ==
  OnTrees(Reduced(w.t, amount, value, e), SourceTrees(w, e), value, e)

Do(cb, value, e) ==
  LET down == GetDownZoneId(cb, e)
      known == SelectSeq(value, LAMBDA v : v[1] = down.zone)
      amount == IF e.current[cb] <= 0 /\ known # <<>> THEN known[1][2] ELSE e.current[cb]
  IN IF down.zone = -1 THEN NoPlan("DIRECT", value)
     ELSE IF e.current[cb] < 0 /\ known = <<>> THEN NoPlan("NO_IVALUE", value)
     ELSE FromZone(ErgodicTree(down.w, down.zone, 0, FALSE, e), amount, value, e)
=============================================================================
