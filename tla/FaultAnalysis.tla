--------------------------- MODULE FaultAnalysis ----------------------------
(***************************************************************************)
(* Location and isolation of one fault after another by one fault          *)
(* processor (FDIR_R.cpp, FDIRR2.cpp) in the real-time version: the        *)
(* positions of the breakers, the zones, the tree of devices around the    *)
(* key device (that of the first signal), the faulted part of it, and the  *)
(* breakers to open.  The steps of one call are actions, since each leaves *)
(* its result in the processor or in the device tables for the next, and   *)
(* some results are still there when the processor gets its next fault.    *)
(*                                                                         *)
(* Left out: faults of a load and simulated faults, which ExecFdir starts; *)
(* voltage lost on a busbar whose fault is on a feeder; virtual breakers;  *)
(* the texts, the line of the fault, and the lists that are only shown.    *)
(***************************************************************************)
EXTENDS FdirZones, DeviceTree, FiniteSets

CONSTANTS Networks,     \* the networks, see FdirZones
          MaxSignals,   \* signals of the first fault; of each later one fewer
          MaxFaults,    \* faults of the processor
          Unreadable    \* may a breaker be missing in the database?

ASSUME AnalysisAssumption ==
  /\ Networks # {}
  /\ MaxSignals \in Nat \ {0}
  /\ MaxFaults \in Nat
  /\ Unreadable \in BOOLEAN

VARIABLES
  net,                \* the tables
  point,              \* the closed breakers in the database (psbob_cb.point)
  unread,             \* the breakers whose record cannot be read
  live,               \* the busbars with a voltage
  g_lstSecTrig,       \* the signals of the fault
  open, isolate,      \* the breakers with CB_OPEN and CB_FAULT_ISOLATE
  before,             \* those with FDIR_CB_BEFORE_OPEN
  detect,             \* the devices of each kind of signal (topflags)
  lst_point,          \* the devices with signals
  lst_fault_open_cb,  \* the breakers among them
  zones,              \* fdir_zone_tb, fdir_zone_cb_tb, fdir_cb_tb
  loc,                \* what has been located
  plan,               \* what is to be opened and closed again
  lst_failed,         \* breakers that did not obey
  pc, faults          \* next step of the processor; faults started

database == <<net, point, unread, live>>
signals == <<detect, lst_point, lst_fault_open_cb>>
vars == <<net, point, unread, live, g_lstSecTrig, open, isolate, before, detect,
          lst_point, lst_fault_open_cb, zones, loc, plan, lst_failed, pc, faults>>

Cbs == DOMAIN net.cb
CB(i) == <<"CB", i>>
FI(i) == <<"FI", i>>
BUS(i) == <<"BUS", i>>
LD(i) == <<"LD", i>>
SEC(i) == <<"SEC", i>>
SWITCH(i) == <<"SWITCH", i>>

IsCB(dev) == dev[1] = "CB"
Attr(dev) == net.cb[dev[2]]

-----------------------------------------------------------------------------
(* A fault: a signal of a breaker is a trip, a change of its position or   *)
(* one of its protection relay; CB(0) is a breaker of no table.            *)

CbSignals == {[dev |-> CB(i), type |-> t] : i \in Cbs, t \in {"trip", "change", "relay"}}
Fis == UNION {ToSet(net.sec[s].fi) : s \in DOMAIN net.sec}
FiSignals == {[dev |-> FI(i), type |-> t] : i \in Fis, t \in {"JD", "DL"}}
BusSignals == {[dev |-> BUS(i), type |-> "loss"] : i \in DOMAIN net.bus}
Unknown == [dev |-> CB(0), type |-> "trip"]

\* A busbar's signal that comes first comes alone; see the head.
SignalLists ==
  {s \in SeqOf(CbSignals \union FiSignals \union BusSignals \union {Unknown}, MaxSignals) :
     /\ s # <<>> /\ Len(s) + faults <= MaxSignals
     /\ \A j, k \in DOMAIN s : j # k => s[j].dev # s[k].dev
     /\ s[1].dev[1] = "BUS" => Len(s) = 1
     /\ \A k \in DOMAIN s : s[k].type \in net.types}

Signalled(trig) == {trig[k].dev : k \in DOMAIN trig}
OfType(trig, types) == {trig[k].dev : k \in {j \in DOMAIN trig : trig[j].type \in types}}

NothingLocated == [key |-> CB(0), signals |-> <<>>, tree |-> <<>>, jxcb |-> 0, path |-> <<>>, head |-> 0,
                   tail |-> {}, edge |-> {}, mis_point |-> {}, type |-> "none", parts |-> <<>>]
NoPlan == [isolate |-> <<>>, min |-> <<>>, up |-> 0, up2 |-> 0, restore |-> {}, ld |-> {}]

NotDetected == [FAULT |-> {}, OPEN |-> {}, FI |-> {}, BUS |-> {}]
Detected(dev) == dev \in detect.FAULT \union detect.OPEN \union detect.FI \union detect.BUS
CbDetected(i) == CB(i) \in detect.FAULT \union detect.OPEN

Init ==
  /\ net \in Networks
  /\ point = Cbs \ net.tie
  /\ open = net.tie
  /\ live = DOMAIN net.bus
  /\ zones = NoZones(net)
  /\ unread = {} /\ isolate = {} /\ before = {} /\ lst_failed = {}
  /\ g_lstSecTrig = <<>> /\ lst_point = <<>> /\ lst_fault_open_cb = {}
  /\ detect = NotDetected
  /\ loc = NothingLocated /\ plan = NoPlan
  /\ pc = "idle" /\ faults = 0

\* The processor is given a fault.  Breakers with a signal have opened, or
\* have been closed again; busbars may be without a voltage.
Start ==
  /\ pc \in {"idle", "isolated", "failed"}
  /\ faults < MaxFaults
  /\ \E trig \in SignalLists :
       /\ g_lstSecTrig' = trig
       /\ \E tripped \in SUBSET {i \in Cbs : CB(i) \in Signalled(trig)} :
            point' = Cbs \ (net.tie \union tripped)
       /\ live' \in {DOMAIN net.bus,
                     DOMAIN net.bus \ {b \in DOMAIN net.bus : BUS(b) \in Signalled(trig)}}
  /\ unread' \in IF Unreadable THEN {{}} \union {{i} : i \in Cbs} ELSE {{}}
  /\ pc' = "Init" /\ faults' = faults + 1
  /\ UNCHANGED <<net, open, isolate, before, signals, zones, loc, plan, lst_failed>>

-----------------------------------------------------------------------------
(* FDIR_R2::Init.                                                          *)

\* Positions are read; a breaker that has just changed, or one the
\* processor still has in lst_point, counts as closed.
Positions ==
  {i \in Cbs : /\ i \notin point
               /\ CB(i) \notin OfType(g_lstSecTrig, {"trip", "change"})
               /\ CB(i) \notin ToSet(lst_point)}

add_so == {b \in DOMAIN net.bus : b \in live \/ BUS(b) \in Signalled(g_lstSecTrig)}

\* FormIcbOfZone closes the breakers of lst_fault_open_cb first.
Prepare ==
  /\ pc = "Init" /\ unread = {}
  /\ isolate' = {}
  /\ open' = Positions \ lst_fault_open_cb
  /\ zones' = FormIcbOfZone(BuildZone(add_so, net), open')
  /\ plan' = [plan EXCEPT !.isolate = <<>>, !.min = <<>>]
  /\ lst_failed' = {}
  /\ pc' = "SetFaultTopflags"
  /\ UNCHANGED <<database, g_lstSecTrig, before, signals, loc, faults>>

(* update_cb_state stops at a breaker that cannot be read.  Init returns   *)
(* FDIR_FAIL_DIRECT, FaultDetection looks for FDIR_R_FAIL, and goes on.    *)

PrepareFails ==
  /\ pc = "Init"
  /\ \E u \in unread :
       /\ isolate' = isolate \ 1 .. u
       /\ open' = (open \ 1 .. (u - 1)) \union (Positions \intersect 1 .. (u - 1))
  /\ pc' = "SetFaultTopflags"
  /\ UNCHANGED <<database, g_lstSecTrig, before, signals, zones, loc, plan, lst_failed, faults>>

-----------------------------------------------------------------------------
(* FDIR_R::FaultDetection.                                                 *)

Fail == pc' = "failed"

\* The signals of the key device are those that are kept.
SetFaultTopflags ==
  /\ pc = "SetFaultTopflags"
  /\ LET trig == g_lstSecTrig
         known == SelectSeq(trig, LAMBDA s : s # Unknown)
     IN /\ g_lstSecTrig' = <<trig[1]>>
        /\ IF trig[1] = Unknown
           THEN /\ detect' = NotDetected /\ lst_point' = <<>> /\ lst_fault_open_cb' = {}
                /\ loc' = NothingLocated
                /\ Fail
           ELSE /\ detect' = [FAULT |-> OfType(known, {"trip"}),
                              OPEN |-> OfType(known, {"change", "relay"}),
                              FI |-> OfType(known, {"JD", "DL"}),
                              BUS |-> OfType(known, {"loss"})]
                /\ lst_point' = [k \in DOMAIN known |-> known[k].dev]
                /\ lst_fault_open_cb' = {i \in Cbs : CB(i) \in Signalled(known)}
                /\ loc' = [NothingLocated EXCEPT !.key = trig[1].dev, !.signals = known]
                /\ pc' = "BuildTree"
  /\ before' = {}
  /\ UNCHANGED <<database, open, isolate, zones, plan, lst_failed, faults>>

-----------------------------------------------------------------------------
(* build_fi_tree_BFS walks the network from node n and hangs the devices   *)
(* it meets under father.  w is what it shares over the recursion: the     *)
(* nodes of both trees t, the root of the one it builds, breakers and      *)
(* disconnectors not yet met, sections and nodes met, the incoming         *)
(* breakers, each paired with the first busbar behind it, and cur_father.  *)

Passes(i) == i \notin open \/ CbDetected(i) \/ net.cb[i].jx

Hang(w, father, dev) ==
  [w EXCEPT !.t = AddLeaf(@, father, dev),
            !.root = IF father = 0 THEN Len(w.t) + 1 ELSE @]
HangCur(w, father, dev) ==
  [Hang(w, father, dev) EXCEPT !.cur = IF @ = 0 THEN Len(w.t) + 1 ELSE @]

\* a = [w, father, put]: at a busbar the walk goes on under it, and the last
\* incoming breaker gets its busbar.
MeetBus(a, n) ==
  IF BusesAt(n, net) = {} \/ a.w.jx = <<>> THEN a
  ELSE LET b == CHOOSE b \in BusesAt(n, net) : TRUE
           jx == Last(a.w.jx)
           leaf == Len(a.w.t) + 1
           pairs == IF a.put THEN {p \in a.w.pairs : p[1] # jx} \union {<<jx, leaf>>}
                    ELSE a.w.pairs
       IN [w |-> [Hang(a.w, a.father, BUS(b)) EXCEPT !.pairs = pairs],
           father |-> leaf, put |-> FALSE]

FisFrom(s, n) == IF net.sec[s].ind = n THEN net.sec[s].fi ELSE Reverse(net.sec[s].fi)

MeetLoads(w, father, n) ==
  FoldLeft(LAMBDA v, i : Hang(v, IF father = 0 /\ v.root # 0 THEN v.cur ELSE father, LD(i)),
           w, LoadsAt(n, net))

RECURSIVE Walk(_, _, _, _)
Enter(w, n, father, put) ==
  IF n \in w.nds THEN w ELSE Walk([w EXCEPT !.nds = @ \union {n}], n, father, put)

\* a = [w, father]: what lies behind a disconnector goes under father, which is
\* the last breaker hung at this node; without one it is that of the whole walk,
\* and not the busbar of the node.
MeetCb(a, i, n, bus) ==
  LET leaf == Len(a.w.t) + 1
      hung == [HangCur(a.w, bus.father, CB(i)) EXCEPT
                 !.cbs = @ \ {i},
                 !.jx = IF net.cb[i].jx /\ bus.put THEN Append(@, leaf) ELSE @]
  IN IF i \notin a.w.cbs THEN a
     ELSE [w |-> IF Passes(i) THEN Enter(hung, OtherEnd(net.cb[i], n), leaf, bus.put) ELSE hung,
           father |-> leaf]

MeetSwitch(w, i, n, father, put) ==
  IF i \notin w.sws \/ net.sw[i].open THEN w
  ELSE Enter([w EXCEPT !.sws = @ \ {i}], OtherEnd(net.sw[i], n), father, put)

MeetSec(w, i, n, bus) ==
  LET HangFi(a, f) == [w |-> HangCur(a.w, a.father, FI(f)), father |-> Len(a.w.t) + 1]
      start == [w |-> [w EXCEPT !.secs = @ \union {i}], father |-> bus.father]
      chain == FoldLeft(HangFi, start, FisFrom(i, n))
  IN IF i \in w.secs THEN w
     ELSE Enter(chain.w, OtherEnd(net.sec[i], n), chain.father, bus.put)

Walk(w, n, father, put) ==
  LET bus == MeetBus([w |-> w, father |-> father, put |-> put], n)
      cbs == FoldLeft(LAMBDA a, i : MeetCb(a, i, n, bus), [w |-> bus.w, father |-> father],
                      At(n, net.cb))
      sws == FoldLeft(LAMBDA v, i : MeetSwitch(v, i, n, cbs.father, bus.put),
                      cbs.w, At(n, net.sw))
      secs == FoldLeft(LAMBDA v, i : MeetSec(v, i, n, bus), sws, At(n, net.sec))
  IN MeetLoads(secs, bus.father, n)

Walking == [t |-> <<>>, root |-> 0, cbs |-> Cbs, sws |-> DOMAIN net.sw, secs |-> {},
            nds |-> {}, jx |-> <<>>, pairs |-> {}, cur |-> 0]

\* The one incoming breaker that is or was closed; 0 if there is none or two.
GetValidJXCBNode(pairs, t, bef) ==
  LET Valid(p) == LET i == t[p[1]].dev[2] IN i \notin open \/ CbDetected(i) \/ i \in bef
      valid == {p \in pairs : Valid(p)}
      one == IF valid = {} THEN pairs ELSE valid
  IN IF Cardinality(one) = 1 THEN CHOOSE p \in one : TRUE ELSE <<0, 0>>

\* The second half forgotten.
JoinNone(t, bus, main, sub) == ChangeRoot(t, bus, <<>>, 0)

\* main is turned to have the busbar as root; sub, whose root is the same
\* device as that of main, takes the place of that device.
Join(t, bus, main, sub) ==
  LET turned == ChangeRoot(t, bus, <<>>, 0)
      same == {i \in DOMAIN turned : turned[i].dev = t[main].dev}
      spot == CHOOSE i \in same : \A j \in same : i <= j
  IN IF same = {} THEN turned
     ELSE RemoveLeaf(AddSubTrees(turned, turned[spot].up, t, <<sub>>), spot)

\* The incoming breaker by its node of the tree.
WholeByNode(w, roots, bef) ==
  LET pair == GetValidJXCBNode(w.pairs, w.t, bef)
      first == RootOf(w.t, pair[2]) = roots[1]
  IN IF pair[1] = 0 THEN [tree |-> <<>>, jxcb |-> 0]
     ELSE [tree |-> Join(w.t, pair[2], roots[1], IF first THEN roots[2] ELSE roots[1]),
           jxcb |-> pair[1]]

\* The tree of w, of which roots[1] and roots[2] are the two halves.
Whole(w, roots, bef) ==
  LET pair == GetValidJXCBNode(w.pairs, w.t, bef)
      first == RootOf(w.t, pair[2]) = roots[1]
  IN IF pair[1] = 0 THEN [tree |-> <<>>, jxcb |-> 0]
     ELSE [tree |-> Join(w.t, pair[2], roots[1], IF first THEN roots[2] ELSE roots[1]),
           jxcb |-> w.t[pair[1]].dev[2]]

\* Both sides of a breaker.
TreeOfCb(i, bef) ==
  LET cb == net.cb[i]
      w == [Walking EXCEPT !.t = <<[dev |-> CB(i), up |-> 0], [dev |-> CB(i), up |-> 0]>>,
                           !.cbs = @ \ {i}, !.nds = {cb.ind, cb.iznd},
                           !.jx = IF cb.jx THEN <<1>> ELSE <<>>]
  IN Whole(Walk(Walk(w, cb.ind, 1, TRUE), cb.iznd, 2, TRUE), <<1, 2>>, bef)

\* From the first node of the indicator's section, once without and once
\* with only the second section of that node; the first device met is the
\* root of both halves.
SecOfFi(f) == CHOOSE s \in DOMAIN net.sec : f \in ToSet(net.sec[s].fi)
TreeOfFi(f, bef) ==
  LET s == SecOfFi(f)
      n == net.sec[s].ind
      second == IF Len(At(n, net.sec)) < 2 THEN {} ELSE {At(n, net.sec)[2]}
      w1 == Walk([Walking EXCEPT !.nds = {n}, !.secs = second], n, 0, TRUE)
      other == Len(w1.t) + 1
      w2 == Walk([Hang(w1, 0, w1.t[w1.root].dev) EXCEPT !.secs = (@ \union {s}) \ second],
                 n, other, TRUE)
  IN Whole(w2, <<w1.root, other>>, bef)

TreeOfBus(b) ==
  [tree |-> Walk([Walking EXCEPT !.t = <<[dev |-> BUS(b), up |-> 0]>>, !.nds = {net.bus[b]}],
                 net.bus[b], 1, TRUE).t,
   jxcb |-> 0]

TreeOf(key, bef) ==
  CASE key[1] = "CB" -> TreeOfCb(key[2], bef)
    [] key[1] = "FI" -> TreeOfFi(key[2], bef)
    [] key[1] = "BUS" -> TreeOfBus(key[2])

\* The incoming breaker an earlier fault of the line has tripped, if there
\* was one; FDIR_CB_BEFORE_OPEN is set for it.
ReadDvFiBef == {{}} \union {{i} : i \in {j \in Cbs : net.cb[j].jx}}

\* Without an incoming breaker the tree is built again with those.
BuildTree ==
  /\ pc = "BuildTree"
  /\ LET built == TreeOf(loc.key, {})
         Keep(b, bef) == /\ loc' = [loc EXCEPT !.tree = b.tree, !.jxcb = b.jxcb]
                         /\ before' = bef
                         /\ IF b.tree = <<>> THEN Fail ELSE pc' = "GetFaultPath"
     IN IF built.tree # <<>> THEN Keep(built, {})
        ELSE \E bef \in ReadDvFiBef :
               Keep(TreeOf(loc.key, bef), bef)
  /\ UNCHANGED <<database, g_lstSecTrig, open, isolate, signals, zones, plan, lst_failed, faults>>

\* The path to the root from a device with a signal below which there is no
\* other, if it leads through the key device; which one, should there be
\* several, depends on the addresses of the nodes.
GetFaultPath ==
  /\ pc = "GetFaultPath"
  /\ LET t == loc.tree
         signalled == {n \in TreeNodes(t) : Detected(t[n].dev)}
         deepest == {n \in signalled : Below(t, n) \intersect signalled = {}}
         ThroughKey(n) == \E i \in ToSet(PathUp(t, n)) : t[i].dev = loc.key
         edge == {n \in TreeNodes(t) : IsCB(t[n].dev) /\ Below(t, n) = {}}
         found == {n \in deepest : ThroughKey(n)}
         end == [loc EXCEPT !.edge = {t[n].dev[2] : n \in edge}]
     IN \/ /\ found = {} /\ loc' = end /\ Fail
        \/ /\ \E n \in found : loc' = [end EXCEPT !.path = PathUp(t, n)]
           /\ pc' = "GetFaultType"
  /\ UNCHANGED <<database, g_lstSecTrig, open, isolate, before, signals, zones, plan,
                 lst_failed, faults>>

-----------------------------------------------------------------------------
(* The fault: its kind, the devices where it begins and ends.              *)

DevsOn(path) == {loc.tree[n].dev : n \in ToSet(path)}
CbsOn(path) == {d[2] : d \in {d \in DevsOn(path) : IsCB(d)}}

\* Signals missing on the path; a breaker that has tripped counts as missing.
Missing(path) ==
  {d \in DevsOn(path) : \/ d[1] = "FI" /\ d \notin detect.FI
                        \/ IsCB(d) /\ d \notin detect.OPEN}

\* A breaker that cannot be read counts as open and as not real.
GetFaultType(path) ==
  LET on == CbsOn(path)
  IN IF on \ (point \ unread) # {} THEN "SURE"
     ELSE IF \E i \in on : net.cb[i].unreal THEN "POSSIBLE"
     ELSE IF \E i \in on : CbDetected(i) THEN "WINK" ELSE "NONE"

\* The next devices down from n that would have told of the fault.  A busbar
\* is read as if it were a breaker: busTells.
RECURSIVE GetDownDevs(_, _, _)
GetDownDevs(t, n, busTells) ==
  LET Unreal(d) == IsCB(d) /\ d[2] \notin unread /\ Attr(d).unreal
      Tells(d) == \/ d[1] \in {"FI", "LD"}
                  \/ IsCB(d) /\ ~Unreal(d) /\ (Attr(d).relay \/ Attr(d).auto)
                  \/ d[1] = "BUS" /\ busTells
      Down(a, c) ==
        LET d == t[c].dev
            below == GetDownDevs(t, c, busTells)
        IN IF Tells(d) THEN [a EXCEPT !.tail = @ \union {c}]
           ELSE [tail |-> a.tail \union below.tail,
                 mis |-> a.mis \union below.mis \union IF Unreal(d) THEN {d} ELSE {}]
  IN FoldLeft(Down, [tail |-> {}, mis |-> {}], GetChildNodes(t, n))

FaultType ==
  /\ pc = "GetFaultType"
  /\ LET t == loc.tree
         head == loc.path[1]
     IN \E busTells \in IF \E n \in Below(t, head) : t[n].dev[1] = "BUS" THEN BOOLEAN ELSE {FALSE} :
          LET down == GetDownDevs(t, head, busTells)
              bus == t[head].dev[1] = "BUS"
          IN loc' = [loc EXCEPT
                       !.type = GetFaultType(loc.path),
                       !.head = head,
                       !.tail = IF bus THEN {head} ELSE down.tail,
                       !.mis_point = Missing(loc.path) \union IF bus THEN {} ELSE down.mis]
  /\ pc' = "FindFaultDevs"
  /\ UNCHANGED <<database, g_lstSecTrig, open, isolate, before, signals, zones, plan,
                 lst_failed, faults>>

-----------------------------------------------------------------------------
(* Find_fault_devs walks the network once more, from the incoming breaker, *)
(* and puts every device in the part of the last marked device on the way: *)
(* m is a set of pairs of a marked device and a device of its part.        *)

\* The tail's marks forgotten.
MarkedHead(dev) == loc.tree[loc.head].dev = dev

Marked(dev) == \E n \in {loc.head} \union loc.tail : loc.tree[n].dev = dev

Put(g, key, dev) == [g EXCEPT !.m = @ \union {<<key, dev>>}]

RECURSIVE Find_fault_devs(_, _, _)
FindSec(g, i, n, parent) ==
  LET next == OtherEnd(net.sec[i], n)
      MeetFi(a, f) ==
        IF Marked(FI(f))
        THEN [g |-> Put(Put(Put(a.g, parent, FI(f)), FI(f), FI(f)), FI(f), SEC(i)), cur |-> FI(f)]
        ELSE [a EXCEPT !.g = Put(@, a.cur, FI(f))]
      fis == FoldLeft(MeetFi, [g |-> g, cur |-> parent], FisFrom(i, n))
  IN IF next \in g.vis THEN g
     ELSE IF net.sec[i].fi = <<>> THEN Find_fault_devs(Put(g, parent, SEC(i)), next, parent)
     ELSE Find_fault_devs(fis.g, next, fis.cur)

FindCb(g, i, n, parent) ==
  LET next == OtherEnd(net.cb[i], n)
      put == Put(g, parent, CB(i))
      own == IF Marked(CB(i)) THEN Put(put, CB(i), CB(i)) ELSE put
  IN IF next \in g.vis THEN g
     ELSE IF i \in open /\ ~CbDetected(i) THEN own
     ELSE Find_fault_devs(own, next, IF Marked(CB(i)) THEN CB(i) ELSE parent)

FindSwitch(g, i, n, parent) ==
  Find_fault_devs(Put(g, parent, SWITCH(i)), OtherEnd(net.sw[i], n), parent)

Find_fault_devs(g, n, parent) ==
  LET here == [g EXCEPT !.vis = @ \union {n}]
      secs == FoldLeft(LAMBDA a, i : FindSec(a, i, n, parent), here, At(n, net.sec))
      cbs == FoldLeft(LAMBDA a, i : FindCb(a, i, n, parent), secs, At(n, net.cb))
      sws == FoldLeft(LAMBDA a, i : FindSwitch(a, i, n, parent), cbs, At(n, net.sw))
  IN IF n \in g.vis THEN g
     ELSE IF BusesAt(n, net) # {} THEN IF g.m = {} THEN g ELSE here
     ELSE FoldLeft(LAMBDA a, i : Put(a, parent, LD(i)), sws, LoadsAt(n, net))

\* A part is compared with a device by the id of the indicator if the head
\* is an indicator, otherwise by that of the breaker or section.
Matches(key, dev) ==
  IF loc.tree[loc.head].dev[1] = "FI" THEN key[1] = "FI" /\ key = dev
  ELSE (IF key[1] = "FI" THEN SEC(SecOfFi(key[2])) ELSE key) = dev

Parts(m) ==
  LET Fault(p) == Matches(p[1], loc.tree[loc.head].dev)
      Down(p) == \E n \in loc.tail : Matches(p[1], loc.tree[n].dev)
      Devs(Test(_)) == {p[2] : p \in {p \in m : Test(p)}}
      Up(p) == ~Fault(p) /\ ~Down(p)
      OnlyDown(p) == ~Fault(p) /\ Down(p)
  IN [fault |-> Devs(Fault), down |-> Devs(OnlyDown), up |-> Devs(Up)]

FindFaultBusAndFaultDevs ==
  IF loc.key[1] = "BUS" THEN [fault |-> {loc.key}, down |-> {}, up |-> {}]
  ELSE LET cb == net.cb[loc.jxcb]
           one == Find_fault_devs([vis |-> {}, m |-> {}], cb.ind, CB(loc.jxcb))
       IN Parts(Find_fault_devs(one, cb.iznd, CB(loc.jxcb)).m)

\* The signals that were used, and the end of FaultDetection: the positions
\* before the fault, and the zones for them.
FindFaultDevs ==
  /\ pc = "FindFaultDevs"
  /\ LET used == SelectSeq(loc.signals, LAMBDA s : s.dev \in DevsOn(loc.path))
         type == IF loc.key[1] = "BUS" THEN "BUS" ELSE loc.type
         ground == OfType(used, {"JD"}) # {} /\ type # "WINK"
     IN /\ g_lstSecTrig' = used
        /\ loc' = [loc EXCEPT !.parts = FindFaultBusAndFaultDevs,
                              !.type = IF ground THEN "SURE" ELSE type]
        /\ open' = open \ ({i \in CbsOn(loc.path) : CB(i) \in detect.OPEN} \union lst_fault_open_cb)
        /\ zones' = FormIcbOfZone(zones, open')
  /\ pc' = "FormIsoSteps"
  /\ UNCHANGED <<database, isolate, before, signals, plan, lst_failed, faults>>

-----------------------------------------------------------------------------
(* FormIsoSteps: the first breaker up from the head that can be operated   *)
(* or is open, and the first ones down from the tails and from what        *)
(* branches off in between.  A breaker that is open needs no step and is   *)
(* marked instead.                                                         *)

Operable(i) == net.cb[i].ctl /\ i \notin lst_failed
Readable(dev) == IsCB(dev) /\ dev[2] \notin unread
\* A breaker that did not obey is tried again.
SeparatesAgain(dev) == Readable(dev) /\ (Attr(dev).ctl \/ dev[2] \notin point)
Separates(dev) == Readable(dev) /\ (Operable(dev[2]) \/ dev[2] \notin point)

\* Not looking beyond a breaker that cannot be operated.
GetIsoFirst(a, t, n) ==
  LET i == t[n].dev[2]
  IN IF Separates(t[n].dev) /\ i \in point
     THEN [a EXCEPT !.cbs = Append(@, i), !.nodes = Append(@, n)] ELSE a

\* a = [cbs, nodes, marked]: the breakers to open, the nodes of all.
RECURSIVE GetIsoCbs(_, _, _)
GetIsoCbs(a, t, n) ==
  LET i == t[n].dev[2]
      at == [a EXCEPT !.nodes = Append(@, n)]
  IN IF ~Separates(t[n].dev)
     THEN FoldLeft(LAMBDA b, c : GetIsoCbs(b, t, c), a, GetChildNodes(t, n))
     ELSE IF i \in point THEN [at EXCEPT !.cbs = Append(@, i)]
     ELSE [at EXCEPT !.marked = @ \union {i}]

\* The node of the upper breaker (0: none up to the busbar), with what is to
\* be isolated beside the way to it.
RECURSIVE Climb(_, _, _)
Climb(a, t, n) ==
  LET dev == t[n].dev
      Brother(c) == c # n
      beside == FoldLeft(LAMBDA b, c : GetIsoCbs(b, t, c), a,
                         SelectSeq(GetChildNodes(t, t[n].up), Brother))
  IN IF Separates(dev) \/ (Readable(dev) /\ t[n].up = 0) THEN [iso |-> a, node |-> n]
     ELSE IF t[n].up = 0 THEN [iso |-> a, node |-> 0]
     ELSE Climb(beside, t, t[n].up)

\* The loads below p, except those below the node not.
RECURSIVE GetDevsBetweenNodes(_, _, _)
GetDevsBetweenNodes(t, p, not) ==
  LET kids == ToSet(GetChildNodes(t, p))
  IN {t[c].dev : c \in {c \in kids : t[c].dev[1] = "LD"}}
     \union UNION {GetDevsBetweenNodes(t, c, not) :
                     c \in {c \in kids : c # not /\ t[c].dev[1] # "LD"}}

ReadCbOpen == {d[2] : d \in {d \in ToSet(lst_point) : IsCB(d) /\ d[2] \notin point \ unread}}

FormIsoSteps(t) ==
  LET head == loc.head
      none == [cbs |-> <<>>, nodes |-> <<>>, marked |-> {}]
      bus == t[head].dev[1] = "BUS"
      up == IF bus THEN [iso |-> none, node |-> head] ELSE Climb(none, t, head)
      i == t[up.node].dev[2]
      upper == IF bus \/ up.node = 0 THEN <<>> ELSE SelectSeq(<<i>>, LAMBDA c : c \in point)
      mark == IF bus \/ up.node = 0 THEN {} ELSE {i} \ point
      tails == SelectSeq(Rows(t), LAMBDA n : n \in loc.tail /\ t[n].dev[1] # "LD")
      Beyond2(a, n) == GetIsoCbs([a EXCEPT !.nodes = <<>>], t, n)
      all == FoldLeft(Beyond2, up.iso, tails)
      Loads(ns) == UNION {GetDevsBetweenNodes(t, n, 0) : n \in ns}
      ClosedCb(n) == Readable(t[n].dev) /\ t[n].dev[2] \in point
      Ids(ns) == [k \in DOMAIN ns |-> t[ns[k]].dev[2]]
      min == Ids(SelectSeq(<<head>>, ClosedCb))
      way == ToSet(PathUp(t, t[up.node].up))
  IN [plan |->
        [isolate |-> upper \o all.cbs, up |-> Len(upper),
         min |-> min \o Ids(SelectSeq(tails, ClosedCb)), up2 |-> Len(min),
         restore |-> IF bus \/ up.node = 0 THEN {}
                     ELSE {t[n].dev[2] : n \in {n \in way : IsCB(t[n].dev)}} \intersect ReadCbOpen,
         ld |-> IF up.node = 0 THEN Loads(ToSet(up.iso.nodes) \union
                                    ToSet(FoldLeft(LAMBDA a, n : GetIsoCbs(a, t, n), none, tails).nodes))
                ELSE Loads(ToSet(tails)) \union
                     IF bus THEN {}
                     ELSE GetDevsBetweenNodes(t, up.node, head) \union Loads(ToSet(up.iso.nodes))],
      marked |-> all.marked \union mark]

Isolate ==
  /\ pc = "FormIsoSteps"
  /\ LET steps == FormIsoSteps(loc.tree)
     IN /\ plan' = steps.plan
        /\ isolate' = isolate \union steps.marked
  /\ pc' = "isolated"
  /\ UNCHANGED <<database, g_lstSecTrig, open, before, signals, zones, loc, lst_failed, faults>>

\* The steps are carried out up to one that fails; re_calc_restore_step has
\* the isolation formed again for the breakers that are left.
Refused ==
  /\ pc = "isolated" /\ lst_failed = {}
  /\ \E k \in DOMAIN plan.isolate :
       LET opened == {plan.isolate[j] : j \in 1 .. (k - 1)}
       IN /\ point' = point \ opened
          /\ lst_failed' = {plan.isolate[k]}
          /\ open' = open \ (opened \union lst_fault_open_cb)
          /\ isolate' = isolate \union opened
          /\ zones' = FormIcbOfZone(zones, open')
  /\ pc' = "FormIsoSteps"
  /\ UNCHANGED <<net, unread, live, g_lstSecTrig, before, signals, loc, plan, faults>>

-----------------------------------------------------------------------------
Next ==
  \/ Start
  \/ Prepare \/ PrepareFails
  \/ SetFaultTopflags \/ BuildTree \/ GetFaultPath \/ FaultType \/ FindFaultDevs
  \/ Isolate \/ Refused

Spec == Init /\ [][Next]_vars

-----------------------------------------------------------------------------
(* Properties.  The nodes joined to ns when the breakers cbs are closed:   *)

RECURSIVE Joined(_, _)
Joined(ns, cbs) ==
  LET Ends(table, rows) == {{table[i].ind, table[i].iznd} : i \in rows}
      edges == Ends(net.cb, cbs) \union Ends(net.sec, DOMAIN net.sec)
               \union Ends(net.sw, {i \in DOMAIN net.sw : ~net.sw[i].open})
      all == ns \union UNION {e \in edges : e \intersect ns # {}}
  IN IF all = ns THEN ns ELSE Joined(all, cbs)

EndsOf(dev) ==
  CASE dev[1] = "CB" -> {Attr(dev).ind, Attr(dev).iznd}
    [] dev[1] = "FI" -> {net.sec[SecOfFi(dev[2])].ind, net.sec[SecOfFi(dev[2])].iznd}
    [] dev[1] = "BUS" -> {net.bus[dev[2]]}
    [] dev[1] = "LD" -> {net.ld[dev[2]]}

Steps == {"idle", "Init", "SetFaultTopflags", "BuildTree", "GetFaultPath", "GetFaultType",
          "FindFaultDevs", "FormIsoSteps", "isolated", "failed"}

\* Every variable has the values the tables of the processor can hold.
TypeOK ==
  /\ pc \in Steps
  /\ point \subseteq Cbs /\ open \subseteq Cbs /\ isolate \subseteq Cbs /\ before \subseteq Cbs
  /\ lst_fault_open_cb \subseteq Cbs /\ lst_failed \subseteq Cbs
  /\ live \subseteq DOMAIN net.bus
  /\ \A i \in DOMAIN zones.zone :
        /\ zones.zone[i].cbptr + zones.zone[i].cbnum <= Len(zones.zone_cb)
        /\ zones.zone[i].icb \in Cbs \union {-1}
  /\ TreeNodes(loc.tree) \subseteq 1 .. Removed - 1
  /\ loc.jxcb \in Cbs \union {0}
  /\ ToSet(plan.isolate) \subseteq Cbs /\ ToSet(plan.min) \subseteq Cbs /\ plan.restore \subseteq Cbs

\* The nodes of a zone.
ZoneNodes(i) ==
  LET zone == zones.zone[i]
  IN IF zone.type = "ZN" THEN ToSet(net.zn[zone.sub]) ELSE Joined({net.bus[zone.sub]}, {})
ZonesAt(n) == {i \in DOMAIN zones.zone : zones.zone[i].type # "BUS" /\ n \in ZoneNodes(i)}

\* The zones are those FormIcbOfZone has made for the breakers open now.
ZonesFormed == unread = {} /\ pc \notin {"idle", "Init"}

\* A breaker lies between the zones of its two ends, whichever of the rows
\* of zone_cb they list it in.  A zone has an inflow breaker just if closed
\* breakers join it to a source; the breaker is closed, the zone is the one
\* FindDownZone finds below it, and FindUpZone finds its other side.
SuppliedOverClosed ==
  ZonesFormed =>
    LET so == UNION {ZoneNodes(i) : i \in {i \in DOMAIN zones.zone : zones.zone[i].type = "SO"}}
    IN /\ \A i \in Cbs : {zones.fdir_cb[i].ind, zones.fdir_cb[i].iznd} \ {-1}
                          = ZonesAt(net.cb[i].ind) \union ZonesAt(net.cb[i].iznd)
       /\ \A i \in DOMAIN zones.zone :
            LET icb == zones.zone[i].icb
                up == FindUpZone(zones, icb)
            IN zones.zone[i].type = "ZN" =>
                 /\ (icb # -1) <=> (Joined(ZoneNodes(i), Cbs \ open) \intersect so # {})
                 /\ icb # -1 =>
                      /\ icb \notin open
                      /\ FindDownZone(zones, icb) = i
                      /\ up # -1
                      /\ ZoneNodes(up) = ZoneNodes(Beyond(zones, i, icb))

\* The walk starts with two halves of one tree if the section of the key
\* indicator begins neither at a breaker nor at a load.
HalvesMeet ==
  loc.key[1] = "FI" => LET n == net.sec[SecOfFi(loc.key[2])].ind
                       IN At(n, net.cb) = <<>> /\ LoadsAt(n, net) = <<>>

\* The incoming breaker is the one between the busbar at the root and all
\* that is fed from it.
JxcbAtRoot ==
  \A n \in TreeNodes(loc.tree) :
    loc.tree[n].dev[1] = "LD" =>
      CB(loc.jxcb) \in {loc.tree[a].dev : a \in ToSet(PathUp(loc.tree, n))}
Rooted == loc.key[1] = "BUS" \/ JxcbAtRoot

\* No breaker the walk passes closes a ring.
Radial ==
  LET passed == {i \in Cbs : Passes(i)}
  IN \A i \in passed : net.cb[i].iznd \notin Joined({net.cb[i].ind}, passed \ {i})

\* No walk meets a closed disconnector at the node at which it hangs a breaker,
\* below which it would put what lies behind the disconnector: a node with both
\* has no third device to come from, nor the busbar the walk begins with.
Unforked ==
  \A n \in {net.sw[i].ind : i \in DOMAIN net.sw} \union {net.sw[i].iznd : i \in DOMAIN net.sw} :
    (At(n, net.cb) # <<>> /\ \E i \in ToSet(At(n, net.sw)) : ~net.sw[i].open) =>
      /\ Len(At(n, net.cb)) + Len(At(n, net.sw)) + Len(At(n, net.sec)) = 2
      /\ loc.key \notin {BUS(b) : b \in BusesAt(n, net)}

\* The tree has the key device and just the loads joined to the incoming
\* breaker (the busbar, if that is the key), and a breaker above a device is one
\* whose opening cuts the device off.
TreeIsNetwork ==
  (pc = "GetFaultPath" /\ HalvesMeet /\ Radial /\ Unforked) =>
    LET t == loc.tree
        nodes == TreeNodes(t)
        passed == {i \in Cbs : Passes(i)}
        root == UNION {EndsOf(t[r].dev) : r \in {r \in nodes : t[r].up = 0}}
        jxcb == loc.jxcb
        line == IF jxcb = 0 THEN Joined(root, passed)
                ELSE Joined(EndsOf(CB(jxcb)) \ Joined(root, passed \ {jxcb}), passed \ {jxcb})
        Cuts(i, n) == ~ (EndsOf(t[n].dev) \subseteq Joined(root, passed \ {i}))
    IN /\ loc.key \in {t[n].dev : n \in nodes}
       /\ Rooted =>
            {i \in DOMAIN net.ld : net.ld[i] \in line} = {t[n].dev[2] : n \in {n \in nodes : t[n].dev[1] = "LD"}}
       /\ \A n \in nodes : \A a \in ToSet(PathUp(t, t[n].up)) :
            IsCB(t[a].dev) => Cuts(t[a].dev[2], n)

\* Where the fault is: beyond the head.
FaultNodes ==
  LET t == loc.tree
      dev == t[loc.head].dev
      root == EndsOf(t[CHOOSE r \in TreeNodes(t) : t[r].up = 0].dev)
  IN IF IsCB(dev) THEN EndsOf(dev) \ Joined(root, {j \in Cbs : Passes(j)} \ {dev[2]}) ELSE EndsOf(dev)
Sources == {net.bus[b] : b \in {b \in live : BUS(b) # loc.tree[loc.head].dev}}
Opened == {i \in ToSet(plan.isolate) : Operable(i)}
Fed(cbs) == Joined(FaultNodes, cbs) \intersect Sources # {}

\* With the isolation steps carried out, and the breakers above the upper one
\* closed again, the fault is fed from no busbar, unless it still is with
\* every breaker open that can be operated.
FaultCutOff ==
  (pc = "isolated" /\ unread = {} /\ Rooted /\ Radial /\ Unforked) =>
    (Fed((point \ Opened) \union plan.restore) => Fed({i \in point : ~Operable(i)}))

\* What stays joined to the fault beyond its head and tail is joined over
\* breakers that cannot be operated.
FaultShutIn ==
  (pc = "isolated" /\ unread = {} /\ Rooted /\ Radial /\ HalvesMeet /\ Unforked) =>
    LET t == loc.tree
        closed == point \ Opened
        off == Joined(FaultNodes, closed)
        Inside(n) == /\ n = loc.head \/ IsAbove(t, loc.head, n)
                     /\ ToSet(PathUp(t, n)) \intersect loc.tail = {}
    IN \A n \in TreeNodes(t) :
         (IsCB(t[n].dev) /\ t[n].dev[2] \in closed /\ EndsOf(t[n].dev) \subseteq off /\ ~Inside(n))
           => ~Operable(t[n].dev[2])

\* The isolation steps shut the fault in (FormIsoSteps): no source feeds it, and
\* nothing hangs on to it beyond the breakers opened.
FaultIsolated == FaultCutOff /\ FaultShutIn

\* The walk that collects the faulted part agrees with the tree: a load is
\* in the part just if it is below the head and below no breaker or
\* indicator of the tail.
TwoWalksAgree ==
  (pc = "FormIsoSteps" /\ loc.key[1] # "BUS" /\ JxcbAtRoot /\ HalvesMeet /\ Radial /\ Unforked) =>
    LET t == loc.tree
        Ends(n) == n \in loc.tail /\ t[n].dev[1] \in {"CB", "FI"}
        Beyond3(n) == \E a \in ToSet(PathUp(t, n)) : Ends(a)
        loads == {n \in TreeNodes(t) : t[n].dev[1] = "LD"}
    IN {t[n].dev : n \in {n \in loads : IsAbove(t, loc.head, n) /\ ~Beyond3(n)}}
         = {d \in loc.parts.fault : d[1] = "LD"}

(* What the code says and does not do.                                     *)

\* map_jxcb_bus pairs an incoming breaker with the busbar behind it; but the
\* walk pairs the last incoming breaker it has met, also with the busbar of
\* the key device, when it met another line's first.
BusbarOfJxcb == pc = "GetFaultPath" => Rooted

\* The devices a half of the tree begins with are kept from losing their
\* father (cur_father); but only loads are, so that an indicator next to a
\* breaker takes the root from it and the location fails.
KeyOnTree ==
  pc = "GetFaultPath" => loc.key \in {loc.tree[n].dev : n \in TreeNodes(loc.tree)}

\* A fault spreads only over breakers that are closed or that the signals of
\* this fault, or an earlier trip of the line, name; but Init counts those of
\* the processor's previous fault as closed too.
TreeOverClosed ==
  pc = "GetFaultPath" =>
    \A n \in TreeNodes(loc.tree) :
      LET dev == loc.tree[n].dev
      IN (IsCB(dev) /\ GetChildNodes(loc.tree, n) # <<>>) =>
           (dev[2] \in point \/ Detected(dev) \/ Attr(dev).jx)
=============================================================================
