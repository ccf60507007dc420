------------------------------ MODULE Topology ------------------------------
(***************************************************************************)
(* tp_allnew (Tp.cpp): from the positions of the breakers to buses and     *)
(* islands.  Nodes that closed breakers join are one bus (tp_nd_sort),     *)
(* buses that line sections and transformers join are one island if there  *)
(* is a source among them and dead otherwise (tp_bs_sort), and every       *)
(* device is open or dead as its buses are (tp_comp_status).               *)
(*                                                                         *)
(* A node is its position in nd_tb, ibs 0 stands for ND_UNPROC as well:    *)
(* buses are numbered from 1.  The nodes of a group and the buses of an    *)
(* island are circular chains in the code, walked once around while they   *)
(* grow; here todo is what of the chain has not been walked yet, in any    *)
(* order, because no result depends on it.                                 *)
(***************************************************************************)
EXTENDS Integers, Sequences, FiniteSets

CONSTANTS
  lv_nd,        \* number of nodes
  Networks,     \* the networks there may be
  BsSize,       \* size of the table DMS_BS
  IslandSize,   \* size of the island table
  g_mxnbr       \* room for the neighbours of a bus

Nodes == 0 .. lv_nd - 1
Edges == {e \in [ind : Nodes, iznd : Nodes] : e.ind # e.iznd}
Flags == {"ND_SO", "ND_LD", "ND_CP"}

\* Breakers, open breakers, sections, windings and those of them that have no
\* transformer, nodes of the sources in the order of so_tb, flags of the nodes.
\* The node of a source has ND_SO, but so has one that was a source before.
NetworkType ==
  {w \in [cb : SUBSET Edges, open : SUBSET Edges, sec : SUBSET Edges,
          xf : SUBSET Edges, orphan : SUBSET Edges, so : Seq(Nodes),
          q : [Nodes -> SUBSET Flags]] :
     \A i \in DOMAIN w.so : "ND_SO" \in w.q[w.so[i]]}

ASSUME TopologyAssumption ==
  /\ {lv_nd, IslandSize, g_mxnbr} \subseteq Nat
  /\ BsSize \in Nat \ {0, 1}
  /\ Networks \subseteq NetworkType

VARIABLES
  net,         \* the network
  stage,       \* what tp_allnew is at: "nd", "bs", "comp", or its result
  ibs,         \* the bus of a node, 0 if it has none yet
  nextbs,      \* global->nextbs
  todo,        \* nodes of the group, then buses of the island, to be walked
  g_nbr,       \* branches counted for the group
  qndgrp,      \* flags seen in the group
  bs_open,     \* buses with BS_OPEN
  chain,       \* buses of the island in the making
  processed,   \* buses taken from the unprocessed chain
  iisland,     \* the island of a bus, -1 for dead, -2 for none yet
  islands,     \* number of islands
  so_iisland,  \* the island of a source, -1 for none
  source,      \* the source tp_bs_sort is at
  topflags     \* branches dead, or open at ind, or open at iznd

ndVars == <<ibs, nextbs, g_nbr, qndgrp, bs_open>>
bsVars == <<source, chain, processed, iisland, islands, so_iisland>>
vars == <<net, stage, ndVars, todo, bsVars, topflags>>

Buses == 1 .. BsSize - 1
UsedBuses == 1 .. nextbs - 1

Init ==
  /\ net \in Networks
  /\ stage = "nd"
  /\ ibs = [n \in Nodes |-> 0]
  /\ nextbs = 1
  /\ todo = {}
  /\ g_nbr = 0 /\ qndgrp = {} /\ bs_open = {}
  /\ source = 1 /\ chain = {} /\ processed = {} /\ islands = 0
  /\ iisland = [b \in Buses |-> -2]
  /\ so_iisland = [i \in DOMAIN net.so |-> -1]
  /\ topflags = [dead |-> {}, iopen |-> {}, zopen |-> {}]
-----------------------------------------------------------------------------
Ends(e) == {e.ind, e.iznd}
At(S, n) == {e \in S : n \in Ends(e)}

\* The other end of the edges of S at n.
Across(S, n) == {m \in Nodes : m # n /\ \E e \in At(S, n) : m \in Ends(e)}

\* A mutant of Closed: the position of a breaker is not looked at.
AllBreakers(w) == w.cb

Closed(w) == w.cb \ w.open

\* A mutant of Branches: the transformers are forgotten.
SectionsOnly(w) == w.sec

Branches(w) == w.sec \cup w.xf

\* FindChildNum: it returns -1 for a node that has no such branch.
FindChildNum(S, n) == IF At(S, n) = {} THEN -1 ELSE Cardinality(At(S, n))

-----------------------------------------------------------------------------
(* tp_nd_sort *)

Unprocessed == {n \in Nodes : ibs[n] = 0}

\* A mutant of NoBusLeft: it refuses a bus too early.
OneBusLeft == nextbs = BsSize - 2

\* A mutant of NoBusLeft: it gives out the end of the chain.
NoBusAtAll == nextbs = BsSize

NoBusLeft == nextbs = BsSize - 1

\* The first node without a bus starts a group, if there is a bus for it.
StartGroup ==
  /\ stage = "nd" /\ todo = {} /\ Unprocessed # {}
  /\ \/ /\ NoBusLeft
        /\ stage' = "fail"
        /\ UNCHANGED <<ibs, todo, g_nbr, qndgrp>>
     \/ /\ ~NoBusLeft
        /\ \E i \in Unprocessed :
             /\ \A n \in Unprocessed : i <= n
             /\ ibs' = [ibs EXCEPT ![i] = nextbs]
             /\ todo' = {i}
        /\ g_nbr' = 0 /\ qndgrp' = {}
        /\ UNCHANGED stage
  /\ UNCHANGED <<net, nextbs, bs_open, bsVars, topflags>>

\* A mutant of NotOpenBs: a source alone does not count.
NotOpenBsLoad(nbr, q) ==
  \/ nbr > 1
  \/ nbr = 1 /\ q \cap {"ND_SO", "ND_LD", "ND_CP"} # {}
  \/ "ND_LD" \in q

\* notopenbs of a group with nbr branches and the flags q.
NotOpenBs(nbr, q) ==
  \/ nbr > 1
  \/ nbr = 1 /\ q \cap {"ND_SO", "ND_LD", "ND_CP"} # {}
  \/ q \cap {"ND_SO", "ND_LD"} # {}

\* A node of the group: what closed breakers join to it is of the group.  The
\* last node closes the group.
WalkNode ==
  /\ stage = "nd"
  /\ \E n \in todo :
       LET new == {m \in Across(Closed(net), n) : ibs[m] = 0}
       IN  /\ ibs' = [m \in Nodes |-> IF m \in new THEN nextbs ELSE ibs[m]]
           /\ todo' = (todo \ {n}) \cup new
           /\ qndgrp' = qndgrp \cup net.q[n]
           /\ g_nbr' = g_nbr + FindChildNum(net.xf, n) + FindChildNum(net.sec, n)
  /\ IF todo' = {}
     THEN /\ nextbs' = nextbs + 1
          /\ bs_open' = IF NotOpenBs(g_nbr', qndgrp') THEN bs_open
                        ELSE bs_open \cup {nextbs}
     ELSE UNCHANGED <<nextbs, bs_open>>
  /\ UNCHANGED <<net, stage, bsVars, topflags>>

NodesSorted ==
  /\ stage = "nd" /\ todo = {} /\ Unprocessed = {}
  /\ stage' = "bs"
  /\ UNCHANGED <<net, ndVars, todo, bsVars, topflags>>
-----------------------------------------------------------------------------
(* tp_bs_sort *)

BusNodes(b) == {n \in Nodes : ibs[n] = b}

\* A mutant of Neighbors: branches lead one way.
NeighborsBeyond(b) == {ibs[e.iznd] : e \in {f \in Branches(net) : ibs[f.ind] = b}}

\* tp_bs_neighbor: the buses that branches join to a bus, and the places they
\* take in g_z_br, one for every end of a branch at the bus.
Neighbors(b) == UNION {{ibs[m] : m \in Across(Branches(net), n)} : n \in BusNodes(b)}

EndsAt(S, b) == {p \in S \X BusNodes(b) : p[2] \in Ends(p[1])}
NeighborCount(b) == Cardinality(EndsAt(net.sec, b)) + Cardinality(EndsAt(net.xf, b))

SourceBus == ibs[net.so[source]]

\* The bus of the source is on an island already, or open.
SkipSource ==
  /\ stage = "bs" /\ chain = {} /\ source \in DOMAIN net.so
  /\ \/ /\ SourceBus \in processed
        /\ so_iisland' = [so_iisland EXCEPT ![source] = iisland[SourceBus]]
     \/ /\ SourceBus \notin processed /\ SourceBus \in bs_open
        /\ UNCHANGED so_iisland
  /\ source' = source + 1
  /\ UNCHANGED <<net, stage, ndVars, todo, chain, processed, iisland, islands, topflags>>

StartIsland ==
  /\ stage = "bs" /\ chain = {} /\ source \in DOMAIN net.so
  /\ SourceBus \notin processed \cup bs_open
  /\ chain' = {SourceBus} /\ todo' = {SourceBus}
  /\ processed' = processed \cup {SourceBus}
  /\ UNCHANGED <<net, stage, ndVars, source, iisland, islands, so_iisland, topflags>>

\* A bus of the island: its neighbours are of the island, unless they have been
\* taken from the unprocessed chain before.
WalkBus ==
  /\ stage = "bs"
  /\ \E b \in todo :
       \/ /\ NeighborCount(b) > g_mxnbr
          /\ stage' = "fail"
          /\ UNCHANGED <<todo, chain, processed>>
       \/ /\ NeighborCount(b) <= g_mxnbr
          /\ LET new == Neighbors(b) \ processed
             IN  /\ todo' = (todo \ {b}) \cup new
                 /\ chain' = chain \cup new
                 /\ processed' = processed \cup new
          /\ UNCHANGED stage
  /\ UNCHANGED <<net, ndVars, source, iisland, islands, so_iisland, topflags>>

\* The island is complete, and is entered if there is room.
FinishIsland ==
  /\ stage = "bs" /\ chain # {} /\ todo = {}
  /\ \/ /\ islands < IslandSize
        /\ iisland' = [b \in Buses |-> IF b \in chain THEN islands ELSE iisland[b]]
        /\ so_iisland' = [so_iisland EXCEPT ![source] = islands]
        /\ islands' = islands + 1
        /\ chain' = {}
        /\ source' = source + 1
        /\ UNCHANGED stage
     \/ /\ islands >= IslandSize
        /\ stage' = "fail"
        /\ UNCHANGED <<iisland, so_iisland, islands, chain, source>>
  /\ UNCHANGED <<net, ndVars, todo, processed, topflags>>

\* What no source has reached is dead.
MarkDead ==
  /\ stage = "bs" /\ chain = {} /\ source \notin DOMAIN net.so
  /\ iisland' = [b \in Buses |-> IF b \in UsedBuses \ processed THEN -1 ELSE iisland[b]]
  /\ stage' = "comp"
  /\ UNCHANGED <<net, ndVars, todo, source, chain, processed, islands, so_iisland, topflags>>
-----------------------------------------------------------------------------
\* tp_comp_status: the flags of the branches.  Those of a device with one node
\* are those of its bus.  The zones are left alone (ZN_ND_USE_ARRAY).  A winding
\* without transformer ends the loop; what was set until then is not used.
CompStatus ==
  /\ stage = "comp"
  /\ \/ /\ net.xf \cap net.orphan # {}
        /\ stage' = "fail" /\ UNCHANGED topflags
     \/ /\ net.xf \cap net.orphan = {}
        /\ topflags' =
             [dead  |-> {e \in Branches(net) : \A n \in Ends(e) : iisland[ibs[n]] < 0},
              iopen |-> {e \in Branches(net) : ibs[e.ind] \in bs_open},
              zopen |-> {e \in Branches(net) : ibs[e.iznd] \in bs_open}]
        /\ stage' = "done"
  /\ UNCHANGED <<net, ndVars, todo, bsVars>>

Next ==
  \/ StartGroup \/ WalkNode \/ NodesSorted
  \/ SkipSource \/ StartIsland \/ WalkBus \/ FinishIsland \/ MarkDead
  \/ CompStatus

Spec == Init /\ [][Next]_vars
-----------------------------------------------------------------------------
TypeOK ==
  /\ net \in NetworkType
  /\ stage \in {"nd", "bs", "comp", "done", "fail"}
  /\ nextbs \in Buses
  /\ ibs \in [Nodes -> 0..nextbs]
  /\ todo \subseteq IF stage = "nd" THEN Nodes ELSE Nodes \cup Buses
  /\ g_nbr \in Int /\ qndgrp \subseteq Flags
  /\ bs_open \subseteq UsedBuses
  /\ source \in Nat \ {0}
  /\ chain \subseteq Buses /\ processed \subseteq Buses
  /\ iisland \in [Buses -> -2 .. islands - 1]
  /\ islands \in 0..IslandSize
  /\ so_iisland \in [DOMAIN net.so -> Int]
  /\ topflags \in [{"dead", "iopen", "zopen"} -> SUBSET Edges]

\* Two nodes are joined by the edges of S: no part of the network that S does
\* not leave has one of them only.
Joined(S, a, b) ==
  \A part \in SUBSET Nodes :
    a \in part /\ (\A e \in S : e.ind \in part <=> e.iznd \in part) => b \in part

AllClosed == net.cb \ net.open
AllEdges == AllClosed \cup net.sec \cup net.xf

\* Two nodes have the same bus exactly if closed breakers join them (tp_nd_sort),
\* whatever the breakers form: rings, parallel breakers, dead ends.
BusesAreComponents ==
  stage \in {"bs", "comp", "done"} =>
    \A a, b \in Nodes : ibs[a] = ibs[b] <=> Joined(AllClosed, a, b)

\* A node is on an island exactly if it is joined to a source, and a branch is
\* dead exactly if neither end is: no part that is fed is taken for dead and none
\* that is dead for fed (tp_bs_sort, tp_comp_status).
EnergisedFromSource ==
  stage = "done" =>
    LET Fed(n) == \E i \in DOMAIN net.so : Joined(AllEdges, n, net.so[i])
    IN  /\ \A n \in Nodes : iisland[ibs[n]] >= 0 <=> Fed(n)
        /\ \A e \in net.sec \cup net.xf : e \in topflags.dead <=> ~Fed(e.ind)

\* Two nodes that are fed are on the same island exactly if they are joined.
IslandsAreComponents ==
  stage = "done" =>
    \A a, b \in Nodes :
      iisland[ibs[a]] >= 0 /\ iisland[ibs[b]] >= 0 =>
        (iisland[ibs[a]] = iisland[ibs[b]] <=> Joined(AllEdges, a, b))

\* Every source knows the island it feeds, also the second of two on one island
\* and one on a bus that was numbered as a load (so->iisland, for the power flow).
SourcesOnIslands ==
  stage = "done" =>
    \A i \in DOMAIN net.so :
      so_iisland[i] >= 0 /\ so_iisland[i] = iisland[ibs[net.so[i]]]

\* Islands as the power flow reads them (tp_bs_sort): told apart where nothing
\* joins them, and known to every source.
IslandsTrue == IslandsAreComponents /\ SourcesOnIslands

\* The topology is given up only for a table that is full: the last bus of DMS_BS is
\* not used, nor is the first.
FailsOnlyFull ==
  stage = "fail" =>
    LET Part(S, n) == {m \in Nodes : Joined(S, n, m)}
    IN  \/ Cardinality({Part(AllClosed, n) : n \in Nodes}) > BsSize - 2
        \/ Cardinality({Part(AllEdges, net.so[i]) : i \in DOMAIN net.so}) > IslandSize
        \/ \E b \in UsedBuses : NeighborCount(b) > g_mxnbr
        \/ net.xf \cap net.orphan # {}
=============================================================================
