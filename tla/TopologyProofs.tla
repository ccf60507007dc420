--------------------------- MODULE TopologyProofs ---------------------------
(***************************************************************************)
(* The result of tp_allnew for every network: that buses and islands are   *)
(* the connected parts they should be, with the invariant this rests on.   *)
(***************************************************************************)
EXTENDS Topology, FiniteSetTheorems, TLAPS

-----------------------------------------------------------------------------
(* The invariant of tp_nd_sort *)

Walked(n) == ibs[n] # 0 /\ (stage = "nd" => n \notin todo)

\* The nodes of a bus are joined.
BusesJoined ==
  \A a, b \in Nodes : ibs[a] # 0 /\ ibs[a] = ibs[b] => Joined(AllClosed, a, b)

\* Closed breakers do not lead from a walked node to another bus.
BusesClosed ==
  \A a \in Nodes : Walked(a) => \A b \in Across(AllClosed, a) : ibs[b] = ibs[a]

\* What is to be walked is of the group in the making, if there is one.
GroupInMaking ==
  stage = "nd" => /\ todo \subseteq {n \in Nodes : ibs[n] = nextbs}
                  /\ IF todo = {} THEN \A n \in Nodes : ibs[n] # nextbs
                     ELSE nextbs < BsSize - 1

\* A bus with BS_OPEN has no source.
OpenWithoutSource ==
  /\ \A n \in Nodes : ibs[n] \in bs_open => "ND_SO" \notin net.q[n]
  /\ stage = "nd" =>
       \A n \in Nodes : ibs[n] = nextbs /\ n \notin todo => net.q[n] \subseteq qndgrp

Sorted == stage \in {"bs", "comp", "done"}

NodesSortedInv == Sorted => \A n \in Nodes : ibs[n] \in UsedBuses

NodeInv ==
  /\ BusesJoined /\ BusesClosed /\ GroupInMaking /\ OpenWithoutSource /\ NodesSortedInv

-----------------------------------------------------------------------------
(* The invariant of tp_bs_sort *)

\* The buses of the islands that are complete.
Complete == processed \ chain

ChainInv ==
  /\ stage = "nd" => chain = {} /\ processed = {} /\ source = 1
  /\ stage = "bs" => /\ todo \subseteq chain
                     /\ chain \subseteq processed
                     /\ processed \subseteq UsedBuses
                     /\ chain # {} => source \in DOMAIN net.so /\ SourceBus \in chain
  /\ stage \in {"comp", "done"} => /\ chain = {} /\ source \notin DOMAIN net.so
                                   /\ processed \subseteq UsedBuses

\* Exactly the buses of complete islands have an island.
IslandNumbers ==
  stage # "fail" => \A b \in Buses : IF b \in Complete THEN iisland[b] \in 0 .. islands - 1
                                  ELSE iisland[b] < 0

\* Branches do not lead out of a complete island, nor from a walked bus of the
\* island in the making to a bus outside it.
IslandsClosed ==
  Sorted =>
    /\ \A b \in Complete : \A c \in Neighbors(b) : c \in Complete /\ iisland[c] = iisland[b]
    /\ \A b \in chain : (stage = "bs" => b \notin todo) => Neighbors(b) \subseteq chain

\* The nodes of an island are joined.
IslandsJoined ==
  Sorted =>
    \A a, b \in Nodes :
      \/ ibs[a] \in Complete /\ ibs[b] \in Complete /\ iisland[ibs[a]] = iisland[ibs[b]]
      \/ ibs[a] \in chain /\ ibs[b] \in chain
      => Joined(AllEdges, a, b)

\* The sources up to now are on islands, and every island has one of them.
SourcesInv ==
  Sorted =>
    /\ \A i \in DOMAIN net.so :
         i < source => /\ ibs[net.so[i]] \in Complete
                       /\ so_iisland[i] = iisland[ibs[net.so[i]]]
    /\ \A b \in Complete : \E i \in DOMAIN net.so :
         /\ i < source
         /\ ibs[net.so[i]] \in Complete
         /\ iisland[ibs[net.so[i]]] = iisland[b]

FlagsInv ==
  stage = "done" =>
    topflags.dead = {e \in Branches(net) : \A n \in Ends(e) : iisland[ibs[n]] < 0}

BusInv ==
  /\ ChainInv /\ IslandNumbers /\ IslandsClosed /\ IslandsJoined
  /\ SourcesInv /\ FlagsInv
-----------------------------------------------------------------------------
(* Joined is an equivalence on the nodes, grows with the edges, and a part *)
(* that no edge leaves holds all that is joined to it.                     *)

LEMMA JoinedRefl == ASSUME NEW S, NEW a \in Nodes PROVE Joined(S, a, a)
BY DEF Joined

LEMMA JoinedTrans ==
  ASSUME NEW S, NEW a, NEW b, NEW c, Joined(S, a, b), Joined(S, b, c)
  PROVE  Joined(S, a, c)
BY DEF Joined

\* The complement of a part that no edge leaves is one.
LEMMA JoinedSym ==
  ASSUME NEW S \in SUBSET Edges, NEW a \in Nodes, NEW b \in Nodes, Joined(S, a, b)
  PROVE  Joined(S, b, a)
<1> SUFFICES ASSUME NEW part \in SUBSET Nodes, b \in part,
                    \A e \in S : e.ind \in part <=> e.iznd \in part,
                    a \notin part
             PROVE  FALSE
  BY DEF Joined
<1>1. \A e \in S : e.ind \in Nodes \ part <=> e.iznd \in Nodes \ part
  BY DEF Edges
<1>2. b \in Nodes \ part
  BY <1>1 DEF Joined
<1>3. QED
  BY <1>2

LEMMA JoinedMono ==
  ASSUME NEW S, NEW T, S \subseteq T, NEW a, NEW b, Joined(S, a, b)
  PROVE  Joined(T, a, b)
BY DEF Joined

LEMMA AcrossJoined ==
  ASSUME NEW S \in SUBSET Edges, NEW a \in Nodes, NEW b \in Across(S, a)
  PROVE  b \in Nodes /\ Joined(S, a, b) /\ a \in Across(S, b)
BY DEF Across, At, Ends, Joined, Edges

\* A part out of which nothing leads across an edge is left by no edge.
LEMMA ClosedPart ==
  ASSUME NEW S \in SUBSET Edges, NEW part \in SUBSET Nodes,
         \A a \in part : Across(S, a) \subseteq part
  PROVE  \A e \in S : e.ind \in part <=> e.iznd \in part
<1> TAKE e \in S
<1>1. e.ind \in Nodes /\ e.iznd \in Nodes /\ e.ind # e.iznd
  BY DEF Edges
<1>2. e.iznd \in Across(S, e.ind) /\ e.ind \in Across(S, e.iznd)
  BY <1>1 DEF Across, At, Ends
<1>3. QED
  BY <1>1, <1>2

LEMMA EdgeSets ==
  ASSUME net \in NetworkType
  PROVE  /\ AllClosed \subseteq Edges /\ AllEdges \subseteq Edges
         /\ Branches(net) \subseteq AllEdges /\ AllClosed \subseteq AllEdges
         /\ Closed(net) = AllClosed
         /\ net.sec \subseteq Edges /\ net.xf \subseteq Edges
BY DEF NetworkType, AllClosed, AllEdges, Branches, Closed

-----------------------------------------------------------------------------
(* Types *)

LEMMA EdgesFinite == IsFiniteSet(Edges)
<1> DEFINE f == [e \in Edges |-> <<e.ind, e.iznd>>]
<1>1. IsFiniteSet(Nodes)
  BY TopologyAssumption, FS_Interval DEF Nodes
<1>2. IsFiniteSet(Nodes \X Nodes)
  BY <1>1, FS_Product
<1>3. f \in Injection(Edges, Nodes \X Nodes)
  BY DEF Injection, IsInjective, Edges
<1>4. QED
  BY <1>2, <1>3, FS_Injection

LEMMA FindChildNumType ==
  ASSUME NEW S \in SUBSET Edges, NEW n
  PROVE  FindChildNum(S, n) \in Int
<1>1. IsFiniteSet(At(S, n))
  BY EdgesFinite, FS_Subset DEF At
<1>2. QED
  BY <1>1, FS_CardinalityType DEF FindChildNum

LEMMA InitTypeOK == Init => TypeOK
<1> SUFFICES ASSUME Init PROVE TypeOK
  OBVIOUS
<1>1. net \in NetworkType
  BY TopologyAssumption DEF Init
<1>2. QED
  BY <1>1, TopologyAssumption DEF Init, TypeOK, Buses, UsedBuses, Flags

\* The bus of a source, the neighbours of a bus, once the nodes are sorted.
LEMMA SourceBusType ==
  ASSUME TypeOK, NodesSortedInv, Sorted, source \in DOMAIN net.so
  PROVE  SourceBus \in UsedBuses /\ net.so[source] \in Nodes
BY DEF TypeOK, NodesSortedInv, SourceBus, NetworkType

LEMMA NeighborsType ==
  ASSUME TypeOK, NodesSortedInv, Sorted, NEW b
  PROVE  Neighbors(b) \subseteq UsedBuses
BY DEF NodesSortedInv, Neighbors, Across

LEMMA UsedBusesType ==
  ASSUME TypeOK
  PROVE  UsedBuses \subseteq Buses
BY TopologyAssumption DEF TypeOK, Buses, UsedBuses

\* With GroupInMaking, which knows that there is a bus for the group, and
\* NodesSortedInv, which knows that every node has one in the end.
LEMMA NextTypeOK == TypeOK /\ GroupInMaking /\ NodesSortedInv /\ [Next]_vars => TypeOK'
<1> SUFFICES ASSUME TypeOK, GroupInMaking, NodesSortedInv, [Next]_vars PROVE TypeOK'
  OBVIOUS
<1> USE TopologyAssumption DEF TypeOK, ndVars, bsVars, Buses, UsedBuses
<1>1. CASE StartGroup
  <2>1. ibs' \in [Nodes -> 0..nextbs] /\ todo' \subseteq Nodes /\ stage' \in {"nd", "fail"}
    BY <1>1 DEF StartGroup, Unprocessed
  <2>2. g_nbr' \in Int /\ qndgrp' \subseteq Flags
    BY <1>1 DEF StartGroup
  <2>3. QED
    BY <1>1, <2>1, <2>2 DEF StartGroup
<1>2. CASE WalkNode
  <2> PICK n \in todo :
        LET new == {m \in Across(Closed(net), n) : ibs[m] = 0}
        IN  /\ ibs' = [m \in Nodes |-> IF m \in new THEN nextbs ELSE ibs[m]]
            /\ todo' = (todo \ {n}) \cup new
            /\ qndgrp' = qndgrp \cup net.q[n]
            /\ g_nbr' = g_nbr + FindChildNum(net.xf, n) + FindChildNum(net.sec, n)
    BY <1>2 DEF WalkNode
  <2>1. stage = "nd" /\ todo # {} /\ n \in Nodes
    BY <1>2 DEF WalkNode
  <2>2. ibs' \in [Nodes -> 0..nextbs]
    OBVIOUS
  <2>3. todo' \subseteq Nodes
    BY <2>1 DEF Across
  <2>4. g_nbr' \in Int
    BY FindChildNumType, EdgeSets
  <2>5. qndgrp' \subseteq Flags
    BY <2>1 DEF NetworkType
  <2>6. nextbs' \in {nextbs, nextbs + 1} /\ bs_open' \subseteq bs_open \cup {nextbs}
    BY <1>2 DEF WalkNode
  <2>7. nextbs' = nextbs => bs_open' = bs_open
    <3> HIDE DEF TypeOK
    <3>1. nextbs \in Int
      BY DEF TypeOK
    <3>2. QED
      BY <1>2, <3>1 DEF WalkNode
  <2>8. nextbs \in Nat \ {0} /\ nextbs < BsSize - 1
    BY <2>1 DEF GroupInMaking
  <2>9. nextbs' \in Buses /\ ibs' \in [Nodes -> 0..nextbs']
    BY <2>2, <2>6, <2>8
  <2>10. bs_open' \subseteq UsedBuses'
    <3>1. CASE nextbs' = nextbs
      BY <2>7, <3>1
    <3>2. CASE nextbs' = nextbs + 1
      BY <2>6, <2>8, <3>2
    <3>3. QED
      BY <2>6, <3>1, <3>2
  <2>11. UNCHANGED <<net, stage, source, chain, processed, iisland, islands, so_iisland, topflags>>
    BY <1>2 DEF WalkNode
  <2>12. QED
    BY <2>1, <2>3, <2>4, <2>5, <2>9, <2>10, <2>11
<1>3. CASE NodesSorted
  BY <1>3 DEF NodesSorted
<1>4. CASE SkipSource
  <2>1. SourceBus \in Buses
    BY <1>4, SourceBusType, UsedBusesType DEF SkipSource, Sorted
  <2>2. so_iisland' \in [DOMAIN net.so -> Int]
    BY <1>4, <2>1 DEF SkipSource
  <2>3. source' \in Nat \ {0}
    BY <1>4 DEF SkipSource
  <2>4. QED
    BY <1>4, <2>2, <2>3 DEF SkipSource
<1>5. CASE StartIsland
  <2>1. SourceBus \in Buses
    BY <1>5, SourceBusType, UsedBusesType DEF StartIsland, Sorted
  <2>2. QED
    BY <1>5, <2>1 DEF StartIsland
<1>6. CASE WalkBus
  <2>1. PICK b \in todo :
           \/ stage' = "fail" /\ UNCHANGED <<todo, chain, processed>>
           \/ /\ todo' = (todo \ {b}) \cup (Neighbors(b) \ processed)
              /\ chain' = chain \cup (Neighbors(b) \ processed)
              /\ processed' = processed \cup (Neighbors(b) \ processed)
              /\ UNCHANGED stage
    BY <1>6 DEF WalkBus
  <2>2. Neighbors(b) \subseteq Buses
    BY <1>6, NeighborsType, UsedBusesType DEF WalkBus, Sorted
  <2>3. UNCHANGED <<net, ndVars, source, iisland, islands, so_iisland, topflags>> /\ stage = "bs"
    BY <1>6 DEF WalkBus
  <2>4. QED
    BY <2>1, <2>2, <2>3
<1>7. CASE FinishIsland
  <2>1. islands \in Nat /\ islands' \in 0..IslandSize /\ islands' \in {islands, islands + 1}
    BY <1>7 DEF FinishIsland
  <2>2. so_iisland' \in [DOMAIN net.so -> Int]
    BY <1>7 DEF FinishIsland
  <2>3. source' \in Nat \ {0} /\ chain' \in {chain, {}} /\ stage' \in {"bs", "fail"}
    BY <1>7 DEF FinishIsland
  <2>4. iisland' \in [Buses -> -2 .. islands' - 1]
    <3>1. iisland \in [Buses -> -2 .. islands' - 1]
      BY <2>1
    <3>2. CASE iisland' = iisland
      BY <3>1, <3>2
    <3>3. CASE /\ iisland' = [b \in Buses |-> IF b \in chain THEN islands ELSE iisland[b]]
               /\ islands' = islands + 1
      BY <2>1, <3>1, <3>3
    <3>4. QED
      BY <1>7, <3>2, <3>3 DEF FinishIsland
  <2>5. UNCHANGED <<net, ndVars, todo, processed, topflags>>
    BY <1>7 DEF FinishIsland
  <2>6. QED
    BY <1>7, <2>1, <2>2, <2>3, <2>4, <2>5
<1>8. CASE MarkDead
  <2>1. iisland' \in [Buses -> -2 .. islands - 1]
    BY <1>8 DEF MarkDead
  <2>2. QED
    BY <1>8, <2>1 DEF MarkDead
<1>9. CASE CompStatus
  <2>1. topflags' \in [{"dead", "iopen", "zopen"} -> SUBSET Edges]
    BY <1>9, EdgeSets DEF CompStatus, AllEdges
  <2>2. QED
    BY <1>9, <2>1 DEF CompStatus
<1>10. CASE UNCHANGED vars
  BY <1>10 DEF vars
<1>11. QED
  BY <1>1, <1>2, <1>3, <1>4, <1>5, <1>6, <1>7, <1>8, <1>9, <1>10 DEF Next

-----------------------------------------------------------------------------
(* tp_nd_sort keeps NodeInv *)

\* What a primed formula about the network and the buses says if neither changes.
LEMMA JoinedSame ==
  ASSUME net' = net
  PROVE  /\ \A a, b : Joined(AllClosed, a, b)' <=> Joined(AllClosed, a, b)
         /\ \A a, b : Joined(AllEdges, a, b)' <=> Joined(AllEdges, a, b)
         /\ \A a : Across(AllClosed, a)' = Across(AllClosed, a)
         /\ Branches(net)' = Branches(net)
BY DEF Joined, AllClosed, AllEdges, Across, At, Branches

LEMMA NeighborsSame ==
  ASSUME net' = net, ibs' = ibs
  PROVE  \A b : Neighbors(b)' = Neighbors(b)
BY DEF Neighbors, BusNodes, Across, At, Branches

\* Once the nodes are sorted, nothing of this changes any more.
LEMMA NodeInvFrame ==
  ASSUME NodeInv, stage # "nd", stage' # "nd", Sorted' => Sorted, UNCHANGED <<net, ndVars>>
  PROVE  NodeInv'
<1> USE DEF NodeInv, ndVars
<1>1. BusesJoined'
  BY JoinedSame DEF BusesJoined
<1>2. BusesClosed'
  BY JoinedSame DEF BusesClosed, Walked
<1>3. GroupInMaking' /\ OpenWithoutSource' /\ NodesSortedInv'
  BY DEF GroupInMaking, OpenWithoutSource, NodesSortedInv, UsedBuses
<1>4. QED
  BY <1>1, <1>2, <1>3

LEMMA StartGroupNodeInv == TypeOK /\ NodeInv /\ StartGroup => NodeInv'
<1> SUFFICES ASSUME TypeOK, NodeInv, StartGroup PROVE NodeInv'
  OBVIOUS
<1> USE DEF NodeInv
<1>1. net' = net /\ nextbs' = nextbs /\ bs_open' = bs_open /\ stage = "nd" /\ todo = {}
  BY DEF StartGroup
<1>2. \A n \in Nodes : ibs[n] # nextbs
  BY <1>1 DEF GroupInMaking
<1>3. CASE stage' = "fail"
  <2>1. ibs' = ibs
    BY <1>3, <1>1 DEF StartGroup
  <2>2. BusesJoined'
    BY <1>1, <2>1, JoinedSame DEF BusesJoined
  <2>3. BusesClosed'
    BY <1>1, <1>3, <2>1, JoinedSame DEF BusesClosed, Walked
  <2>4. GroupInMaking' /\ OpenWithoutSource' /\ NodesSortedInv'
    BY <1>1, <1>3, <2>1 DEF GroupInMaking, OpenWithoutSource, NodesSortedInv, Sorted
  <2>5. QED
    BY <2>2, <2>3, <2>4
<1>4. CASE stage' # "fail"
  <2>1. ~NoBusLeft /\ stage' = "nd"
    BY <1>1, <1>4 DEF StartGroup
  <2>2. PICK i \in Unprocessed : ibs' = [ibs EXCEPT ![i] = nextbs] /\ todo' = {i}
    BY <1>4 DEF StartGroup
  <2>3. i \in Nodes /\ ibs[i] = 0
    BY <2>2 DEF Unprocessed
  <2>4. /\ ibs'[i] = nextbs
        /\ \A m \in Nodes : m # i => ibs'[m] = ibs[m]
    BY <2>2, <2>3 DEF TypeOK
  <2>5. nextbs # 0 /\ nextbs < BsSize - 1 /\ nextbs \notin bs_open
    BY <2>1, TopologyAssumption DEF TypeOK, NoBusLeft, Buses, UsedBuses
  <2>6. BusesJoined'
    <3> SUFFICES ASSUME NEW a \in Nodes, NEW b \in Nodes, ibs'[a] # 0, ibs'[a] = ibs'[b]
                 PROVE  Joined(AllClosed, a, b)
      BY <1>1, JoinedSame DEF BusesJoined
    <3>1. CASE a = i \/ b = i
      BY <3>1, <1>2, <2>4, JoinedRefl
    <3>2. CASE a # i /\ b # i
      BY <3>2, <2>4 DEF BusesJoined
    <3>3. QED
      BY <3>1, <3>2
  <2>7. BusesClosed'
    <3> SUFFICES ASSUME NEW a \in Nodes, Walked(a)', NEW b \in Across(AllClosed, a)
                 PROVE  ibs'[b] = ibs'[a]
      BY <1>1, JoinedSame DEF BusesClosed
    <3>1. a # i /\ ibs[a] # 0
      BY <2>1, <2>2, <2>4 DEF Walked
    <3>2. ibs[b] = ibs[a] /\ b \in Nodes
      BY <1>1, <3>1 DEF BusesClosed, Walked, Across
    <3>3. QED
      BY <2>3, <2>4, <3>1, <3>2
  <2>8. GroupInMaking'
    BY <1>1, <2>2, <2>3, <2>4, <2>5 DEF GroupInMaking
  <2>9. OpenWithoutSource'
    BY <1>1, <1>2, <2>2, <2>4, <2>5 DEF OpenWithoutSource
  <2>10. NodesSortedInv'
    BY <2>1 DEF NodesSortedInv, Sorted
  <2>11. QED
    BY <2>6, <2>7, <2>8, <2>9, <2>10
<1>5. QED
  BY <1>3, <1>4

LEMMA WalkNodeNodeInv == TypeOK /\ NodeInv /\ WalkNode => NodeInv'
<1> SUFFICES ASSUME TypeOK, NodeInv, WalkNode PROVE NodeInv'
  OBVIOUS
<1> USE DEF NodeInv
<1>1. net' = net /\ stage = "nd" /\ stage' = "nd"
  BY DEF WalkNode
<1>2. net \in NetworkType /\ AllClosed \subseteq Edges /\ Closed(net) = AllClosed
  BY EdgeSets DEF TypeOK
<1> DEFINE new(n) == {m \in Across(AllClosed, n) : ibs[m] = 0}
<1>3. PICK n \in todo :
        /\ ibs' = [m \in Nodes |-> IF m \in new(n) THEN nextbs ELSE ibs[m]]
        /\ todo' = (todo \ {n}) \cup new(n)
        /\ qndgrp' = qndgrp \cup net.q[n]
  BY <1>2 DEF WalkNode
<1> DEFINE New == new(n)
<1>4. n \in Nodes /\ ibs[n] = nextbs /\ nextbs < BsSize - 1
  BY <1>1, <1>3 DEF GroupInMaking
<1>5. nextbs \in Nat \ {0} /\ nextbs \notin bs_open
  BY TopologyAssumption DEF TypeOK, Buses, UsedBuses
<1>6. New \subseteq Nodes /\ n \notin New /\ \A m \in New : ibs[m] = 0
  BY <1>4, <1>5 DEF Across
<1>7. /\ \A m \in New : ibs'[m] = nextbs
      /\ \A m \in Nodes \ New : ibs'[m] = ibs[m]
      /\ todo' = (todo \ {n}) \cup New
  BY <1>3, <1>6
<1>8. New = {m \in Across(AllClosed, n) : ibs[m] = 0}
  OBVIOUS
<1> HIDE DEF new, New
<1>9. BusesJoined'
  <2> SUFFICES ASSUME NEW a \in Nodes, NEW b \in Nodes, ibs'[a] # 0, ibs'[a] = ibs'[b]
               PROVE  Joined(AllClosed, a, b)
    BY <1>1, JoinedSame DEF BusesJoined
  <2>1. ASSUME NEW c \in Nodes, ibs'[c] = nextbs PROVE Joined(AllClosed, n, c)
    <3>1. CASE c \in New
      BY <3>1, <1>2, <1>4, <1>8, AcrossJoined
    <3>2. CASE c \notin New
      BY <3>2, <2>1, <1>4, <1>5, <1>7 DEF BusesJoined
    <3>3. QED
      BY <3>1, <3>2
  <2>2. CASE ibs'[a] = nextbs
    BY <2>1, <2>2, <1>2, <1>4, JoinedSym, JoinedTrans
  <2>3. CASE ibs'[a] # nextbs
    BY <2>3, <1>7 DEF BusesJoined
  <2>4. QED
    BY <2>2, <2>3
<1>10. BusesClosed'
  <2> SUFFICES ASSUME NEW a \in Nodes, Walked(a)', NEW b \in Across(AllClosed, a)
               PROVE  ibs'[b] = ibs'[a]
    BY <1>1, JoinedSame DEF BusesClosed
  <2>1. a \notin todo' /\ ibs'[a] # 0 /\ a \notin New /\ ibs'[a] = ibs[a]
    BY <1>1, <1>7 DEF Walked
  <2>2. b \in Nodes /\ a \in Across(AllClosed, b)
    BY <1>2, AcrossJoined
  <2>3. CASE a = n
    <3>1. CASE ibs[b] = 0
      BY <2>1, <2>3, <3>1, <1>4, <1>7, <1>8
    <3>2. CASE ibs[b] # 0 /\ b \in todo
      BY <2>1, <2>2, <2>3, <3>2, <1>1, <1>4, <1>6, <1>7 DEF GroupInMaking
    <3>3. CASE ibs[b] # 0 /\ b \notin todo
      <4>1. ibs[a] = ibs[b]
        BY <2>2, <3>3 DEF BusesClosed, Walked
      <4>2. QED
        BY <4>1, <2>1, <2>2, <3>3, <1>6, <1>7
    <3>4. QED
      BY <3>1, <3>2, <3>3
  <2>4. CASE a # n
    <3>1. Walked(a)
      BY <2>1, <2>4, <1>7 DEF Walked
    <3>2. ibs[b] = ibs[a]
      BY <3>1 DEF BusesClosed
    <3>3. QED
      BY <3>2, <2>1, <2>2, <1>6, <1>7
  <2>5. QED
    BY <2>3, <2>4
<1>11. CASE todo' # {}
  <2>1. nextbs' = nextbs /\ bs_open' = bs_open
    BY <1>11 DEF WalkNode
  <2>2. GroupInMaking'
    BY <2>1, <1>1, <1>4, <1>6, <1>7, <1>11 DEF GroupInMaking
  <2>3. OpenWithoutSource'
    <3>1. ASSUME NEW m \in Nodes, ibs'[m] \in bs_open PROVE "ND_SO" \notin net.q[m]
      BY <3>1, <1>5, <1>7 DEF OpenWithoutSource
    <3>2. ASSUME NEW m \in Nodes, ibs'[m] = nextbs, m \notin todo' PROVE net.q[m] \subseteq qndgrp'
      BY <3>2, <1>1, <1>3, <1>7 DEF OpenWithoutSource
    <3>3. QED
      BY <3>1, <3>2, <2>1, <1>1 DEF OpenWithoutSource
  <2>4. QED
    BY <2>2, <2>3, <1>1, <1>9, <1>10 DEF NodesSortedInv, Sorted
<1>12. CASE todo' = {}
  <2>1. nextbs' = nextbs + 1
    BY <1>12 DEF WalkNode
  <2>2. \A m \in Nodes : ibs'[m] \in 0..nextbs
    BY <1>3, <1>5 DEF TypeOK
  <2>3. GroupInMaking'
    BY <2>1, <2>2, <1>5, <1>12 DEF GroupInMaking
  <2>4. OpenWithoutSource'
    <3>1. ASSUME NEW m \in Nodes, ibs'[m] \in bs_open' PROVE "ND_SO" \notin net.q[m]
      <4>1. CASE ibs'[m] \in bs_open
        BY <4>1, <1>5, <1>7 DEF OpenWithoutSource
      <4>2. CASE ibs'[m] \notin bs_open
        <5>1. ibs'[m] = nextbs /\ ~NotOpenBs(g_nbr', qndgrp')
          BY <4>2, <3>1, <1>12 DEF WalkNode
        <5>2. "ND_SO" \notin qndgrp'
          BY <5>1 DEF NotOpenBs
        <5>3. net.q[m] \subseteq qndgrp'
          BY <5>1, <1>1, <1>3, <1>7, <1>12 DEF OpenWithoutSource
        <5>4. QED
          BY <5>2, <5>3
      <4>3. QED
        BY <4>1, <4>2
    <3>2. \A m \in Nodes : ibs'[m] # nextbs'
      BY <2>1, <2>2, <1>5
    <3>3. QED
      BY <3>1, <3>2, <1>1 DEF OpenWithoutSource
  <2>5. QED
    BY <2>3, <2>4, <1>1, <1>9, <1>10 DEF NodesSortedInv, Sorted
<1>13. QED
  BY <1>11, <1>12

LEMMA NodesSortedNodeInv == TypeOK /\ NodeInv /\ NodesSorted => NodeInv'
<1> SUFFICES ASSUME TypeOK, NodeInv, NodesSorted PROVE NodeInv'
  OBVIOUS
<1> USE DEF NodeInv
<1>1. UNCHANGED <<net, ndVars, todo>> /\ stage = "nd" /\ stage' = "bs" /\ todo = {}
  BY DEF NodesSorted
<1>2. NodesSortedInv'
  <2>1. \A n \in Nodes : ibs[n] \in 0..nextbs /\ ibs[n] # 0 /\ ibs[n] # nextbs
    BY <1>1 DEF NodesSorted, GroupInMaking, Unprocessed, TypeOK
  <2>2. nextbs \in Nat
    BY TopologyAssumption DEF TypeOK, Buses
  <2>3. QED
    BY <1>1, <2>1, <2>2 DEF NodesSortedInv, UsedBuses, ndVars
<1>3. BusesJoined'
  BY <1>1, JoinedSame DEF BusesJoined, ndVars
<1>4. BusesClosed'
  BY <1>1, JoinedSame DEF BusesClosed, Walked, ndVars
<1>5. GroupInMaking' /\ OpenWithoutSource'
  BY <1>1 DEF GroupInMaking, OpenWithoutSource, ndVars
<1>6. QED
  BY <1>2, <1>3, <1>4, <1>5

LEMMA NextNodeInv == TypeOK /\ NodeInv /\ [Next]_vars => NodeInv'
<1> SUFFICES ASSUME TypeOK, NodeInv, [Next]_vars PROVE NodeInv'
  OBVIOUS
<1>1. CASE StartGroup \/ WalkNode \/ NodesSorted
  BY <1>1, StartGroupNodeInv, WalkNodeNodeInv, NodesSortedNodeInv
<1>2. CASE SkipSource \/ StartIsland \/ WalkBus \/ FinishIsland \/ MarkDead \/ CompStatus
  <2>1. /\ stage # "nd" /\ stage' # "nd" /\ (Sorted' => Sorted)
        /\ UNCHANGED <<net, ndVars>>
    BY <1>2 DEF SkipSource, StartIsland, WalkBus, FinishIsland, MarkDead, CompStatus, Sorted
  <2>2. QED
    BY <2>1, NodeInvFrame
<1>3. CASE UNCHANGED vars
  <2>1. UNCHANGED <<net, stage, todo, ibs, nextbs, qndgrp, bs_open>>
    BY <1>3 DEF vars, ndVars
  <2>2. BusesJoined' /\ BusesClosed'
    BY <2>1, JoinedSame DEF NodeInv, BusesJoined, BusesClosed, Walked
  <2>3. GroupInMaking' /\ OpenWithoutSource' /\ NodesSortedInv'
    BY <2>1 DEF NodeInv, GroupInMaking, OpenWithoutSource, NodesSortedInv, Sorted, UsedBuses
  <2>4. QED
    BY <2>2, <2>3 DEF NodeInv
<1>4. QED
  BY <1>1, <1>2, <1>3 DEF Next
-----------------------------------------------------------------------------
(* tp_bs_sort keeps BusInv *)

LEMMA NeighborsSymmetric ==
  ASSUME TypeOK, NEW b, NEW c \in Neighbors(b)
  PROVE  b \in Neighbors(c)
<1>1. PICK n \in BusNodes(b) : \E m \in Across(Branches(net), n) : ibs[m] = c
  BY DEF Neighbors
<1>2. PICK m \in Across(Branches(net), n) : ibs[m] = c
  BY <1>1
<1>3. Branches(net) \subseteq Edges /\ n \in Nodes /\ ibs[n] = b
  BY <1>1, EdgeSets DEF TypeOK, BusNodes, AllEdges
<1>4. m \in BusNodes(c) /\ n \in Across(Branches(net), m)
  BY <1>2, <1>3, AcrossJoined DEF BusNodes
<1>5. QED
  BY <1>3, <1>4 DEF Neighbors

\* The nodes of two neighbours are joined.
LEMMA NeighborsJoined ==
  ASSUME TypeOK, BusesJoined, NodesSortedInv, Sorted,
         NEW x \in Nodes, NEW y \in Nodes, ibs[y] \in Neighbors(ibs[x])
  PROVE  Joined(AllEdges, x, y)
<1>1. PICK n \in BusNodes(ibs[x]) : \E m \in Across(Branches(net), n) : ibs[m] = ibs[y]
  BY DEF Neighbors
<1>2. PICK m \in Across(Branches(net), n) : ibs[m] = ibs[y]
  BY <1>1
<1>3. /\ net \in NetworkType /\ AllClosed \subseteq AllEdges
      /\ Branches(net) \subseteq Edges /\ Branches(net) \subseteq AllEdges
  BY EdgeSets DEF TypeOK
<1>4. n \in Nodes /\ m \in Nodes /\ ibs[n] = ibs[x]
  BY <1>1, <1>2 DEF BusNodes, Across
<1>5. ibs[x] # 0 /\ ibs[y] # 0
  BY DEF NodesSortedInv, UsedBuses
<1>6. Joined(AllEdges, x, n) /\ Joined(AllEdges, m, y)
  BY <1>2, <1>3, <1>4, <1>5, JoinedMono DEF BusesJoined
<1>7. Joined(AllEdges, n, m)
  BY <1>2, <1>3, <1>4, AcrossJoined, JoinedMono
<1>8. QED
  BY <1>6, <1>7, JoinedTrans

\* While the nodes are sorted, there are no islands.
LEMMA BusInvFrame ==
  ASSUME TypeOK, BusInv, stage = "nd", UNCHANGED <<net, bsVars>>,
         stage' \in {"nd", "fail"} \/ (stage' = "bs" /\ todo' = {})
  PROVE  BusInv'
<1> USE DEF BusInv, bsVars
<1>1. chain = {} /\ processed = {} /\ source = 1 /\ Complete = {} /\ Complete' = {}
  BY DEF ChainInv, Complete
<1>2. ChainInv'
  BY <1>1 DEF ChainInv
<1>3. IslandNumbers'
  BY <1>1 DEF IslandNumbers
<1>4. IslandsClosed' /\ IslandsJoined'
  BY <1>1 DEF IslandsClosed, IslandsJoined
<1>5. SourcesInv'
  <2>1. net.so \in Seq(Nodes)
    BY DEF TypeOK, NetworkType
  <2>2. \A i \in DOMAIN net.so : ~(i < 1)
    BY <2>1
  <2>3. QED
    BY <2>2, <1>1 DEF SourcesInv
<1>6. FlagsInv'
  BY DEF FlagsInv
<1>7. QED
  BY <1>2, <1>3, <1>4, <1>5, <1>6

\* A topology that is given up owes nothing.
LEMMA FailedBusInv ==
  ASSUME stage' = "fail"
  PROVE  BusInv'
BY DEF BusInv, ChainInv, IslandNumbers, IslandsClosed, IslandsJoined, SourcesInv, FlagsInv, Sorted

LEMMA SkipSourceBusInv == TypeOK /\ NodeInv /\ BusInv /\ SkipSource => BusInv'
<1> SUFFICES ASSUME TypeOK, NodeInv, BusInv, SkipSource PROVE BusInv'
  OBVIOUS
<1> USE DEF BusInv, ndVars
<1>1. /\ stage = "bs" /\ chain = {} /\ source \in DOMAIN net.so /\ source' = source + 1
      /\ UNCHANGED <<net, stage, ndVars, todo, chain, processed, iisland, islands, topflags>>
  BY DEF SkipSource
<1>2. SourceBus \notin bs_open
  BY <1>1 DEF NodeInv, OpenWithoutSource, SourceBus, TypeOK, NetworkType
<1>3. /\ SourceBus \in processed
      /\ so_iisland' = [so_iisland EXCEPT ![source] = iisland[SourceBus]]
  BY <1>2 DEF SkipSource
<1>4. Complete' = Complete /\ SourceBus \in Complete
  BY <1>1, <1>3 DEF Complete
<1>5. ChainInv'
  BY <1>1 DEF ChainInv, UsedBuses
<1>6. IslandNumbers'
  BY <1>1, <1>4 DEF IslandNumbers
<1>7. IslandsClosed'
  BY <1>1, <1>4, NeighborsSame DEF IslandsClosed, Sorted
<1>8. IslandsJoined'
  BY <1>1, <1>4, JoinedSame DEF IslandsJoined, Sorted
<1>9. SourcesInv'
  <2>1. DOMAIN net.so \subseteq Nat /\ source \in Nat
    BY DEF TypeOK, NetworkType
  <2>2. so_iisland'[source] = iisland[SourceBus]
        /\ \A i \in DOMAIN net.so : i # source => so_iisland'[i] = so_iisland[i]
    BY <1>1, <1>3 DEF TypeOK
  <2>3. ASSUME NEW i \in DOMAIN net.so, i < source'
        PROVE  ibs[net.so[i]] \in Complete /\ so_iisland'[i] = iisland[ibs[net.so[i]]]
    <3>1. CASE i = source
      BY <3>1, <1>4, <2>2 DEF SourceBus
    <3>2. CASE i # source
      <4>1. i < source
        BY <3>2, <2>1, <2>3, <1>1
      <4>2. QED
        BY <4>1, <3>2, <2>2, <1>1 DEF SourcesInv, Sorted
    <3>3. QED
      BY <3>1, <3>2
  <2>4. \A i \in DOMAIN net.so : i < source => i < source'
    BY <1>1, <2>1
  <2>5. QED
    BY <1>1, <1>4, <2>3, <2>4 DEF SourcesInv, Sorted
<1>10. FlagsInv'
  BY <1>1 DEF FlagsInv
<1>11. QED
  BY <1>5, <1>6, <1>7, <1>8, <1>9, <1>10

LEMMA StartIslandBusInv == TypeOK /\ NodeInv /\ BusInv /\ StartIsland => BusInv'
<1> SUFFICES ASSUME TypeOK, NodeInv, BusInv, StartIsland PROVE BusInv'
  OBVIOUS
<1> USE DEF BusInv, ndVars
<1>1. /\ stage = "bs" /\ chain = {} /\ source \in DOMAIN net.so
      /\ SourceBus \notin processed
      /\ chain' = {SourceBus} /\ todo' = {SourceBus}
      /\ processed' = processed \cup {SourceBus}
      /\ UNCHANGED <<net, stage, ndVars, source, iisland, islands, so_iisland, topflags>>
  BY DEF StartIsland
<1>2. Complete' = Complete
  BY <1>1 DEF Complete
<1>3. SourceBus \in UsedBuses /\ SourceBus' = SourceBus /\ UsedBuses' = UsedBuses
  BY <1>1, SourceBusType DEF NodeInv, Sorted, SourceBus, UsedBuses
<1>4. ChainInv'
  BY <1>1, <1>3 DEF ChainInv
<1>5. IslandNumbers'
  BY <1>1, <1>2 DEF IslandNumbers
<1>6. IslandsClosed'
  BY <1>1, <1>2, NeighborsSame DEF IslandsClosed, Sorted
<1>7. IslandsJoined'
  <2>1. ASSUME NEW a \in Nodes, NEW b \in Nodes, ibs[a] = SourceBus, ibs[b] = SourceBus
        PROVE  Joined(AllEdges, a, b)
    <3>1. ibs[a] # 0
      BY <1>3, <2>1 DEF UsedBuses
    <3>2. Joined(AllClosed, a, b) /\ AllClosed \subseteq AllEdges
      BY <2>1, <3>1 DEF NodeInv, BusesJoined, AllEdges
    <3>3. QED
      BY <3>2, JoinedMono
  <2>2. QED
    BY <1>1, <1>2, <2>1, JoinedSame DEF IslandsJoined, Sorted
<1>8. SourcesInv'
  BY <1>1, <1>2 DEF SourcesInv, Sorted
<1>9. FlagsInv'
  BY <1>1 DEF FlagsInv
<1>10. QED
  BY <1>4, <1>5, <1>6, <1>7, <1>8, <1>9

LEMMA WalkBusBusInv == TypeOK /\ NodeInv /\ BusInv /\ WalkBus => BusInv'
<1> SUFFICES ASSUME TypeOK, NodeInv, BusInv, WalkBus, stage' # "fail" PROVE BusInv'
  BY FailedBusInv
<1> USE DEF BusInv, ndVars
<1>1. PICK b \in todo :
         /\ todo' = (todo \ {b}) \cup (Neighbors(b) \ processed)
         /\ chain' = chain \cup (Neighbors(b) \ processed)
         /\ processed' = processed \cup (Neighbors(b) \ processed)
         /\ stage' = stage
  BY DEF WalkBus
<1> DEFINE New == Neighbors(b) \ processed
<1>2. /\ stage = "bs" /\ Sorted /\ Sorted'
      /\ UNCHANGED <<net, ndVars, source, iisland, islands, so_iisland, topflags>>
  BY <1>1 DEF WalkBus, Sorted
<1>3. todo \subseteq chain /\ chain \subseteq processed /\ processed \subseteq UsedBuses
  BY <1>2 DEF ChainInv
<1>4. b \in chain /\ Complete' = Complete /\ Complete \cap chain' = {}
  BY <1>1, <1>3 DEF Complete
<1>5. New \subseteq UsedBuses
  BY <1>2, NeighborsType DEF NodeInv
<1>6. ChainInv'
  BY <1>1, <1>2, <1>3, <1>5 DEF ChainInv, UsedBuses, SourceBus
<1>7. IslandNumbers'
  BY <1>2, <1>4 DEF IslandNumbers
<1>8. IslandsClosed'
  <2>1. Neighbors(b) \subseteq chain'
    <3>1. ASSUME NEW c \in Neighbors(b), c \in Complete PROVE FALSE
      <4>1. b \in Neighbors(c)
        BY NeighborsSymmetric
      <4>2. b \in Complete
        BY <3>1, <4>1, <1>2 DEF IslandsClosed
      <4>3. QED
        BY <4>2, <1>4 DEF Complete
    <3>2. QED
      BY <3>1, <1>1 DEF Complete
  <2>2. ASSUME NEW c \in chain', c \notin todo' PROVE Neighbors(c) \subseteq chain'
    <3>1. CASE c = b
      BY <2>1, <3>1
    <3>2. CASE c # b
      <4>1. c \in chain /\ c \notin todo
        BY <1>1, <2>2, <3>2
      <4>2. QED
        BY <4>1, <1>1, <1>2 DEF IslandsClosed
    <3>3. QED
      BY <3>1, <3>2
  <2>3. \A c \in Complete : \A d \in Neighbors(c) : d \in Complete /\ iisland[d] = iisland[c]
    BY <1>2 DEF IslandsClosed
  <2>4. \A c : Neighbors(c)' = Neighbors(c)
    BY <1>2, NeighborsSame
  <2>5. QED
    BY <2>2, <2>3, <2>4, <1>1, <1>2, <1>4 DEF IslandsClosed
<1>9. IslandsJoined'
  <2>1. ASSUME NEW x \in Nodes, ibs[x] \in chain'
        PROVE  \E y \in Nodes : ibs[y] \in chain /\ Joined(AllEdges, y, x)
    <3>1. CASE ibs[x] \in chain
      BY <3>1, JoinedRefl
    <3>2. CASE ibs[x] \notin chain
      <4>1. ibs[x] \in Neighbors(b)
        BY <1>1, <2>1, <3>2
      <4>2. PICK y \in Nodes : ibs[y] = b
        BY <4>1 DEF Neighbors, BusNodes
      <4>3. Joined(AllEdges, y, x)
        BY <4>1, <4>2, <1>2, NeighborsJoined DEF NodeInv
      <4>4. QED
        BY <4>2, <4>3, <1>4
    <3>3. QED
      BY <3>1, <3>2
  <2>2. AllEdges \in SUBSET Edges
    BY EdgeSets DEF TypeOK
  <2>3. ASSUME NEW x \in Nodes, NEW z \in Nodes, ibs[x] \in chain', ibs[z] \in chain'
        PROVE  Joined(AllEdges, x, z)
    <3>1. PICK u \in Nodes : ibs[u] \in chain /\ Joined(AllEdges, u, x)
      BY <2>1, <2>3
    <3>2. PICK v \in Nodes : ibs[v] \in chain /\ Joined(AllEdges, v, z)
      BY <2>1, <2>3
    <3>3. Joined(AllEdges, u, v)
      BY <3>1, <3>2, <1>2 DEF IslandsJoined
    <3>4. Joined(AllEdges, x, u)
      BY <3>1, <2>2, JoinedSym
    <3>5. QED
      BY <3>2, <3>3, <3>4, JoinedTrans
  <2>4. QED
    BY <2>3, <1>2, <1>4, JoinedSame DEF IslandsJoined
<1>10. SourcesInv'
  BY <1>2, <1>4 DEF SourcesInv
<1>11. FlagsInv'
  BY <1>1, <1>2 DEF FlagsInv
<1>12. QED
  BY <1>6, <1>7, <1>8, <1>9, <1>10, <1>11

LEMMA FinishIslandBusInv == TypeOK /\ NodeInv /\ BusInv /\ FinishIsland => BusInv'
<1> SUFFICES ASSUME TypeOK, NodeInv, BusInv, FinishIsland, stage' # "fail" PROVE BusInv'
  BY FailedBusInv
<1> USE DEF BusInv, ndVars
<1>1. /\ stage = "bs" /\ stage' = "bs" /\ Sorted /\ Sorted' /\ chain # {} /\ todo = {}
      /\ iisland' = [b \in Buses |-> IF b \in chain THEN islands ELSE iisland[b]]
      /\ so_iisland' = [so_iisland EXCEPT ![source] = islands]
      /\ islands' = islands + 1
      /\ chain' = {}
      /\ source' = source + 1
      /\ UNCHANGED <<net, ndVars, todo, processed, topflags>>
  BY DEF FinishIsland, Sorted
<1>2. /\ chain \subseteq processed /\ processed \subseteq UsedBuses /\ UsedBuses \subseteq Buses
      /\ source \in DOMAIN net.so /\ SourceBus \in chain
  BY <1>1, UsedBusesType DEF ChainInv
<1>3. Complete' = Complete \cup chain /\ Complete \cap chain = {} /\ Complete' \subseteq Buses
  BY <1>1, <1>2 DEF Complete
<1>4. /\ \A b \in chain : iisland'[b] = islands
      /\ \A b \in Buses \ chain : iisland'[b] = iisland[b]
  BY <1>1, <1>2
<1>5. islands \in Nat /\ \A b \in Complete : iisland[b] \in 0 .. islands - 1
  BY <1>1, <1>2, TopologyAssumption DEF TypeOK, IslandNumbers, Complete
<1>6. \A b \in Complete : iisland'[b] = iisland[b] /\ iisland[b] # islands
  BY <1>3, <1>4, <1>5
<1>7. ChainInv'
  BY <1>1, <1>2 DEF ChainInv, UsedBuses
<1>8. IslandNumbers'
  <2>1. ASSUME NEW b \in Complete' PROVE iisland'[b] \in 0 .. islands
    BY <1>3, <1>4, <1>5, <1>6
  <2>2. ASSUME NEW b \in Buses, b \notin Complete' PROVE iisland'[b] < 0
    BY <2>2, <1>1, <1>3, <1>4 DEF IslandNumbers
  <2>3. islands' - 1 = islands
    BY <1>1, <1>5
  <2>4. QED
    BY <2>1, <2>2, <2>3 DEF IslandNumbers
<1>9. IslandsClosed'
  <2>1. ASSUME NEW b \in Complete', NEW c \in Neighbors(b)
        PROVE  c \in Complete' /\ iisland'[c] = iisland'[b]
    <3>1. CASE b \in Complete
      BY <3>1, <2>1, <1>1, <1>3, <1>6 DEF IslandsClosed
    <3>2. CASE b \in chain
      BY <3>2, <2>1, <1>1, <1>3, <1>4 DEF IslandsClosed
    <3>3. QED
      BY <3>1, <3>2, <1>3
  <2>2. QED
    BY <2>1, <1>1, NeighborsSame DEF IslandsClosed
<1>10. IslandsJoined'
  <2>1. ASSUME NEW x \in Nodes, NEW z \in Nodes, ibs[x] \in Complete', ibs[z] \in Complete',
               iisland'[ibs[x]] = iisland'[ibs[z]]
        PROVE  Joined(AllEdges, x, z)
    <3>1. \/ ibs[x] \in Complete /\ ibs[z] \in Complete
          \/ ibs[x] \in chain /\ ibs[z] \in chain
      BY <2>1, <1>3, <1>4, <1>6
    <3>2. QED
      BY <3>1, <2>1, <1>1, <1>6 DEF IslandsJoined
  <2>2. QED
    BY <2>1, <1>1, JoinedSame DEF IslandsJoined
<1>11. SourcesInv'
  <2>1. DOMAIN net.so \subseteq Nat /\ source \in Nat
    BY DEF TypeOK, NetworkType
  <2>2. so_iisland'[source] = islands
        /\ \A i \in DOMAIN net.so : i # source => so_iisland'[i] = so_iisland[i]
    BY <1>1, <1>2 DEF TypeOK
  <2>3. \A i \in DOMAIN net.so : i < source' <=> i < source \/ i = source
    BY <2>1, <1>1
  <2>4. \A i \in DOMAIN net.so : i < source => i # source
    BY <2>1
  <2>5. ASSUME NEW i \in DOMAIN net.so, i < source'
        PROVE  ibs[net.so[i]] \in Complete' /\ so_iisland'[i] = iisland'[ibs[net.so[i]]]
    <3>1. CASE i = source
      BY <3>1, <2>2, <1>2, <1>3, <1>4 DEF SourceBus
    <3>2. CASE i < source
      BY <3>2, <2>2, <2>4, <1>1, <1>3, <1>6 DEF SourcesInv
    <3>3. QED
      BY <3>1, <3>2, <2>3, <2>5
  <2>6. ASSUME NEW b \in Complete'
        PROVE  \E i \in DOMAIN net.so : /\ i < source'
                                        /\ ibs[net.so[i]] \in Complete'
                                        /\ iisland'[ibs[net.so[i]]] = iisland'[b]
    <3>1. CASE b \in Complete
      <4>1. PICK i \in DOMAIN net.so : /\ i < source
                                       /\ ibs[net.so[i]] \in Complete
                                       /\ iisland[ibs[net.so[i]]] = iisland[b]
        BY <3>1, <1>1 DEF SourcesInv
      <4>2. QED
        BY <4>1, <3>1, <2>3, <1>3, <1>6
    <3>2. CASE b \in chain
      BY <3>2, <2>3, <1>2, <1>3, <1>4 DEF SourceBus
    <3>3. QED
      BY <3>1, <3>2, <1>3
  <2>7. QED
    BY <2>5, <2>6, <1>1 DEF SourcesInv
<1>12. FlagsInv'
  BY <1>1 DEF FlagsInv
<1>13. QED
  BY <1>7, <1>8, <1>9, <1>10, <1>11, <1>12

LEMMA MarkDeadBusInv == TypeOK /\ NodeInv /\ BusInv /\ MarkDead => BusInv'
<1> SUFFICES ASSUME TypeOK, NodeInv, BusInv, MarkDead PROVE BusInv'
  OBVIOUS
<1> USE DEF BusInv, ndVars
<1>1. /\ stage = "bs" /\ stage' = "comp" /\ Sorted /\ Sorted' /\ chain = {} /\ chain' = {}
      /\ source \notin DOMAIN net.so
      /\ iisland' = [b \in Buses |-> IF b \in UsedBuses \ processed THEN -1 ELSE iisland[b]]
      /\ UNCHANGED <<net, ndVars, source, processed, islands, so_iisland>>
  BY DEF MarkDead, Sorted
<1>2. Complete' = Complete /\ Complete \subseteq processed /\ Complete \subseteq Buses
  BY <1>1, UsedBusesType DEF Complete, ChainInv
<1>3. \A b \in Complete : iisland'[b] = iisland[b]
  BY <1>1, <1>2
<1>4. ChainInv'
  BY <1>1 DEF ChainInv, UsedBuses
<1>5. IslandNumbers'
  BY <1>1, <1>2, <1>3 DEF IslandNumbers
<1>6. IslandsClosed'
  BY <1>1, <1>2, <1>3, NeighborsSame DEF IslandsClosed
<1>7. IslandsJoined'
  BY <1>1, <1>2, <1>3, JoinedSame DEF IslandsJoined
<1>8. SourcesInv'
  BY <1>1, <1>2, <1>3 DEF SourcesInv
<1>9. FlagsInv'
  BY <1>1 DEF FlagsInv
<1>10. QED
  BY <1>4, <1>5, <1>6, <1>7, <1>8, <1>9

LEMMA CompStatusBusInv == TypeOK /\ NodeInv /\ BusInv /\ CompStatus => BusInv'
<1> SUFFICES ASSUME TypeOK, NodeInv, BusInv, CompStatus, stage' # "fail" PROVE BusInv'
  BY FailedBusInv
<1> USE DEF BusInv, ndVars, bsVars
<1>1. /\ stage = "comp" /\ stage' = "done" /\ Sorted /\ Sorted'
      /\ topflags'.dead = {e \in Branches(net) : \A n \in Ends(e) : iisland[ibs[n]] < 0}
      /\ UNCHANGED <<net, ndVars, todo, bsVars>>
  BY DEF CompStatus, Sorted
<1>2. Complete' = Complete
  BY <1>1 DEF Complete
<1>3. ChainInv'
  BY <1>1 DEF ChainInv, UsedBuses
<1>4. IslandNumbers'
  BY <1>1, <1>2 DEF IslandNumbers
<1>5. IslandsClosed'
  BY <1>1, <1>2, NeighborsSame DEF IslandsClosed, ChainInv
<1>6. IslandsJoined'
  BY <1>1, <1>2, JoinedSame DEF IslandsJoined
<1>7. SourcesInv'
  BY <1>1, <1>2 DEF SourcesInv
<1>8. FlagsInv'
  BY <1>1 DEF FlagsInv, Branches
<1>9. QED
  BY <1>3, <1>4, <1>5, <1>6, <1>7, <1>8

LEMMA NextBusInv == TypeOK /\ NodeInv /\ BusInv /\ [Next]_vars => BusInv'
<1> SUFFICES ASSUME TypeOK, NodeInv, BusInv, [Next]_vars PROVE BusInv'
  OBVIOUS
<1>1. CASE StartGroup \/ WalkNode \/ NodesSorted
  <2>1. /\ UNCHANGED <<net, bsVars>> /\ stage = "nd"
        /\ stage' \in {"nd", "fail"} \/ (stage' = "bs" /\ todo' = {})
    <3>1. CASE StartGroup
      <4>1. stage = "nd" /\ stage' \in {"nd", "fail"} /\ UNCHANGED <<net, bsVars>>
        BY <3>1 DEF StartGroup
      <4>2. QED
        BY <4>1
    <3>2. CASE WalkNode
      <4>1. stage = "nd" /\ stage' = stage /\ UNCHANGED <<net, bsVars>>
        BY <3>2 DEF WalkNode
      <4>2. QED
        BY <4>1
    <3>3. CASE NodesSorted
      BY <3>3 DEF NodesSorted
    <3>4. QED
      BY <1>1, <3>1, <3>2, <3>3
  <2>2. QED
    BY <2>1, BusInvFrame
<1>2. CASE SkipSource \/ StartIsland \/ WalkBus \/ FinishIsland \/ MarkDead \/ CompStatus
  BY <1>2, SkipSourceBusInv, StartIslandBusInv, WalkBusBusInv, FinishIslandBusInv,
     MarkDeadBusInv, CompStatusBusInv
<1>3. CASE UNCHANGED vars
  <2> USE DEF BusInv
  <2>1. UNCHANGED <<net, stage, todo, source, chain, processed, iisland, islands, so_iisland,
                    topflags, ibs, nextbs>>
    BY <1>3 DEF vars, ndVars, bsVars
  <2>2. Complete' = Complete /\ Sorted' = Sorted /\ SourceBus' = SourceBus /\ UsedBuses' = UsedBuses
    BY <2>1 DEF Complete, Sorted, SourceBus, UsedBuses
  <2>3. ChainInv' /\ IslandNumbers'
    BY <2>1, <2>2 DEF ChainInv, IslandNumbers
  <2>4. IslandsClosed' /\ IslandsJoined'
    BY <2>1, <2>2, NeighborsSame, JoinedSame DEF IslandsClosed, IslandsJoined
  <2>5. SourcesInv' /\ FlagsInv'
    BY <2>1, <2>2, JoinedSame DEF SourcesInv, FlagsInv
  <2>6. QED
    BY <2>3, <2>4, <2>5
<1>4. QED
  BY <1>1, <1>2, <1>3 DEF Next

-----------------------------------------------------------------------------
(* What the invariant says of the result *)

IInv == TypeOK /\ NodeInv /\ BusInv

LEMMA InitIInv == Init => IInv
<1> SUFFICES ASSUME Init PROVE IInv
  OBVIOUS
<1>1. TypeOK
  BY InitTypeOK
<1>2. /\ stage = "nd" /\ todo = {} /\ nextbs = 1 /\ bs_open = {} /\ chain = {} /\ processed = {}
      /\ source = 1 /\ ibs = [n \in Nodes |-> 0] /\ iisland = [b \in Buses |-> -2]
  BY DEF Init
<1>3. BusesJoined /\ BusesClosed
  BY <1>2 DEF BusesJoined, BusesClosed, Walked
<1>4. GroupInMaking /\ OpenWithoutSource /\ NodesSortedInv
  BY <1>2 DEF GroupInMaking, OpenWithoutSource, NodesSortedInv, Sorted
<1>5. ChainInv /\ IslandNumbers
  BY <1>2 DEF ChainInv, IslandNumbers, Complete
<1>6. IslandsClosed /\ IslandsJoined /\ SourcesInv /\ FlagsInv
  BY <1>2 DEF IslandsClosed, IslandsJoined, SourcesInv, FlagsInv, Sorted
<1>7. QED
  BY <1>1, <1>3, <1>4, <1>5, <1>6 DEF IInv, NodeInv, BusInv

LEMMA NextIInv == IInv /\ [Next]_vars => IInv'
BY NextTypeOK, NextNodeInv, NextBusInv DEF IInv, NodeInv

LEMMA Invariance == Spec => []IInv
BY InitIInv, NextIInv, PTL DEF Spec

\* The nodes of a bus that is not in the making are a part that no closed breaker
\* leaves.
LEMMA BusPart ==
  ASSUME TypeOK, NodeInv, stage = "nd" => todo = {},
         NEW a \in Nodes, NEW b \in Nodes, ibs[a] # 0, Joined(AllClosed, a, b)
  PROVE  ibs[b] = ibs[a]
<1> DEFINE part == {n \in Nodes : ibs[n] = ibs[a]}
<1>1. \A n \in part : Across(AllClosed, n) \subseteq part
  BY DEF NodeInv, BusesClosed, Walked, Across
<1>2. AllClosed \in SUBSET Edges
  BY EdgeSets DEF TypeOK
<1>3. \A e \in AllClosed : e.ind \in part <=> e.iznd \in part
  BY <1>1, <1>2, ClosedPart
<1>4. a \in part /\ part \in SUBSET Nodes
  OBVIOUS
<1>5. b \in part
  BY <1>3, <1>4 DEF Joined
<1>6. QED
  BY <1>5

LEMMA IInvBuses == IInv => BusesAreComponents
<1> SUFFICES ASSUME IInv, Sorted, NEW a \in Nodes, NEW b \in Nodes
             PROVE  ibs[a] = ibs[b] <=> Joined(AllClosed, a, b)
  BY DEF BusesAreComponents, Sorted
<1>1. \A n \in Nodes : ibs[n] # 0
  BY DEF IInv, NodeInv, NodesSortedInv, UsedBuses
<1>2. ASSUME ibs[a] = ibs[b] PROVE Joined(AllClosed, a, b)
  BY <1>1, <1>2 DEF IInv, NodeInv, BusesJoined
<1>3. ASSUME Joined(AllClosed, a, b) PROVE ibs[a] = ibs[b]
  BY <1>1, <1>3, BusPart DEF IInv, Sorted
<1>4. QED
  BY <1>2, <1>3

\* Nothing leads out of the complete islands, nor out of one of them.
LEMMA IInvParts ==
  ASSUME IInv, Sorted
  PROVE  /\ \A n \in Nodes : ibs[n] \in Buses /\ (iisland[ibs[n]] >= 0 <=> ibs[n] \in Complete)
         /\ \A n \in Nodes : ibs[n] \in Complete =>
              \A m \in Across(AllEdges, n) :
                ibs[m] \in Complete /\ iisland[ibs[m]] = iisland[ibs[n]]
<1> USE DEF IInv, NodeInv, BusInv
<1>1. UsedBuses \subseteq Buses
  BY UsedBusesType
<1>2. ASSUME NEW n \in Nodes
      PROVE  ibs[n] \in Buses /\ (iisland[ibs[n]] >= 0 <=> ibs[n] \in Complete)
  <2>1. ibs[n] \in Buses /\ ibs[n] # 0
    BY <1>1 DEF NodesSortedInv, UsedBuses
  <2>2. iisland[ibs[n]] \in Int /\ islands \in Nat
    BY <2>1, TopologyAssumption DEF TypeOK
  <2>3. IF ibs[n] \in Complete THEN iisland[ibs[n]] \in 0 .. islands - 1 ELSE iisland[ibs[n]] < 0
    BY <2>1 DEF IslandNumbers, Sorted
  <2>4. QED
    BY <2>1, <2>2, <2>3
<1>3. ASSUME NEW n \in Nodes, ibs[n] \in Complete, NEW m \in Across(AllEdges, n)
      PROVE  ibs[m] \in Complete /\ iisland[ibs[m]] = iisland[ibs[n]]
  <2>1. m \in Across(AllClosed, n) \/ m \in Across(Branches(net), n)
    BY DEF AllEdges, Branches, Across, At
  <2>2. CASE m \in Across(AllClosed, n)
    <3>1. Walked(n)
      BY <1>1 DEF Walked, NodesSortedInv, UsedBuses, Sorted
    <3>2. QED
      BY <2>2, <3>1, <1>3 DEF BusesClosed
  <2>3. CASE m \in Across(Branches(net), n)
    <3>1. ibs[m] \in Neighbors(ibs[n])
      BY <2>3 DEF Neighbors, BusNodes
    <3>2. QED
      BY <3>1, <1>1, <1>3 DEF IslandsClosed
  <2>4. QED
    BY <2>1, <2>2, <2>3
<1>4. QED
  BY <1>2, <1>3

\* What is joined to a node on an island is on that island.
LEMMA IslandPart ==
  ASSUME IInv, Sorted, NEW a \in Nodes, NEW b \in Nodes,
         ibs[a] \in Complete, Joined(AllEdges, a, b)
  PROVE  ibs[b] \in Complete /\ iisland[ibs[b]] = iisland[ibs[a]]
<1> DEFINE part == {n \in Nodes : ibs[n] \in Complete /\ iisland[ibs[n]] = iisland[ibs[a]]}
<1>1. \A n \in part : Across(AllEdges, n) \subseteq part
  BY IInvParts DEF Across
<1>2. AllEdges \in SUBSET Edges
  BY EdgeSets DEF IInv, TypeOK
<1>3. \A e \in AllEdges : e.ind \in part <=> e.iznd \in part
  BY <1>1, <1>2, ClosedPart
<1>4. a \in part /\ part \in SUBSET Nodes
  OBVIOUS
<1>5. b \in part
  BY <1>3, <1>4 DEF Joined
<1>6. QED
  BY <1>5

\* Every source was taken.
LEMMA AllSources ==
  ASSUME IInv, stage = "done"
  PROVE  \A i \in DOMAIN net.so : /\ net.so[i] \in Nodes
                                  /\ ibs[net.so[i]] \in Complete
                                  /\ so_iisland[i] = iisland[ibs[net.so[i]]]
<1> TAKE i \in DOMAIN net.so
<1> USE DEF IInv, BusInv
<1>1. net.so \in Seq(Nodes) /\ source \in Nat \ {0}
  BY DEF TypeOK, NetworkType
<1>2. source \notin DOMAIN net.so
  BY DEF ChainInv
<1>3. i < source
  BY <1>1, <1>2
<1>4. QED
  BY <1>1, <1>3 DEF SourcesInv, Sorted

LEMMA IInvIslands == IInv => IslandsAreComponents
<1> SUFFICES ASSUME IInv, stage = "done", NEW a \in Nodes, NEW b \in Nodes,
                    iisland[ibs[a]] >= 0, iisland[ibs[b]] >= 0
             PROVE  iisland[ibs[a]] = iisland[ibs[b]] <=> Joined(AllEdges, a, b)
  BY DEF IslandsAreComponents
<1>1. ibs[a] \in Complete /\ ibs[b] \in Complete
  BY IInvParts DEF Sorted
<1>2. iisland[ibs[a]] = iisland[ibs[b]] => Joined(AllEdges, a, b)
  BY <1>1 DEF IInv, BusInv, IslandsJoined, Sorted
<1>3. QED
  BY <1>1, <1>2, IslandPart DEF Sorted

LEMMA IInvEnergised == IInv => EnergisedFromSource
<1> SUFFICES ASSUME IInv, stage = "done" PROVE EnergisedFromSource
  BY DEF EnergisedFromSource
<1> DEFINE Fed(n) == \E i \in DOMAIN net.so : Joined(AllEdges, n, net.so[i])
<1>1. AllEdges \in SUBSET Edges /\ Branches(net) \subseteq AllEdges
  BY EdgeSets DEF IInv, TypeOK
<1>2. ASSUME NEW n \in Nodes PROVE ibs[n] \in Complete <=> Fed(n)
  <2>1. ASSUME ibs[n] \in Complete PROVE Fed(n)
    <3>1. PICK i \in DOMAIN net.so : /\ ibs[net.so[i]] \in Complete
                                     /\ iisland[ibs[net.so[i]]] = iisland[ibs[n]]
      BY <2>1 DEF IInv, BusInv, SourcesInv, Sorted
    <3>2. Joined(AllEdges, n, net.so[i])
      BY <2>1, <3>1, AllSources DEF IInv, BusInv, IslandsJoined, Sorted
    <3>3. QED
      BY <3>2
  <2>2. ASSUME Fed(n) PROVE ibs[n] \in Complete
    <3>1. PICK i \in DOMAIN net.so : Joined(AllEdges, n, net.so[i])
      BY <2>2
    <3>2. net.so[i] \in Nodes /\ ibs[net.so[i]] \in Complete
      BY AllSources
    <3>3. Joined(AllEdges, net.so[i], n)
      BY <3>1, <3>2, <1>1, JoinedSym
    <3>4. QED
      BY <3>2, <3>3, IslandPart DEF Sorted
  <2>3. QED
    BY <2>1, <2>2
<1>3. ASSUME NEW n \in Nodes PROVE iisland[ibs[n]] >= 0 <=> Fed(n)
  BY <1>2, IInvParts DEF Sorted
<1>4. ASSUME NEW e \in net.sec \cup net.xf PROVE e \in topflags.dead <=> ~Fed(e.ind)
  <2>1. e \in Branches(net) /\ e \in AllEdges /\ e \in Edges
    BY <1>1 DEF Branches
  <2>2. e.ind \in Nodes /\ e.iznd \in Nodes /\ e.iznd \in Across(AllEdges, e.ind)
        /\ e.ind \in Across(AllEdges, e.iznd)
    BY <2>1 DEF Edges, Across, At, Ends
  <2>3. ibs[e.ind] \in Complete <=> ibs[e.iznd] \in Complete
    BY <2>2, IInvParts DEF Sorted
  <2>4. /\ iisland[ibs[e.ind]] < 0 <=> ibs[e.ind] \notin Complete
        /\ iisland[ibs[e.iznd]] < 0 <=> ibs[e.iznd] \notin Complete
    <3>1. iisland[ibs[e.ind]] \in Int /\ iisland[ibs[e.iznd]] \in Int
      BY <2>2, IInvParts DEF IInv, TypeOK, Sorted
    <3>2. QED
      BY <2>2, <3>1, IInvParts DEF Sorted
  <2>5. e \in topflags.dead <=> \A n \in Ends(e) : iisland[ibs[n]] < 0
    BY <2>1 DEF IInv, BusInv, FlagsInv
  <2>6. e \in topflags.dead <=> ibs[e.ind] \notin Complete
    BY <2>3, <2>4, <2>5 DEF Ends
  <2>7. QED
    BY <2>2, <2>6, <1>2
<1>5. QED
  BY <1>3, <1>4 DEF EnergisedFromSource

LEMMA IInvSources == IInv => SourcesOnIslands
BY AllSources, IInvParts DEF SourcesOnIslands, Sorted

-----------------------------------------------------------------------------
(* When the topology is given up *)

\* Every bus that was given out has a node, and every island a bus: what is counted
\* was used.
UsedInv ==
  /\ \A b \in UsedBuses : \E n \in Nodes : ibs[n] = b
  /\ \A k \in 0 .. islands - 1 : \E b \in Complete : iisland[b] = k

LEMMA InitUsed == Init => UsedInv
BY DEF Init, UsedInv, UsedBuses

LEMMA NextUsed == IInv /\ UsedInv /\ [Next]_vars => UsedInv'
<1> SUFFICES ASSUME IInv, UsedInv, [Next]_vars PROVE UsedInv'
  OBVIOUS
<1>1. /\ nextbs \in Nat /\ islands \in Nat /\ ibs \in [Nodes -> Nat]
      /\ iisland \in [Buses -> Int] /\ chain \subseteq Buses /\ processed \subseteq Buses
  <2>1. TypeOK
    BY DEF IInv
  <2>2. nextbs \in Nat /\ islands \in Nat
    BY <2>1, TopologyAssumption DEF TypeOK, Buses
  <2>3. ibs \in [Nodes -> Nat]
    BY <2>1, <2>2 DEF TypeOK
  <2>4. iisland \in [Buses -> Int]
    BY <2>1, <2>2 DEF TypeOK
  <2>5. QED
    BY <2>1, <2>2, <2>3, <2>4 DEF TypeOK
<1>2. CASE StartGroup
  <2>1. UNCHANGED <<nextbs, islands, iisland, chain, processed>>
    BY <1>2 DEF StartGroup, bsVars
  <2>2. \A n \in Nodes : ibs[n] # 0 => ibs'[n] = ibs[n]
    BY <1>1, <1>2 DEF StartGroup, Unprocessed
  <2>3. QED
    BY <1>1, <2>1, <2>2 DEF UsedInv, UsedBuses, Complete
<1>3. CASE WalkNode
  <2>1. stage = "nd" /\ UNCHANGED <<islands, iisland, chain, processed>>
    BY <1>3 DEF WalkNode, bsVars
  <2>2. todo # {} /\ nextbs' \in {nextbs, nextbs + 1}
    BY <1>3 DEF WalkNode
  <2>3. \A n \in Nodes : ibs[n] # 0 => ibs'[n] = ibs[n]
    BY <1>3 DEF WalkNode
  <2>4. PICK m \in Nodes : ibs[m] = nextbs
    BY <2>1, <2>2 DEF IInv, NodeInv, GroupInMaking
  <2>5. nextbs # 0
    BY DEF IInv, TypeOK, Buses
  <2>6. \A b \in UsedBuses' : b \in UsedBuses \/ b = nextbs
    <3>1. \A y \in {nextbs, nextbs + 1} : \A b \in 1 .. y - 1 : b \in 1 .. nextbs - 1 \/ b = nextbs
      <4>1. SUFFICES ASSUME NEW y \in {nextbs, nextbs + 1}, NEW b \in 1 .. y - 1, b # nextbs
                     PROVE  b \in 1 .. nextbs - 1
        OBVIOUS
      <4>2. y \in Nat /\ y <= nextbs + 1
        BY <1>1
      <4>3. b \in Nat /\ 1 <= b /\ b < y
        BY <4>2
      <4>4. b <= nextbs - 1
        BY <1>1, <4>1, <4>2, <4>3
      <4>5. QED
        BY <1>1, <4>3, <4>4
    <3>2. QED
      BY <2>2, <3>1 DEF UsedBuses
  <2>7. \A b \in UsedBuses' : \E n \in Nodes : ibs'[n] = b
    BY <1>1, <2>3, <2>4, <2>5, <2>6 DEF UsedInv, UsedBuses
  <2>8. QED
    BY <2>1, <2>7 DEF UsedInv, Complete
<1>4. CASE FinishIsland
  <2>1. UNCHANGED <<nextbs, ibs, processed>> /\ chain # {} /\ stage = "bs"
    BY <1>4 DEF FinishIsland, ndVars
  <2>2. CASE UNCHANGED <<iisland, islands, chain>>
    BY <2>1, <2>2 DEF UsedInv, UsedBuses, Complete
  <2>3. CASE /\ iisland' = [b \in Buses |-> IF b \in chain THEN islands ELSE iisland[b]]
             /\ islands' = islands + 1 /\ chain' = {}
    <3>1. PICK c \in chain : c \in Buses /\ c \in processed
      BY <1>1, <2>1 DEF IInv, BusInv, ChainInv
    <3>2. \A b \in Complete : b \in Complete' /\ iisland'[b] = iisland[b]
      BY <1>1, <2>1, <2>3 DEF Complete
    <3>3. c \in Complete' /\ iisland'[c] = islands
      BY <2>1, <2>3, <3>1 DEF Complete
    <3>4. \A k \in 0 .. islands' - 1 : k \in 0 .. islands - 1 \/ k = islands
      BY <1>1, <2>3
    <3>5. \A k \in 0 .. islands' - 1 : \E b \in Complete' : iisland'[b] = k
      BY <3>2, <3>3, <3>4 DEF UsedInv
    <3>6. QED
      BY <2>1, <3>5 DEF UsedInv, UsedBuses
  <2>4. QED
    BY <1>4, <2>2, <2>3 DEF FinishIsland
<1>5. CASE StartIsland \/ WalkBus
  <2>1. UNCHANGED <<nextbs, ibs, iisland, islands>>
    BY <1>5 DEF StartIsland, WalkBus, ndVars
  <2>2. Complete' = Complete
    <3>1. CASE StartIsland
      BY <3>1 DEF StartIsland, Complete
    <3>2. CASE WalkBus
      <4>1. stage = "bs" /\ chain \subseteq processed
        BY <3>2 DEF WalkBus, IInv, BusInv, ChainInv
      <4>2. CASE UNCHANGED <<chain, processed>>
        BY <4>2 DEF Complete
      <4>3. CASE \E b \in todo : /\ chain' = chain \cup (Neighbors(b) \ processed)
                                 /\ processed' = processed \cup (Neighbors(b) \ processed)
        BY <4>1, <4>3 DEF Complete
      <4>4. QED
        BY <3>2, <4>2, <4>3 DEF WalkBus
    <3>3. QED
      BY <1>5, <3>1, <3>2
  <2>3. QED
    BY <2>1, <2>2 DEF UsedInv, UsedBuses
<1>6. CASE MarkDead
  <2>1. UNCHANGED <<nextbs, ibs, islands, chain, processed>>
    BY <1>6 DEF MarkDead, ndVars
  <2>2. \A b \in Complete : iisland'[b] = iisland[b]
    BY <1>1, <1>6 DEF MarkDead, Complete
  <2>3. QED
    BY <2>1, <2>2 DEF UsedInv, UsedBuses, Complete
<1>7. CASE NodesSorted \/ SkipSource \/ CompStatus \/ UNCHANGED vars
  <2>1. UNCHANGED <<nextbs, ibs, iisland, islands, chain, processed>>
    BY <1>7 DEF NodesSorted, SkipSource, CompStatus, vars, ndVars, bsVars
  <2>2. QED
    BY <2>1 DEF UsedInv, UsedBuses, Complete
<1>8. QED
  BY <1>2, <1>3, <1>4, <1>5, <1>6, <1>7 DEF Next

Part(S, n) == {m \in Nodes : Joined(S, n, m)}

\* Nodes no two of which are joined are of different parts.
LEMMA PartsCounted ==
  ASSUME NEW S \in SUBSET Edges, NEW N \in SUBSET Nodes, NEW k \in Nat,
         NEW f \in [0..k -> N], \A i, j \in 0..k : Joined(S, f[i], f[j]) => i = j
  PROVE  Cardinality({Part(S, n) : n \in N}) > k
<1> DEFINE P == {Part(S, n) : n \in N}
           g == [n \in N |-> Part(S, n)]
           h == [i \in 0..k |-> Part(S, f[i])]
<1>1. IsFiniteSet(N)
  <2>1. IsFiniteSet(Nodes)
    BY TopologyAssumption, FS_Interval DEF Nodes
  <2>2. QED
    BY <2>1, FS_Subset
<1>2. g \in Surjection(N, P)
  BY DEF Surjection
<1>3. IsFiniteSet(P)
  BY <1>1, <1>2, FS_Surjection
<1>4. h \in [0..k -> P]
  OBVIOUS
<1>5. ASSUME NEW i \in 0..k, NEW j \in 0..k, h[i] = h[j] PROVE i = j
  <2>1. f[j] \in Part(S, f[j])
    BY JoinedRefl DEF Part
  <2>2. f[j] \in Part(S, f[i])
    BY <1>5, <2>1
  <2>3. QED
    BY <2>2 DEF Part
<1>6. h \in Injection(0..k, P)
  BY <1>4, <1>5 DEF Injection, IsInjective
<1>7. Cardinality(0..k) <= Cardinality(P)
  BY <1>3, <1>6, FS_Injection
<1>8. Cardinality(0..k) = k + 1
  BY FS_Interval
<1>9. Cardinality(P) \in Nat
  BY <1>3, FS_CardinalityType
<1> HIDE DEF P
<1>10. Cardinality(P) > k
  BY <1>7, <1>8, <1>9
<1>11. QED
  BY <1>10 DEF P

\* A node without bus, and one of every bus, are not joined by closed breakers.
LEMMA GroupsFull ==
  ASSUME IInv, UsedInv, StartGroup, NoBusLeft
  PROVE  Cardinality({Part(AllClosed, n) : n \in Nodes}) > BsSize - 2
<1> DEFINE k == BsSize - 2
<1>1. stage = "nd" /\ todo = {} /\ nextbs = BsSize - 1 /\ UsedBuses = 1..k
  BY TopologyAssumption DEF StartGroup, NoBusLeft, UsedBuses
<1>2. k \in Nat /\ AllClosed \in SUBSET Edges
  BY TopologyAssumption, EdgeSets DEF IInv, TypeOK
<1>3. \A i \in 0..k : \E n \in Nodes : ibs[n] = i
  <2>1. \E n \in Nodes : ibs[n] = 0
    BY DEF StartGroup, Unprocessed
  <2>2. \A i \in 0..k : i = 0 \/ i \in 1..k
    BY <1>2
  <2>3. QED
    BY <1>1, <2>1, <2>2 DEF UsedInv
<1> DEFINE f == [i \in 0..k |-> CHOOSE n \in Nodes : ibs[n] = i]
<1>4. f \in [0..k -> Nodes] /\ \A i \in 0..k : ibs[f[i]] = i
  BY <1>3
<1> HIDE DEF f, k
<1>5. ASSUME NEW i \in 0..k, NEW j \in 0..k, Joined(AllClosed, f[i], f[j]) PROVE i = j
  <2>1. f[i] \in Nodes /\ f[j] \in Nodes /\ ibs[f[i]] = i /\ ibs[f[j]] = j
    BY <1>4
  <2>2. Joined(AllClosed, f[j], f[i])
    BY <1>2, <1>5, <2>1, JoinedSym
  <2>3. CASE i # 0
    BY <1>1, <1>5, <2>1, <2>3, BusPart DEF IInv
  <2>4. CASE j # 0
    BY <1>1, <2>1, <2>2, <2>4, BusPart DEF IInv
  <2>5. QED
    BY <2>3, <2>4
<1>6. Cardinality({Part(AllClosed, n) : n \in Nodes}) > k
  BY <1>2, <1>4, <1>5, PartsCounted
<1>7. QED
  BY <1>6 DEF k

\* A source of every island, and the one tp_bs_sort is at, are not joined.
LEMMA IslandsFull ==
  ASSUME IInv, UsedInv, FinishIsland, islands >= IslandSize
  PROVE  Cardinality({Part(AllEdges, net.so[i]) : i \in DOMAIN net.so}) > IslandSize
<1> DEFINE N == {net.so[i] : i \in DOMAIN net.so}
           k == IslandSize
<1>1. TypeOK /\ BusInv /\ Sorted /\ stage = "bs" /\ chain # {}
  BY DEF FinishIsland, IInv, Sorted
<1>2. islands = k /\ k \in Nat
  BY <1>1, TopologyAssumption DEF TypeOK
<1>3. N \in SUBSET Nodes /\ AllEdges \in SUBSET Edges
  BY <1>1, EdgeSets DEF TypeOK, NetworkType
<1> DEFINE On(i, n) == IF i = k THEN ibs[n] \in chain
                       ELSE ibs[n] \in Complete /\ iisland[ibs[n]] = i
<1>4. ASSUME NEW i \in 0..k PROVE \E n \in N : On(i, n)
  <2>1. CASE i = k
    <3>1. source \in DOMAIN net.so /\ ibs[net.so[source]] \in chain
      BY <1>1 DEF BusInv, ChainInv, SourceBus
    <3>2. QED
      BY <2>1, <3>1
  <2>2. CASE i # k
    <3>1. i \in 0 .. islands - 1
      BY <1>2, <2>2
    <3>2. PICK b \in Complete : iisland[b] = i
      BY <3>1 DEF UsedInv
    <3>3. PICK s \in DOMAIN net.so : /\ ibs[net.so[s]] \in Complete
                                     /\ iisland[ibs[net.so[s]]] = iisland[b]
      BY <1>1 DEF BusInv, SourcesInv
    <3>4. QED
      BY <2>2, <3>2, <3>3
  <2>3. QED
    BY <2>1, <2>2
<1> DEFINE f == [i \in 0..k |-> CHOOSE n \in N : On(i, n)]
<1>5. f \in [0..k -> N] /\ \A i \in 0..k : On(i, f[i])
  BY <1>4
<1>6. ASSUME NEW i \in 0..k, NEW j \in 0..k, NEW a \in Nodes, NEW b \in Nodes,
             On(i, a), On(j, b), Joined(AllEdges, a, b), i # k
      PROVE  i = j
  <2>1. ibs[b] \in Complete /\ iisland[ibs[b]] = i
    BY <1>1, <1>6, IslandPart
  <2>2. j # k
    BY <1>6, <2>1 DEF Complete
  <2>3. QED
    BY <1>6, <2>1, <2>2
<1> HIDE DEF f, k, N, On
<1>7. ASSUME NEW i \in 0..k, NEW j \in 0..k, Joined(AllEdges, f[i], f[j]) PROVE i = j
  <2>1. f[i] \in Nodes /\ f[j] \in Nodes /\ On(i, f[i]) /\ On(j, f[j])
    BY <1>3, <1>5
  <2>2. Joined(AllEdges, f[j], f[i])
    BY <1>3, <1>7, <2>1, JoinedSym
  <2>3. QED
    BY <1>6, <1>7, <2>1, <2>2
<1>8. Cardinality({Part(AllEdges, n) : n \in N}) > k
  BY <1>2, <1>3, <1>5, <1>7, PartsCounted
<1>9. {Part(AllEdges, n) : n \in N} = {Part(AllEdges, net.so[i]) : i \in DOMAIN net.so}
  BY DEF N
<1>10. QED
  BY <1>8, <1>9 DEF k

LEMMA NextFails == IInv /\ UsedInv /\ FailsOnlyFull /\ [Next]_vars => FailsOnlyFull'
<1> SUFFICES ASSUME IInv, UsedInv, FailsOnlyFull, [Next]_vars, stage' = "fail"
             PROVE  FailsOnlyFull'
  BY DEF FailsOnlyFull
<1> DEFINE Full ==
       \/ Cardinality({Part(AllClosed, n) : n \in Nodes}) > BsSize - 2
       \/ Cardinality({Part(AllEdges, net.so[i]) : i \in DOMAIN net.so}) > IslandSize
       \/ \E b \in UsedBuses : NeighborCount(b) > g_mxnbr
       \/ net.xf \cap net.orphan # {}
<1>1. Full /\ UNCHANGED <<net, ibs, nextbs>>
  <2>1. CASE StartGroup
    <3>1. NoBusLeft /\ UNCHANGED <<net, ibs, nextbs>>
      BY <2>1 DEF StartGroup
    <3>2. QED
      BY <2>1, <3>1, GroupsFull
  <2>2. CASE WalkBus
    <3>1. stage = "bs" /\ UNCHANGED <<net, ibs, nextbs>>
      BY <2>2 DEF WalkBus, ndVars
    <3>2. PICK b \in todo : NeighborCount(b) > g_mxnbr
      BY <2>2, <3>1 DEF WalkBus
    <3>3. b \in UsedBuses
      BY <3>1 DEF IInv, BusInv, ChainInv
    <3>4. QED
      BY <3>1, <3>2, <3>3
  <2>3. CASE FinishIsland
    <3>1. islands >= IslandSize /\ UNCHANGED <<net, ibs, nextbs>>
      BY <2>3 DEF FinishIsland, ndVars
    <3>2. QED
      BY <2>3, <3>1, IslandsFull
  <2>4. CASE CompStatus
    BY <2>4 DEF CompStatus, ndVars
  <2>5. CASE WalkNode \/ NodesSorted \/ SkipSource \/ StartIsland \/ MarkDead
    <3>1. stage \in {"nd", "bs"} /\ stage' \in {stage, "bs", "comp"}
      BY <2>5 DEF WalkNode, NodesSorted, SkipSource, StartIsland, MarkDead
    <3>2. QED
      BY <3>1
  <2>6. CASE UNCHANGED vars
    <3>1. UNCHANGED <<net, ibs, nextbs, stage>>
      BY <2>6 DEF vars, ndVars
    <3>2. QED
      BY <3>1 DEF FailsOnlyFull, Part
  <2>7. QED
    BY <2>1, <2>2, <2>3, <2>4, <2>5, <2>6 DEF Next
<1>2. Full'
  <2>1. /\ AllClosed' = AllClosed /\ AllEdges' = AllEdges /\ UsedBuses' = UsedBuses
        /\ net' = net /\ \A b : NeighborCount(b)' = NeighborCount(b)
    BY <1>1 DEF AllClosed, AllEdges, UsedBuses, NeighborCount, EndsAt, BusNodes
  <2>2. \A n : Part(AllClosed, n)' = Part(AllClosed, n) /\ Part(AllEdges, n)' = Part(AllEdges, n)
    BY <2>1 DEF Part, Joined
  <2>3. QED
    BY <1>1, <2>1, <2>2
<1>3. QED
  BY <1>2 DEF FailsOnlyFull, Part

-----------------------------------------------------------------------------
\* The tables and chains of tp_allnew stay within their bounds, for every network.
THEOREM TypeCorrect == Spec => []TypeOK
BY Invariance, PTL DEF IInv

\* Two nodes have the same bus exactly if closed breakers join them, for every
\* network (tp_nd_sort).
THEOREM BusesCorrect == Spec => []BusesAreComponents
BY Invariance, IInvBuses, PTL

\* Exactly what is joined to a source is on an island, and a branch is dead exactly
\* if it is not joined to one, for every network (tp_bs_sort, tp_comp_status).
THEOREM EnergisedCorrect == Spec => []EnergisedFromSource
BY Invariance, IInvEnergised, PTL

\* Two nodes that are fed are on the same island exactly if they are joined, for
\* every network (tp_bs_sort).
THEOREM IslandsCorrect == Spec => []IslandsAreComponents
BY Invariance, IInvIslands, PTL

\* Every source knows the island it feeds, for every network (so->iisland).
THEOREM SourcesCorrect == Spec => []SourcesOnIslands
BY Invariance, IInvSources, PTL

\* Islands are told apart and known to their sources, for every network.
THEOREM IslandsTrueCorrect == Spec => []IslandsTrue
BY IslandsCorrect, SourcesCorrect, PTL DEF IslandsTrue

\* The topology is given up only if the network has more buses, more islands or
\* more neighbours of a bus than there is room for, or a winding has no transformer,
\* for every network and every size of the tables (tp_allnew).
THEOREM FailsOnlyWhenFull == Spec => []FailsOnlyFull
<1>1. Init => UsedInv /\ FailsOnlyFull
  BY InitUsed DEF Init, FailsOnlyFull
<1>2. IInv /\ UsedInv /\ [Next]_vars => UsedInv'
  BY NextUsed
<1>3. IInv /\ UsedInv /\ FailsOnlyFull /\ [Next]_vars => FailsOnlyFull'
  BY NextFails
<1>4. QED
  BY <1>1, <1>2, <1>3, Invariance, PTL DEF Spec
=============================================================================
