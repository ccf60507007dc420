--------------------------- MODULE MCLoadTransfer ---------------------------
EXTENDS LoadTransfer

Cb(a, b, jx) == [ind |-> a, iznd |-> b, jx |-> jx]
Net(cbs, zones, buses) ==
  [cb |-> cbs, bus |-> buses, sec |-> <<>>, sw |-> <<>>, ld |-> <<>>, zn |-> [i \in 1 .. zones |-> <<i>>]]

Scene(net, tie, cap, load, ask, isolating, unmeasured, rising) ==
  [net |-> net, so |-> DOMAIN net.bus, tie |-> tie, cap |-> cap, load |-> load, ask |-> ask,
   isolating |-> isolating, unmeasured |-> unmeasured, rising |-> rising]

Ask(kind, of) == [kind |-> kind, of |-> of]

\* A line of three zones and a branch, with a tie at each end to another feeder.
Line == Net(<<Cb(11, 1, TRUE), Cb(1, 2, FALSE), Cb(2, 3, FALSE), Cb(2, 4, FALSE),
              Cb(3, 5, FALSE), Cb(12, 5, TRUE), Cb(4, 6, FALSE), Cb(13, 6, TRUE)>>, 6, <<11, 12, 13>>)
LineScenes ==
  {Scene(Line, {5, 7}, (1 :> 9) @@ (6 :> c) @@ (8 :> d), <<1, l[1], l[2], l[3], 1, 1>>, a,
     IF a.kind = "fault" THEN {2, 3, 4} ELSE {}, u, r) :
     c \in 2 .. 6, d \in {3, 5}, l \in {0, 1, 3} \X {0, 1, 2} \X {0, 2},
     a \in {Ask("breaker", 1), Ask("breaker", 2), Ask("bus", 1), Ask("bus", 4), Ask("fault", 2)},
     u \in {{}, {3}}, r \in BOOLEAN}

\* Three branches behind a zone, each with a tie; the third feeder is known or
\* not.
Fork == Net(<<Cb(11, 1, TRUE), Cb(1, 2, FALSE), Cb(2, 3, FALSE), Cb(2, 4, FALSE), Cb(2, 5, FALSE),
              Cb(3, 6, FALSE), Cb(4, 7, FALSE), Cb(5, 8, FALSE),
              Cb(12, 6, TRUE), Cb(13, 7, TRUE), Cb(14, 8, TRUE)>>, 8, <<11, 12, 13, 14>>)
ForkScenes ==
  {Scene(Fork, {6, 7, 8}, (1 :> 9) @@ (9 :> c) @@ (10 :> 3) @@ (11 :> g),
     <<0, 1, l[1], l[2], l[3], 1, 1, 1>>, a, IF a.kind = "fault" THEN {1, 2} ELSE {}, {}, r) :
     c \in {2, 4}, g \in {0, 2}, l \in {0, 1, 2} \X {0, 1, 2} \X {1, 3},
     a \in {Ask("breaker", 1), Ask("fault", 1)}, r \in BOOLEAN}

\* Two ties at one zone.
Double == Net(<<Cb(11, 1, TRUE), Cb(1, 2, FALSE), Cb(2, 3, FALSE), Cb(2, 4, FALSE),
                Cb(12, 3, TRUE), Cb(13, 4, TRUE)>>, 4, <<11, 12, 13>>)
DoubleScenes ==
  {Scene(Double, {3, 4}, (1 :> 9) @@ (5 :> c) @@ (6 :> d), <<l[1], l[2], 1, 1>>, a,
     IF a.kind = "fault" THEN {1, 2} ELSE {}, u, TRUE) :
     c \in 2 .. 4, d \in 2 .. 4, l \in (0 .. 2) \X (0 .. 2),
     a \in {Ask("breaker", 1), Ask("fault", 1)}, u \in {{}, {5}}}

\* Two ties to one feeder.
Same == Net(<<Cb(11, 1, TRUE), Cb(1, 2, FALSE), Cb(2, 3, FALSE), Cb(2, 4, FALSE), Cb(3, 5, FALSE),
              Cb(4, 6, FALSE), Cb(12, 5, TRUE), Cb(5, 6, FALSE)>>, 6, <<11, 12>>)
SameScenes ==
  {Scene(Same, {5, 6}, (1 :> 9) @@ (7 :> c), <<0, 1, l[1], l[2], 1, 1>>, a,
     IF a.kind = "fault" THEN {2, 3, 4} ELSE {}, {}, TRUE) :
     c \in {3, 5}, l \in (0 .. 2) \X (0 .. 2), a \in {Ask("breaker", 1), Ask("fault", 2)}}

AllScenes == LineScenes \union ForkScenes \union DoubleScenes \union SameScenes
=============================================================================
