--------------------------- MODULE MCFaultAnalysis --------------------------
EXTENDS FaultAnalysis

Cb(a, b, attrs) == [ind |-> a, iznd |-> b, jx |-> "jx" \in attrs, ctl |-> "ctl" \in attrs,
                    auto |-> "auto" \in attrs, relay |-> "relay" \in attrs,
                    unreal |-> "unreal" \in attrs]
Sec(a, b, fi) == [ind |-> a, iznd |-> b, fi |-> fi]

\* Two lines that meet at an open breaker: bus 1, incoming breaker 1, section
\* with an indicator, breaker 2, section, load; tie 3; section, breaker 4, bus 2.
TwoLines ==
  [bus |-> <<1, 8>>,
   cb |-> <<Cb(1, 2, {"jx", "ctl", "auto"}), Cb(3, 4, {"ctl", "relay"}),
            Cb(5, 6, {"ctl"}), Cb(7, 8, {"jx", "ctl"})>>,
   sec |-> <<Sec(2, 3, <<1>>), Sec(4, 5, <<>>), Sec(6, 7, <<2>>)>>,
   sw |-> <<>>, ld |-> <<4>>, zn |-> <<<<2, 3>>, <<4, 5>>, <<6, 7>>>>,
   tie |-> {3}, types |-> {"trip", "change", "JD", "loss"}]

\* The same after its first line has been transferred to bus 2.
Transferred == [TwoLines EXCEPT !.tie = {1}]

\* A line with a branch: behind the incoming breaker 1 and a section with two
\* indicators the branch breaker 2, which may only be watched, feeds a load;
\* breaker 3 with its section and indicator leads to a second load, breaker 4
\* stands open to bus 2.
Branched ==
  [bus |-> <<1, 9>>,
   cb |-> <<Cb(1, 2, {"jx", "ctl"}), Cb(3, 4, {"auto"}), Cb(3, 5, {"ctl", "unreal"}),
            Cb(8, 9, {"jx", "ctl"})>>,
   sec |-> <<Sec(2, 10, <<>>), Sec(10, 3, <<1, 2>>), Sec(4, 6, <<>>), Sec(7, 5, <<3>>),
            Sec(7, 8, <<>>)>>,
   sw |-> <<>>, ld |-> <<6, 7>>, zn |-> <<<<2, 3, 10>>, <<4, 6>>, <<5, 7, 8>>>>,
   tie |-> {4}, types |-> {"trip", "relay", "DL"}]

\* A line with a disconnector beside a breaker.
Disconnected ==
  [bus |-> <<1>>,
   cb |-> <<Cb(1, 2, {"jx", "ctl"}), Cb(3, 4, {"ctl", "auto"}), Cb(5, 6, {"ctl", "auto"})>>,
   sec |-> <<Sec(2, 3, <<1>>), Sec(4, 7, <<>>)>>,
   sw |-> <<[ind |-> 7, iznd |-> 5, open |-> FALSE]>>, ld |-> <<6, 4>>,
   zn |-> <<<<2, 3>>, <<4, 5, 7>>, <<6>>>>,
   tie |-> {}, types |-> {"trip", "JD"}]

\* Two lines of one busbar with an open breaker between them.
TwoFeeders ==
  [bus |-> <<1>>,
   cb |-> <<Cb(1, 2, {"jx", "ctl", "auto"}), Cb(1, 3, {"jx", "ctl", "auto"}), Cb(4, 3, {"ctl"})>>,
   sec |-> <<Sec(2, 4, <<1>>)>>,
   sw |-> <<>>, ld |-> <<4, 3>>, zn |-> <<<<2, 4>>, <<3>>>>,
   tie |-> {3}, types |-> {"trip", "change", "DL", "loss"}]

\* The second line of the busbar begins with a disconnector, and meets bus 2
\* at an open breaker.
BusDisconnector ==
  [bus |-> <<1, 7>>,
   cb |-> <<Cb(1, 2, {"jx", "ctl", "auto"}), Cb(4, 5, {"jx", "ctl", "auto"}),
            Cb(6, 7, {"jx", "ctl"})>>,
   sec |-> <<Sec(2, 3, <<1>>), Sec(5, 6, <<2>>)>>,
   sw |-> <<[ind |-> 1, iznd |-> 4, open |-> FALSE]>>, ld |-> <<3, 6>>,
   zn |-> <<<<2, 3>>, <<5, 6>>>>,
   tie |-> {3}, types |-> {"trip", "JD"}]

\* The same after the second line has been transferred to bus 2, with signals
\* of the busbars.
OverDisconnector == [BusDisconnector EXCEPT !.tie = {2}, !.types = {"trip", "loss"}]

Nets == {TwoLines, Transferred, Branched, TwoFeeders, Disconnected,
         BusDisconnector, OverDisconnector}
One == {TwoLines}
=============================================================================
