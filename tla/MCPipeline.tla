---------------------------- MODULE MCPipeline -----------------------------
EXTENDS Pipeline

\* Two metrics and three readings; the list as it was saved, one column short.
Rd(n, m, by, good) == [n |-> n, m |-> m, by |-> by, good |-> good]
R == <<Rd(1, "a", "sensor", TRUE), Rd(2, "b", "slow", TRUE), Rd(3, "a", "sensor", FALSE)>>
C(m, on, agg) == [m |-> m, on |-> on, agg |-> agg]
S(csv, l, rot) == [csv |-> csv, layout |-> l, rotation |-> rot, mirror |-> FALSE]
MCLists == {<<C("b", TRUE, "avg"), C("a", TRUE, "avg")>>, <<C("a", TRUE, "max"), C("b", FALSE, "avg")>>}
MCSetups == {S(TRUE, "x", "none"), S(TRUE, "y", "none"), S(FALSE, "x", "none")}

\* Each scenario has its own troubles, so that their spaces add up.
Zero == [readings |-> 2, long |-> 0, lists |-> 0, setups |-> 0, asks |-> 0, busy |-> 0, faults |-> 0, sleeps |-> 0, restarts |-> 0,
         boots |-> 0, stuck |-> 0, midnights |-> 0]
Sc(start, budget, rot) == [start |-> start, left |-> budget, cols |-> <<C("a", TRUE, "avg")>>, setup |-> S(TRUE, "x", rot)]
Mirrored(sc) == [sc EXCEPT !.setup.mirror = TRUE]
Sc1 == {Sc("loop", [Zero EXCEPT !.readings = 3, !.lists = 1, !.busy = 1], "none")}
Sc2 == {Sc("loop", [Zero EXCEPT !.setups = 1, !.asks = 1], "none")}
Sc3 == {Mirrored(Sc("loop", [Zero EXCEPT !.readings = 3, !.faults = 1, !.long = 1], "none"))}
Sc4 == {Sc("loop", [Zero EXCEPT !.asks = 1, !.restarts = 1], "size")}
Sc5 == {Sc("boot", [Zero EXCEPT !.readings = 1, !.sleeps = 1, !.boots = 1], "none")}
Sc6 == {Sc("loop", [Zero EXCEPT !.readings = 1, !.sleeps = 1, !.stuck = 1], "none")}
Sc7 == {Sc("boot", [Zero EXCEPT !.readings = 1, !.restarts = 1, !.faults = 1], "none")}
Scens == Sc1 \cup Sc2 \cup Sc3 \cup Sc4 \cup Sc5 \cup Sc6 \cup Sc7
Midnights == {Sc("loop", [Zero EXCEPT !.asks = 1, !.midnights = 1], "daily")}
AllScens == Scens \cup Midnights
=============================================================================
