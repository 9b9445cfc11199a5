---------------------------- MODULE MCConfigSync ----------------------------
(***************************************************************************)
(* Three small instances of ConfigSync; the initial state picks one.       *)
(* "agree": a node the collector knows, edits on the Nodes page, losses, a *)
(* power cut and an accident to a file. "both": edits on either side, no    *)
(* accident. "live": a node just set up, more lost answers, and POSTs that  *)
(* go before the restart for a new configuration.                          *)
(***************************************************************************)
EXTENDS ConfigSync

VARIABLE part

MCSettings(n, s, l) == [net |-> n, sensors |-> s, live |-> l]

MCSeed  == MCSettings("home", 1, 1)
MCAway  == MCSettings("away", 1, 1)
MCMoved == MCSettings("moved", 1, 1)
MCTuned == MCSettings("home", 1, 2)
MCRewired == MCSettings("home", 2, 1)
MCWrong == MCSettings("home", 2, 2)

MCRefuses == {MCWrong}

\* Discovery finds nobody on "away"; on "moved" the collector has another
\* address, "home".
MCDiscovered == [n \in Nets |-> IF n = "away" THEN Nothing ELSE "home"]

\* A node that was just set up, and one the collector has known for long: its
\* revision is about to wrap.
MCSetUp  == {[rev |-> 0, local |-> TRUE, val |-> MCSeed]}

MCSynced == {[rev |-> RevMod - 2, local |-> FALSE, val |-> MCSeed]}

MCEditsAll  == {MCAway, MCMoved, MCWrong}
MCPageEdits == {MCTuned}

MCBound(w, p, l, b, a) ==
    [e \in Events |-> CASE e = "web" -> w [] e = "page" -> p [] e = "lost" -> l
                        [] e = "busy" -> b [] e = "accident" -> a]
MCBoundAgree == MCBound(2, 0, 1, 1, 1)

Both == INSTANCE ConfigSync WITH Bound <- MCBound(2, 1, 1, 1, 0)

Live == INSTANCE ConfigSync WITH
    Nets <- {"home", "away"}, Discovered <- [n \in {"home", "away"} |-> MCDiscovered[n]],
    WebEdits <- {MCAway, MCRewired, MCWrong}, FirstFiles <- MCSetUp,
    FlushPosts <- 1, MaxCuts <- 0, Bound <- MCBound(1, 2, 3, 0, 0)

mcVars == <<vars, part>>
MCInit == (part = "agree" /\ Init) \/ (part = "both" /\ Both!Init) \/ (part = "live" /\ Live!Init)
MCNext ==
    \/ part = "agree" /\ Next /\ UNCHANGED part
    \/ part = "both" /\ Both!Next /\ UNCHANGED part
    \/ part = "live" /\ Live!Next /\ UNCHANGED part

Goes(A) == part = "live" /\ A /\ UNCHANGED part
MCFairness ==
    /\ WF_mcVars(Goes(Live!NodeAlone /\ node.stage # "idle")) /\ SF_mcVars(Goes(Live!NodeAlone /\ Live!StartCycle))
    /\ WF_mcVars(Goes(Live!SendPost)) /\ WF_mcVars(Goes(Live!Fail /\ request = Nothing /\ answer = Nothing))
    /\ WF_mcVars(Goes(Live!Handle)) /\ WF_mcVars(Goes(Live!ReadAnswer)) /\ WF_mcVars(Goes(Live!ActOnAnswer))
MCSpec == MCInit /\ [][MCNext]_mcVars /\ MCFairness

\* As ConfigSync states them; Converges where no file is lost.
MCConverges == <>[](part = "live" => Live!Settled)
=============================================================================
