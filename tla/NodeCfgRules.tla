---------------------------- MODULE NodeCfgRules ----------------------------
(***************************************************************************)
(* src/nodes/NodeCfgRules.h: how revisions of a node's configuration are   *)
(* numbered and compared, and what the collector does with what a node     *)
(* says.  A revision is a number of RevMod values that wraps past 0, which *)
(* stands for "never synced"; before and after are read on the circle.     *)
(***************************************************************************)
EXTENDS Integers, TLAPS

CONSTANT RevMod      \* 2^16 in the code

ASSUME RevAssumption == RevMod \in Nat /\ RevMod >= 4 /\ RevMod % 2 = 0

Rev    == 0..(RevMod - 1)
Status == {"applied", "pending", "rejected"}

\* Fault: the next revision after the last one is 0.
nextRevToZero(rev) == (rev + 1) % RevMod

nextRev(rev) == IF rev = RevMod - 1 THEN 1 ELSE rev + 1

\* How far round the circle a is from b.
Ahead(a, b) == IF a >= b THEN a - b ELSE RevMod + a - b

\* Fault: revisions compared as plain numbers.
revAtOrPastPlain(a, b) == a >= b

\* a is b or a later revision: the difference, as a signed number, is not
\* negative.  Everything is at or past 0, and 0 is past nothing else.
revAtOrPast(a, b) ==
    \/ b = 0
    \/ a # 0 /\ 2 * Ahead(a, b) < RevMod

revAfter(desired, told) == nextRev(IF revAtOrPast(desired, told) THEN desired ELSE told)

statusAfterApplied(status, rev, applied) ==
    IF revAtOrPast(applied, rev) THEN "applied" ELSE status

shouldSend(status, rev, applied) == status = "pending" /\ ~revAtOrPast(applied, rev)

AdoptedAt(rev) == [adopt |-> TRUE, rev |-> rev, applied |-> rev]

\* Fault: a local edit is taken for a report of what already runs.
planReportBlind(have, desiredRev, reportRev, local) ==
    IF have /\ revAtOrPast(desiredRev, reportRev)
    THEN [adopt |-> FALSE, rev |-> desiredRev, applied |-> reportRev]
    ELSE AdoptedAt(nextRev(reportRev))

\* What a report of the node's own configuration does to the desired one.
planReport(have, desiredRev, reportRev, local) ==
    CASE local /\ have -> AdoptedAt(revAfter(desiredRev, reportRev))
      [] local /\ ~have -> AdoptedAt(nextRev(reportRev))
      [] ~local /\ ~have -> AdoptedAt(IF reportRev = 0 THEN 1 ELSE reportRev)
      [] ~local /\ have /\ ~revAtOrPast(desiredRev, reportRev) -> AdoptedAt(reportRev)
      [] OTHER -> [adopt |-> FALSE, rev |-> desiredRev, applied |-> reportRev]

\* What the answer to a WiFi node's POST carries.
ingestReply(adopted, status, rev, nodeRev, refusedRev) ==
    CASE adopted -> "rev"
      [] ~adopted /\ refusedRev # 0 /\ refusedRev = rev -> "none"
      [] OTHER -> IF shouldSend(status, rev, nodeRev) THEN "full" ELSE "none"

-----------------------------------------------------------------------------
(* Theorems: for a circle of any even size, the next revision is a new one,   *)
(* and an edit on the collector gets one the node cannot already be at.       *)

USE RevAssumption

\* nextRev() stays in range and never returns "never synced".
LEMMA NextRevType == ASSUME NEW rev \in Rev PROVE nextRev(rev) \in Rev \ {0}
<1> QED BY DEF nextRev, Rev

\* A step of the circle goes one ahead, or two over the gap at 0.
LEMMA NextRevAhead ==
    ASSUME NEW rev \in Rev \ {0}
    PROVE  /\ Ahead(nextRev(rev), rev) \in {1, 2}
           /\ Ahead(rev, nextRev(rev)) \in {RevMod - 1, RevMod - 2}
<1> QED BY DEF nextRev, Rev, Ahead

\* nextRev() is past what it follows, however often the numbers wrapped.
THEOREM NextRevIsPast ==
    ASSUME RevMod > 4, NEW rev \in Rev \ {0}
    PROVE  /\ revAtOrPast(nextRev(rev), rev)
           /\ ~revAtOrPast(rev, nextRev(rev))
<1>1. nextRev(rev) \in Rev \ {0}
    BY NextRevType
<1>2. PICK d \in {1, 2} : Ahead(nextRev(rev), rev) = d
    BY NextRevAhead
<1>3. PICK e \in {1, 2} : Ahead(rev, nextRev(rev)) = RevMod - e
    BY NextRevAhead
<1>4. revAtOrPast(nextRev(rev), rev)
    BY <1>1, <1>2 DEF revAtOrPast
<1>5. ~revAtOrPast(rev, nextRev(rev))
    BY <1>1, <1>3 DEF revAtOrPast
<1> QED BY <1>4, <1>5

\* What bumped() relies on: as long as the revisions about are a little closer
\* than half the circle, a new desired revision is past the desired one and
\* past what the node was told, so that the edit cannot be taken for applied.
THEOREM EditIsNews ==
    ASSUME NEW desired \in Rev \ {0}, NEW told \in Rev \ {0},
           RevMod > 4,
           \/ 2 * (Ahead(desired, told) + 2) < RevMod
           \/ 2 * (Ahead(told, desired) + 2) < RevMod
    PROVE  /\ ~revAtOrPast(desired, revAfter(desired, told))
           /\ ~revAtOrPast(told, revAfter(desired, told))
           /\ \A status \in Status : statusAfterApplied(status, revAfter(desired, told), told) = status
<1>1. CASE revAtOrPast(desired, told)
  <2>1. revAfter(desired, told) = nextRev(desired)
      BY <1>1 DEF revAfter
  <2>2. nextRev(desired) \in Rev \ {0} /\ ~revAtOrPast(desired, nextRev(desired))
      BY NextRevType, NextRevIsPast
  <2>3. 2 * (Ahead(desired, told) + 2) < RevMod
      BY <1>1 DEF revAtOrPast, Ahead, Rev
  <2>4. 2 * Ahead(told, nextRev(desired)) >= RevMod
      BY <2>3 DEF Ahead, Rev, nextRev
  <2>5. ~revAtOrPast(told, nextRev(desired))
      BY <2>2, <2>4 DEF revAtOrPast, Rev, Ahead
  <2> QED BY <2>1, <2>2, <2>5 DEF statusAfterApplied
<1>2. CASE ~revAtOrPast(desired, told)
  <2>1. revAfter(desired, told) = nextRev(told)
      BY <1>2 DEF revAfter
  <2>2. nextRev(told) \in Rev \ {0} /\ ~revAtOrPast(told, nextRev(told))
      BY NextRevType, NextRevIsPast
  <2>3. 2 * (Ahead(told, desired) + 2) < RevMod
      BY <1>2 DEF revAtOrPast, Ahead, Rev
  <2>4. 2 * Ahead(desired, nextRev(told)) >= RevMod
      BY <2>3 DEF Ahead, Rev, nextRev
  <2>5. ~revAtOrPast(desired, nextRev(told))
      BY <2>2, <2>4 DEF revAtOrPast, Rev, Ahead
  <2> QED BY <2>1, <2>2, <2>5 DEF statusAfterApplied
<1> QED BY <1>1, <1>2
=============================================================================
