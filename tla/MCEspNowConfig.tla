--------------------------- MODULE MCEspNowConfig ---------------------------
(* Small instances of EspNowConfig. *)
EXTENDS EspNowConfig, TLC

CONSTANTS n1, n2, warm, cool, odd

\* One scenario: the revision each node and the collector agree on (0: paired
\* and never reported, None: not paired), and the troubles by name.
With(revs, r) == [k \in Budgets \cup {"rev"} |->
                     IF k = "rev" THEN (n1 :> revs[1] @@ n2 :> revs[2])
                     ELSE IF k \in DOMAIN r THEN r[k] ELSE 0]
Alone == <<1, None>>
Scens == {
    \* edits on both sides, and frames lost on the way
    With(Alone, [edit |-> 1, web |-> 1, lost |-> 1]),
    With(Alone, [web |-> 2, lost |-> 1, late |-> 1]),
    \* ... and a collector or a node that starts again
    With(Alone, [edit |-> 1, web |-> 1, lost |-> 1, restart |-> 1]),
    With(Alone, [edit |-> 1, web |-> 1, cold |-> 1, flash |-> 1]),
    \* a store that is busy, or cannot be written
    With(Alone, [edit |-> 1, web |-> 1, busy |-> 1]),
    With(Alone, [edit |-> 1, web |-> 1, write |-> 1]),
    \* revisions about to wrap
    With(<<7, None>>, [edit |-> 1, web |-> 2]),
    \* two nodes at once
    With(<<0, 0>>, [lost |-> 0]),
    With(<<1, 0>>, [edit |-> 1]),
    With(<<1, 1>>, [edit |-> 2]),
    \* a handover: with an edit, a lost frame, a cancel, two nodes
    With(Alone, [handover |-> 1, edit |-> 1, lost |-> 1]),
    With(Alone, [handover |-> 2, edit |-> 1]),
    With(Alone, [handover |-> 1, web |-> 1]),
    With(<<1, 2>>, [handover |-> 1]),
    \* forgotten, and paired again
    With(Alone, [forget |-> 1, pair |-> 1, lost |-> 1])}
=============================================================================
