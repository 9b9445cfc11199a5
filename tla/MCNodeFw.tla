------------------------------ MODULE MCNodeFw ------------------------------
(* Small instances of NodeFirmware. *)
EXTENDS NodeFirmware

CONSTANTS n1, n2, old, good, better, deaf, crash, noload, corrupt, big

With(link, nodes, first, uploads, r) ==
    [link |-> link, nodes |-> nodes, first |-> first, uploads |-> uploads,
     mains |-> "mains" \in DOMAIN r,
     left |-> [k \in Budgets |-> IF k \in DOMAIN r THEN r[k] ELSE 0]]
One == {n1}
Scens == {
    \* over the radio: a good image and frames lost or late; images that must
    \* not stay
    With("radio", One, good, {}, [lost |-> 1, late |-> 1, mains |-> 1]),
    With("radio", One, deaf, {}, [start |-> 1]),
    With("radio", One, deaf, {}, [mains |-> 1, cut |-> 1]),
    With("radio", One, crash, {}, [lost |-> 1]),
    With("radio", One, noload, {}, [cut |-> 1]),
    With("radio", One, corrupt, {}, [start |-> 1, lost |-> 1]),
    \* the page works on the image and the rollout meanwhile
    With("radio", One, good, {better}, [upload |-> 1, budget |-> 1]),
    With("radio", One, good, {better}, [delete |-> 1, upload |-> 1]),
    With("radio", One, good, {}, [cancel |-> 1, start |-> 1]),
    With("radio", One, good, {}, [floor |-> 1, flat |-> 2]),
    \* restarts, and troubles of the card, the flash, memory and the store
    With("radio", One, good, {}, [restart |-> 1, budget |-> 1]),
    With("radio", One, good, {better}, [torn |-> 1]),
    With("radio", One, good, {}, [flash |-> 1, nvs |-> 1]),
    With("radio", One, good, {}, [busy |-> 1, heap |-> 1, read |-> 1]),
    \* the node's own page, and two nodes at once
    With("radio", One, good, {better}, [local |-> 1, budget |-> 1, mains |-> 1]),
    With("radio", One, good, {}, [partial |-> 1, budget |-> 1, mains |-> 1]),
    With("radio", {n1, n2}, corrupt, {}, [late |-> 0]),
    \* over WiFi
    With("wifi", One, good, {better}, [upload |-> 1, start |-> 1, late |-> 1, read |-> 1]),
    With("wifi", One, big, {good}, [upload |-> 1, start |-> 1, late |-> 1, lost |-> 1]),
    With("wifi", One, good, {better}, [torn |-> 1, cancel |-> 1, cut |-> 1]),
    With("wifi", One, good, {better}, [restart |-> 1, busy |-> 1, cut |-> 1, upload |-> 1]),
    With("wifi", One, good, {better}, [upload |-> 1, write |-> 1, restart |-> 1]),
    With("wifi", {n1, n2}, big, {}, [start |-> 1, write |-> 1, restart |-> 1])}

\* One at a time: the store busy as a failure is told; an upload that breaks
\* off; an attempt that could not be saved; power lost between switch and trial.
Busy == {With("wifi", One, big, {}, [busy |-> 1])}
BrokenOff == {With("radio", One, good, {}, [partial |-> 1, budget |-> 1, mains |-> 1])}
Unsaved == {With("wifi", One, big, {}, [start |-> 2, write |-> 1, restart |-> 1])}
Gap == {With("radio", One, deaf, {}, [cut |-> 1, gap |-> 1])}
=============================================================================
