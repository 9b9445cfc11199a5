------------------------------- MODULE Custody -------------------------------
(***************************************************************************)
(* What store-and-forward promises, whatever is between the two ends: a    *)
(* reading is held by the node that took it until the collector has it, or *)
(* until it is given up openly.  StoreForward implements this.             *)
(***************************************************************************)
CONSTANT Readings

VARIABLES
    known,    \* readings taken so far
    held,     \* still in a node's buffer
    stored,   \* the collector has it or has handed it on
    gone      \* given up

vars == <<known, held, stored, gone>>

Init == known = {} /\ held = {} /\ stored = {} /\ gone = {}

\* New readings enter a buffer, which may give up some of what it holds.
Take(S, D) ==
    /\ S \cap known = {}
    /\ D \subseteq held \cup S
    /\ known' = known \cup S
    /\ held' = (held \cup S) \ D
    /\ gone' = gone \cup D
    /\ UNCHANGED stored

\* The collector takes readings over, at the cost of others if it must.
Store(S, D) ==
    /\ S \subseteq known
    /\ D \subseteq stored \cup S
    /\ stored \cup S \subseteq stored' \cup D
    /\ stored' \subseteq stored \cup S
    /\ gone' = gone \cup D
    /\ UNCHANGED <<known, held>>

\* A node forgets what has been stored or given up, and nothing else.
Forget(S) ==
    /\ S \subseteq held \cap (stored \cup gone)
    /\ held' = held \ S
    /\ UNCHANGED <<known, stored, gone>>

\* A node restarts.
Abandon(D) ==
    /\ D \subseteq held
    /\ held' = held \ D
    /\ gone' = gone \cup D
    /\ UNCHANGED <<known, stored>>

Next ==
    \/ \E S, D \in SUBSET Readings : Take(S, D) \/ Store(S, D)
    \/ \E S \in SUBSET Readings : Forget(S) \/ Abandon(S)

Spec == Init /\ [][Next]_vars
==============================================================================
