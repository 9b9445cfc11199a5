---------------------------- MODULE RemoteIngest ----------------------------
(***************************************************************************)
(* The collector's table of what its remote nodes reported                 *)
(* (src/src/sensors/RemoteIngest): one mailbox slot per (node, metric)     *)
(* pair, claimed first come first served and never given back, and one     *)
(* queue of backdated readings that every node shares.  Each operator here *)
(* is one critical section under the spinlock _mux, so each is one step of *)
(* the modules that use it.                                                *)
(***************************************************************************)
EXTENDS Integers, Sequences, FiniteSets

CONSTANTS
    Senders,      \* ids of the nodes that report readings, over HTTP or ESP-NOW
    Metrics,      \* metric names
    MaxEntries,   \* MAX_ENTRIES: mailbox slots
    MaxHistory,   \* MAX_HISTORY: queued backdated readings
    Nothing       \* the absent value

ASSUME IngestAssumption ==
    /\ MaxEntries \in Nat
    /\ MaxHistory \in Nat \ {0}

VARIABLES
    pairs,        \* _e[].used, nodeId, metric: pairs[i] is the owner of slot i
    box,          \* _e[].live, value, ts: when the slot's value was taken
    hist          \* _h, _hHead, _hCount: the queue, oldest first

ingestVars == <<pairs, box, hist>>

Pair  == Senders \X Metrics
Slots == 1..MaxEntries

\* A queued reading names its node and metric by their slot; t is when it was
\* taken and ts the date the collector derived for it.
Queued == [slot : Slots, t : Nat, ts : Nat]

IngestTypeOK ==
    /\ pairs \in Seq(Pair)
    /\ Len(pairs) <= MaxEntries
    /\ box \in [Slots -> Nat \cup {Nothing}]
    /\ hist \in Seq(Queued)

IngestInit ==
    /\ pairs = <<>>
    /\ box = [s \in Slots |-> Nothing]
    /\ hist = <<>>

-----------------------------------------------------------------------------

SlotsOf(table, n, m) == {s \in DOMAIN table : table[s] = <<n, m>>}

\* Fault: the table takes one pair more than it has slots.
ClaimBeyond(n, m) ==
    IF SlotsOf(pairs, n, m) # {} \/ Len(pairs) > MaxEntries
    THEN pairs
    ELSE Append(pairs, <<n, m>>)

\* The table after _slot(n, m): the pair's own slot, else the first free one,
\* else the table as it was and no slot.
Claim(n, m) ==
    IF SlotsOf(pairs, n, m) # {} \/ Len(pairs) >= MaxEntries
    THEN pairs
    ELSE Append(pairs, <<n, m>>)

HasSlot(n, m) == SlotsOf(Claim(n, m), n, m) # {}

\* Fault: the room of an empty queue.
HistoryRoomOfEmpty == MaxHistory

HistoryRoom == IF Len(hist) < MaxHistory THEN MaxHistory - Len(hist) ELSE 0

\* put(): the pair's slot is overwritten; refused (false) when it has none.
Put(n, m, t) ==
    /\ pairs' = Claim(n, m)
    /\ box' = [s \in Slots |-> IF s \in SlotsOf(Claim(n, m), n, m) THEN t ELSE box[s]]
    /\ UNCHANGED hist

\* putHistoricalEx() sheds the oldest queued reading, whoever's it is, when
\* there is no room for the new one.
Sheds(n, m) == HasSlot(n, m) /\ Len(hist) >= MaxHistory

Kept(n, m) == IF Sheds(n, m) THEN Tail(hist) ELSE hist

PutHistorical(n, m, t, ts) ==
    /\ pairs' = Claim(n, m)
    /\ \/ /\ ~HasSlot(n, m)                          \* HistPut::Refused
          /\ UNCHANGED hist
       \/ \E s \in SlotsOf(Claim(n, m), n, m) :      \* Queued, or Shed
             hist' = Append(Kept(n, m), [slot |-> s, t |-> t, ts |-> ts])
    /\ UNCHANGED box

\* The node a queued reading is handed out under: whoever owns its slot now.
Owner(q) == pairs[q.slot][1]

OwnQueued(n) == {i \in DOMAIN hist : Owner(hist[i]) = n}

\* Fault: the newest leave first.
LeavingNewest(n, k) == {i \in OwnQueued(n) : Cardinality({j \in OwnQueued(n) : j > i}) < k}

\* drainHistory(n, out, k): the oldest k of the node's own entries leave, the
\* other nodes' are stepped over and keep their order.
Leaving(n, k) == {i \in OwnQueued(n) : Cardinality({j \in OwnQueued(n) : j < i}) < k}

DrainHistory(n, k) ==
    LET staying == DOMAIN hist \ Leaving(n, k) IN
    /\ \E f \in [1..Cardinality(staying) -> staying] :
          /\ \A i, j \in DOMAIN f : i < j => f[i] < f[j]
          /\ hist' = [i \in DOMAIN f |-> hist[f[i]]]
    /\ UNCHANGED <<pairs, box>>
=============================================================================
