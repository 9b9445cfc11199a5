------------------------- MODULE StoreForwardProofs -------------------------
(***************************************************************************)
(* For every instance of StoreForward: the variables keep their types,     *)
(* neither queue outgrows its array, a batch sheds no more readings than   *)
(* ESP-NOW queued during it (first part); no reading vanishes between a    *)
(* node's ring and the collector's sensor task, none overtakes an older    *)
(* one of its sensor, and the whole implements Custody (second part).      *)
(***************************************************************************)
EXTENDS StoreForward, FiniteSetTheorems, SequenceTheorems, TLAPS

-----------------------------------------------------------------------------
(* The table and the queue.                                                *)

\* What the queue names its readings by is there.
SlotsClaimed == \A i \in 1..Len(hist) : hist[i].slot \in 1..Len(pairs)

\* _slot() leaves a table of pairs no longer than the slots it stands for.
LEMMA ClaimType ==
    ASSUME IngestTypeOK, NEW n \in Senders, NEW m \in Metrics
    PROVE  /\ Claim(n, m) \in Seq(Pair)
           /\ Len(Claim(n, m)) <= MaxEntries
           /\ Len(Claim(n, m)) >= Len(pairs)
           /\ DOMAIN Claim(n, m) \subseteq Slots
           /\ SlotsOf(Claim(n, m), n, m) \subseteq Slots
<1>1. Claim(n, m) \in Seq(Pair) /\ Len(Claim(n, m)) <= MaxEntries /\ Len(Claim(n, m)) >= Len(pairs)
    BY IngestAssumption, StoreForwardAssumption DEF IngestTypeOK, Claim, Pair
<1>2. DOMAIN Claim(n, m) = 1..Len(Claim(n, m)) /\ Len(Claim(n, m)) \in Nat
    BY <1>1
<1>3. DOMAIN Claim(n, m) \subseteq Slots
    BY <1>1, <1>2, IngestAssumption, StoreForwardAssumption DEF Slots
<1> QED BY <1>1, <1>3 DEF SlotsOf

\* put() keeps the table's types and leaves the queue alone.
LEMMA PutType ==
    ASSUME IngestTypeOK, SlotsClaimed,
           NEW n \in Senders, NEW m \in Metrics, NEW t \in Nat, Put(n, m, t)
    PROVE  IngestTypeOK' /\ SlotsClaimed'
<1>1. pairs' \in Seq(Pair) /\ Len(pairs') <= MaxEntries
    BY ClaimType DEF Put
<1>2. box' \in [Slots -> Nat \cup {Nothing}]
    BY DEF Put, IngestTypeOK
<1>3. hist' \in Seq(Queued) /\ hist' = hist
    BY DEF Put, IngestTypeOK
<1>4. Len(pairs') \in Nat /\ Len(pairs) \in Nat /\ Len(pairs) <= Len(pairs')
    BY <1>1, ClaimType DEF Put, IngestTypeOK
<1>5. SlotsClaimed'
    BY <1>3, <1>4 DEF SlotsClaimed, IngestTypeOK
<1> QED BY <1>1, <1>2, <1>3, <1>5 DEF IngestTypeOK

\* putHistoricalEx() keeps the types; the queue grows by the one reading it
\* takes, unless it is full, and then it sheds one for it.
LEMMA PutHistoricalType ==
    ASSUME IngestTypeOK, SlotsClaimed, Len(hist) <= MaxHistory,
           NEW n \in Senders, NEW m \in Metrics, NEW t \in Nat, NEW ts \in Nat,
           PutHistorical(n, m, t, ts)
    PROVE  /\ IngestTypeOK' /\ SlotsClaimed'
           /\ Len(hist') = IF HasSlot(n, m) /\ ~Sheds(n, m) THEN Len(hist) + 1 ELSE Len(hist)
           /\ Len(hist') <= MaxHistory
<1>1. pairs' \in Seq(Pair) /\ Len(pairs') <= MaxEntries
    BY ClaimType DEF PutHistorical
<1>2. box' \in [Slots -> Nat \cup {Nothing}]
    BY DEF PutHistorical, IngestTypeOK
<1>3. hist \in Seq(Queued) /\ Len(hist) \in Nat
    BY DEF IngestTypeOK
<1>4. /\ hist' \in Seq(Queued)
      /\ Len(hist') = IF HasSlot(n, m) /\ ~Sheds(n, m) THEN Len(hist) + 1 ELSE Len(hist)
      /\ Len(hist') <= MaxHistory
      /\ SlotsClaimed'
    <2>0. /\ Len(pairs') \in Nat /\ Len(pairs) \in Nat /\ Len(pairs) <= Len(pairs')
          /\ DOMAIN Claim(n, m) = 1..Len(pairs')
        BY <1>1, ClaimType DEF PutHistorical, IngestTypeOK
    <2>1. CASE ~HasSlot(n, m)
        <3>1. hist' = hist
            BY <2>1 DEF PutHistorical, HasSlot
        <3>2. SlotsClaimed'
            BY <3>1, <2>0, <1>3 DEF SlotsClaimed
        <3> QED BY <2>1, <3>1, <3>2, <1>3
    <2>2. CASE HasSlot(n, m)
        <3>1. PICK s \in SlotsOf(Claim(n, m), n, m) :
                 hist' = Append(Kept(n, m), [slot |-> s, t |-> t, ts |-> ts])
            BY <2>2 DEF PutHistorical
        <3>2. [slot |-> s, t |-> t, ts |-> ts] \in Queued
            BY ClaimType DEF Queued
        <3>2a. s \in 1..Len(pairs')
            BY <2>0 DEF SlotsOf
        <3>3. CASE Sheds(n, m)
            <4>1. hist # <<>> /\ Len(hist) = MaxHistory
                BY <3>3, <1>3, IngestAssumption, StoreForwardAssumption DEF Sheds
            <4>2. Kept(n, m) \in Seq(Queued) /\ Len(Kept(n, m)) = Len(hist) - 1
                BY <3>3, <4>1, <1>3 DEF Kept
            <4>3. \A i \in 1..Len(Kept(n, m)) : Kept(n, m)[i] = hist[i + 1] /\ i + 1 \in 1..Len(hist)
                BY <3>3, <4>1, <4>2, <1>3 DEF Kept
            <4>4. SlotsClaimed'
                <5>1. /\ Len(hist') = Len(hist) /\ hist'[Len(hist)].slot = s
                      /\ \A i \in 1..(Len(hist) - 1) : hist'[i] = hist[i + 1] /\ i + 1 \in 1..Len(hist)
                    BY <3>1, <3>2, <4>1, <4>2, <4>3, <1>3
                <5>2. \A i \in 1..Len(hist) : i = Len(hist) \/ i \in 1..(Len(hist) - 1)
                    BY <1>3
                <5> QED BY <5>1, <5>2, <3>2a, <2>0 DEF SlotsClaimed
            <4> QED BY <3>1, <3>2, <3>3, <4>1, <4>2, <4>4, <1>3, <2>2
        <3>4. CASE ~Sheds(n, m)
            <4>1. Kept(n, m) = hist /\ Len(hist) < MaxHistory
                BY <3>4, <2>2, <1>3, IngestAssumption, StoreForwardAssumption DEF Kept, Sheds
            <4>2. SlotsClaimed'
                BY <3>1, <3>2a, <4>1, <2>0, <1>3 DEF SlotsClaimed
            <4> QED BY <3>1, <3>2, <3>4, <4>1, <4>2, <1>3, <2>2, IngestAssumption, StoreForwardAssumption
        <3> QED BY <3>3, <3>4
    <2> QED BY <2>1, <2>2
<1> QED BY <1>1, <1>2, <1>4 DEF IngestTypeOK

\* drainHistory() keeps the types and never lengthens the queue.
LEMMA DrainType ==
    ASSUME IngestTypeOK, SlotsClaimed, NEW n \in Senders, NEW k \in Nat, DrainHistory(n, k)
    PROVE  IngestTypeOK' /\ SlotsClaimed' /\ Len(hist') <= Len(hist)
<1> DEFINE staying == DOMAIN hist \ Leaving(n, k)
<1>1. hist \in Seq(Queued) /\ Len(hist) \in Nat /\ DOMAIN hist = 1..Len(hist)
    BY DEF IngestTypeOK
<1>2. IsFiniteSet(DOMAIN hist) /\ Cardinality(DOMAIN hist) = Len(hist)
    <2>1. 1 \in Int /\ Len(hist) \in Int
        BY <1>1
    <2>2. /\ IsFiniteSet(1..Len(hist))
          /\ Cardinality(1..Len(hist)) = IF 1 > Len(hist) THEN 0 ELSE Len(hist) - 1 + 1
        BY <2>1, FS_Interval, Zenon
    <2> QED BY <2>2, <1>1
<1>3. /\ IsFiniteSet(staying) /\ Cardinality(staying) \in Nat
      /\ Cardinality(staying) <= Len(hist)
    BY <1>2, FS_Subset, FS_CardinalityType
<1>4. PICK f \in [1..Cardinality(staying) -> staying] :
         hist' = [i \in DOMAIN f |-> hist[f[i]]]
    BY DEF DrainHistory
<1>5. hist' = [i \in 1..Cardinality(staying) |-> hist[f[i]]]
    BY <1>4
<1>6. \A i \in 1..Cardinality(staying) :
         hist[f[i]] \in Queued /\ hist[f[i]].slot \in 1..Len(pairs)
    <2> TAKE i \in 1..Cardinality(staying)
    <2>1. f[i] \in staying
        BY <1>4
    <2>2. f[i] \in 1..Len(hist)
        BY <2>1, <1>1
    <2> QED BY <2>2, <1>1 DEF SlotsClaimed
<1> HIDE DEF staying
<1>7. hist' \in Seq(Queued) /\ Len(hist') = Cardinality(staying)
    BY <1>3, <1>5, <1>6
<1>8. pairs' = pairs /\ box' = box
    BY DEF DrainHistory
<1>9. SlotsClaimed'
    BY <1>5, <1>6, <1>7, <1>8 DEF SlotsClaimed
<1> QED BY <1>3, <1>7, <1>8, <1>9 DEF IngestTypeOK

-----------------------------------------------------------------------------
(* The ring.                                                               *)

\* Ring::push never holds more than CAPACITY readings, whatever it is given.
LEMMA PushedType ==
    ASSUME NEW r \in Seq(Reading), NEW new \in Seq(Reading)
    PROVE  /\ Pushed(r, new) \in Seq(Reading)
           /\ Len(Pushed(r, new)) <= Capacity
           /\ Overrun(r, new) \subseteq Reading
           /\ \A i \in 1..Len(Pushed(r, new)) :
                 \/ \E j \in 1..Len(r) : Pushed(r, new)[i] = r[j]
                 \/ \E j \in 1..Len(new) : Pushed(r, new)[i] = new[j]
<1> DEFINE all == r \o new
<1>1. all \in Seq(Reading) /\ Len(all) = Len(r) + Len(new) /\ Len(r) \in Nat /\ Len(new) \in Nat
    OBVIOUS
<1>2. \A i \in 1..Len(all) : all[i] = IF i <= Len(r) THEN r[i] ELSE new[i - Len(r)]
    OBVIOUS
<1>3. \A i \in 1..Len(all) : all[i] \in Reading
    BY <1>1
<1>4. \A i \in 1..Len(all) :
         \/ \E j \in 1..Len(r) : all[i] = r[j]
         \/ \E j \in 1..Len(new) : all[i] = new[j]
    BY <1>1, <1>2
<1>5. Overrun(r, new) \subseteq Reading
    BY <1>1, <1>3, IngestAssumption, StoreForwardAssumption DEF Overrun
<1> HIDE DEF all
<1>6. CASE Len(all) > Capacity
    <2>1. Pushed(r, new) = SubSeq(all, Len(all) - Capacity + 1, Len(all))
        BY <1>6 DEF Pushed, all
    <2>2. /\ Pushed(r, new) \in Seq(Reading)
          /\ Len(Pushed(r, new)) = Capacity
          /\ \A i \in 1..Capacity : Pushed(r, new)[i] = all[Len(all) - Capacity + i]
        BY <2>1, <1>1, <1>3, <1>6, IngestAssumption, StoreForwardAssumption
    <2>3. \A i \in 1..Capacity : Len(all) - Capacity + i \in 1..Len(all)
        BY <1>1, <1>6, IngestAssumption, StoreForwardAssumption
    <2>4. ASSUME NEW i \in 1..Len(Pushed(r, new))
          PROVE  \/ \E j \in 1..Len(r) : Pushed(r, new)[i] = r[j]
                 \/ \E j \in 1..Len(new) : Pushed(r, new)[i] = new[j]
        <3>1. i \in 1..Capacity
            BY <2>2
        <3>2. /\ Pushed(r, new)[i] = all[Len(all) - Capacity + i]
              /\ Len(all) - Capacity + i \in 1..Len(all)
            BY <2>2, <2>3, <3>1
        <3> QED BY <3>2, <1>4, Zenon
    <2>5. Len(Pushed(r, new)) <= Capacity
        BY <2>2
    <2> QED BY <2>2, <2>4, <2>5, <1>5, Zenon
<1>7. CASE Len(all) <= Capacity
    <2>1. Pushed(r, new) = all
        BY <1>7, <1>1, IngestAssumption, StoreForwardAssumption DEF Pushed, all
    <2> QED BY <2>1, <1>1, <1>4, <1>5, <1>7
<1>8. Len(all) > Capacity \/ Len(all) <= Capacity
    BY <1>1, IngestAssumption, StoreForwardAssumption
<1> QED BY <1>6, <1>7, <1>8, Zenon

-----------------------------------------------------------------------------

\* Readings carry a time that has passed, so their ages are not negative.
TakenInPast ==
    \A n \in WifiNodes : \A i \in 1..Len(ring[n]) : ring[n][i].t <= clock

\* What the next-state relation preserves.
Inv ==
    /\ TypeOK /\ SlotsClaimed /\ TakenInPast
    /\ QueuesBounded /\ OvershootBounded /\ RoomPromised

\* The invariant holds of the empty rings, queue and table of a fresh start.
LEMMA InitInv == Init => Inv
<1> SUFFICES ASSUME Init PROVE Inv
    OBVIOUS
<1>1. IngestTypeOK
    BY IngestAssumption, StoreForwardAssumption DEF Init, IngestInit, IngestTypeOK, Pair, Slots
<1>2. /\ ring \in [WifiNodes -> Seq(Reading)] /\ node \in [WifiNodes -> NodeState]
      /\ request \in [WifiNodes -> Seq(Offered) \cup {Nothing}]
      /\ reply \in [WifiNodes -> Reply \cup {Nothing}]
    BY DEF Init, Asleep, NodeState
<1>2a. TypeOK
    BY <1>1, <1>2 DEF Init, TypeOK
<1>3. Len(hist) = 0 /\ \A n \in WifiNodes : Len(ring[n]) = 0
    BY DEF Init, IngestInit
<1> QED BY <1>2a, <1>3, IngestAssumption, StoreForwardAssumption DEF Inv, SlotsClaimed, TakenInPast, QueuesBounded, OvershootBounded, RoomPromised, Init

\* One reading more in the queue, or one shed for it, and what was promised.
LEMMA OneMore ==
    ASSUME NEW shed \in Nat, NEW raced \in Nat, NEW room \in Nat, NEW n \in Nat, NEW most \in Nat,
           shed <= raced, shed + n + room <= most + raced
    PROVE  /\ shed <= raced + 1 /\ shed + (n + 1) + room <= most + (raced + 1)
           /\ shed + 1 <= raced + 1 /\ (shed + 1) + n + room <= most + (raced + 1)
           /\ shed + (n + 1) + (room - 1) <= most + raced
OBVIOUS

\* A cycle of the node's loop touches nothing of the collector.
LEMMA WakeInv == ASSUME Inv, NEW n \in WifiNodes, Wake(n) PROVE Inv'
<1> USE DEF Inv
<1>1. Sample(n) \in Seq(Reading) /\ \A i \in 1..Len(Sample(n)) : Sample(n)[i].t = clock
    <2>1. DOMAIN Report = 1..Len(Report) /\ Len(Report) \in Nat
        OBVIOUS
    <2>2. \A i \in 1..Len(Report) : [n |-> n, m |-> Report[i], t |-> clock] \in Reading
        <3>0. Report \in Seq(Metrics)
            BY StoreForwardAssumption
        <3>1. \A i \in 1..Len(Report) : Report[i] \in Metrics
            BY <3>0
        <3>2. clock \in Nat
            BY DEF TypeOK
        <3>3. n \in Senders
            BY StoreForwardAssumption
        <3> HIDE DEF Inv
        <3> QED BY <3>1, <3>2, <3>3 DEF Reading
    <2> QED BY <2>1, <2>2 DEF Sample
<1>2. ring[n] \in Seq(Reading) /\ clock \in Nat
    BY DEF TypeOK
<1>3. Pushed(ring[n], Sample(n)) \in Seq(Reading) /\ Len(Pushed(ring[n], Sample(n))) <= Capacity
    BY <1>1, <1>2, PushedType
<1>3a. ring' = [ring EXCEPT ![n] = Pushed(@, Sample(n))] \/ ring' = ring
    BY DEF Wake
<1>3b. ring' \in [WifiNodes -> Seq(Reading)]
    BY <1>3, <1>3a DEF TypeOK
<1>4. taken' \subseteq Reading /\ lost' \subseteq Reading
    <2>1. {Sample(n)[i] : i \in DOMAIN Report} \subseteq Reading
        BY <1>1 DEF Sample
    <2> QED BY <1>1, <1>2, <2>1, PushedType DEF Wake, TypeOK
<1>5. node' \in [WifiNodes -> NodeState]
    <2>1. [stage |-> "flush", batches |-> BatchesPerCycle, sent |-> 0] \in NodeState
        BY IngestAssumption, StoreForwardAssumption DEF NodeState
    <2> QED BY <2>1 DEF Wake, TypeOK
<1>6. TypeOK'
    BY <1>3b, <1>4, <1>5 DEF Wake, TypeOK, IngestTypeOK, ingestVars, netVars, boundVars
<1>7. \A k \in WifiNodes : Len(ring'[k]) <= Capacity
    BY <1>3, <1>3a DEF TypeOK, QueuesBounded
<1>8. ASSUME NEW k \in WifiNodes, NEW i \in 1..Len(ring'[k])
      PROVE  ring'[k][i].t <= clock'
    <2>1. CASE ring' = ring
        BY <2>1 DEF TakenInPast, Wake
    <2>2. CASE ring' = [ring EXCEPT ![n] = Pushed(@, Sample(n))] /\ k = n
        <3>1. ring'[k] = Pushed(ring[n], Sample(n))
            BY <2>2 DEF TypeOK
        <3>2. \/ \E j \in 1..Len(ring[n]) : ring'[k][i] = ring[n][j]
              \/ \E j \in 1..Len(Sample(n)) : ring'[k][i] = Sample(n)[j]
            <4>1. \A j \in 1..Len(Pushed(ring[n], Sample(n))) :
                     \/ \E l \in 1..Len(ring[n]) : Pushed(ring[n], Sample(n))[j] = ring[n][l]
                     \/ \E l \in 1..Len(Sample(n)) : Pushed(ring[n], Sample(n))[j] = Sample(n)[l]
                BY <1>1, <1>2, PushedType
            <4> QED BY <3>1, <4>1, Zenon
        <3>3. \A j \in 1..Len(ring[n]) : ring[n][j].t <= clock
            BY DEF TakenInPast
        <3> QED BY <3>2, <3>3, <1>1, <1>2 DEF Wake
    <2>3. CASE ring' = [ring EXCEPT ![n] = Pushed(@, Sample(n))] /\ k # n
        BY <2>3 DEF TakenInPast, TypeOK, Wake
    <2> QED BY <2>1, <2>2, <2>3 DEF Wake
<1>9. hist' = hist /\ pairs' = pairs /\ job' = job
    BY DEF Wake, ingestVars
<1> QED BY <1>6, <1>7, <1>8, <1>9 DEF SlotsClaimed, TakenInPast, QueuesBounded, OvershootBounded, RoomPromised

\* A POST takes a copy of the front of the ring.
LEMMA PostInv == ASSUME Inv, NEW n \in WifiNodes, Post(n) PROVE Inv'
<1> USE DEF Inv
<1>1. PICK k \in 1..SendCount(n) :
         /\ node' = [node EXCEPT ![n] = [stage |-> "wait", batches |-> @.batches, sent |-> k]]
         /\ request' = [request EXCEPT ![n] =
               [i \in 1..k |-> [m |-> ring[n][i].m, t |-> ring[n][i].t,
                                age |-> clock - ring[n][i].t]]]
    BY DEF Post
<1>2. ring[n] \in Seq(Reading) /\ clock \in Nat /\ Len(ring[n]) \in Nat
    BY DEF TypeOK
<1>3. k \in Nat /\ k <= Len(ring[n])
    BY <1>2, IngestAssumption, StoreForwardAssumption DEF SendCount
<1>4. \A i \in 1..k : [m |-> ring[n][i].m, t |-> ring[n][i].t,
                        age |-> clock - ring[n][i].t] \in Offered
    <2> TAKE i \in 1..k
    <2>1. i \in 1..Len(ring[n])
        BY <1>2, <1>3
    <2>2. ring[n][i] \in Reading /\ ring[n][i].t <= clock
        BY <2>1, <1>2 DEF TakenInPast
    <2> QED BY <2>2, <1>2 DEF Reading, Offered
<1>5. [i \in 1..k |-> [m |-> ring[n][i].m, t |-> ring[n][i].t,
                       age |-> clock - ring[n][i].t]] \in Seq(Offered)
    BY <1>3, <1>4
<1>6. request' \in [WifiNodes -> Seq(Offered) \cup {Nothing}]
    BY <1>1, <1>5 DEF TypeOK
<1>7. node' \in [WifiNodes -> NodeState]
    BY <1>1, <1>3 DEF TypeOK, NodeState
<1>8. TypeOK'
    BY <1>6, <1>7 DEF Post, TypeOK, IngestTypeOK, ingestVars, ledgerVars, boundVars
<1>9. ring' = ring /\ clock' = clock /\ hist' = hist /\ pairs' = pairs /\ job' = job
    BY DEF Post, ingestVars
<1> QED BY <1>8, <1>9 DEF SlotsClaimed, TakenInPast, QueuesBounded, OvershootBounded, RoomPromised

\* A reply only shortens the ring it is about.
LEMMA ReadReplyInv == ASSUME Inv, NEW n \in WifiNodes, ReadReply(n) PROVE Inv'
<1> USE DEF Inv
<1> DEFINE k    == Consumed(n)
           left == SubSeq(ring[n], k + 1, Len(ring[n]))
<1>1. ring[n] \in Seq(Reading) /\ Len(ring[n]) \in Nat /\ node[n] \in NodeState /\ reply[n] \in Reply
    BY DEF TypeOK, ReadReply
<1>2. k \in Nat
    BY <1>1 DEF Consumed, NodeState, Reply
<1>3. /\ left \in Seq(Reading)
      /\ Len(left) <= Len(ring[n])
      /\ \A i \in 1..Len(left) : k + i \in 1..Len(ring[n]) /\ left[i] = ring[n][k + i]
    <2> HIDE DEF k
    <2>1. \A i \in (k + 1)..Len(ring[n]) : ring[n][i] \in Reading
        BY <1>1, <1>2
    <2>2. k + 1 \in Int /\ Len(ring[n]) \in Int
        BY <1>1, <1>2
    <2>3. /\ left \in Seq(Reading)
          /\ Len(left) = IF k + 1 <= Len(ring[n]) THEN Len(ring[n]) - (k + 1) + 1 ELSE 0
          /\ \A i \in 1..(Len(ring[n]) - (k + 1) + 1) : left[i] = ring[n][(k + 1) + i - 1]
        BY <2>1, <2>2, SubSeqProperties
    <2> HIDE DEF left
    <2>4. Len(left) <= Len(ring[n])
        BY <2>3, <1>1, <1>2
    <2>5. ASSUME NEW i \in 1..Len(left)
          PROVE  k + i \in 1..Len(ring[n]) /\ left[i] = ring[n][k + i]
        <3>1. i \in 1..(Len(ring[n]) - (k + 1) + 1) /\ (k + 1) + i - 1 = k + i
            BY <2>3, <1>1, <1>2
        <3> QED BY <3>1, <2>3, <1>1, <1>2
    <2> QED BY <2>3, <2>4, <2>5
<1>4. ring' = [ring EXCEPT ![n] = left] \/ ring' = ring
    BY DEF ReadReply
<1> HIDE DEF left
<1>5. ring' \in [WifiNodes -> Seq(Reading)] /\ \A x \in WifiNodes : Len(ring'[x]) <= Len(ring[x])
    <2>1. ring' \in [WifiNodes -> Seq(Reading)]
        BY <1>3, <1>4 DEF TypeOK
    <2>2. ASSUME NEW x \in WifiNodes PROVE Len(ring'[x]) <= Len(ring[x])
        <3>1. ring'[x] = ring[x] \/ (x = n /\ ring'[x] = left)
            BY <1>4 DEF TypeOK
        <3>1a. Len(left) <= Len(ring[n])
            BY <1>3
        <3>2. Len(ring[x]) \in Nat
            BY DEF TypeOK
        <3>3. CASE ring'[x] = ring[x]
            BY <3>2, <3>3
        <3>4. CASE x = n /\ ring'[x] = left
            BY <3>1a, <3>4
        <3> QED BY <3>1, <3>3, <3>4
    <2> QED BY <2>1, <2>2
<1>6. node' \in [WifiNodes -> NodeState]
    <2>1. /\ Asleep \in NodeState
          /\ node[n].batches > 1 => [stage |-> "flush", batches |-> node[n].batches - 1, sent |-> 0] \in NodeState
        BY <1>1 DEF NodeState, Asleep
    <2>2. PICK x \in NodeState : node' = [node EXCEPT ![n] = x]
        <3>1. CASE reply[n].ok /\ k = node[n].sent /\ node[n].batches > 1 /\ left # <<>>
            BY <3>1, <2>1 DEF ReadReply, left
        <3>2. CASE reply[n].ok /\ ~(k = node[n].sent /\ node[n].batches > 1 /\ left # <<>>)
            BY <3>2, <2>1 DEF ReadReply, left
        <3>3. CASE ~reply[n].ok
            BY <3>3, <2>1 DEF ReadReply
        <3> QED BY <3>1, <3>2, <3>3
    <2> QED BY <2>2 DEF TypeOK
<1>7. unread' \subseteq Reading
    <2>1. CASE unread' = unread
        BY <2>1 DEF TypeOK
    <2>2. CASE unread' = unread \cup Dropped(n, k)
        <3>1. Dropped(n, k) \subseteq Reading
            BY <1>1 DEF Dropped
        <3> QED BY <2>2, <3>1 DEF TypeOK
    <2> QED BY <2>1, <2>2 DEF ReadReply
<1>8. reply' \in [WifiNodes -> Reply \cup {Nothing}]
    BY DEF ReadReply, TypeOK
<1>9. TypeOK'
    BY <1>5, <1>6, <1>7, <1>8 DEF ReadReply, TypeOK, IngestTypeOK, ingestVars, boundVars
<1>10. ASSUME NEW x \in WifiNodes, NEW i \in 1..Len(ring'[x]) PROVE ring'[x][i].t <= clock'
    <2>1. CASE ring'[x] = ring[x]
        BY <2>1 DEF TakenInPast, ReadReply
    <2>2. CASE ring'[x] = left /\ x = n
        BY <2>2, <1>3 DEF TakenInPast, ReadReply
    <2> QED BY <2>1, <2>2, <1>4 DEF TypeOK
<1>11. hist' = hist /\ pairs' = pairs /\ job' = job
    BY DEF ReadReply, ingestVars
<1>12. \A x \in WifiNodes : Len(ring'[x]) <= Capacity
    <2> TAKE x \in WifiNodes
    <2>1. Len(ring[x]) \in Nat /\ Len(ring'[x]) \in Nat /\ Len(ring[x]) <= Capacity
        BY <1>5 DEF TypeOK, QueuesBounded
    <2> QED BY <2>1, <1>5, IngestAssumption, StoreForwardAssumption
<1> QED BY <1>9, <1>10, <1>11, <1>12 DEF SlotsClaimed, TakenInPast, QueuesBounded, OvershootBounded, RoomPromised

\* The node's other steps leave the ring, or empty it, and at most tell the
\* handler that nobody waits for its answer any more.
LEMMA HungUpType ==
    ASSUME Inv, NEW n \in WifiNodes, job' = HungUp(n)
    PROVE  /\ job' \in Job \cup {Nothing}
           /\ job' # Nothing => /\ job # Nothing /\ job'.room = job.room
                               /\ job'.raced = job.raced /\ job'.shed = job.shed
<1>1. CASE job = Nothing
    BY <1>1 DEF HungUp
<1>2. CASE job # Nothing /\ job.n # n
    BY <1>2 DEF HungUp, Inv, TypeOK
<1>3. CASE job # Nothing /\ job.n = n
    <2>1. job \in Job /\ job' = [job EXCEPT !.open = FALSE]
        BY <1>3 DEF HungUp, Inv, TypeOK
    <2>2. job' \in Job
        BY <2>1, Zenon DEF Job
    <2>3. job'.room = job.room /\ job'.raced = job.raced /\ job'.shed = job.shed
        BY <2>1, Zenon DEF Job
    <2> QED BY <2>2, <2>3, <1>3
<1> QED BY <1>1, <1>2, <1>3

\* Sleeping, timing out and restarting keep the invariant.
LEMMA NodeRestInv ==
    ASSUME Inv, NEW n \in WifiNodes, PostNothing(n) \/ Timeout(n) \/ RestartNode(n)
    PROVE  Inv'
<1> USE DEF Inv
<1>1. CASE PostNothing(n)
    <2>1. node' \in [WifiNodes -> NodeState]
        BY <1>1 DEF PostNothing, TypeOK, Asleep, NodeState
    <2>2. TypeOK'
        BY <1>1, <2>1 DEF PostNothing, TypeOK, IngestTypeOK, netVars, ingestVars, ledgerVars, boundVars
    <2> QED BY <1>1, <2>2 DEF PostNothing, ingestVars, SlotsClaimed, TakenInPast, QueuesBounded, OvershootBounded, RoomPromised
<1>2. CASE Timeout(n)
    <2>1. /\ node' \in [WifiNodes -> NodeState]
          /\ request' \in [WifiNodes -> Seq(Offered) \cup {Nothing}]
          /\ reply' \in [WifiNodes -> Reply \cup {Nothing}]
        BY <1>2 DEF Timeout, TypeOK, Asleep, NodeState
    <2>2. /\ job' \in Job \cup {Nothing}
          /\ job' # Nothing => /\ job # Nothing /\ job'.room = job.room
                              /\ job'.raced = job.raced /\ job'.shed = job.shed
        BY <1>2, HungUpType DEF Timeout
    <2>3. TypeOK'
        BY <1>2, <2>1, <2>2 DEF Timeout, TypeOK, IngestTypeOK, ingestVars, ledgerVars, boundVars
    <2> QED BY <1>2, <2>2, <2>3 DEF Timeout, ingestVars, SlotsClaimed, TakenInPast, QueuesBounded, OvershootBounded, RoomPromised
<1>3. CASE RestartNode(n)
    <2>1. /\ node' \in [WifiNodes -> NodeState]
          /\ request' \in [WifiNodes -> Seq(Offered) \cup {Nothing}]
          /\ reply' \in [WifiNodes -> Reply \cup {Nothing}]
        BY <1>3 DEF RestartNode, TypeOK, Asleep, NodeState
    <2>2. /\ job' \in Job \cup {Nothing}
          /\ job' # Nothing => /\ job # Nothing /\ job'.room = job.room
                              /\ job'.raced = job.raced /\ job'.shed = job.shed
        BY <1>3, HungUpType DEF RestartNode
    <2>3. ring' = [ring EXCEPT ![n] = <<>>]
        BY <1>3 DEF RestartNode
    <2>4. ring' \in [WifiNodes -> Seq(Reading)] /\ lost' \subseteq Reading /\ crashes' \in Nat
        <3>1. {ring[n][i] : i \in DOMAIN ring[n]} \subseteq Reading
            BY DEF TypeOK
        <3> QED BY <1>3, <3>1 DEF RestartNode, TypeOK
    <2>5. TypeOK'
        BY <1>3, <2>1, <2>2, <2>4 DEF RestartNode, TypeOK, IngestTypeOK, ingestVars
    <2>6. \A x \in WifiNodes : ring'[x] = ring[x] \/ ring'[x] = <<>>
        BY <2>3 DEF TypeOK
    <2>7. TakenInPast' /\ QueuesBounded' /\ SlotsClaimed'
        BY <1>3, <2>6, IngestAssumption, StoreForwardAssumption DEF RestartNode, ingestVars, SlotsClaimed, TakenInPast, QueuesBounded
    <2> QED BY <1>3, <2>2, <2>5, <2>7 DEF RestartNode, ingestVars, OvershootBounded, RoomPromised
<1> QED BY <1>1, <1>2, <1>3

\* Taking up a request, or refusing one.
LEMMA BeginInv == ASSUME Inv, NEW n \in WifiNodes, Begin(n) PROVE Inv'
<1> USE DEF Inv
<1>1. Len(hist) \in Nat /\ Len(hist) <= MaxHistory /\ hist \in Seq(Queued)
    BY DEF TypeOK, IngestTypeOK, QueuesBounded
<1>2. HistoryRoom \in Nat /\ Len(hist) + HistoryRoom = MaxHistory
    BY <1>1, IngestAssumption, StoreForwardAssumption DEF HistoryRoom
<1>3. /\ job' \in Job
      /\ job'.room = HistoryRoom /\ job'.raced = 0 /\ job'.shed = 0
    BY <1>2 DEF Begin, TypeOK, Job, NowEpoch
<1>4. request' \in [WifiNodes -> Seq(Offered) \cup {Nothing}]
    BY DEF Begin, TypeOK
<1>5. TypeOK'
    BY <1>3, <1>4 DEF Begin, TypeOK, IngestTypeOK, nodeVars, ingestVars, ledgerVars, boundVars
<1>6. hist' = hist /\ pairs' = pairs /\ ring' = ring /\ clock' = clock
    BY DEF Begin, nodeVars, ingestVars
<1> QED BY <1>1, <1>2, <1>3, <1>5, <1>6 DEF SlotsClaimed, TakenInPast, QueuesBounded, OvershootBounded, RoomPromised

\* The end of a batch, and a 200 damaged on its way, keep the invariant.
LEMMA AnswerInv ==
    ASSUME Inv, Answer \/ \E n \in WifiNodes : Refuse(n) \/ Garble(n)
    PROVE  Inv'
<1> USE DEF Inv
<1>1. [ok |-> FALSE, accepted |-> Nothing] \in Reply /\ [ok |-> TRUE, accepted |-> Nothing] \in Reply
    BY DEF Reply
<1>2. job # Nothing => [ok |-> TRUE, accepted |-> job.accepted] \in Reply
    BY DEF Reply, TypeOK, Job
<1>3. /\ reply' \in [WifiNodes -> Reply \cup {Nothing}]
      /\ request' \in [WifiNodes -> Seq(Offered) \cup {Nothing}]
      /\ job' = job \/ job' = Nothing
  <2>1. /\ reply \in [WifiNodes -> Reply \cup {Nothing}]
        /\ request \in [WifiNodes -> Seq(Offered) \cup {Nothing}]
    BY DEF TypeOK
  <2>2. CASE Answer
    <3>1. request' = request /\ job' = Nothing
      BY <2>2 DEF Answer
    <3>2. reply' \in [WifiNodes -> Reply \cup {Nothing}]
      BY <1>2, <2>1, <2>2 DEF Answer
    <3> QED BY <2>1, <3>1, <3>2
  <2>3. ASSUME NEW n \in WifiNodes, Refuse(n)
        PROVE  /\ reply' \in [WifiNodes -> Reply \cup {Nothing}]
               /\ request' \in [WifiNodes -> Seq(Offered) \cup {Nothing}]
               /\ job' = job
    <3>1. reply' \in [WifiNodes -> Reply \cup {Nothing}]
      BY <1>1, <2>1, <2>3 DEF Refuse
    <3>2. request' \in [WifiNodes -> Seq(Offered) \cup {Nothing}] /\ job' = job
      BY <2>1, <2>3 DEF Refuse
    <3> QED BY <3>1, <3>2
  <2>4. ASSUME NEW n \in WifiNodes, Garble(n)
        PROVE  /\ reply' \in [WifiNodes -> Reply \cup {Nothing}]
               /\ request' = request /\ job' = job
    BY <1>1, <2>1, <2>4 DEF Garble
  <2> QED BY <2>1, <2>2, <2>3, <2>4
<1>4. TypeOK'
    BY <1>3 DEF Answer, Refuse, Garble, TypeOK, IngestTypeOK, nodeVars, ingestVars, ledgerVars, boundVars
<1>5. hist' = hist /\ pairs' = pairs /\ ring' = ring /\ clock' = clock
    BY DEF Answer, Refuse, Garble, nodeVars, ingestVars
<1> QED BY <1>3, <1>4, <1>5 DEF SlotsClaimed, TakenInPast, QueuesBounded, OvershootBounded, RoomPromised

-----------------------------------------------------------------------------
(* The walk of a batch.                                                    *)

\* What a step of the walk may count on.
LEMMA HereType ==
    ASSUME Inv, NEW pass, Walking(pass)
    PROVE  /\ job \in Job /\ job # Nothing /\ job.i \in Nat /\ job.accepted \in Nat
           /\ job.room \in Nat /\ job.raced \in Nat /\ job.shed \in Nat /\ job.base \in Nat
           /\ job.n \in Senders /\ job.n \in WifiNodes /\ job.batch \in Seq(Offered)
           /\ Here \in Offered /\ Here.m \in Metrics /\ Here.t \in Nat /\ Here.age \in Nat
           /\ HereReading \in Reading
<1>1. job \in Job /\ job # Nothing
    BY DEF Inv, TypeOK, Walking
<1>2. job.i \in Nat \ {0} /\ job.batch \in Seq(Offered) /\ Len(job.batch) \in Nat /\ job.i <= Len(job.batch)
    BY <1>1 DEF Job, Walking
<1>3. job.i \in 1..Len(job.batch)
    BY <1>2
<1>4. Here \in Offered
    BY <1>2, <1>3 DEF Here
<1>5. job.n \in Senders
    BY <1>1, IngestAssumption, StoreForwardAssumption DEF Job
<1> HIDE DEF Here
<1>6. Here.m \in Metrics /\ Here.t \in Nat /\ Here.age \in Nat
    BY <1>4 DEF Offered
<1>7. HereReading \in Reading
    BY <1>5, <1>6 DEF HereReading, Reading
<1> QED BY <1>1, <1>2, <1>4, <1>5, <1>6, <1>7 DEF Job, Inv, RoomPromised

\* The mailbox write of a walk keeps the types and the queue.
LEMMA StoreCurrentType ==
    ASSUME Inv, NEW pass, Walking(pass), StoreCurrent
    PROVE  /\ IngestTypeOK' /\ SlotsClaimed' /\ hist' = hist
           /\ current' \subseteq Reading /\ lost' \subseteq Reading
<1>1. Put(job.n, Here.m, Here.t)
    BY DEF StoreCurrent
<1>2. IngestTypeOK' /\ SlotsClaimed'
    BY <1>1, HereType, PutType DEF Inv, TypeOK
<1>3. current' \subseteq Reading /\ lost' \subseteq Reading
    BY HereType DEF StoreCurrent, Inv, TypeOK
<1> QED BY <1>1, <1>2, <1>3 DEF Put

\* The next element of the batch.
LEMMA StepType ==
    ASSUME NEW j \in Job
    PROVE  /\ [j EXCEPT !.i = @ + 1] \in Job
           /\ [j EXCEPT !.i = @ + 1].room = j.room
           /\ [j EXCEPT !.i = @ + 1].raced = j.raced
           /\ [j EXCEPT !.i = @ + 1].shed = j.shed
<1>1. j.i + 1 \in Nat \ {0}
    BY DEF Job
<1>2. [j EXCEPT !.i = @ + 1] \in Job
    BY <1>1, Zenon DEF Job
<1> QED BY <1>2, Zenon DEF Job

\* The first pass writes mailbox slots and may claim one; the queue is as it was.
LEMMA LivePassInv == ASSUME Inv, LivePass PROVE Inv'
<1>1. Walking("live") /\ job' = [job EXCEPT !.i = @ + 1]
    BY DEF LivePass
<1>2. /\ job' \in Job /\ job # Nothing
      /\ job'.room = job.room /\ job'.raced = job.raced /\ job'.shed = job.shed
    BY <1>1, HereType, StepType, Zenon
<1>3. /\ IngestTypeOK' /\ SlotsClaimed' /\ hist' = hist
      /\ current' \subseteq Reading /\ lost' \subseteq Reading
    <2>1. CASE StoreCurrent
        BY <1>1, <2>1, StoreCurrentType
    <2>2. CASE UNCHANGED <<ingestVars, current, lost>>
        BY <2>2 DEF Inv, TypeOK, IngestTypeOK, SlotsClaimed, ingestVars
    <2> QED BY <2>1, <2>2 DEF LivePass
<1>4. TypeOK'
    BY <1>2, <1>3 DEF LivePass, Inv, TypeOK, nodeVars, netVars, boundVars
<1>5. ring' = ring /\ clock' = clock
    BY DEF LivePass, nodeVars
<1> QED BY <1>2, <1>3, <1>4, <1>5 DEF Inv, SlotsClaimed, TakenInPast, QueuesBounded, OvershootBounded, RoomPromised

\* The two steps of the walk that only change its pass.
LEMMA PassEndsInv == ASSUME Inv, LivePassEnds \/ HoldRest PROVE Inv'
<1>1. job \in Job /\ job # Nothing
    BY DEF LivePassEnds, HoldRest, Walking, Inv, TypeOK
<1>2. 1 \in Nat \ {0}
    OBVIOUS
<1>3. /\ job' \in Job /\ job'.room = job.room
      /\ job'.raced = job.raced /\ job'.shed = job.shed
    <2>1. CASE job' = [job EXCEPT !.pass = "prefix", !.i = 1]
        <3>1. job' \in Job
            BY <1>1, <1>2, <2>1, Zenon DEF Job
        <3> QED BY <1>1, <2>1, <3>1, Zenon DEF Job
    <2>2. CASE job' = [job EXCEPT !.pass = "answer"]
        <3>1. job' \in Job
            BY <1>1, <2>2, Zenon DEF Job
        <3> QED BY <1>1, <2>2, <3>1, Zenon DEF Job
    <2> QED BY <2>1, <2>2 DEF LivePassEnds, HoldRest
<1>4. UNCHANGED <<clock, synced, nodeVars, netVars, ingestVars, ledgerVars, boundVars>>
    BY DEF LivePassEnds, HoldRest
<1>5. TypeOK'
    BY <1>3, <1>4 DEF Inv, TypeOK, IngestTypeOK, nodeVars, netVars, ingestVars, ledgerVars, boundVars
<1> QED BY <1>1, <1>3, <1>4, <1>5 DEF nodeVars, ingestVars, Inv, SlotsClaimed, TakenInPast, QueuesBounded, OvershootBounded, RoomPromised

\* What the queue holds of the WiFi nodes are readings.
LEMMA OfWifiType ==
    ASSUME Inv, NEW S, S \subseteq DOMAIN hist
    PROVE  OfWifi(S) \subseteq Reading
<1>1. /\ hist \in Seq(Queued) /\ pairs \in Seq(Pair)
      /\ DOMAIN hist = 1..Len(hist)
    BY DEF Inv, TypeOK, IngestTypeOK
<1> SUFFICES ASSUME NEW i \in DOMAIN hist
             PROVE  [n |-> Owner(hist[i]), m |-> pairs[hist[i].slot][2], t |-> hist[i].t] \in Reading
    BY DEF OfWifi
<1>2. hist[i] \in Queued /\ hist[i].slot \in 1..Len(pairs)
    BY <1>1 DEF Inv, SlotsClaimed
<1>3. pairs[hist[i].slot] \in Pair /\ hist[i].t \in Nat
    BY <1>1, <1>2 DEF Queued
<1> QED BY <1>3 DEF Owner, Pair, Reading

\* The reading a put sheds is one of a known sender and metric.
LEMMA ShedByType ==
    ASSUME Inv, NEW n, NEW m
    PROVE  ShedBy(n, m) \subseteq Reading
<1>1. CASE Sheds(n, m)
    <2>1. hist \in Seq(Queued) /\ Len(hist) \in Nat /\ 1 \in DOMAIN hist
        BY <1>1, IngestAssumption, StoreForwardAssumption DEF Inv, TypeOK, IngestTypeOK, Sheds
    <2> QED BY <1>1, <2>1, OfWifiType DEF ShedBy
<1>2. CASE ~Sheds(n, m)
    BY <1>2 DEF ShedBy
<1> QED BY <1>1, <1>2

\* A queued element of the batch uses up room that was there, except for what
\* an ESP-NOW frame took; only then is a reading shed for it.
LEMMA QueueBackfillInv ==
    ASSUME Inv, Walking("prefix"), ~MustHold, IsBackfill(job.batch, job.i), QueueBackfill
    PROVE  /\ IngestTypeOK' /\ SlotsClaimed' /\ Len(hist') <= MaxHistory
           /\ job' \in Job /\ OvershootBounded' /\ RoomPromised'
           /\ current' \subseteq Reading /\ lost' \subseteq Reading
<1> DEFINE slot == HasSlot(job.n, Here.m)
           shed == Sheds(job.n, Here.m)
           room == IF slot THEN job.room - 1 ELSE job.room
           lost1 == IF shed THEN job.shed + 1 ELSE job.shed
<1>1. /\ job \in Job /\ job # Nothing /\ job.i \in Nat /\ job.accepted \in Nat
      /\ job.room \in Nat /\ job.raced \in Nat /\ job.shed \in Nat /\ job.base \in Nat
      /\ job.n \in Senders /\ Here.m \in Metrics /\ Here.t \in Nat /\ Here.age \in Nat
    BY HereType
<1>2. job.room > 0
    BY <1>1 DEF MustHold
<1>3. When(job.batch, job.i) \in Nat
    BY <1>1 DEF When, IsBackfill, Here
<1>4. Len(hist) \in Nat /\ Len(hist) <= MaxHistory
    BY DEF Inv, TypeOK, IngestTypeOK, QueuesBounded
<1>5. PutHistorical(job.n, Here.m, Here.t, When(job.batch, job.i))
    BY DEF QueueBackfill
<1>6. /\ IngestTypeOK' /\ SlotsClaimed'
      /\ Len(hist') = IF slot /\ ~shed THEN Len(hist) + 1 ELSE Len(hist)
      /\ Len(hist') <= MaxHistory
    BY <1>1, <1>3, <1>4, <1>5, PutHistoricalType DEF Inv, TypeOK
<1>7. shed => slot /\ Len(hist) >= MaxHistory
    BY DEF Sheds
<1>8. current' \subseteq Reading /\ lost' \subseteq Reading
    BY <1>1, HereType, ShedByType DEF QueueBackfill, Inv, TypeOK
<1>9. job' = [job EXCEPT !.i = @ + 1, !.accepted = @ + 1, !.room = IF slot THEN @ - 1 ELSE @,
                         !.shed = IF shed THEN @ + 1 ELSE @]
    BY DEF QueueBackfill
<1> HIDE DEF slot, shed
<1>10. job.i + 1 \in Nat \ {0} /\ job.accepted + 1 \in Nat /\ room \in Int /\ lost1 \in Nat
    BY <1>1
<1>11. job' = [job EXCEPT !.i = job.i + 1, !.accepted = job.accepted + 1, !.room = room, !.shed = lost1]
    BY <1>9, Zenon
<1> HIDE DEF room, lost1
<1>12. job' \in Job
    BY <1>1, <1>10, <1>11, Zenon DEF Job
<1>13. job'.raced = job.raced
    BY <1>1, <1>11, Zenon DEF Job
<1>14. job'.room = room
    BY <1>1, <1>11, Zenon DEF Job
<1>15. job'.shed = lost1
    BY <1>1, <1>11, Zenon DEF Job
<1>16. job.shed + Len(hist) + job.room <= MaxHistory + job.raced /\ job.shed <= job.raced
    BY <1>1 DEF Inv, RoomPromised, OvershootBounded
<1>17. lost1 <= job.raced /\ room >= 0 /\ lost1 + Len(hist') + room <= MaxHistory + job.raced
    <2>1. CASE shed
        <3>1. slot /\ Len(hist) = MaxHistory /\ Len(hist') = MaxHistory
            BY <1>4, <1>6, <1>7, <2>1, IngestAssumption, StoreForwardAssumption
        <3>2. room = job.room - 1 /\ lost1 = job.shed + 1
            BY <2>1, <3>1 DEF room, lost1
        <3>3. job.room \in Nat /\ job.raced \in Nat /\ job.shed \in Nat /\ MaxHistory \in Nat
            BY <1>1, IngestAssumption, StoreForwardAssumption
        <3>4. job.room - 1 >= 0
            BY <1>2, <3>3
        <3>5. job.shed + 1 <= job.raced
            BY <1>2, <1>16, <3>1, <3>3
        <3>6. (job.shed + 1) + MaxHistory + (job.room - 1) <= MaxHistory + job.raced
            BY <1>2, <1>16, <3>1, <3>3
        <3> QED BY <3>1, <3>2, <3>4, <3>5, <3>6
    <2>2. CASE ~shed /\ slot
        <3>1. Len(hist') = Len(hist) + 1
            BY <1>6, <2>2
        <3>2. room = job.room - 1 /\ lost1 = job.shed
            BY <2>2 DEF room, lost1
        <3>3. job.room \in Nat /\ job.raced \in Nat /\ job.shed \in Nat /\ MaxHistory \in Nat
            BY <1>1, IngestAssumption, StoreForwardAssumption
        <3>4. job.room - 1 >= 0
            BY <1>2, <3>3
        <3>5. Len(hist) \in Nat
            BY <1>4
        <3>7. job.shed + (Len(hist) + 1) + (job.room - 1) <= MaxHistory + job.raced
            BY <1>16, <3>3, <3>5, OneMore, Zenon
        <3> QED BY <1>16, <3>1, <3>2, <3>4, <3>7
    <2>3. CASE ~shed /\ ~slot
        BY <1>1, <1>4, <1>6, <1>16, <2>3 DEF room, lost1
    <2> QED BY <2>1, <2>2, <2>3
<1>18. OvershootBounded' /\ RoomPromised'
    BY <1>13, <1>14, <1>15, <1>17 DEF OvershootBounded, RoomPromised
<1> QED BY <1>6, <1>8, <1>12, <1>18

\* An element of the second pass: queued against the room, or skipped.
LEMMA PrefixPassInv == ASSUME Inv, PrefixPass PROVE Inv'
<1>1. /\ job \in Job /\ job # Nothing /\ job.i \in Nat /\ job.accepted \in Nat
      /\ Walking("prefix") /\ ~MustHold
    BY HereType DEF PrefixPass
<1>2. UNCHANGED <<clock, synced, nodeVars, netVars, taken, recorded, unread, boundVars>>
    BY DEF PrefixPass
<1>3. /\ IngestTypeOK' /\ SlotsClaimed' /\ Len(hist') <= MaxHistory
      /\ job' \in Job /\ OvershootBounded' /\ RoomPromised'
      /\ current' \subseteq Reading /\ lost' \subseteq Reading
    <2>1. CASE IsBackfill(job.batch, job.i)
        BY <1>1, <2>1, QueueBackfillInv DEF PrefixPass
    <2>2. CASE ~IsBackfill(job.batch, job.i)
        <3>1. job' = [job EXCEPT !.i = @ + 1, !.accepted = @ + 1]
            BY <2>2 DEF PrefixPass
        <3>2. job.i + 1 \in Nat \ {0} /\ job.accepted + 1 \in Nat
            BY <1>1
        <3>3. job' \in Job
            BY <1>1, <3>1, <3>2, Zenon DEF Job
        <3>4. job'.room = job.room /\ job'.raced = job.raced /\ job'.shed = job.shed
            BY <1>1, <3>1, Zenon DEF Job
        <3>5. CASE StoreCurrent
            <4>1. /\ IngestTypeOK' /\ SlotsClaimed' /\ hist' = hist
                  /\ current' \subseteq Reading /\ lost' \subseteq Reading
                BY <1>1, <3>5, StoreCurrentType
            <4> QED BY <1>1, <3>3, <3>4, <4>1 DEF Inv, QueuesBounded, OvershootBounded, RoomPromised
        <3>6. CASE UNCHANGED <<ingestVars, current, lost>>
            BY <1>1, <3>3, <3>4, <3>6 DEF Inv, TypeOK, IngestTypeOK, SlotsClaimed, ingestVars, QueuesBounded, OvershootBounded, RoomPromised
        <3> QED BY <2>2, <3>5, <3>6 DEF PrefixPass
    <2> QED BY <2>1, <2>2
<1>4. TypeOK'
    BY <1>2, <1>3 DEF Inv, TypeOK, nodeVars, netVars, boundVars
<1> QED BY <1>2, <1>3, <1>4 DEF Inv, TakenInPast, QueuesBounded, nodeVars

-----------------------------------------------------------------------------
(* The collector's other tasks.                                            *)

\* The bill of a frame that lands during a batch is charged to `raced'.
LEMMA EspNowInv ==
    ASSUME Inv, NEW n \in EspNodes, NEW m \in Metrics, EspNowHistory(n, m)
    PROVE  Inv'
<1> DEFINE slot == HasSlot(n, m)
           shed == Sheds(n, m)
           raced1 == IF slot THEN job.raced + 1 ELSE job.raced
           shed1  == IF shed THEN job.shed + 1 ELSE job.shed
<1>1. clock \in Nat /\ NowEpoch \in Nat /\ n \in Senders
    BY DEF Inv, TypeOK, NowEpoch, EspNodes
<1>2. Len(hist) \in Nat /\ Len(hist) <= MaxHistory
    BY DEF Inv, TypeOK, IngestTypeOK, QueuesBounded
<1>3. /\ IngestTypeOK' /\ SlotsClaimed'
      /\ Len(hist') = IF slot /\ ~shed THEN Len(hist) + 1 ELSE Len(hist)
      /\ Len(hist') <= MaxHistory
    BY <1>1, <1>2, PutHistoricalType DEF EspNowHistory, Inv, TypeOK
<1>4. shed => slot /\ Len(hist) >= MaxHistory
    BY DEF Sheds
<1>5. lost' \subseteq Reading /\ espPuts' \in Nat
    BY ShedByType DEF EspNowHistory, Inv, TypeOK
<1> HIDE DEF slot, shed
<1>6. job' \in Job \cup {Nothing} /\ OvershootBounded' /\ RoomPromised'
    <2>1. CASE job = Nothing
        BY <2>1 DEF EspNowHistory, OvershootBounded, RoomPromised
    <2>2. CASE job # Nothing
        <3>1. job \in Job /\ job.raced \in Nat /\ job.shed \in Nat /\ job.room \in Int
            BY <2>2 DEF Inv, TypeOK, Job
        <3>2. job' = [job EXCEPT !.raced = raced1, !.shed = shed1]
            BY <2>2 DEF EspNowHistory, slot, shed
        <3>3. raced1 \in Nat /\ shed1 \in Nat
            BY <3>1
        <3> HIDE DEF raced1, shed1
        <3>4. job' \in Job
            BY <3>1, <3>2, <3>3, Zenon DEF Job
        <3>5. job'.raced = raced1
            BY <3>1, <3>2, Zenon DEF Job
        <3>6. job'.shed = shed1
            BY <3>1, <3>2, Zenon DEF Job
        <3>7. job'.room = job.room
            BY <3>1, <3>2, Zenon DEF Job
        <3>8. job.shed + Len(hist) + job.room <= MaxHistory + job.raced /\ job.shed <= job.raced /\ job.room >= 0
            BY <2>2 DEF Inv, RoomPromised, OvershootBounded
        <3>9. shed1 <= raced1 /\ shed1 + Len(hist') + job.room <= MaxHistory + raced1
            <4>0. /\ Len(hist) \in Nat /\ MaxHistory \in Nat /\ job.raced \in Nat /\ job.shed \in Nat
                  /\ job.room \in Nat
                BY <1>2, <3>1, <3>8, IngestAssumption, StoreForwardAssumption
            <4>1. CASE shed
                <5>1. slot /\ raced1 = job.raced + 1 /\ shed1 = job.shed + 1
                    BY <1>4, <4>1 DEF raced1, shed1
                <5>2. Len(hist') = Len(hist)
                    BY <1>3, <4>1, <5>1
                <5>3. /\ job.shed + 1 <= job.raced + 1
                      /\ (job.shed + 1) + Len(hist) + job.room <= MaxHistory + (job.raced + 1)
                    BY <3>8, <4>0, OneMore, Zenon
                <5> QED BY <5>1, <5>2, <5>3, Zenon
            <4>2. CASE ~shed /\ slot
                <5>1. raced1 = job.raced + 1 /\ shed1 = job.shed
                    BY <4>2 DEF raced1, shed1
                <5>2. Len(hist') = Len(hist) + 1
                    BY <1>3, <4>2
                <5>3. /\ job.shed <= job.raced + 1
                      /\ job.shed + (Len(hist) + 1) + job.room <= MaxHistory + (job.raced + 1)
                    BY <3>8, <4>0, OneMore, Zenon
                <5> QED BY <5>1, <5>2, <5>3, Zenon
            <4>3. CASE ~shed /\ ~slot
                BY <1>2, <1>3, <3>1, <3>8, <4>3 DEF raced1, shed1
            <4> QED BY <4>1, <4>2, <4>3
        <3>10. OvershootBounded' /\ RoomPromised'
            BY <3>5, <3>6, <3>7, <3>8, <3>9 DEF OvershootBounded, RoomPromised
        <3> QED BY <3>4, <3>10
    <2> QED BY <2>1, <2>2
<1>7. UNCHANGED <<clock, synced, nodeVars, netVars, taken, current, recorded, unread, crashes>>
    BY DEF EspNowHistory
<1>8. TypeOK'
    BY <1>3, <1>5, <1>6, <1>7 DEF Inv, TypeOK, nodeVars, netVars
<1> QED BY <1>3, <1>6, <1>7, <1>8 DEF Inv, TakenInPast, QueuesBounded, nodeVars

\* The sensor task only takes readings out of the queue.
LEMMA SensorTickInv == ASSUME Inv, NEW n \in Listened, SensorTick(n) PROVE Inv'
<1>1. UNCHANGED <<clock, synced, nodeVars, netVars, job, taken, current, lost, unread, boundVars>>
    BY DEF SensorTick
<1>2. IngestTypeOK' /\ SlotsClaimed' /\ Len(hist') <= Len(hist) /\ Len(hist) \in Nat /\ Len(hist') \in Nat
    <2>1. DrainHistory(n, DrainRoom) /\ n \in Senders /\ DrainRoom \in Nat
        BY IngestAssumption, StoreForwardAssumption DEF SensorTick
    <2>2. IngestTypeOK' /\ SlotsClaimed' /\ Len(hist') <= Len(hist)
        BY <2>1, DrainType DEF Inv, TypeOK
    <2> QED BY <2>2 DEF IngestTypeOK, Inv, TypeOK
<1>3. recorded' \subseteq Reading
    <2>1. Leaving(n, DrainRoom) \subseteq DOMAIN hist
        BY DEF Leaving, OwnQueued
    <2> QED BY <2>1, OfWifiType DEF SensorTick, Inv, TypeOK
<1>4. TypeOK'
    BY <1>1, <1>2, <1>3 DEF Inv, TypeOK, nodeVars, netVars, boundVars
<1>5. QueuesBounded' /\ TakenInPast'
    <2>1. QueuesBounded'
        BY <1>1, <1>2, IngestAssumption, StoreForwardAssumption DEF Inv, QueuesBounded, nodeVars
    <2>2. TakenInPast'
        BY <1>1 DEF Inv, TakenInPast, nodeVars
    <2> QED BY <2>1, <2>2
<1>6. OvershootBounded' /\ RoomPromised'
    <2>1. job # Nothing => job.room \in Int /\ job.shed \in Nat /\ job.raced \in Nat
        BY DEF Inv, TypeOK, Job
    <2> QED BY <1>1, <1>2, <2>1, IngestAssumption, StoreForwardAssumption DEF Inv, OvershootBounded, RoomPromised
<1> QED BY <1>2, <1>4, <1>5, <1>6 DEF Inv

\* The clock, a restart of the collector and the passing of time keep the invariant.
LEMMA RestInv == ASSUME Inv, ClockSet \/ RestartCollector \/ Tick PROVE Inv'
<1>1. CASE ClockSet
    <2>1. TypeOK'
        BY <1>1 DEF ClockSet, Inv, TypeOK, IngestTypeOK, nodeVars, netVars, ingestVars, ledgerVars, boundVars
    <2> QED BY <1>1, <2>1 DEF ClockSet, nodeVars, ingestVars, Inv, SlotsClaimed, TakenInPast, QueuesBounded, OvershootBounded, RoomPromised
<1>2. CASE RestartCollector
    <2>1. lost' \subseteq Reading
        BY <1>2, OfWifiType DEF RestartCollector, Inv, TypeOK
    <2>2. IngestTypeOK' /\ SlotsClaimed' /\ Len(hist') = 0
        BY <1>2, IngestAssumption, StoreForwardAssumption DEF RestartCollector, IngestTypeOK, SlotsClaimed
    <2>3. /\ request' \in [WifiNodes -> Seq(Offered) \cup {Nothing}] /\ crashes' \in Nat
          /\ job' = Nothing /\ ring' = ring /\ clock' = clock
        BY <1>2 DEF RestartCollector, nodeVars, Inv, TypeOK
    <2>4. TypeOK'
        BY <1>2, <2>1, <2>2, <2>3 DEF RestartCollector, Inv, TypeOK, nodeVars
    <2> QED BY <2>2, <2>3, <2>4, IngestAssumption, StoreForwardAssumption DEF Inv, TakenInPast, QueuesBounded, OvershootBounded, RoomPromised
<1>3. CASE Tick
    <2>1. clock \in Nat /\ clock' = clock + 1 /\ ring' = ring
        BY <1>3 DEF Tick, Inv, TypeOK, nodeVars
    <2>2. TypeOK'
        BY <1>3, <2>1 DEF Tick, Inv, TypeOK, IngestTypeOK, nodeVars, netVars, ingestVars, ledgerVars, boundVars
    <2>3. TakenInPast'
        <3>1. \A n \in WifiNodes : \A i \in 1..Len(ring[n]) : ring[n][i] \in Reading
            BY DEF Inv, TypeOK
        <3>2. ASSUME NEW n \in WifiNodes, NEW i \in 1..Len(ring[n]) PROVE ring[n][i].t <= clock + 1
            <4>1. ring[n][i].t \in Nat /\ ring[n][i].t <= clock
                BY <3>1 DEF Reading, Inv, TakenInPast
            <4> QED BY <4>1, <2>1
        <3> QED BY <2>1, <3>2 DEF TakenInPast
    <2> QED BY <1>3, <2>2, <2>3 DEF Tick, nodeVars, ingestVars, Inv, SlotsClaimed, QueuesBounded, OvershootBounded, RoomPromised
<1> QED BY <1>1, <1>2, <1>3

-----------------------------------------------------------------------------

\* Nothing changes when nothing happens.
LEMMA StutterInv == ASSUME Inv, UNCHANGED vars PROVE Inv'
<1>1. TypeOK'
    BY DEF vars, Inv, TypeOK, IngestTypeOK, nodeVars, netVars, ingestVars, ledgerVars, boundVars
<1> QED BY <1>1 DEF vars, nodeVars, ingestVars, Inv, SlotsClaimed, TakenInPast, QueuesBounded, OvershootBounded, RoomPromised

\* The invariant is inductive.
LEMMA NextInv == Inv /\ [Next]_vars => Inv'
<1> SUFFICES ASSUME Inv, [Next]_vars PROVE Inv'
    OBVIOUS
<1>1. ASSUME NEW n \in WifiNodes, NodeStep(n) PROVE Inv'
    BY <1>1, WakeInv, PostInv, NodeRestInv, ReadReplyInv DEF NodeStep
<1>2. ASSUME NEW n \in WifiNodes, Timeout(n) \/ RestartNode(n) \/ Begin(n) \/ Refuse(n) \/ Garble(n)
      PROVE  Inv'
    BY <1>2, NodeRestInv, BeginInv, AnswerInv
<1>3. CASE HandlerStep
    BY <1>3, LivePassInv, PassEndsInv, PrefixPassInv, AnswerInv DEF HandlerStep
<1>4. ASSUME NEW n \in EspNodes, NEW m \in Metrics, EspNowHistory(n, m) PROVE Inv'
    BY <1>4, EspNowInv
<1>5. ASSUME NEW n \in Listened, SensorTick(n) PROVE Inv'
    BY <1>5, SensorTickInv
<1>6. CASE ClockSet \/ RestartCollector \/ Tick
    BY <1>6, RestInv
<1>7. CASE UNCHANGED vars
    BY <1>7, StutterInv
<1> QED BY <1>1, <1>2, <1>3, <1>4, <1>5, <1>6, <1>7, Zenon DEF Next

\* What the walk of a batch relies on holds in every state the program reaches.
THEOREM InvHolds == Spec => []Inv
<1> QED BY InitInv, NextInv, PTL DEF Spec

\* The variables keep the shape the code gives them, for every instance.
THEOREM TypeCorrect == Spec => []TypeOK
<1>1. Inv => TypeOK
    BY DEF Inv
<1> QED BY <1>1, InvHolds, PTL

\* No ring and no history queue outgrows its array.
THEOREM Bounded == Spec => []QueuesBounded
<1>1. Inv => QueuesBounded
    BY DEF Inv
<1> QED BY <1>1, InvHolds, PTL

\* The room promised to a batch is there but for what ESP-NOW took since.
THEOREM RoomKept == Spec => []RoomPromised
<1>1. Inv => RoomPromised
    BY DEF Inv
<1> QED BY <1>1, InvHolds, PTL

\* Over one batch no more readings are shed than ESP-NOW queued meanwhile.
THEOREM Overshoot == Spec => []OvershootBounded
<1>1. Inv => OvershootBounded
    BY DEF Inv
<1> QED BY <1>1, InvHolds, PTL

-----------------------------------------------------------------------------
(* Custody.  What the collector has, had or gave up only grows, so it is   *)
(* enough that each answer speaks of the front of the ring it will be      *)
(* applied to.  It does, because a node that waits keeps its ring, and its *)
(* batch is in one place at a time: the request, the walk or the reply.    *)

\* Readings that left the nodes' and the queue's care, one way or the other.
Settled == current \cup recorded \cup lost \cup unread

\* Readings their node need not keep.
Secured == Settled \cup OfWifi(DOMAIN hist)

\* The reading an element of node n's batch stands for, and a queue entry.
At(n, o)         == [n |-> n, m |-> o.m, t |-> o.t]
QueuedReading(i) == [n |-> pairs[hist[i].slot][1], m |-> pairs[hist[i].slot][2], t |-> hist[i].t]
Walked(i)        == At(job.n, job.batch[i])

Serves(n)   == job # Nothing /\ job.n = n /\ job.open
Front(n, b) == Len(b) <= Len(ring[n]) /\ \A i \in 1..Len(b) : ring[n][i] = At(n, b[i])
Older(q, r) == q.n = r.n /\ q.m = r.m /\ q.t < r.t

-----------------------------------------------------------------------------
(* The queue, as the readings it stands for.                               *)

\* OfWifi of the whole queue, entry by entry.
LEMMA OfWifiMember ==
    ASSUME Inv, NEW r
    PROVE  r \in OfWifi(DOMAIN hist) <=>
              \E i \in 1..Len(hist) : QueuedReading(i).n \in WifiNodes /\ r = QueuedReading(i)
<1>1. DOMAIN hist = 1..Len(hist)
    BY DEF Inv, TypeOK, IngestTypeOK
<1> QED BY <1>1 DEF OfWifi, Owner, QueuedReading

\* The same after the step.
LEMMA OfWifiMemberNext ==
    ASSUME Inv', NEW r
    PROVE  r \in OfWifi(DOMAIN hist)' <=>
              \E i \in 1..Len(hist') : QueuedReading(i)'.n \in WifiNodes /\ r = QueuedReading(i)'
<1>1. DOMAIN hist' = 1..Len(hist')
    BY DEF Inv, TypeOK, IngestTypeOK
<1> QED BY <1>1 DEF OfWifi, Owner, QueuedReading

\* A put leaves every claimed slot to its pair.
LEMMA ClaimKeeps ==
    ASSUME Inv, NEW n \in Senders, NEW m \in Metrics, pairs' = Claim(n, m)
    PROVE  \A s \in 1..Len(pairs) : s \in 1..Len(pairs') /\ pairs'[s] = pairs[s]
<1>1. pairs \in Seq(Pair) /\ Len(pairs) \in Nat /\ <<n, m>> \in Pair
    BY DEF Inv, TypeOK, IngestTypeOK, Pair
<1>2. CASE pairs' = pairs
    BY <1>1, <1>2
<1>3. CASE pairs' = Append(pairs, <<n, m>>)
    BY <1>1, <1>3
<1> QED BY <1>2, <1>3 DEF Claim

\* An entry that keeps its place in the queue keeps its reading.
LEMMA SameEntry ==
    ASSUME Inv, NEW i \in 1..Len(hist), NEW j, hist'[j] = hist[i],
           \A s \in 1..Len(pairs) : pairs'[s] = pairs[s]
    PROVE  QueuedReading(j)' = QueuedReading(i)
<1>1. hist[i].slot \in 1..Len(pairs)
    BY DEF Inv, SlotsClaimed
<1>2. pairs'[hist[i].slot] = pairs[hist[i].slot]
    BY <1>1
<1> QED BY <1>2 DEF QueuedReading

\* put() leaves the queue's readings as they are.
LEMMA PutQueue ==
    ASSUME Inv, NEW n \in Senders, NEW m \in Metrics, NEW t, Put(n, m, t)
    PROVE  /\ Len(hist') = Len(hist)
           /\ \A i \in 1..Len(hist) : QueuedReading(i)' = QueuedReading(i)
<1>1. hist' = hist /\ \A s \in 1..Len(pairs) : pairs'[s] = pairs[s]
    BY ClaimKeeps DEF Put
<1>2. ASSUME NEW i \in 1..Len(hist) PROVE QueuedReading(i)' = QueuedReading(i)
    BY <1>1, SameEntry
<1> QED BY <1>1, <1>2

\* putHistoricalEx() moves the queue up by the d readings it sheds and puts
\* the new one last, if the pair has a slot.
LEMMA PutHistoricalQueue ==
    ASSUME Inv, NEW n \in Senders, NEW m \in Metrics, NEW t \in Nat, NEW ts \in Nat,
           PutHistorical(n, m, t, ts),
           NEW d \in 0..1, d = 1 <=> Sheds(n, m)
    PROVE  /\ Len(hist') \in Nat
           /\ \A i \in 1..Len(hist) :
                 i > d => i - d \in 1..Len(hist') /\ QueuedReading(i - d)' = QueuedReading(i)
           /\ \A j \in 1..Len(hist') :
                 \/ j + d \in 1..Len(hist) /\ QueuedReading(j)' = QueuedReading(j + d)
                 \/ HasSlot(n, m) /\ j = Len(hist') /\ QueuedReading(j)' = [n |-> n, m |-> m, t |-> t]
           /\ HasSlot(n, m) => \E j \in 1..Len(hist') : QueuedReading(j)' = [n |-> n, m |-> m, t |-> t]
           /\ d = 1 => HasSlot(n, m) /\ 1 \in 1..Len(hist)
<1>1. hist \in Seq(Queued) /\ Len(hist) \in Nat
    BY DEF Inv, TypeOK, IngestTypeOK
<1>2. pairs' = Claim(n, m) /\ \A s \in 1..Len(pairs) : pairs'[s] = pairs[s]
    BY ClaimKeeps DEF PutHistorical
<1>3. CASE ~HasSlot(n, m)
    <2>0. ~Sheds(n, m)
        BY <1>3 DEF Sheds
    <2>1. hist' = hist /\ d = 0
        <3>1. d # 1
            BY <2>0, Zenon
        <3>2. hist' = hist
            BY <1>3 DEF PutHistorical, HasSlot
        <3> QED BY <3>1, <3>2
    <2>2. \A i \in 1..Len(hist) : QueuedReading(i)' = QueuedReading(i)
        BY <1>2, <2>1, SameEntry
    <2> QED BY <1>1, <1>3, <2>1, <2>2
<1>4. CASE HasSlot(n, m)
    <2>1. PICK s \in SlotsOf(Claim(n, m), n, m) :
             hist' = Append(Kept(n, m), [slot |-> s, t |-> t, ts |-> ts])
        BY <1>4 DEF PutHistorical
    <2>2. pairs'[s] = <<n, m>>
        BY <1>2, <2>1 DEF SlotsOf
    <2>3. /\ Kept(n, m) \in Seq(Queued) /\ Len(Kept(n, m)) = Len(hist) - d
          /\ \A i \in 1..(Len(hist) - d) : Kept(n, m)[i] = hist[i + d]
          /\ d = 1 => 1 \in 1..Len(hist)
        <3>1. CASE Sheds(n, m)
            <4>1. Len(hist) >= MaxHistory
                BY <3>1 DEF Sheds
            <4>2. d = 1
                BY <3>1, Zenon
            <4>3. hist # <<>> /\ Len(hist) >= 1
                BY <1>1, <4>1, IngestAssumption
            <4>4. Kept(n, m) = Tail(hist)
                BY <3>1 DEF Kept
            <4> QED BY <1>1, <4>2, <4>3, <4>4
        <3>2. CASE ~Sheds(n, m)
            BY <1>1, <3>2 DEF Kept
        <3> QED BY <3>1, <3>2
    <2>4. s \in Slots
        BY ClaimType, <2>1 DEF Inv, TypeOK
    <2>5. [slot |-> s, t |-> t, ts |-> ts] \in Queued
        BY <2>4 DEF Queued
    <2>6. /\ Len(hist') = Len(hist) - d + 1
          /\ \A i \in 1..(Len(hist) - d) : hist'[i] = hist[i + d]
          /\ hist'[Len(hist')] = [slot |-> s, t |-> t, ts |-> ts]
        BY <1>1, <2>1, <2>3, <2>5
    <2>7. ASSUME NEW j, j = Len(hist') PROVE QueuedReading(j)' = [n |-> n, m |-> m, t |-> t]
        <3>1. hist'[j] = [slot |-> s, t |-> t, ts |-> ts]
            BY <2>6, <2>7
        <3>2. hist'[j].slot = s /\ hist'[j].t = t
            BY <3>1
        <3>3. pairs'[s][1] = n /\ pairs'[s][2] = m
            BY <2>2
        <3> QED BY <3>2, <3>3 DEF QueuedReading
    <2>8. ASSUME NEW i \in 1..Len(hist), i > d
          PROVE  i - d \in 1..Len(hist') /\ QueuedReading(i - d)' = QueuedReading(i)
        <3>1. i - d \in 1..(Len(hist) - d) /\ (i - d) + d = i
            BY <1>1, <2>8
        <3>2. hist'[i - d] = hist[i]
            BY <2>6, <3>1
        <3> QED BY <1>1, <1>2, <2>6, <3>1, <3>2, SameEntry
    <2>9. ASSUME NEW j \in 1..Len(hist')
          PROVE  \/ j + d \in 1..Len(hist) /\ QueuedReading(j)' = QueuedReading(j + d)
                 \/ j = Len(hist') /\ QueuedReading(j)' = [n |-> n, m |-> m, t |-> t]
        <3>1. CASE j = Len(hist')
            BY <2>7, <3>1
        <3>2. CASE j # Len(hist')
            <4>1. j \in 1..(Len(hist) - d) /\ j + d \in 1..Len(hist)
                BY <1>1, <2>6, <3>2
            <4>2. hist'[j] = hist[j + d]
                BY <2>6, <4>1
            <4> QED BY <1>2, <4>1, <4>2, SameEntry
        <3> QED BY <3>1, <3>2
    <2>10. Len(hist') \in Nat /\ Len(hist') \in 1..Len(hist')
        BY <1>1, <2>3, <2>6
    <2>11. \E j \in 1..Len(hist') : QueuedReading(j)' = [n |-> n, m |-> m, t |-> t]
        BY <2>7, <2>10
    <2> QED BY <1>4, <2>3, <2>8, <2>9, <2>10, <2>11
<1> QED BY <1>3, <1>4

\* drainHistory() leaves the rest of the queue in its order.
LEMMA DrainQueue ==
    ASSUME Inv, NEW n \in Senders, NEW k \in Nat, DrainHistory(n, k)
    PROVE  /\ Len(hist') \in Nat
           /\ \A i \in 1..Len(hist) \ Leaving(n, k) :
                 \E j \in 1..Len(hist') : QueuedReading(j)' = QueuedReading(i)
           /\ \A j \in 1..Len(hist') : \E i \in 1..Len(hist) \ Leaving(n, k) :
                 /\ QueuedReading(j)' = QueuedReading(i)
                 /\ \A x \in 1..Len(hist) \ Leaving(n, k) : x < i =>
                       \E y \in 1..Len(hist') : y < j /\ QueuedReading(y)' = QueuedReading(x)
<1> DEFINE staying == DOMAIN hist \ Leaving(n, k)
           K       == Cardinality(staying)
<1>1. hist \in Seq(Queued) /\ Len(hist) \in Nat /\ DOMAIN hist = 1..Len(hist) /\ pairs' = pairs
    BY DEF Inv, TypeOK, IngestTypeOK, DrainHistory
<1>2. IsFiniteSet(staying) /\ K \in Nat /\ IsFiniteSet(1..K) /\ Cardinality(1..K) = K
    <2>1. IsFiniteSet(DOMAIN hist)
        BY <1>1, FS_Interval
    <2>2. IsFiniteSet(staying)
        BY <2>1, FS_Subset
    <2>3. K \in Nat
        BY <2>2, FS_CardinalityType
    <2>4. 1 \in Int /\ K \in Int
        BY <2>3
    <2> HIDE DEF K
    <2>5. IsFiniteSet(1..K) /\ Cardinality(1..K) = IF 1 > K THEN 0 ELSE K - 1 + 1
        BY <2>4, FS_Interval, Zenon
    <2> QED BY <2>2, <2>3, <2>5
<1>3. PICK f \in [1..K -> staying] :
         /\ \A i, j \in DOMAIN f : i < j => f[i] < f[j]
         /\ hist' = [i \in DOMAIN f |-> hist[f[i]]]
    BY DEF DrainHistory
<1> HIDE DEF K
<1>4. \A i \in 1..K : f[i] \in staying /\ f[i] \in 1..Len(hist)
    BY <1>1, <1>3
<1>5. \A x \in staying : \E j \in 1..K : f[j] = x
    <2>1. ASSUME NEW i \in 1..K, NEW j \in 1..K, f[i] = f[j] PROVE i = j
        <3>1. i < j => f[i] < f[j]
            BY <1>3
        <3>2. j < i => f[j] < f[i]
            BY <1>3
        <3>3. f[i] \in Nat /\ f[j] \in Nat /\ i \in Nat /\ j \in Nat
            BY <1>1, <1>2, <1>4
        <3> QED BY <2>1, <3>1, <3>2, <3>3
    <2> HIDE DEF staying
    <2>2. f \in Injection(1..K, staying)
        BY <1>3, <2>1 DEF Injection, IsInjective
    <2>3. Cardinality(1..K) = Cardinality(staying)
        BY <1>2 DEF K
    <2>4. f \in Surjection(1..K, staying)
        BY <1>2, <2>2, <2>3, FS_Injection
    <2> QED BY <2>4 DEF Surjection
<1>6. hist' = [i \in 1..K |-> hist[f[i]]] /\ Len(hist') = K
    BY <1>2, <1>3
<1>7. \A s \in 1..Len(pairs) : pairs'[s] = pairs[s]
    BY <1>1
<1>8. \A j \in 1..K : QueuedReading(j)' = QueuedReading(f[j])
    <2> TAKE j \in 1..K
    <2>1. hist'[j] = hist[f[j]]
        BY <1>6
    <2> QED BY <1>4, <1>7, <2>1, SameEntry
<1>9. staying = 1..Len(hist) \ Leaving(n, k)
    BY <1>1
<1> HIDE DEF staying
<1>10. ASSUME NEW j \in 1..K, NEW x \in staying, x < f[j]
       PROVE  \E y \in 1..K : y < j /\ QueuedReading(y)' = QueuedReading(x)
    <2>1. PICK y \in 1..K : f[y] = x
        BY <1>5
    <2>2. y \in Nat /\ j \in Nat /\ f[y] \in Nat /\ f[j] \in Nat
        BY <1>1, <1>2, <1>4
    <2>3. y < j
        <3>1. j < y => f[j] < f[y]
            BY <1>3
        <3>2. j = y => f[j] = f[y]
            OBVIOUS
        <3> QED BY <1>10, <2>1, <2>2, <3>1, <3>2
    <2> QED BY <1>8, <2>1, <2>3
<1>11. ASSUME NEW x \in staying
       PROVE  \E j \in 1..K : QueuedReading(j)' = QueuedReading(x)
    BY <1>5, <1>8
<1>12. ASSUME NEW j \in 1..K
       PROVE  \E i \in staying :
                 /\ QueuedReading(j)' = QueuedReading(i)
                 /\ \A x \in staying : x < i =>
                       \E y \in 1..K : y < j /\ QueuedReading(y)' = QueuedReading(x)
    <2>1. f[j] \in staying /\ QueuedReading(j)' = QueuedReading(f[j])
        BY <1>4, <1>8
    <2>2. \A x \in staying : x < f[j] =>
             \E y \in 1..K : y < j /\ QueuedReading(y)' = QueuedReading(x)
        BY <1>10
    <2> QED BY <2>1, <2>2
<1>13. Len(hist') = K /\ K \in Nat
    BY <1>2, <1>6
<1>14. \A i \in 1..Len(hist) \ Leaving(n, k) :
          \E j \in 1..Len(hist') : QueuedReading(j)' = QueuedReading(i)
    BY <1>9, <1>11, <1>13
<1>15. ASSUME NEW j \in 1..Len(hist')
       PROVE  \E i \in 1..Len(hist) \ Leaving(n, k) :
                 /\ QueuedReading(j)' = QueuedReading(i)
                 /\ \A x \in 1..Len(hist) \ Leaving(n, k) : x < i =>
                       \E y \in 1..Len(hist') : y < j /\ QueuedReading(y)' = QueuedReading(x)
    BY <1>9, <1>12, <1>13
<1> QED BY <1>13, <1>14, <1>15

-----------------------------------------------------------------------------
(* What is secured stays secured.                                          *)

\* A step that leaves the table and the queue alone.
LEMMA QueueUnchanged ==
    ASSUME Inv, UNCHANGED ingestVars
    PROVE  OfWifi(DOMAIN hist)' = OfWifi(DOMAIN hist)
BY DEF ingestVars, OfWifi, Owner

\* put() changes no reading of the queue.
LEMMA PutSecured ==
    ASSUME Inv, Inv', NEW n \in Senders, NEW m \in Metrics, NEW t, Put(n, m, t)
    PROVE  OfWifi(DOMAIN hist)' = OfWifi(DOMAIN hist)
<1>1. Len(hist') = Len(hist) /\ \A i \in 1..Len(hist) : QueuedReading(i)' = QueuedReading(i)
    BY PutQueue
<1>2. ASSUME NEW r
      PROVE  r \in OfWifi(DOMAIN hist)' <=> r \in OfWifi(DOMAIN hist)
    <2>1. r \in OfWifi(DOMAIN hist) <=>
             \E i \in 1..Len(hist) : QueuedReading(i).n \in WifiNodes /\ r = QueuedReading(i)
        BY OfWifiMember
    <2>2. r \in OfWifi(DOMAIN hist)' <=>
             \E i \in 1..Len(hist') : QueuedReading(i)'.n \in WifiNodes /\ r = QueuedReading(i)'
        BY OfWifiMemberNext
    <2> QED BY <1>1, <2>1, <2>2
<1> QED BY <1>2

\* putHistoricalEx() loses none but the reading it sheds, and brings in none
\* but its own.
LEMMA PutHistoricalSecured ==
    ASSUME Inv, Inv', NEW n \in Senders, NEW m \in Metrics, NEW t \in Nat, NEW ts \in Nat,
           PutHistorical(n, m, t, ts)
    PROVE  /\ OfWifi(DOMAIN hist) \subseteq OfWifi(DOMAIN hist)' \cup ShedBy(n, m)
           /\ ShedBy(n, m) \subseteq OfWifi(DOMAIN hist)
           /\ OfWifi(DOMAIN hist)' \subseteq OfWifi(DOMAIN hist) \cup {[n |-> n, m |-> m, t |-> t]}
           /\ n \notin WifiNodes => OfWifi(DOMAIN hist)' \subseteq OfWifi(DOMAIN hist)
           /\ n \in WifiNodes /\ HasSlot(n, m) => [n |-> n, m |-> m, t |-> t] \in OfWifi(DOMAIN hist)'
<1>1. PICK d \in 0..1 : d = 1 <=> Sheds(n, m)
    <2>1. CASE Sheds(n, m)
        <3>1. 1 \in 0..1 /\ (1 = 1 <=> Sheds(n, m))
            BY <2>1
        <3> QED BY <3>1
    <2>2. CASE ~Sheds(n, m)
        <3>1. 0 \in 0..1 /\ (0 = 1 <=> Sheds(n, m))
            BY <2>2
        <3> QED BY <3>1
    <2> QED BY <2>1, <2>2
<1>2. /\ Len(hist') \in Nat
      /\ \A i \in 1..Len(hist) :
            i > d => i - d \in 1..Len(hist') /\ QueuedReading(i - d)' = QueuedReading(i)
      /\ \A j \in 1..Len(hist') :
            \/ j + d \in 1..Len(hist) /\ QueuedReading(j)' = QueuedReading(j + d)
            \/ HasSlot(n, m) /\ j = Len(hist') /\ QueuedReading(j)' = [n |-> n, m |-> m, t |-> t]
      /\ HasSlot(n, m) => \E j \in 1..Len(hist') : QueuedReading(j)' = [n |-> n, m |-> m, t |-> t]
      /\ d = 1 => HasSlot(n, m) /\ 1 \in 1..Len(hist)
    BY <1>1, PutHistoricalQueue
<1>3. Len(hist) \in Nat /\ DOMAIN hist = 1..Len(hist)
    BY DEF Inv, TypeOK, IngestTypeOK
<1>4. ASSUME NEW r \in OfWifi(DOMAIN hist)
      PROVE  r \in OfWifi(DOMAIN hist)' \cup ShedBy(n, m)
    <2>1. PICK i \in 1..Len(hist) : QueuedReading(i).n \in WifiNodes /\ r = QueuedReading(i)
        BY <1>4, OfWifiMember
    <2>2. CASE i > d
        <3>1. i - d \in 1..Len(hist') /\ QueuedReading(i - d)' = QueuedReading(i)
            BY <1>2, <2>2
        <3> QED BY <2>1, <3>1, OfWifiMemberNext
    <2>3. CASE ~(i > d)
        <3>1. i = 1 /\ d = 1
            BY <2>3, <1>1
        <3>2. ShedBy(n, m) = OfWifi({1})
            BY <1>1, <3>1 DEF ShedBy
        <3>3. r \in OfWifi({1})
            BY <2>1, <3>1 DEF OfWifi, Owner, QueuedReading
        <3> QED BY <3>2, <3>3
    <2> QED BY <2>2, <2>3
<1>5. ShedBy(n, m) \subseteq OfWifi(DOMAIN hist)
    <2>1. CASE Sheds(n, m)
        <3>1. 1 \in DOMAIN hist
            BY <1>1, <1>2, <1>3, <2>1
        <3> QED BY <2>1, <3>1 DEF ShedBy, OfWifi
    <2>2. CASE ~Sheds(n, m)
        BY <2>2 DEF ShedBy
    <2> QED BY <2>1, <2>2
<1>6. ASSUME NEW r \in OfWifi(DOMAIN hist)'
      PROVE  r \in OfWifi(DOMAIN hist) \/ (r = [n |-> n, m |-> m, t |-> t] /\ n \in WifiNodes)
    <2>1. PICK j \in 1..Len(hist') : QueuedReading(j)'.n \in WifiNodes /\ r = QueuedReading(j)'
        BY <1>6, OfWifiMemberNext
    <2>2. CASE j + d \in 1..Len(hist) /\ QueuedReading(j)' = QueuedReading(j + d)
        BY <2>1, <2>2, OfWifiMember
    <2>3. CASE QueuedReading(j)' = [n |-> n, m |-> m, t |-> t]
        BY <2>1, <2>3
    <2> QED BY <1>2, <2>2, <2>3
<1>7. ASSUME n \in WifiNodes, HasSlot(n, m)
      PROVE  [n |-> n, m |-> m, t |-> t] \in OfWifi(DOMAIN hist)'
    <2>1. PICK j \in 1..Len(hist') : QueuedReading(j)' = [n |-> n, m |-> m, t |-> t]
        BY <1>2, <1>7
    <2> QED BY <1>7, <2>1, OfWifiMemberNext
<1> QED BY <1>4, <1>5, <1>6, <1>7

\* drainHistory() hands over what it takes out.
LEMMA DrainSecured ==
    ASSUME Inv, Inv', NEW n \in Senders, NEW k \in Nat, DrainHistory(n, k)
    PROVE  /\ OfWifi(DOMAIN hist) = OfWifi(DOMAIN hist)' \cup OfWifi(Leaving(n, k))
           /\ \A i \in 1..Len(hist) : i \in Leaving(n, k) /\ QueuedReading(i).n \in WifiNodes
                                         => QueuedReading(i) \in OfWifi(Leaving(n, k))
           /\ \A r \in OfWifi(Leaving(n, k)) : \E i \in 1..Len(hist) :
                 i \in Leaving(n, k) /\ QueuedReading(i).n \in WifiNodes /\ r = QueuedReading(i)
<1>1. /\ \A i \in 1..Len(hist) \ Leaving(n, k) :
            \E j \in 1..Len(hist') : QueuedReading(j)' = QueuedReading(i)
      /\ \A j \in 1..Len(hist') : \E i \in 1..Len(hist) \ Leaving(n, k) :
            QueuedReading(j)' = QueuedReading(i)
    BY DrainQueue
<1>2. DOMAIN hist = 1..Len(hist) /\ Leaving(n, k) \subseteq DOMAIN hist
    BY DEF Inv, TypeOK, IngestTypeOK, Leaving, OwnQueued
<1>3. \A r : r \in OfWifi(Leaving(n, k)) <=> \E i \in 1..Len(hist) :
         i \in Leaving(n, k) /\ QueuedReading(i).n \in WifiNodes /\ r = QueuedReading(i)
    BY <1>2 DEF OfWifi, Owner, QueuedReading
<1>4. ASSUME NEW r \in OfWifi(DOMAIN hist)
      PROVE  r \in OfWifi(DOMAIN hist)' \cup OfWifi(Leaving(n, k))
    <2>1. PICK i \in 1..Len(hist) : QueuedReading(i).n \in WifiNodes /\ r = QueuedReading(i)
        BY <1>4, OfWifiMember
    <2>2. CASE i \in Leaving(n, k)
        BY <1>3, <2>1, <2>2
    <2>3. CASE i \notin Leaving(n, k)
        <3>1. PICK j \in 1..Len(hist') : QueuedReading(j)' = QueuedReading(i)
            BY <1>1, <2>3
        <3> QED BY <2>1, <3>1, OfWifiMemberNext
    <2> QED BY <2>2, <2>3
<1>5. ASSUME NEW r \in OfWifi(DOMAIN hist)' PROVE r \in OfWifi(DOMAIN hist)
    <2>1. PICK j \in 1..Len(hist') : QueuedReading(j)'.n \in WifiNodes /\ r = QueuedReading(j)'
        BY <1>5, OfWifiMemberNext
    <2>2. PICK i \in 1..Len(hist) : QueuedReading(j)' = QueuedReading(i)
        BY <1>1
    <2> QED BY <2>1, <2>2, OfWifiMember
<1>6. OfWifi(Leaving(n, k)) \subseteq OfWifi(DOMAIN hist)
    BY <1>2 DEF OfWifi
<1> QED BY <1>3, <1>4, <1>5, <1>6

\* Steps of the node and of the network.
LEMMA QuietSecured ==
    ASSUME Inv, UNCHANGED ingestVars, Settled \subseteq Settled'
    PROVE  Secured \subseteq Secured'
BY QueueUnchanged DEF Secured

\* The mailbox write of a walk secures its reading.
LEMMA StoreCurrentSecures ==
    ASSUME Inv, Inv', NEW pass, Walking(pass), StoreCurrent, recorded' = recorded, unread' = unread
    PROVE  Secured \subseteq Secured' /\ HereReading \in Secured'
<1>1. Put(job.n, Here.m, Here.t) /\ job.n \in Senders /\ Here.m \in Metrics
    BY HereType DEF StoreCurrent
<1>2. OfWifi(DOMAIN hist)' = OfWifi(DOMAIN hist)
    BY <1>1, PutSecured
<1>3. Settled \subseteq Settled' /\ HereReading \in Settled'
    BY DEF StoreCurrent, Settled
<1> QED BY <1>2, <1>3 DEF Secured

\* So does a place in the queue, and so does the refusal of one.
LEMMA QueueBackfillSecures ==
    ASSUME Inv, Inv', Walking("prefix"), IsBackfill(job.batch, job.i), QueueBackfill,
           recorded' = recorded, unread' = unread
    PROVE  Secured \subseteq Secured' /\ HereReading \in Secured'
<1>1. /\ job.n \in Senders /\ job.n \in WifiNodes /\ Here.m \in Metrics /\ Here.t \in Nat
      /\ job.base \in Nat /\ Here.age \in Nat
    BY HereType
<1>2. When(job.batch, job.i) \in Nat
    BY <1>1 DEF When, IsBackfill, Here
<1>3. PutHistorical(job.n, Here.m, Here.t, When(job.batch, job.i))
    BY DEF QueueBackfill
<1>4. /\ OfWifi(DOMAIN hist) \subseteq OfWifi(DOMAIN hist)' \cup ShedBy(job.n, Here.m)
      /\ HasSlot(job.n, Here.m) => HereReading \in OfWifi(DOMAIN hist)'
    BY <1>1, <1>2, <1>3, PutHistoricalSecured DEF HereReading
<1>5. CASE HasSlot(job.n, Here.m)
    <2>1. lost' = lost \cup ShedBy(job.n, Here.m) /\ current' = current
        BY <1>5 DEF QueueBackfill
    <2> QED BY <1>4, <1>5, <2>1 DEF Secured, Settled
<1>6. CASE ~HasSlot(job.n, Here.m)
    <2>1. lost' = lost \cup {HereReading} /\ current' = current
        BY <1>6 DEF QueueBackfill
    <2>2. ShedBy(job.n, Here.m) = {}
        BY <1>6 DEF ShedBy, Sheds
    <2> QED BY <1>4, <2>1, <2>2 DEF Secured, Settled
<1> QED BY <1>5, <1>6

\* Nothing the program does takes a reading out of Secured.
LEMMA SecuredGrows ==
    ASSUME Inv, Inv', [Next]_vars
    PROVE  Secured \subseteq Secured'
<1>1. ASSUME NEW n \in WifiNodes,
             NodeStep(n) \/ Timeout(n) \/ RestartNode(n) \/ Begin(n) \/ Refuse(n) \/ Garble(n)
      PROVE  Secured \subseteq Secured'
    <2>1. CASE Wake(n)
        <3>1. UNCHANGED ingestVars /\ Settled \subseteq Settled'
            BY <2>1 DEF Wake, Settled
        <3> QED BY <3>1, QuietSecured
    <2>2. CASE ReadReply(n)
        <3>1. UNCHANGED ingestVars /\ unread \subseteq unread'
            BY <2>2 DEF ReadReply
        <3>2. Settled \subseteq Settled'
            BY <2>2, <3>1 DEF ReadReply, Settled
        <3> QED BY <3>1, <3>2, QuietSecured
    <2>3. CASE RestartNode(n)
        <3>1. UNCHANGED ingestVars /\ Settled \subseteq Settled'
            BY <2>3 DEF RestartNode, Settled
        <3> QED BY <3>1, QuietSecured
    <2>4. CASE Post(n) \/ PostNothing(n) \/ Timeout(n) \/ Begin(n) \/ Refuse(n) \/ Garble(n)
        <3>1. UNCHANGED ingestVars /\ UNCHANGED ledgerVars
            BY <2>4 DEF Post, PostNothing, Timeout, Begin, Refuse, Garble
        <3>2. Settled \subseteq Settled'
            BY <3>1 DEF ledgerVars, Settled
        <3> QED BY <3>1, <3>2, QuietSecured
    <2> QED BY <1>1, <2>1, <2>2, <2>3, <2>4 DEF NodeStep
<1>2. CASE LivePass
    <2>1. Walking("live") /\ recorded' = recorded /\ unread' = unread
        BY <1>2 DEF LivePass
    <2>2. CASE StoreCurrent
        BY <2>1, <2>2, StoreCurrentSecures
    <2>3. CASE UNCHANGED <<ingestVars, current, lost>>
        <3>1. UNCHANGED ingestVars /\ Settled \subseteq Settled'
            BY <2>1, <2>3 DEF Settled
        <3> QED BY <3>1, QuietSecured
    <2> QED BY <1>2, <2>2, <2>3 DEF LivePass
<1>3. CASE PrefixPass
    <2>1. Walking("prefix") /\ recorded' = recorded /\ unread' = unread
        BY <1>3 DEF PrefixPass
    <2>2. CASE IsBackfill(job.batch, job.i) /\ QueueBackfill
        BY <2>1, <2>2, QueueBackfillSecures
    <2>3. CASE StoreCurrent
        BY <2>1, <2>3, StoreCurrentSecures
    <2>4. CASE UNCHANGED <<ingestVars, current, lost>>
        <3>1. UNCHANGED ingestVars /\ Settled \subseteq Settled'
            BY <2>1, <2>4 DEF Settled
        <3> QED BY <3>1, QuietSecured
    <2> QED BY <1>3, <2>2, <2>3, <2>4 DEF PrefixPass
<1>4. CASE LivePassEnds \/ HoldRest \/ Answer \/ ClockSet \/ Tick \/ UNCHANGED vars
    <2>1. UNCHANGED ingestVars /\ UNCHANGED ledgerVars
        BY <1>4 DEF LivePassEnds, HoldRest, Answer, ClockSet, Tick, vars
    <2>2. Settled \subseteq Settled'
        BY <2>1 DEF ledgerVars, Settled
    <2> QED BY <2>1, <2>2, QuietSecured
<1>5. ASSUME NEW n \in EspNodes, NEW m \in Metrics, EspNowHistory(n, m)
      PROVE  Secured \subseteq Secured'
    <2>1. PutHistorical(n, m, clock, NowEpoch) /\ n \in Senders /\ clock \in Nat /\ NowEpoch \in Nat
        BY <1>5 DEF EspNowHistory, EspNodes, Inv, TypeOK, NowEpoch
    <2>2. OfWifi(DOMAIN hist) \subseteq OfWifi(DOMAIN hist)' \cup ShedBy(n, m)
        BY <2>1, PutHistoricalSecured
    <2>3. lost' = lost \cup ShedBy(n, m) /\ UNCHANGED <<current, recorded, unread>>
        BY <1>5 DEF EspNowHistory
    <2> QED BY <2>2, <2>3 DEF Secured, Settled
<1>6. ASSUME NEW n \in Listened, SensorTick(n)
      PROVE  Secured \subseteq Secured'
    <2>1. DrainHistory(n, DrainRoom) /\ n \in Senders /\ DrainRoom \in Nat
        BY <1>6, StoreForwardAssumption DEF SensorTick
    <2>2. OfWifi(DOMAIN hist) = OfWifi(DOMAIN hist)' \cup OfWifi(Leaving(n, DrainRoom))
        BY <2>1, DrainSecured
    <2>3. recorded' = recorded \cup OfWifi(Leaving(n, DrainRoom)) /\ UNCHANGED <<current, lost, unread>>
        BY <1>6 DEF SensorTick
    <2> QED BY <2>2, <2>3 DEF Secured, Settled
<1>7. CASE RestartCollector
    <2>1. lost' = lost \cup OfWifi(DOMAIN hist) /\ UNCHANGED <<current, recorded, unread>>
        BY <1>7 DEF RestartCollector
    <2> QED BY <2>1 DEF Secured, Settled
<1> QED BY <1>1, <1>2, <1>3, <1>4, <1>5, <1>6, <1>7 DEF Next, HandlerStep

-----------------------------------------------------------------------------
(* Where a reading may be, and what is said of it on the way.              *)

\* A ring holds its own node's readings.
RingKnown ==
    \A n \in WifiNodes : \A i \in 1..Len(ring[n]) : ring[n][i] \in taken /\ ring[n][i].n = n

TakenSoFar == \A r \in taken : r \in Reading /\ r.n \in WifiNodes /\ r.t <= clock

\* A waiting node's batch is the front of its ring, and in one place.
Carrier(n) ==
    /\ node[n].stage = "wait" => node[n].sent <= Len(ring[n])
    /\ request[n] # Nothing =>
          node[n].stage = "wait" /\ reply[n] = Nothing /\ ~Serves(n) /\ Front(n, request[n])
    /\ reply[n] # Nothing => node[n].stage = "wait" /\ ~Serves(n)
    /\ Serves(n) => node[n].stage = "wait" /\ Front(n, job.batch)

OneCarrier == \A n \in WifiNodes : Carrier(n)

\* An answer counts only what its node may forget.
TrueOf(n) ==
    reply[n] # Nothing /\ reply[n].ok /\ reply[n].accepted # Nothing =>
        \A i \in 1..reply[n].accepted : i \in 1..Len(ring[n]) /\ ring[n][i] \in Secured

ReplyTrue == \A n \in WifiNodes : TrueOf(n)

\* So does the count of the batch being walked, whose current values come first.
JobKnown == job # Nothing => \A i \in 1..Len(job.batch) : Walked(i) \in taken

JobPlace ==
    job # Nothing =>
        /\ job.accepted <= Len(job.batch)
        /\ job.pass = "live" => job.accepted = 0
        /\ job.pass = "prefix" => job.accepted = job.i - 1

JobSecured ==
    job # Nothing =>
        /\ \A i \in 1..Len(job.batch) : i <= job.accepted => Walked(i) \in Secured
        /\ \A i \in 1..Len(job.batch) :
              IsLive(job.batch, i) /\ (job.pass = "live" => i < job.i) => Walked(i) \in Secured

\* What a node took is secured or still in its ring.
Held == \A r \in taken : r \in Secured \/ \E i \in 1..Len(ring[r.n]) : ring[r.n][i] = r

CustodyInv ==
    /\ RingKnown /\ TakenSoFar /\ OneCarrier /\ ReplyTrue
    /\ JobKnown /\ JobPlace /\ JobSecured /\ Held

\* A fresh start has nothing to lose.
LEMMA InitCustody == Init => CustodyInv
<1> SUFFICES ASSUME Init PROVE CustodyInv
    OBVIOUS
<1>1. /\ \A n \in WifiNodes : ring[n] = <<>> /\ node[n].stage = "sleep"
      /\ \A n \in WifiNodes : request[n] = Nothing /\ reply[n] = Nothing
      /\ job = Nothing /\ taken = {}
    BY DEF Init, Asleep
<1> QED BY <1>1 DEF CustodyInv, RingKnown, TakenSoFar, OneCarrier, Carrier, Serves, ReplyTrue,
                    TrueOf, JobKnown, JobPlace, JobSecured, Held

\* The ring's part of the invariant, while no ring changes.
LEMMA RingFrame ==
    ASSUME Inv, CustodyInv, Secured \subseteq Secured', ring' = ring, taken' = taken,
           clock' \in Nat, clock <= clock'
    PROVE  RingKnown' /\ TakenSoFar' /\ Held'
<1>1. TakenSoFar'
    <2>1. ASSUME NEW r \in taken' PROVE r \in Reading /\ r.n \in WifiNodes /\ r.t <= clock'
        <3>1. r \in Reading /\ r.n \in WifiNodes /\ r.t <= clock /\ r.t \in Nat
            BY <2>1 DEF CustodyInv, TakenSoFar, Reading
        <3> QED BY <3>1 DEF Inv, TypeOK
    <2> QED BY <2>1 DEF TakenSoFar
<1>2. RingKnown'
    BY DEF CustodyInv, RingKnown
<1>3. Held'
    BY DEF CustodyInv, Held
<1> QED BY <1>1, <1>2, <1>3

\* The walk's part, while the walk stands still.
LEMMA JobFrame ==
    ASSUME CustodyInv, Secured \subseteq Secured', taken \subseteq taken',
           \/ job' = Nothing
           \/ /\ job # Nothing
              /\ job'.n = job.n /\ job'.batch = job.batch /\ job'.pass = job.pass
              /\ job'.i = job.i /\ job'.accepted = job.accepted
    PROVE  JobKnown' /\ JobPlace' /\ JobSecured'
<1>1. CASE job' = Nothing
    BY <1>1 DEF JobKnown, JobPlace, JobSecured
<1>2. CASE /\ job # Nothing
           /\ job'.n = job.n /\ job'.batch = job.batch /\ job'.pass = job.pass
           /\ job'.i = job.i /\ job'.accepted = job.accepted
    <2>1. \A i \in 1..Len(job.batch) : Walked(i)' = Walked(i)
        BY <1>2 DEF Walked, At
    <2>2. \A i : IsLive(job'.batch, i) <=> IsLive(job.batch, i)
        BY <1>2
    <2>3. JobKnown'
        BY <1>2, <2>1 DEF CustodyInv, JobKnown
    <2>4. JobPlace'
        BY <1>2 DEF CustodyInv, JobPlace
    <2>5. JobSecured'
        BY <1>2, <2>1, <2>2 DEF CustodyInv, JobSecured, IsLive, Newest
    <2> QED BY <2>3, <2>4, <2>5
<1> QED BY <1>1, <1>2

\* A node's part, while nothing of the node moves.
LEMMA NodeFrame ==
    ASSUME CustodyInv, Secured \subseteq Secured', NEW x \in WifiNodes,
           ring'[x] = ring[x], node'[x] = node[x], request'[x] = request[x], reply'[x] = reply[x],
           Serves(x)' => Serves(x) /\ job'.batch = job.batch
    PROVE  Carrier(x)' /\ TrueOf(x)'
<1>1. Carrier(x) /\ TrueOf(x)
    BY DEF CustodyInv, OneCarrier, ReplyTrue
<1>2. \A b : Front(x, b) => Front(x, b)'
    BY DEF Front
<1>3. Carrier(x)'
    BY <1>1, <1>2 DEF Carrier, Front
<1>4. TrueOf(x)'
    BY <1>1 DEF TrueOf
<1> QED BY <1>3, <1>4

\* Ring::push: d readings fall out at the front, the rest move up.
LEMMA PushedShift ==
    ASSUME NEW r \in Seq(Reading), NEW new \in Seq(Reading)
    PROVE  \E d \in 0..(Len(r) + Len(new)) :
              /\ Len(Pushed(r, new)) = Len(r) + Len(new) - d
              /\ \A j \in 1..Len(Pushed(r, new)) : Pushed(r, new)[j] = (r \o new)[j + d]
              /\ Overrun(r, new) = {(r \o new)[i] : i \in 1..d}
<1> DEFINE all == r \o new
<1>1. all \in Seq(Reading) /\ Len(all) = Len(r) + Len(new) /\ Len(r) \in Nat /\ Len(new) \in Nat
    OBVIOUS
<1>2. Capacity \in Nat \ {0}
    BY StoreForwardAssumption
<1> HIDE DEF all
<1>3. CASE Len(all) > Capacity
    <2>1. /\ Pushed(r, new) = SubSeq(all, Len(all) - Capacity + 1, Len(all))
          /\ Overrun(r, new) = {all[i] : i \in 1..(Len(all) - Capacity)}
        BY <1>3 DEF Pushed, Overrun, all
    <2>2. /\ Len(Pushed(r, new)) = Capacity
          /\ \A j \in 1..Capacity : Pushed(r, new)[j] = all[j + (Len(all) - Capacity)]
        BY <2>1, <1>1, <1>2, <1>3
    <2> DEFINE d == Len(all) - Capacity
    <2>3. d \in 0..(Len(r) + Len(new)) /\ Len(r) + Len(new) - d = Capacity
        BY <1>1, <1>2, <1>3
    <2>4. /\ Len(Pushed(r, new)) = Len(r) + Len(new) - d
          /\ \A j \in 1..Len(Pushed(r, new)) : Pushed(r, new)[j] = (r \o new)[j + d]
          /\ Overrun(r, new) = {(r \o new)[i] : i \in 1..d}
        BY <2>1, <2>2, <2>3 DEF all
    <2> HIDE DEF d
    <2> QED BY <2>3, <2>4
<1>4. CASE ~(Len(all) > Capacity)
    <2>1. Pushed(r, new) = all /\ Overrun(r, new) = {all[i] : i \in 1..0}
        BY <1>4 DEF Pushed, Overrun, all
    <2>2. Len(all) - 0 = Len(all) /\ 0 \in 0..Len(all) /\ \A j \in 1..Len(all) : j + 0 = j
        BY <1>1
    <2>3. /\ Len(Pushed(r, new)) = Len(r) + Len(new) - 0
          /\ \A j \in 1..Len(Pushed(r, new)) : Pushed(r, new)[j] = (r \o new)[j + 0]
          /\ Overrun(r, new) = {(r \o new)[i] : i \in 1..0}
        BY <1>1, <1>2, <2>1, <2>2 DEF all
    <2>4. 0 \in 0..(Len(r) + Len(new))
        BY <1>1, <1>2, <2>2 DEF all
    <2> QED BY <2>3, <2>4
<1> QED BY <1>3, <1>4

\* The first case of Wake: the sensors answered.
Records(n) ==
    /\ \A r \in taken : ~(r.n = n /\ r.t = clock)
    /\ ring' = [ring EXCEPT ![n] = Pushed(@, Sample(n))]
    /\ taken' = taken \cup {Sample(n)[i] : i \in DOMAIN Report}
    /\ lost' = lost \cup Overrun(ring[n], Sample(n))

\* What the ring is after a cycle has recorded its readings.
LEMMA WakeRing ==
    ASSUME Inv, CustodyInv, NEW n \in WifiNodes, Records(n)
    PROVE  \E d \in Nat :
              /\ d <= Len(ring[n]) + Len(Sample(n)) /\ Len(ring[n]) \in Nat /\ Len(Sample(n)) \in Nat
              /\ Len(ring'[n]) = Len(ring[n]) + Len(Sample(n)) - d
              /\ \A j \in 1..Len(ring'[n]) : ring'[n][j] = (ring[n] \o Sample(n))[j + d]
              /\ \A i \in 1..(Len(ring[n]) + Len(Sample(n))) :
                    /\ (ring[n] \o Sample(n))[i] =
                          IF i <= Len(ring[n]) THEN ring[n][i] ELSE Sample(n)[i - Len(ring[n])]
                    /\ i <= d => (ring[n] \o Sample(n))[i] \in lost'
              /\ Overrun(ring[n], Sample(n)) = {(ring[n] \o Sample(n))[i] : i \in 1..d}
              /\ \A x \in WifiNodes \ {n} : ring'[x] = ring[x]
              /\ Len(Sample(n)) = Len(Report)
              /\ \A i \in 1..Len(Report) : Sample(n)[i] = [n |-> n, m |-> Report[i], t |-> clock]
              /\ \A i \in 1..Len(Report) : Sample(n)[i] \in Reading /\ Sample(n)[i] \notin taken
              /\ taken' = taken \cup {Sample(n)[i] : i \in 1..Len(Report)}
              /\ \A r \in taken : ~(r.n = n /\ r.t = clock)
<1>1. /\ \A r \in taken : ~(r.n = n /\ r.t = clock)
      /\ ring' = [ring EXCEPT ![n] = Pushed(@, Sample(n))]
      /\ taken' = taken \cup {Sample(n)[i] : i \in DOMAIN Report}
      /\ lost' = lost \cup Overrun(ring[n], Sample(n))
    BY DEF Records
<1>2. /\ DOMAIN Report = 1..Len(Report) /\ Len(Report) \in Nat
      /\ \A i \in 1..Len(Report) : Report[i] \in Metrics
    BY StoreForwardAssumption
<1>3. clock \in Nat /\ ring[n] \in Seq(Reading) /\ n \in Senders /\ ring \in [WifiNodes -> Seq(Reading)]
    BY StoreForwardAssumption DEF Inv, TypeOK
<1>4. \A i \in 1..Len(Report) :
         /\ Sample(n)[i] = [n |-> n, m |-> Report[i], t |-> clock]
         /\ Sample(n)[i] \in Reading
    BY <1>2, <1>3 DEF Sample, Reading
<1>5. Sample(n) \in Seq(Reading) /\ Len(Sample(n)) = Len(Report)
    BY <1>2, <1>4 DEF Sample
<1>6. ASSUME NEW i \in 1..Len(Report) PROVE Sample(n)[i] \notin taken
    <2>1. Sample(n)[i] = [n |-> n, m |-> Report[i], t |-> clock]
        BY <1>4
    <2>2. Sample(n)[i].n = n /\ Sample(n)[i].t = clock
        <3> DEFINE r == [n |-> n, m |-> Report[i], t |-> clock]
        <3>1. r.n = n /\ r.t = clock
            OBVIOUS
        <3> QED BY <2>1, <3>1
    <2> QED BY <1>1, <2>2
<1>7. ring'[n] = Pushed(ring[n], Sample(n)) /\ \A x \in WifiNodes \ {n} : ring'[x] = ring[x]
    BY <1>1, <1>3
<1>8. PICK d \in 0..(Len(ring[n]) + Len(Sample(n))) :
         /\ Len(ring'[n]) = Len(ring[n]) + Len(Sample(n)) - d
         /\ \A j \in 1..Len(ring'[n]) : ring'[n][j] = (ring[n] \o Sample(n))[j + d]
         /\ Overrun(ring[n], Sample(n)) = {(ring[n] \o Sample(n))[i] : i \in 1..d}
    <2>1. \E d \in 0..(Len(ring[n]) + Len(Sample(n))) :
             /\ Len(Pushed(ring[n], Sample(n))) = Len(ring[n]) + Len(Sample(n)) - d
             /\ \A j \in 1..Len(Pushed(ring[n], Sample(n))) :
                   Pushed(ring[n], Sample(n))[j] = (ring[n] \o Sample(n))[j + d]
             /\ Overrun(ring[n], Sample(n)) = {(ring[n] \o Sample(n))[i] : i \in 1..d}
        BY <1>3, <1>5, PushedShift, Zenon
    <2>2. ring'[n] = Pushed(ring[n], Sample(n))
        BY <1>7
    <2> QED BY <2>1, <2>2, Zenon
<1>9. Len(ring[n]) \in Nat /\ Len(Sample(n)) \in Nat
    BY <1>3, <1>5
<1>10. \A i \in 1..(Len(ring[n]) + Len(Sample(n))) :
          (ring[n] \o Sample(n))[i] =
             IF i <= Len(ring[n]) THEN ring[n][i] ELSE Sample(n)[i - Len(ring[n])]
    BY <1>3, <1>5
<1>11. \A i \in 1..(Len(ring[n]) + Len(Sample(n))) : i <= d => (ring[n] \o Sample(n))[i] \in lost'
    <2>1. \A i \in 1..d : (ring[n] \o Sample(n))[i] \in lost'
        BY <1>1, <1>8
    <2> QED BY <1>9, <2>1
<1>12. d \in Nat /\ d <= Len(ring[n]) + Len(Sample(n))
    BY <1>8, <1>9
<1> QED BY <1>1, <1>2, <1>4, <1>5, <1>6, <1>7, <1>8, <1>9, <1>10, <1>11, <1>12

\* A cycle of a sleeping node: no batch of its own is under way.
LEMMA WakeCustody ==
    ASSUME Inv, Inv', CustodyInv, NEW n \in WifiNodes, Wake(n), Secured \subseteq Secured'
    PROVE  CustodyInv'
<1>1. /\ node[n].stage = "sleep" /\ request' = request /\ reply' = reply /\ job' = job
      /\ clock' = clock /\ clock \in Nat /\ taken \subseteq taken'
    BY DEF Wake, netVars, Inv, TypeOK
<1>2. JobKnown' /\ JobPlace' /\ JobSecured'
    BY <1>1, JobFrame
<1>3. \A x \in WifiNodes : Serves(x)' => Serves(x) /\ job'.batch = job.batch
    BY <1>1 DEF Serves
<1>4. request[n] = Nothing /\ reply[n] = Nothing /\ ~Serves(n)
    BY <1>1 DEF CustodyInv, OneCarrier, Carrier
<1>5. node'[n].stage # "wait"
    BY <1>1 DEF Wake, Inv, TypeOK
<1>6. Carrier(n)' /\ TrueOf(n)'
    BY <1>1, <1>3, <1>4, <1>5 DEF Carrier, TrueOf
<1>7. CASE UNCHANGED <<ring, taken, lost>>
    <2>1. RingKnown' /\ TakenSoFar' /\ Held'
        BY <1>1, <1>7, RingFrame
    <2>2. ASSUME NEW x \in WifiNodes \ {n} PROVE Carrier(x)' /\ TrueOf(x)'
        <3>1. node'[x] = node[x]
            BY DEF Wake, Inv, TypeOK
        <3> QED BY <1>1, <1>3, <1>7, <3>1, NodeFrame
    <2> QED BY <1>2, <1>6, <2>1, <2>2 DEF CustodyInv, OneCarrier, ReplyTrue
<1>8. CASE Records(n)
    <2>1. PICK d \in Nat :
              /\ d <= Len(ring[n]) + Len(Sample(n)) /\ Len(ring[n]) \in Nat /\ Len(Sample(n)) \in Nat
              /\ Len(ring'[n]) = Len(ring[n]) + Len(Sample(n)) - d
              /\ \A j \in 1..Len(ring'[n]) : ring'[n][j] = (ring[n] \o Sample(n))[j + d]
              /\ \A i \in 1..(Len(ring[n]) + Len(Sample(n))) :
                    /\ (ring[n] \o Sample(n))[i] =
                          IF i <= Len(ring[n]) THEN ring[n][i] ELSE Sample(n)[i - Len(ring[n])]
                    /\ i <= d => (ring[n] \o Sample(n))[i] \in lost'
              /\ \A x \in WifiNodes \ {n} : ring'[x] = ring[x]
              /\ Len(Sample(n)) = Len(Report)
              /\ \A i \in 1..Len(Report) : Sample(n)[i] = [n |-> n, m |-> Report[i], t |-> clock]
              /\ \A i \in 1..Len(Report) : Sample(n)[i] \in Reading /\ Sample(n)[i] \notin taken
              /\ taken' = taken \cup {Sample(n)[i] : i \in 1..Len(Report)}
              /\ \A r \in taken : ~(r.n = n /\ r.t = clock)
        BY <1>8, WakeRing
    <2> DEFINE all == ring[n] \o Sample(n)
    <2>2. ASSUME NEW i \in 1..Len(Report)
          PROVE  Sample(n)[i].n = n /\ Sample(n)[i].t = clock
        <3> DEFINE r == [n |-> n, m |-> Report[i], t |-> clock]
        <3>1. r.n = n /\ r.t = clock
            OBVIOUS
        <3> QED BY <2>1, <3>1
    <2>3. ASSUME NEW i \in 1..(Len(ring[n]) + Len(Sample(n)))
          PROVE  all[i] \in taken' /\ all[i].n = n
        <3>1. CASE i <= Len(ring[n])
            <4>1. i \in 1..Len(ring[n]) /\ all[i] = ring[n][i]
                BY <2>1, <3>1
            <4> QED BY <1>1, <4>1 DEF CustodyInv, RingKnown
        <3>2. CASE ~(i <= Len(ring[n]))
            <4>0. /\ Len(ring[n]) \in Nat /\ Len(Report) \in Nat /\ Len(Sample(n)) = Len(Report)
                  /\ all[i] = Sample(n)[i - Len(ring[n])]
                BY <2>1, <3>2
            <4>1. i - Len(ring[n]) \in 1..Len(Report) /\ all[i] = Sample(n)[i - Len(ring[n])]
                BY <3>2, <4>0
            <4> QED BY <2>1, <2>2, <4>1
        <3> QED BY <3>1, <3>2
    <2>4. ASSUME NEW i \in 1..(Len(ring[n]) + Len(Sample(n)))
          PROVE  all[i] \in Secured' \/ \E j \in 1..Len(ring'[n]) : ring'[n][j] = all[i]
        <3>1. CASE i <= d
            BY <2>1, <3>1 DEF Secured, Settled
        <3>2. CASE ~(i <= d)
            <4>1. i - d \in 1..Len(ring'[n]) /\ (i - d) + d = i
                BY <2>1, <3>2
            <4> QED BY <2>1, <4>1
        <3> QED BY <3>1, <3>2
    <2>5. ASSUME NEW j \in 1..Len(ring'[n]) PROVE ring'[n][j] \in taken' /\ ring'[n][j].n = n
        <3>1. j + d \in 1..(Len(ring[n]) + Len(Sample(n)))
            BY <2>1
        <3> QED BY <2>1, <2>3, <3>1
    <2>6. RingKnown'
        <3>1. ASSUME NEW x \in WifiNodes, NEW i \in 1..Len(ring'[x])
              PROVE  ring'[x][i] \in taken' /\ ring'[x][i].n = x
            <4>1. CASE x = n
                BY <2>5, <4>1
            <4>2. CASE x # n
                <5>1. ring'[x] = ring[x]
                    BY <2>1, <4>2
                <5> QED BY <1>1, <5>1 DEF CustodyInv, RingKnown
            <4> QED BY <4>1, <4>2
        <3> QED BY <3>1 DEF RingKnown
    <2>7. TakenSoFar'
        <3>1. ASSUME NEW i \in 1..Len(Report)
              PROVE  Sample(n)[i] \in Reading /\ Sample(n)[i].n \in WifiNodes /\ Sample(n)[i].t <= clock
            BY <1>1, <2>1, <2>2
        <3> QED BY <1>1, <2>1, <3>1 DEF CustodyInv, TakenSoFar
    <2>8. ASSUME NEW r \in taken' PROVE r \in Secured' \/ \E i \in 1..Len(ring'[r.n]) : ring'[r.n][i] = r
        <3>1. CASE r \in taken /\ r \notin Secured
            <4>1. r.n \in WifiNodes
                BY <3>1 DEF CustodyInv, TakenSoFar
            <4>2. PICK i \in 1..Len(ring[r.n]) : ring[r.n][i] = r
                BY <3>1 DEF CustodyInv, Held
            <4>3. CASE r.n = n
                <5>1. i \in 1..(Len(ring[n]) + Len(Sample(n))) /\ all[i] = r
                    BY <2>1, <4>2, <4>3
                <5> QED BY <2>4, <4>3, <5>1
            <4>4. CASE r.n # n
                BY <2>1, <4>1, <4>2, <4>4
            <4> QED BY <4>3, <4>4
        <3>2. CASE r \in Secured
            BY <3>2
        <3>3. CASE r \notin taken
            <4>1. PICK i \in 1..Len(Report) : r = Sample(n)[i]
                BY <2>1, <3>3
            <4>2. /\ Len(ring[n]) + i \in 1..(Len(ring[n]) + Len(Sample(n)))
                  /\ ~(Len(ring[n]) + i <= Len(ring[n])) /\ (Len(ring[n]) + i) - Len(ring[n]) = i
                BY <2>1
            <4>3. all[Len(ring[n]) + i] = r
                BY <2>1, <4>1, <4>2
            <4>4. r.n = n
                BY <2>2, <4>1
            <4> QED BY <2>4, <4>2, <4>3, <4>4
        <3> QED BY <3>1, <3>2, <3>3
    <2>9. Held'
        BY <2>8 DEF Held
    <2>10. ASSUME NEW x \in WifiNodes \ {n} PROVE Carrier(x)' /\ TrueOf(x)'
        <3>1. node'[x] = node[x] /\ ring'[x] = ring[x]
            BY <2>1 DEF Wake, Inv, TypeOK
        <3> QED BY <1>1, <1>3, <3>1, NodeFrame
    <2> QED BY <1>2, <1>6, <2>6, <2>7, <2>9, <2>10 DEF CustodyInv, OneCarrier, ReplyTrue
<1> QED BY <1>7, <1>8 DEF Wake, Records

\* The readings an answer lets go of are secured.
LEMMA ConsumedSecured ==
    ASSUME Inv, CustodyInv, NEW n \in WifiNodes, ReadReply(n), reply[n].ok
    PROVE  /\ Consumed(n) \in Nat /\ Consumed(n) <= Len(ring[n])
           /\ \A i \in 1..Consumed(n) :
                 ring[n][i] \in (IF reply[n].accepted = Nothing THEN unread' ELSE Secured)
<1>1. /\ node[n] \in NodeState /\ reply[n] \in Reply /\ reply[n] # Nothing
      /\ node[n].stage = "wait" /\ Len(ring[n]) \in Nat /\ DOMAIN ring[n] = 1..Len(ring[n])
    BY DEF ReadReply, Inv, TypeOK
<1>2. node[n].sent \in Nat /\ node[n].sent <= Len(ring[n])
    BY <1>1 DEF CustodyInv, OneCarrier, Carrier, NodeState
<1>3. CASE reply[n].accepted = Nothing
    <2>1. Consumed(n) = node[n].sent
        BY <1>3 DEF Consumed
    <2>2. unread' = unread \cup Dropped(n, Consumed(n))
        BY <1>3 DEF ReadReply
    <2>3. \A i \in 1..Consumed(n) : ring[n][i] \in Dropped(n, Consumed(n))
        BY <1>1, <1>2, <2>1 DEF Dropped
    <2> QED BY <1>2, <1>3, <2>1, <2>2, <2>3
<1>4. CASE reply[n].accepted # Nothing
    <2>1. \A i \in 1..reply[n].accepted : i \in 1..Len(ring[n]) /\ ring[n][i] \in Secured
        BY <1>1, <1>4 DEF CustodyInv, ReplyTrue, TrueOf
    <2>2. reply[n].accepted \in Nat
        BY <1>1, <1>4 DEF Reply
    <2>3. \/ Consumed(n) = node[n].sent /\ node[n].sent <= reply[n].accepted
          \/ Consumed(n) = reply[n].accepted /\ reply[n].accepted <= node[n].sent
        BY <1>2, <1>4, <2>2 DEF Consumed
    <2> QED BY <1>2, <1>4, <2>1, <2>2, <2>3
<1> QED BY <1>3, <1>4

\* The ring after an answer: its front is gone, the rest moved up.
LEMMA ReplyRing ==
    ASSUME Inv, CustodyInv, NEW n \in WifiNodes, ReadReply(n)
    PROVE  \E k \in 0..Len(ring[n]) :
              /\ Len(ring'[n]) = Len(ring[n]) - k
              /\ \A j \in 1..Len(ring'[n]) : ring'[n][j] = ring[n][j + k]
              /\ \A i \in 1..k : ring[n][i] \in (IF reply[n].accepted = Nothing THEN unread' ELSE Secured)
              /\ \A x \in WifiNodes \ {n} : ring'[x] = ring[x]
              /\ reply[n].ok => k = Consumed(n)
              /\ ~reply[n].ok => ring' = ring /\ unread' = unread
<1>1. ring[n] \in Seq(Reading) /\ Len(ring[n]) \in Nat /\ ring \in [WifiNodes -> Seq(Reading)]
    BY DEF Inv, TypeOK
<1>2. CASE reply[n].ok
    <2>1. /\ Consumed(n) \in Nat /\ Consumed(n) <= Len(ring[n])
          /\ \A i \in 1..Consumed(n) :
                ring[n][i] \in (IF reply[n].accepted = Nothing THEN unread' ELSE Secured)
        BY <1>2, ConsumedSecured
    <2>2. ring' = [ring EXCEPT ![n] = SubSeq(ring[n], Consumed(n) + 1, Len(ring[n]))]
        BY <1>2 DEF ReadReply
    <2>3. /\ ring'[n] = SubSeq(ring[n], Consumed(n) + 1, Len(ring[n]))
          /\ \A x \in WifiNodes \ {n} : ring'[x] = ring[x]
        BY <1>1, <2>2
    <2>4. ASSUME NEW k \in Nat, k <= Len(ring[n]), ring'[n] = SubSeq(ring[n], k + 1, Len(ring[n]))
          PROVE  /\ Len(ring'[n]) = Len(ring[n]) - k
                 /\ \A j \in 1..Len(ring'[n]) : ring'[n][j] = ring[n][j + k]
        <3>1. k + 1 \in Nat /\ Len(ring[n]) - (k + 1) + 1 = Len(ring[n]) - k
            BY <1>1, <2>4
        <3> QED BY <1>1, <2>4, <3>1
    <2>5. Consumed(n) \in 0..Len(ring[n])
        BY <1>1, <2>1
    <2> QED BY <1>2, <2>1, <2>3, <2>4, <2>5
<1>3. CASE ~reply[n].ok
    <2>1. ring' = ring /\ unread' = unread
        BY <1>3 DEF ReadReply
    <2>2. 0 \in 0..Len(ring[n]) /\ \A j \in 1..Len(ring[n]) : j + 0 = j
        BY <1>1
    <2>3. Len(ring[n]) - 0 = Len(ring[n])
        BY <1>1
    <2> QED BY <1>3, <2>1, <2>2, <2>3
<1> QED BY <1>2, <1>3

\* An answer is applied to the ring it speaks of, and ends the wait.
LEMMA ReadReplyCustody ==
    ASSUME Inv, Inv', CustodyInv, NEW n \in WifiNodes, ReadReply(n), Secured \subseteq Secured'
    PROVE  CustodyInv'
<1>1. /\ reply[n] # Nothing /\ request' = request /\ job' = job /\ taken' = taken
      /\ clock' = clock /\ clock \in Nat /\ Len(ring[n]) \in Nat
    BY DEF ReadReply, Inv, TypeOK
<1>2. PICK k \in 0..Len(ring[n]) :
              /\ Len(ring'[n]) = Len(ring[n]) - k
              /\ \A j \in 1..Len(ring'[n]) : ring'[n][j] = ring[n][j + k]
              /\ \A i \in 1..k : ring[n][i] \in (IF reply[n].accepted = Nothing THEN unread' ELSE Secured)
              /\ \A x \in WifiNodes \ {n} : ring'[x] = ring[x]
    BY ReplyRing
<1>3. JobKnown' /\ JobPlace' /\ JobSecured'
    BY <1>1, JobFrame
<1>4. \A x \in WifiNodes : Serves(x)' => Serves(x) /\ job'.batch = job.batch
    BY <1>1 DEF Serves
<1>5. request[n] = Nothing /\ ~Serves(n)
    BY <1>1 DEF CustodyInv, OneCarrier, Carrier
<1>6. reply'[n] = Nothing /\ node'[n].stage # "wait"
    BY DEF ReadReply, Asleep, Inv, TypeOK
<1>7. Carrier(n)' /\ TrueOf(n)'
    BY <1>1, <1>4, <1>5, <1>6 DEF Carrier, TrueOf
<1>8. ASSUME NEW x \in WifiNodes \ {n} PROVE Carrier(x)' /\ TrueOf(x)'
    <2>1. node'[x] = node[x] /\ reply'[x] = reply[x] /\ ring'[x] = ring[x]
        BY <1>2 DEF ReadReply, Inv, TypeOK
    <2> QED BY <1>1, <1>4, <2>1, NodeFrame
<1>9. RingKnown'
    <2>1. ASSUME NEW x \in WifiNodes, NEW i \in 1..Len(ring'[x])
          PROVE  ring'[x][i] \in taken' /\ ring'[x][i].n = x
        <3>1. CASE x = n
            <4>1. i + k \in 1..Len(ring[n]) /\ ring'[x][i] = ring[n][i + k]
                BY <1>1, <1>2, <3>1
            <4> QED BY <1>1, <3>1, <4>1 DEF CustodyInv, RingKnown
        <3>2. CASE x # n
            <4>1. ring'[x] = ring[x]
                BY <1>2, <3>2
            <4> QED BY <1>1, <4>1 DEF CustodyInv, RingKnown
        <3> QED BY <3>1, <3>2
    <2> QED BY <2>1 DEF RingKnown
<1>10. TakenSoFar'
    BY <1>1 DEF CustodyInv, TakenSoFar
<1>11. ASSUME NEW r \in taken' PROVE r \in Secured' \/ \E i \in 1..Len(ring'[r.n]) : ring'[r.n][i] = r
    <2>1. CASE r \in Secured
        BY <2>1
    <2>2. CASE r \notin Secured
        <3>1. r.n \in WifiNodes
            BY <1>1 DEF CustodyInv, TakenSoFar
        <3>2. PICK i \in 1..Len(ring[r.n]) : ring[r.n][i] = r
            BY <1>1, <2>2 DEF CustodyInv, Held
        <3>3. CASE r.n # n
            BY <1>2, <3>1, <3>2, <3>3
        <3>4. CASE r.n = n /\ i <= k
            <4>1. i \in 1..k
                BY <1>1, <1>2, <3>4
            <4>2. r \in unread' \/ r \in Secured
                BY <1>2, <3>2, <3>4, <4>1
            <4> QED BY <2>2, <4>2 DEF Secured, Settled
        <3>5. CASE r.n = n /\ ~(i <= k)
            <4>1. i - k \in 1..Len(ring'[n]) /\ (i - k) + k = i
                BY <1>1, <1>2, <3>5
            <4>2. ring'[n][i - k] = r
                BY <1>2, <3>2, <3>5, <4>1
            <4> QED BY <3>5, <4>1, <4>2
        <3> QED BY <3>3, <3>4, <3>5
    <2> QED BY <2>1, <2>2
<1>12. Held'
    BY <1>11 DEF Held
<1> QED BY <1>3, <1>7, <1>8, <1>9, <1>10, <1>12 DEF CustodyInv, OneCarrier, ReplyTrue

\* A POST is a copy of the front of the ring.
LEMMA PostCustody ==
    ASSUME Inv, Inv', CustodyInv, NEW n \in WifiNodes, Post(n), Secured \subseteq Secured'
    PROVE  CustodyInv'
<1>1. /\ node[n].stage = "flush" /\ ring' = ring /\ reply' = reply /\ job' = job
      /\ clock' = clock /\ clock \in Nat /\ taken' = taken
    BY DEF Post, ledgerVars, Inv, TypeOK
<1>2. PICK k \in 1..SendCount(n) :
         /\ node' = [node EXCEPT ![n] = [stage |-> "wait", batches |-> @.batches, sent |-> k]]
         /\ request' = [request EXCEPT ![n] =
               [i \in 1..k |-> [m |-> ring[n][i].m, t |-> ring[n][i].t,
                                age |-> clock - ring[n][i].t]]]
    BY DEF Post
<1>3. k \in Nat /\ k <= Len(ring[n]) /\ Len(ring[n]) \in Nat
    BY <1>2, StoreForwardAssumption DEF SendCount, Inv, TypeOK
<1>4. JobKnown' /\ JobPlace' /\ JobSecured' /\ RingKnown' /\ TakenSoFar' /\ Held'
    BY <1>1, JobFrame, RingFrame
<1>5. \A x \in WifiNodes : Serves(x)' => Serves(x) /\ job'.batch = job.batch
    BY <1>1 DEF Serves
<1>6. reply[n] = Nothing /\ ~Serves(n)
    BY <1>1 DEF CustodyInv, OneCarrier, Carrier
<1>7. node'[n].stage = "wait" /\ node'[n].sent = k
    BY <1>2 DEF Inv, TypeOK
<1>8. Front(n, request[n])'
    <2>1. request'[n] = [i \in 1..k |-> [m |-> ring[n][i].m, t |-> ring[n][i].t,
                                         age |-> clock - ring[n][i].t]]
        BY <1>2 DEF Inv, TypeOK
    <2>2. Len(request'[n]) = k
        BY <1>3, <2>1
    <2>3. ASSUME NEW i \in 1..k PROVE ring[n][i] = At(n, request'[n][i])
        <3>1. i \in 1..Len(ring[n])
            BY <1>3
        <3>2. ring[n][i] \in Reading /\ ring[n][i].n = n
            BY <3>1 DEF Inv, TypeOK, CustodyInv, RingKnown
        <3>3. request'[n][i].m = ring[n][i].m /\ request'[n][i].t = ring[n][i].t
            BY <2>1
        <3> QED BY <3>2, <3>3 DEF At, Reading
    <2> QED BY <1>1, <1>3, <2>2, <2>3 DEF Front
<1>9. Carrier(n)' /\ TrueOf(n)'
    BY <1>1, <1>3, <1>5, <1>6, <1>7, <1>8 DEF Carrier, TrueOf
<1>10. ASSUME NEW x \in WifiNodes \ {n} PROVE Carrier(x)' /\ TrueOf(x)'
    <2>1. node'[x] = node[x] /\ request'[x] = request[x]
        BY <1>2 DEF Inv, TypeOK
    <2> QED BY <1>1, <1>5, <2>1, NodeFrame
<1> QED BY <1>4, <1>9, <1>10 DEF CustodyInv, OneCarrier, ReplyTrue

\* Whoever waits no longer has no batch anywhere that would be answered to it.
LEMMA GiveUpCustody ==
    ASSUME Inv, Inv', CustodyInv, NEW n \in WifiNodes, PostNothing(n) \/ Timeout(n) \/ RestartNode(n),
           Secured \subseteq Secured'
    PROVE  CustodyInv'
<1>1. /\ clock' = clock /\ clock \in Nat /\ taken' = taken
      /\ \A x \in WifiNodes \ {n} : /\ ring'[x] = ring[x] /\ node'[x] = node[x]
                                    /\ request'[x] = request[x] /\ reply'[x] = reply[x]
      /\ node'[n].stage = "sleep"
    BY DEF PostNothing, Timeout, RestartNode, netVars, ledgerVars, Asleep, Inv, TypeOK
<1>2. /\ request'[n] = Nothing /\ reply'[n] = Nothing
      /\ (job' = job /\ ~Serves(n)) \/ job' = HungUp(n)
    <2>1. CASE PostNothing(n)
        BY <2>1 DEF PostNothing, netVars, CustodyInv, OneCarrier, Carrier
    <2>2. CASE Timeout(n) \/ RestartNode(n)
        BY <2>2 DEF Timeout, RestartNode, Inv, TypeOK
    <2> QED BY <2>1, <2>2
<1>3. /\ ~Serves(n)'
      /\ \A x \in WifiNodes \ {n} : Serves(x)' => Serves(x) /\ job'.batch = job.batch
      /\ \/ job' = Nothing
         \/ /\ job # Nothing
            /\ job'.n = job.n /\ job'.batch = job.batch /\ job'.pass = job.pass
            /\ job'.i = job.i /\ job'.accepted = job.accepted
    <2>1. CASE job' = job /\ ~Serves(n)
        BY <2>1 DEF Serves
    <2>2. CASE job' = HungUp(n) /\ job # Nothing /\ job.n = n
        <3>1. job \in Job /\ job' = [job EXCEPT !.open = FALSE]
            BY <2>2 DEF HungUp, Inv, TypeOK
        <3>2. /\ job'.n = job.n /\ job'.batch = job.batch /\ job'.pass = job.pass
              /\ job'.i = job.i /\ job'.accepted = job.accepted
            BY <3>1, Zenon DEF Job
        <3>3. job'.open = FALSE
            BY <3>1, Zenon DEF Job
        <3> QED BY <2>2, <3>2, <3>3 DEF Serves
    <2>3. CASE job' = HungUp(n) /\ ~(job # Nothing /\ job.n = n)
        <3>1. job' = job
            BY <2>3 DEF HungUp
        <3> QED BY <2>3, <3>1 DEF Serves
    <2> QED BY <1>2, <2>1, <2>2, <2>3
<1>4. JobKnown' /\ JobPlace' /\ JobSecured'
    BY <1>1, <1>3, JobFrame
<1>5. Carrier(n)' /\ TrueOf(n)'
    BY <1>1, <1>2, <1>3 DEF Carrier, TrueOf
<1>6. \A x \in WifiNodes \ {n} : Carrier(x)' /\ TrueOf(x)'
    BY <1>1, <1>3, NodeFrame
<1>7. RingKnown' /\ TakenSoFar' /\ Held'
    <2>1. CASE ring' = ring
        BY <1>1, <2>1, RingFrame
    <2>2. CASE RestartNode(n)
        <3>1. ring'[n] = <<>> /\ lost' = lost \cup {ring[n][i] : i \in DOMAIN ring[n]}
            BY <2>2 DEF RestartNode, Inv, TypeOK
        <3>2. RingKnown'
            BY <1>1, <3>1 DEF CustodyInv, RingKnown
        <3>3. TakenSoFar'
            BY <1>1 DEF CustodyInv, TakenSoFar
        <3>4. ASSUME NEW r \in taken
              PROVE  r \in Secured' \/ \E i \in 1..Len(ring'[r.n]) : ring'[r.n][i] = r
            <4>1. r \in Secured \/ \E i \in 1..Len(ring[r.n]) : ring[r.n][i] = r
                BY DEF CustodyInv, Held
            <4>2. r.n \in WifiNodes
                BY DEF CustodyInv, TakenSoFar
            <4>3. DOMAIN ring[n] = 1..Len(ring[n])
                BY DEF Inv, TypeOK
            <4>4. ASSUME r.n = n, NEW i \in 1..Len(ring[n]), ring[n][i] = r PROVE r \in Secured'
                BY <3>1, <4>3, <4>4 DEF Secured, Settled
            <4> QED BY <1>1, <4>1, <4>2, <4>4
        <3>5. Held'
            BY <1>1, <3>4 DEF Held
        <3> QED BY <3>2, <3>3, <3>5
    <2> QED BY <2>1, <2>2 DEF PostNothing, Timeout
<1> QED BY <1>4, <1>5, <1>6, <1>7 DEF CustodyInv, OneCarrier, ReplyTrue

\* The nodes' part of the invariant, while only the walk moves.
LEMMA WalkFrame ==
    ASSUME Inv, CustodyInv, Secured \subseteq Secured', taken' = taken,
           ring' = ring, node' = node, request' = request, reply' = reply,
           clock' \in Nat, clock <= clock',
           \A x \in WifiNodes : Serves(x)' => Serves(x) /\ job'.batch = job.batch
    PROVE  RingKnown' /\ TakenSoFar' /\ Held' /\ OneCarrier' /\ ReplyTrue'
<1>1. RingKnown' /\ TakenSoFar' /\ Held'
    BY RingFrame
<1>2. ASSUME NEW x \in WifiNodes PROVE Carrier(x)' /\ TrueOf(x)'
    BY NodeFrame
<1> QED BY <1>1, <1>2 DEF OneCarrier, ReplyTrue

\* A walk begins with the front of its node's ring, and has secured nothing.
LEMMA BeginCustody ==
    ASSUME Inv, Inv', CustodyInv, NEW n \in WifiNodes, Begin(n), Secured \subseteq Secured'
    PROVE  CustodyInv'
<1>1. /\ job = Nothing /\ request[n] # Nothing /\ ring' = ring /\ node' = node /\ reply' = reply
      /\ clock' = clock /\ clock \in Nat /\ taken' = taken
    BY DEF Begin, nodeVars, ledgerVars, Inv, TypeOK
<1>2. /\ job'.n = n /\ job'.batch = request[n] /\ job'.pass = "live" /\ job'.i = 1
      /\ job'.accepted = 0
    BY DEF Begin
<1>3. request'[n] = Nothing /\ \A x \in WifiNodes \ {n} : request'[x] = request[x]
    BY DEF Begin, Inv, TypeOK
<1>4. node[n].stage = "wait" /\ reply[n] = Nothing /\ Front(n, request[n])
    BY <1>1 DEF CustodyInv, OneCarrier, Carrier
<1>5. request[n] \in Seq(Offered) /\ Len(request[n]) \in Nat
    BY <1>1 DEF Inv, TypeOK
<1>6. RingKnown' /\ TakenSoFar' /\ Held'
    BY <1>1, RingFrame
<1>7. \A x \in WifiNodes \ {n} : ~Serves(x)'
    BY <1>2 DEF Serves
<1>8. Front(n, request[n])' <=> Front(n, request'[n])
    BY <1>1 DEF Front
<1>9. Carrier(n)' /\ TrueOf(n)'
    BY <1>1, <1>2, <1>3, <1>4 DEF Carrier, TrueOf, Front, CustodyInv, OneCarrier
<1>10. ASSUME NEW x \in WifiNodes \ {n} PROVE Carrier(x)' /\ TrueOf(x)'
    BY <1>1, <1>3, <1>7, NodeFrame
<1>11. JobKnown'
    <2>1. ASSUME NEW i \in 1..Len(request[n]) PROVE Walked(i)' \in taken
        <3>1. Walked(i)' = ring[n][i] /\ i \in 1..Len(ring[n])
            <4>1. Len(ring[n]) \in Nat
                BY DEF Inv, TypeOK
            <4> QED BY <1>2, <1>4, <1>5, <4>1 DEF Walked, Front, At
        <3> QED BY <3>1 DEF CustodyInv, RingKnown
    <2> QED BY <1>1, <1>2, <2>1 DEF JobKnown
<1>12. JobPlace' /\ JobSecured'
    BY <1>2, <1>5 DEF JobPlace, JobSecured
<1> QED BY <1>6, <1>9, <1>10, <1>11, <1>12 DEF CustodyInv, OneCarrier, ReplyTrue

\* An error answer, or one that cannot be read, counts nothing.
LEMMA SpoiltCustody ==
    ASSUME Inv, Inv', CustodyInv, NEW n \in WifiNodes, Refuse(n) \/ Garble(n), Secured \subseteq Secured'
    PROVE  CustodyInv'
<1>1. /\ ring' = ring /\ node' = node /\ job' = job
      /\ clock' = clock /\ clock \in Nat /\ taken' = taken
    BY DEF Refuse, Garble, nodeVars, ledgerVars, Inv, TypeOK
<1>2. \A x \in WifiNodes \ {n} : request'[x] = request[x] /\ reply'[x] = reply[x]
    BY DEF Refuse, Garble, Inv, TypeOK
<1>3. JobKnown' /\ JobPlace' /\ JobSecured' /\ RingKnown' /\ TakenSoFar' /\ Held'
    BY <1>1, JobFrame, RingFrame
<1>4. \A x \in WifiNodes : Serves(x)' <=> Serves(x)
    BY <1>1 DEF Serves
<1>5. Carrier(n)
    BY DEF CustodyInv, OneCarrier
<1>6. /\ (~reply'[n].ok \/ reply'[n].accepted = Nothing)
      /\ request'[n] = Nothing /\ node[n].stage = "wait" /\ ~Serves(n)
    <2>1. CASE Refuse(n)
        <3>1. reply'[n] = [ok |-> FALSE, accepted |-> Nothing] /\ request'[n] = Nothing
            BY <2>1 DEF Refuse, Inv, TypeOK
        <3>2. reply'[n].ok = FALSE
            BY <3>1
        <3> QED BY <1>5, <2>1, <3>1, <3>2 DEF Refuse, Carrier
    <2>2. CASE Garble(n)
        <3>1. reply'[n] = [ok |-> TRUE, accepted |-> Nothing] /\ request' = request /\ reply[n] # Nothing
            BY <2>2 DEF Garble, Inv, TypeOK
        <3>2. reply'[n].accepted = Nothing
            BY <3>1
        <3> QED BY <1>5, <3>1, <3>2 DEF Carrier
    <2> QED BY <2>1, <2>2
<1>7. Carrier(n)' /\ TrueOf(n)'
    BY <1>1, <1>4, <1>5, <1>6 DEF Carrier, TrueOf
<1>8. ASSUME NEW x \in WifiNodes \ {n} PROVE Carrier(x)' /\ TrueOf(x)'
    BY <1>1, <1>2, <1>4, NodeFrame
<1> QED BY <1>3, <1>7, <1>8 DEF CustodyInv, OneCarrier, ReplyTrue

\* One more element of the first pass: if it is a current value, it is secured.
LEMMA LivePassCustody ==
    ASSUME Inv, Inv', CustodyInv, LivePass, Secured \subseteq Secured'
    PROVE  CustodyInv'
<1>1. /\ ring' = ring /\ node' = node /\ request' = request /\ reply' = reply
      /\ clock' = clock /\ clock \in Nat /\ taken' = taken /\ recorded' = recorded /\ unread' = unread
    BY DEF LivePass, nodeVars, netVars, Inv, TypeOK
<1>2. job' = [job EXCEPT !.i = @ + 1] /\ Walking("live") /\ job \in Job /\ job # Nothing /\ job.i \in Nat
    BY HereType DEF LivePass
<1>3. /\ job'.n = job.n /\ job'.batch = job.batch /\ job'.pass = job.pass
      /\ job'.accepted = job.accepted /\ job'.open = job.open
    BY <1>2, Zenon DEF Job
<1>4. job'.i = job.i + 1
    BY <1>2, Zenon DEF Job
<1>5. \A x \in WifiNodes : Serves(x)' => Serves(x) /\ job'.batch = job.batch
    BY <1>2, <1>3 DEF Serves
<1>6. RingKnown' /\ TakenSoFar' /\ Held' /\ OneCarrier' /\ ReplyTrue'
    BY <1>1, <1>5, WalkFrame
<1>7. \A i \in 1..Len(job.batch) : Walked(i)' = Walked(i)
    BY <1>3 DEF Walked, At
<1>8. \A i : IsLive(job.batch, i)' <=> IsLive(job.batch, i)
    BY <1>3 DEF IsLive, Newest
<1>9. JobKnown'
    BY <1>1, <1>2, <1>3, <1>7 DEF CustodyInv, JobKnown
<1>10. JobPlace'
    BY <1>2, <1>3 DEF CustodyInv, JobPlace, Walking
<1>11. IsLive(job.batch, job.i) => Walked(job.i) \in Secured'
    <2>1. CASE StoreCurrent
        <3>1. HereReading \in Secured'
            BY <1>1, <1>2, <2>1, StoreCurrentSecures
        <3> QED BY <3>1 DEF HereReading, Here, Walked, At
    <2> QED BY <2>1 DEF LivePass
<1>12. ASSUME NEW i \in 1..Len(job.batch), IsLive(job.batch, i), i < job.i + 1
       PROVE  Walked(i) \in Secured'
    <2>1. i = job.i \/ i < job.i
        BY <1>2, <1>12
    <2>2. CASE i < job.i
        BY <1>2, <1>12, <2>2 DEF CustodyInv, JobSecured
    <2> QED BY <1>11, <1>12, <2>1, <2>2
<1>13. JobSecured'
    <2>1. job.pass = "live"
        BY <1>2 DEF Walking
    <2>2. \A i \in 1..Len(job'.batch) : i <= job'.accepted => Walked(i)' \in Secured'
        BY <1>2, <1>3, <1>7 DEF CustodyInv, JobSecured
    <2>3. \A i \in 1..Len(job'.batch) :
             IsLive(job.batch, i)' /\ (job'.pass = "live" => i < job'.i) => Walked(i)' \in Secured'
        BY <1>3, <1>4, <1>7, <1>8, <1>12, <2>1
    <2> QED BY <2>2, <2>3 DEF JobSecured
<1> QED BY <1>6, <1>9, <1>10, <1>13 DEF CustodyInv

\* The ends of the two passes.
LEMMA PassEndsCustody ==
    ASSUME Inv, Inv', CustodyInv, LivePassEnds \/ HoldRest, Secured \subseteq Secured'
    PROVE  CustodyInv'
<1>1. /\ ring' = ring /\ node' = node /\ request' = request /\ reply' = reply
      /\ clock' = clock /\ clock \in Nat /\ taken' = taken
    BY DEF LivePassEnds, HoldRest, nodeVars, netVars, ledgerVars, Inv, TypeOK
<1>2. job \in Job /\ job # Nothing /\ job.i \in Nat \ {0} /\ Len(job.batch) \in Nat
    BY DEF LivePassEnds, HoldRest, Walking, Inv, TypeOK, Job
<1>3. /\ job'.n = job.n /\ job'.batch = job.batch /\ job'.open = job.open
      /\ job'.accepted = job.accepted
    <2>1. CASE job' = [job EXCEPT !.pass = "prefix", !.i = 1]
        BY <1>2, <2>1, Zenon DEF Job
    <2>2. CASE job' = [job EXCEPT !.pass = "answer"]
        BY <1>2, <2>2, Zenon DEF Job
    <2> QED BY <2>1, <2>2 DEF LivePassEnds, HoldRest
<1>4. \/ job'.pass = "prefix" /\ job'.i = 1 /\ job.pass = "live" /\ job.i > Len(job.batch)
      \/ job'.pass = "answer" /\ job.pass = "prefix"
    <2>1. CASE LivePassEnds
        <3>1. job' = [job EXCEPT !.pass = "prefix", !.i = 1]
            BY <2>1 DEF LivePassEnds
        <3>2. job'.pass = "prefix" /\ job'.i = 1
            BY <1>2, <3>1, Zenon DEF Job
        <3> QED BY <2>1, <3>2 DEF LivePassEnds
    <2>2. CASE HoldRest
        <3>1. job' = [job EXCEPT !.pass = "answer"] /\ job.pass = "prefix"
            BY <2>2 DEF HoldRest, Walking
        <3>2. job'.pass = "answer"
            BY <1>2, <3>1, Zenon DEF Job
        <3> QED BY <3>1, <3>2
    <2> QED BY <2>1, <2>2
<1>5. \A x \in WifiNodes : Serves(x)' => Serves(x) /\ job'.batch = job.batch
    BY <1>2, <1>3 DEF Serves
<1>6. RingKnown' /\ TakenSoFar' /\ Held' /\ OneCarrier' /\ ReplyTrue'
    BY <1>1, <1>5, WalkFrame
<1>7. \A i \in 1..Len(job.batch) : Walked(i)' = Walked(i)
    BY <1>3 DEF Walked, At
<1>8. \A i : IsLive(job.batch, i)' <=> IsLive(job.batch, i)
    BY <1>3 DEF IsLive, Newest
<1>9. JobKnown'
    BY <1>1, <1>2, <1>3, <1>7 DEF CustodyInv, JobKnown
<1>10. JobPlace'
    BY <1>2, <1>3, <1>4 DEF CustodyInv, JobPlace
<1>11. ASSUME NEW i \in 1..Len(job.batch), IsLive(job.batch, i)
       PROVE  Walked(i) \in Secured'
    <2>1. job.pass = "live" => i < job.i
        BY <1>2, <1>4
    <2> QED BY <1>2, <1>11, <2>1 DEF CustodyInv, JobSecured
<1>12. JobSecured'
    <2>1. \A i \in 1..Len(job'.batch) : i <= job'.accepted => Walked(i)' \in Secured'
        BY <1>2, <1>3, <1>7 DEF CustodyInv, JobSecured
    <2>2. \A i \in 1..Len(job'.batch) : IsLive(job.batch, i)' => Walked(i)' \in Secured'
        BY <1>3, <1>7, <1>8, <1>11
    <2> QED BY <2>1, <2>2 DEF JobSecured
<1> QED BY <1>6, <1>9, <1>10, <1>12 DEF CustodyInv

\* One more element of the second pass is counted only when it is secured.
LEMMA PrefixPassCustody ==
    ASSUME Inv, Inv', CustodyInv, PrefixPass, Secured \subseteq Secured'
    PROVE  CustodyInv'
<1>1. /\ ring' = ring /\ node' = node /\ request' = request /\ reply' = reply
      /\ clock' = clock /\ clock \in Nat /\ taken' = taken /\ recorded' = recorded /\ unread' = unread
    BY DEF PrefixPass, nodeVars, netVars, Inv, TypeOK
<1>2. /\ Walking("prefix") /\ job \in Job /\ job # Nothing /\ job.i \in Nat /\ job.accepted \in Nat
      /\ job.pass = "prefix" /\ job.i <= Len(job.batch) /\ Len(job.batch) \in Nat
      /\ job.i \in 1..Len(job.batch)
    <2>1. Walking("prefix") /\ job \in Job /\ job # Nothing /\ job.i \in Nat /\ job.accepted \in Nat
        BY HereType DEF PrefixPass
    <2>2. job.i \in Nat \ {0} /\ Len(job.batch) \in Nat
        BY <2>1 DEF Job
    <2> QED BY <2>1, <2>2 DEF Walking
<1>3. /\ job'.n = job.n /\ job'.batch = job.batch /\ job'.pass = job.pass /\ job'.open = job.open
      /\ job'.i = job.i + 1 /\ job'.accepted = job.accepted + 1
    <2>1. CASE QueueBackfill
        <3> DEFINE room == IF HasSlot(job.n, Here.m) THEN job.room - 1 ELSE job.room
                   shed == IF Sheds(job.n, Here.m) THEN job.shed + 1 ELSE job.shed
        <3>1. job' = [job EXCEPT !.i = job.i + 1, !.accepted = job.accepted + 1, !.room = room, !.shed = shed]
            BY <2>1 DEF QueueBackfill
        <3> HIDE DEF room, shed
        <3> QED BY <1>2, <3>1, Zenon DEF Job
    <2>2. CASE job' = [job EXCEPT !.i = @ + 1, !.accepted = @ + 1]
        <3>1. job' = [job EXCEPT !.i = job.i + 1, !.accepted = job.accepted + 1]
            BY <2>2
        <3> QED BY <1>2, <3>1, Zenon DEF Job
    <2> QED BY <2>1, <2>2 DEF PrefixPass
<1>4. \A x \in WifiNodes : Serves(x)' => Serves(x) /\ job'.batch = job.batch
    BY <1>2, <1>3 DEF Serves
<1>5. RingKnown' /\ TakenSoFar' /\ Held' /\ OneCarrier' /\ ReplyTrue'
    BY <1>1, <1>4, WalkFrame
<1>6. \A i \in 1..Len(job.batch) : Walked(i)' = Walked(i)
    BY <1>3 DEF Walked, At
<1>7. \A i : IsLive(job.batch, i)' <=> IsLive(job.batch, i)
    BY <1>3 DEF IsLive, Newest
<1>8. JobKnown'
    BY <1>1, <1>2, <1>3, <1>6 DEF CustodyInv, JobKnown
<1>9. job.accepted = job.i - 1
    BY <1>2 DEF CustodyInv, JobPlace
<1>10. JobPlace'
    BY <1>2, <1>3, <1>9 DEF JobPlace
<1>11. Walked(job.i) = HereReading
    BY DEF HereReading, Here, Walked, At
<1>12. Walked(job.i) \in Secured'
    <2>1. CASE IsBackfill(job.batch, job.i) /\ QueueBackfill
        BY <1>1, <1>2, <1>11, <2>1, QueueBackfillSecures
    <2>2. CASE StoreCurrent
        BY <1>1, <1>2, <1>11, <2>2, StoreCurrentSecures
    <2>3. CASE IsLive(job.batch, job.i)
        BY <1>2, <2>3 DEF CustodyInv, JobSecured
    <2> QED BY <2>1, <2>2, <2>3 DEF PrefixPass
<1>13. ASSUME NEW i \in 1..Len(job.batch), i <= job.accepted + 1
       PROVE  Walked(i) \in Secured'
    <2>1. i <= job.accepted \/ i = job.i
        BY <1>2, <1>9, <1>13
    <2>2. CASE i <= job.accepted
        BY <1>2, <2>2 DEF CustodyInv, JobSecured
    <2> QED BY <1>12, <2>1, <2>2
<1>14. JobSecured'
    <2>1. \A i \in 1..Len(job'.batch) : i <= job'.accepted => Walked(i)' \in Secured'
        BY <1>3, <1>6, <1>13
    <2>2. \A i \in 1..Len(job'.batch) : IsLive(job.batch, i)' => Walked(i)' \in Secured'
        BY <1>2, <1>3, <1>6, <1>7 DEF CustodyInv, JobSecured
    <2> QED BY <2>1, <2>2 DEF JobSecured
<1> QED BY <1>5, <1>8, <1>10, <1>14 DEF CustodyInv

\* The answer tells the node how much of its front is secured.
LEMMA AnswerCustody ==
    ASSUME Inv, Inv', CustodyInv, Answer, Secured \subseteq Secured'
    PROVE  CustodyInv'
<1>1. /\ ring' = ring /\ node' = node /\ request' = request /\ job # Nothing /\ job' = Nothing
      /\ clock' = clock /\ clock \in Nat /\ taken' = taken
    BY DEF Answer, nodeVars, ledgerVars, Inv, TypeOK
<1>2. JobKnown' /\ JobPlace' /\ JobSecured' /\ RingKnown' /\ TakenSoFar' /\ Held'
    BY <1>1, JobFrame, RingFrame
<1>3. \A x \in WifiNodes : ~Serves(x)'
    BY <1>1 DEF Serves
<1>4. job \in Job /\ job.n \in WifiNodes /\ Len(job.batch) \in Nat /\ job.accepted \in Nat
    BY <1>1 DEF Inv, TypeOK, Job
<1>5. ASSUME NEW x \in WifiNodes, reply'[x] = reply[x] PROVE Carrier(x)' /\ TrueOf(x)'
    BY <1>1, <1>3, <1>5, NodeFrame
<1>6. CASE ~job.open
    <2>1. reply' = reply
        BY <1>6 DEF Answer
    <2> QED BY <1>2, <1>5, <2>1 DEF CustodyInv, OneCarrier, ReplyTrue
<1>7. CASE job.open
    <2>0. PICK n \in WifiNodes : n = job.n
        BY <1>4
    <2>1. /\ reply'[n] = [ok |-> TRUE, accepted |-> job.accepted]
          /\ \A x \in WifiNodes \ {n} : reply'[x] = reply[x]
        BY <1>4, <1>7, <2>0 DEF Answer, Inv, TypeOK
    <2>2. Serves(n)
        BY <1>1, <1>7, <2>0 DEF Serves
    <2>3. node[n].stage = "wait" /\ Front(n, job.batch) /\ request[n] = Nothing
        BY <1>4, <2>2 DEF CustodyInv, OneCarrier, Carrier
    <2>4. Carrier(n)'
        BY <1>1, <1>3, <1>4, <2>3 DEF Carrier, CustodyInv, OneCarrier
    <2>5. ASSUME NEW i \in 1..job.accepted
          PROVE  i \in 1..Len(ring[n]) /\ ring[n][i] \in Secured'
        <3>1. job.accepted <= Len(job.batch) /\ Len(ring[n]) \in Nat
            BY <1>1, <1>4 DEF CustodyInv, JobPlace, Inv, TypeOK
        <3>2. i \in 1..Len(job.batch) /\ i \in 1..Len(ring[n]) /\ i <= job.accepted
            BY <1>4, <2>3, <3>1 DEF Front
        <3>3. ring[n][i] = Walked(i)
            BY <2>0, <2>3, <3>2 DEF Front, Walked
        <3>4. Walked(i) \in Secured
            BY <1>1, <3>2 DEF CustodyInv, JobSecured
        <3> QED BY <3>2, <3>3, <3>4
    <2>6. reply'[n].accepted = job.accepted
        BY <2>1
    <2>7. TrueOf(n)'
        BY <1>1, <2>5, <2>6 DEF TrueOf
    <2>8. ASSUME NEW x \in WifiNodes \ {n} PROVE Carrier(x)' /\ TrueOf(x)'
        BY <1>5, <2>1
    <2> QED BY <1>2, <2>4, <2>7, <2>8 DEF CustodyInv, OneCarrier, ReplyTrue
<1> QED BY <1>6, <1>7

\* The collector's other tasks, its restart and the passing of time.
LEMMA OthersCustody ==
    ASSUME Inv, Inv', CustodyInv, Secured \subseteq Secured',
           \/ \E n \in EspNodes, m \in Metrics : EspNowHistory(n, m)
           \/ \E n \in Listened : SensorTick(n)
           \/ ClockSet \/ RestartCollector \/ Tick \/ UNCHANGED vars
    PROVE  CustodyInv'
<1>1. /\ ring' = ring /\ node' = node /\ reply' = reply /\ taken' = taken
      /\ clock \in Nat /\ clock' \in Nat /\ clock <= clock'
    <2>1. clock \in Nat
        BY DEF Inv, TypeOK
    <2>2. CASE Tick
        BY <2>1, <2>2 DEF Tick, nodeVars, netVars, ledgerVars
    <2>3. CASE UNCHANGED vars
        BY <2>1, <2>3 DEF vars, nodeVars, netVars, ledgerVars
    <2>4. CASE \E n \in EspNodes, m \in Metrics : EspNowHistory(n, m)
        <3>1. UNCHANGED <<clock, synced, nodeVars, netVars, taken, current, recorded, unread, crashes>>
            BY <2>4, Zenon DEF EspNowHistory
        <3> QED BY <2>1, <3>1 DEF nodeVars, netVars
    <2>5. CASE ClockSet
        BY <2>1, <2>5 DEF ClockSet, nodeVars, netVars, ledgerVars
    <2>6. CASE RestartCollector
        BY <2>1, <2>6 DEF RestartCollector, nodeVars
    <2>7. CASE \E n \in Listened : SensorTick(n)
        BY <2>1, <2>7 DEF SensorTick, nodeVars, netVars
    <2> QED BY <2>2, <2>3, <2>4, <2>5, <2>6, <2>7
<1>2. CASE RestartCollector
    <2>1. job' = Nothing /\ \A x \in WifiNodes : request'[x] = Nothing
        BY <1>2 DEF RestartCollector
    <2>2. JobKnown' /\ JobPlace' /\ JobSecured' /\ RingKnown' /\ TakenSoFar' /\ Held'
        BY <1>1, <2>1, JobFrame, RingFrame
    <2>3. ASSUME NEW x \in WifiNodes PROVE Carrier(x)' /\ TrueOf(x)'
        BY <1>1, <2>1 DEF Carrier, TrueOf, Serves, CustodyInv, OneCarrier, ReplyTrue
    <2> QED BY <2>2, <2>3 DEF CustodyInv, OneCarrier, ReplyTrue
<1>3. CASE ~RestartCollector
    <2>1. request' = request
        BY <1>3 DEF EspNowHistory, SensorTick, ClockSet, Tick, vars, netVars
    <2>2. /\ \/ job' = Nothing
             \/ /\ job # Nothing
                /\ job'.n = job.n /\ job'.batch = job.batch /\ job'.pass = job.pass
                /\ job'.i = job.i /\ job'.accepted = job.accepted
          /\ \A x \in WifiNodes : Serves(x)' => Serves(x) /\ job'.batch = job.batch
        <3>1. CASE job' = job
            BY <3>1 DEF Serves
        <3>2. ASSUME NEW n \in EspNodes, NEW m \in Metrics, EspNowHistory(n, m), job # Nothing
              PROVE  /\ job'.n = job.n /\ job'.batch = job.batch /\ job'.pass = job.pass
                     /\ job'.i = job.i /\ job'.accepted = job.accepted /\ job'.open = job.open
            <4> DEFINE raced == IF HasSlot(n, m) THEN job.raced + 1 ELSE job.raced
                       shed  == IF Sheds(n, m) THEN job.shed + 1 ELSE job.shed
            <4>1. job \in Job /\ job' = [job EXCEPT !.raced = raced, !.shed = shed]
                BY <3>2 DEF EspNowHistory, Inv, TypeOK
            <4> HIDE DEF raced, shed
            <4> QED BY <4>1, Zenon DEF Job
        <3>3. ASSUME NEW n \in EspNodes, NEW m \in Metrics, EspNowHistory(n, m), job = Nothing
              PROVE  job' = job
            BY <3>3 DEF EspNowHistory
        <3>4. CASE \E n \in EspNodes, m \in Metrics : EspNowHistory(n, m)
            BY <3>1, <3>2, <3>3, <3>4 DEF Serves
        <3> QED BY <1>3, <3>1, <3>4 DEF SensorTick, ClockSet, Tick, vars
    <2>3. JobKnown' /\ JobPlace' /\ JobSecured'
        BY <1>1, <2>2, JobFrame
    <2>4. RingKnown' /\ TakenSoFar' /\ Held' /\ OneCarrier' /\ ReplyTrue'
        BY <1>1, <2>1, <2>2, WalkFrame
    <2> QED BY <2>3, <2>4 DEF CustodyInv
<1> QED BY <1>2, <1>3

\* Custody is handed on by every step.
LEMMA NextCustody == Inv /\ Inv' /\ CustodyInv /\ [Next]_vars => CustodyInv'
<1> SUFFICES ASSUME Inv, Inv', CustodyInv, [Next]_vars PROVE CustodyInv'
    OBVIOUS
<1>1. Secured \subseteq Secured'
    BY SecuredGrows
<1>2. ASSUME NEW n \in WifiNodes, NodeStep(n) PROVE CustodyInv'
    BY <1>1, <1>2, WakeCustody, PostCustody, GiveUpCustody, ReadReplyCustody DEF NodeStep
<1>3. ASSUME NEW n \in WifiNodes, Timeout(n) \/ RestartNode(n) \/ Begin(n) \/ Refuse(n) \/ Garble(n)
      PROVE  CustodyInv'
    BY <1>1, <1>3, GiveUpCustody, BeginCustody, SpoiltCustody
<1>4. CASE HandlerStep
    BY <1>1, <1>4, LivePassCustody, PassEndsCustody, PrefixPassCustody, AnswerCustody DEF HandlerStep
<1>5. CASE \/ \E n \in EspNodes, m \in Metrics : EspNowHistory(n, m)
           \/ \E n \in Listened : SensorTick(n)
           \/ ClockSet \/ RestartCollector \/ Tick \/ UNCHANGED vars
    BY <1>1, <1>5, OthersCustody
<1> QED BY <1>2, <1>3, <1>4, <1>5 DEF Next

\* Custody holds in every state the program reaches.
THEOREM CustodyHolds == Spec => [](Inv /\ CustodyInv)
<1>1. Init => Inv /\ CustodyInv
    BY InitInv, InitCustody
<1>2. Inv /\ CustodyInv /\ [Next]_vars => (Inv /\ CustodyInv)'
    BY NextInv, NextCustody
<1> QED BY <1>1, <1>2, PTL DEF Spec

\* No loss of a request or a reply, no retry, no restart and no partial batch
\* makes a reading disappear, with any number of nodes and any sizes.
THEOREM NothingLost == Spec => []NothingVanishes
<1>1. ASSUME Inv, CustodyInv PROVE NothingVanishes
    <2>1. ASSUME NEW r \in taken
          PROVE  Received(r) \/ r \in lost \/ r \in unread \/ \E i \in DOMAIN ring[r.n] : ring[r.n][i] = r
        <3>1. r \in Secured \/ \E i \in 1..Len(ring[r.n]) : ring[r.n][i] = r
            BY <1>1 DEF CustodyInv, Held
        <3>2. r.n \in WifiNodes
            BY <1>1 DEF CustodyInv, TakenSoFar
        <3>3. DOMAIN ring[r.n] = 1..Len(ring[r.n])
            BY <1>1, <3>2 DEF Inv, TypeOK
        <3> QED BY <3>1, <3>3 DEF Secured, Settled, Received
    <2> QED BY <2>1 DEF NothingVanishes
<1> QED BY <1>1, CustodyHolds, PTL

-----------------------------------------------------------------------------
(* The order of a sensor's readings.                                       *)

\* Only what was taken is secured.
SecuredTaken == Secured \subseteq taken

\* Wherever a reading is on its way, what is older is secured or before it.
RingOrder ==
    \A n \in WifiNodes : \A i \in 1..Len(ring[n]), q \in taken :
        Older(q, ring[n][i]) => q \in Secured \/ \E j \in 1..Len(ring[n]) : j < i /\ ring[n][j] = q

JobOrder ==
    job # Nothing =>
        \A i \in 1..Len(job.batch), q \in taken :
            Older(q, Walked(i)) => q \in Secured \/ \E j \in 1..Len(job.batch) : j < i /\ Walked(j) = q

HistOrder ==
    \A i \in 1..Len(hist), q \in taken :
        QueuedReading(i).n \in WifiNodes /\ Older(q, QueuedReading(i)) =>
            q \in Settled \/ \E j \in 1..Len(hist) : j < i /\ QueuedReading(j) = q

OrderInv == SecuredTaken /\ RingOrder /\ JobOrder /\ HistOrder /\ NoOvertaking

\* A fresh start has no order to break.
LEMMA InitOrder == Init => OrderInv
<1> SUFFICES ASSUME Init PROVE OrderInv
    OBVIOUS
<1>1. /\ \A n \in WifiNodes : Len(ring[n]) = 0
      /\ job = Nothing /\ taken = {} /\ Len(hist) = 0 /\ DOMAIN hist = {}
      /\ current = {} /\ recorded = {} /\ lost = {} /\ unread = {}
    BY DEF Init, IngestInit
<1>2. Secured = {}
    BY <1>1 DEF Secured, Settled, OfWifi
<1> QED BY <1>1, <1>2 DEF OrderInv, SecuredTaken, RingOrder, JobOrder, HistOrder, NoOvertaking

\* What is taken later is not older: samples carry the present time.
LEMMA OlderKnown ==
    ASSUME Inv, CustodyInv, [Next]_vars, NEW r \in taken, NEW q \in taken', Older(q, r)
    PROVE  q \in taken
<1>1. CASE taken' = taken
    BY <1>1
<1>2. ASSUME NEW n \in WifiNodes, Records(n) PROVE q \in taken
    <2>1. /\ Len(Sample(n)) = Len(Report)
          /\ \A i \in 1..Len(Report) : Sample(n)[i] = [n |-> n, m |-> Report[i], t |-> clock]
          /\ taken' = taken \cup {Sample(n)[i] : i \in 1..Len(Report)}
        BY <1>2, WakeRing
    <2>2. CASE q \notin taken
        <3>1. PICK i \in 1..Len(Report) : q = [n |-> n, m |-> Report[i], t |-> clock]
            BY <2>1, <2>2
        <3>2. q.t = clock
            BY <3>1
        <3>3. r.t <= clock /\ clock \in Nat /\ r.t \in Nat
            BY DEF CustodyInv, TakenSoFar, Inv, TypeOK, Reading
        <3> QED BY <3>2, <3>3 DEF Older
    <2> QED BY <2>2
<1>3. taken' = taken \/ \E n \in WifiNodes : Records(n)
    <2>1. ASSUME NEW n \in WifiNodes, NodeStep(n) PROVE taken' = taken \/ Records(n)
        BY <2>1 DEF NodeStep, Wake, Post, PostNothing, ReadReply, Records, ledgerVars
    <2>2. ASSUME NEW n \in WifiNodes, Timeout(n) \/ RestartNode(n) \/ Begin(n) \/ Refuse(n) \/ Garble(n)
          PROVE  taken' = taken
        BY <2>2 DEF Timeout, RestartNode, Begin, Refuse, Garble, ledgerVars
    <2>3. CASE HandlerStep
        BY <2>3 DEF HandlerStep, LivePass, LivePassEnds, HoldRest, PrefixPass, Answer, ledgerVars
    <2>4. ASSUME NEW n \in EspNodes, NEW m \in Metrics, EspNowHistory(n, m) PROVE taken' = taken
        BY <2>4 DEF EspNowHistory
    <2>5. ASSUME NEW n \in Listened, SensorTick(n) PROVE taken' = taken
        BY <2>5 DEF SensorTick
    <2>6. CASE ClockSet \/ RestartCollector \/ Tick \/ UNCHANGED vars
        BY <2>6 DEF ClockSet, RestartCollector, Tick, vars, ledgerVars
    <2> QED BY <2>1, <2>2, <2>3, <2>4, <2>5, <2>6 DEF Next
<1> QED BY <1>1, <1>2, <1>3

\* How a step may touch the queue.
LEMMA QueueSteps ==
    ASSUME Inv, [Next]_vars
    PROVE  \/ /\ Len(hist') = Len(hist) /\ recorded' = recorded
              /\ \A i \in 1..Len(hist) : QueuedReading(i)' = QueuedReading(i)
           \/ PrefixPass /\ IsBackfill(job.batch, job.i) /\ QueueBackfill
           \/ \E n \in EspNodes, m \in Metrics : EspNowHistory(n, m)
           \/ \E n \in Listened : SensorTick(n)
           \/ RestartCollector
<1> DEFINE Still == /\ Len(hist') = Len(hist) /\ recorded' = recorded
                    /\ \A i \in 1..Len(hist) : QueuedReading(i)' = QueuedReading(i)
<1>1. ASSUME UNCHANGED <<ingestVars, recorded>> PROVE Still
    BY <1>1 DEF ingestVars, QueuedReading
<1>2. ASSUME NEW pass, Walking(pass), StoreCurrent, recorded' = recorded PROVE Still
    <2>1. Put(job.n, Here.m, Here.t) /\ job.n \in Senders /\ Here.m \in Metrics
        BY <1>2, HereType DEF StoreCurrent
    <2> QED BY <1>2, <2>1, PutQueue
<1> HIDE DEF Still
<1>3. ASSUME NEW n \in WifiNodes, NodeStep(n) \/ Timeout(n) \/ RestartNode(n)
      PROVE  Still
    BY <1>1, <1>3 DEF NodeStep, Wake, Post, PostNothing, ReadReply, Timeout, RestartNode, ledgerVars
<1>4. ASSUME NEW n \in WifiNodes, Begin(n) \/ Refuse(n) \/ Garble(n)
      PROVE  Still
    BY <1>1, <1>4 DEF Begin, Refuse, Garble, ledgerVars
<1>5. CASE LivePass
    <2>1. Walking("live") /\ recorded' = recorded
        BY <1>5 DEF LivePass
    <2>2. ASSUME StoreCurrent PROVE Still
        BY <1>2, <2>1, <2>2
    <2>3. ASSUME UNCHANGED <<ingestVars, current, lost>> PROVE Still
        BY <1>1, <2>1, <2>3
    <2>4. Still
        BY <1>5, <2>2, <2>3 DEF LivePass
    <2> QED BY <2>4 DEF Still
<1>6. CASE PrefixPass /\ ~(IsBackfill(job.batch, job.i) /\ QueueBackfill)
    <2>1. Walking("prefix") /\ recorded' = recorded
        BY <1>6 DEF PrefixPass
    <2>2. ASSUME StoreCurrent PROVE Still
        BY <1>2, <2>1, <2>2
    <2>3. ASSUME UNCHANGED <<ingestVars, current, lost>> PROVE Still
        BY <1>1, <2>1, <2>3
    <2>4. Still
        BY <1>6, <2>2, <2>3 DEF PrefixPass
    <2> QED BY <2>4 DEF Still
<1>7. CASE LivePassEnds \/ HoldRest \/ Answer \/ ClockSet \/ Tick \/ UNCHANGED vars
    <2>1. UNCHANGED <<ingestVars, recorded>>
        BY <1>7 DEF LivePassEnds, HoldRest, Answer, ClockSet, Tick, vars, ledgerVars
    <2>2. Still
        BY <1>1, <2>1
    <2> QED BY <2>2 DEF Still
<1>8. CASE \E n \in WifiNodes : \/ NodeStep(n) \/ Timeout(n) \/ RestartNode(n)
                                \/ Begin(n) \/ Refuse(n) \/ Garble(n)
    <2>1. Still
        BY <1>3, <1>4, <1>8
    <2> QED BY <2>1 DEF Still
<1> QED BY <1>5, <1>6, <1>7, <1>8 DEF Next, HandlerStep

\* What the program gives up, hands on or queues is what a node took.
LEMMA SecuredTakenNext ==
    ASSUME Inv, Inv', CustodyInv, CustodyInv', SecuredTaken, [Next]_vars
    PROVE  SecuredTaken'
<1>1. ASSUME UNCHANGED ingestVars, taken \subseteq taken', Settled' \subseteq Settled \cup taken'
      PROVE  SecuredTaken'
    BY <1>1, QueueUnchanged DEF SecuredTaken, Secured
<1>2. ASSUME NEW n \in WifiNodes, Wake(n) PROVE SecuredTaken'
    <2>1. UNCHANGED <<ingestVars, current, recorded, unread>> /\ taken \subseteq taken'
        BY <1>2 DEF Wake
    <2>2. lost' \subseteq lost \cup taken'
        <3>1. CASE lost' = lost
            BY <3>1
        <3>2. CASE Records(n)
            <4>1. PICK d \in 0..(Len(ring[n]) + Len(Sample(n))) :
                     Overrun(ring[n], Sample(n)) = {(ring[n] \o Sample(n))[i] : i \in 1..d}
                <5>1. ring[n] \in Seq(Reading) /\ Sample(n) \in Seq(Reading)
                    <6>1. /\ Len(Sample(n)) = Len(Report) /\ Len(Sample(n)) \in Nat
                          /\ \A i \in 1..Len(Report) : Sample(n)[i] \in Reading
                        BY <3>2, WakeRing
                    <6>2. DOMAIN Report = 1..Len(Report)
                        BY StoreForwardAssumption
                    <6>3. Sample(n) = [i \in 1..Len(Report) |-> Sample(n)[i]]
                        BY <6>2 DEF Sample
                    <6> QED BY <6>1, <6>3 DEF Inv, TypeOK
                <5> QED BY <5>1, PushedShift
            <4>2. /\ Len(ring[n]) \in Nat /\ Len(Sample(n)) \in Nat /\ Len(Sample(n)) = Len(Report)
                  /\ \A i \in 1..(Len(ring[n]) + Len(Sample(n))) :
                        (ring[n] \o Sample(n))[i] =
                          IF i <= Len(ring[n]) THEN ring[n][i] ELSE Sample(n)[i - Len(ring[n])]
                  /\ taken' = taken \cup {Sample(n)[i] : i \in 1..Len(Report)}
                BY <3>2, WakeRing
            <4>3. ASSUME NEW i \in 1..d PROVE (ring[n] \o Sample(n))[i] \in taken'
                <5>1. i \in 1..(Len(ring[n]) + Len(Sample(n)))
                    BY <4>1, <4>2
                <5>2. CASE i <= Len(ring[n])
                    <6>1. i \in 1..Len(ring[n])
                        BY <4>2, <5>1, <5>2
                    <6> QED BY <4>2, <5>1, <5>2, <6>1 DEF CustodyInv, RingKnown
                <5>3. CASE ~(i <= Len(ring[n]))
                    <6>1. i - Len(ring[n]) \in 1..Len(Report)
                        BY <4>2, <5>1, <5>3
                    <6> QED BY <4>2, <5>1, <5>3, <6>1
                <5> QED BY <5>2, <5>3
            <4> QED BY <3>2, <4>1, <4>3 DEF Records
        <3> QED BY <1>2, <3>1, <3>2 DEF Wake, Records
    <2> QED BY <1>1, <2>1, <2>2 DEF Settled
<1>3. ASSUME NEW n \in WifiNodes, ReadReply(n) PROVE SecuredTaken'
    <2>1. UNCHANGED <<ingestVars, current, recorded, lost, taken>>
        BY <1>3 DEF ReadReply
    <2>2. unread' = unread \/ unread' = unread \cup Dropped(n, Consumed(n))
        BY <1>3 DEF ReadReply
    <2>3. DOMAIN ring[n] = 1..Len(ring[n])
        BY DEF Inv, TypeOK
    <2>4. Dropped(n, Consumed(n)) \subseteq taken
        BY <2>3 DEF Dropped, CustodyInv, RingKnown
    <2> QED BY <1>1, <2>1, <2>2, <2>4 DEF Settled
<1>4. ASSUME NEW n \in WifiNodes, RestartNode(n) PROVE SecuredTaken'
    <2>1. /\ UNCHANGED <<ingestVars, current, recorded, unread, taken>>
          /\ lost' = lost \cup {ring[n][i] : i \in DOMAIN ring[n]}
        BY <1>4 DEF RestartNode
    <2>2. DOMAIN ring[n] = 1..Len(ring[n])
        BY DEF Inv, TypeOK
    <2>3. {ring[n][i] : i \in DOMAIN ring[n]} \subseteq taken
        BY <2>2 DEF CustodyInv, RingKnown
    <2> QED BY <1>1, <2>1, <2>3 DEF Settled
<1>5. ASSUME NEW n \in WifiNodes,
             Post(n) \/ PostNothing(n) \/ Timeout(n) \/ Begin(n) \/ Refuse(n) \/ Garble(n)
      PROVE  SecuredTaken'
    <2>1. UNCHANGED <<ingestVars, ledgerVars>>
        BY <1>5 DEF Post, PostNothing, Timeout, Begin, Refuse, Garble
    <2> QED BY <1>1, <2>1 DEF ledgerVars, Settled
<1>6. CASE LivePassEnds \/ HoldRest \/ Answer \/ ClockSet \/ Tick \/ UNCHANGED vars
    <2>1. UNCHANGED <<ingestVars, ledgerVars>>
        BY <1>6 DEF LivePassEnds, HoldRest, Answer, ClockSet, Tick, vars
    <2> QED BY <1>1, <2>1 DEF ledgerVars, Settled
<1>7. ASSUME NEW pass, Walking(pass) PROVE HereReading \in taken
    <2>1. job # Nothing /\ job.i \in 1..Len(job.batch)
        BY <1>7 DEF Walking, Inv, TypeOK, Job
    <2>2. HereReading = Walked(job.i)
        BY DEF HereReading, Here, Walked, At
    <2> QED BY <2>1, <2>2 DEF CustodyInv, JobKnown
<1>8. ASSUME NEW pass, Walking(pass), StoreCurrent, UNCHANGED <<taken, recorded, unread>>
      PROVE  SecuredTaken'
    <2>1. Put(job.n, Here.m, Here.t) /\ job.n \in Senders /\ Here.m \in Metrics
        BY <1>8, HereType DEF StoreCurrent
    <2>2. OfWifi(DOMAIN hist)' = OfWifi(DOMAIN hist)
        BY <2>1, PutSecured
    <2>3. Settled' \subseteq Settled \cup {HereReading}
        BY <1>8 DEF StoreCurrent, Settled
    <2>4. HereReading \in taken
        BY <1>7, <1>8
    <2> QED BY <1>8, <2>2, <2>3, <2>4 DEF SecuredTaken, Secured
<1>9. ASSUME PrefixPass, IsBackfill(job.batch, job.i), QueueBackfill PROVE SecuredTaken'
    <2>1. Walking("prefix") /\ UNCHANGED <<taken, recorded, unread>>
        BY <1>9 DEF PrefixPass
    <2>2. /\ job.n \in Senders /\ Here.m \in Metrics /\ Here.t \in Nat
          /\ job.base \in Nat /\ Here.age \in Nat
        BY <2>1, HereType
    <2>3. When(job.batch, job.i) \in Nat /\ PutHistorical(job.n, Here.m, Here.t, When(job.batch, job.i))
        BY <1>9, <2>2 DEF When, IsBackfill, Here, QueueBackfill
    <2>4. /\ ShedBy(job.n, Here.m) \subseteq OfWifi(DOMAIN hist)
          /\ OfWifi(DOMAIN hist)' \subseteq OfWifi(DOMAIN hist) \cup {HereReading}
        BY <2>2, <2>3, PutHistoricalSecured DEF HereReading
    <2>5. Settled' \subseteq Settled \cup ShedBy(job.n, Here.m) \cup {HereReading}
        BY <1>9, <2>1 DEF QueueBackfill, Settled
    <2>6. HereReading \in taken
        BY <1>7, <2>1
    <2> QED BY <2>1, <2>4, <2>5, <2>6 DEF SecuredTaken, Secured
<1>10. CASE LivePass
    <2>1. Walking("live") /\ UNCHANGED <<taken, recorded, unread>>
        BY <1>10 DEF LivePass
    <2>2. CASE StoreCurrent
        BY <1>8, <2>1, <2>2
    <2>3. CASE UNCHANGED <<ingestVars, current, lost>>
        BY <1>1, <2>1, <2>3 DEF Settled
    <2> QED BY <1>10, <2>2, <2>3 DEF LivePass
<1>11. CASE PrefixPass
    <2>1. Walking("prefix") /\ UNCHANGED <<taken, recorded, unread>>
        BY <1>11 DEF PrefixPass
    <2>2. CASE StoreCurrent
        BY <1>8, <2>1, <2>2
    <2>3. CASE UNCHANGED <<ingestVars, current, lost>>
        BY <1>1, <2>1, <2>3 DEF Settled
    <2> QED BY <1>9, <1>11, <2>2, <2>3 DEF PrefixPass
<1>12. ASSUME NEW n \in EspNodes, NEW m \in Metrics, EspNowHistory(n, m) PROVE SecuredTaken'
    <2>1. /\ PutHistorical(n, m, clock, NowEpoch) /\ n \in Senders /\ n \notin WifiNodes
          /\ clock \in Nat /\ NowEpoch \in Nat
        BY <1>12 DEF EspNowHistory, EspNodes, Inv, TypeOK, NowEpoch
    <2>2. /\ ShedBy(n, m) \subseteq OfWifi(DOMAIN hist)
          /\ OfWifi(DOMAIN hist)' \subseteq OfWifi(DOMAIN hist)
        BY <2>1, PutHistoricalSecured
    <2>3. lost' = lost \cup ShedBy(n, m) /\ UNCHANGED <<current, recorded, unread, taken>>
        BY <1>12 DEF EspNowHistory
    <2> QED BY <2>2, <2>3 DEF SecuredTaken, Secured, Settled
<1>13. ASSUME NEW n \in Listened, SensorTick(n) PROVE SecuredTaken'
    <2>1. DrainHistory(n, DrainRoom) /\ n \in Senders /\ DrainRoom \in Nat
        BY <1>13, StoreForwardAssumption DEF SensorTick
    <2>2. OfWifi(DOMAIN hist) = OfWifi(DOMAIN hist)' \cup OfWifi(Leaving(n, DrainRoom))
        BY <2>1, DrainSecured
    <2>3. recorded' = recorded \cup OfWifi(Leaving(n, DrainRoom)) /\ UNCHANGED <<current, lost, unread, taken>>
        BY <1>13 DEF SensorTick
    <2> QED BY <2>2, <2>3 DEF SecuredTaken, Secured, Settled
<1>14. CASE RestartCollector
    <2>1. /\ lost' = lost \cup OfWifi(DOMAIN hist) /\ UNCHANGED <<current, recorded, unread, taken>>
          /\ hist' = <<>>
        BY <1>14 DEF RestartCollector
    <2>2. OfWifi(DOMAIN hist)' = {}
        <3>1. DOMAIN hist' = {}
            BY <2>1
        <3> QED BY <3>1 DEF OfWifi
    <2> QED BY <2>1, <2>2 DEF SecuredTaken, Secured, Settled
<1> QED BY <1>2, <1>3, <1>4, <1>5, <1>6, <1>10, <1>11, <1>12, <1>13, <1>14 DEF Next, NodeStep, HandlerStep

\* What left the program's care does not come back.
LEMMA SettledGrows ==
    ASSUME [Next]_vars
    PROVE  Settled \subseteq Settled'
<1>1. ASSUME NEW n \in WifiNodes, NodeStep(n) \/ Timeout(n) \/ RestartNode(n)
      PROVE  Settled \subseteq Settled'
    <2>1. CASE Wake(n)
        BY <2>1 DEF Wake, Settled
    <2>2. CASE ReadReply(n)
        <3>1. UNCHANGED <<current, recorded, lost>> /\ unread \subseteq unread'
            BY <2>2 DEF ReadReply
        <3> QED BY <3>1 DEF Settled
    <2>3. CASE Post(n) \/ PostNothing(n) \/ Timeout(n)
        BY <2>3 DEF Post, PostNothing, Timeout, ledgerVars, Settled
    <2>4. CASE RestartNode(n)
        BY <2>4 DEF RestartNode, Settled
    <2> QED BY <1>1, <2>1, <2>2, <2>3, <2>4 DEF NodeStep
<1>2. ASSUME NEW n \in WifiNodes, Begin(n) \/ Refuse(n) \/ Garble(n)
      PROVE  Settled \subseteq Settled'
    BY <1>2 DEF Begin, Refuse, Garble, ledgerVars, Settled
<1>3. ASSUME StoreCurrent \/ QueueBackfill \/ UNCHANGED <<current, lost>>,
             recorded' = recorded, unread' = unread
      PROVE  Settled \subseteq Settled'
    <2>1. current \subseteq current' /\ lost \subseteq lost'
        BY <1>3 DEF StoreCurrent, QueueBackfill
    <2> QED BY <1>3, <2>1 DEF Settled
<1>4. CASE LivePass \/ PrefixPass
    BY <1>3, <1>4 DEF LivePass, PrefixPass
<1>5. CASE LivePassEnds \/ HoldRest \/ Answer \/ ClockSet \/ Tick \/ UNCHANGED vars
    BY <1>5 DEF LivePassEnds, HoldRest, Answer, ClockSet, Tick, vars, ledgerVars, Settled
<1>6. ASSUME NEW n \in EspNodes, NEW m \in Metrics, EspNowHistory(n, m)
      PROVE  Settled \subseteq Settled'
    BY <1>6 DEF EspNowHistory, Settled
<1>7. ASSUME NEW n \in Listened, SensorTick(n)
      PROVE  Settled \subseteq Settled'
    BY <1>7 DEF SensorTick, Settled
<1>8. CASE RestartCollector
    BY <1>8 DEF RestartCollector, Settled
<1> QED BY <1>1, <1>2, <1>4, <1>5, <1>6, <1>7, <1>8 DEF Next, HandlerStep

\* How a step may change a node's ring.
LEMMA RingSteps ==
    ASSUME Inv, [Next]_vars, NEW n \in WifiNodes
    PROVE  ring'[n] = ring[n] \/ Records(n) \/ ReadReply(n) \/ RestartNode(n)
<1>1. ASSUME NEW x \in WifiNodes, NodeStep(x) \/ RestartNode(x)
      PROVE  ring'[n] = ring[n] \/ Records(n) \/ ReadReply(n) \/ RestartNode(n)
    <2>1. CASE x = n
        BY <1>1, <2>1 DEF NodeStep, Wake, Records, Post, PostNothing
    <2>2. CASE x # n
        BY <1>1, <2>2 DEF NodeStep, Wake, Post, PostNothing, ReadReply, RestartNode, Inv, TypeOK
    <2> QED BY <2>1, <2>2
<1>2. ASSUME NEW x \in WifiNodes, Timeout(x) \/ Begin(x) \/ Refuse(x) \/ Garble(x)
      PROVE  ring' = ring
    BY <1>2 DEF Timeout, Begin, Refuse, Garble, nodeVars
<1>3. CASE HandlerStep
    BY <1>3 DEF HandlerStep, LivePass, LivePassEnds, HoldRest, PrefixPass, Answer, nodeVars
<1>4. ASSUME NEW x \in EspNodes, NEW m \in Metrics, EspNowHistory(x, m) PROVE ring' = ring
    BY <1>4 DEF EspNowHistory, nodeVars
<1>5. ASSUME NEW x \in Listened, SensorTick(x) PROVE ring' = ring
    BY <1>5 DEF SensorTick, nodeVars
<1>6. CASE ClockSet \/ RestartCollector \/ Tick \/ UNCHANGED vars
    BY <1>6 DEF ClockSet, RestartCollector, Tick, vars, nodeVars
<1> QED BY <1>1, <1>2, <1>3, <1>4, <1>5, <1>6 DEF Next

\* A ring loses readings at its front and takes the newest at its back.
LEMMA RingOrderNext ==
    ASSUME Inv, Inv', CustodyInv, CustodyInv', RingOrder, Secured \subseteq Secured', [Next]_vars
    PROVE  RingOrder'
<1> DEFINE Ordered(n) ==
        \A i \in 1..Len(ring'[n]), q \in taken' : Older(q, ring'[n][i]) =>
            q \in Secured' \/ \E j \in 1..Len(ring'[n]) : j < i /\ ring'[n][j] = q
<1> SUFFICES ASSUME NEW n \in WifiNodes PROVE Ordered(n)
    BY DEF RingOrder, Older
<1>1. \A i \in 1..Len(ring[n]), q \in taken' :
         Older(q, ring[n][i]) => q \in Secured \/ \E j \in 1..Len(ring[n]) : j < i /\ ring[n][j] = q
    <2>1. \A i \in 1..Len(ring[n]) : ring[n][i] \in taken
        BY DEF CustodyInv, RingKnown
    <2> QED BY <2>1, OlderKnown DEF RingOrder
<1>2. Len(ring[n]) \in Nat
    BY DEF Inv, TypeOK
<1>3. CASE ring'[n] = ring[n]
    BY <1>1, <1>3
<1>4. ASSUME Records(n) PROVE Ordered(n)
    <2>1. PICK d \in Nat :
              /\ d <= Len(ring[n]) + Len(Sample(n)) /\ Len(Sample(n)) \in Nat
              /\ Len(ring'[n]) = Len(ring[n]) + Len(Sample(n)) - d
              /\ \A j \in 1..Len(ring'[n]) : ring'[n][j] = (ring[n] \o Sample(n))[j + d]
              /\ \A i \in 1..(Len(ring[n]) + Len(Sample(n))) :
                    /\ (ring[n] \o Sample(n))[i] =
                          IF i <= Len(ring[n]) THEN ring[n][i] ELSE Sample(n)[i - Len(ring[n])]
                    /\ i <= d => (ring[n] \o Sample(n))[i] \in lost'
              /\ Len(Sample(n)) = Len(Report)
              /\ \A i \in 1..Len(Report) : Sample(n)[i] = [n |-> n, m |-> Report[i], t |-> clock]
              /\ taken' = taken \cup {Sample(n)[i] : i \in 1..Len(Report)}
        BY <1>4, WakeRing
    <2> DEFINE all == ring[n] \o Sample(n)
    <2>2. ASSUME NEW j \in 1..Len(ring[n]), NEW i \in 1..Len(ring'[n]), j < i + d
          PROVE  ring[n][j] \in Secured' \/ \E k \in 1..Len(ring'[n]) : k < i /\ ring'[n][k] = ring[n][j]
        <3>1. j \in 1..(Len(ring[n]) + Len(Sample(n))) /\ all[j] = ring[n][j]
            BY <1>2, <2>1
        <3>2. CASE j <= d
            BY <2>1, <3>1, <3>2 DEF Secured, Settled
        <3>3. CASE ~(j <= d)
            <4>1. j - d \in 1..Len(ring'[n]) /\ (j - d) + d = j /\ j - d < i
                BY <1>2, <2>1, <2>2, <3>1, <3>3
            <4> QED BY <2>1, <3>1, <4>1
        <3> QED BY <3>2, <3>3
    <2>3. ASSUME NEW i \in 1..Len(ring'[n]), NEW q \in taken', Older(q, ring'[n][i])
          PROVE  q \in Secured' \/ \E j \in 1..Len(ring'[n]) : j < i /\ ring'[n][j] = q
        <3>1. i + d \in 1..(Len(ring[n]) + Len(Sample(n))) /\ ring'[n][i] = all[i + d]
            <4>1. ring'[n][i] = all[i + d]
                BY <2>1
            <4> HIDE DEF all
            <4>2. i + d \in 1..(Len(ring[n]) + Len(Sample(n)))
                BY <1>2, <2>1
            <4> QED BY <4>1, <4>2
        <3>2. CASE i + d <= Len(ring[n])
            <4>1. i + d \in 1..Len(ring[n]) /\ ring'[n][i] = ring[n][i + d]
                BY <1>2, <2>1, <3>1, <3>2
            <4>2. q \in Secured \/ \E j \in 1..Len(ring[n]) : j < i + d /\ ring[n][j] = q
                BY <1>1, <2>3, <4>1
            <4> QED BY <2>2, <4>2
        <3>3. CASE ~(i + d <= Len(ring[n]))
            <4>1. (i + d) - Len(ring[n]) \in 1..Len(Report)
                BY <1>2, <2>1, <3>1, <3>3
            <4>2. PICK x \in 1..Len(Report) : ring'[n][i] = [n |-> n, m |-> Report[x], t |-> clock]
                BY <2>1, <3>1, <3>3, <4>1
            <4>3. q.n = n /\ q.t < clock
                BY <2>3, <4>2 DEF Older
            <4>4. q \in taken
                <5>1. ASSUME NEW y \in 1..Len(Report), q = Sample(n)[y] PROVE FALSE
                    <6>1. q = [n |-> n, m |-> Report[y], t |-> clock]
                        BY <2>1, <5>1
                    <6>2. q.t = clock /\ clock \in Nat
                        BY <6>1 DEF Inv, TypeOK
                    <6> QED BY <4>3, <6>2
                <5> QED BY <2>1, <5>1
            <4>5. q \in Secured \/ \E j \in 1..Len(ring[n]) : ring[n][j] = q
                BY <4>3, <4>4 DEF CustodyInv, Held
            <4>6. \A j \in 1..Len(ring[n]) : j < i + d
                BY <1>2, <2>1, <3>3
            <4> QED BY <2>2, <4>5, <4>6
        <3> QED BY <3>2, <3>3
    <2> QED BY <2>3
<1>5. ASSUME ReadReply(n) PROVE Ordered(n)
    <2>1. PICK k \in 0..Len(ring[n]) :
              /\ Len(ring'[n]) = Len(ring[n]) - k
              /\ \A j \in 1..Len(ring'[n]) : ring'[n][j] = ring[n][j + k]
              /\ \A i \in 1..k : ring[n][i] \in (IF reply[n].accepted = Nothing THEN unread' ELSE Secured)
        BY <1>5, ReplyRing
    <2>2. ASSUME NEW i \in 1..Len(ring'[n]), NEW q \in taken', Older(q, ring'[n][i])
          PROVE  q \in Secured' \/ \E j \in 1..Len(ring'[n]) : j < i /\ ring'[n][j] = q
        <3>1. i + k \in 1..Len(ring[n]) /\ ring'[n][i] = ring[n][i + k]
            BY <1>2, <2>1
        <3>2. q \in Secured \/ \E j \in 1..Len(ring[n]) : j < i + k /\ ring[n][j] = q
            BY <1>1, <2>2, <3>1
        <3>3. ASSUME NEW j \in 1..Len(ring[n]), j < i + k, ring[n][j] = q
              PROVE  q \in Secured' \/ \E y \in 1..Len(ring'[n]) : y < i /\ ring'[n][y] = q
            <4>1. CASE j <= k
                <5>1. j \in 1..k
                    BY <2>1, <4>1
                <5>2. q \in unread' \/ q \in Secured
                    BY <2>1, <3>3, <5>1
                <5> QED BY <5>2 DEF Secured, Settled
            <4>2. CASE ~(j <= k)
                <5>1. j - k \in 1..Len(ring'[n]) /\ (j - k) + k = j /\ j - k < i
                    BY <1>2, <2>1, <3>3, <4>2
                <5> QED BY <2>1, <3>3, <5>1
            <4> QED BY <4>1, <4>2
        <3> QED BY <3>2, <3>3
    <2> QED BY <2>2
<1>6. ASSUME RestartNode(n) PROVE Ordered(n)
    <2>1. ring'[n] = <<>>
        BY <1>6 DEF RestartNode, Inv, TypeOK
    <2> QED BY <2>1
<1> QED BY <1>3, <1>4, <1>5, <1>6, RingSteps

\* A walk keeps its batch, or begins with the front of a ring.
LEMMA JobSteps ==
    ASSUME Inv, [Next]_vars
    PROVE  \/ job' = Nothing
           \/ job # Nothing /\ job'.n = job.n /\ job'.batch = job.batch
           \/ \E n \in WifiNodes : Begin(n)
<1> DEFINE Same == job # Nothing /\ job'.n = job.n /\ job'.batch = job.batch
<1>1. ASSUME NEW n \in WifiNodes, job' = HungUp(n) PROVE job' = Nothing \/ Same
    <2>1. CASE job # Nothing /\ job.n = n
        <3>1. job \in Job /\ job' = [job EXCEPT !.open = FALSE]
            BY <1>1, <2>1 DEF HungUp, Inv, TypeOK
        <3>2. job'.n = job.n /\ job'.batch = job.batch
            BY <3>1, Zenon DEF Job
        <3> QED BY <2>1, <3>2
    <2>2. CASE ~(job # Nothing /\ job.n = n)
        BY <1>1, <2>2 DEF HungUp
    <2> QED BY <2>1, <2>2
<1>2. ASSUME NEW n \in WifiNodes,
             NodeStep(n) \/ Timeout(n) \/ RestartNode(n) \/ Refuse(n) \/ Garble(n)
      PROVE  job' = Nothing \/ Same
    BY <1>1, <1>2 DEF NodeStep, Wake, Post, PostNothing, ReadReply, Timeout, RestartNode, Refuse, Garble
<1>3. CASE LivePass \/ LivePassEnds \/ HoldRest
    <2>1. job \in Job /\ job # Nothing
        BY <1>3 DEF LivePass, LivePassEnds, HoldRest, Walking, Inv, TypeOK
    <2>2. CASE LivePass
        <3>1. job' = [job EXCEPT !.i = @ + 1]
            BY <2>2 DEF LivePass
        <3> QED BY <2>1, <3>1, Zenon DEF Job
    <2>3. CASE LivePassEnds
        <3>1. job' = [job EXCEPT !.pass = "prefix", !.i = 1]
            BY <2>3 DEF LivePassEnds
        <3> QED BY <2>1, <3>1, Zenon DEF Job
    <2>4. CASE HoldRest
        <3>1. job' = [job EXCEPT !.pass = "answer"]
            BY <2>4 DEF HoldRest
        <3> QED BY <2>1, <3>1, Zenon DEF Job
    <2> QED BY <1>3, <2>2, <2>3, <2>4
<1>4. CASE PrefixPass
    <2>1. job \in Job /\ job # Nothing
        BY <1>4 DEF PrefixPass, Walking, Inv, TypeOK
    <2>2. CASE QueueBackfill
        <3> DEFINE room == IF HasSlot(job.n, Here.m) THEN job.room - 1 ELSE job.room
                   shed == IF Sheds(job.n, Here.m) THEN job.shed + 1 ELSE job.shed
        <3>1. job' = [job EXCEPT !.i = job.i + 1, !.accepted = job.accepted + 1, !.room = room, !.shed = shed]
            BY <2>2 DEF QueueBackfill
        <3> HIDE DEF room, shed
        <3>2. job'.n = job.n /\ job'.batch = job.batch
            BY <2>1, <3>1, Zenon DEF Job
        <3> QED BY <2>1, <3>2
    <2>3. CASE job' = [job EXCEPT !.i = @ + 1, !.accepted = @ + 1]
        <3>1. job'.n = job.n /\ job'.batch = job.batch
            BY <2>1, <2>3, Zenon DEF Job
        <3> QED BY <2>1, <3>1
    <2> QED BY <1>4, <2>2, <2>3 DEF PrefixPass
<1>5. ASSUME NEW n \in EspNodes, NEW m \in Metrics, EspNowHistory(n, m) PROVE job' = Nothing \/ Same
    <2> DEFINE raced == IF HasSlot(n, m) THEN job.raced + 1 ELSE job.raced
               shed  == IF Sheds(n, m) THEN job.shed + 1 ELSE job.shed
    <2>1. CASE job # Nothing
        <3>1. job \in Job /\ job' = [job EXCEPT !.raced = raced, !.shed = shed]
            BY <1>5, <2>1 DEF EspNowHistory, Inv, TypeOK
        <3> HIDE DEF raced, shed
        <3>2. job'.n = job.n /\ job'.batch = job.batch
            BY <3>1, Zenon DEF Job
        <3> QED BY <2>1, <3>2
    <2>2. CASE job = Nothing
        BY <1>5, <2>2 DEF EspNowHistory
    <2> QED BY <2>1, <2>2
<1>6. CASE Answer \/ ClockSet \/ RestartCollector \/ Tick \/ UNCHANGED vars
    BY <1>6 DEF Answer, ClockSet, RestartCollector, Tick, vars
<1>7. ASSUME NEW n \in Listened, SensorTick(n) PROVE job' = Nothing \/ Same
    BY <1>7 DEF SensorTick
<1> QED BY <1>2, <1>3, <1>4, <1>5, <1>6, <1>7 DEF Next, HandlerStep

\* A batch is in the order of the ring it was copied from.
LEMMA JobOrderNext ==
    ASSUME Inv, Inv', CustodyInv, CustodyInv', RingOrder, JobOrder, Secured \subseteq Secured',
           [Next]_vars
    PROVE  JobOrder'
<1>1. CASE job' = Nothing
    BY <1>1 DEF JobOrder
<1>2. CASE job # Nothing /\ job'.n = job.n /\ job'.batch = job.batch
    <2>1. \A i \in 1..Len(job.batch) : Walked(i)' = Walked(i) /\ Walked(i) \in taken
        BY <1>2 DEF Walked, At, CustodyInv, JobKnown
    <2>2. ASSUME NEW i \in 1..Len(job.batch), NEW q \in taken', Older(q, Walked(i))
          PROVE  q \in Secured' \/ \E j \in 1..Len(job.batch) : j < i /\ Walked(j) = q
        BY <1>2, <2>1, <2>2, OlderKnown DEF JobOrder
    <2>3. \A i \in 1..Len(job'.batch) : \A q : Older(q, Walked(i))' <=> Older(q, Walked(i))
        BY <1>2, <2>1 DEF Older
    <2> QED BY <1>2, <2>1, <2>2, <2>3 DEF JobOrder, Older
<1>3. ASSUME NEW n \in WifiNodes, Begin(n) PROVE JobOrder'
    <2>1. /\ request[n] # Nothing /\ job'.n = n /\ job'.batch = request[n] /\ taken' = taken
          /\ Len(request[n]) \in Nat
        BY <1>3 DEF Begin, ledgerVars, Inv, TypeOK
    <2>2. Front(n, request[n]) /\ Len(ring[n]) \in Nat
        BY <2>1 DEF CustodyInv, OneCarrier, Carrier, Inv, TypeOK
    <2>3. ASSUME NEW i \in 1..Len(request[n])
          PROVE  i \in 1..Len(ring[n]) /\ Walked(i)' = ring[n][i]
        <3>1. i \in 1..Len(ring[n]) /\ ring[n][i] = At(n, request[n][i])
            BY <2>1, <2>2 DEF Front
        <3>2. Walked(i)' = At(n, request[n][i])
            BY <2>1 DEF Walked, At
        <3> QED BY <3>1, <3>2
    <2>4. ASSUME NEW i \in 1..Len(request[n]), NEW q \in taken, Older(q, ring[n][i])
          PROVE  q \in Secured' \/ \E j \in 1..Len(request[n]) : j < i /\ ring[n][j] = q
        <3>1. q \in Secured \/ \E j \in 1..Len(ring[n]) : j < i /\ ring[n][j] = q
            BY <2>3, <2>4 DEF RingOrder
        <3>2. ASSUME NEW j \in 1..Len(ring[n]), j < i PROVE j \in 1..Len(request[n])
            BY <2>1, <2>2, <3>2
        <3> QED BY <3>1, <3>2
    <2> QED BY <2>1, <2>3, <2>4 DEF JobOrder, Older
<1> QED BY <1>1, <1>2, <1>3, JobSteps

\* Readings leave the queue oldest first.
LEMMA LeavingFirst ==
    ASSUME Inv, NEW n \in Senders, NEW k \in Nat,
           NEW i \in Leaving(n, k), NEW j \in OwnQueued(n), j < i
    PROVE  j \in Leaving(n, k)
<1> DEFINE I == {x \in OwnQueued(n) : x < i}
           J == {x \in OwnQueued(n) : x < j}
<1>1. DOMAIN hist = 1..Len(hist) /\ Len(hist) \in Nat
    BY DEF Inv, TypeOK, IngestTypeOK
<1>2. OwnQueued(n) \subseteq 1..Len(hist) /\ IsFiniteSet(1..Len(hist)) /\ i \in 1..Len(hist)
    <2>1. IsFiniteSet(1..Len(hist))
        BY <1>1, FS_Interval
    <2> QED BY <1>1, <2>1 DEF OwnQueued, Leaving
<1>3. J \subseteq I /\ IsFiniteSet(I)
    <2>1. IsFiniteSet(I)
        BY <1>2, FS_Subset
    <2>2. ASSUME NEW x \in J PROVE x \in I
        BY <1>1, <1>2, <2>2
    <2> QED BY <2>1, <2>2
<1>4. Cardinality(J) <= Cardinality(I) /\ Cardinality(I) \in Nat /\ Cardinality(J) \in Nat
    BY <1>3, FS_Subset, FS_CardinalityType
<1>5. Cardinality(I) < k
    BY DEF Leaving
<1> HIDE DEF I, J
<1>6. Cardinality(J) < k
    BY <1>4, <1>5
<1> QED BY <1>6 DEF Leaving, J

\* What is handed on or queued next is never older than what stays behind.
LEMMA HistOrderNext ==
    ASSUME Inv, Inv', CustodyInv, CustodyInv', OrderInv, Settled \subseteq Settled', [Next]_vars
    PROVE  HistOrder' /\ NoOvertaking'
<1>1. \A i \in 1..Len(hist) : QueuedReading(i).n \in WifiNodes => QueuedReading(i) \in taken
    BY OfWifiMember DEF OrderInv, SecuredTaken, Secured
<1>2. ASSUME NEW i \in 1..Len(hist), QueuedReading(i).n \in WifiNodes,
             NEW q \in taken', Older(q, QueuedReading(i))
      PROVE  q \in Settled \/ \E j \in 1..Len(hist) : j < i /\ QueuedReading(j) = q
    BY <1>1, <1>2, OlderKnown DEF OrderInv, HistOrder
<1>3. ASSUME NEW r \in recorded, NEW q \in taken', Older(q, r)
      PROVE  q \in Settled
    <2>1. r \in taken
        BY DEF OrderInv, SecuredTaken, Secured, Settled
    <2> QED BY <1>3, <2>1, OlderKnown DEF OrderInv, NoOvertaking, Older, Settled
<1>4. ASSUME recorded' = recorded PROVE NoOvertaking'
    BY <1>3, <1>4 DEF NoOvertaking, Older, Settled
<1>5. CASE /\ Len(hist') = Len(hist) /\ recorded' = recorded
           /\ \A i \in 1..Len(hist) : QueuedReading(i)' = QueuedReading(i)
    <2>1. ASSUME NEW i \in 1..Len(hist'), NEW q \in taken',
                 QueuedReading(i)'.n \in WifiNodes, Older(q, QueuedReading(i)')
          PROVE  q \in Settled' \/ \E j \in 1..Len(hist') : j < i /\ QueuedReading(j)' = q
        BY <1>2, <1>5, <2>1
    <2>2. HistOrder'
        BY <2>1 DEF HistOrder, Older
    <2> QED BY <1>4, <1>5, <2>2
<1>6. ASSUME NEW n \in Senders, NEW m \in Metrics, NEW t \in Nat, NEW ts \in Nat,
             PutHistorical(n, m, t, ts), recorded' = recorded,
             ShedBy(n, m) \subseteq Settled',
             n \in WifiNodes => \A q \in taken' : Older(q, [n |-> n, m |-> m, t |-> t]) => q \in Secured
      PROVE  HistOrder' /\ NoOvertaking'
    <2>1. PICK d \in 0..1 : d = 1 <=> Sheds(n, m)
        <3>1. CASE Sheds(n, m)
            <4>1. 1 \in 0..1 /\ (1 = 1 <=> Sheds(n, m))
                BY <3>1
            <4> QED BY <4>1
        <3>2. CASE ~Sheds(n, m)
            <4>1. 0 \in 0..1 /\ (0 = 1 <=> Sheds(n, m))
                BY <3>2
            <4> QED BY <4>1
        <3> QED BY <3>1, <3>2
    <2>2. /\ Len(hist') \in Nat
          /\ \A i \in 1..Len(hist) :
                i > d => i - d \in 1..Len(hist') /\ QueuedReading(i - d)' = QueuedReading(i)
          /\ \A j \in 1..Len(hist') :
                \/ j + d \in 1..Len(hist) /\ QueuedReading(j)' = QueuedReading(j + d)
                \/ HasSlot(n, m) /\ j = Len(hist') /\ QueuedReading(j)' = [n |-> n, m |-> m, t |-> t]
          /\ d = 1 => HasSlot(n, m) /\ 1 \in 1..Len(hist)
        BY <1>6, <2>1, PutHistoricalQueue
    <2>3. Len(hist) \in Nat
        BY DEF Inv, TypeOK, IngestTypeOK
    <2>4. ASSUME NEW j \in 1..Len(hist), QueuedReading(j).n \in WifiNodes
          PROVE  \/ QueuedReading(j) \in Settled' /\ j <= d
                 \/ j - d \in 1..Len(hist') /\ QueuedReading(j - d)' = QueuedReading(j)
        <3>1. CASE j > d
            BY <2>2, <3>1
        <3>2. CASE ~(j > d)
            <4>1. j = 1 /\ d = 1
                BY <2>1, <3>2
            <4>2. ShedBy(n, m) = OfWifi({1})
                BY <2>1, <4>1 DEF ShedBy
            <4>3. QueuedReading(j) \in OfWifi({1})
                BY <2>4, <4>1 DEF OfWifi, Owner, QueuedReading
            <4> QED BY <1>6, <4>1, <4>2, <4>3
        <3> QED BY <3>1, <3>2
    <2>5. ASSUME NEW i \in 1..Len(hist'), NEW q \in taken',
                 QueuedReading(i)'.n \in WifiNodes, Older(q, QueuedReading(i)')
          PROVE  q \in Settled' \/ \E j \in 1..Len(hist') : j < i /\ QueuedReading(j)' = q
        <3>1. CASE i + d \in 1..Len(hist) /\ QueuedReading(i)' = QueuedReading(i + d)
            <4>1. q \in Settled \/ \E j \in 1..Len(hist) : j < i + d /\ QueuedReading(j) = q
                BY <1>2, <2>5, <3>1
            <4>2. ASSUME NEW j \in 1..Len(hist), j < i + d, QueuedReading(j) = q
                  PROVE  q \in Settled' \/ \E x \in 1..Len(hist') : x < i /\ QueuedReading(x)' = q
                <5>1. q.n \in WifiNodes
                    BY <2>5 DEF Older
                <5>2. \/ q \in Settled'
                      \/ j - d \in 1..Len(hist') /\ QueuedReading(j - d)' = q
                    BY <2>4, <4>2, <5>1
                <5>3. j - d < i
                    BY <2>1, <2>3, <4>2
                <5> QED BY <5>2, <5>3
            <4> QED BY <4>1, <4>2
        <3>2. CASE i = Len(hist') /\ QueuedReading(i)' = [n |-> n, m |-> m, t |-> t]
            <4>1. n \in WifiNodes /\ q.n \in WifiNodes
                BY <2>5, <3>2 DEF Older
            <4>2. q \in Secured
                BY <1>6, <2>5, <3>2, <4>1
            <4>3. CASE q \in OfWifi(DOMAIN hist)
                <5>1. PICK j \in 1..Len(hist) : QueuedReading(j).n \in WifiNodes /\ q = QueuedReading(j)
                    BY <4>3, OfWifiMember
                <5>2. \/ q \in Settled'
                      \/ j - d \in 1..Len(hist') /\ QueuedReading(j - d)' = q
                    BY <2>4, <5>1
                <5>3. CASE j - d \in 1..Len(hist') /\ QueuedReading(j - d)' = q
                    <6>1. j - d # i
                        <7>1. QueuedReading(j - d)' # QueuedReading(i)'
                            <8>1. q.t < t /\ q.t \in Nat
                                <9>1. q \in Reading
                                    BY DEF CustodyInv, TakenSoFar
                                <9> QED BY <2>5, <3>2, <9>1 DEF Older, Reading
                            <8>2. QueuedReading(i)'.t = t
                                BY <3>2
                            <8> QED BY <5>3, <8>1, <8>2
                        <7> QED BY <7>1
                    <6>2. j - d < i
                        BY <2>2, <3>2, <5>3, <6>1
                    <6> QED BY <5>3, <6>2
                <5> QED BY <5>2, <5>3
            <4> QED BY <4>2, <4>3 DEF Secured
        <3> QED BY <2>2, <3>1, <3>2
    <2>6. HistOrder'
        BY <2>5 DEF HistOrder, Older
    <2> QED BY <1>4, <1>6, <2>6
<1>7. CASE PrefixPass /\ IsBackfill(job.batch, job.i) /\ QueueBackfill
    <2>1. Walking("prefix") /\ recorded' = recorded
        BY <1>7 DEF PrefixPass
    <2>2. /\ job.n \in Senders /\ Here.m \in Metrics /\ Here.t \in Nat /\ job \in Job /\ job # Nothing
          /\ job.base \in Nat /\ Here.age \in Nat
        BY <2>1, HereType
    <2>3. When(job.batch, job.i) \in Nat /\ PutHistorical(job.n, Here.m, Here.t, When(job.batch, job.i))
        BY <1>7, <2>2 DEF When, IsBackfill, Here, QueueBackfill
    <2>4. ShedBy(job.n, Here.m) \subseteq Settled'
        <3>1. CASE HasSlot(job.n, Here.m)
            BY <1>7, <3>1 DEF QueueBackfill, Settled
        <3>2. CASE ~HasSlot(job.n, Here.m)
            BY <3>2 DEF ShedBy, Sheds
        <3> QED BY <3>1, <3>2
    <2>5. job.i \in 1..Len(job.batch) /\ Walked(job.i) = HereReading /\ job.i \in Nat
        BY <2>1, <2>2 DEF Walking, Job, HereReading, Here, Walked, At
    <2>6. ASSUME NEW q \in taken', Older(q, HereReading) PROVE q \in Secured
        <3>1. HereReading \in taken
            BY <2>2, <2>5 DEF CustodyInv, JobKnown
        <3>2. q \in taken
            BY <2>6, <3>1, OlderKnown
        <3>3. q \in Secured \/ \E j \in 1..Len(job.batch) : j < job.i /\ Walked(j) = q
            BY <2>2, <2>5, <2>6, <3>2 DEF OrderInv, JobOrder
        <3>4. job.accepted = job.i - 1
            BY <2>1, <2>2 DEF CustodyInv, JobPlace, Walking
        <3>5. ASSUME NEW j \in 1..Len(job.batch), j < job.i PROVE Walked(j) \in Secured
            <4>1. j <= job.accepted
                BY <2>5, <3>4, <3>5
            <4> QED BY <2>2, <4>1 DEF CustodyInv, JobSecured
        <3> QED BY <3>3, <3>5
    <2> QED BY <1>6, <2>1, <2>2, <2>3, <2>4, <2>6 DEF HereReading
<1>8. ASSUME NEW n \in EspNodes, NEW m \in Metrics, EspNowHistory(n, m)
      PROVE  HistOrder' /\ NoOvertaking'
    <2>1. /\ PutHistorical(n, m, clock, NowEpoch) /\ n \in Senders /\ n \notin WifiNodes
          /\ clock \in Nat /\ NowEpoch \in Nat /\ recorded' = recorded
        BY <1>8 DEF EspNowHistory, EspNodes, Inv, TypeOK, NowEpoch
    <2>2. ShedBy(n, m) \subseteq Settled'
        BY <1>8 DEF EspNowHistory, Settled
    <2> QED BY <1>6, <2>1, <2>2
<1>9. ASSUME NEW n \in Listened, SensorTick(n)
      PROVE  HistOrder' /\ NoOvertaking'
    <2>1. DrainHistory(n, DrainRoom) /\ n \in Senders /\ DrainRoom \in Nat
        BY <1>9, StoreForwardAssumption DEF SensorTick
    <2>2. \A j \in 1..Len(hist') : \E i \in 1..Len(hist) \ Leaving(n, DrainRoom) :
                 /\ QueuedReading(j)' = QueuedReading(i)
                 /\ \A x \in 1..Len(hist) \ Leaving(n, DrainRoom) : x < i =>
                       \E y \in 1..Len(hist') : y < j /\ QueuedReading(y)' = QueuedReading(x)
        BY <2>1, DrainQueue
    <2>3. /\ \A i \in 1..Len(hist) : i \in Leaving(n, DrainRoom) /\ QueuedReading(i).n \in WifiNodes
                => QueuedReading(i) \in OfWifi(Leaving(n, DrainRoom))
          /\ \A r \in OfWifi(Leaving(n, DrainRoom)) : \E i \in 1..Len(hist) :
                i \in Leaving(n, DrainRoom) /\ QueuedReading(i).n \in WifiNodes /\ r = QueuedReading(i)
        BY <2>1, DrainSecured
    <2>4. recorded' = recorded \cup OfWifi(Leaving(n, DrainRoom))
        BY <1>9 DEF SensorTick
    <2>5. \A i \in 1..Len(hist) : i \in Leaving(n, DrainRoom) /\ QueuedReading(i).n \in WifiNodes
              => QueuedReading(i) \in Settled'
        BY <2>3, <2>4 DEF Settled
    <2>6. ASSUME NEW j \in 1..Len(hist'), NEW q \in taken',
                 QueuedReading(j)'.n \in WifiNodes, Older(q, QueuedReading(j)')
          PROVE  q \in Settled' \/ \E y \in 1..Len(hist') : y < j /\ QueuedReading(y)' = q
        <3>1. PICK i \in 1..Len(hist) \ Leaving(n, DrainRoom) :
                 /\ QueuedReading(j)' = QueuedReading(i)
                 /\ \A x \in 1..Len(hist) \ Leaving(n, DrainRoom) : x < i =>
                       \E y \in 1..Len(hist') : y < j /\ QueuedReading(y)' = QueuedReading(x)
            BY <2>2
        <3>2. q \in Settled \/ \E x \in 1..Len(hist) : x < i /\ QueuedReading(x) = q
            BY <1>2, <2>6, <3>1
        <3>3. q.n \in WifiNodes
            BY <2>6 DEF Older
        <3>4. ASSUME NEW x \in 1..Len(hist), x < i, QueuedReading(x) = q
              PROVE  q \in Settled' \/ \E y \in 1..Len(hist') : y < j /\ QueuedReading(y)' = q
            <4>1. CASE x \in Leaving(n, DrainRoom)
                BY <2>5, <3>3, <3>4, <4>1
            <4>2. CASE x \notin Leaving(n, DrainRoom)
                BY <3>1, <3>4, <4>2
            <4> QED BY <4>1, <4>2
        <3> QED BY <3>2, <3>4
    <2>7. ASSUME NEW r \in OfWifi(Leaving(n, DrainRoom)), NEW q \in taken', Older(q, r)
          PROVE  q \in Settled'
        <3>1. PICK i \in 1..Len(hist) :
                 i \in Leaving(n, DrainRoom) /\ QueuedReading(i).n \in WifiNodes /\ r = QueuedReading(i)
            BY <2>3
        <3>2. q \in Settled \/ \E x \in 1..Len(hist) : x < i /\ QueuedReading(x) = q
            BY <1>2, <2>7, <3>1
        <3>3. ASSUME NEW x \in 1..Len(hist), x < i, QueuedReading(x) = q PROVE q \in Settled'
            <4>1. QueuedReading(i).n = n
                BY <3>1 DEF Leaving, OwnQueued, Owner, QueuedReading
            <4>2. q.n = n
                BY <2>7, <3>1, <4>1 DEF Older
            <4>3. x \in OwnQueued(n)
                BY <3>3, <4>2 DEF OwnQueued, Owner, QueuedReading, Inv, TypeOK, IngestTypeOK
            <4>4. x \in Leaving(n, DrainRoom)
                BY <2>1, <3>1, <3>3, <4>3, LeavingFirst
            <4> QED BY <2>5, <3>1, <3>3, <4>1, <4>2, <4>4
        <3> QED BY <3>2, <3>3
    <2>8. HistOrder'
        BY <2>6 DEF HistOrder, Older
    <2>9. NoOvertaking'
        <3>1. ASSUME NEW r \in recorded', NEW q \in taken', Older(q, r) PROVE q \in Settled'
            BY <1>3, <2>4, <2>7, <3>1
        <3> QED BY <3>1 DEF NoOvertaking, Older, Settled
    <2> QED BY <2>8, <2>9
<1>10. CASE RestartCollector
    <2>1. Len(hist') = 0 /\ recorded' = recorded
        BY <1>10 DEF RestartCollector
    <2>2. HistOrder'
        BY <2>1 DEF HistOrder
    <2> QED BY <1>4, <2>1, <2>2
<1> QED BY <1>5, <1>7, <1>8, <1>9, <1>10, QueueSteps

\* The order is kept by every step.
LEMMA NextOrder ==
    Inv /\ Inv' /\ CustodyInv /\ CustodyInv' /\ OrderInv /\ [Next]_vars => OrderInv'
<1> SUFFICES ASSUME Inv, Inv', CustodyInv, CustodyInv', OrderInv, [Next]_vars PROVE OrderInv'
    OBVIOUS
<1>1. Secured \subseteq Secured' /\ Settled \subseteq Settled'
    BY SecuredGrows, SettledGrows
<1>2. SecuredTaken'
    BY SecuredTakenNext DEF OrderInv
<1>3. RingOrder'
    BY <1>1, RingOrderNext DEF OrderInv
<1>4. JobOrder'
    BY <1>1, JobOrderNext DEF OrderInv
<1>5. HistOrder' /\ NoOvertaking'
    BY <1>1, HistOrderNext
<1> QED BY <1>2, <1>3, <1>4, <1>5 DEF OrderInv

\* Custody and order hold in every state the program reaches.
THEOREM OrderHolds == Spec => [](Inv /\ CustodyInv /\ OrderInv)
<1>1. Init => Inv /\ CustodyInv /\ OrderInv
    BY InitInv, InitCustody, InitOrder
<1>2. Inv /\ CustodyInv /\ OrderInv /\ [Next]_vars => (Inv /\ CustodyInv /\ OrderInv)'
    BY NextInv, NextCustody, NextOrder
<1> QED BY <1>1, <1>2, PTL DEF Spec

\* When a reading is handed to the sensor task out of the queue, no older one
\* of its sensor is still on its way, however batches, retries, frames from
\* other nodes and restarts fell together.
THEOREM NoneOvertaken == Spec => []NoOvertaking
<1>1. OrderInv => NoOvertaking
    BY DEF OrderInv
<1> QED BY <1>1, OrderHolds, PTL

-----------------------------------------------------------------------------
(* StoreForward implements Custody.                                        *)

\* A ring holds no reading twice, since no two are taken of one metric at one
\* time; and time is bounded by the exploration's own bound.
RingDistinct ==
    \A n \in WifiNodes : \A i, j \in 1..Len(ring[n]) : ring[n][i] = ring[n][j] => i = j

ClockBounded == clock <= MaxClock

DistinctInv == RingDistinct /\ ClockBounded

\* An empty ring has no duplicates.
LEMMA InitDistinct == Init => DistinctInv
<1> SUFFICES ASSUME Init PROVE DistinctInv
    OBVIOUS
<1>1. clock = 0 /\ \A n \in WifiNodes : Len(ring[n]) = 0
    BY DEF Init
<1> QED BY <1>1, StoreForwardAssumption DEF DistinctInv, RingDistinct, ClockBounded

\* The readings of a cycle differ from one another and from what the ring has.
LEMMA RecordedDistinct ==
    ASSUME Inv, CustodyInv, RingDistinct, NEW n \in WifiNodes, Records(n),
           NEW i \in 1..(Len(ring[n]) + Len(Sample(n))), NEW j \in 1..(Len(ring[n]) + Len(Sample(n))),
           (ring[n] \o Sample(n))[i] = (ring[n] \o Sample(n))[j]
    PROVE  i = j
<1> DEFINE all == ring[n] \o Sample(n)
<1>1. /\ Len(ring[n]) \in Nat /\ Len(Sample(n)) \in Nat /\ Len(Sample(n)) = Len(Report)
      /\ \A x \in 1..(Len(ring[n]) + Len(Sample(n))) :
            all[x] = IF x <= Len(ring[n]) THEN ring[n][x] ELSE Sample(n)[x - Len(ring[n])]
      /\ \A x \in 1..Len(Report) : Sample(n)[x] = [n |-> n, m |-> Report[x], t |-> clock]
      /\ \A x \in 1..Len(Report) : Sample(n)[x] \notin taken
    BY WakeRing
<1>2. all[i] = all[j]
    OBVIOUS
<1> HIDE DEF all
<1>3. \A x \in 1..Len(ring[n]) : ring[n][x] \in taken
    BY DEF CustodyInv, RingKnown
<1>4. CASE i <= Len(ring[n]) /\ j <= Len(ring[n])
    <2>1. i \in 1..Len(ring[n]) /\ j \in 1..Len(ring[n])
        BY <1>1, <1>4
    <2> QED BY <1>1, <1>2, <1>4, <2>1 DEF RingDistinct
<1>5. CASE ~(i <= Len(ring[n])) /\ ~(j <= Len(ring[n]))
    <2>0. Len(ring[n]) \in Nat /\ Len(Report) \in Nat /\ Len(Sample(n)) = Len(Report)
        BY <1>1
    <2>1. i - Len(ring[n]) \in 1..Len(Report) /\ j - Len(ring[n]) \in 1..Len(Report)
        BY <1>5, <2>0
    <2>2. Sample(n)[i - Len(ring[n])] = Sample(n)[j - Len(ring[n])]
        BY <1>1, <1>2, <1>5
    <2>3. PICK a \in 1..Len(Report) : a = i - Len(ring[n])
        BY <2>1
    <2>4. PICK b \in 1..Len(Report) : b = j - Len(ring[n])
        BY <2>1
    <2>5. [n |-> n, m |-> Report[a], t |-> clock] = [n |-> n, m |-> Report[b], t |-> clock]
        BY <1>1, <2>2, <2>3, <2>4
    <2>6. Report[a] = Report[b] /\ a \in DOMAIN Report /\ b \in DOMAIN Report
        BY <2>5, StoreForwardAssumption
    <2>7. a = b
        BY <2>6, ReportAssumption
    <2> QED BY <1>1, <2>3, <2>4, <2>7
<1>6. ASSUME NEW x \in 1..(Len(ring[n]) + Len(Sample(n))), x <= Len(ring[n]),
             NEW y \in 1..(Len(ring[n]) + Len(Sample(n))), ~(y <= Len(ring[n])), all[x] = all[y]
      PROVE  FALSE
    <2>1. x \in 1..Len(ring[n]) /\ y - Len(ring[n]) \in 1..Len(Report)
        BY <1>1, <1>6
    <2>2. all[x] \in taken /\ all[y] \notin taken
        BY <1>1, <1>3, <1>6, <2>1
    <2> QED BY <1>6, <2>2
<1> QED BY <1>2, <1>4, <1>5, <1>6

\* Rings stay free of duplicates.
LEMMA NextDistinct == Inv /\ Inv' /\ CustodyInv /\ DistinctInv /\ [Next]_vars => DistinctInv'
<1> SUFFICES ASSUME Inv, Inv', CustodyInv, DistinctInv, [Next]_vars PROVE DistinctInv'
    OBVIOUS
<1>1. ClockBounded'
    <2>1. clock' = clock \/ Tick
        <3>1. ASSUME NEW n \in WifiNodes, NodeStep(n) \/ Timeout(n) \/ RestartNode(n)
              PROVE  clock' = clock
            BY <3>1 DEF NodeStep, Wake, Post, PostNothing, ReadReply, Timeout, RestartNode
        <3>2. ASSUME NEW n \in WifiNodes, Begin(n) \/ Refuse(n) \/ Garble(n)
              PROVE  clock' = clock
            BY <3>2 DEF Begin, Refuse, Garble
        <3>3. CASE HandlerStep
            BY <3>3 DEF HandlerStep, LivePass, LivePassEnds, HoldRest, PrefixPass, Answer
        <3>4. ASSUME NEW n \in EspNodes, NEW m \in Metrics, EspNowHistory(n, m) PROVE clock' = clock
            BY <3>4 DEF EspNowHistory
        <3>5. ASSUME NEW n \in Listened, SensorTick(n) PROVE clock' = clock
            BY <3>5 DEF SensorTick
        <3>6. CASE ClockSet \/ RestartCollector \/ UNCHANGED vars
            BY <3>6 DEF ClockSet, RestartCollector, vars
        <3> QED BY <3>1, <3>2, <3>3, <3>4, <3>5, <3>6 DEF Next
    <2>2. CASE Tick
        BY <2>2, StoreForwardAssumption DEF Tick, ClockBounded, Inv, TypeOK
    <2> QED BY <2>1, <2>2 DEF DistinctInv, ClockBounded
<1>2. ASSUME NEW n \in WifiNodes, NEW i \in 1..Len(ring'[n]), NEW j \in 1..Len(ring'[n]),
             ring'[n][i] = ring'[n][j]
      PROVE  i = j
    <2>1. Len(ring[n]) \in Nat
        BY DEF Inv, TypeOK
    <2>2. CASE ring'[n] = ring[n]
        BY <1>2, <2>2 DEF DistinctInv, RingDistinct
    <2>3. CASE Records(n)
        <3>1. PICK d \in Nat :
                  /\ d <= Len(ring[n]) + Len(Sample(n)) /\ Len(Sample(n)) \in Nat
                  /\ Len(ring'[n]) = Len(ring[n]) + Len(Sample(n)) - d
                  /\ \A x \in 1..Len(ring'[n]) : ring'[n][x] = (ring[n] \o Sample(n))[x + d]
            BY <2>3, WakeRing
        <3>2. (ring[n] \o Sample(n))[i + d] = (ring[n] \o Sample(n))[j + d]
            BY <1>2, <3>1
        <3>3. /\ i + d \in 1..(Len(ring[n]) + Len(Sample(n)))
              /\ j + d \in 1..(Len(ring[n]) + Len(Sample(n)))
            BY <2>1, <3>1
        <3>4. i + d = j + d
            BY <2>3, <3>2, <3>3, RecordedDistinct DEF DistinctInv
        <3> QED BY <3>1, <3>4
    <2>4. CASE ReadReply(n)
        <3>1. PICK k \in 0..Len(ring[n]) :
                  /\ Len(ring'[n]) = Len(ring[n]) - k
                  /\ \A x \in 1..Len(ring'[n]) : ring'[n][x] = ring[n][x + k]
            BY <2>4, ReplyRing
        <3>2. i + k \in 1..Len(ring[n]) /\ j + k \in 1..Len(ring[n])
            BY <2>1, <3>1
        <3>2a. ring[n][i + k] = ring[n][j + k]
            BY <1>2, <3>1
        <3>3. i + k = j + k
            BY <3>2, <3>2a DEF DistinctInv, RingDistinct
        <3> QED BY <3>1, <3>3
    <2>5. CASE RestartNode(n)
        <3>1. ring'[n] = <<>>
            BY <2>5 DEF RestartNode, Inv, TypeOK
        <3> QED BY <1>2, <3>1
    <2> QED BY <2>2, <2>3, <2>4, <2>5, RingSteps
<1> QED BY <1>1, <1>2 DEF DistinctInv, RingDistinct

\* What the nodes hold is what their rings list.
LEMMA HeldMember ==
    ASSUME Inv, NEW r
    PROVE  r \in HeldReadings <=> \E n \in WifiNodes : \E i \in 1..Len(ring[n]) : r = ring[n][i]
<1>1. \A n \in WifiNodes : DOMAIN ring[n] = 1..Len(ring[n])
    BY DEF Inv, TypeOK
<1> QED BY <1>1 DEF HeldReadings

\* The same after the step.
LEMMA HeldMemberNext ==
    ASSUME Inv', NEW r
    PROVE  r \in HeldReadings' <=> \E n \in WifiNodes : \E i \in 1..Len(ring'[n]) : r = ring'[n][i]
<1>1. \A n \in WifiNodes : DOMAIN ring'[n] = 1..Len(ring'[n])
    BY DEF Inv, TypeOK
<1> QED BY <1>1 DEF HeldReadings

\* Everything the promise speaks of is one of its readings.
LEMMA TakenReadings ==
    ASSUME Inv, CustodyInv, ClockBounded
    PROVE  taken \subseteq [n : WifiNodes, m : Metrics, t : 0..MaxClock]
<1>1. ASSUME NEW r \in taken PROVE r \in [n : WifiNodes, m : Metrics, t : 0..MaxClock]
    <2>1. r \in Reading /\ r.n \in WifiNodes /\ r.t <= clock /\ r.t \in Nat
        BY DEF CustodyInv, TakenSoFar, Reading
    <2>2. r.t \in 0..MaxClock
        BY <2>1, StoreForwardAssumption DEF ClockBounded, Inv, TypeOK
    <2> QED BY <2>1, <2>2 DEF Reading
<1> QED BY <1>1

\* The same after the step.
LEMMA TakenReadingsNext ==
    ASSUME Inv', CustodyInv', ClockBounded'
    PROVE  taken' \subseteq [n : WifiNodes, m : Metrics, t : 0..MaxClock]
<1>1. ASSUME NEW r \in taken' PROVE r \in [n : WifiNodes, m : Metrics, t : 0..MaxClock]
    <2>1. r \in Reading /\ r.n \in WifiNodes /\ r.t <= clock' /\ r.t \in Nat
        BY DEF CustodyInv, TakenSoFar, Reading
    <2>2. r.t \in 0..MaxClock
        BY <2>1, StoreForwardAssumption DEF ClockBounded, Inv, TypeOK
    <2> QED BY <2>1, <2>2 DEF Reading
<1> QED BY <1>1

\* A node that forgets the first k of its ring holds the others.
LEMMA ForgetsFront ==
    ASSUME Inv, Inv', CustodyInv, RingDistinct, NEW n \in WifiNodes, NEW k \in 0..Len(ring[n]),
           Len(ring'[n]) = Len(ring[n]) - k,
           \A j \in 1..Len(ring'[n]) : ring'[n][j] = ring[n][j + k],
           \A x \in WifiNodes \ {n} : ring'[x] = ring[x]
    PROVE  HeldReadings' = HeldReadings \ {ring[n][i] : i \in 1..k}
<1>1. Len(ring[n]) \in Nat /\ k \in Nat /\ k <= Len(ring[n])
    BY DEF Inv, TypeOK
<1>2. \A x \in WifiNodes : \A i \in 1..Len(ring[x]) : ring[x][i].n = x
    BY DEF CustodyInv, RingKnown
<1>3. ASSUME NEW r \in HeldReadings' PROVE r \in HeldReadings /\ r \notin {ring[n][i] : i \in 1..k}
    <2>0. PICK x \in WifiNodes : \E i \in 1..Len(ring'[x]) : r = ring'[x][i]
        BY <1>3, HeldMemberNext
    <2>1. PICK i \in 1..Len(ring'[x]) : r = ring'[x][i]
        BY <2>0
    <2>2. CASE x # n
        <3>1. i \in 1..Len(ring[x]) /\ r = ring[x][i]
            BY <2>1, <2>2
        <3>2. r.n # n
            BY <1>2, <2>2, <3>1
        <3>3. \A j \in 1..k : ring[n][j].n = n
            BY <1>1, <1>2
        <3> QED BY <3>1, <3>2, <3>3, HeldMember
    <2>3. CASE x = n
        <3>1. i + k \in 1..Len(ring[n])
            BY <1>1, <2>1, <2>3
        <3>2. r = ring[n][i + k]
            BY <2>1, <2>3
        <3>3. ASSUME NEW j \in 1..k, r = ring[n][j] PROVE FALSE
            <4>1. j \in 1..Len(ring[n])
                BY <1>1
            <4>2. j = i + k
                BY <3>1, <3>2, <3>3, <4>1 DEF RingDistinct
            <4> QED BY <1>1, <2>1, <2>3, <3>1, <4>2
        <3> QED BY <3>1, <3>2, <3>3, HeldMember
    <2> QED BY <2>2, <2>3
<1>4. ASSUME NEW r \in HeldReadings, r \notin {ring[n][i] : i \in 1..k} PROVE r \in HeldReadings'
    <2>0. PICK x \in WifiNodes : \E i \in 1..Len(ring[x]) : r = ring[x][i]
        BY HeldMember
    <2>1. PICK i \in 1..Len(ring[x]) : r = ring[x][i]
        BY <2>0
    <2>2. CASE x # n
        BY <2>1, <2>2, HeldMemberNext
    <2>3. CASE x = n
        <3>1. ~(i <= k)
            <4>1. i <= k => i \in 1..k
                BY <1>1, <2>1, <2>3
            <4> QED BY <1>4, <2>1, <2>3, <4>1
        <3>2. i - k \in 1..Len(ring'[n]) /\ (i - k) + k = i
            BY <1>1, <2>1, <2>3, <3>1
        <3> QED BY <2>1, <2>3, <3>2, HeldMemberNext
    <2> QED BY <2>2, <2>3
<1> QED BY <1>3, <1>4

\* A cycle that records its readings is a Take.
LEMMA WakeTakes ==
    ASSUME Inv, Inv', CustodyInv, CustodyInv', DistinctInv, DistinctInv',
           NEW n \in WifiNodes, Wake(n), Records(n)
    PROVE  Promise!Next
<1>1. PICK d \in Nat :
          /\ d <= Len(ring[n]) + Len(Sample(n)) /\ Len(ring[n]) \in Nat /\ Len(Sample(n)) \in Nat
          /\ Len(ring'[n]) = Len(ring[n]) + Len(Sample(n)) - d
          /\ \A j \in 1..Len(ring'[n]) : ring'[n][j] = (ring[n] \o Sample(n))[j + d]
          /\ \A i \in 1..(Len(ring[n]) + Len(Sample(n))) :
                (ring[n] \o Sample(n))[i] =
                   IF i <= Len(ring[n]) THEN ring[n][i] ELSE Sample(n)[i - Len(ring[n])]
          /\ Overrun(ring[n], Sample(n)) = {(ring[n] \o Sample(n))[i] : i \in 1..d}
          /\ \A x \in WifiNodes \ {n} : ring'[x] = ring[x]
          /\ Len(Sample(n)) = Len(Report)
          /\ \A i \in 1..Len(Report) : Sample(n)[i] = [n |-> n, m |-> Report[i], t |-> clock]
          /\ \A i \in 1..Len(Report) : Sample(n)[i] \notin taken
          /\ taken' = taken \cup {Sample(n)[i] : i \in 1..Len(Report)}
    BY WakeRing
<1> DEFINE all == ring[n] \o Sample(n)
           S   == {Sample(n)[i] : i \in 1..Len(Report)}
           D   == Overrun(ring[n], Sample(n))
<1>2. \A i, j \in 1..(Len(ring[n]) + Len(Sample(n))) : all[i] = all[j] => i = j
    BY RecordedDistinct DEF DistinctInv
<1>3. D = {all[i] : i \in 1..d} /\ taken' = taken \cup S /\ S \cap taken = {}
    BY <1>1
<1>4. ASSUME NEW i \in 1..(Len(ring[n]) + Len(Sample(n)))
      PROVE  /\ all[i] \in HeldReadings \cup S
             /\ all[i] \in taken' /\ all[i].n = n
    <2>1. CASE i <= Len(ring[n])
        <3>1. i \in 1..Len(ring[n]) /\ all[i] = ring[n][i]
            BY <1>1, <2>1
        <3>2. all[i] \in HeldReadings
            BY <3>1, HeldMember
        <3>3. all[i] \in taken /\ all[i].n = n
            BY <3>1 DEF CustodyInv, RingKnown
        <3> QED BY <1>3, <3>2, <3>3
    <2>2. CASE ~(i <= Len(ring[n]))
        <3>1. i - Len(ring[n]) \in 1..Len(Report)
            BY <1>1, <2>2
        <3>2. PICK x \in 1..Len(Report) : x = i - Len(ring[n])
            BY <3>1
        <3>3. all[i] = Sample(n)[x]
            BY <1>1, <2>2, <3>2
        <3>4. Sample(n)[x].n = n
            <4> DEFINE r == [n |-> n, m |-> Report[x], t |-> clock]
            <4>1. r.n = n /\ Sample(n)[x] = r
                BY <1>1
            <4> QED BY <4>1
        <3>5. Sample(n)[x] \in S /\ Sample(n)[x] \in taken'
            BY <1>3
        <3> QED BY <3>3, <3>4, <3>5
    <2> QED BY <2>1, <2>2
<1>5. \A x \in 1..Len(Report) : \E i \in 1..(Len(ring[n]) + Len(Sample(n))) : all[i] = Sample(n)[x]
    <2> TAKE x \in 1..Len(Report)
    <2>0. Len(ring[n]) \in Nat /\ Len(Report) \in Nat /\ Len(Sample(n)) = Len(Report)
        BY <1>1
    <2>1. /\ Len(ring[n]) + x \in 1..(Len(ring[n]) + Len(Sample(n)))
          /\ ~(Len(ring[n]) + x <= Len(ring[n])) /\ (Len(ring[n]) + x) - Len(ring[n]) = x
        BY <2>0
    <2>2. all[Len(ring[n]) + x] = Sample(n)[x]
        BY <1>1, <2>1
    <2> QED BY <2>1, <2>2
<1>6. \A i \in 1..Len(ring[n]) : i \in 1..(Len(ring[n]) + Len(Sample(n))) /\ all[i] = ring[n][i]
    BY <1>1
<1>7. \A j \in 1..Len(ring'[n]) : ring'[n][j] = all[j + d]
    BY <1>1
<1>8. D \subseteq HeldReadings \cup S /\ D \subseteq taken'
    <2>1. \A i \in 1..d : i \in 1..(Len(ring[n]) + Len(Sample(n)))
        BY <1>1
    <2> QED BY <1>3, <1>4, <2>1
<1> HIDE DEF all, D
<1>9. ASSUME NEW r \in HeldReadings' PROVE r \in (HeldReadings \cup S) \ D
    <2>0. PICK x \in WifiNodes : \E i \in 1..Len(ring'[x]) : r = ring'[x][i]
        BY <1>9, HeldMemberNext
    <2>1. PICK i \in 1..Len(ring'[x]) : r = ring'[x][i]
        BY <2>0
    <2>2. CASE x # n
        <3>1. i \in 1..Len(ring[x]) /\ r = ring[x][i]
            BY <1>1, <2>1, <2>2
        <3>2. r.n = x
            BY <3>1 DEF CustodyInv, RingKnown
        <3>3. \A j \in 1..d : all[j].n = n
            BY <1>1, <1>4
        <3> QED BY <1>3, <2>2, <3>1, <3>2, <3>3, HeldMember
    <2>3. CASE x = n
        <3>1. i + d \in 1..(Len(ring[n]) + Len(Sample(n))) /\ ~(i + d \in 1..d)
            BY <1>1, <2>1, <2>3
        <3>2. r = all[i + d]
            BY <1>7, <2>1, <2>3
        <3>3. \A j \in 1..d : j \in 1..(Len(ring[n]) + Len(Sample(n)))
            BY <1>1
        <3>4. \A j \in 1..d : all[j] # r
            BY <1>2, <3>1, <3>2, <3>3
        <3> QED BY <1>3, <1>4, <3>1, <3>2, <3>4
    <2> QED BY <2>2, <2>3
<1>10. ASSUME NEW r \in (HeldReadings \cup S) \ D PROVE r \in HeldReadings'
    <2>1. ASSUME NEW i \in 1..(Len(ring[n]) + Len(Sample(n))), r = all[i]
          PROVE  r \in HeldReadings'
        <3>1. ~(i <= d)
            <4>1. i <= d => i \in 1..d
                BY <1>1
            <4> QED BY <1>3, <1>10, <2>1, <4>1
        <3>2. i - d \in 1..Len(ring'[n]) /\ (i - d) + d = i
            BY <1>1, <3>1
        <3>3. r = ring'[n][i - d]
            BY <1>7, <2>1, <3>2
        <3> QED BY <3>2, <3>3, HeldMemberNext
    <2>2. CASE r \in S
        BY <1>5, <2>1, <2>2
    <2>3. CASE r \in HeldReadings
        <3>0. PICK x \in WifiNodes : \E i \in 1..Len(ring[x]) : r = ring[x][i]
            BY <2>3, HeldMember
        <3>1. PICK i \in 1..Len(ring[x]) : r = ring[x][i]
            BY <3>0
        <3>2. CASE x = n
            BY <1>6, <2>1, <3>1, <3>2
        <3>3. CASE x # n
            BY <1>1, <3>1, <3>3, HeldMemberNext
        <3> QED BY <3>2, <3>3
    <2> QED BY <1>10, <2>2, <2>3
<1>11. /\ UNCHANGED StoredReadings /\ (lost \cup unread)' = (lost \cup unread) \cup D
    <2>1. UNCHANGED <<ingestVars, current, recorded, unread>> /\ lost' = lost \cup D
        BY DEF Wake, Records, D
    <2>2. OfWifi(DOMAIN hist)' = OfWifi(DOMAIN hist)
        BY <2>1, QueueUnchanged
    <2> QED BY <2>1, <2>2 DEF StoredReadings
<1>12. /\ S \in SUBSET [n : WifiNodes, m : Metrics, t : 0..MaxClock]
       /\ D \in SUBSET [n : WifiNodes, m : Metrics, t : 0..MaxClock]
    <2>1. taken' \subseteq [n : WifiNodes, m : Metrics, t : 0..MaxClock]
        BY TakenReadingsNext DEF DistinctInv
    <2> QED BY <1>3, <1>8, <2>1
<1> HIDE DEF S
<1>13. Promise!Take(S, D)
    BY <1>3, <1>8, <1>9, <1>10, <1>11 DEF Promise!Take
<1> QED BY <1>12, <1>13 DEF Promise!Next

\* What the collector does to its readings is a Store.
LEMMA Stores ==
    ASSUME Inv, CustodyInv, ClockBounded, SecuredTaken, taken' = taken, HeldReadings' = HeldReadings,
           NEW S, NEW D, S \subseteq taken, D \subseteq StoredReadings \cup S,
           StoredReadings \cup S \subseteq StoredReadings' \cup D,
           StoredReadings' \subseteq StoredReadings \cup S,
           (lost \cup unread)' = (lost \cup unread) \cup D
    PROVE  Promise!Next
<1>1. StoredReadings \subseteq taken
    BY DEF SecuredTaken, Secured, Settled, StoredReadings
<1>2. /\ S \in SUBSET [n : WifiNodes, m : Metrics, t : 0..MaxClock]
      /\ D \in SUBSET [n : WifiNodes, m : Metrics, t : 0..MaxClock]
    BY <1>1, TakenReadings
<1>3. Promise!Store(S, D)
    BY DEF Promise!Store
<1> QED BY <1>2, <1>3 DEF Promise!Next

\* The mailbox write of either pass.
LEMMA StoreCurrentStores ==
    ASSUME Inv, Inv', CustodyInv, ClockBounded, SecuredTaken, NEW pass, Walking(pass), StoreCurrent,
           UNCHANGED <<taken, ring, recorded, unread>>
    PROVE  Promise!Next
<1>1. Put(job.n, Here.m, Here.t) /\ job.n \in Senders /\ Here.m \in Metrics
    BY HereType DEF StoreCurrent
<1>2. OfWifi(DOMAIN hist)' = OfWifi(DOMAIN hist)
    BY <1>1, PutSecured
<1>3. HereReading \in taken
    <2>1. job # Nothing /\ job.i \in 1..Len(job.batch) /\ HereReading = Walked(job.i)
        BY DEF Walking, Inv, TypeOK, Job, HereReading, Here, Walked, At
    <2> QED BY <2>1 DEF CustodyInv, JobKnown
<1>4. HeldReadings' = HeldReadings
    BY DEF HeldReadings
<1> DEFINE S == {HereReading}
           D == IF HasSlot(job.n, Here.m) THEN {} ELSE {HereReading}
<1>5. S \subseteq taken /\ D \subseteq StoredReadings \cup S
    BY <1>3
<1>6. /\ StoredReadings \cup S \subseteq StoredReadings' \cup D
      /\ StoredReadings' \subseteq StoredReadings \cup S
      /\ (lost \cup unread)' = (lost \cup unread) \cup D
    <2>1. CASE HasSlot(job.n, Here.m)
        <3>1. current' = current \cup {HereReading} /\ lost' = lost /\ D = {}
            BY <2>1 DEF StoreCurrent
        <3> HIDE DEF D
        <3> QED BY <1>2, <3>1 DEF StoredReadings
    <2>2. CASE ~HasSlot(job.n, Here.m)
        <3>1. current' = current /\ lost' = lost \cup {HereReading} /\ D = {HereReading}
            BY <2>2 DEF StoreCurrent
        <3> HIDE DEF D
        <3> QED BY <1>2, <3>1 DEF StoredReadings
    <2> QED BY <2>1, <2>2
<1> HIDE DEF S, D
<1> QED BY <1>4, <1>5, <1>6, Stores

\* A place in the queue, at the cost of the oldest when there is none.
LEMMA QueueBackfillStores ==
    ASSUME Inv, Inv', CustodyInv, ClockBounded, SecuredTaken, Walking("prefix"),
           IsBackfill(job.batch, job.i), QueueBackfill, UNCHANGED <<taken, ring, recorded, unread>>
    PROVE  Promise!Next
<1>1. /\ job.n \in Senders /\ job.n \in WifiNodes /\ Here.m \in Metrics /\ Here.t \in Nat
      /\ job.base \in Nat /\ Here.age \in Nat
    BY HereType
<1>2. When(job.batch, job.i) \in Nat /\ PutHistorical(job.n, Here.m, Here.t, When(job.batch, job.i))
    BY <1>1 DEF When, IsBackfill, Here, QueueBackfill
<1>3. /\ OfWifi(DOMAIN hist) \subseteq OfWifi(DOMAIN hist)' \cup ShedBy(job.n, Here.m)
      /\ ShedBy(job.n, Here.m) \subseteq OfWifi(DOMAIN hist)
      /\ OfWifi(DOMAIN hist)' \subseteq OfWifi(DOMAIN hist) \cup {HereReading}
      /\ HasSlot(job.n, Here.m) => HereReading \in OfWifi(DOMAIN hist)'
    BY <1>1, <1>2, PutHistoricalSecured DEF HereReading
<1>4. HereReading \in taken
    <2>1. job # Nothing /\ job.i \in 1..Len(job.batch) /\ HereReading = Walked(job.i)
        BY DEF Walking, Inv, TypeOK, Job, HereReading, Here, Walked, At
    <2> QED BY <2>1 DEF CustodyInv, JobKnown
<1>5. HeldReadings' = HeldReadings
    BY DEF HeldReadings
<1> DEFINE S == {HereReading}
           D == IF HasSlot(job.n, Here.m) THEN ShedBy(job.n, Here.m) ELSE {HereReading}
<1>6. current' = current /\ lost' = lost \cup D
    BY DEF QueueBackfill
<1>7. ~HasSlot(job.n, Here.m) => ShedBy(job.n, Here.m) = {}
    BY DEF ShedBy, Sheds
<1>8. S \subseteq taken /\ D \subseteq StoredReadings \cup S
    BY <1>3, <1>4 DEF StoredReadings
<1>9. /\ StoredReadings \cup S \subseteq StoredReadings' \cup D
      /\ StoredReadings' \subseteq StoredReadings \cup S
      /\ (lost \cup unread)' = (lost \cup unread) \cup D
    <2>1. CASE HasSlot(job.n, Here.m)
        <3>1. D = ShedBy(job.n, Here.m)
            BY <2>1
        <3> HIDE DEF D
        <3> QED BY <1>3, <1>6, <2>1, <3>1 DEF StoredReadings
    <2>2. CASE ~HasSlot(job.n, Here.m)
        <3>1. D = {HereReading}
            BY <2>2
        <3> HIDE DEF D
        <3> QED BY <1>3, <1>6, <1>7, <2>2, <3>1 DEF StoredReadings
    <2> QED BY <2>1, <2>2
<1> HIDE DEF S, D
<1> QED BY <1>5, <1>8, <1>9, Stores

\* Every step of the program is one the promise allows.
LEMMA NextPromise ==
    /\ Inv /\ CustodyInv /\ OrderInv /\ DistinctInv
    /\ Inv' /\ CustodyInv' /\ DistinctInv' /\ [Next]_vars
    => [Promise!Next]_(Promise!vars)
<1> SUFFICES ASSUME Inv, CustodyInv, OrderInv, DistinctInv, Inv', CustodyInv', DistinctInv', [Next]_vars
             PROVE  Promise!Next \/ UNCHANGED Promise!vars
    OBVIOUS
<1>1. ASSUME UNCHANGED <<ingestVars, ledgerVars, ring>> PROVE UNCHANGED Promise!vars
    <2>1. OfWifi(DOMAIN hist)' = OfWifi(DOMAIN hist)
        BY <1>1, QueueUnchanged
    <2>2. HeldReadings' = HeldReadings /\ StoredReadings' = StoredReadings
        BY <1>1, <2>1 DEF HeldReadings, StoredReadings, ledgerVars
    <2> QED BY <1>1, <2>2 DEF Promise!vars, ledgerVars
<1>2. ASSUME NEW n \in WifiNodes, Wake(n) PROVE Promise!Next \/ UNCHANGED Promise!vars
    <2>1. CASE Records(n)
        BY <1>2, <2>1, WakeTakes
    <2>2. CASE UNCHANGED <<ring, taken, lost>>
        <3>1. UNCHANGED <<ingestVars, ledgerVars, ring>>
            BY <1>2, <2>2 DEF Wake, ledgerVars
        <3> QED BY <1>1, <3>1
    <2> QED BY <1>2, <2>1, <2>2 DEF Wake, Records
<1>3. ASSUME NEW n \in WifiNodes, ReadReply(n) PROVE Promise!Next \/ UNCHANGED Promise!vars
    <2>1. PICK k \in 0..Len(ring[n]) :
              /\ Len(ring'[n]) = Len(ring[n]) - k
              /\ \A j \in 1..Len(ring'[n]) : ring'[n][j] = ring[n][j + k]
              /\ \A i \in 1..k : ring[n][i] \in (IF reply[n].accepted = Nothing THEN unread' ELSE Secured)
              /\ \A x \in WifiNodes \ {n} : ring'[x] = ring[x]
              /\ reply[n].ok => k = Consumed(n)
              /\ ~reply[n].ok => ring' = ring /\ unread' = unread
        BY <1>3, ReplyRing
    <2>2. UNCHANGED <<ingestVars, taken, current, recorded, lost>>
        BY <1>3 DEF ReadReply
    <2>3. CASE ~reply[n].ok
        <3>1. UNCHANGED <<ingestVars, ledgerVars, ring>>
            BY <2>1, <2>2, <2>3 DEF ledgerVars
        <3> QED BY <1>1, <3>1
    <2>4. CASE reply[n].ok
        <3> DEFINE D == {ring[n][i] : i \in 1..k}
        <3>1. HeldReadings' = HeldReadings \ D
            BY <2>1, ForgetsFront DEF DistinctInv
        <3>2. DOMAIN ring[n] = 1..Len(ring[n]) /\ Len(ring[n]) \in Nat
            BY DEF Inv, TypeOK
        <3>3. D \subseteq HeldReadings /\ D \subseteq taken
            <4>1. \A i \in 1..k : i \in 1..Len(ring[n])
                BY <2>1, <3>2
            <4> QED BY <4>1, HeldMember DEF CustodyInv, RingKnown
        <3>4. D \in SUBSET [n : WifiNodes, m : Metrics, t : 0..MaxClock]
            BY <3>3, TakenReadings DEF DistinctInv
        <3>5. StoredReadings' = StoredReadings
            BY <2>2, QueueUnchanged DEF StoredReadings
        <3>6. CASE reply[n].accepted = Nothing
            <4>1. unread' = unread \cup Dropped(n, k)
                BY <1>3, <2>1, <2>4, <3>6 DEF ReadReply
            <4>2. Dropped(n, k) = D
                BY <2>1, <3>2 DEF Dropped
            <4>3. (lost \cup unread)' = (lost \cup unread) \cup D
                BY <2>2, <4>1, <4>2
            <4> HIDE DEF D
            <4>4. Promise!Abandon(D)
                BY <2>2, <3>1, <3>3, <3>5, <4>3 DEF Promise!Abandon
            <4> QED BY <3>4, <4>4 DEF Promise!Next
        <3>7. CASE reply[n].accepted # Nothing
            <4>1. unread' = unread
                BY <1>3, <2>4, <3>7 DEF ReadReply
            <4>2. D \subseteq StoredReadings \cup (lost \cup unread)
                BY <2>1, <3>7 DEF Secured, Settled, StoredReadings
            <4> HIDE DEF D
            <4>3. Promise!Forget(D)
                BY <2>2, <3>1, <3>3, <3>5, <4>1, <4>2 DEF Promise!Forget
            <4> QED BY <3>4, <4>3 DEF Promise!Next
        <3> QED BY <3>6, <3>7
    <2> QED BY <2>3, <2>4
<1>4. ASSUME NEW n \in WifiNodes, RestartNode(n) PROVE Promise!Next \/ UNCHANGED Promise!vars
    <2>1. /\ UNCHANGED <<ingestVars, taken, current, recorded, unread>>
          /\ lost' = lost \cup {ring[n][i] : i \in DOMAIN ring[n]}
          /\ ring' = [ring EXCEPT ![n] = <<>>]
        BY <1>4 DEF RestartNode
    <2>2. /\ DOMAIN ring[n] = 1..Len(ring[n]) /\ Len(ring[n]) \in Nat
          /\ ring'[n] = <<>> /\ \A x \in WifiNodes \ {n} : ring'[x] = ring[x]
        BY <2>1 DEF Inv, TypeOK
    <2> DEFINE D == {ring[n][i] : i \in 1..Len(ring[n])}
    <2>3. HeldReadings' = HeldReadings \ D
        <3>1. Len(ring'[n]) = Len(ring[n]) - Len(ring[n]) /\ Len(ring[n]) \in 0..Len(ring[n])
            BY <2>2
        <3>2. \A j \in 1..Len(ring'[n]) : ring'[n][j] = ring[n][j + Len(ring[n])]
            BY <2>2
        <3> QED BY <2>2, <3>1, <3>2, ForgetsFront DEF DistinctInv
    <2>4. D \subseteq HeldReadings /\ D \subseteq taken
        BY HeldMember DEF CustodyInv, RingKnown
    <2>5. D \in SUBSET [n : WifiNodes, m : Metrics, t : 0..MaxClock]
        BY <2>4, TakenReadings DEF DistinctInv
    <2>6. StoredReadings' = StoredReadings
        BY <2>1, QueueUnchanged DEF StoredReadings
    <2>7. (lost \cup unread)' = (lost \cup unread) \cup D
        BY <2>1, <2>2
    <2> HIDE DEF D
    <2>8. Promise!Abandon(D)
        BY <2>1, <2>3, <2>4, <2>6, <2>7 DEF Promise!Abandon
    <2> QED BY <2>5, <2>8 DEF Promise!Next
<1>5. ASSUME NEW n \in WifiNodes,
             Post(n) \/ PostNothing(n) \/ Timeout(n) \/ Begin(n) \/ Refuse(n) \/ Garble(n)
      PROVE  UNCHANGED Promise!vars
    <2>1. UNCHANGED <<ingestVars, ledgerVars, ring>>
        BY <1>5 DEF Post, PostNothing, Timeout, Begin, Refuse, Garble, nodeVars
    <2> QED BY <1>1, <2>1
<1>6. CASE LivePassEnds \/ HoldRest \/ Answer \/ ClockSet \/ Tick \/ UNCHANGED vars
    <2>1. UNCHANGED <<ingestVars, ledgerVars, ring>>
        BY <1>6 DEF LivePassEnds, HoldRest, Answer, ClockSet, Tick, vars, nodeVars
    <2> QED BY <1>1, <2>1
<1>7. SecuredTaken /\ ClockBounded
    BY DEF OrderInv, DistinctInv
<1>8. CASE LivePass
    <2>1. Walking("live") /\ UNCHANGED <<taken, ring, recorded, unread>>
        BY <1>8 DEF LivePass, nodeVars
    <2>2. CASE StoreCurrent
        BY <1>7, <2>1, <2>2, StoreCurrentStores
    <2>3. CASE UNCHANGED <<ingestVars, current, lost>>
        BY <1>1, <2>1, <2>3 DEF ledgerVars
    <2> QED BY <1>8, <2>2, <2>3 DEF LivePass
<1>9. CASE PrefixPass
    <2>1. Walking("prefix") /\ UNCHANGED <<taken, ring, recorded, unread>>
        BY <1>9 DEF PrefixPass, nodeVars
    <2>2. CASE StoreCurrent
        BY <1>7, <2>1, <2>2, StoreCurrentStores
    <2>3. CASE UNCHANGED <<ingestVars, current, lost>>
        BY <1>1, <2>1, <2>3 DEF ledgerVars
    <2>4. CASE IsBackfill(job.batch, job.i) /\ QueueBackfill
        BY <1>7, <2>1, <2>4, QueueBackfillStores
    <2> QED BY <1>9, <2>2, <2>3, <2>4 DEF PrefixPass
<1>10. ASSUME NEW n \in EspNodes, NEW m \in Metrics, EspNowHistory(n, m) PROVE Promise!Next
    <2>1. /\ PutHistorical(n, m, clock, NowEpoch) /\ n \in Senders /\ n \notin WifiNodes
          /\ clock \in Nat /\ NowEpoch \in Nat
        BY <1>10 DEF EspNowHistory, EspNodes, Inv, TypeOK, NowEpoch
    <2>2. /\ OfWifi(DOMAIN hist) \subseteq OfWifi(DOMAIN hist)' \cup ShedBy(n, m)
          /\ ShedBy(n, m) \subseteq OfWifi(DOMAIN hist)
          /\ OfWifi(DOMAIN hist)' \subseteq OfWifi(DOMAIN hist)
        BY <2>1, PutHistoricalSecured
    <2>3. lost' = lost \cup ShedBy(n, m) /\ UNCHANGED <<current, recorded, unread, taken, ring>>
        BY <1>10 DEF EspNowHistory, nodeVars
    <2>4. HeldReadings' = HeldReadings
        BY <2>3 DEF HeldReadings
    <2>5. /\ ShedBy(n, m) \subseteq StoredReadings \cup {}
          /\ StoredReadings \cup {} \subseteq StoredReadings' \cup ShedBy(n, m)
          /\ StoredReadings' \subseteq StoredReadings \cup {}
          /\ (lost \cup unread)' = (lost \cup unread) \cup ShedBy(n, m)
        BY <2>2, <2>3 DEF StoredReadings
    <2> DEFINE D == ShedBy(n, m)
    <2>6. /\ {} \subseteq taken /\ D \subseteq StoredReadings \cup {}
          /\ StoredReadings \cup {} \subseteq StoredReadings' \cup D
          /\ StoredReadings' \subseteq StoredReadings \cup {}
          /\ (lost \cup unread)' = (lost \cup unread) \cup D
        BY <2>5
    <2>7. UNCHANGED <<taken, recorded>>
        BY <2>3
    <2> HIDE DEF D
    <2> DEFINE S == {}
    <2>8. /\ S \subseteq taken /\ D \subseteq StoredReadings \cup S
          /\ StoredReadings \cup S \subseteq StoredReadings' \cup D
          /\ StoredReadings' \subseteq StoredReadings \cup S
        BY <2>6
    <2> HIDE DEF S
    <2> QED BY <1>7, <2>4, <2>6, <2>7, <2>8, Stores
<1>11. ASSUME NEW n \in Listened, SensorTick(n) PROVE UNCHANGED Promise!vars
    <2>1. DrainHistory(n, DrainRoom) /\ n \in Senders /\ DrainRoom \in Nat
        BY <1>11, StoreForwardAssumption DEF SensorTick
    <2>2. OfWifi(DOMAIN hist) = OfWifi(DOMAIN hist)' \cup OfWifi(Leaving(n, DrainRoom))
        BY <2>1, DrainSecured
    <2>3. /\ recorded' = recorded \cup OfWifi(Leaving(n, DrainRoom))
          /\ UNCHANGED <<current, lost, unread, taken, ring>>
        BY <1>11 DEF SensorTick, nodeVars
    <2>4. StoredReadings' = StoredReadings /\ HeldReadings' = HeldReadings
        BY <2>2, <2>3 DEF StoredReadings, HeldReadings
    <2> QED BY <2>3, <2>4 DEF Promise!vars
<1>12. CASE RestartCollector
    <2>1. /\ lost' = lost \cup OfWifi(DOMAIN hist)
          /\ UNCHANGED <<current, recorded, unread, taken, ring>> /\ hist' = <<>>
        BY <1>12 DEF RestartCollector, nodeVars
    <2>2. OfWifi(DOMAIN hist)' = {}
        <3>1. DOMAIN hist' = {}
            BY <2>1
        <3> QED BY <3>1 DEF OfWifi
    <2>3. HeldReadings' = HeldReadings
        BY <2>1 DEF HeldReadings
    <2>4. /\ OfWifi(DOMAIN hist) \subseteq StoredReadings \cup {}
          /\ StoredReadings \cup {} \subseteq StoredReadings' \cup OfWifi(DOMAIN hist)
          /\ StoredReadings' \subseteq StoredReadings \cup {}
          /\ (lost \cup unread)' = (lost \cup unread) \cup OfWifi(DOMAIN hist)
        BY <2>1, <2>2 DEF StoredReadings
    <2> DEFINE S == {}
           D == OfWifi(DOMAIN hist)
    <2>5. /\ S \subseteq taken /\ D \subseteq StoredReadings \cup S
          /\ StoredReadings \cup S \subseteq StoredReadings' \cup D
          /\ StoredReadings' \subseteq StoredReadings \cup S
          /\ (lost \cup unread)' = (lost \cup unread) \cup D
        BY <2>4
    <2>6. taken' = taken
        BY <2>1
    <2> HIDE DEF S, D
    <2> QED BY <1>7, <2>3, <2>5, <2>6, Stores
<1> QED BY <1>2, <1>3, <1>4, <1>5, <1>6, <1>8, <1>9, <1>10, <1>11, <1>12 DEF Next, NodeStep, HandlerStep

\* Store-and-forward keeps its promise: whatever is lost, repeated, cut short
\* or restarted, a reading leaves its node's care only into the collector's or
\* openly given up, for any number of nodes, metrics, slots and places.
THEOREM PromiseKept == Spec => KeepsPromise
<1>1. Init => Promise!Init
    <2> SUFFICES ASSUME Init PROVE Promise!Init
        OBVIOUS
    <2>1. /\ \A n \in WifiNodes : DOMAIN ring[n] = {}
          /\ taken = {} /\ DOMAIN hist = {}
          /\ current = {} /\ recorded = {} /\ lost = {} /\ unread = {}
        BY DEF Init, IngestInit
    <2>2. HeldReadings = {} /\ StoredReadings = {}
        BY <2>1 DEF HeldReadings, StoredReadings, OfWifi
    <2> QED BY <2>1, <2>2 DEF Promise!Init
<1>2. Spec => []DistinctInv
    <2>1. Inv /\ CustodyInv /\ DistinctInv /\ Inv' /\ [Next]_vars => DistinctInv'
        BY NextDistinct
    <2> QED BY <2>1, InitDistinct, OrderHolds, PTL DEF Spec
<1>3. /\ Inv /\ CustodyInv /\ OrderInv /\ DistinctInv
      /\ Inv' /\ CustodyInv' /\ DistinctInv' /\ [Next]_vars
      => [Promise!Next]_(Promise!vars)
    BY NextPromise
<1> QED BY <1>1, <1>2, <1>3, OrderHolds, PTL DEF Spec, KeepsPromise, Promise!Spec
=============================================================================
