-------------------------- MODULE EspNowLinkProofs --------------------------
(***************************************************************************)
(* For any number of nodes, ids, sequence numbers and troubles: a reading  *)
(* sent over ESP-NOW is in somebody's custody until it has landed or the   *)
(* code has a reason for its loss, and it is stored twice only when the    *)
(* node or the table could not know better.                                *)
(*                                                                         *)
(* The argument: an ACK that a node takes for its own speaks of the frame  *)
(* of this wake, because one left over from the wake before is one number  *)
(* behind; so what leaves the backlog was in the ring.  And while the node *)
(* has not missed an ACK of it, the reading is in at most two frames, next *)
(* to each other, of which the guard takes one.                            *)
(***************************************************************************)
EXTENDS EspNowLink, SequenceTheorems, WellFoundedInduction, TLAPS

Stages   == {"asleep", "sent", "pairing", "repairing"}
Mark     == {"t", "o"}
NodeType == [at : Stages, id : Ids \cup {0}, seq : 0..Wrap - 1, first : BOOLEAN, pool : Seq(Mark),
             live : Mark, taken : Nat, fails : Nat, since : Nat, astray : BOOLEAN, measured : BOOLEAN]
AckType  == [seq : 0..Wrap - 1, rediscover : BOOLEAN]
AirType  == [frame : BOOLEAN, ack : {None} \cup AckType, welcome : Ids \cup {0}]
Frame    == [mac : Nodes, id : Ids, seq : 0..Wrap - 1, first : BOOLEAN, t : BOOLEAN,
             copy : BOOLEAN, old : BOOLEAN, late : BOOLEAN]
Saved    == [Ids -> Macs \cup {None}]
Business == [op : {"add", "forget"}, mac : Macs, id : Ids]
FateType == [landed : 0..2, why : SUBSET Reasons, unheard : BOOLEAN, strange : BOOLEAN]

Types ==
    /\ node \in [Nodes -> NodeType] /\ air \in [Nodes -> AirType] /\ fate \in [Nodes -> FateType]
    /\ table \in [Ids -> Rows \cup {None}] /\ ring \in Seq(Frame) /\ pending \in Nodes \cup {None}
    /\ file \in Saved /\ saving \in Saved \cup {None} /\ web \in Business \cup {None}

Has(pool)   == \E i \in 1..Len(pool) : pool[i] = "t"
Single(pool) == \A i, j \in 1..Len(pool) : pool[i] = "t" /\ pool[j] = "t" => i = j
Mine(n)     == {k \in 1..Len(ring) : ring[k].mac = n /\ ring[k].t}
Handed(n)   == Mine(n) # {} \/ fate[n].landed > 0 \/ fate[n].why # {}
Carrying(n) == node[n].live = "t" \/ Has(node[n].pool)

\* The node's own state.
NodeOK(n) ==
    /\ node[n].at = "sent" => node[n].id # 0 /\ node[n].taken <= Len(node[n].pool)
    /\ node[n].at \in {"asleep", "repairing"} => node[n].live = "o"
    /\ Len(node[n].pool) <= PoolSize
    /\ air[n].frame => node[n].at = "sent"

\* An ACK on the air is of the frame before this one as long as this frame is
\* on the air, and of the last frame otherwise; and this frame's ACK is only
\* sent once the collector has it.
AcksOK(n) ==
    /\ air[n].frame /\ air[n].ack # None => air[n].ack.seq # Wanted(n)
    /\ node[n].at # "sent" /\ air[n].ack # None => air[n].ack.seq = Wanted(n)
    /\ node[n].at = "sent" /\ AckIsOurs(n) /\ Carries(node[n]) => Handed(n)

\* The followed reading is in one place of the node.
OneReading(n) ==
    /\ Single(node[n].pool) /\ (node[n].live = "t" => ~Has(node[n].pool))
    /\ ~node[n].measured => ~Carrying(n) /\ Mine(n) = {} /\ fate[n].landed = 0

\* Once the collector has it, the node has it only as what the frame carried.
LeftBehind(n) ==
    ~fate[n].unheard /\ (Mine(n) # {} \/ fate[n].landed > 0) =>
        ~Carrying(n) \/ (node[n].at = "sent" /\ ~air[n].frame /\ Carries(node[n]))

\* The guard knows this sequence number, or its id was forgotten meanwhile.
Guarded(f) == f.late \/ (table[f.id] # None /\ table[f.id].have /\ table[f.id].last = f.seq)

\* It waits in a frame and its copy, and when it has landed only in the copy.
Twin(n) ==
    ~fate[n].unheard =>
        \A k \in Mine(n) :
            /\ \A j \in Mine(n) : j > k => /\ j = k + 1 /\ ring[j].copy
                                           /\ ring[j].id = ring[k].id /\ ring[j].seq = ring[k].seq
                                           /\ (ring[k].late => ring[j].late)
            /\ fate[n].landed > 0 => k = 1 /\ ring[k].copy /\ Guarded(ring[k])

Kept(n) == node[n].measured => Carrying(n) \/ Handed(n)
Once(n) == fate[n].landed > 1 => fate[n].unheard \/ "forgotten" \in fate[n].why

Per(n) == /\ NodeOK(n) /\ AcksOK(n) /\ OneReading(n) /\ LeftBehind(n) /\ Twin(n)
          /\ Kept(n) /\ Once(n)
LinkInv == Types /\ \A n \in Nodes : Per(n)

-----------------------------------------------------------------------------
(* The model's words in terms of places.                                   *)

\* The smaller of two.
LEMMA MinOfTwo ==
    ASSUME NEW a \in Nat, NEW b \in Nat
    PROVE  Min({a, b}) \in Nat /\ Min({a, b}) <= a /\ Min({a, b}) <= b /\ Min({a, b}) \in {a, b}
<1>1. \E x \in {a, b} : \A y \in {a, b} : x <= y
    BY SMT
<1>2. Min({a, b}) \in {a, b} /\ \A y \in {a, b} : Min({a, b}) <= y
    BY <1>1 DEF Min
<1> QED BY <1>2

\* What the properties say of sequences, place by place.
LEMMA Places ==
    ASSUME Types, NEW n \in Nodes
    PROVE  /\ AtNode(n) <=> Carrying(n)
           /\ InRing(n) <=> Mine(n) # {}
           /\ Carries(node[n]) <=> node[n].live = "t" \/ \E k \in 1..node[n].taken : node[n].pool[k] = "t"
<1>1. node[n].pool \in Seq(Mark) /\ ring \in Seq(Frame)
    BY DEF Types, NodeType
<1>2. DOMAIN node[n].pool = 1..Len(node[n].pool) /\ DOMAIN ring = 1..Len(ring)
    BY <1>1
<1>3. AtNode(n) <=> Carrying(n)
    BY <1>2 DEF AtNode, Carrying, Has, ToSet
<1>4. InRing(n) <=> Mine(n) # {}
    BY <1>2 DEF InRing, Mine
<1> QED BY <1>3, <1>4 DEF Carries

\* The invariant has what the two properties promise.
LEMMA InvImplies == LinkInv => ReadingInCustody /\ StoredOnce
<1> SUFFICES ASSUME LinkInv PROVE ReadingInCustody /\ StoredOnce
    OBVIOUS
<1>1. ASSUME NEW n \in Nodes, node[n].measured
      PROVE  AtNode(n) \/ InRing(n) \/ fate[n].landed > 0 \/ fate[n].why # {}
    <2>1. Carrying(n) \/ Handed(n)
        BY <1>1 DEF LinkInv, Per, Kept
    <2> QED BY <2>1, Places DEF LinkInv, Handed
<1>2. ASSUME NEW n \in Nodes, fate[n].landed > 1 PROVE fate[n].unheard \/ "forgotten" \in fate[n].why
    BY <1>2 DEF LinkInv, Per, Once
<1> QED BY <1>1, <1>2 DEF ReadingInCustody, StoredOnce

\* A push keeps the reading, unless it was the oldest of a full pool.
LEMMA PushPool ==
    ASSUME NEW pool \in Seq(Mark), NEW x \in Mark, Len(pool) <= PoolSize
    PROVE  /\ Push(pool, x) \in Seq(Mark) /\ Len(Push(pool, x)) <= PoolSize
           /\ Has(Push(pool, x)) => Has(pool) \/ x = "t"
           /\ Has(pool) \/ x = "t" => Has(Push(pool, x)) \/ Shed(pool, x)
           /\ Single(pool) /\ (x = "t" => ~Has(pool)) => Single(Push(pool, x))
<1>1. PoolSize \in Nat \ {0} /\ Len(pool) \in Nat
    BY LinkAssumption
<1>2. CASE Len(pool) < PoolSize
    <2>1. /\ Push(pool, x) \in Seq(Mark) /\ Len(Push(pool, x)) = Len(pool) + 1
          /\ \A i \in 1..Len(pool) : Push(pool, x)[i] = pool[i]
          /\ Push(pool, x)[Len(pool) + 1] = x
        BY <1>1, <1>2 DEF Push
    <2> DEFINE p == Push(pool, x)
    <2> HIDE DEF p
    <2>2. /\ p \in Seq(Mark) /\ Len(p) = Len(pool) + 1
          /\ \A i \in 1..Len(pool) : p[i] = pool[i]
          /\ p[Len(pool) + 1] = x
        BY <2>1 DEF p
    <2>3. \A i \in 1..Len(p) : i \in 1..Len(pool) \/ i = Len(pool) + 1
        BY <1>1, <2>2
    <2>4. Len(p) <= PoolSize
        BY <1>1, <1>2, <2>2
    <2>5. Has(p) => Has(pool) \/ x = "t"
        BY <2>2, <2>3 DEF Has
    <2>6. Has(pool) \/ x = "t" => Has(p)
        <3>1. \A i \in 1..Len(pool) : i \in 1..Len(p)
            BY <1>1, <2>2
        <3>2. Len(pool) + 1 \in 1..Len(p)
            BY <1>1, <2>2
        <3> QED BY <2>2, <3>1, <3>2 DEF Has
    <2>7. ASSUME Single(pool), x = "t" => ~Has(pool) PROVE Single(p)
        BY <2>2, <2>3, <2>7 DEF Single, Has
    <2> QED BY <2>2, <2>4, <2>5, <2>6, <2>7 DEF p
<1>3. CASE ~(Len(pool) < PoolSize)
    <2>1. Len(pool) = PoolSize /\ pool # <<>>
        BY <1>1, <1>3
    <2> DEFINE p == Push(pool, x)
    <2>2. /\ p \in Seq(Mark) /\ Len(p) = Len(pool)
          /\ \A i \in 1..(Len(pool) - 1) : p[i] = pool[i + 1]
          /\ p[Len(pool)] = x
        <3>1. Tail(pool) \in Seq(Mark) /\ Len(Tail(pool)) = Len(pool) - 1
              /\ \A i \in 1..(Len(pool) - 1) : Tail(pool)[i] = pool[i + 1]
            BY <1>1, <2>1
        <3>2. p = Append(Tail(pool), x)
            BY <1>3 DEF Push
        <3> HIDE DEF p
        <3> QED BY <1>1, <2>1, <3>1, <3>2
    <2> HIDE DEF p
    <2>3. \A i \in 1..Len(p) : i \in 1..(Len(pool) - 1) \/ i = Len(pool)
        BY <1>1, <2>1, <2>2
    <2>4. Has(p) => Has(pool) \/ x = "t"
        <3>1. \A i \in 1..(Len(pool) - 1) : i + 1 \in 1..Len(pool)
            BY <1>1
        <3> QED BY <2>2, <2>3, <3>1 DEF Has
    <2>5. Has(pool) \/ x = "t" => Has(p) \/ Shed(pool, x)
        <3>1. x = "t" => Has(p)
            BY <1>1, <2>1, <2>2 DEF Has
        <3>2. ASSUME NEW i \in 1..Len(pool), pool[i] = "t" PROVE Has(p) \/ Shed(pool, x)
            <4>1. CASE i = 1
                <5>1. Head(pool) = "t"
                    BY <2>1, <3>2, <4>1
                <5> QED BY <2>1, <5>1, <1>1 DEF Shed
            <4>2. CASE i # 1
                <5>1. i - 1 \in 1..(Len(pool) - 1) /\ (i - 1) + 1 = i /\ i - 1 \in 1..Len(p)
                    BY <1>1, <2>2, <4>2
                <5>2. p[i - 1] = "t"
                    BY <2>2, <3>2, <5>1
                <5> QED BY <5>1, <5>2 DEF Has
            <4> QED BY <4>1, <4>2
        <3> QED BY <3>1, <3>2 DEF Has
    <2>6. ASSUME Single(pool), x = "t" => ~Has(pool) PROVE Single(p)
        <3>1. \A i \in 1..(Len(pool) - 1) : i + 1 \in 1..Len(pool)
            BY <1>1
        <3>2. \A i, j \in 1..(Len(pool) - 1) : p[i] = "t" /\ p[j] = "t" => i = j
            BY <2>2, <2>6, <3>1 DEF Single
        <3>3. \A i \in 1..(Len(pool) - 1) : p[i] = "t" => x # "t"
            BY <2>2, <2>6, <3>1 DEF Has
        <3> QED BY <2>2, <2>3, <3>2, <3>3 DEF Single
    <2> QED BY <2>1, <2>2, <2>4, <2>5, <2>6 DEF p
<1> QED BY <1>2, <1>3

\* The number before this one, and the one after.
LEMMA Around ==
    ASSUME NEW a \in 0..Wrap - 1
    PROVE  /\ Wrap \in Nat /\ Wrap > 3
           /\ (a + 1) % Wrap \in 0..Wrap - 1 /\ (a + Wrap - 1) % Wrap \in 0..Wrap - 1
           /\ (((a + 1) % Wrap) + Wrap - 1) % Wrap = a
           /\ (a + Wrap - 1) % Wrap # a
<1>1. Wrap \in Nat /\ Half \in Int /\ Wrap = 2 * Half /\ Half > 1
    BY LinkAssumption DEF Half
<1>2. Wrap > 3
    BY <1>1
<1>3. \A x \in Nat : x < Wrap => x % Wrap = x
    BY <1>1, <1>2
<1>4. Wrap % Wrap = 0
    BY <1>1, <1>2
<1>5. \A x \in Nat : x < Wrap => (x + Wrap) % Wrap = x
    BY <1>1, <1>2
<1>6. CASE a = 0
    <2>1. (a + 1) % Wrap = 1 /\ (a + Wrap - 1) % Wrap = Wrap - 1
        BY <1>1, <1>2, <1>3, <1>6
    <2>2. (1 + Wrap - 1) % Wrap = 0
        BY <1>1, <1>4
    <2> QED BY <1>1, <1>2, <1>6, <2>1, <2>2
<1>7. CASE a # 0 /\ a # Wrap - 1
    <2>1. (a + 1) % Wrap = a + 1
        BY <1>1, <1>2, <1>3, <1>7
    <2>2. (a + Wrap - 1) % Wrap = a - 1
        <3>1. a - 1 \in Nat /\ a - 1 < Wrap /\ a + Wrap - 1 = (a - 1) + Wrap
            BY <1>1, <1>7
        <3> QED BY <1>5, <3>1
    <2>3. ((a + 1) + Wrap - 1) % Wrap = a
        <3>1. a \in Nat /\ a < Wrap /\ (a + 1) + Wrap - 1 = a + Wrap
            BY <1>1
        <3> QED BY <1>5, <3>1
    <2> QED BY <1>1, <1>2, <1>7, <2>1, <2>2, <2>3
<1>8. CASE a = Wrap - 1
    <2>1. (a + 1) % Wrap = 0
        BY <1>1, <1>4, <1>8
    <2>2. (a + Wrap - 1) % Wrap = a - 1
        <3>1. a - 1 \in Nat /\ a - 1 < Wrap /\ a + Wrap - 1 = (a - 1) + Wrap
            BY <1>1, <1>2, <1>8
        <3> QED BY <1>5, <3>1
    <2>3. (0 + Wrap - 1) % Wrap = a
        <3>1. 0 + Wrap - 1 = a /\ a \in Nat /\ a < Wrap
            BY <1>1, <1>2, <1>8
        <3> QED BY <1>3, <3>1
    <2> QED BY <1>1, <1>2, <1>8, <2>1, <2>2, <2>3
<1> QED BY <1>6, <1>7, <1>8

\* The fields of a node that sends, and of one that buffers its reading.
LEMMA SentNode ==
    ASSUME NEW r \in NodeType
    PROVE  /\ Sent(r) \in NodeType
           /\ Sent(r).at = "sent" /\ Sent(r).seq = (r.seq + 1) % Wrap /\ Sent(r).id = r.id
           /\ Sent(r).pool = r.pool /\ Sent(r).live = r.live /\ Sent(r).taken <= Len(r.pool)
           /\ Sent(r).measured = r.measured
<1> DEFINE k == Min({FrameCap, Len(r.pool)})
<1>1. k \in Nat /\ k <= Len(r.pool)
    <2>1. FrameCap \in Nat /\ Len(r.pool) \in Nat
        BY LinkAssumption DEF NodeType
    <2> QED BY <2>1, MinOfTwo
<1>2. (r.seq + 1) % Wrap \in 0..Wrap - 1
    BY Around DEF NodeType
<1> HIDE DEF k
<1>3. "sent" \in Stages
    BY DEF Stages
<1>4. Sent(r) = [r EXCEPT !.at = "sent", !.seq = (@ + 1) % Wrap, !.taken = k]
    BY DEF Sent, k
<1> QED BY <1>1, <1>2, <1>3, <1>4, Zenon DEF NodeType

\* As above.
LEMMA BufferedNode ==
    ASSUME NEW r \in NodeType, Len(r.pool) <= PoolSize
    PROVE  /\ Buffered(r) \in NodeType
           /\ Buffered(r).at = "asleep" /\ Buffered(r).seq = r.seq /\ Buffered(r).id = r.id
           /\ Buffered(r).pool = Push(r.pool, r.live) /\ Buffered(r).live = "o"
           /\ Buffered(r).measured = r.measured
           /\ Len(Buffered(r).pool) <= PoolSize
<1>1. r.pool \in Seq(Mark) /\ r.live \in Mark
    BY DEF NodeType
<1>2. Push(r.pool, r.live) \in Seq(Mark) /\ Len(Push(r.pool, r.live)) <= PoolSize
    BY <1>1, PushPool
<1>3. "asleep" \in Stages /\ "o" \in Mark /\ 0 \in Nat
    BY DEF Stages, Mark
<1> QED BY <1>2, <1>3, Zenon DEF NodeType, Buffered

-----------------------------------------------------------------------------
(* What a step leaves of one node's part of the invariant.                 *)

\* The ring holds the same frames; some may have become late, all of an id at
\* once; and the guard still knows what it knew of this node.
SameFrames(n) ==
    /\ Len(ring') = Len(ring)
    /\ \A k \in 1..Len(ring) :
         /\ ring'[k].mac = ring[k].mac /\ ring'[k].t = ring[k].t /\ ring'[k].id = ring[k].id
         /\ ring'[k].seq = ring[k].seq /\ ring'[k].copy = ring[k].copy
         /\ ring[k].late => ring'[k].late
    /\ \A j, k \in 1..Len(ring) :
         ring[j].id = ring[k].id /\ ring'[k].late => ring[k].late \/ ring'[j].late
    /\ \A k \in Mine(n) : Guarded(ring[k]) => Guarded(ring[k])'

\* What became of the reading may only be told further.
ToldFurther(n) ==
    /\ fate'[n].landed = fate[n].landed /\ fate[n].why \subseteq fate'[n].why
    /\ fate[n].unheard => fate'[n].unheard

\* The two at once.
RingKept(n) == SameFrames(n) /\ ToldFurther(n)

\* As long as the ring and the table are left alone.
LEMMA RingAlone ==
    ASSUME ring' = ring, table' = table, NEW n \in Nodes
    PROVE  SameFrames(n)
BY DEF SameFrames, Guarded

\* The types of one node's parts.
LEMMA NodeTypes ==
    ASSUME Types, NEW n \in Nodes
    PROVE  /\ node[n] \in NodeType /\ air[n] \in AirType /\ fate[n] \in FateType
           /\ node[n].pool \in Seq(Mark) /\ node[n].live \in Mark /\ node[n].taken \in Nat
           /\ node[n].seq \in 0..Wrap - 1 /\ node[n].id \in Ids \cup {0}
           /\ node[n].measured \in BOOLEAN /\ node[n].at \in Stages
           /\ air[n].ack \in {None} \cup AckType /\ air[n].frame \in BOOLEAN
           /\ air[n].welcome \in Ids \cup {0}
           /\ fate[n].landed \in 0..2 /\ fate[n].why \in SUBSET Reasons
           /\ fate[n].unheard \in BOOLEAN
<1>1. node[n] \in NodeType /\ air[n] \in AirType /\ fate[n] \in FateType
    BY DEF Types
<1> QED BY <1>1 DEF NodeType, AirType, FateType

\* The reading's places in the ring, and what was said of them, stay.
LEMMA RingStays ==
    ASSUME Types, NEW n \in Nodes, Twin(n), Once(n), RingKept(n)
    PROVE  /\ Mine(n)' = Mine(n) /\ (Handed(n) => Handed(n)')
           /\ Twin(n)' /\ Once(n)'
<1>1. SameFrames(n) /\ ToldFurther(n)
    BY DEF RingKept
<1>2. Mine(n)' = Mine(n)
    BY <1>1 DEF SameFrames, Mine
<1>3. Handed(n) => Handed(n)'
    BY <1>1, <1>2 DEF ToldFurther, Handed
<1>4. Once(n)'
    BY <1>1 DEF ToldFurther, Once
<1>5. Twin(n)'
    <2> SUFFICES ASSUME ~fate'[n].unheard, NEW k \in Mine(n)
                 PROVE  /\ \A j \in Mine(n) : j > k =>
                             /\ j = k + 1 /\ ring'[j].copy
                             /\ ring'[j].id = ring'[k].id /\ ring'[j].seq = ring'[k].seq
                             /\ (ring'[k].late => ring'[j].late)
                        /\ fate'[n].landed > 0 => k = 1 /\ ring'[k].copy /\ Guarded(ring[k])'
        BY <1>2 DEF Twin
    <2>1. ~fate[n].unheard /\ fate'[n].landed = fate[n].landed
        BY <1>1 DEF ToldFurther
    <2>2. k \in 1..Len(ring)
        BY DEF Mine
    <2>3. ASSUME NEW j \in Mine(n), j > k
          PROVE  /\ j = k + 1 /\ ring'[j].copy
                 /\ ring'[j].id = ring'[k].id /\ ring'[j].seq = ring'[k].seq
                 /\ (ring'[k].late => ring'[j].late)
        <3>1. j \in 1..Len(ring)
            BY DEF Mine
        <3>2. /\ j = k + 1 /\ ring[j].copy /\ ring[j].id = ring[k].id /\ ring[j].seq = ring[k].seq
              /\ (ring[k].late => ring[j].late)
            BY <2>1, <2>3 DEF Twin
        <3> QED BY <1>1, <2>2, <3>1, <3>2 DEF SameFrames
    <2>4. fate'[n].landed > 0 => k = 1 /\ ring'[k].copy /\ Guarded(ring[k])'
        BY <1>1, <2>1, <2>2 DEF Twin, SameFrames
    <2> QED BY <2>3, <2>4
<1> QED BY <1>2, <1>3, <1>4, <1>5

\* A node that nothing happens to, and whose frames stay what they are.
LEMMA Unmoved ==
    ASSUME NEW n \in Nodes, Per(n),
           Mine(n) = {} => Mine(n)' = {}, Handed(n) => Handed(n)', Twin(n)', Once(n)',
           node'[n] = node[n], fate'[n].landed = fate[n].landed,
           ~fate'[n].unheard => ~fate[n].unheard,
           air'[n].frame = air[n].frame, air'[n].ack = air[n].ack
    PROVE  Per(n)'
<1>1. Wanted(n)' = Wanted(n) /\ AckIsOurs(n)' = AckIsOurs(n) /\ Carrying(n)' = Carrying(n)
      /\ Carries(node[n])' = Carries(node[n])
    BY DEF Wanted, AckIsOurs, Carrying, Carries
<1>2. NodeOK(n)'
    BY DEF Per, NodeOK
<1>3. AcksOK(n)'
    BY <1>1 DEF Per, AcksOK
<1>4. OneReading(n)'
    BY <1>1 DEF Per, OneReading
<1>5. LeftBehind(n)'
    BY <1>1 DEF Per, LeftBehind
<1>6. Kept(n)'
    BY <1>1 DEF Per, Kept
<1> QED BY <1>2, <1>3, <1>4, <1>5, <1>6 DEF Per

\* A node that the step is not about.
LEMMA Bystander ==
    ASSUME Types, NEW n \in Nodes, Per(n), SameFrames(n),
           node'[n] = node[n], fate'[n] = fate[n],
           air'[n].frame = air[n].frame, air'[n].ack = air[n].ack
    PROVE  Per(n)'
<1>1. RingKept(n)
    BY DEF RingKept, ToldFurther
<1>2. /\ Mine(n)' = Mine(n) /\ (Handed(n) => Handed(n)') /\ Twin(n)' /\ Once(n)'
    BY <1>1, RingStays DEF Per
<1> QED BY <1>2, Unmoved

\* A step about one node.
LEMMA OneNode ==
    ASSUME LinkInv, Types', NEW n \in Nodes, Per(n)',
           \A p \in Nodes \ {n} : /\ SameFrames(p) /\ node'[p] = node[p] /\ fate'[p] = fate[p]
                                  /\ air'[p].frame = air[p].frame /\ air'[p].ack = air[p].ack
    PROVE  LinkInv'
<1>1. ASSUME NEW p \in Nodes PROVE Per(p)'
    <2>1. CASE p = n
        BY <2>1
    <2>2. CASE p # n
        BY <2>2, Bystander DEF LinkInv
    <2> QED BY <2>1, <2>2
<1> QED BY <1>1 DEF LinkInv

\* What x, the reading of a wake, must be for the followed reading to stay one:
\* beside the backlog, and beside what the collector has.
Fits(n, x) ==
    /\ x = "t" => ~Has(node[n].pool)
    /\ ~fate'[n].unheard /\ (Mine(n) # {} \/ fate[n].landed > 0)
         => ~Has(node[n].pool) /\ x # "t"
    /\ ~node'[n].measured => /\ ~Has(node[n].pool) /\ x # "t"
                             /\ Mine(n) = {} /\ fate[n].landed = 0
    /\ node'[n].measured => Has(node[n].pool) \/ x = "t" \/ Handed(n)

\* The reading of this wake goes into the backlog and the node is done.
LEMMA Buffering ==
    ASSUME Types, Types', NEW n \in Nodes, Per(n), NEW x \in Mark, RingKept(n),
           node'[n].at \in {"asleep", "repairing"}, node'[n].live = "o",
           node'[n].pool = Push(node[n].pool, x),
           Shed(node[n].pool, x) => fate'[n].why # {},
           ~air'[n].frame, air'[n].ack # None => air'[n].ack.seq = Wanted(n)',
           Fits(n, x)
    PROVE  Per(n)'
<1> DEFINE pool == node[n].pool
<1>1. /\ Mine(n)' = Mine(n) /\ (Handed(n) => Handed(n)') /\ Twin(n)' /\ Once(n)'
    BY RingStays DEF Per
<1>2. /\ pool \in Seq(Mark) /\ Len(pool) <= PoolSize /\ Single(pool)
    BY NodeTypes DEF Per, NodeOK, OneReading
<1>3. /\ Len(Push(pool, x)) <= PoolSize
      /\ Has(Push(pool, x)) => Has(pool) \/ x = "t"
      /\ Has(pool) \/ x = "t" => Has(Push(pool, x)) \/ Shed(pool, x)
      /\ Single(Push(pool, x))
    BY <1>2, PushPool DEF Fits
<1>4. Carrying(n)' <=> Has(Push(pool, x))
    BY DEF Carrying
<1>5. fate'[n].landed = fate[n].landed
    BY DEF RingKept, ToldFurther
<1>6. NodeOK(n)'
    BY <1>3 DEF NodeOK
<1>7. AcksOK(n)'
    BY DEF AcksOK
<1>8. OneReading(n)'
    BY <1>1, <1>3, <1>4, <1>5 DEF OneReading, Fits
<1>9. LeftBehind(n)'
    BY <1>1, <1>3, <1>4, <1>5 DEF LeftBehind, Fits
<1>10. Kept(n)'
    <2> SUFFICES ASSUME node'[n].measured PROVE Has(Push(pool, x)) \/ Handed(n)'
        BY <1>4 DEF Kept
    <2>1. Shed(pool, x) => Handed(n)'
        BY DEF Handed
    <2> QED BY <1>1, <1>3, <2>1 DEF Fits
<1> QED BY <1>1, <1>6, <1>7, <1>8, <1>9, <1>10 DEF Per

\* What WithShed adds.
LEMMA ShedTold ==
    ASSUME Types, NEW n \in Nodes, NEW r
    PROVE  /\ WithShed(n, r) \in FateType
           /\ WithShed(n, r).landed = fate[n].landed /\ WithShed(n, r).unheard = fate[n].unheard
           /\ fate[n].why \subseteq WithShed(n, r).why
           /\ Shed(r.pool, r.live) => WithShed(n, r).why # {}
<1>1. fate[n] \in FateType /\ "overflow" \in Reasons
    BY DEF Types, Reasons
<1>2. CASE Shed(r.pool, r.live)
    <2>1. WithShed(n, r) = [fate[n] EXCEPT !.why = @ \cup {"overflow"}]
        BY <1>2 DEF WithShed
    <2>2. fate[n].why \cup {"overflow"} \in SUBSET Reasons
        BY <1>1 DEF FateType
    <2>3. WithShed(n, r) = [landed |-> fate[n].landed, why |-> fate[n].why \cup {"overflow"},
                            unheard |-> fate[n].unheard, strange |-> fate[n].strange]
        BY <1>1, <2>1, Zenon DEF FateType
    <2> QED BY <1>1, <2>2, <2>3 DEF FateType
<1>3. CASE ~Shed(r.pool, r.live)
    BY <1>1, <1>3 DEF WithShed
<1> QED BY <1>2, <1>3

\* The frame of this wake goes on the air; an older ACK is one number behind.
LEMMA Sending ==
    ASSUME Types, Types', NEW n \in Nodes, Per(n), NEW r \in NodeType, RingKept(n),
           node'[n] = Sent(r), r.id # 0, r.pool = node[n].pool, r.seq = node[n].seq,
           node[n].at # "sent",
           air'[n].ack \in {None, air[n].ack},
           Fits(n, r.live)
    PROVE  Per(n)'
<1>1. /\ Mine(n)' = Mine(n) /\ (Handed(n) => Handed(n)') /\ Twin(n)' /\ Once(n)'
    BY RingStays DEF Per
<1>2. /\ node'[n].at = "sent" /\ node'[n].seq = (r.seq + 1) % Wrap /\ node'[n].id = r.id
      /\ node'[n].pool = r.pool /\ node'[n].live = r.live /\ node'[n].taken <= Len(r.pool)
      /\ node'[n].measured = r.measured
    BY SentNode
<1>3. Len(r.pool) <= PoolSize /\ Single(r.pool)
    BY DEF Per, NodeOK, OneReading
<1>4. Carrying(n)' <=> Has(r.pool) \/ r.live = "t"
    BY <1>2 DEF Carrying
<1>5. fate'[n].landed = fate[n].landed
    BY DEF RingKept, ToldFurther
<1>6. NodeOK(n)'
    BY <1>2, <1>3 DEF NodeOK
<1>7. air'[n].ack # None => air'[n].ack.seq # Wanted(n)'
    <2> SUFFICES ASSUME air'[n].ack # None PROVE air'[n].ack.seq # Wanted(n)'
        OBVIOUS
    <2>1. air'[n].ack.seq = (r.seq + Wrap - 1) % Wrap
        BY DEF Per, AcksOK, Wanted
    <2>2. r.seq \in 0..Wrap - 1
        BY NodeTypes
    <2>3. Wanted(n)' = r.seq
        BY <1>2, <2>2, Around DEF Wanted
    <2> QED BY <2>1, <2>2, <2>3, Around
<1>8. AcksOK(n)'
    BY <1>2, <1>7 DEF AcksOK, AckIsOurs
<1>9. OneReading(n)'
    BY <1>1, <1>2, <1>3, <1>4, <1>5 DEF OneReading, Fits
<1>10. LeftBehind(n)'
    BY <1>1, <1>4, <1>5 DEF LeftBehind, Fits
<1>11. Kept(n)'
    BY <1>1, <1>2, <1>4 DEF Kept, Fits
<1> QED BY <1>1, <1>6, <1>8, <1>9, <1>10, <1>11 DEF Per

\* A node that sleeps: its new reading fits.
LEMMA WakingFits ==
    ASSUME Types, NEW n \in Nodes, Per(n), NEW x \in Mark, node[n].at = "asleep",
           x = "t" => ~node[n].measured,
           node'[n].measured = (node[n].measured \/ x = "t"),
           fate'[n].unheard = fate[n].unheard
    PROVE  Fits(n, x)
<1>1. node[n].live = "o" /\ "o" # "t"
    BY DEF Per, NodeOK
<1>2. x = "t" => ~Has(node[n].pool) /\ Mine(n) = {} /\ fate[n].landed = 0
    BY DEF Per, OneReading, Carrying
<1>3. ~fate[n].unheard /\ (Mine(n) # {} \/ fate[n].landed > 0) => ~Has(node[n].pool)
    BY DEF Per, LeftBehind, Carrying
<1>4. fate[n].landed \in 0..2
    BY NodeTypes
<1>5. ~node[n].measured => ~Has(node[n].pool) /\ Mine(n) = {} /\ fate[n].landed = 0
    BY DEF Per, OneReading, Carrying
<1>6. node[n].measured => Has(node[n].pool) \/ Handed(n)
    BY <1>1 DEF Per, Kept, Carrying
<1>7. Mine(n) # {} \/ fate[n].landed > 0 => x # "t"
    BY <1>2, <1>4
<1>8. (node'[n].measured => node[n].measured \/ x = "t")
      /\ (~node'[n].measured => ~node[n].measured /\ x # "t")
    BY Zenon
<1>9. ~fate'[n].unheard => ~fate[n].unheard
    BY Zenon
<1> QED BY <1>2, <1>3, <1>5, <1>6, <1>7, <1>8, <1>9 DEF Fits

-----------------------------------------------------------------------------
(* The steps of a node.                                                    *)

\* wake(), whichever way it goes on.
LEMMA WakesStep ==
    ASSUME LinkInv, NEW n \in Nodes, NEW x \in {"t", "o"}, Wakes(n, x)
    PROVE  LinkInv'
<1> DEFINE since == Min({node[n].since + 1, Spacing})
           r == [node[n] EXCEPT !.live = x, !.measured = @ \/ x = "t", !.since = since]
<1>1. Types /\ Per(n)
    BY DEF LinkInv
<1>2. node[n].at = "asleep" /\ (x = "t" => ~node[n].measured) /\ x \in Mark
    BY DEF Wakes, Mark
<1>3. /\ table' = table /\ peers' = peers /\ ring' = ring /\ pending' = pending /\ window' = window
      /\ file' = file /\ dirty' = dirty /\ saving' = saving /\ web' = web
    BY DEF Wakes, colVars, tableVars, saveVars, talkVars
<1>4. since \in Nat
    <2>0. node[n].since \in Nat
        BY <1>1, NodeTypes DEF NodeType
    <2>1. node[n].since + 1 \in Nat /\ Spacing \in Nat
        BY <2>0, LinkAssumption
    <2> QED BY <2>1, MinOfTwo
<1> HIDE DEF since
<1>5. /\ r \in NodeType /\ r.at = node[n].at /\ r.id = node[n].id /\ r.seq = node[n].seq
      /\ r.pool = node[n].pool /\ r.live = x /\ r.measured = (node[n].measured \/ x = "t")
    <2>1. node[n] \in NodeType /\ (node[n].measured \/ x = "t") \in BOOLEAN
        BY <1>1, NodeTypes
    <2> QED BY <1>2, <1>4, <2>1, Zenon DEF NodeType
<1>6. \/ /\ node' = [node EXCEPT ![n] = Buffered(r)]
         /\ fate' = [fate EXCEPT ![n] = WithShed(n, r)] /\ air' = air
      \/ /\ node' = [node EXCEPT ![n] = [r EXCEPT !.at = "pairing"]]
         /\ air' = air /\ fate' = fate
      \/ /\ r.id # 0 /\ node' = [node EXCEPT ![n] = Sent(r)]
         /\ air' = [air EXCEPT ![n].frame = TRUE] /\ fate' = fate
    BY DEF Wakes, Known, since
<1> HIDE DEF r
<1>7. ASSUME NEW p \in Nodes \ {n}, node'[p] = node[p], fate'[p] = fate[p], air'[p] = air[p]
      PROVE  /\ SameFrames(p) /\ node'[p] = node[p] /\ fate'[p] = fate[p]
             /\ air'[p].frame = air[p].frame /\ air'[p].ack = air[p].ack
    BY <1>3, <1>7, RingAlone
<1>8. node \in [Nodes -> NodeType] /\ air \in [Nodes -> AirType] /\ fate \in [Nodes -> FateType]
    BY <1>1 DEF Types
<1>9. Len(node[n].pool) <= PoolSize /\ ~air[n].frame
      /\ (air[n].ack # None => air[n].ack.seq = Wanted(n))
    BY <1>1, <1>2 DEF Per, NodeOK, AcksOK
<1>10. CASE /\ node' = [node EXCEPT ![n] = Buffered(r)]
            /\ fate' = [fate EXCEPT ![n] = WithShed(n, r)] /\ air' = air
    <2>1. /\ Buffered(r) \in NodeType
          /\ Buffered(r).at = "asleep" /\ Buffered(r).seq = node[n].seq
          /\ Buffered(r).pool = Push(node[n].pool, x) /\ Buffered(r).live = "o"
          /\ Buffered(r).measured = r.measured
        BY <1>5, <1>9, BufferedNode
    <2>2. WithShed(n, r) \in FateType
        BY <1>1, ShedTold
    <2>3. node'[n] = Buffered(r) /\ fate'[n] = WithShed(n, r) /\ air'[n] = air[n]
        BY <1>8, <1>10
    <2>4. Types'
        BY <1>1, <1>3, <1>8, <1>10, <2>1, <2>2 DEF Types
    <2>5. fate'[n].unheard = fate[n].unheard /\ RingKept(n)
          /\ (Shed(node[n].pool, x) => fate'[n].why # {})
        BY <1>1, <1>3, <1>5, <2>3, ShedTold, RingAlone DEF RingKept, ToldFurther
    <2>6. node'[n].measured = (node[n].measured \/ x = "t")
        BY <1>5, <2>1, <2>3, Zenon
    <2>7. Fits(n, x)
        BY <1>1, <1>2, <2>5, <2>6, WakingFits
    <2>8. Wanted(n)' = Wanted(n)
        BY <2>1, <2>3 DEF Wanted
    <2>9. Per(n)'
        BY <1>1, <1>2, <1>9, <2>1, <2>3, <2>4, <2>5, <2>7, <2>8, Buffering
    <2> QED BY <1>7, <1>8, <1>10, <2>4, <2>9, OneNode
<1>11. CASE /\ node' = [node EXCEPT ![n] = [r EXCEPT !.at = "pairing"]]
            /\ air' = air /\ fate' = fate
    <2> DEFINE q == [r EXCEPT !.at = "pairing"]
    <2>1. /\ q \in NodeType /\ q.at = "pairing" /\ q.seq = node[n].seq
          /\ q.pool = node[n].pool /\ q.live = x /\ q.measured = r.measured
        <3>1. "pairing" \in Stages
            BY DEF Stages
        <3> QED BY <1>5, <3>1, Zenon DEF NodeType
    <2> HIDE DEF q
    <2>2. node'[n] = q /\ fate'[n] = fate[n] /\ air'[n] = air[n]
        BY <1>8, <1>11 DEF q
    <2>3. Types'
        BY <1>1, <1>3, <1>8, <1>11, <2>1 DEF Types, q
    <2>4. RingKept(n)
        BY <1>3, <2>2, RingAlone DEF RingKept, ToldFurther
    <2>5. node'[n].measured = (node[n].measured \/ x = "t")
        BY <1>5, <2>1, <2>2, Zenon
    <2>6. Fits(n, x)
        BY <1>1, <1>2, <2>2, <2>5, WakingFits
    <2>7. /\ Mine(n)' = Mine(n) /\ (Handed(n) => Handed(n)') /\ Twin(n)' /\ Once(n)'
        BY <1>1, <2>4, RingStays DEF Per
    <2>8. Carrying(n)' <=> Has(node[n].pool) \/ x = "t"
        BY <2>1, <2>2 DEF Carrying
    <2>9. NodeOK(n)'
        BY <1>9, <2>1, <2>2 DEF NodeOK
    <2>10. AcksOK(n)'
        BY <1>9, <2>1, <2>2 DEF AcksOK, Wanted
    <2>11. OneReading(n)'
        <3>1. Single(node[n].pool)
            BY <1>1 DEF Per, OneReading
        <3> QED BY <2>1, <2>2, <2>6, <2>7, <2>8, <3>1 DEF OneReading, Fits
    <2>12. LeftBehind(n)'
        BY <2>2, <2>6, <2>7, <2>8 DEF LeftBehind, Fits
    <2>13. Kept(n)'
        BY <2>6, <2>7, <2>8 DEF Kept, Fits
    <2>14. Per(n)'
        BY <2>7, <2>9, <2>10, <2>11, <2>12, <2>13 DEF Per
    <2> QED BY <1>7, <1>8, <1>11, <2>3, <2>14, OneNode
<1>12. CASE /\ r.id # 0 /\ node' = [node EXCEPT ![n] = Sent(r)]
            /\ air' = [air EXCEPT ![n].frame = TRUE] /\ fate' = fate
    <2>1. Sent(r) \in NodeType /\ Sent(r).measured = r.measured
        BY <1>5, SentNode
    <2> DEFINE a == [air[n] EXCEPT !.frame = TRUE]
    <2>2. a \in AirType /\ a.ack = air[n].ack /\ air' = [air EXCEPT ![n] = a]
        BY <1>8, <1>12, Zenon DEF AirType
    <2> HIDE DEF a
    <2>3. node'[n] = Sent(r) /\ fate'[n] = fate[n] /\ air'[n] = a
        BY <1>8, <1>12, <2>2
    <2>4. Types'
        BY <1>1, <1>3, <1>8, <1>12, <2>1, <2>2 DEF Types
    <2>5. RingKept(n)
        BY <1>3, <2>3, RingAlone DEF RingKept, ToldFurther
    <2>6. node'[n].measured = (node[n].measured \/ x = "t")
        BY <1>5, <2>1, <2>3, Zenon
    <2>7. Fits(n, x)
        BY <1>1, <1>2, <2>3, <2>6, WakingFits
    <2>8. Per(n)'
        BY <1>1, <1>2, <1>5, <1>12, <2>2, <2>3, <2>4, <2>5, <2>7, Sending
    <2> QED BY <1>7, <1>8, <1>12, <2>2, <2>4, <2>8, OneNode
<1> QED BY <1>6, <1>10, <1>11, <1>12

\* Nothing on the air.
LEMMA QuietAir == Quiet \in AirType /\ ~Quiet.frame /\ Quiet.ack = None /\ Quiet.welcome = 0
BY DEF Quiet, AirType

\* What a delivery leaves of the backlog.
LEMMA DeliveredPool ==
    ASSUME NEW r \in NodeType, r.taken <= Len(r.pool)
    PROVE  /\ Delivered(r) \in Seq(Mark) /\ Len(Delivered(r)) <= Len(r.pool)
           /\ Has(Delivered(r)) <=> \E k \in r.taken + 1..Len(r.pool) : r.pool[k] = "t"
           /\ Single(r.pool) => Single(Delivered(r))
<1> DEFINE pool == r.pool
           m == r.taken
<1>1. pool \in Seq(Mark) /\ m \in Nat /\ Len(pool) \in Nat /\ m <= Len(pool)
    BY DEF NodeType
<1>2. \A i \in m + 1..Len(pool) : pool[i] \in Mark
    BY <1>1
<1>3. m + 1 \in Int /\ Len(pool) \in Int
    BY <1>1
<1>4. /\ SubSeq(pool, m + 1, Len(pool)) \in Seq(Mark)
      /\ Len(SubSeq(pool, m + 1, Len(pool))) =
           IF m + 1 <= Len(pool) THEN Len(pool) - (m + 1) + 1 ELSE 0
      /\ \A i \in 1..Len(pool) - (m + 1) + 1 :
           SubSeq(pool, m + 1, Len(pool))[i] = pool[(m + 1) + i - 1]
    BY <1>2, <1>3, SubSeqProperties
<1> DEFINE p == Delivered(r)
<1>5. p = SubSeq(pool, m + 1, Len(pool))
    BY DEF Delivered
<1> HIDE DEF p, pool, m
<1>6. p \in Seq(Mark) /\ Len(p) = Len(pool) - m /\ \A i \in 1..Len(p) : p[i] = pool[m + i]
    <2>1. Len(p) = Len(pool) - m
        BY <1>1, <1>4, <1>5
    <2>2. ASSUME NEW i \in 1..Len(p) PROVE p[i] = pool[m + i]
        <3>1. i \in 1..Len(pool) - (m + 1) + 1 /\ (m + 1) + i - 1 = m + i
            BY <1>1, <2>1
        <3> QED BY <1>4, <1>5, <3>1
    <2> QED BY <1>4, <1>5, <2>1, <2>2
<1>7. Len(p) <= Len(pool)
    BY <1>1, <1>6
<1>8. ASSUME Has(p) PROVE \E k \in m + 1..Len(pool) : pool[k] = "t"
    <2>1. PICK i \in 1..Len(p) : p[i] = "t"
        BY <1>8 DEF Has
    <2>2. m + i \in m + 1..Len(pool) /\ pool[m + i] = "t"
        BY <1>1, <1>6, <2>1
    <2> QED BY <2>2
<1>9. ASSUME NEW k \in m + 1..Len(pool), pool[k] = "t" PROVE Has(p)
    <2>1. k - m \in 1..Len(p) /\ m + (k - m) = k
        BY <1>1, <1>6
    <2>2. p[k - m] = "t"
        BY <1>6, <1>9, <2>1
    <2> QED BY <2>1, <2>2 DEF Has
<1>10. ASSUME Single(pool), NEW i \in 1..Len(p), NEW j \in 1..Len(p), p[i] = "t", p[j] = "t"
       PROVE  i = j
    <2>1. m + i \in 1..Len(pool) /\ m + j \in 1..Len(pool)
        BY <1>1, <1>6
    <2>2. pool[m + i] = "t" /\ pool[m + j] = "t"
        BY <1>6, <1>10
    <2>3. m + i = m + j
        BY <1>10, <2>1, <2>2 DEF Single
    <2> QED BY <1>1, <1>6, <2>3
<1>11. Single(pool) => Single(p)
    BY <1>10 DEF Single
<1> QED BY <1>6, <1>7, <1>8, <1>9, <1>11 DEF p, pool, m

\* The followed reading was in the frame that was answered, or stays behind it.
LEMMA HearAckStep ==
    ASSUME LinkInv, NEW n \in Nodes, HearAck(n)
    PROVE  LinkInv'
<1> DEFINE r == node[n]
           q == [r EXCEPT !.pool = Delivered(r), !.live = "o", !.taken = 0, !.at = "asleep",
                          !.fails = 0, !.first = FALSE, !.astray = FALSE]
<1>1. Types /\ Per(n) /\ r \in NodeType
    BY NodeTypes DEF LinkInv
<1>2. r.at = "sent" /\ AckIsOurs(n) /\ r.taken <= Len(r.pool) /\ Len(r.pool) <= PoolSize
    BY <1>1 DEF HearAck, Per, NodeOK
<1>3. /\ table' = table /\ ring' = ring /\ pending' = pending
      /\ file' = file /\ saving' = saving /\ web' = web /\ fate' = fate
      /\ node' = [node EXCEPT ![n] = q] /\ air' = [air EXCEPT ![n] = Quiet]
    BY DEF HearAck, colVars, tableVars, saveVars, talkVars
<1>4. /\ Delivered(r) \in Seq(Mark) /\ Len(Delivered(r)) <= Len(r.pool)
      /\ Has(Delivered(r)) <=> \E k \in r.taken + 1..Len(r.pool) : r.pool[k] = "t"
      /\ Single(r.pool) => Single(Delivered(r))
    BY <1>1, <1>2, DeliveredPool
<1>5. /\ q \in NodeType /\ q.at = "asleep" /\ q.live = "o" /\ q.pool = Delivered(r)
      /\ q.measured = r.measured
    <2>1. "asleep" \in Stages /\ "o" \in Mark /\ 0 \in Nat
        BY DEF Stages, Mark
    <2> QED BY <1>1, <1>4, <2>1, Zenon DEF NodeType
<1>6. node \in [Nodes -> NodeType] /\ air \in [Nodes -> AirType] /\ fate \in [Nodes -> FateType]
    BY <1>1 DEF Types
<1> HIDE DEF q
<1>7. node'[n] = q /\ air'[n] = Quiet /\ fate'[n] = fate[n]
    BY <1>3, <1>6
<1>8. Types'
    BY <1>1, <1>3, <1>5, <1>6, QuietAir DEF Types
<1>9. /\ Mine(n)' = Mine(n) /\ (Handed(n) => Handed(n)') /\ Twin(n)' /\ Once(n)'
    BY <1>1, <1>3, <1>7, RingAlone, RingStays DEF Per, RingKept, ToldFurther
<1>10. Carrying(n)' <=> Has(Delivered(r))
    BY <1>5, <1>7 DEF Carrying
<1>11. Has(Delivered(r)) => Has(r.pool)
    <2>1. r.taken \in Nat /\ Len(r.pool) \in Nat
        BY <1>1 DEF NodeType
    <2> QED BY <1>2, <1>4, <2>1 DEF Has
<1>12. Carries(r) => ~Has(Delivered(r))
    <2>1. r.taken \in Nat /\ Len(r.pool) \in Nat
        BY <1>1 DEF NodeType
    <2>2. r.live = "t" => ~Has(r.pool)
        BY <1>1 DEF Per, OneReading
    <2>3. ASSUME NEW k \in 1..r.taken, r.pool[k] = "t" PROVE ~Has(Delivered(r))
        <3>1. \A j \in 1..Len(r.pool) : r.pool[j] = "t" => j = k
            <4>1. k \in 1..Len(r.pool)
                BY <1>2, <2>1
            <4> QED BY <1>1, <2>3, <4>1 DEF Per, OneReading, Single
        <3>2. \A j \in r.taken + 1..Len(r.pool) : j \in 1..Len(r.pool) /\ j # k
            BY <1>2, <2>1
        <3> QED BY <1>4, <3>1, <3>2
    <2> QED BY <1>11, <2>2, <2>3 DEF Carries
<1>13. ASSUME Carrying(n), ~Carries(r) PROVE Has(Delivered(r))
    <2>1. r.taken \in Nat /\ Len(r.pool) \in Nat
        BY <1>1 DEF NodeType
    <2>2. PICK k \in 1..Len(r.pool) : r.pool[k] = "t"
        BY <1>13 DEF Carrying, Carries, Has
    <2>3. k \notin 1..r.taken
        BY <1>13, <2>2 DEF Carries
    <2>4. k \in r.taken + 1..Len(r.pool)
        BY <2>1, <2>3
    <2> QED BY <1>4, <2>2, <2>4
<1>14. NodeOK(n)'
    <2>0. r.pool \in Seq(Mark)
        BY <1>1 DEF NodeType
    <2>1. Len(r.pool) \in Nat /\ Len(Delivered(r)) \in Nat /\ PoolSize \in Nat
        BY <1>4, <2>0, LinkAssumption
    <2> QED BY <1>2, <1>4, <1>5, <1>7, <2>1, QuietAir DEF NodeOK
<1>15. AcksOK(n)'
    BY <1>5, <1>7, QuietAir DEF AcksOK
<1>16. OneReading(n)'
    <2>1. ~r.measured => ~Has(r.pool)
        BY <1>1 DEF Per, OneReading, Carrying
    <2> QED BY <1>1, <1>4, <1>5, <1>7, <1>9, <1>10, <1>11, <2>1 DEF Per, OneReading
<1>17. LeftBehind(n)'
    <2>1. ~Carrying(n) => ~Has(Delivered(r))
        BY <1>11 DEF Carrying
    <2> QED BY <1>1, <1>7, <1>9, <1>10, <1>12, <2>1 DEF Per, LeftBehind
<1>18. Kept(n)'
    <2>1. Carries(r) => Handed(n)
        BY <1>1, <1>2 DEF Per, AcksOK
    <2> QED BY <1>1, <1>5, <1>7, <1>9, <1>10, <1>13, <2>1 DEF Per, Kept
<1>19. Per(n)'
    BY <1>9, <1>14, <1>15, <1>16, <1>17, <1>18 DEF Per
<1>20. \A p \in Nodes \ {n} : /\ SameFrames(p) /\ node'[p] = node[p] /\ fate'[p] = fate[p]
                              /\ air'[p].frame = air[p].frame /\ air'[p].ack = air[p].ack
    BY <1>3, <1>6, RingAlone
<1> QED BY <1>8, <1>19, <1>20, OneNode

\* The node gives up on its frame and keeps what it carried: from here on the
\* collector may have a reading the node does not know to be delivered.
LEMMA GivenUp ==
    ASSUME LinkInv, NEW n \in Nodes, node[n].at = "sent", NEW q \in NodeType,
           q.at \in {"asleep", "repairing"}, q.live = "o", q.seq = node[n].seq,
           q.pool = Push(node[n].pool, node[n].live), q.measured = node[n].measured,
           NEW a \in AirType, ~a.frame, a.ack # None => a.ack.seq = Wanted(n),
           node' = [node EXCEPT ![n] = q], air' = [air EXCEPT ![n] = a],
           fate' = [fate EXCEPT ![n] = [WithShed(n, node[n]) EXCEPT
                                          !.unheard = @ \/ Carries(node[n])]],
           table' = table, ring' = ring, pending' = pending, file' = file, saving' = saving,
           web' = web
    PROVE  LinkInv'
<1> DEFINE w == WithShed(n, node[n])
           u == w.unheard \/ Carries(node[n])
           h == [w EXCEPT !.unheard = u]
<1>1. Types /\ Per(n)
    BY DEF LinkInv
<1>2. /\ w \in FateType /\ w.landed = fate[n].landed /\ w.unheard = fate[n].unheard
      /\ fate[n].why \subseteq w.why
      /\ (Shed(node[n].pool, node[n].live) => w.why # {})
    BY <1>1, ShedTold
<1>3. fate' = [fate EXCEPT ![n] = h]
    BY DEF h
<1>4. u \in BOOLEAN /\ (fate[n].unheard => u) /\ (~u => ~fate[n].unheard /\ ~Carries(node[n]))
    <2>1. w.unheard \in BOOLEAN /\ Carries(node[n]) \in BOOLEAN
        BY <1>2 DEF FateType, Carries
    <2> QED BY <1>2, <2>1, Zenon
<1> HIDE DEF w, u
<1>5. h \in FateType /\ h.landed = w.landed /\ h.why = w.why /\ h.unheard = u
    BY <1>2, <1>4, Zenon DEF FateType
<1> HIDE DEF h
<1>6. node \in [Nodes -> NodeType] /\ air \in [Nodes -> AirType] /\ fate \in [Nodes -> FateType]
    BY <1>1 DEF Types
<1>7. node'[n] = q /\ air'[n] = a /\ fate'[n] = h
    BY <1>3, <1>6
<1>8. Types'
    BY <1>1, <1>3, <1>5, <1>6 DEF Types
<1>9. RingKept(n)
    BY <1>2, <1>4, <1>5, <1>7, RingAlone DEF RingKept, ToldFurther
<1>10. Fits(n, node[n].live)
    <2>1. node[n].live = "t" => ~Has(node[n].pool)
        BY <1>1 DEF Per, OneReading
    <2>2. ~fate'[n].unheard => ~fate[n].unheard /\ ~Carries(node[n])
        BY <1>4, <1>5, <1>7
    <2>3. ~fate'[n].unheard /\ (Mine(n) # {} \/ fate[n].landed > 0) => ~Carrying(n)
        BY <1>1, <2>2 DEF Per, LeftBehind
    <2>4. ~node'[n].measured => ~Carrying(n) /\ Mine(n) = {} /\ fate[n].landed = 0
        BY <1>1, <1>7 DEF Per, OneReading
    <2>5. node'[n].measured => Carrying(n) \/ Handed(n)
        BY <1>1, <1>7 DEF Per, Kept
    <2> QED BY <2>1, <2>3, <2>4, <2>5 DEF Fits, Carrying
<1>11. Wanted(n)' = Wanted(n)
    BY <1>7 DEF Wanted
<1>12. node[n].live \in Mark
    BY <1>1, NodeTypes
<1>13. Shed(node[n].pool, node[n].live) => fate'[n].why # {}
    BY <1>2, <1>5, <1>7
<1>14. Per(n)'
    <2>1. node'[n].at \in {"asleep", "repairing"} /\ node'[n].live = "o"
          /\ node'[n].pool = Push(node[n].pool, node[n].live)
        BY <1>7
    <2>2. ~air'[n].frame /\ (air'[n].ack # None => air'[n].ack.seq = Wanted(n)')
        BY <1>7, <1>11
    <2> QED BY <1>1, <1>8, <1>9, <1>10, <1>12, <1>13, <2>1, <2>2, Buffering
<1>15. \A p \in Nodes \ {n} : /\ SameFrames(p) /\ node'[p] = node[p] /\ fate'[p] = fate[p]
                              /\ air'[p].frame = air[p].frame /\ air'[p].ack = air[p].ack
    BY <1>3, <1>6, RingAlone
<1> QED BY <1>8, <1>14, <1>15, OneNode

\* A buffered node whose failures are counted, and one that is to pair again.
LEMMA CountedNode ==
    ASSUME NEW r \in NodeType, Len(r.pool) <= PoolSize, NEW f \in Nat
    PROVE  LET b == [Buffered(r) EXCEPT !.fails = f]
               c == [b EXCEPT !.at = "repairing", !.since = 0] IN
           /\ b \in NodeType /\ b.at = "asleep" /\ b.live = "o" /\ b.seq = r.seq
           /\ b.pool = Push(r.pool, r.live) /\ b.measured = r.measured
           /\ c \in NodeType /\ c.at = "repairing" /\ c.live = "o" /\ c.seq = r.seq
           /\ c.pool = Push(r.pool, r.live) /\ c.measured = r.measured
<1> DEFINE d == Buffered(r)
           b == [d EXCEPT !.fails = f]
           c == [b EXCEPT !.at = "repairing", !.since = 0]
<1>1. /\ d \in NodeType
      /\ d.at = "asleep" /\ d.seq = r.seq /\ d.pool = Push(r.pool, r.live) /\ d.live = "o"
      /\ d.measured = r.measured
    BY BufferedNode
<1> HIDE DEF d
<1>2. /\ b \in NodeType /\ b.at = d.at /\ b.live = d.live /\ b.seq = d.seq
      /\ b.pool = d.pool /\ b.measured = d.measured
    BY <1>1, Zenon DEF NodeType
<1> HIDE DEF b
<1>3. "repairing" \in Stages /\ 0 \in Nat
    BY DEF Stages
<1>4. /\ c \in NodeType /\ c.at = "repairing" /\ c.live = b.live /\ c.seq = b.seq
      /\ c.pool = b.pool /\ c.measured = b.measured
    BY <1>2, <1>3, Zenon DEF NodeType
<1> HIDE DEF c
<1>5. /\ b \in NodeType /\ b.at = "asleep" /\ b.live = "o" /\ b.seq = r.seq
      /\ b.pool = Push(r.pool, r.live) /\ b.measured = r.measured
    BY <1>1, <1>2
<1>6. /\ c \in NodeType /\ c.at = "repairing" /\ c.live = "o" /\ c.seq = r.seq
      /\ c.pool = Push(r.pool, r.live) /\ c.measured = r.measured
    BY <1>4, <1>5
<1> QED BY <1>5, <1>6 DEF b, c, d

\* The ACK says: pair again.
LEMMA HearRediscoverStep ==
    ASSUME LinkInv, NEW n \in Nodes, HearRediscover(n)
    PROVE  LinkInv'
<1> DEFINE b == [Buffered(node[n]) EXCEPT !.fails = 0]
           c == [b EXCEPT !.at = "repairing", !.since = 0]
<1>1. node[n] \in NodeType /\ Len(node[n].pool) <= PoolSize /\ node[n].at = "sent"
    BY NodeTypes DEF LinkInv, Per, NodeOK, HearRediscover
<1>2. /\ b \in NodeType /\ b.at = "asleep" /\ b.live = "o" /\ b.seq = node[n].seq
      /\ b.pool = Push(node[n].pool, node[n].live) /\ b.measured = node[n].measured
      /\ c \in NodeType /\ c.at = "repairing" /\ c.live = "o" /\ c.seq = node[n].seq
      /\ c.pool = Push(node[n].pool, node[n].live) /\ c.measured = node[n].measured
    BY <1>1, CountedNode
<1>3. /\ node' = [node EXCEPT ![n] = IF b.since >= Spacing THEN c ELSE b]
      /\ fate' = [fate EXCEPT ![n] = [WithShed(n, node[n]) EXCEPT
                                        !.unheard = @ \/ Carries(node[n])]]
      /\ air' = [air EXCEPT ![n] = Quiet]
      /\ table' = table /\ ring' = ring /\ pending' = pending
      /\ file' = file /\ saving' = saving /\ web' = web
    BY DEF HearRediscover, colVars, tableVars, saveVars, talkVars
<1> HIDE DEF b, c
<1>4. PICK q \in {b, c} : node' = [node EXCEPT ![n] = q]
    BY <1>3
<1>5. /\ q \in NodeType /\ q.at \in {"asleep", "repairing"} /\ q.live = "o"
      /\ q.seq = node[n].seq /\ q.pool = Push(node[n].pool, node[n].live)
      /\ q.measured = node[n].measured
    BY <1>2
<1> QED BY <1>1, <1>3, <1>4, <1>5, QuietAir, GivenUp

\* No ACK in time; or one that comes too late.
LEMMA AckTimeoutStep ==
    ASSUME LinkInv, NEW n \in Nodes, AckTimeout(n)
    PROVE  LinkInv'
<1> DEFINE f == Min({node[n].fails + 1, RescanFails})
           b == [Buffered(node[n]) EXCEPT !.fails = f]
           c == [b EXCEPT !.at = "repairing", !.since = 0]
           a == [Quiet EXCEPT !.ack = air[n].ack]
<1>1. node[n] \in NodeType /\ Len(node[n].pool) <= PoolSize /\ node[n].at = "sent" /\ Types
    BY NodeTypes DEF LinkInv, Per, NodeOK, AckTimeout
<1>2. f \in Nat
    <2>0. node[n].fails \in Nat
        BY <1>1 DEF NodeType
    <2>1. node[n].fails + 1 \in Nat /\ RescanFails \in Nat
        BY <2>0, LinkAssumption
    <2> QED BY <2>1, MinOfTwo
<1>4. Buffered(node[n]).fails = node[n].fails
    BY <1>1, Zenon DEF Buffered, NodeType
<1>5. /\ node' = [node EXCEPT ![n] = IF Due(b) THEN c ELSE b]
      /\ fate' = [fate EXCEPT ![n] = [WithShed(n, node[n]) EXCEPT
                                        !.unheard = @ \/ Carries(node[n])]]
      /\ table' = table /\ ring' = ring /\ pending' = pending
      /\ file' = file /\ saving' = saving /\ web' = web
    <2>1. [Buffered(node[n]) EXCEPT !.fails = Min({@ + 1, RescanFails})] = b
        BY <1>4, Zenon
    <2> QED BY <2>1 DEF AckTimeout, colVars, tableVars, saveVars, talkVars
<1> HIDE DEF f
<1>6. /\ b \in NodeType /\ b.at = "asleep" /\ b.live = "o" /\ b.seq = node[n].seq
      /\ b.pool = Push(node[n].pool, node[n].live) /\ b.measured = node[n].measured
      /\ c \in NodeType /\ c.at = "repairing" /\ c.live = "o" /\ c.seq = node[n].seq
      /\ c.pool = Push(node[n].pool, node[n].live) /\ c.measured = node[n].measured
    BY <1>1, <1>2, CountedNode
<1> HIDE DEF b, c
<1>7. PICK q \in {b, c} : node' = [node EXCEPT ![n] = q]
    BY <1>5
<1>8. /\ q \in NodeType /\ q.at \in {"asleep", "repairing"} /\ q.live = "o"
      /\ q.seq = node[n].seq /\ q.pool = Push(node[n].pool, node[n].live)
      /\ q.measured = node[n].measured
    BY <1>6
<1>9. \/ air' = [air EXCEPT ![n] = Quiet]
      \/ AckIsOurs(n) /\ air' = [air EXCEPT ![n] = a]
    BY DEF AckTimeout
<1>10. a \in AirType /\ ~a.frame /\ a.ack = air[n].ack
    <2>1. air[n].ack \in {None} \cup AckType
        BY <1>1, NodeTypes
    <2>2. a \in AirType /\ a.frame = Quiet.frame /\ a.ack = air[n].ack
        BY <2>1, QuietAir, Zenon DEF AirType
    <2> QED BY <2>2, QuietAir
<1> HIDE DEF a
<1>11. CASE air' = [air EXCEPT ![n] = Quiet]
    BY <1>1, <1>5, <1>7, <1>8, <1>11, QuietAir, GivenUp
<1>12. CASE AckIsOurs(n) /\ air' = [air EXCEPT ![n] = a]
    <2>1. a.ack # None => a.ack.seq = Wanted(n)
        BY <1>10, <1>12 DEF AckIsOurs
    <2> QED BY <1>1, <1>5, <1>7, <1>8, <1>10, <1>12, <2>1, GivenUp
<1> QED BY <1>9, <1>11, <1>12

\* A step that leaves the reading where it is at the node.
LEMMA NothingTaken ==
    ASSUME Types, Types', NEW n \in Nodes, Per(n), RingKept(n), NodeOK(n)', AcksOK(n)',
           node'[n].pool = node[n].pool, node'[n].live = node[n].live,
           node'[n].measured = node[n].measured,
           node[n].at = "sent" => node'[n] = node[n] /\ air'[n].frame = air[n].frame
    PROVE  Per(n)'
<1>1. /\ Mine(n)' = Mine(n) /\ (Handed(n) => Handed(n)') /\ Twin(n)' /\ Once(n)'
    BY RingStays DEF Per
<1>2. fate'[n].landed = fate[n].landed /\ (~fate'[n].unheard => ~fate[n].unheard)
    BY DEF RingKept, ToldFurther
<1>3. Carrying(n)' <=> Carrying(n)
    BY DEF Carrying
<1>4. OneReading(n)'
    BY <1>1, <1>2, <1>3 DEF Per, OneReading
<1>5. LeftBehind(n)'
    <2>1. CASE node[n].at = "sent"
        BY <1>1, <1>2, <1>3, <2>1 DEF Per, LeftBehind, Carries
    <2>2. CASE node[n].at # "sent"
        BY <1>1, <1>2, <1>3, <2>2 DEF Per, LeftBehind
    <2> QED BY <2>1, <2>2
<1>6. Kept(n)'
    BY <1>1, <1>3 DEF Per, Kept
<1> QED BY <1>1, <1>4, <1>5, <1>6 DEF Per

\* While no frame of it is waited for, the reading the node holds fits.
LEMMA AwayFits ==
    ASSUME Types, NEW n \in Nodes, Per(n), node[n].at # "sent",
           node'[n].measured = node[n].measured, fate'[n].unheard = fate[n].unheard
    PROVE  Fits(n, node[n].live)
<1>1. node[n].live = "t" => ~Has(node[n].pool)
    BY DEF Per, OneReading
<1>2. ~fate'[n].unheard => ~fate[n].unheard
    OBVIOUS
<1>3. ~fate'[n].unheard /\ (Mine(n) # {} \/ fate[n].landed > 0) => ~Carrying(n)
    BY <1>2 DEF Per, LeftBehind
<1>4. ~node'[n].measured => ~Carrying(n) /\ Mine(n) = {} /\ fate[n].landed = 0
    BY DEF Per, OneReading
<1>5. node'[n].measured => Carrying(n) \/ Handed(n)
    BY DEF Per, Kept
<1> QED BY <1>1, <1>3, <1>4, <1>5 DEF Fits, Carrying

\* An ACK of an earlier wake.
LEMMA IgnoreAckStep ==
    ASSUME LinkInv, NEW n \in Nodes, IgnoreAck(n)
    PROVE  LinkInv'
<1> DEFINE a == [air[n] EXCEPT !.ack = None]
<1>1. Types /\ Per(n) /\ air \in [Nodes -> AirType]
    BY DEF LinkInv, Types
<1>2. /\ table' = table /\ ring' = ring /\ pending' = pending /\ node' = node
      /\ file' = file /\ saving' = saving /\ web' = web /\ fate' = fate
      /\ air' = [air EXCEPT ![n].ack = None]
    BY DEF IgnoreAck, colVars, tableVars, saveVars, talkVars
<1>3. a \in AirType /\ a.frame = air[n].frame /\ a.ack = None /\ air' = [air EXCEPT ![n] = a]
    BY <1>1, <1>2, Zenon DEF AirType
<1> HIDE DEF a
<1>4. air'[n] = a /\ \A p \in Nodes \ {n} : air'[p] = air[p]
    BY <1>1, <1>3
<1>5. Types'
    BY <1>1, <1>2, <1>3 DEF Types
<1>6. RingKept(n)
    BY <1>2, RingAlone DEF RingKept, ToldFurther
<1>7. NodeOK(n)'
    BY <1>1, <1>2, <1>3, <1>4 DEF Per, NodeOK
<1>8. AcksOK(n)'
    BY <1>3, <1>4 DEF AcksOK, AckIsOurs
<1>9. Per(n)'
    BY <1>1, <1>2, <1>3, <1>4, <1>5, <1>6, <1>7, <1>8, NothingTaken
<1>10. \A p \in Nodes \ {n} : /\ SameFrames(p) /\ node'[p] = node[p] /\ fate'[p] = fate[p]
                              /\ air'[p].frame = air[p].frame /\ air'[p].ack = air[p].ack
    BY <1>2, <1>4, RingAlone
<1> QED BY <1>5, <1>9, <1>10, OneNode

\* A node between its frames changes its stage, its channel, its id.
LEMMA AwayStep ==
    ASSUME LinkInv, NEW n \in Nodes, NEW q \in NodeType, NEW a \in AirType,
           node[n].at # "sent", q.at \in {"asleep", "repairing"}, node[n].live = "o",
           q.pool = node[n].pool, q.live = node[n].live, q.measured = node[n].measured,
           q.seq = node[n].seq, ~a.frame, a.ack \in {None, air[n].ack},
           node' = [node EXCEPT ![n] = q], air' = [air EXCEPT ![n] = a], fate' = fate,
           table' = table, ring' = ring, pending' = pending, file' = file, saving' = saving,
           web' = web
    PROVE  LinkInv'
<1>1. Types /\ Per(n)
    BY DEF LinkInv
<1>2. node \in [Nodes -> NodeType] /\ air \in [Nodes -> AirType]
    BY <1>1 DEF Types
<1>3. node'[n] = q /\ air'[n] = a
    BY <1>2
<1>4. Types'
    BY <1>1, <1>2 DEF Types
<1>5. RingKept(n)
    BY RingAlone DEF RingKept, ToldFurther
<1>6. NodeOK(n)'
    BY <1>1, <1>3 DEF Per, NodeOK
<1>7. AcksOK(n)'
    BY <1>1, <1>3 DEF Per, AcksOK, Wanted
<1>8. Per(n)'
    BY <1>1, <1>3, <1>4, <1>5, <1>6, <1>7, NothingTaken
<1>9. \A p \in Nodes \ {n} : /\ SameFrames(p) /\ node'[p] = node[p] /\ fate'[p] = fate[p]
                             /\ air'[p].frame = air[p].frame /\ air'[p].ack = air[p].ack
    BY <1>2, RingAlone
<1> QED BY <1>4, <1>8, <1>9, OneNode

\* The rescan moves a node to another channel; the router moves away from it.
LEMMA ChannelSteps ==
    ASSUME LinkInv, NEW n \in Nodes, ScanFindsChannel(n) \/ ChannelMoves(n)
    PROVE  LinkInv'
<1> DEFINE q == [node[n] EXCEPT !.at = "asleep", !.astray = FALSE]
           s == [node[n] EXCEPT !.astray = TRUE]
<1>1. Types /\ Per(n) /\ node[n] \in NodeType /\ air[n] \in AirType
    BY NodeTypes DEF LinkInv
<1>2. node \in [Nodes -> NodeType] /\ air \in [Nodes -> AirType]
    BY <1>1 DEF Types
<1>3. /\ table' = table /\ ring' = ring /\ pending' = pending /\ air' = air
      /\ file' = file /\ saving' = saving /\ web' = web /\ fate' = fate
    BY DEF ScanFindsChannel, ChannelMoves, colVars, tableVars, saveVars, talkVars
<1>4. air' = [air EXCEPT ![n] = air[n]]
    BY <1>2, <1>3
<1>5. node[n].at \in {"asleep", "repairing"} /\ node[n].live = "o" /\ ~air[n].frame
    BY <1>1 DEF ScanFindsChannel, ChannelMoves, Per, NodeOK
<1>6. "asleep" \in Stages
    BY DEF Stages
<1>7. /\ q \in NodeType /\ q.at = "asleep" /\ q.pool = node[n].pool /\ q.live = node[n].live
      /\ q.measured = node[n].measured /\ q.seq = node[n].seq
    BY <1>1, <1>6, Zenon DEF NodeType
<1>8. /\ s \in NodeType /\ s.at = node[n].at /\ s.pool = node[n].pool /\ s.live = node[n].live
      /\ s.measured = node[n].measured /\ s.seq = node[n].seq
    BY <1>1, Zenon DEF NodeType
<1>9. CASE ScanFindsChannel(n)
    <2>1. node' = [node EXCEPT ![n] = q]
        BY <1>9, Zenon DEF ScanFindsChannel
    <2> HIDE DEF q
    <2> QED BY <1>1, <1>3, <1>4, <1>5, <1>7, <2>1, AwayStep
<1>10. CASE ChannelMoves(n)
    <2>1. node' = [node EXCEPT ![n] = s]
        BY <1>10, Zenon DEF ChannelMoves
    <2> HIDE DEF s
    <2> QED BY <1>1, <1>3, <1>4, <1>5, <1>8, <2>1, AwayStep
<1> QED BY <1>9, <1>10

\* A DISCOVER only fills the mailbox.
LEMMA ParkDiscoverStep ==
    ASSUME LinkInv, NEW n \in Nodes, ParkDiscover(n)
    PROVE  LinkInv'
<1>1. Types /\ Per(n)
    BY DEF LinkInv
<1>2. /\ table' = table /\ ring' = ring /\ pending' = n /\ node' = node /\ air' = air
      /\ file' = file /\ saving' = saving /\ web' = web /\ fate' = fate
    BY DEF ParkDiscover, tableVars, saveVars
<1>3. Types'
    BY <1>1, <1>2 DEF Types
<1>4. \A p \in Nodes : /\ SameFrames(p) /\ node'[p] = node[p] /\ fate'[p] = fate[p]
                       /\ air'[p].frame = air[p].frame /\ air'[p].ack = air[p].ack
    BY <1>2, RingAlone
<1>5. Per(n)'
    BY <1>1, <1>4, Bystander
<1> QED BY <1>3, <1>4, <1>5, OneNode

\* A WELCOME: the node that had no collector sends its reading, the other sleeps.
LEMMA HearWelcomeStep ==
    ASSUME LinkInv, NEW n \in Nodes, HearWelcome(n)
    PROVE  LinkInv'
<1> DEFINE r == [node[n] EXCEPT !.id = air[n].welcome, !.fails = 0, !.astray = FALSE]
           s == [r EXCEPT !.at = "asleep"]
           a == [Quiet EXCEPT !.frame = TRUE]
<1>1. Types /\ Per(n) /\ node[n] \in NodeType
    BY NodeTypes DEF LinkInv
<1>2. node \in [Nodes -> NodeType] /\ air \in [Nodes -> AirType] /\ fate \in [Nodes -> FateType]
    BY <1>1 DEF Types
<1>3. /\ table' = table /\ ring' = ring /\ pending' = pending
      /\ file' = file /\ saving' = saving /\ web' = web /\ fate' = fate
    BY DEF HearWelcome, colVars, tableVars, saveVars, talkVars
<1>4. /\ r \in NodeType /\ r.id = air[n].welcome /\ r.at = node[n].at /\ r.pool = node[n].pool
      /\ r.live = node[n].live /\ r.measured = node[n].measured /\ r.seq = node[n].seq
    <2>1. air[n].welcome \in Ids \cup {0} /\ 0 \in Nat
        BY <1>1, NodeTypes
    <2> QED BY <1>1, <2>1, Zenon DEF NodeType
<1>5. \/ /\ node[n].at = "pairing" /\ air[n].welcome # 0
         /\ node' = [node EXCEPT ![n] = Sent(r)] /\ air' = [air EXCEPT ![n] = a]
      \/ /\ node[n].at = "repairing"
         /\ node' = [node EXCEPT ![n] = s] /\ air' = [air EXCEPT ![n] = Quiet]
    BY DEF HearWelcome
<1> HIDE DEF r
<1>6. a \in AirType /\ a.ack = None
    BY QuietAir, Zenon DEF AirType
<1> HIDE DEF a
<1>7. CASE /\ node[n].at = "pairing" /\ air[n].welcome # 0
           /\ node' = [node EXCEPT ![n] = Sent(r)] /\ air' = [air EXCEPT ![n] = a]
    <2>1. Sent(r) \in NodeType /\ Sent(r).measured = r.measured
        BY <1>4, SentNode
    <2>2. node'[n] = Sent(r) /\ air'[n] = a
        BY <1>2, <1>7
    <2>3. Types'
        BY <1>1, <1>2, <1>3, <1>6, <1>7, <2>1 DEF Types
    <2>4. RingKept(n)
        BY <1>3, RingAlone DEF RingKept, ToldFurther
    <2>5. Fits(n, node[n].live)
        BY <1>1, <1>3, <1>4, <1>7, <2>1, <2>2, AwayFits
    <2>6. Per(n)'
        BY <1>1, <1>4, <1>6, <1>7, <2>2, <2>3, <2>4, <2>5, Sending
    <2>7. \A p \in Nodes \ {n} : /\ SameFrames(p) /\ node'[p] = node[p] /\ fate'[p] = fate[p]
                                 /\ air'[p].frame = air[p].frame /\ air'[p].ack = air[p].ack
        BY <1>2, <1>3, <1>7, RingAlone
    <2> QED BY <2>3, <2>6, <2>7, OneNode
<1>8. CASE /\ node[n].at = "repairing"
           /\ node' = [node EXCEPT ![n] = s] /\ air' = [air EXCEPT ![n] = Quiet]
    <2>1. /\ s \in NodeType /\ s.at = "asleep" /\ s.pool = r.pool /\ s.live = r.live
          /\ s.measured = r.measured /\ s.seq = r.seq
        <3>1. "asleep" \in Stages
            BY DEF Stages
        <3> QED BY <1>4, <3>1, Zenon DEF NodeType
    <2> HIDE DEF s
    <2>2. node[n].live = "o"
        BY <1>1, <1>8 DEF Per, NodeOK
    <2> QED BY <1>3, <1>4, <1>8, <2>1, <2>2, QuietAir, AwayStep DEF s
<1> QED BY <1>5, <1>7, <1>8

\* Nobody answered.
LEMMA SweepFailsStep ==
    ASSUME LinkInv, NEW n \in Nodes, SweepFails(n)
    PROVE  LinkInv'
<1> DEFINE b == Buffered(node[n])
           w == WithShed(n, node[n])
           s == [node[n] EXCEPT !.at = "asleep"]
<1>1. Types /\ Per(n) /\ node[n] \in NodeType /\ Len(node[n].pool) <= PoolSize
    BY NodeTypes DEF LinkInv, Per, NodeOK
<1>2. node \in [Nodes -> NodeType] /\ air \in [Nodes -> AirType] /\ fate \in [Nodes -> FateType]
    BY <1>1 DEF Types
<1>3. /\ table' = table /\ ring' = ring /\ pending' = pending
      /\ file' = file /\ saving' = saving /\ web' = web /\ air' = [air EXCEPT ![n] = Quiet]
    BY DEF SweepFails, colVars, tableVars, saveVars, talkVars
<1>4. \/ /\ node[n].at = "pairing"
         /\ node' = [node EXCEPT ![n] = b] /\ fate' = [fate EXCEPT ![n] = w]
      \/ /\ node[n].at = "repairing"
         /\ node' = [node EXCEPT ![n].at = "asleep"] /\ fate' = fate
    BY DEF SweepFails
<1>5. CASE /\ node[n].at = "pairing"
           /\ node' = [node EXCEPT ![n] = b] /\ fate' = [fate EXCEPT ![n] = w]
    <2>1. /\ b \in NodeType /\ b.at = "asleep" /\ b.seq = node[n].seq
          /\ b.pool = Push(node[n].pool, node[n].live) /\ b.live = "o"
          /\ b.measured = node[n].measured
        BY <1>1, BufferedNode
    <2>2. /\ w \in FateType /\ w.landed = fate[n].landed /\ w.unheard = fate[n].unheard
          /\ fate[n].why \subseteq w.why
          /\ (Shed(node[n].pool, node[n].live) => w.why # {})
        BY <1>1, ShedTold
    <2> HIDE DEF b, w
    <2>3. node'[n] = b /\ fate'[n] = w /\ air'[n] = Quiet
        BY <1>2, <1>3, <1>5
    <2>4. Types'
        BY <1>1, <1>2, <1>3, <1>5, <2>1, <2>2, QuietAir DEF Types
    <2>5. RingKept(n)
        BY <1>3, <2>2, <2>3, RingAlone DEF RingKept, ToldFurther
    <2>6. Fits(n, node[n].live)
        BY <1>1, <1>5, <2>1, <2>2, <2>3, AwayFits
    <2>7. node[n].live \in Mark
        BY <1>1, NodeTypes
    <2>8. Per(n)'
        BY <1>1, <2>1, <2>2, <2>3, <2>4, <2>5, <2>6, <2>7, QuietAir, Buffering
    <2>9. \A p \in Nodes \ {n} : /\ SameFrames(p) /\ node'[p] = node[p] /\ fate'[p] = fate[p]
                                 /\ air'[p].frame = air[p].frame /\ air'[p].ack = air[p].ack
        BY <1>2, <1>3, <1>5, RingAlone
    <2> QED BY <2>4, <2>8, <2>9, OneNode
<1>6. CASE /\ node[n].at = "repairing"
           /\ node' = [node EXCEPT ![n].at = "asleep"] /\ fate' = fate
    <2>1. "asleep" \in Stages
        BY DEF Stages
    <2>2. /\ s \in NodeType /\ s.at = "asleep" /\ s.pool = node[n].pool /\ s.live = node[n].live
          /\ s.measured = node[n].measured /\ s.seq = node[n].seq
        BY <1>1, <2>1, Zenon DEF NodeType
    <2>3. node' = [node EXCEPT ![n] = s]
        BY <1>6, Zenon
    <2> HIDE DEF s
    <2>4. node[n].live = "o"
        BY <1>1, <1>6 DEF Per, NodeOK
    <2> QED BY <1>3, <1>6, <2>2, <2>3, <2>4, QuietAir, AwayStep DEF s
<1> QED BY <1>4, <1>5, <1>6

\* A frame that is marked: as old, or as late.
LEMMA MarkedFrame ==
    ASSUME NEW f \in Frame
    PROVE  /\ [f EXCEPT !.old = TRUE] \in Frame
           /\ LET g == [f EXCEPT !.old = TRUE] IN
                /\ g.mac = f.mac /\ g.t = f.t /\ g.id = f.id /\ g.seq = f.seq
                /\ g.copy = f.copy /\ g.late = f.late
           /\ [f EXCEPT !.late = TRUE] \in Frame
           /\ LET g == [f EXCEPT !.late = TRUE] IN
                /\ g.mac = f.mac /\ g.t = f.t /\ g.id = f.id /\ g.seq = f.seq
                /\ g.copy = f.copy /\ g.late
BY Zenon DEF Frame

\* Frames rewritten in their places are a ring again.
LEMMA Rewritten ==
    ASSUME NEW r \in Seq(Frame), NEW q, DOMAIN q = DOMAIN r, q = [k \in DOMAIN r |-> q[k]],
           \A k \in 1..Len(r) : q[k] \in Frame
    PROVE  q \in Seq(Frame) /\ Len(q) = Len(r)
<1>1. DOMAIN r = 1..Len(r) /\ Len(r) \in Nat
    OBVIOUS
<1>2. q \in [1..Len(r) -> Frame]
    BY <1>1
<1>3. q \in Seq(Frame)
    BY <1>1, <1>2 DEF Seq
<1>4. DOMAIN q = 1..Len(q) /\ Len(q) \in Nat
    BY <1>3
<1> QED BY <1>1, <1>3, <1>4

\* A node starts over: its frames in the ring are of its earlier life.
LEMMA ColdStartStep ==
    ASSUME LinkInv, NEW n \in Nodes, ColdStart(n)
    PROVE  LinkInv'
<1> DEFINE q == [node[n] EXCEPT !.at = "asleep", !.seq = 0, !.first = TRUE, !.pool = <<>>,
                                !.live = "o", !.taken = 0, !.fails = 0, !.since = Spacing]
           gone == node[n].live = "t" \/ "t" \in ToSet(node[n].pool)
           why == IF gone THEN fate[n].why \cup {"cold start"} ELSE fate[n].why
           h == [fate[n] EXCEPT !.why = why]
<1>1. Types /\ Per(n) /\ node[n] \in NodeType /\ fate[n] \in FateType /\ ring \in Seq(Frame)
    BY NodeTypes DEF LinkInv, Types
<1>2. node \in [Nodes -> NodeType] /\ air \in [Nodes -> AirType] /\ fate \in [Nodes -> FateType]
    BY <1>1 DEF Types
<1>3. /\ table' = table /\ pending' = pending /\ file' = file /\ saving' = saving /\ web' = web
      /\ air' = [air EXCEPT ![n] = Quiet]
      /\ ring' = [k \in DOMAIN ring |-> IF ring[k].mac = n THEN [ring[k] EXCEPT !.old = TRUE]
                                                           ELSE ring[k]]
    BY DEF ColdStart, tableVars, saveVars
<1>4. node' = [node EXCEPT ![n] = q]
    BY DEF ColdStart
<1>5. fate' = [fate EXCEPT ![n] = h]
    BY <1>2, Zenon DEF ColdStart
<1>6. /\ q \in NodeType /\ q.at = "asleep" /\ q.seq = 0 /\ q.pool = <<>> /\ q.live = "o"
      /\ q.measured = node[n].measured
    <2>1. "asleep" \in Stages /\ "o" \in Mark /\ Spacing \in Nat /\ <<>> \in Seq(Mark) /\ 0 \in Nat
        BY LinkAssumption DEF Stages, Mark
    <2>2. 0 \in 0..Wrap - 1
        BY <1>1, Around, NodeTypes
    <2> QED BY <1>1, <2>1, <2>2, Zenon DEF NodeType
<1>7. why \in SUBSET Reasons /\ fate[n].why \subseteq why /\ (Carrying(n) => why # {})
    <2>1. Carrying(n) => gone
        BY <1>1, Places DEF AtNode
    <2> QED BY <1>1, <2>1 DEF FateType, Reasons
<1> HIDE DEF q, why
<1>8. h \in FateType /\ h.landed = fate[n].landed /\ h.unheard = fate[n].unheard /\ h.why = why
    BY <1>1, <1>7, Zenon DEF FateType
<1> HIDE DEF h
<1>9. node'[n] = q /\ air'[n] = Quiet /\ fate'[n] = h
    BY <1>2, <1>3, <1>4, <1>5
<1>10. \A k \in 1..Len(ring) :
         /\ ring'[k] \in Frame /\ ring'[k].mac = ring[k].mac /\ ring'[k].t = ring[k].t
         /\ ring'[k].id = ring[k].id /\ ring'[k].seq = ring[k].seq
         /\ ring'[k].copy = ring[k].copy /\ ring'[k].late = ring[k].late
    <2> SUFFICES ASSUME NEW k \in 1..Len(ring)
                 PROVE  /\ ring'[k] \in Frame /\ ring'[k].mac = ring[k].mac /\ ring'[k].t = ring[k].t
                        /\ ring'[k].id = ring[k].id /\ ring'[k].seq = ring[k].seq
                        /\ ring'[k].copy = ring[k].copy /\ ring'[k].late = ring[k].late
        OBVIOUS
    <2>1. ring[k] \in Frame /\ k \in DOMAIN ring
        BY <1>1
    <2>2. ring'[k] = ring[k] \/ ring'[k] = [ring[k] EXCEPT !.old = TRUE]
        BY <1>3, <2>1
    <2>3. CASE ring'[k] = ring[k]
        BY <2>1, <2>3
    <2>4. CASE ring'[k] = [ring[k] EXCEPT !.old = TRUE]
        <3>1. ring'[k] \in Frame
            BY <2>1, <2>4, MarkedFrame
        <3>2. /\ ring'[k].mac = ring[k].mac /\ ring'[k].t = ring[k].t /\ ring'[k].id = ring[k].id
              /\ ring'[k].seq = ring[k].seq /\ ring'[k].copy = ring[k].copy /\ ring'[k].late = ring[k].late
            BY <2>1, <2>4, MarkedFrame
        <3> QED BY <3>1, <3>2
    <2> QED BY <2>2, <2>3, <2>4
<1>11. ring' \in Seq(Frame) /\ Len(ring') = Len(ring)
    <2>1. DOMAIN ring' = DOMAIN ring /\ ring' = [k \in DOMAIN ring |-> ring'[k]]
        BY <1>3
    <2> QED BY <1>1, <1>10, <2>1, Rewritten
<1>12. \A p \in Nodes : SameFrames(p)
    BY <1>3, <1>10, <1>11 DEF SameFrames, Guarded, Mine
<1>13. Types'
    BY <1>1, <1>2, <1>3, <1>4, <1>5, <1>6, <1>8, <1>11, QuietAir DEF Types
<1>14. RingKept(n)
    BY <1>7, <1>8, <1>9, <1>12 DEF RingKept, ToldFurther
<1>15. /\ Mine(n)' = Mine(n) /\ (Handed(n) => Handed(n)') /\ Twin(n)' /\ Once(n)'
    BY <1>1, <1>14, RingStays DEF Per
<1>16. ~Carrying(n)' /\ Single(node'[n].pool)
    BY <1>6, <1>9 DEF Carrying, Has, Single
<1>17. NodeOK(n)'
    <2>1. Len(<<>>) = 0 /\ PoolSize \in Nat
        BY LinkAssumption
    <2> QED BY <1>6, <1>9, <2>1, QuietAir DEF NodeOK
<1>18. AcksOK(n)'
    BY <1>6, <1>9, QuietAir DEF AcksOK
<1>19. OneReading(n)'
    BY <1>1, <1>6, <1>8, <1>9, <1>15, <1>16 DEF Per, OneReading
<1>20. LeftBehind(n)'
    BY <1>16 DEF LeftBehind
<1>21. Kept(n)'
    <2>1. Carrying(n) => Handed(n)'
        BY <1>7, <1>8, <1>9 DEF Handed
    <2> QED BY <1>1, <1>6, <1>9, <1>15, <2>1 DEF Per, Kept
<1>22. Per(n)'
    BY <1>15, <1>17, <1>18, <1>19, <1>20, <1>21 DEF Per
<1>23. \A p \in Nodes \ {n} : /\ SameFrames(p) /\ node'[p] = node[p] /\ fate'[p] = fate[p]
                              /\ air'[p].frame = air[p].frame /\ air'[p].ack = air[p].ack
    BY <1>2, <1>3, <1>4, <1>5, <1>12
<1> QED BY <1>13, <1>22, <1>23, OneNode

\* Frames appended to the ring leave the earlier ones in their places.
LEMMA AppendedRing ==
    ASSUME NEW f \in Frame, NEW g \in Frame, NEW m \in 1..2, ring \in Seq(Frame),
           ring' = SubSeq(ring \o <<f, g>>, 1, Len(ring) + m)
    PROVE  /\ ring' \in Seq(Frame) /\ Len(ring') = Len(ring) + m
           /\ \A k \in 1..Len(ring) : ring'[k] = ring[k]
           /\ ring'[Len(ring) + 1] = f
           /\ m = 2 => ring'[Len(ring) + 2] = g
<1> DEFINE s == ring \o <<f, g>>
           last == Len(ring) + m
<1>1. s \in Seq(Frame) /\ Len(s) = Len(ring) + 2 /\ Len(ring) \in Nat
      /\ \A k \in 1..Len(ring) : s[k] = ring[k]
    OBVIOUS
<1>2. s[Len(ring) + 1] = f /\ s[Len(ring) + 2] = g
    BY <1>1
<1> HIDE DEF s
<1>3. /\ ring' \in Seq(Frame) /\ Len(ring') = (IF 1 <= last THEN last - 1 + 1 ELSE 0)
      /\ \A k \in 1..last - 1 + 1 : ring'[k] = s[1 + k - 1]
    <2>1. \A k \in 1..last : s[k] \in Frame
        BY <1>1
    <2>2. 1 \in Int /\ last \in Int
        BY <1>1
    <2>3. ring' = SubSeq(s, 1, last)
        BY DEF s
    <2> HIDE DEF last
    <2>4. /\ SubSeq(s, 1, last) \in Seq(Frame)
          /\ Len(SubSeq(s, 1, last)) = (IF 1 <= last THEN last - 1 + 1 ELSE 0)
          /\ \A k \in 1..last - 1 + 1 : SubSeq(s, 1, last)[k] = s[1 + k - 1]
        BY <2>1, <2>2, SubSeqProperties
    <2> QED BY <2>3, <2>4, Zenon
<1>4. Len(ring') = last /\ \A k \in 1..last : ring'[k] = s[k]
    BY <1>1, <1>3
<1> QED BY <1>1, <1>2, <1>3, <1>4

\* The collector takes a node's frame, once or twice, and answers.
LEMMA ReceiveStep ==
    ASSUME LinkInv, NEW n \in Nodes, Receive(n)
    PROVE  LinkInv'
<1> DEFINE f == TheFrame(n)
           g == [f EXCEPT !.copy = TRUE]
           a == [air[n] EXCEPT !.frame = FALSE,
                               !.ack = [seq |-> Wanted(n), rediscover |-> table[node[n].id] = None]]
           end == Len(ring)
<1>1. Types /\ Per(n) /\ node[n] \in NodeType /\ air[n] \in AirType /\ ring \in Seq(Frame)
      /\ end \in Nat
    BY NodeTypes DEF LinkInv, Types
<1>2. air[n].frame /\ node[n].at = "sent" /\ node[n].id \in Ids
    BY <1>1, NodeTypes DEF Receive, Per, NodeOK
<1>3. /\ table' = table /\ pending' = pending /\ file' = file /\ saving' = saving /\ web' = web
      /\ node' = node /\ fate' = fate
      /\ \E m \in 1..2 : ring' = SubSeq(ring \o <<f, g>>, 1, Len(ring) + m)
    BY DEF Receive, tableVars, saveVars
<1>4. air' = [air EXCEPT ![n] = a]
    BY <1>1, Zenon DEF Receive, Types
<1>5. Wanted(n) \in 0..Wrap - 1
    BY <1>1, NodeTypes, Around DEF Wanted
<1>6. a \in AirType /\ ~a.frame
    <2> DEFINE k == [seq |-> Wanted(n), rediscover |-> table[node[n].id] = None]
    <2>1. k \in AckType
        BY <1>5 DEF AckType
    <2> HIDE DEF k
    <2>2. a = [air[n] EXCEPT !.frame = FALSE, !.ack = k]
        BY DEF k
    <2> HIDE DEF a
    <2>3. a \in AirType /\ a.frame = FALSE
        BY <1>1, <2>1, <2>2, Zenon DEF AirType
    <2> QED BY <2>3
<1> HIDE DEF a
<1>7. f \in Frame /\ f.mac = n /\ f.t = Carries(node[n])
    BY <1>1, <1>2, <1>5 DEF TheFrame, Frame, NodeType, Carries
<1>8. /\ g \in Frame /\ g.mac = f.mac /\ g.t = f.t /\ g.id = f.id /\ g.seq = f.seq
      /\ g.late = f.late /\ g.copy
    BY <1>7, Zenon DEF Frame
<1> HIDE DEF f, g
<1>9. PICK m \in 1..2 : ring' = SubSeq(ring \o <<f, g>>, 1, Len(ring) + m)
    BY <1>3
<1>10. /\ ring' \in Seq(Frame) /\ Len(ring') = end + m
       /\ \A k \in 1..end : ring'[k] = ring[k]
       /\ ring'[end + 1] = f
       /\ m = 2 => ring'[end + 2] = g
    BY <1>1, <1>7, <1>8, <1>9, AppendedRing
<1> HIDE DEF end
<1>11. 1..Len(ring') = (1..end) \cup (end + 1..end + m)
    BY <1>1, <1>10
<1>12. \A k \in end + 1..end + m : ring'[k].mac = n /\ ring'[k].t = f.t
    <2>1. \A k \in end + 1..end + m : k = end + 1 \/ (m = 2 /\ k = end + 2)
        BY <1>1
    <2> QED BY <1>7, <1>8, <1>10, <2>1
<1>13. ASSUME NEW p \in Nodes, p # n \/ ~f.t PROVE Mine(p)' = Mine(p)
    <2>1. Mine(p)' = {k \in 1..Len(ring') : ring'[k].mac = p /\ ring'[k].t}
          /\ Mine(p) = {k \in 1..end : ring[k].mac = p /\ ring[k].t}
        BY DEF Mine, end
    <2>2. \A k \in end + 1..end + m : ~(ring'[k].mac = p /\ ring'[k].t)
        BY <1>12, <1>13
    <2> QED BY <1>10, <1>11, <2>1, <2>2
<1>14. ASSUME NEW p \in Nodes, p # n \/ ~f.t
       PROVE  Mine(p)' = Mine(p) /\ (Handed(p) => Handed(p)') /\ Twin(p)' /\ Once(p)'
    <2>1. Mine(p)' = Mine(p)
        BY <1>13, <1>14
    <2>2. Mine(p) \subseteq 1..end
        BY DEF Mine, end
    <2>3. Twin(p)'
        <3>0. fate' = fate
            BY <1>3
        <3>1. Twin(p)
            BY DEF LinkInv, Per
        <3>2. \A k \in Mine(p) : Guarded(ring[k])' <=> Guarded(ring[k])
            BY <1>3, <1>10, <2>2 DEF Guarded
        <3>3. \A k \in Mine(p) : ring'[k] = ring[k]
            BY <1>10, <2>2
        <3>4. ASSUME ~fate'[p].unheard, NEW k \in Mine(p)'
              PROVE  /\ \A j \in Mine(p)' : j > k =>
                          /\ j = k + 1 /\ ring'[j].copy /\ ring'[j].id = ring'[k].id
                          /\ ring'[j].seq = ring'[k].seq /\ (ring'[k].late => ring'[j].late)
                     /\ fate'[p].landed > 0 => k = 1 /\ ring'[k].copy /\ Guarded(ring[k])'
            <4>1. k \in Mine(p) /\ ~fate[p].unheard
                BY <2>1, <3>0, <3>4
            <4>2. /\ \A j \in Mine(p) : j > k =>
                       /\ j = k + 1 /\ ring[j].copy /\ ring[j].id = ring[k].id
                       /\ ring[j].seq = ring[k].seq /\ (ring[k].late => ring[j].late)
                  /\ fate[p].landed > 0 => k = 1 /\ ring[k].copy /\ Guarded(ring[k])
                BY <3>1, <4>1 DEF Twin
            <4> QED BY <2>1, <3>0, <3>2, <3>3, <4>1, <4>2
        <3> QED BY <3>4 DEF Twin
    <2>4. Handed(p) => Handed(p)'
        BY <1>3, <2>1 DEF Handed
    <2>5. Once(p)'
        BY <1>3 DEF LinkInv, Per, Once
    <2> QED BY <2>1, <2>3, <2>4, <2>5
<1>15. Types'
    BY <1>1, <1>3, <1>4, <1>6, <1>10 DEF Types
<1>16. \A p \in Nodes \ {n} : air'[p] = air[p]
    BY <1>1, <1>4 DEF Types
<1>17. air'[n] = a
    BY <1>1, <1>4 DEF Types
<1>18. ASSUME NEW p \in Nodes \ {n} PROVE Per(p)'
    <2>1. Per(p)
        BY DEF LinkInv
    <2> QED BY <1>3, <1>14, <1>16, <2>1, Unmoved
<1>19. /\ NodeOK(n)' /\ Carrying(n)' = Carrying(n) /\ Carries(node[n])' = Carries(node[n])
    BY <1>1, <1>3, <1>6, <1>17 DEF Per, NodeOK, Carrying, Carries
<1>20. ~fate[n].unheard /\ (Mine(n) # {} \/ fate[n].landed > 0) => ~Carrying(n)
    BY <1>1, <1>2 DEF Per, LeftBehind
<1>21. CASE ~f.t
    <2>1. Mine(n)' = Mine(n) /\ (Handed(n) => Handed(n)') /\ Twin(n)' /\ Once(n)'
        BY <1>14, <1>21
    <2>2. AcksOK(n)'
        BY <1>2, <1>3, <1>6, <1>7, <1>17, <1>19, <1>21 DEF AcksOK
    <2>3. OneReading(n)'
        BY <1>1, <1>3, <1>19, <2>1 DEF Per, OneReading
    <2>4. LeftBehind(n)'
        BY <1>3, <1>19, <1>20, <2>1 DEF LeftBehind
    <2>5. Kept(n)'
        BY <1>1, <1>3, <1>19, <2>1 DEF Per, Kept
    <2>6. Per(n)'
        BY <1>19, <2>1, <2>2, <2>3, <2>4, <2>5 DEF Per
    <2> QED BY <1>15, <1>18, <2>6 DEF LinkInv
<1>22. CASE f.t
    <2>1. Carries(node[n]) /\ Carrying(n) /\ node[n].measured
        <3>1. Carries(node[n])
            BY <1>7, <1>22
        <3>2. node[n].taken <= Len(node[n].pool) /\ node[n].taken \in Nat /\ Len(node[n].pool) \in Nat
            BY <1>1, <1>2 DEF Per, NodeOK, NodeType
        <3>3. Carrying(n)
            BY <3>1, <3>2 DEF Carries, Carrying, Has
        <3> QED BY <1>1, <3>1, <3>3 DEF Per, OneReading
    <2>2. Mine(n)' = Mine(n) \cup (end + 1..end + m)
        <3>1. Mine(n)' = {k \in 1..Len(ring') : ring'[k].mac = n /\ ring'[k].t}
              /\ Mine(n) = {k \in 1..end : ring[k].mac = n /\ ring[k].t}
            BY DEF Mine, end
        <3> QED BY <1>10, <1>11, <1>12, <1>22, <3>1
    <2>3. Mine(n)' # {}
        <3>1. end + 1 \in end + 1..end + m
            BY <1>1
        <3> QED BY <2>2, <3>1
    <2>4. Handed(n)'
        BY <2>3 DEF Handed
    <2>5. AcksOK(n)'
        BY <1>2, <1>3, <1>6, <1>17, <2>4 DEF AcksOK
    <2>6. OneReading(n)'
        BY <1>1, <1>3, <1>19, <2>1 DEF Per, OneReading
    <2>7. LeftBehind(n)'
        BY <1>2, <1>3, <1>6, <1>17, <1>19, <2>1 DEF LeftBehind
    <2>8. Twin(n)'
        <3> SUFFICES ASSUME ~fate[n].unheard, NEW k \in Mine(n)'
                     PROVE  /\ \A j \in Mine(n)' : j > k =>
                                 /\ j = k + 1 /\ ring'[j].copy /\ ring'[j].id = ring'[k].id
                                 /\ ring'[j].seq = ring'[k].seq /\ (ring'[k].late => ring'[j].late)
                            /\ fate[n].landed > 0 => k = 1 /\ ring'[k].copy /\ Guarded(ring[k])'
            BY <1>3 DEF Twin
        <3>1. Mine(n) = {} /\ ~(fate[n].landed > 0)
            BY <1>20, <2>1
        <3>2. k \in end + 1..end + m
            BY <2>2, <3>1
        <3>3. ASSUME NEW j \in Mine(n)', j > k
              PROVE  /\ j = k + 1 /\ ring'[j].copy /\ ring'[j].id = ring'[k].id
                     /\ ring'[j].seq = ring'[k].seq /\ (ring'[k].late => ring'[j].late)
            <4>1. j \in end + 1..end + m
                BY <2>2, <3>1
            <4>2. m = 2 /\ k = end + 1 /\ j = end + 2 /\ j = k + 1
                BY <1>1, <3>2, <3>3, <4>1
            <4> QED BY <1>8, <1>10, <4>2
        <3> QED BY <3>1, <3>3
    <2>9. Kept(n)' /\ Once(n)'
        BY <1>1, <1>3, <2>4 DEF Per, Kept, Once
    <2>10. Per(n)'
        BY <1>19, <2>5, <2>6, <2>7, <2>8, <2>9 DEF Per
    <2> QED BY <1>15, <1>18, <2>10 DEF LinkInv
<1> QED BY <1>21, <1>22

-----------------------------------------------------------------------------
(* The steps of the collector.                                             *)

\* A step beside the nodes' readings.
LEMMA Aside ==
    ASSUME LinkInv, Types', node' = node, fate' = fate,
           \A p \in Nodes : SameFrames(p) /\ air'[p].frame = air[p].frame /\ air'[p].ack = air[p].ack
    PROVE  LinkInv'
BY Bystander DEF LinkInv

\* The smallest of some ids.
LEMMA LeastOf ==
    ASSUME NEW S, S \subseteq Ids, S # {}
    PROVE  Least(S) \in S
<1>1. S \subseteq Nat
    BY LinkAssumption
<1>2. PICK m \in S : \A j \in S : ~(<<j, m>> \in OpToRel(<, Nat))
    BY <1>1, NatLessThanWellFounded, WFMin
<1>3. ASSUME NEW j \in S PROVE m <= j
    <2>1. j \in Nat /\ m \in Nat
        BY <1>1
    <2>2. <<j, m>> \in Nat \X Nat /\ <<j, m>>[1] = j /\ <<j, m>>[2] = m
        BY <2>1
    <2>3. ~(j < m)
        BY <1>2, <2>2, Zenon DEF OpToRel
    <2> QED BY <2>1, <2>3
<1> QED BY <1>3 DEF Least

\* The slot a pairing takes is the node's own or nobody's.
LEMMA SlotTaken ==
    ASSUME Types, NEW n \in Nodes, SlotOf(n) # 0
    PROVE  SlotOf(n) \in Ids /\ (table[SlotOf(n)] = None \/ table[SlotOf(n)].mac = n)
<1>1. Slots(n) \subseteq Ids /\ Ids \ Held(table) \subseteq Ids
    BY DEF Slots, Held
<1>2. CASE Slots(n) # {}
    <2>1. SlotOf(n) \in Slots(n)
        BY <1>1, <1>2, LeastOf DEF SlotOf
    <2> QED BY <1>1, <2>1 DEF Slots
<1>3. CASE Slots(n) = {}
    <2>1. Held(table) # Ids
        BY <1>3 DEF SlotOf
    <2>2. Ids \ Held(table) # {}
        BY <2>1 DEF Held
    <2>3. SlotOf(n) \in Ids \ Held(table)
        BY <1>1, <1>3, <2>1, <2>2, LeastOf DEF SlotOf
    <2> QED BY <2>3 DEF Held
<1> QED BY <1>2, <1>3

\* A row that was just claimed.
LEMMA NewRowType ==
    ASSUME NEW m \in Macs
    PROVE  NewRow(m) \in Rows /\ NewRow(m) # None
<1>1. 0 \in 0..Wrap - 1
    BY LinkAssumption DEF Half
<1>2. NewRow(m) \in Rows
    BY <1>1 DEF NewRow, Rows
<1> QED BY <1>2, LinkAssumption

\* A pairing writes no other row, and not one that has heard a frame of the node.
LEMMA ServeDiscoverStep ==
    ASSUME LinkInv, ServeDiscover
    PROVE  LinkInv'
<1>1. Types /\ pending \in Nodes
    BY DEF LinkInv, Types, ServeDiscover
<1>2. /\ pending' = None /\ node' = node /\ file' = file /\ saving' = saving /\ ring' = ring
      /\ web' = web /\ fate' = fate
    BY DEF ServeDiscover
<1>3. \/ SlotOf(pending) # 0 /\ Adopt(pending, SlotOf(pending))
      \/ table' = table /\ air' = air
    BY DEF ServeDiscover
<1>4. CASE table' = table /\ air' = air
    <2>1. Types'
        BY <1>1, <1>2, <1>4 DEF Types
    <2>2. \A p \in Nodes : SameFrames(p) /\ air'[p].frame = air[p].frame /\ air'[p].ack = air[p].ack
        BY <1>2, <1>4, RingAlone
    <2> QED BY <1>2, <2>1, <2>2, Aside
<1>5. CASE SlotOf(pending) # 0 /\ Adopt(pending, SlotOf(pending))
    <2>1. PICK n \in Nodes : n = pending
        BY <1>1
    <2>2. PICK id \in Ids : id = SlotOf(n) /\ (table[id] = None \/ table[id].mac = n)
        BY <1>1, <1>5, <2>1, SlotTaken
    <2>3. Adopt(n, id)
        BY <1>5, <2>1, <2>2
    <2>4. table \in [Ids -> Rows \cup {None}] /\ air \in [Nodes -> AirType] /\ ring \in Seq(Frame)
        BY <1>1 DEF Types
    <2> DEFINE row == IF table[id] # None /\ table[id].mac = n THEN table[id] ELSE NewRow(n)
               wel == IF node[n].at \in {"pairing", "repairing"} THEN id ELSE 0
               a == [air[n] EXCEPT !.welcome = wel]
    <2>5. table' = [table EXCEPT ![id] = row] /\ air' = [air EXCEPT ![n].welcome = wel]
        BY <2>3, <2>4 DEF Adopt
    <2>6. row \in Rows \cup {None}
        BY <2>4, NewRowType DEF Macs
    <2>7. table[id] # None => row = table[id]
        BY <2>2
    <2>8. wel \in Ids \cup {0}
        OBVIOUS
    <2> HIDE DEF row, wel
    <2>9. a \in AirType /\ a.frame = air[n].frame /\ a.ack = air[n].ack
          /\ air' = [air EXCEPT ![n] = a]
        BY <2>4, <2>5, <2>8, Zenon DEF AirType
    <2> HIDE DEF a
    <2>10. Types'
        BY <1>1, <1>2, <2>4, <2>5, <2>6, <2>9 DEF Types
    <2>11. ASSUME NEW p \in Nodes
           PROVE  SameFrames(p) /\ air'[p].frame = air[p].frame /\ air'[p].ack = air[p].ack
        <3>1. air'[p].frame = air[p].frame /\ air'[p].ack = air[p].ack
            BY <2>4, <2>9
        <3>2. ASSUME NEW k \in Mine(p), Guarded(ring[k]) PROVE Guarded(ring[k])'
            <4>1. table[ring[k].id] # None => table'[ring[k].id] = table[ring[k].id]
                <5>1. ring[k] \in Frame
                    BY <2>4 DEF Mine
                <5>2. ring[k].id \in Ids
                    BY <5>1 DEF Frame
                <5> QED BY <2>4, <2>5, <2>7, <5>2
            <4> QED BY <1>2, <3>2, <4>1 DEF Guarded
        <3> QED BY <1>2, <3>1, <3>2 DEF SameFrames
    <2> QED BY <1>2, <2>10, <2>11, Aside
<1> QED BY <1>3, <1>4, <1>5

\* Saving, the pairing window, and a handler's first half.
LEMMA SideSteps ==
    ASSUME LinkInv,
           \/ SaveBegins \/ SaveEnds \/ OpenWindow \/ CloseWindow \/ ForgetPeer
           \/ \E m \in Macs, id \in Ids : AddChecks(m, id)
    PROVE  LinkInv'
<1>1. Types
    BY DEF LinkInv
<1>2. node' = node /\ air' = air /\ table' = table /\ ring' = ring /\ fate' = fate /\ pending' = pending
    BY DEF SaveBegins, SaveEnds, OpenWindow, CloseWindow, ForgetPeer, AddChecks, tableVars,
           saveVars, talkVars
<1>3. Macless \in Saved
    <2>1. \A i \in Ids : table[i] # None => table[i].mac \in Macs
        BY <1>1 DEF Types, Rows
    <2> QED BY <2>1 DEF Macless, Saved
<1>4. web' \in Business \cup {None}
    <2>1. ASSUME NEW m \in Macs, NEW id \in Ids, AddChecks(m, id) PROVE web' \in Business
        BY <2>1 DEF AddChecks, Business
    <2>2. ASSUME ~(\E m \in Macs, id \in Ids : AddChecks(m, id)) PROVE web' = web \/ web' = None
        BY <2>2 DEF SaveBegins, SaveEnds, OpenWindow, CloseWindow, ForgetPeer, talkVars
    <2> QED BY <1>1, <2>1, <2>2 DEF Types
<1>5. file' \in Saved /\ saving' \in Saved \cup {None}
    <2>1. file \in Saved /\ saving \in Saved \cup {None}
        BY <1>1 DEF Types
    <2>2. \/ file' = file /\ saving' = Macless
          \/ (saving # None /\ file' \in {saving, file} /\ saving' = None)
          \/ file' = file /\ saving' = saving
        BY DEF SaveBegins, SaveEnds, OpenWindow, CloseWindow, ForgetPeer, AddChecks, saveVars
    <2> QED BY <1>3, <2>1, <2>2
<1>6. Types'
    BY <1>1, <1>2, <1>4, <1>5 DEF Types
<1>7. \A p \in Nodes : SameFrames(p) /\ air'[p].frame = air[p].frame /\ air'[p].ack = air[p].ack
    BY <1>2, RingAlone
<1> QED BY <1>2, <1>6, <1>7, Aside

\* A slot that changes hands keeps the sequence number it had.
LEMMA AddDoesStep ==
    ASSUME LinkInv, AddDoes
    PROVE  LinkInv'
<1>1. Types /\ web \in Business
    BY DEF LinkInv, Types, AddDoes
<1>2. PICK id \in Ids : id = web.id
    BY <1>1 DEF Business
<1>3. PICK m \in Macs : m = web.mac
    BY <1>1 DEF Business
<1>4. table \in [Ids -> Rows \cup {None}] /\ ring \in Seq(Frame)
    BY <1>1 DEF Types
<1> DEFINE own == table[id].own /\ table[id].mac = m
           kept == [table[id] EXCEPT !.mac = m, !.own = own]
           row  == IF table[id] = None THEN NewRow(m) ELSE kept
<1>5. /\ web' = None /\ node' = node /\ air' = air /\ file' = file /\ saving' = saving
      /\ ring' = ring /\ pending' = pending /\ fate' = fate
      /\ table' = [table EXCEPT ![id] = row]
    <2>1. table' = [table EXCEPT ![id] = IF @ = None THEN NewRow(m)
                                          ELSE [@ EXCEPT !.mac = m, !.own = own]]
        <3> HIDE DEF row
        <3> QED BY <1>2, <1>3 DEF AddDoes
    <2>2. table' = [table EXCEPT ![id] = row]
        BY <2>1
    <2> HIDE DEF row
    <2> QED BY <2>2 DEF AddDoes, talkVars
<1>6. table[id] # None => /\ kept \in Rows /\ kept.have = table[id].have
                          /\ kept.last = table[id].last
    <2> SUFFICES ASSUME table[id] # None
                 PROVE  kept \in Rows /\ kept.have = table[id].have /\ kept.last = table[id].last
        OBVIOUS
    <2>1. table[id] \in Rows
        BY <1>4
    <2>2. own \in BOOLEAN
        BY <2>1 DEF Rows
    <2> HIDE DEF own
    <2> QED BY <2>1, <2>2, Zenon DEF Rows
<1> HIDE DEF kept
<1>7. row \in Rows \cup {None}
    BY <1>6, NewRowType
<1>8. table[id] # None => row # None /\ row.have = table[id].have /\ row.last = table[id].last
    BY <1>6, LinkAssumption
<1> HIDE DEF row
<1>9. Types'
    BY <1>1, <1>4, <1>5, <1>7 DEF Types
<1>10. ASSUME NEW p \in Nodes PROVE SameFrames(p)
    <2>1. ASSUME NEW k \in Mine(p), Guarded(ring[k]) PROVE Guarded(ring[k])'
        <3>1. ring[k].id \in Ids
            <4>1. ring[k] \in Frame
                BY <1>4 DEF Mine
            <4> QED BY <4>1 DEF Frame
        <3>2. CASE ring[k].id = id
            BY <1>4, <1>5, <1>8, <2>1, <3>1, <3>2 DEF Guarded
        <3>3. CASE ring[k].id # id
            BY <1>4, <1>5, <2>1, <3>1, <3>3 DEF Guarded
        <3> QED BY <3>2, <3>3
    <2> QED BY <1>5, <2>1 DEF SameFrames
<1> QED BY <1>5, <1>9, <1>10, Aside

\* Frames of an id that is forgotten are late from here on.
LEMMA ForgetSlotStep ==
    ASSUME LinkInv, NEW id \in Ids, ForgetSlot(id)
    PROVE  LinkInv'
<1>1. Types /\ table \in [Ids -> Rows \cup {None}] /\ ring \in Seq(Frame)
    BY DEF LinkInv, Types
<1>2. /\ node' = node /\ air' = air /\ file' = file /\ saving' = saving
      /\ pending' = pending /\ fate' = fate /\ table' = [table EXCEPT ![id] = None]
      /\ web' = [op |-> "forget", mac |-> table[id].mac, id |-> id] /\ table[id] # None
      /\ ring' = [k \in DOMAIN ring |-> IF ring[k].id = id THEN [ring[k] EXCEPT !.late = TRUE]
                                                           ELSE ring[k]]
    BY DEF ForgetSlot, saveVars
<1>3. web' \in Business
    <2>1. table[id] \in Rows
        BY <1>1, <1>2
    <2> QED BY <1>2, <2>1 DEF Business, Rows
<1>4. \A k \in 1..Len(ring) :
        /\ ring'[k] \in Frame /\ ring'[k].mac = ring[k].mac /\ ring'[k].t = ring[k].t
        /\ ring'[k].id = ring[k].id /\ ring'[k].seq = ring[k].seq /\ ring'[k].copy = ring[k].copy
        /\ IF ring[k].id = id THEN ring'[k].late ELSE ring'[k].late = ring[k].late
    <2> SUFFICES ASSUME NEW k \in 1..Len(ring)
                 PROVE  /\ ring'[k] \in Frame /\ ring'[k].mac = ring[k].mac
                        /\ ring'[k].t = ring[k].t /\ ring'[k].id = ring[k].id
                        /\ ring'[k].seq = ring[k].seq /\ ring'[k].copy = ring[k].copy
                        /\ IF ring[k].id = id THEN ring'[k].late ELSE ring'[k].late = ring[k].late
        OBVIOUS
    <2>1. ring[k] \in Frame /\ k \in DOMAIN ring
        BY <1>1
    <2>2. CASE ring[k].id = id
        <3>1. ring'[k] = [ring[k] EXCEPT !.late = TRUE]
            BY <1>2, <2>1, <2>2
        <3>2. ring'[k] \in Frame
            BY <2>1, <3>1, MarkedFrame
        <3>3. /\ ring'[k].mac = ring[k].mac /\ ring'[k].t = ring[k].t /\ ring'[k].id = ring[k].id
              /\ ring'[k].seq = ring[k].seq /\ ring'[k].copy = ring[k].copy /\ ring'[k].late
            BY <2>1, <3>1, MarkedFrame
        <3> QED BY <2>2, <3>2, <3>3
    <2>3. CASE ring[k].id # id
        <3>1. ring'[k] = ring[k]
            BY <1>2, <2>1, <2>3
        <3> QED BY <2>1, <2>3, <3>1
    <2> QED BY <2>2, <2>3
<1>5. ring' \in Seq(Frame) /\ Len(ring') = Len(ring)
    <2>1. DOMAIN ring' = DOMAIN ring /\ ring' = [k \in DOMAIN ring |-> ring'[k]]
        BY <1>2
    <2> QED BY <1>1, <1>4, <2>1, Rewritten
<1>6. Types'
    BY <1>1, <1>2, <1>3, <1>5 DEF Types
<1>7. ASSUME NEW p \in Nodes PROVE SameFrames(p)
    <2>1. ASSUME NEW k \in Mine(p), Guarded(ring[k]) PROVE Guarded(ring[k])'
        <3>1. k \in 1..Len(ring)
            BY DEF Mine
        <3>2. ring[k] \in Frame
            BY <1>1, <3>1
        <3>3. ring[k].id \in Ids
            BY <3>2 DEF Frame
        <3> QED BY <1>1, <1>2, <1>4, <2>1, <3>1, <3>3 DEF Guarded
    <2> QED BY <1>4, <1>5, <2>1 DEF SameFrames
<1> QED BY <1>2, <1>6, <1>7, Aside

\* What was in the ring is gone, and the reason is told.
LEMMA RestartStep ==
    ASSUME LinkInv, Restart
    PROVE  LinkInv'
<1>1. Types /\ air \in [Nodes -> AirType] /\ fate \in [Nodes -> FateType]
    BY DEF LinkInv, Types
<1>2. PICK loaded \in {file, [i \in Ids |-> None]} :
          /\ table' = Loaded(loaded) /\ ring' = <<>> /\ pending' = None /\ web' = None
          /\ saving' = None /\ file' = file /\ node' = node
          /\ air' = [p \in Nodes |-> [air[p] EXCEPT !.welcome = 0]]
          /\ fate' = [p \in Nodes |-> IF \E k \in DOMAIN ring : ring[k].mac = p /\ ring[k].t
                                      THEN [fate[p] EXCEPT !.why = @ \cup {"restart"}] ELSE fate[p]]
    BY DEF Restart
<1>3. ASSUME NEW p \in Nodes
      PROVE  air'[p] \in AirType /\ air'[p].frame = air[p].frame /\ air'[p].ack = air[p].ack
    <2>1. air'[p] = [air[p] EXCEPT !.welcome = 0] /\ air[p] \in AirType
        BY <1>1, <1>2
    <2>2. 0 \in Ids \cup {0}
        OBVIOUS
    <2> QED BY <2>1, <2>2, Zenon DEF AirType
<1>4. ASSUME NEW p \in Nodes
      PROVE  /\ fate'[p] \in FateType /\ fate'[p].landed = fate[p].landed
             /\ fate'[p].unheard = fate[p].unheard /\ fate[p].why \subseteq fate'[p].why
             /\ (Mine(p) # {} => fate'[p].why # {})
    <2> DEFINE why == fate[p].why \cup {"restart"}
    <2>1. fate[p] \in FateType
        BY <1>1
    <2>2. why \in SUBSET Reasons
        BY <2>1 DEF FateType, Reasons
    <2>3. InRing(p) <=> Mine(p) # {}
        BY <1>1, Places
    <2>4. CASE Mine(p) # {}
        <3>1. fate'[p] = [fate[p] EXCEPT !.why = why]
            BY <1>2, <2>3, <2>4 DEF InRing
        <3>2. why # {} /\ fate[p].why \subseteq why
            OBVIOUS
        <3> HIDE DEF why
        <3>3. /\ fate'[p] \in FateType /\ fate'[p].landed = fate[p].landed
              /\ fate'[p].unheard = fate[p].unheard /\ fate'[p].why = why
            BY <2>1, <2>2, <3>1, Zenon DEF FateType
        <3> QED BY <3>2, <3>3
    <2>5. CASE Mine(p) = {}
        <3>1. fate'[p] = fate[p]
            BY <1>2, <2>3, <2>5 DEF InRing
        <3> QED BY <2>1, <2>5, <3>1
    <2> QED BY <2>4, <2>5
<1>5. table' \in [Ids -> Rows \cup {None}]
    <2>1. loaded \in Saved
        BY <1>1 DEF Types, Saved
    <2> QED BY <1>2, <2>1, NewRowType DEF Loaded, Saved
<1>6. Types'
    <2>1. air' \in [Nodes -> AirType] /\ fate' \in [Nodes -> FateType]
        <3>1. air' = [p \in Nodes |-> air'[p]] /\ fate' = [p \in Nodes |-> fate'[p]]
            BY <1>2
        <3> QED BY <1>3, <1>4, <3>1
    <2>2. ring' \in Seq(Frame)
        BY <1>2
    <2> QED BY <1>1, <1>2, <1>5, <2>1, <2>2 DEF Types
<1>7. ASSUME NEW p \in Nodes PROVE Per(p)'
    <2>1. Per(p)
        BY DEF LinkInv
    <2>2. Mine(p)' = {}
        BY <1>2 DEF Mine
    <2>3. Handed(p) => Handed(p)'
        BY <1>4 DEF Handed
    <2>4. Twin(p)'
        BY <2>2 DEF Twin
    <2>5. Once(p)'
        BY <1>4, <2>1 DEF Per, Once
    <2> QED BY <1>2, <1>3, <1>4, <2>1, <2>2, <2>3, <2>4, <2>5, Unmoved
<1> QED BY <1>6, <1>7 DEF LinkInv

\* The guard takes no frame that it took last.
LEMMA GuardKnows ==
    ASSUME NEW f \in Frame, NEW row \in Rows, row.have, row.last = f.seq
    PROVE  SeqCheck(row, f) = "duplicate"
<1>1. f.seq \in 0..Wrap - 1
    BY DEF Frame
<1>2. Wrap \in Nat /\ Wrap > 0
    BY <1>1, Around
<1>3. (f.seq + Wrap - f.seq) % Wrap = 0
    <2>1. f.seq + Wrap - f.seq = Wrap
        BY <1>1, <1>2
    <2> QED BY <1>2, <2>1
<1> QED BY <1>3 DEF SeqCheck

\* What the tick does with the frame at the head of the ring: it is dropped for a
\* reason, or it lands and the guard remembers it.
LEMMA HeadFrame ==
    ASSUME LinkInv, TickFrame, NEW f \in Frame, f = ring[1], Head(ring) = f
    PROVE  /\ Types'
           /\ \A p \in Nodes :
                /\ fate'[p].unheard = fate[p].unheard /\ fate[p].why \subseteq fate'[p].why
                /\ p # f.mac \/ ~f.t => /\ fate'[p].landed = fate[p].landed
                                        /\ fate'[p].why = fate[p].why
           /\ f.t => \/ /\ fate'[f.mac].landed = fate[f.mac].landed
                        /\ fate'[f.mac].why # {}
                     \/ /\ fate'[f.mac].landed > 0
                        /\ fate'[f.mac].landed > 1 => fate[f.mac].landed > 0
                        /\ f.copy /\ f.late => "forgotten" \in fate'[f.mac].why
                        /\ table[f.id] # None /\ SeqCheck(table[f.id], f) # "duplicate"
                        /\ table'[f.id] # None /\ table'[f.id].have /\ table'[f.id].last = f.seq
<1>1. /\ Types /\ ring \in Seq(Frame) /\ fate \in [Nodes -> FateType]
      /\ table \in [Ids -> Rows \cup {None}]
    BY DEF LinkInv, Types
<1>2. PICK n \in Nodes : n = f.mac
    BY DEF Frame
<1>3. PICK id \in Ids : id = f.id
    BY DEF Frame
<1>4. /\ ring # <<>> /\ ring' = Tail(ring) /\ node' = node /\ air' = air /\ pending' = pending
      /\ file' = file /\ saving' = saving /\ web' = web
    BY DEF TickFrame, saveVars
<1>5. ring' \in Seq(Frame)
    BY <1>1, <1>4, HeadTailProperties
<1>6. f.t \in BOOLEAN /\ f.seq \in 0..Wrap - 1 /\ f.copy \in BOOLEAN /\ f.late \in BOOLEAN
    BY DEF Frame
<1>7. fate[n] \in FateType /\ fate[n].landed \in 0..2 /\ fate[n].why \in SUBSET Reasons
      /\ fate[n].strange \in BOOLEAN
    BY <1>1 DEF FateType
<1>8. ASSUME NEW reason \in Reasons, table' = table,
             fate' = [fate EXCEPT ![n].why = IF f.t THEN @ \cup {reason} ELSE @]
      PROVE  /\ Types'
             /\ \A p \in Nodes :
                  /\ fate'[p].unheard = fate[p].unheard /\ fate[p].why \subseteq fate'[p].why
                  /\ fate'[p].landed = fate[p].landed
                  /\ p # n \/ ~f.t => fate'[p].why = fate[p].why
             /\ f.t => fate'[n].why # {}
    <2> DEFINE why == IF f.t THEN fate[n].why \cup {reason} ELSE fate[n].why
               h == [fate[n] EXCEPT !.why = why]
    <2>1. why \in SUBSET Reasons /\ fate[n].why \subseteq why /\ (f.t => why # {})
          /\ (~f.t => why = fate[n].why)
        BY <1>6, <1>7
    <2>2. fate' = [fate EXCEPT ![n] = h]
        BY <1>1, <1>8, Zenon
    <2> HIDE DEF why
    <2>3. h \in FateType /\ h.why = why /\ h.landed = fate[n].landed /\ h.unheard = fate[n].unheard
        BY <1>7, <2>1, Zenon DEF FateType
    <2> HIDE DEF h
    <2>4. fate' \in [Nodes -> FateType]
        BY <1>1, <2>2, <2>3
    <2>5. Types'
        BY <1>1, <1>4, <1>5, <1>8, <2>4 DEF Types
    <2>6. fate'[n] = h /\ \A p \in Nodes : p # n => fate'[p] = fate[p]
        BY <1>1, <2>2
    <2>7. f.t => fate'[n].why # {}
        BY <2>1, <2>3, <2>6
    <2>8. ASSUME NEW p \in Nodes
          PROVE  /\ fate'[p].unheard = fate[p].unheard /\ fate[p].why \subseteq fate'[p].why
                 /\ fate'[p].landed = fate[p].landed
                 /\ p # n \/ ~f.t => fate'[p].why = fate[p].why
        BY <2>1, <2>3, <2>6
    <2> QED BY <2>5, <2>7, <2>8
<1>9. CASE table[id] = None
    <2>1. /\ table' = table
          /\ fate' = [fate EXCEPT ![n].why = IF f.t THEN @ \cup {"forgotten"} ELSE @]
        BY <1>2, <1>3, <1>9 DEF TickFrame
    <2>2. "forgotten" \in Reasons
        BY DEF Reasons
    <2> QED BY <1>2, <1>8, <2>1, <2>2
<1>10. CASE table[id] # None /\ SeqCheck(table[id], f) \notin {"new", "reset"}
    <2>1. Refuse(f)
        BY <1>3, <1>10 DEF TickFrame
    <2>2. /\ table' = table
          /\ fate' = [fate EXCEPT ![n].why = IF f.t THEN @ \cup {"seq"} ELSE @]
        BY <1>2, <2>1 DEF Refuse
    <2>3. "seq" \in Reasons
        BY DEF Reasons
    <2> QED BY <1>2, <1>8, <2>2, <2>3
<1>11. CASE table[id] # None /\ SeqCheck(table[id], f) \in {"new", "reset"}
    <2>1. Accept(f)
        BY <1>3, <1>11 DEF TickFrame
    <2> DEFINE landed == IF f.t THEN Min({fate[n].landed + 1, 2}) ELSE fate[n].landed
               why == IF f.t /\ f.copy /\ f.late THEN fate[n].why \cup {"forgotten"}
                                                 ELSE fate[n].why
               odd == fate[n].strange \/ (table[id].mac # n /\ ~f.late /\ n \notin watch.lapsed)
               h == [fate[n] EXCEPT !.landed = landed, !.why = why, !.strange = odd]
               row == [mac |-> table[id].mac, have |-> TRUE, last |-> f.seq,
                       own |-> table[id].mac = n]
    <2>2. fate' = [fate EXCEPT ![n] = h]
        <3>1. fate' = [fate EXCEPT
                  ![n].landed = IF f.t THEN Min({@ + 1, 2}) ELSE @,
                  ![n].why = IF f.t /\ f.copy /\ f.late THEN @ \cup {"forgotten"} ELSE @,
                  ![n].strange = @ \/ (table[id].mac # n /\ ~f.late /\ n \notin watch.lapsed)]
            BY <1>2, <1>3, <2>1 DEF Accept
        <3> QED BY <1>1, <3>1, Zenon DEF FateType
    <2>3. table' = [table EXCEPT ![id] = row]
        BY <1>2, <1>3, <2>1 DEF Accept
    <2>4. /\ landed \in 0..2 /\ (f.t => landed > 0 /\ (landed > 1 => fate[n].landed > 0))
          /\ (~f.t => landed = fate[n].landed)
        <3> DEFINE l == fate[n].landed + 1
        <3>1. l \in Nat /\ l > 0
            BY <1>7
        <3>2. Min({l, 2}) \in {l, 2} /\ Min({l, 2}) <= l /\ Min({l, 2}) <= 2
            BY <3>1, MinOfTwo
        <3> QED BY <1>6, <1>7, <3>1, <3>2
    <2>5. /\ why \in SUBSET Reasons /\ fate[n].why \subseteq why
          /\ (f.t /\ f.copy /\ f.late => "forgotten" \in why) /\ (~f.t => why = fate[n].why)
        BY <1>6, <1>7 DEF Reasons
    <2>6. odd \in BOOLEAN
        BY <1>7, Zenon
    <2>7. row \in Rows /\ row.have /\ row.last = f.seq
        <3>1. table[id] \in Rows
            BY <1>1, <1>11
        <3> QED BY <1>6, <3>1 DEF Rows
    <2> HIDE DEF landed, why, odd, row
    <2>8. h \in FateType /\ h.landed = landed /\ h.why = why /\ h.unheard = fate[n].unheard
        BY <1>7, <2>4, <2>5, <2>6, Zenon DEF FateType
    <2> HIDE DEF h
    <2>9. Types'
        BY <1>1, <1>4, <1>5, <2>2, <2>3, <2>7, <2>8 DEF Types
    <2>10. fate'[n] = h /\ \A p \in Nodes : p # n => fate'[p] = fate[p]
        BY <1>1, <2>2
    <2>11. table'[id] = row /\ row # None
        BY <1>1, <2>3, <2>7, LinkAssumption
    <2>12. ASSUME NEW p \in Nodes
           PROVE  /\ fate'[p].unheard = fate[p].unheard /\ fate[p].why \subseteq fate'[p].why
                  /\ p # n \/ ~f.t => /\ fate'[p].landed = fate[p].landed
                                      /\ fate'[p].why = fate[p].why
        BY <2>4, <2>5, <2>8, <2>10
    <2>13. ASSUME f.t
           PROVE  /\ fate'[n].landed > 0
                  /\ fate'[n].landed > 1 => fate[n].landed > 0
                  /\ f.copy /\ f.late => "forgotten" \in fate'[n].why
                  /\ table[id] # None /\ SeqCheck(table[id], f) # "duplicate"
                  /\ table'[id] # None /\ table'[id].have /\ table'[id].last = f.seq
        BY <1>11, <2>4, <2>5, <2>7, <2>8, <2>10, <2>11, <2>13
    <2> QED BY <1>2, <1>3, <2>9, <2>12, <2>13
<1> QED BY <1>9, <1>10, <1>11

\* The frames move up by one place; the first one is the one that was dealt with.
LEMMA TickFrameStep ==
    ASSUME LinkInv, TickFrame
    PROVE  LinkInv'
<1>1. /\ Types /\ ring \in Seq(Frame) /\ ring # <<>> /\ Len(ring) \in Nat
      /\ table \in [Ids -> Rows \cup {None}]
    BY DEF LinkInv, Types, TickFrame
<1>2. /\ ring' = Tail(ring) /\ node' = node /\ air' = air
    BY DEF TickFrame
<1>3. Len(ring') = Len(ring) - 1 /\ \A k \in 1..Len(ring') : ring'[k] = ring[k + 1]
    BY <1>1, <1>2, HeadTailProperties
<1>4. PICK f \in Frame : f = ring[1] /\ Head(ring) = f
    <2>1. Len(ring) > 0
        BY <1>1
    <2>2. 1 \in 1..Len(ring)
        BY <1>1, <2>1
    <2>3. ring[1] \in Frame /\ Head(ring) = ring[1]
        BY <1>1, <2>2
    <2> QED BY <2>3
<1>5. /\ Types'
      /\ \A p \in Nodes :
           /\ fate'[p].unheard = fate[p].unheard /\ fate[p].why \subseteq fate'[p].why
           /\ p # f.mac \/ ~f.t => /\ fate'[p].landed = fate[p].landed
                                   /\ fate'[p].why = fate[p].why
      /\ f.t => \/ /\ fate'[f.mac].landed = fate[f.mac].landed
                   /\ fate'[f.mac].why # {}
                \/ /\ fate'[f.mac].landed > 0
                   /\ fate'[f.mac].landed > 1 => fate[f.mac].landed > 0
                   /\ f.copy /\ f.late => "forgotten" \in fate'[f.mac].why
                   /\ table[f.id] # None /\ SeqCheck(table[f.id], f) # "duplicate"
                   /\ table'[f.id] # None /\ table'[f.id].have /\ table'[f.id].last = f.seq
    BY <1>4, HeadFrame
<1>6. \A k \in 1..Len(ring') : k + 1 \in 1..Len(ring) /\ k + 1 # 1
    BY <1>1, <1>3
<1>7. \A k \in 1..Len(ring) : k = 1 \/ (k - 1 \in 1..Len(ring') /\ (k - 1) + 1 = k)
    BY <1>1, <1>3
<1>8. ASSUME NEW p \in Nodes PROVE \A k \in Mine(p)' : k \in 1..Len(ring') /\ k + 1 \in Mine(p)
    BY <1>3, <1>6 DEF Mine
<1>9. ASSUME NEW p \in Nodes, fate'[p].landed = fate[p].landed PROVE Twin(p)'
    <2> SUFFICES ASSUME ~fate'[p].unheard, NEW k \in Mine(p)'
                 PROVE  /\ \A j \in Mine(p)' : j > k =>
                             /\ j = k + 1 /\ ring'[j].copy /\ ring'[j].id = ring'[k].id
                             /\ ring'[j].seq = ring'[k].seq /\ (ring'[k].late => ring'[j].late)
                        /\ ~(fate'[p].landed > 0)
        BY DEF Twin
    <2>1. Twin(p) /\ ~fate[p].unheard
        BY <1>5 DEF LinkInv, Per
    <2>2. k \in 1..Len(ring') /\ k + 1 \in Mine(p) /\ k + 1 # 1
        BY <1>6, <1>8
    <2>3. ~(fate'[p].landed > 0)
        BY <1>9, <2>1, <2>2 DEF Twin
    <2>4. ASSUME NEW j \in Mine(p)', j > k
          PROVE  /\ j = k + 1 /\ ring'[j].copy /\ ring'[j].id = ring'[k].id
                 /\ ring'[j].seq = ring'[k].seq /\ (ring'[k].late => ring'[j].late)
        <3>1. j \in 1..Len(ring') /\ j + 1 \in Mine(p) /\ j + 1 > k + 1
            BY <1>1, <1>3, <1>8, <2>2, <2>4
        <3>2. /\ j + 1 = (k + 1) + 1 /\ ring[j + 1].copy /\ ring[j + 1].id = ring[k + 1].id
              /\ ring[j + 1].seq = ring[k + 1].seq /\ (ring[k + 1].late => ring[j + 1].late)
            BY <2>1, <2>2, <3>1 DEF Twin
        <3>3. j = k + 1
            BY <1>1, <1>3, <2>2, <3>1, <3>2
        <3>4. ring'[j] = ring[j + 1] /\ ring'[k] = ring[k + 1]
            BY <1>3, <2>2, <3>1
        <3> QED BY <3>2, <3>3, <3>4
    <2> QED BY <2>3, <2>4
<1>10. ASSUME NEW p \in Nodes, p # f.mac \/ ~f.t PROVE Per(p)'
    <2>1. fate'[p].landed = fate[p].landed /\ fate'[p].why = fate[p].why
          /\ fate'[p].unheard = fate[p].unheard
        BY <1>5, <1>10
    <2>2. Mine(p) = {} => Mine(p)' = {}
        BY <1>8
    <2>3. Mine(p) # {} => Mine(p)' # {}
        <3> SUFFICES ASSUME NEW k \in Mine(p) PROVE Mine(p)' # {}
            OBVIOUS
        <3>1. k \in 1..Len(ring) /\ ring[k].mac = p /\ ring[k].t
            BY DEF Mine
        <3>2. k # 1
            BY <1>4, <1>10, <3>1
        <3>3. k - 1 \in 1..Len(ring') /\ (k - 1) + 1 = k
            BY <1>7, <3>1, <3>2
        <3>4. ring'[k - 1] = ring[k]
            BY <1>3, <3>3
        <3>5. k - 1 \in Mine(p)'
            BY <3>1, <3>3, <3>4 DEF Mine
        <3> QED BY <3>5
    <2>4. Handed(p) => Handed(p)'
        BY <2>1, <2>3 DEF Handed
    <2>5. Twin(p)' /\ Per(p)
        BY <1>9, <2>1 DEF LinkInv
    <2>6. Once(p)'
        BY <2>1, <2>5 DEF Per, Once
    <2> QED BY <1>2, <2>1, <2>2, <2>4, <2>5, <2>6, Unmoved
<1>11. ASSUME NEW n \in Nodes, n = f.mac, f.t PROVE Per(n)'
    <2>1. Per(n) /\ fate[n].landed \in 0..2 /\ fate'[n].landed \in 0..2
          /\ fate'[n].unheard = fate[n].unheard
        <3>1. fate[n] \in FateType /\ fate'[n] \in FateType
            BY <1>1, <1>5 DEF Types
        <3> QED BY <1>5, <3>1 DEF LinkInv, FateType
    <2>2. 1 \in Mine(n)
        <3>1. Len(ring) > 0
            BY <1>1
        <3>2. 1 \in 1..Len(ring)
            BY <1>1, <3>1
        <3> QED BY <1>4, <1>11, <3>2 DEF Mine
    <2>3. node[n].measured
        BY <2>1, <2>2 DEF Per, OneReading
    <2>4. Handed(n)'
        BY <1>5, <1>11 DEF Handed
    <2>5. /\ NodeOK(n)' /\ Carrying(n)' = Carrying(n) /\ Carries(node[n])' = Carries(node[n])
          /\ Wanted(n)' = Wanted(n) /\ AckIsOurs(n)' = AckIsOurs(n)
        BY <1>2, <2>1 DEF Per, NodeOK, Carrying, Carries, Wanted, AckIsOurs
    <2>6. AcksOK(n)'
        BY <1>2, <2>1, <2>4, <2>5 DEF Per, AcksOK
    <2>7. OneReading(n)'
        BY <1>2, <2>1, <2>3, <2>5 DEF Per, OneReading
    <2>8. LeftBehind(n)'
        BY <1>2, <2>1, <2>2, <2>5 DEF Per, LeftBehind
    <2>9. Kept(n)'
        BY <2>4 DEF Kept
    <2>10. Twin(n)' /\ Once(n)'
        <3>1. CASE fate'[n].landed = fate[n].landed /\ fate'[n].why # {}
            <4>1. fate[n].why \subseteq fate'[n].why
                BY <1>5
            <4> QED BY <1>9, <2>1, <3>1, <4>1 DEF Per, Once
        <3>2. CASE /\ fate'[n].landed > 0
                   /\ fate'[n].landed > 1 => fate[n].landed > 0
                   /\ f.copy /\ f.late => "forgotten" \in fate'[n].why
                   /\ table[f.id] # None /\ SeqCheck(table[f.id], f) # "duplicate"
                   /\ table'[f.id] # None /\ table'[f.id].have /\ table'[f.id].last = f.seq
            <4>1. ASSUME ~fate'[n].unheard, NEW k \in Mine(n)'
                  PROVE  /\ k = 1 /\ ring'[k].copy /\ ring'[k].id = f.id /\ ring'[k].seq = f.seq
                <5>1. k \in 1..Len(ring') /\ k + 1 \in Mine(n) /\ k + 1 # 1
                    BY <1>6, <1>8
                <5>2. k + 1 > 1
                    BY <1>3, <5>1
                <5>3. /\ k + 1 = 1 + 1 /\ ring[k + 1].copy /\ ring[k + 1].id = ring[1].id
                      /\ ring[k + 1].seq = ring[1].seq
                    BY <2>1, <2>2, <4>1, <5>1, <5>2 DEF Per, Twin
                <5>4. k = 1 /\ ring'[k] = ring[k + 1]
                    BY <1>3, <5>1, <5>3
                <5> QED BY <1>4, <5>3, <5>4
            <4>2. Twin(n)'
                <5> SUFFICES ASSUME ~fate'[n].unheard, NEW k \in Mine(n)'
                             PROVE  /\ \A j \in Mine(n)' : ~(j > k)
                                    /\ k = 1 /\ ring'[k].copy /\ Guarded(ring[k])'
                    BY DEF Twin
                <5>1. /\ k = 1 /\ ring'[k].copy /\ ring'[k].id = f.id /\ ring'[k].seq = f.seq
                    BY <4>1
                <5>2. \A j \in Mine(n)' : j = 1
                    BY <4>1
                <5>3. Guarded(ring[k])'
                    BY <3>2, <5>1 DEF Guarded
                <5> QED BY <5>1, <5>2, <5>3
            <4>3. Once(n)'
                <5> SUFFICES ASSUME fate'[n].landed > 1, ~fate'[n].unheard
                             PROVE  "forgotten" \in fate'[n].why
                    BY DEF Once
                <5>1. fate[n].landed > 0 /\ ~fate[n].unheard
                    BY <2>1, <3>2
                <5>2. f.copy /\ Guarded(f)
                    BY <1>4, <2>1, <2>2, <5>1 DEF Per, Twin
                <5>3. table[f.id] \in Rows
                    <6>1. f.id \in Ids
                        BY DEF Frame
                    <6> QED BY <1>1, <3>2, <6>1
                <5>4. ~(table[f.id].have /\ table[f.id].last = f.seq)
                    BY <3>2, <5>3, GuardKnows
                <5> QED BY <3>2, <5>2, <5>4 DEF Guarded
            <4> QED BY <4>2, <4>3
        <3> QED BY <1>5, <1>11, <3>1, <3>2
    <2> QED BY <2>5, <2>6, <2>7, <2>8, <2>9, <2>10 DEF Per
<1>12. \A p \in Nodes : Per(p)'
    BY <1>10, <1>11
<1> QED BY <1>5, <1>12 DEF LinkInv

-----------------------------------------------------------------------------
(* The theorems.                                                           *)

\* Nothing is taken, sent or stored at the start.
LEMMA LinkStarts == InitLink => LinkInv
<1> SUFFICES ASSUME InitLink PROVE LinkInv
    OBVIOUS
<1>1. left.home \in [Nodes -> Ids \cup {0}]
    BY LinkAssumption DEF InitLink
<1>2. /\ node = [n \in Nodes |->
                   [at |-> "asleep", id |-> left.home[n], seq |-> 0, first |-> TRUE, pool |-> <<>>,
                    live |-> "o", taken |-> 0, fails |-> 0, since |-> Spacing, astray |-> FALSE,
                    measured |-> FALSE]]
      /\ air = [n \in Nodes |-> Quiet]
      /\ file = Home(left.home) /\ table = Loaded(file)
      /\ ring = <<>> /\ pending = None /\ saving = None /\ web = None
      /\ fate = [n \in Nodes |-> [landed |-> 0, why |-> {}, unheard |-> FALSE, strange |-> FALSE]]
    BY DEF InitLink
<1>3. file \in Saved
    <2>1. \A i \in Ids : (\E n \in Nodes : left.home[n] = i)
                            => (CHOOSE n \in Nodes : left.home[n] = i) \in Macs
        BY DEF Macs
    <2> QED BY <1>2, <2>1 DEF Home, Saved
<1>4. table \in [Ids -> Rows \cup {None}]
    BY <1>2, <1>3, NewRowType DEF Loaded, Saved
<1>5. node \in [Nodes -> NodeType]
    <2>1. "asleep" \in Stages /\ "o" \in Mark /\ Spacing \in Nat /\ <<>> \in Seq(Mark)
          /\ 0 \in 0..Wrap - 1
        BY LinkAssumption DEF Stages, Mark, Half
    <2> QED BY <1>1, <1>2, <2>1 DEF NodeType
<1>6. air \in [Nodes -> AirType] /\ fate \in [Nodes -> FateType]
    BY <1>2, QuietAir DEF FateType
<1>7. Types
    <2>1. ring \in Seq(Frame)
        BY <1>2
    <2> QED BY <1>2, <1>3, <1>4, <1>5, <1>6, <2>1 DEF Types
<1>8. ASSUME NEW n \in Nodes PROVE Per(n)
    <2>1. /\ node[n].at = "asleep" /\ node[n].live = "o" /\ node[n].pool = <<>>
          /\ node[n].measured = FALSE /\ air[n] = Quiet /\ fate[n].landed = 0
        BY <1>2, <1>8
    <2>2. Mine(n) = {} /\ ~Carrying(n) /\ Single(node[n].pool)
        BY <1>2, <2>1 DEF Mine, Carrying, Has, Single
    <2>3. NodeOK(n) /\ AcksOK(n)
        <3>1. Len(<<>>) = 0 /\ PoolSize \in Nat
            BY LinkAssumption
        <3> QED BY <2>1, <3>1, QuietAir DEF NodeOK, AcksOK
    <2>4. OneReading(n) /\ LeftBehind(n) /\ Kept(n)
        BY <2>1, <2>2 DEF OneReading, LeftBehind, Kept
    <2>5. Twin(n) /\ Once(n)
        BY <2>1, <2>2 DEF Twin, Once
    <2> QED BY <2>3, <2>4, <2>5 DEF Per
<1> QED BY <1>7, <1>8 DEF LinkInv

\* Whoever takes the next step.
LEMMA LinkSteps == LinkInv /\ [LinkNext]_linkVars => LinkInv'
<1> SUFFICES ASSUME LinkInv, [LinkNext]_linkVars PROVE LinkInv'
    OBVIOUS
<1>1. ASSUME NEW n \in Nodes, NodeSteps(n) PROVE LinkInv'
    <2>1. CASE \E x \in {"t", "o"} : Wakes(n, x)
        BY <2>1, WakesStep
    <2>2. CASE HearAck(n)
        BY <2>2, HearAckStep
    <2>3. CASE HearRediscover(n)
        BY <2>3, HearRediscoverStep
    <2>4. CASE IgnoreAck(n)
        BY <2>4, IgnoreAckStep
    <2>5. CASE AckTimeout(n)
        BY <2>5, AckTimeoutStep
    <2>6. CASE ScanFindsChannel(n) \/ ChannelMoves(n)
        BY <2>6, ChannelSteps
    <2>7. CASE ParkDiscover(n)
        BY <2>7, ParkDiscoverStep
    <2>8. CASE HearWelcome(n)
        BY <2>8, HearWelcomeStep
    <2>9. CASE SweepFails(n)
        BY <2>9, SweepFailsStep
    <2>10. CASE Receive(n)
        BY <2>10, ReceiveStep
    <2>11. CASE ColdStart(n)
        BY <2>11, ColdStartStep
    <2> QED BY <1>1, <2>1, <2>2, <2>3, <2>4, <2>5, <2>6, <2>7, <2>8, <2>9, <2>10, <2>11
            DEF NodeSteps
<1>2. CASE ServeDiscover
    BY <1>2, ServeDiscoverStep
<1>3. CASE TickFrame
    BY <1>3, TickFrameStep
<1>4. CASE \/ SaveBegins \/ SaveEnds \/ OpenWindow \/ CloseWindow \/ ForgetPeer
           \/ \E m \in Macs, id \in Ids : AddChecks(m, id)
    BY <1>4, SideSteps
<1>5. CASE AddDoes
    BY <1>5, AddDoesStep
<1>6. ASSUME NEW id \in Ids, ForgetSlot(id) PROVE LinkInv'
    BY <1>6, ForgetSlotStep
<1>7. CASE Restart
    BY <1>7, RestartStep
<1>8. CASE UNCHANGED linkVars
    <2>1. /\ node' = node /\ air' = air /\ table' = table /\ ring' = ring /\ fate' = fate
          /\ pending' = pending /\ file' = file /\ saving' = saving /\ web' = web
        BY <1>8 DEF linkVars, colVars, tableVars, saveVars, talkVars
    <2>2. Types'
        BY <2>1 DEF LinkInv, Types
    <2> QED BY <2>1, <2>2, RingAlone, Aside
<1> QED BY <1>1, <1>2, <1>3, <1>4, <1>5, <1>6, <1>7, <1>8 DEF LinkNext, TickSteps, WebSteps

\* The invariant holds of every behaviour: any number of nodes, of ids, of sequence
\* numbers, and any amount of trouble (EspNowIngest.cpp, node_espnow/src/main.cpp).
THEOREM LinkInvariant == LinkSpec => []LinkInv
<1>1. InitLink => LinkInv
    BY LinkStarts
<1>2. LinkInv /\ [LinkNext]_linkVars => LinkInv'
    BY LinkSteps
<1> QED BY <1>1, <1>2, PTL DEF LinkSpec

\* Custody: what a node took is in its backlog, in the frame it waits on, in the
\* collector's ring, or landed; or it was lost for one of five reasons.
THEOREM ReadingKept == LinkSpec => []ReadingInCustody
<1>1. LinkInv => ReadingInCustody
    BY InvImplies
<1> QED BY <1>1, LinkInvariant, PTL

\* A reading is stored a second time only when its ACK did not reach the node, or
\* the table forgot the node between a frame and its copy.
THEOREM StoredTwiceOnlyUnheard == LinkSpec => []StoredOnce
<1>1. LinkInv => StoredOnce
    BY InvImplies
<1> QED BY <1>1, LinkInvariant, PTL
=============================================================================
