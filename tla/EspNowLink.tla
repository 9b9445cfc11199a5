----------------------------- MODULE EspNowLink -----------------------------
(***************************************************************************)
(* Readings over ESP-NOW, and pairing: the node's wake                     *)
(* (src/node_espnow/src/main.cpp, Backlog.h, Link.cpp, Rescan.h) and the   *)
(* collector's receive callback, tick, node table and saved table          *)
(* (src/src/espnow/EspNowIngest.cpp, NodeTable.h), with the web handlers   *)
(* that add and forget nodes (src/src/web/ApiHandlers.cpp).                *)
(*                                                                         *)
(* Each node carries at most one reading that is followed to its end, the  *)
(* "t" of its backlog and frames; every other reading is an "o".           *)
(***************************************************************************)
EXTENDS Integers, Sequences, FiniteSets, SequencesExt

CONSTANTS
    Nodes,         \* radios that run the node firmware
    Strangers,     \* addresses somebody may type that no node has
    Ids,           \* node ids and, as many, slots of the table
    Wrap,          \* sequence numbers before the counter wraps
    PoolSize,      \* readings the backlog holds
    FrameCap,      \* buffered readings that fit a frame beside the live one
    RingRoom,      \* frames the receive ring holds
    RescanFails,   \* link.rescan_fails
    Spacing,       \* wakes in link.rescan_min_s
    Budgets,       \* how much trouble there may be, and how often the nodes wake
    Always,        \* of wakes: no end
    None

Macs == Nodes \cup Strangers
Half == Wrap \div 2
Rows == [mac : Macs, have : BOOLEAN, last : 0..Wrap - 1, own : BOOLEAN]
Troubles == {"lost", "late", "twice", "radio", "move", "cold",
             "saves", "restart", "busy", "forget", "add", "close"}

ASSUME LinkAssumption ==
    /\ Ids \subseteq Nat \ {0} /\ IsFiniteSet(Ids)
    /\ Wrap \in Nat /\ Wrap = 2 * Half /\ Half > 1
    /\ {PoolSize, FrameCap, RingRoom, RescanFails, Spacing} \subseteq Nat \ {0}
    /\ \A b \in Budgets : /\ b.home \in [Nodes -> Ids \cup {0}]
                          /\ \A n \in Nodes : b.wakes[n] \in Nat \cup {Always}
                          /\ \A k \in Troubles : b[k] \in Nat
    /\ None \notin Macs /\ None \notin Rows

VARIABLES
    node,      \* the node: its backlog, s_seq, link and wake
    air,       \* per node: the frame and the ACK on the air
    table,     \* s_nodes, by node id
    peers,     \* addresses the collector can decrypt
    ring,      \* s_ring
    pending,   \* s_pendingDiscover
    window,    \* espnowPairingActive()
    file,      \* the saved table
    dirty,     \* s_dirty
    saving,    \* the copy saveNodes() took and has not written yet
    web,       \* what the web task is in the middle of
    left,      \* trouble still to come
    fate,      \* per node: what became of the followed reading
    watch      \* per node: what the replay guard may go by; and address mix-ups

tableVars == <<table, peers>>
saveVars  == <<file, dirty, saving>>
talkVars  == <<ring, pending, window>>
colVars   == <<tableVars, saveVars, talkVars, web>>
linkVars  == <<node, air, colVars, left, fate, watch>>

Reasons == {"overflow", "cold start", "restart", "seq", "forgotten"}

\* A row of the table that was just claimed, or loaded: haveSeq is false.
NewRow(m) == [mac |-> m, have |-> FALSE, last |-> 0, own |-> TRUE]
Held(t)   == {i \in Ids : t[i] # None}
Macless   == [i \in Ids |-> IF table[i] = None THEN None ELSE table[i].mac]
Slots(m)  == {i \in Held(table) : table[i].mac = m}
Least(S)  == CHOOSE i \in S : \A j \in S : i <= j

Quiet     == [frame |-> FALSE, ack |-> None, welcome |-> 0]

\* The nodes of `home` were paired before, and the table saved: the collector
\* has just started.
Home(h) == [i \in Ids |-> IF \E n \in Nodes : h[n] = i
                            THEN CHOOSE n \in Nodes : h[n] = i ELSE None]
Loaded(f) == [i \in Ids |-> IF f[i] = None THEN None ELSE NewRow(f[i])]
Named(f)  == {f[i] : i \in Ids} \ {None}

InitLink ==
    /\ left \in Budgets
    /\ node = [n \in Nodes |->
                 [at |-> "asleep", id |-> left.home[n], seq |-> 0, first |-> TRUE, pool |-> <<>>,
                  live |-> "o", taken |-> 0, fails |-> 0, since |-> Spacing, astray |-> FALSE,
                  measured |-> FALSE]]
    /\ air = [n \in Nodes |-> Quiet]
    /\ file = Home(left.home) /\ table = Loaded(file) /\ peers = Named(file)
    /\ window = (peers = {})
    /\ ring = <<>> /\ pending = None
    /\ dirty = FALSE /\ saving = None
    /\ web = None
    /\ fate = [n \in Nodes |-> [landed |-> 0, why |-> {}, unheard |-> FALSE, strange |-> FALSE]]
    /\ watch = [behind |-> [n \in Nodes |-> 0], cold |-> [n \in Nodes |-> 0],
                excused |-> [n \in Nodes |-> FALSE], refused |-> [n \in Nodes |-> 0],
                lapsed |-> {}, again |-> FALSE, raced |-> FALSE, missed |-> FALSE]

OneWake(n)  == [left EXCEPT !.wakes[n] = IF @ = Always THEN @ ELSE @ - 1]
Spend(what) == left[what] > 0 /\ left' = [left EXCEPT ![what] = @ - 1]

-----------------------------------------------------------------------------
(* The node.                                                               *)

\* Fault: a full pool grows.
PushOver(pool, x) == Append(pool, x)
\* enbl::push: the oldest go until it fits.
Push(pool, x) == IF Len(pool) < PoolSize THEN Append(pool, x) ELSE Append(Tail(pool), x)
Shed(pool, x) == Len(pool) >= PoolSize /\ Head(pool) = "t"


\* Fault: nothing.
DropNone(r) == r.pool
\* enbl::dropOldest(s_backlog, taken) after an ACK.
Delivered(r) == SubSeq(r.pool, r.taken + 1, Len(r.pool))

Buffered(r) == [r EXCEPT !.pool = Push(@, r.live), !.live = "o", !.taken = 0, !.at = "asleep"]
WithShed(n, r) == IF Shed(r.pool, r.live) THEN [fate[n] EXCEPT !.why = @ \cup {"overflow"}]
                                          ELSE fate[n]
Carries(r)  == r.live = "t" \/ \E k \in 1..r.taken : r.pool[k] = "t"
Wanted(n)   == (node[n].seq + Wrap - 1) % Wrap      \* s_wantSeq
Known(r)    == r.id # 0

\* buildFrame() and esp_now_send(); s_seq++ whatever becomes of the frame.
Sent(r) == [r EXCEPT !.at = "sent", !.seq = (@ + 1) % Wrap,
                     !.taken = Min({FrameCap, Len(r.pool)})]

\* Wakes are ten seconds apart at the least, and loop() ticks all the time: a
\* node's own frame is out of the ring by its next wake.
TickKeepsUp(n) == \A k \in DOMAIN ring : ring[k].mac # n

\* wake(): a reading is taken, then the radio comes up.
Wakes(n, x) ==
    LET r == [node[n] EXCEPT !.live = x, !.measured = @ \/ x = "t",
                             !.since = Min({@ + 1, Spacing})] IN
    /\ node[n].at = "asleep" /\ TickKeepsUp(n)
    /\ x = "t" => ~node[n].measured
    /\ left.wakes[n] # 0
    /\ \/ /\ left.radio > 0                       \* linkBegin() fails
          /\ left' = [OneWake(n) EXCEPT !.radio = @ - 1]
          /\ node' = [node EXCEPT ![n] = Buffered(r)]
          /\ fate' = [fate EXCEPT ![n] = WithShed(n, r)]
          /\ UNCHANGED <<air, watch>>
       \/ /\ ~Known(r)
          /\ node' = [node EXCEPT ![n] = [r EXCEPT !.at = "pairing"]]
          /\ left' = OneWake(n)
          /\ UNCHANGED <<air, fate, watch>>
       \/ /\ Known(r)
          /\ node' = [node EXCEPT ![n] = Sent(r)]
          /\ air' = [air EXCEPT ![n].frame = TRUE]
          /\ watch' = [watch EXCEPT !.behind[n] = Min({@ + 1, Half})]
          /\ left' = OneWake(n)
          /\ UNCHANGED fate
    /\ UNCHANGED colVars

\* Fault: any ACK ends the wait.
AnyAck(n) == air[n].ack # None
\* Link.cpp onRecv: only the ACK of this wake's frame.
AckIsOurs(n) == air[n].ack # None /\ air[n].ack.seq = Wanted(n)

\* Fault: the streak is never long enough.
NotDue(r) == r.fails > RescanFails
\* A WELCOME or a scan is due: maybeRescan() and the spacing of the re-pairing.
Due(r) == r.fails >= RescanFails /\ r.since >= Spacing

\* The ACK of this frame: exactly what it carried leaves the backlog.
HearAck(n) ==
    /\ node[n].at = "sent" /\ AckIsOurs(n) /\ ~air[n].ack.rediscover
    /\ node' = [node EXCEPT ![n] =
                  [node[n] EXCEPT !.pool = Delivered(node[n]), !.live = "o", !.taken = 0,
                                  !.at = "asleep", !.fails = 0, !.first = FALSE,
                                  !.astray = FALSE]]
    /\ air' = [air EXCEPT ![n] = Quiet]
    /\ UNCHANGED <<colVars, left, fate, watch>>

\* The collector does not know this id: nothing was delivered; pair again,
\* at the rescan's pace.
HearRediscover(n) ==
    LET r == [Buffered(node[n]) EXCEPT !.fails = 0] IN
    /\ node[n].at = "sent" /\ AckIsOurs(n) /\ air[n].ack.rediscover
    /\ node' = [node EXCEPT ![n] = IF r.since >= Spacing
                                     THEN [r EXCEPT !.at = "repairing", !.since = 0] ELSE r]
    /\ fate' = [fate EXCEPT ![n] =
                  [WithShed(n, node[n]) EXCEPT !.unheard = @ \/ Carries(node[n])]]
    /\ air' = [air EXCEPT ![n] = Quiet]
    /\ UNCHANGED <<colVars, left, watch>>

\* The receive callback ignores an ACK left over from an earlier wake.
IgnoreAck(n) ==
    /\ node[n].at = "sent" /\ air[n].ack # None /\ ~AckIsOurs(n)
    /\ air' = [air EXCEPT ![n].ack = None]
    /\ UNCHANGED <<node, colVars, left, fate, watch>>

CanHear(n) == n \in peers /\ ~node[n].astray /\ Len(ring) < RingRoom

\* The window passes without an ACK: the frame or the ACK was lost, or the
\* collector could not take it; a late ACK may still be on its way.
AckTimeout(n) ==
    LET r == [Buffered(node[n]) EXCEPT !.fails = Min({@ + 1, RescanFails})] IN
    /\ node[n].at = "sent"
    /\ node' = [node EXCEPT ![n] = IF Due(r) THEN [r EXCEPT !.at = "repairing", !.since = 0]
                                             ELSE r]
    /\ fate' = [fate EXCEPT ![n] =
                  [WithShed(n, node[n]) EXCEPT !.unheard = @ \/ Carries(node[n])]]
    /\ \/ /\ IF air[n].ack = None /\ ~CanHear(n) THEN UNCHANGED left ELSE Spend("lost")
          /\ air' = [air EXCEPT ![n] = Quiet]
       \/ /\ AckIsOurs(n) /\ Spend("late")
          /\ air' = [air EXCEPT ![n] = [Quiet EXCEPT !.ack = air[n].ack]]
    /\ UNCHANGED <<colVars, watch>>

\* The scan hears the network on another channel: Action::MoveChannel.
ScanFindsChannel(n) ==
    /\ node[n].at = "repairing" /\ node[n].astray
    /\ node' = [node EXCEPT ![n].at = "asleep", ![n].astray = FALSE]
    /\ UNCHANGED <<air, colVars, left, fate, watch>>

\* A DISCOVER of the sweep reaches the collector: one is parked at a time.
ParkDiscover(n) ==
    /\ node[n].at \in {"pairing", "repairing"} /\ pending = None
    /\ pending' = n
    /\ UNCHANGED <<node, air, tableVars, saveVars, ring, window, web, left, fate, watch>>

LapsedBy(n) == IF table[air[n].welcome] # None /\ table[air[n].welcome].mac = n
                 THEN watch.lapsed \ {n} ELSE watch.lapsed \cup {n}

\* The WELCOME: a node that had no collector goes on to report in this wake.
HearWelcome(n) ==
    LET r == [node[n] EXCEPT !.id = air[n].welcome, !.fails = 0, !.astray = FALSE] IN
    /\ node[n].at \in {"pairing", "repairing"}
    /\ air[n].welcome # 0
    /\ IF node[n].at = "pairing"
         THEN /\ node' = [node EXCEPT ![n] = Sent(r)]
              /\ air' = [air EXCEPT ![n] = [Quiet EXCEPT !.frame = TRUE]]
              /\ watch' = [watch EXCEPT !.behind[n] = Min({@ + 1, Half}),
                                        !.lapsed = LapsedBy(n)]
         ELSE /\ node' = [node EXCEPT ![n] = [r EXCEPT !.at = "asleep"]]
              /\ air' = [air EXCEPT ![n] = Quiet]
              /\ watch' = [watch EXCEPT !.lapsed = LapsedBy(n)]
    /\ UNCHANGED <<colVars, left, fate>>

WouldAnswer(n) == pending = n \/ (pending = None /\ (window \/ Slots(n) # {}))

\* Nobody answered on any channel.
SweepFails(n) ==
    /\ node[n].at \in {"pairing", "repairing"}
    /\ IF air[n].welcome = 0 /\ ~WouldAnswer(n) THEN UNCHANGED left ELSE Spend("lost")
    /\ air' = [air EXCEPT ![n] = Quiet]
    /\ IF node[n].at = "pairing"
         THEN /\ node' = [node EXCEPT ![n] = Buffered(node[n])]
              /\ fate' = [fate EXCEPT ![n] = WithShed(n, node[n])]
         ELSE /\ node' = [node EXCEPT ![n].at = "asleep"]
              /\ UNCHANGED fate
    /\ UNCHANGED <<colVars, watch>>

\* A power cycle, panic or brownout: the RTC state starts over; the link is
\* in NVS and stays.
ColdStart(n) ==
    /\ Spend("cold")
    /\ node' = [node EXCEPT ![n] = [@ EXCEPT !.at = "asleep", !.seq = 0, !.first = TRUE,
                                             !.pool = <<>>, !.live = "o", !.taken = 0,
                                             !.fails = 0, !.since = Spacing]]
    /\ air' = [air EXCEPT ![n] = Quiet]
    /\ fate' = [fate EXCEPT ![n].why =
                  IF node[n].live = "t" \/ "t" \in ToSet(node[n].pool)
                    THEN @ \cup {"cold start"} ELSE @]
    /\ watch' = [watch EXCEPT !.cold[n] = @ + 1]
    /\ ring' = [k \in DOMAIN ring |-> IF ring[k].mac = n THEN [ring[k] EXCEPT !.old = TRUE]
                                                         ELSE ring[k]]
    /\ UNCHANGED <<tableVars, saveVars, pending, window, web>>

\* The router picks another channel while the node sleeps.
ChannelMoves(n) ==
    /\ Spend("move")
    /\ node[n].at = "asleep" /\ Known(node[n])
    /\ node' = [node EXCEPT ![n].astray = TRUE]
    /\ UNCHANGED <<air, colVars, fate, watch>>

-----------------------------------------------------------------------------
(* The collector's receive callback.                                       *)

\* ringPush(): false when the ring is full.
Room(k) == Len(ring) + k <= RingRoom

TheFrame(n) == [mac |-> n, id |-> node[n].id, seq |-> Wanted(n), first |-> node[n].first,
                t |-> Carries(node[n]), copy |-> FALSE, old |-> FALSE,
                late |-> \/ table[node[n].id] = None
                         \/ web # None /\ web.op = "forget" /\ web.mac = n]

\* Queue first, acknowledge second; the radio's own retry may deliver twice.
Receive(n) ==
    /\ air[n].frame /\ CanHear(n)
    /\ \E copies \in 1..2 :
         /\ Room(copies)
         /\ IF copies = 1 THEN UNCHANGED left ELSE Spend("twice")
         /\ ring' = SubSeq(ring \o <<TheFrame(n), [TheFrame(n) EXCEPT !.copy = TRUE]>>, 1,
                           Len(ring) + copies)
    /\ air' = [air EXCEPT ![n].frame = FALSE,
                          ![n].ack = [seq |-> Wanted(n),
                                      rediscover |-> table[node[n].id] = None]]
    /\ UNCHANGED <<node, tableVars, saveVars, pending, window, web, fate, watch>>

-----------------------------------------------------------------------------
(* The tick.                                                               *)

\* Fault: a node the table knows is given a second slot.
AnySlot(m) == IF Held(table) = Ids THEN 0 ELSE Least(Ids \ Held(table))
\* Fault: the first id, taken or not.
FirstSlot(m) == IF Slots(m) # {} THEN Least(Slots(m)) ELSE Least(Ids)
\* The slot this MAC already holds, else the first free id; 0 when full.
SlotOf(m) == IF Slots(m) # {} THEN Least(Slots(m))
             ELSE IF Held(table) = Ids THEN 0 ELSE Least(Ids \ Held(table))

\* servicePendingDiscover()
Adopt(n, id) ==
    /\ table' = [table EXCEPT ![id] = IF @ # None /\ @.mac = n THEN @ ELSE NewRow(n)]
    /\ peers' = peers \cup {n}
    /\ air' = [air EXCEPT ![n].welcome = IF node[n].at \in {"pairing", "repairing"}
                                          THEN id ELSE 0]
    /\ dirty' = TRUE
    /\ watch' = [watch EXCEPT !.missed = @ \/ saving # None]

ServeDiscover ==
    /\ pending # None
    /\ pending' = None
    /\ IF (window \/ Slots(pending) # {}) /\ SlotOf(pending) # 0
         THEN Adopt(pending, SlotOf(pending))
         ELSE UNCHANGED <<table, peers, air, dirty, watch>>
    /\ UNCHANGED <<node, file, saving, ring, window, web, left, fate>>

\* Fault: the first-boot escape comes before the test for a repeat.
EscapeFirst(row, f) ==
    IF ~row.have THEN "new"
    ELSE LET delta == (f.seq + Wrap - row.last) % Wrap IN
         IF f.first THEN "reset"
         ELSE IF delta = 0 THEN "duplicate"
         ELSE IF delta < Half THEN "new" ELSE "stale"
\* Fault: without the escape a node that starts over is not heard.
NoEscape(row, f) ==
    IF ~row.have THEN "new"
    ELSE LET delta == (f.seq + Wrap - row.last) % Wrap IN
         IF delta = 0 THEN "duplicate" ELSE IF delta < Half THEN "new" ELSE "stale"
\* espnowSeqCheck()
SeqCheck(row, f) ==
    IF ~row.have THEN "new"
    ELSE LET delta == (f.seq + Wrap - row.last) % Wrap IN
         IF delta = 0 THEN "duplicate"
         ELSE IF delta < Half THEN "new"
         ELSE IF f.first THEN "reset" ELSE "stale"

\* Why the guard may refuse f: another radio has used the slot, the node was
\* out of touch for half the range, or the id was given away meanwhile.
Excusable(row, f) ==
    \/ ~row.own \/ row.mac # f.mac \/ f.late \/ watch.excused[f.mac]
    \/ watch.behind[f.mac] >= Half

Accept(f) ==
    /\ table' = [table EXCEPT ![f.id] = [mac |-> @.mac, have |-> TRUE, last |-> f.seq,
                                         own |-> @.mac = f.mac]]
    /\ fate' = [fate EXCEPT
                  ![f.mac].landed = IF f.t THEN Min({@ + 1, 2}) ELSE @,
                  ![f.mac].why = IF f.t /\ f.copy /\ f.late THEN @ \cup {"forgotten"} ELSE @,
                  ![f.mac].strange = @ \/ (table[f.id].mac # f.mac /\ ~f.late
                                             /\ f.mac \notin watch.lapsed)]
    /\ watch' = [watch EXCEPT
                   !.behind[f.mac] = IF f.old THEN @
                                     ELSE (node[f.mac].seq + Wrap - f.seq - 1) % Wrap,
                   !.cold[f.mac] = IF f.old THEN @ ELSE 0,
                   !.excused[f.mac] = f.old /\ @,
                   !.refused[f.mac] = IF f.old THEN @ ELSE 0,
                   !.again = @ \/ (f.copy /\ ~f.late)]

Refuse(f) ==
    /\ fate' = [fate EXCEPT ![f.mac].why = IF f.t THEN @ \cup {"seq"} ELSE @]
    /\ watch' = IF f.copy THEN watch
                ELSE IF Excusable(table[f.id], f)
                  THEN [watch EXCEPT !.excused[f.mac] = TRUE]
                  ELSE [watch EXCEPT !.refused[f.mac] = Min({@ + 1, 3})]
    /\ UNCHANGED table

\* acceptFrame() for the next frame of the ring. By node id: the MAC is not
\* compared.
TickFrame ==
    LET f == Head(ring) IN
    /\ ring # <<>>
    /\ ring' = Tail(ring)
    /\ IF table[f.id] = None
         THEN /\ fate' = [fate EXCEPT ![f.mac].why = IF f.t THEN @ \cup {"forgotten"} ELSE @]
              /\ UNCHANGED <<table, watch>>
         ELSE IF SeqCheck(table[f.id], f) \in {"new", "reset"} THEN Accept(f) ELSE Refuse(f)
    /\ UNCHANGED <<node, air, peers, saveVars, pending, window, web, left>>

\* saveNodes(): a copy under the lock, then the file, then s_dirty = false.
SaveBegins ==
    /\ dirty /\ saving = None /\ Spend("saves")
    /\ saving' = Macless
    /\ UNCHANGED <<node, air, tableVars, file, dirty, talkVars, web, fate, watch>>

\* Fault: a failed write is not tried again.
SaveGivesUp ==
    /\ saving # None
    /\ saving' = None
    /\ dirty' = FALSE
    /\ \/ file' = saving /\ UNCHANGED left
       \/ Spend("busy") /\ UNCHANGED file
    /\ UNCHANGED <<node, air, tableVars, talkVars, web, fate, watch>>
SaveEnds ==
    /\ saving # None
    /\ saving' = None
    /\ \/ file' = saving /\ dirty' = FALSE /\ UNCHANGED left
       \/ Spend("busy") /\ UNCHANGED <<file, dirty>>     \* the lock, or the open, fails
    /\ UNCHANGED <<node, air, tableVars, talkVars, web, fate, watch>>

-----------------------------------------------------------------------------
(* The web task, the pairing window and a restart.                         *)

OpenWindow ==
    /\ ~window
    /\ window' = TRUE
    /\ UNCHANGED <<node, air, tableVars, saveVars, ring, pending, web, left, fate, watch>>

CloseWindow ==
    /\ window /\ Spend("close")
    /\ window' = FALSE
    /\ UNCHANGED <<node, air, tableVars, saveVars, ring, pending, web, fate, watch>>

\* handleEspnowAdd() looks for the MAC under another id in a copy of the table ...
AddChecks(m, id) ==
    /\ web = None /\ Spend("add")
    /\ Slots(m) \subseteq {id}
    /\ web' = [op |-> "add", mac |-> m, id |-> id]
    /\ UNCHANGED <<node, air, tableVars, saveVars, talkVars, fate, watch>>

\* ... and espnowAddNode() takes the peer and the slot. An id that is taken
\* changes hands: its MAC is overwritten, and nothing else of it.
AddDoes ==
    /\ web # None /\ web.op = "add"
    /\ web' = None
    /\ peers' = peers \cup {web.mac}
    /\ table' = [table EXCEPT ![web.id] = IF @ = None THEN NewRow(web.mac)
                                          ELSE [@ EXCEPT !.mac = web.mac,
                                                         !.own = table[web.id].own
                                                           /\ table[web.id].mac = web.mac]]
    /\ dirty' = TRUE
    /\ watch' = [watch EXCEPT !.missed = @ \/ saving # None,
                              !.raced = @ \/ ~(Slots(web.mac) \subseteq {web.id}),
                              !.lapsed = @ \cup {n \in Nodes : node[n].id = web.id /\ n # web.mac}]
    /\ UNCHANGED <<node, air, file, saving, talkVars, left, fate>>

\* espnowRemoveNode(): the slot under the lock, the peer after it.
ForgetSlot(id) ==
    /\ web = None /\ table[id] # None /\ Spend("forget")
    /\ web' = [op |-> "forget", mac |-> table[id].mac, id |-> id]
    /\ table' = [table EXCEPT ![id] = None]
    /\ ring' = [k \in DOMAIN ring |-> IF ring[k].id = id THEN [ring[k] EXCEPT !.late = TRUE]
                                                         ELSE ring[k]]
    /\ watch' = [watch EXCEPT !.lapsed = @ \cup {n \in Nodes : node[n].id = id}]
    /\ UNCHANGED <<node, air, peers, saveVars, pending, window, fate>>

ForgetPeer ==
    /\ web # None /\ web.op = "forget"
    /\ web' = None
    /\ peers' = peers \ {web.mac}
    /\ dirty' = TRUE
    /\ watch' = [watch EXCEPT !.missed = @ \/ saving # None]
    /\ UNCHANGED <<node, air, table, file, saving, talkVars, left, fate>>

\* The collector restarts. loadNodes() starts over with an empty table when
\* the file system is busy for two seconds.
Restart ==
    \E loaded \in {file, [i \in Ids |-> None]} :
    /\ left.restart > 0
    /\ loaded # file => left.busy > 0
    /\ left' = [left EXCEPT !.restart = @ - 1, !.busy = IF loaded = file THEN @ ELSE @ - 1]
    /\ table' = Loaded(loaded) /\ peers' = Named(loaded)
    /\ window' = (peers' = {})
    /\ ring' = <<>> /\ pending' = None /\ web' = None
    /\ dirty' = FALSE /\ saving' = None
    /\ air' = [n \in Nodes |-> [air[n] EXCEPT !.welcome = 0]]
    /\ fate' = [n \in Nodes |-> IF \E k \in DOMAIN ring : ring[k].mac = n /\ ring[k].t
                                THEN [fate[n] EXCEPT !.why = @ \cup {"restart"}] ELSE fate[n]]
    /\ watch' = [watch EXCEPT !.missed = @ \/ dirty \/ saving # None \/ loaded # file,
                              !.lapsed = @ \cup {n \in Nodes : node[n].id # 0 /\
                                                             loaded[node[n].id] # n}]
    /\ UNCHANGED <<node, file>>

-----------------------------------------------------------------------------
NodeSteps(n) ==
    \/ \E x \in {"t", "o"} : Wakes(n, x)
    \/ HearAck(n) \/ HearRediscover(n) \/ IgnoreAck(n) \/ AckTimeout(n)
    \/ ScanFindsChannel(n) \/ ParkDiscover(n) \/ HearWelcome(n) \/ SweepFails(n)
    \/ Receive(n) \/ ColdStart(n) \/ ChannelMoves(n)
TickSteps == ServeDiscover \/ TickFrame \/ SaveBegins \/ SaveEnds
WebSteps  == \/ OpenWindow \/ CloseWindow
             \/ \E m \in Macs, id \in Ids : AddChecks(m, id)
             \/ AddDoes
             \/ \E id \in Ids : ForgetSlot(id)
             \/ ForgetPeer
LinkNext == (\E n \in Nodes : NodeSteps(n)) \/ TickSteps \/ WebSteps \/ Restart

\* The node wakes by its timer, its waits end, the radio delivers, loop()
\* ticks, a handler finishes, and somebody opens the window again.
LinkFairness ==
    /\ \A n \in Nodes :
         /\ WF_linkVars(\E x \in {"t", "o"} : Wakes(n, x))
         /\ WF_linkVars(HearAck(n) \/ HearRediscover(n) \/ IgnoreAck(n) \/ AckTimeout(n))
         /\ WF_linkVars(ParkDiscover(n)) /\ WF_linkVars(HearWelcome(n))
         /\ WF_linkVars(SweepFails(n) \/ ScanFindsChannel(n)) /\ WF_linkVars(Receive(n))
    /\ WF_linkVars(ServeDiscover) /\ WF_linkVars(TickFrame)
    /\ WF_linkVars(SaveBegins) /\ WF_linkVars(SaveEnds)
    /\ WF_linkVars(AddDoes) /\ WF_linkVars(ForgetPeer) /\ WF_linkVars(OpenWindow)

LinkSpec == InitLink /\ [][LinkNext]_linkVars /\ LinkFairness

-----------------------------------------------------------------------------
(* Properties.                                                             *)

\* Every variable keeps its type.
LinkTypeOK ==
    /\ \A n \in Nodes :
         /\ node[n].at \in {"asleep", "sent", "pairing", "repairing"}
         /\ node[n].id \in Ids \cup {0} /\ node[n].seq \in 0..Wrap - 1
         /\ Len(node[n].pool) <= PoolSize /\ ToSet(node[n].pool) \subseteq {"t", "o"}
         /\ node[n].taken <= Len(node[n].pool) /\ node[n].fails <= RescanFails
         /\ air[n].welcome \in Ids \cup {0}
         /\ fate[n].landed \in 0..2 /\ fate[n].why \subseteq Reasons
    /\ \A i \in Ids : table[i] \in Rows \cup {None}
    /\ peers \subseteq Macs /\ pending \in Nodes \cup {None}
    /\ Len(ring) <= RingRoom
    /\ \A i \in Ids : file[i] \in Macs \cup {None}
    /\ \A k \in Troubles : left[k] \in Nat

AtNode(n) == node[n].live = "t" \/ "t" \in ToSet(node[n].pool)
InRing(n) == \E k \in DOMAIN ring : ring[k].mac = n /\ ring[k].t

\* Custody: a reading the node took is in its backlog, in the frame it is
\* waiting on, in the collector's ring or landed, unless the backlog overflowed,
\* the node started over, the collector restarted with it in RAM, its id was
\* forgotten, or the replay guard refused it.
ReadingInCustody ==
    \A n \in Nodes : node[n].measured =>
        AtNode(n) \/ InRing(n) \/ fate[n].landed > 0 \/ fate[n].why # {}

\* A reading lands a second time only when the node could not know of the first:
\* its ACK was lost or late, or told it to pair again; or when the table forgot
\* the node, and the sequence number it had, between a frame and its second copy.
StoredOnce == \A n \in Nodes :
    fate[n].landed > 1 => fate[n].unheard \/ "forgotten" \in fate[n].why

\* The replay guard refuses a node that keeps being heard at most once for each
\* cold start, and never after another reason: not at the wrap, and not when the
\* collector restarted or the id was handed out again.
GuardCostsOne == \A n \in Nodes : watch.refused[n] <= watch.cold[n]

\* The radio's second copy of a frame is never taken for a new one.
CopyRefused == ~watch.again

\* A reading is filed under the node that took it as long as the table has not
\* forgotten, lost or handed on the id the node was given.
OwnName == \A n \in Nodes : ~fate[n].strange

\* One radio has one slot, unless a pairing went through while an address was
\* being added.
OneSlotPerRadio == watch.raced \/ \A m \in Macs : Cardinality(Slots(m)) <= 1

\* What the table holds is in the file or waits to be saved, unless it changed
\* while an older copy was being written.
TableSaved == dirty \/ web # None \/ watch.missed \/ file = Macless

\* However the link was lost - the table, the channel, the id, a WELCOME - the node
\* finds its way back: time and again its backlog is empty.
Drains == \A n \in Nodes : []<>(node[n].pool = <<>> \/ left.wakes[n] # Always)

\* The comment above ringPush() in onRecv: an ACK tells the node its report landed.
AckMeansLanded ==
    [][\A n \in Nodes : "seq" \in fate[n].why' /\ "seq" \notin fate[n].why
          => AtNode(n) \/ fate[n].landed > 0]_linkVars
=============================================================================
