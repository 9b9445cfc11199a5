---------------------------- MODULE StoreForward ----------------------------
(***************************************************************************)
(* From a WiFi node's backlog to the collector's sensor task:              *)
(*   node/src: loop(), collectReading(), flushBacklog(), postBatch() and   *)
(*     the ring of Backlog.h;                                              *)
(*   src/web/IngestHandler.cpp: POST /api/ingest on the async web task;    *)
(*   src/sensors: RemoteIngest and the drain of RemoteNodeSensor;          *)
(*   src/espnow: landReading(), a second writer of the same queue, which   *)
(*     runs in loop() while a batch is being walked.                       *)
(* Requests and replies are lost, both sides restart, and the collector    *)
(* starts without a clock.  A tick of `clock' is one sampling period.      *)
(***************************************************************************)
EXTENDS RemoteIngest

CONSTANTS
    WifiNodes,         \* senders that POST; the others are ESP-NOW nodes
    Listened,          \* senders with a `remote' sensor configured
    Report,            \* the metrics a node records in one cycle, in order
    Capacity,          \* NodeBacklog::CAPACITY
    BatchReadings,     \* NODE_BATCH_READINGS
    BatchesPerCycle,   \* NODE_BATCHES_PER_CYCLE
    LiveAge,           \* IngestBatch::LIVE_AGE_S, in ticks
    DrainRoom,         \* readings of history one sensor tick takes
    TrimMost,          \* readings cut from a batch whose body is too long
    UnreadableReplies, \* whether a 200 may reach the node with an unreadable body
    MaxClock, MaxEsp, MaxCrash  \* bounds of the exploration

ASSUME StoreForwardAssumption ==
    /\ WifiNodes \subseteq Senders
    /\ Listened \subseteq Senders
    /\ Report \in Seq(Metrics)
    /\ Capacity \in Nat \ {0} /\ BatchReadings \in Nat \ {0}
    /\ BatchesPerCycle \in Nat \ {0} /\ DrainRoom \in Nat \ {0}
    /\ LiveAge \in Nat
    /\ TrimMost \in Nat
    /\ UnreadableReplies \in BOOLEAN
    /\ MaxClock \in Nat /\ MaxEsp \in Nat /\ MaxCrash \in Nat

\* No two sensors publish the same metric: validate() refuses such a
\* configuration ("metric %s is already in use").
ASSUME ReportAssumption == \A i, j \in DOMAIN Report : Report[i] = Report[j] => i = j

VARIABLES
    clock,     \* time
    synced,    \* time() >= 1e9 on the collector
    ring,      \* ring[n]: s_backlog, oldest first
    node,      \* node[n]: where loop() is, batches left, readings in the POST
    request,   \* request[n]: a POST the collector has not begun
    reply,     \* reply[n]: an answer the node has not read
    job,       \* the POST handleIngestPayload() is walking
    \* what happened, for the properties
    taken,     \* readings the WiFi nodes recorded
    current,   \* WiFi readings that reached the mailbox
    recorded,  \* WiFi readings handed to the sensor task out of the queue
    lost,      \* WiFi readings given up with a reason the code knows
    unread,    \* readings dropped on the strength of an unreadable 200
    espPuts, crashes

nodeVars    == <<ring, node>>
netVars     == <<request, reply>>
ledgerVars  == <<taken, current, recorded, lost, unread>>
boundVars   == <<espPuts, crashes>>
vars == <<clock, synced, nodeVars, netVars, job, ingestVars, ledgerVars, boundVars>>

\* The collector's date when its clock is set; no reading is dated 0.
NowEpoch == clock + 1

\* The WiFi nodes' readings among the queue entries S.
OfWifi(S) ==
    {[n |-> Owner(hist[i]), m |-> pairs[hist[i].slot][2], t |-> hist[i].t] :
        i \in {j \in S : Owner(hist[j]) \in WifiNodes}}

EspNodes == Senders \ WifiNodes
Reading  == [n : Senders, m : Metrics, t : Nat]
Offered  == [m : Metrics, t : Nat, age : Nat]     \* one element of "readings"

NodeState == [stage : {"sleep", "flush", "wait"}, batches : Nat, sent : Nat]
Asleep    == [stage |-> "sleep", batches |-> 0, sent |-> 0]
Reply     == [ok : BOOLEAN, accepted : Nat \cup {Nothing}]

\* open: the node is still on the line.  raced and shed count, over this
\* batch, the queue insertions by ESP-NOW and the readings shed by anyone.
Job == [n : WifiNodes, batch : Seq(Offered), pass : {"live", "prefix", "answer"},
        i : Nat \ {0}, room : Int, base : Nat, clocked : BOOLEAN, accepted : Nat,
        open : BOOLEAN, raced : Nat, shed : Nat]

Init ==
    /\ IngestInit
    /\ clock = 0
    /\ synced = FALSE
    /\ ring = [n \in WifiNodes |-> <<>>]
    /\ node = [n \in WifiNodes |-> Asleep]
    /\ request = [n \in WifiNodes |-> Nothing]
    /\ reply = [n \in WifiNodes |-> Nothing]
    /\ job = Nothing
    /\ taken = {} /\ current = {} /\ recorded = {} /\ lost = {} /\ unread = {}
    /\ espPuts = 0 /\ crashes = 0

-----------------------------------------------------------------------------
(* The node.                                                               *)

\* Fault: a full ring grows.
PushedUnbounded(r, new) == r \o new

\* Ring::push of several readings: the oldest fall out at the front.
Pushed(r, new) ==
    LET all == r \o new IN
    IF Len(all) > Capacity THEN SubSeq(all, Len(all) - Capacity + 1, Len(all)) ELSE all

Overrun(r, new) ==
    LET all == r \o new IN
    {all[i] : i \in 1..(IF Len(all) > Capacity THEN Len(all) - Capacity ELSE 0)}

Sample(n) == [i \in DOMAIN Report |-> [n |-> n, m |-> Report[i], t |-> clock]]

\* A cycle of loop(): the sensors are read and remembered before the network
\* is looked at; without WiFi nothing is posted.
Wake(n) ==
    /\ node[n].stage = "sleep"
    /\ \/ /\ \A r \in taken : ~(r.n = n /\ r.t = clock)
          /\ ring' = [ring EXCEPT ![n] = Pushed(@, Sample(n))]
          /\ taken' = taken \cup {Sample(n)[i] : i \in DOMAIN Report}
          /\ lost' = lost \cup Overrun(ring[n], Sample(n))
       \/ UNCHANGED <<ring, taken, lost>>           \* no sensor answered
    /\ \/ node' = [node EXCEPT ![n] = [stage |-> "flush", batches |-> BatchesPerCycle, sent |-> 0]]
       \/ UNCHANGED node                            \* ensureWifi() failed
    /\ UNCHANGED <<clock, synced, netVars, job, ingestVars, current, recorded, unread, boundVars>>

SendCount(n) == IF Len(ring[n]) < BatchReadings THEN Len(ring[n]) ELSE BatchReadings

\* postBatch() up to http.POST(): the front of the ring, each reading with its
\* age.  Fewer than SendCount readings go when the body would be too long, but
\* never none.
Post(n) ==
    /\ node[n].stage = "flush"
    /\ ring[n] # <<>>
    /\ \E k \in 1..SendCount(n) :
          /\ k >= SendCount(n) - TrimMost
          /\ node' = [node EXCEPT ![n] = [stage |-> "wait", batches |-> @.batches, sent |-> k]]
          /\ request' = [request EXCEPT ![n] =
                [i \in 1..k |-> [m |-> ring[n][i].m, t |-> ring[n][i].t,
                                 age |-> clock - ring[n][i].t]]]
    /\ UNCHANGED <<clock, synced, ring, reply, job, ingestVars, ledgerVars, boundVars>>

\* A POST with no readings carries only the config exchange.
PostNothing(n) ==
    /\ node[n].stage = "flush"
    /\ ring[n] = <<>>
    /\ node' = [node EXCEPT ![n] = Asleep]
    /\ UNCHANGED <<clock, synced, ring, netVars, job, ingestVars, ledgerVars, boundVars>>

\* Ring::drop(): no more than there is.
Dropped(n, k) == {ring[n][i] : i \in {j \in DOMAIN ring[n] : j <= k}}

\* Fault: every 200 counts for the whole batch.
ConsumedByStatus(n) == node[n].sent

\* Fault: the last reading taken is not counted.
ConsumedShort(n) == IF reply[n].accepted \in {0, Nothing} THEN 0 ELSE reply[n].accepted - 1

\* The number of readings postBatch() takes as consumed: what the collector
\* says, cut to the batch; the whole batch when it cannot read the body.
Consumed(n) ==
    IF reply[n].accepted = Nothing \/ reply[n].accepted > node[n].sent
    THEN node[n].sent
    ELSE reply[n].accepted

\* The rest of postBatch() and the loop of flushBacklog(): drop the consumed
\* prefix; go on only when the whole batch was taken.
ReadReply(n) ==
    /\ node[n].stage = "wait"
    /\ reply[n] # Nothing
    /\ IF reply[n].ok
       THEN LET k    == Consumed(n)
                left == SubSeq(ring[n], k + 1, Len(ring[n]))
                more == k = node[n].sent /\ node[n].batches > 1 /\ left # <<>>
            IN  /\ ring' = [ring EXCEPT ![n] = left]
                /\ node' = [node EXCEPT ![n] =
                      IF more THEN [stage |-> "flush", batches |-> @.batches - 1, sent |-> 0]
                              ELSE Asleep]
                /\ unread' = IF reply[n].accepted = Nothing
                             THEN unread \cup Dropped(n, k) ELSE unread
       ELSE /\ node' = [node EXCEPT ![n] = Asleep]
            /\ UNCHANGED <<ring, unread>>
    /\ reply' = [reply EXCEPT ![n] = Nothing]
    /\ UNCHANGED <<clock, synced, request, job, ingestVars, taken, current, recorded, lost, boundVars>>

HungUp(n) == IF job = Nothing THEN Nothing
             ELSE IF job.n = n THEN [job EXCEPT !.open = FALSE] ELSE job

\* http.setTimeout(5000) runs out, or the request or the reply is lost: the
\* connection is closed and everything stays in the ring.
Timeout(n) ==
    /\ node[n].stage = "wait"
    /\ node' = [node EXCEPT ![n] = Asleep]
    /\ request' = [request EXCEPT ![n] = Nothing]
    /\ reply' = [reply EXCEPT ![n] = Nothing]
    /\ job' = HungUp(n)
    /\ UNCHANGED <<clock, synced, ring, ingestVars, ledgerVars, boundVars>>

\* The backlog is RAM and does not survive a restart of the node.
RestartNode(n) ==
    /\ crashes < MaxCrash
    /\ crashes' = crashes + 1
    /\ lost' = lost \cup {ring[n][i] : i \in DOMAIN ring[n]}
    /\ ring' = [ring EXCEPT ![n] = <<>>]
    /\ node' = [node EXCEPT ![n] = Asleep]
    /\ request' = [request EXCEPT ![n] = Nothing]
    /\ reply' = [reply EXCEPT ![n] = Nothing]
    /\ job' = HungUp(n)
    /\ UNCHANGED <<clock, synced, ingestVars, taken, current, recorded, unread, espPuts>>

-----------------------------------------------------------------------------
(* POST /api/ingest.                                                       *)

\* findNewestPerMetric(): no later element of the batch has the metric.
Newest(b, i) == \A j \in DOMAIN b : j > i => b[j].m # b[i].m
IsLive(b, i) == Newest(b, i) /\ b[i].age <= LiveAge

IsBackfill(b, i) == ~IsLive(b, i) /\ b[i].age > 0 /\ job.clocked /\ job.base > b[i].age

\* Fault: the age is taken from the time of the put.
WhenNow(b, i) == NowEpoch - b[i].age

\* The collector's own date for the reading.
When(b, i) == job.base - b[i].age

\* Up to the first pass: the clock and the room are read once.
Begin(n) ==
    /\ job = Nothing
    /\ request[n] # Nothing
    /\ job' = [n |-> n, batch |-> request[n], pass |-> "live", i |-> 1,
               room |-> HistoryRoom, base |-> NowEpoch, clocked |-> synced, accepted |-> 0,
               open |-> TRUE, raced |-> 0, shed |-> 0]
    /\ request' = [request EXCEPT ![n] = Nothing]
    /\ UNCHANGED <<clock, synced, nodeVars, reply, ingestVars, ledgerVars, boundVars>>

\* 401, 429, 400, 413: the batch is not looked at.
Refuse(n) ==
    /\ job = Nothing
    /\ request[n] # Nothing
    /\ request' = [request EXCEPT ![n] = Nothing]
    /\ reply' = [reply EXCEPT ![n] = [ok |-> FALSE, accepted |-> Nothing]]
    /\ UNCHANGED <<clock, synced, nodeVars, job, ingestVars, ledgerVars, boundVars>>

Walking(pass) == job # Nothing /\ job.pass = pass /\ job.i <= Len(job.batch)
Here          == job.batch[job.i]
HereReading   == [n |-> job.n, m |-> Here.m, t |-> Here.t]

\* The mailbox write of either pass; a pair without a slot is rejected.
StoreCurrent ==
    /\ Put(job.n, Here.m, Here.t)
    /\ current' = IF HasSlot(job.n, Here.m) THEN current \cup {HereReading} ELSE current
    /\ lost' = IF HasSlot(job.n, Here.m) THEN lost ELSE lost \cup {HereReading}

\* Fault: no current values while the queue is full.
LivePassWithRoom ==
    /\ Walking("live")
    /\ job' = [job EXCEPT !.i = @ + 1]
    /\ IF IsLive(job.batch, job.i) /\ job.room > 0
       THEN StoreCurrent
       ELSE UNCHANGED <<ingestVars, current, lost>>
    /\ UNCHANGED <<clock, synced, nodeVars, netVars, taken, recorded, unread, boundVars>>

\* First pass: every current value of the batch, whatever the queue's state.
LivePass ==
    /\ Walking("live")
    /\ job' = [job EXCEPT !.i = @ + 1]
    /\ IF IsLive(job.batch, job.i)
       THEN StoreCurrent
       ELSE UNCHANGED <<ingestVars, current, lost>>
    /\ UNCHANGED <<clock, synced, nodeVars, netVars, taken, recorded, unread, boundVars>>

LivePassEnds ==
    /\ job # Nothing /\ job.pass = "live" /\ job.i > Len(job.batch)
    /\ job' = [job EXCEPT !.pass = "prefix", !.i = 1]
    /\ UNCHANGED <<clock, synced, nodeVars, netVars, ingestVars, ledgerVars, boundVars>>

\* Fault: readings without a date are not held.
MustHoldForRoom == IsBackfill(job.batch, job.i) /\ job.room <= 0

\* Fault: one reading too many before the walk stops.
MustHoldLate ==
    \/ ~IsLive(job.batch, job.i) /\ Here.age > 0 /\ ~job.clocked
    \/ IsBackfill(job.batch, job.i) /\ job.room < 0

\* Second pass stops at the first reading that has no date or no room.
MustHold ==
    \/ ~IsLive(job.batch, job.i) /\ Here.age > 0 /\ ~job.clocked
    \/ IsBackfill(job.batch, job.i) /\ job.room <= 0

HoldRest ==
    /\ Walking("prefix")
    /\ MustHold
    /\ job' = [job EXCEPT !.pass = "answer"]
    /\ UNCHANGED <<clock, synced, nodeVars, netVars, ingestVars, ledgerVars, boundVars>>

\* What putHistoricalEx() sheds is lost, unless it was the queue's copy of a
\* reading that is also elsewhere; a refused one is consumed and lost.
ShedBy(n, m) == IF Sheds(n, m) THEN OfWifi({1}) ELSE {}

QueueBackfill ==
    /\ PutHistorical(job.n, Here.m, Here.t, When(job.batch, job.i))
    /\ job' = [job EXCEPT !.i = @ + 1, !.accepted = @ + 1,
                          !.room = IF HasSlot(job.n, Here.m) THEN @ - 1 ELSE @,
                          !.shed = IF Sheds(job.n, Here.m) THEN @ + 1 ELSE @]
    /\ lost' = IF HasSlot(job.n, Here.m) THEN lost \cup ShedBy(job.n, Here.m)
                                         ELSE lost \cup {HereReading}
    /\ UNCHANGED current

PrefixPass ==
    /\ Walking("prefix")
    /\ ~MustHold
    /\ \/ /\ IsBackfill(job.batch, job.i)
          /\ QueueBackfill
       \/ /\ ~IsBackfill(job.batch, job.i)
          /\ job' = [job EXCEPT !.i = @ + 1, !.accepted = @ + 1]
          /\ IF IsLive(job.batch, job.i)
             THEN UNCHANGED <<ingestVars, current, lost>>  \* done by the first pass
             ELSE StoreCurrent      \* two readings of a metric in one second
    /\ UNCHANGED <<clock, synced, nodeVars, netVars, taken, recorded, unread, boundVars>>

\* The 200 with the length of the consumed prefix, if the node still waits.
Answer ==
    /\ job # Nothing
    /\ \/ job.pass = "answer"
       \/ job.pass = "prefix" /\ job.i > Len(job.batch)
    /\ reply' = IF job.open
                THEN [reply EXCEPT ![job.n] = [ok |-> TRUE, accepted |-> job.accepted]]
                ELSE reply
    /\ job' = Nothing
    /\ UNCHANGED <<clock, synced, nodeVars, request, ingestVars, ledgerVars, boundVars>>

\* The 200 arrives with a body the node cannot parse.
Garble(n) ==
    /\ UnreadableReplies
    /\ reply[n] # Nothing
    /\ reply[n].ok
    /\ reply' = [reply EXCEPT ![n] = [ok |-> TRUE, accepted |-> Nothing]]
    /\ UNCHANGED <<clock, synced, nodeVars, request, job, ingestVars, ledgerVars, boundVars>>

-----------------------------------------------------------------------------
(* The collector's other tasks.                                            *)

\* landReading() of a buffered ESP-NOW sample, from loop(): with a date it is
\* queued at once, since the node that sent it is already asleep.
EspNowHistory(n, m) ==
    /\ synced
    /\ espPuts < MaxEsp
    /\ espPuts' = espPuts + 1
    /\ PutHistorical(n, m, clock, NowEpoch)
    /\ lost' = lost \cup ShedBy(n, m)
    /\ job' = IF job = Nothing THEN Nothing
              ELSE [job EXCEPT !.raced = IF HasSlot(n, m) THEN @ + 1 ELSE @,
                               !.shed = IF Sheds(n, m) THEN @ + 1 ELSE @]
    /\ UNCHANGED <<clock, synced, nodeVars, netVars, taken, current, recorded, unread, crashes>>

\* readAll() of the node's plugin on SensorTask: the current values, which
\* stay where they are, and behind them what room is left for history.
SensorTick(n) ==
    /\ OwnQueued(n) # {}
    /\ DrainHistory(n, DrainRoom)
    /\ recorded' = recorded \cup OfWifi(Leaving(n, DrainRoom))
    /\ UNCHANGED <<clock, synced, nodeVars, netVars, job, taken, current, lost, unread, boundVars>>

ClockSet ==
    /\ ~synced
    /\ synced' = TRUE
    /\ UNCHANGED <<clock, nodeVars, netVars, job, ingestVars, ledgerVars, boundVars>>

\* A restart of the collector loses the table and the queue, and every open
\* connection with them.
RestartCollector ==
    /\ crashes < MaxCrash
    /\ crashes' = crashes + 1
    /\ lost' = lost \cup OfWifi(DOMAIN hist)
    /\ pairs' = <<>> /\ box' = [s \in Slots |-> Nothing] /\ hist' = <<>>
    /\ job' = Nothing
    /\ synced' = FALSE
    /\ request' = [n \in WifiNodes |-> Nothing]
    /\ UNCHANGED <<clock, nodeVars, reply, taken, current, recorded, unread, espPuts>>

\* Time passes; a POST is answered or given up within a sampling period.
Tick ==
    /\ clock < MaxClock
    /\ \A n \in WifiNodes : node[n].stage = "sleep"
    /\ clock' = clock + 1
    /\ UNCHANGED <<synced, nodeVars, netVars, job, ingestVars, ledgerVars, boundVars>>

NodeStep(n) == Wake(n) \/ Post(n) \/ PostNothing(n) \/ ReadReply(n)
HandlerStep == LivePass \/ LivePassEnds \/ HoldRest \/ PrefixPass \/ Answer

Next ==
    \/ \E n \in WifiNodes :
          \/ NodeStep(n) \/ Timeout(n) \/ RestartNode(n)
          \/ Begin(n) \/ Refuse(n) \/ Garble(n)
    \/ HandlerStep
    \/ \E n \in EspNodes, m \in Metrics : EspNowHistory(n, m)
    \/ \E n \in Listened : SensorTick(n)
    \/ ClockSet \/ RestartCollector \/ Tick

Spec == Init /\ [][Next]_vars

\* The tasks and loop() run for ever, NTP answers some day, and of the answers
\* that took something not every one is lost: what loses a reply does not look
\* at the number in it.
Fairness ==
    /\ \A n \in WifiNodes :
          /\ WF_vars(Wake(n) /\ node'[n].stage = "flush")
          /\ WF_vars(Post(n) \/ PostNothing(n))
          /\ WF_vars(ReadReply(n)) /\ SF_vars(ReadReply(n) /\ reply[n].accepted # 0)
          /\ WF_vars(Timeout(n) /\ job = Nothing /\ request[n] = Nothing /\ reply[n] = Nothing)
          /\ SF_vars(Begin(n))
    /\ WF_vars(HandlerStep)
    /\ \A n \in Listened : WF_vars(SensorTick(n))
    /\ WF_vars(ClockSet)

FairSpec == Spec /\ Fairness

-----------------------------------------------------------------------------

\* Every variable keeps the shape the code gives it.
TypeOK ==
    /\ IngestTypeOK
    /\ clock \in Nat /\ synced \in BOOLEAN
    /\ ring \in [WifiNodes -> Seq(Reading)]
    /\ node \in [WifiNodes -> NodeState]
    /\ request \in [WifiNodes -> Seq(Offered) \cup {Nothing}]
    /\ reply \in [WifiNodes -> Reply \cup {Nothing}]
    /\ job \in Job \cup {Nothing}
    /\ taken \subseteq Reading /\ current \subseteq Reading /\ recorded \subseteq Reading
    /\ lost \subseteq Reading /\ unread \subseteq Reading
    /\ espPuts \in Nat /\ crashes \in Nat

\* Neither queue outgrows its array (Ring::_buf, RemoteIngest::_h), whoever
\* writes to it between the room check and the put.
QueuesBounded ==
    /\ Len(hist) <= MaxHistory
    /\ \A n \in WifiNodes : Len(ring[n]) <= Capacity

\* The room handleIngestPayload() counts down is an estimate; what it costs is
\* bounded by the frames that arrived meanwhile: over one batch no more
\* readings are shed than ESP-NOW queued, and none when it queued none.
OvershootBounded == job # Nothing => job.shed <= job.raced

\* The walk of a batch is paid for in advance: the room still promised to it
\* is there, but for what ESP-NOW took since.
RoomPromised ==
    job # Nothing => /\ job.room >= 0
                     /\ job.shed + Len(hist) + job.room <= MaxHistory + job.raced

Received(r) == r \in OfWifi(DOMAIN hist) \/ r \in current \/ r \in recorded

\* A reading a node took is still in its ring, or the collector has it or had
\* it, or one of the code's own rules gave it up: no loss of a request or a
\* reply, no retry and no partial batch makes one disappear.
NothingVanishes ==
    \A r \in taken :
        Received(r) \/ r \in lost \/ r \in unread \/ \E i \in DOMAIN ring[r.n] : ring[r.n][i] = r

\* A node's history comes out in the order it was measured: when a reading is
\* handed on, no older one of its metric is still waiting anywhere.
NoOvertaking ==
    \A r \in recorded, q \in taken :
        (q.n = r.n /\ q.m = r.m /\ q.t < r.t) =>
            (q \in recorded \/ q \in current \/ q \in lost \/ q \in unread)

\* A queued reading carries the date it was taken, even when it was walked
\* long after its node gave up waiting.
DatedWhenTaken == \A i \in DOMAIN hist : hist[i].ts = hist[i].t + 1

\* Once the first pass is over the mailbox shows every current value of the
\* batch, though the queue has no room for any of its history.
CurrentShown ==
    job # Nothing /\ job.pass # "live" =>
        \A i \in DOMAIN job.batch :
            IsLive(job.batch, i) =>
                \/ \E s \in DOMAIN pairs : pairs[s] = <<job.n, job.batch[i].m>> /\ box[s] = job.batch[i].t
                \/ [n |-> job.n, m |-> job.batch[i].m, t |-> job.batch[i].t] \in lost

\* A slot keeps its pair, by which queued readings are named, and what is put
\* in the mailbox was at most LIVE_AGE_S old when its batch was dated: an
\* outage's readings never overwrite each other there.
MailboxRecent ==
    [][\A s \in DOMAIN pairs :
          s \in DOMAIN pairs' =>
              /\ pairs'[s] = pairs[s]
              /\ box'[s] # box[s] => job # Nothing /\ box'[s] + LiveAge + 1 >= job.base]_<<pairs, box>>

\* The reading a node forgets on a 200 it cannot read was taken all the same.
ForgetsOnlyReceived == \A r \in unread : Received(r) \/ r \in lost

\* The same promise as an abstract specification; a reading dropped on the
\* strength of an unreadable 200 counts as given up.
HeldReadings   == UNION {{ring[n][i] : i \in DOMAIN ring[n]} : n \in WifiNodes}
StoredReadings == current \cup recorded \cup OfWifi(DOMAIN hist)

Promise == INSTANCE Custody WITH
    Readings <- [n : WifiNodes, m : Metrics, t : 0..MaxClock],
    known <- taken, held <- HeldReadings, stored <- StoredReadings, gone <- lost \cup unread

KeepsPromise == Promise!Spec

\* With every node listened to, and requests no longer refused or given up
\* before they are answered from some point on, each node's backlog empties
\* again and again.
BacklogDrains ==
    <>[][\A n \in WifiNodes :
            ~Refuse(n) /\ ~(Timeout(n) /\ (job # Nothing \/ request[n] # Nothing))]_vars
        => \A n \in WifiNodes : []<>(ring[n] = <<>>)
=============================================================================
