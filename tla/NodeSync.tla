------------------------------ MODULE NodeSync ------------------------------
(***************************************************************************)
(* A WiFi node's side of the config exchange (node/src: main.cpp,          *)
(* NodeSync.h, NodeStore.cpp, ConfigPortal.cpp): which configuration it    *)
(* runs, which it keeps on flash, and the trial a network change is on.    *)
(*                                                                         *)
(* The node does one thing at a time, so a handler is one step; what a     *)
(* power cut in the middle of it leaves behind is a prefix of the handler's*)
(* writes to flash.                                                        *)
(***************************************************************************)
EXTENDS NodeCfgRules, Sequences

CONSTANTS
    Nets,              \* values of net.ssid, pass, host, port, token together
    Sensors, Lives,    \* of the settings that need a restart, and that do not
    Seed,              \* the settings of the firmware's own defaults
    Refuses,           \* the settings nodeValidate() refuses
    Discovered,        \* what the collector's address is on each net, if any answers
    RollbackAfter,     \* ROLLBACK_AFTER_CYCLES
    DiscoverAfter,     \* DISCOVER_AFTER_POST_FAILS
    PostsPerCycle,     \* POSTs one cycle's backlog takes
    FlushPosts,        \* and what is left of it before a restart
    MaxCuts,           \* bound of the exploration: power cuts
    Nothing, Bad       \* a file that is not there; one that cannot be read

ASSUME NodeSyncAssumption ==
    /\ Seed \in [net : Nets, sensors : Sensors, live : Lives]
    /\ Refuses \subseteq [net : Nets, sensors : Sensors, live : Lives]
    /\ Discovered \in [Nets -> Nets \cup {Nothing}]
    /\ RollbackAfter \in Nat \ {0} /\ DiscoverAfter \in Nat \ {0}
    /\ PostsPerCycle \in Nat \ {0} /\ FlushPosts \in Nat
    /\ MaxCuts \in Nat

VARIABLES
    flash,   \* /config.json, /config.prev.json, /sync.json
    node,    \* RAM
    cuts     \* power cuts so far

nodeVars == <<flash, node, cuts>>

Content == [net : Nets, sensors : Sensors, live : Lives]
Cfg     == [rev : Rev, local : BOOLEAN, val : Content]
Flash   == [cfg : Cfg \cup {Nothing, Bad}, prev : Cfg \cup {Nothing, Bad}, trial : Rev, err : Rev]

\* trial, err: s_sync.  onTrial, cycles, postFails: s_link.  sentCfg, sentErr:
\* what the POST under way carries.
Node ==
    [cfg : Cfg, trial : Rev, err : Rev, rejected : Rev, reported : BOOLEAN,
     onTrial : BOOLEAN, cycles : Nat, answered : BOOLEAN, postFails : Nat,
     restarting : BOOLEAN, flushing : BOOLEAN, postNet : Nets \cup {Nothing},
     stage : {"idle", "post", "wait", "reply", "end", "restart"}, posts : Nat,
     sentCfg : BOOLEAN, sentErr : Rev]

NodeTypeOK == flash \in Flash /\ node \in Node /\ cuts \in Nat

Defaults == [rev |-> 0, local |-> FALSE, val |-> Seed]

-----------------------------------------------------------------------------
(* Flash and boot.                                                         *)

\* storeLoad(): the file, or the one before it, or the seeded defaults.
Loaded(f) ==
    IF f.cfg \notin {Nothing, Bad} THEN f.cfg
    ELSE IF f.cfg = Bad /\ f.prev \notin {Nothing, Bad} THEN f.prev
    ELSE Defaults

\* A trial that names another revision was written before a save that never
\* happened.
TrialOf(f) == IF f.trial = Loaded(f).rev THEN f.trial ELSE 0

\* RAM after setup().
Booted(f) ==
    [cfg |-> Loaded(f), trial |-> TrialOf(f), err |-> f.err, rejected |-> f.err,
     reported |-> FALSE, onTrial |-> TrialOf(f) # 0, cycles |-> 0, answered |-> FALSE,
     postFails |-> 0, restarting |-> FALSE, flushing |-> FALSE, postNet |-> Nothing,
     stage |-> "idle", posts |-> 0, sentCfg |-> FALSE, sentErr |-> 0]

Boot(f) == node' = Booted(f) /\ flash' = [f EXCEPT !.trial = TrialOf(f)]

\* The writes of a handler that leaves RAM as n, in order: all of them, or as
\* many as were made before the power went.
Writes(images, n) ==
    \/ flash' = images[Len(images)] /\ node' = n /\ UNCHANGED cuts
    \/ /\ cuts < MaxCuts /\ cuts' = cuts + 1
       /\ \E i \in 1..Len(images) : i < Len(images) /\ Boot(images[i])

\* The same of a handler that ends in a restart.
WritesAndBoots(images) ==
    \/ Boot(images[Len(images)]) /\ UNCHANGED cuts
    \/ /\ cuts < MaxCuts /\ cuts' = cuts + 1
       /\ \E i \in 1..Len(images) : i < Len(images) /\ Boot(images[i])

PowerCut == cuts < MaxCuts /\ cuts' = cuts + 1 /\ Boot(flash)

\* storeSave(c, backup): the file it replaces is kept first.
Backed(f, backup) == [f EXCEPT !.prev = IF backup /\ f.cfg # Nothing THEN f.cfg ELSE @]
Saved(f, c, backup) == [Backed(f, backup) EXCEPT !.cfg = c]

\* syncSave()
Synced(f, n) == [f EXCEPT !.trial = n.trial, !.err = n.err]

-----------------------------------------------------------------------------
(* A cycle of loop().                                                      *)

StartCycle ==
    /\ node.stage = "idle"
    /\ node' = [node EXCEPT !.stage = "post", !.posts = PostsPerCycle]
    /\ UNCHANGED <<flash, cuts>>

\* ensureWifi() fails.
NoWifi ==
    /\ node.stage = "idle"
    /\ node' = [node EXCEPT !.stage = "end"]
    /\ UNCHANGED <<flash, cuts>>

\* Over which settings a POST goes: until the restart, the ones before.
PostingNet == IF node.postNet # Nothing THEN node.postNet ELSE node.cfg.val.net

shouldSendCfg == node.cfg.local \/ ~node.reported

PostedCfg ==
    IF shouldSendCfg
    THEN [rev |-> node.cfg.rev, val |-> node.cfg.val, local |-> node.cfg.local]
    ELSE Nothing

Posted == [rev |-> node.cfg.rev, cfg |-> PostedCfg, err |-> node.err]

Post ==
    /\ node.stage = "post"
    /\ node' = [node EXCEPT !.stage = "wait", !.posts = @ - 1,
                            !.sentCfg = shouldSendCfg, !.sentErr = node.err]
    /\ UNCHANGED <<flash, cuts>>

\* runDiscovery(): the collector's own address on this net, kept as an edit.
Found(n) ==
    LET at == Discovered[n.cfg.val.net] IN
    IF at = Nothing \/ at = n.cfg.val.net THEN n
    ELSE [n EXCEPT !.cfg.val.net = at, !.cfg.local = TRUE]

\* No 200: everything is kept, and every third time in a row the node looks
\* for the collector.
PostFails ==
    LET looks  == node.postFails + 1 >= DiscoverAfter
        counted == [node EXCEPT !.stage = "end", !.postFails = IF looks THEN 0 ELSE @ + 1]
        found   == IF looks /\ ~node.restarting THEN Found(counted) ELSE counted
    IN  /\ node.stage = "wait"
        /\ IF found.cfg = node.cfg THEN node' = found /\ UNCHANGED <<flash, cuts>>
           ELSE Writes(<<Backed(flash, ~node.onTrial), Saved(flash, found.cfg, ~node.onTrial)>>, found)

\* A 200: whatever the settings on trial are, they reached the collector, and
\* what this POST carried has been said.
PostAnswered ==
    LET ended == IF node.onTrial THEN [node EXCEPT !.onTrial = FALSE, !.cycles = 0, !.trial = 0] ELSE node
        said  == [ended EXCEPT !.stage = "reply", !.answered = TRUE, !.postFails = 0,
                               !.reported = @ \/ node.sentCfg,
                               !.err = IF node.sentErr # 0 /\ @ = node.sentErr THEN 0 ELSE @]
    IN  /\ node.stage = "wait"
        /\ Writes(<<IF node.onTrial THEN Synced(flash, ended) ELSE flash,
                    IF node.onTrial \/ said.err # node.err THEN Synced(flash, said) ELSE flash>>, said)

decideReply(r) ==
    CASE r.kind = "rev" /\ (node.cfg.local \/ r.rev # node.cfg.rev) -> "confirm"
      [] r.kind = "full" /\ ~(node.rejected # 0 /\ r.rev = node.rejected)
                         /\ (r.rev # node.cfg.rev \/ node.cfg.local) -> "apply"
      [] OTHER -> "none"

\* The rest of postBatch(): another batch when this one was taken whole.
MoreOrEnd(n) ==
    {[n EXCEPT !.stage = "end"]} \cup (IF n.posts > 0 THEN {[n EXCEPT !.stage = "post"]} ELSE {})

\* honourCfgWant(): not more than once in ten minutes, which may be up or not.
Ignore(r) ==
    \E n \in MoreOrEnd(node) :
        \/ node' = n
        \/ r.kind = "want" /\ node' = [n EXCEPT !.reported = FALSE]

Confirm(r) ==
    LET c == [node.cfg EXCEPT !.rev = r.rev, !.local = FALSE] IN
    \E n \in MoreOrEnd([node EXCEPT !.cfg = c]) : Writes(<<Saved(flash, c, FALSE)>>, n)

rejectConfig(r) ==
    \E n \in MoreOrEnd([node EXCEPT !.rejected = r.rev, !.err = r.rev]) :
        Writes(<<Synced(flash, n)>>, n)

\* classifyChange()
NetTrial(a, b)     == a.net # b.net
NeedsRestart(a, b) == a.net # b.net \/ a.sensors # b.sensors

\* Fault: the configuration is saved before its trial is.
ApplyWritesUntried(c, trial) == <<Saved(flash, c, ~node.onTrial),
                                  [Saved(flash, c, ~node.onTrial) EXCEPT !.trial = trial, !.err = node.err]>>

\* The trial is written first, then the backup, then the configuration.
ApplyWrites(c, trial) ==
    LET tried == IF trial # node.trial THEN [flash EXCEPT !.trial = trial, !.err = node.err] ELSE flash
    IN  <<tried, Backed(tried, ~node.onTrial), Saved(tried, c, ~node.onTrial)>>

\* applyCollectorConfig() of settings the validator passes.
Apply(r) ==
    LET c     == [rev |-> r.rev, local |-> FALSE, val |-> r.val]
        trial == IF NetTrial(node.cfg.val, r.val) THEN r.rev ELSE node.trial
        again == NeedsRestart(node.cfg.val, r.val)
        n0    == [node EXCEPT !.cfg = c, !.trial = trial, !.restarting = @ \/ again,
                              !.postNet = IF again /\ @ = Nothing THEN node.cfg.val.net ELSE @]
    IN  \E n \in MoreOrEnd(n0) : Writes(ApplyWrites(c, trial), n)

HandleReplyCfg(r) ==
    /\ node.stage = "reply"
    /\ CASE decideReply(r) = "confirm" -> Confirm(r)
         [] decideReply(r) = "apply" /\ r.val \in Refuses -> rejectConfig(r)
         [] decideReply(r) = "apply" /\ r.val \notin Refuses -> Apply(r)
         [] OTHER -> Ignore(r) /\ UNCHANGED <<flash, cuts>>

\* cycleEnd() and rollBack().
EndCycle ==
    LET unheard == node.onTrial /\ ~node.answered
        rolls   == unheard /\ node.cycles + 1 >= RollbackAfter
        n0      == [node EXCEPT !.answered = FALSE, !.stage = IF node.restarting THEN "restart" ELSE "idle"]
        kept    == [n0 EXCEPT !.onTrial = FALSE, !.cycles = 0, !.trial = 0]
        back    == [flash EXCEPT !.cfg = flash.prev]
    IN  /\ node.stage = "end" /\ ~node.flushing
        /\ CASE rolls /\ flash.prev # Nothing ->
                    WritesAndBoots(<<back, [back EXCEPT !.trial = 0, !.err = node.trial]>>)
             [] rolls /\ flash.prev = Nothing -> Writes(<<Synced(flash, kept)>>, kept)
             [] OTHER -> /\ node' = [n0 EXCEPT !.cycles = IF unheard THEN @ + 1 ELSE @]
                         /\ UNCHANGED <<flash, cuts>>

\* restartForConfig(): what is queued goes first, over the old settings.
FlushFirst ==
    /\ node.stage = "restart" /\ FlushPosts > 0
    /\ node' = [node EXCEPT !.stage = "post", !.posts = FlushPosts, !.flushing = TRUE]
    /\ UNCHANGED <<flash, cuts>>

Restart ==
    /\ \/ node.stage = "restart"
       \/ node.stage = "end" /\ node.flushing
    /\ Boot(flash) /\ UNCHANGED cuts

\* An edit on the node's own page, which saves, ends a trial and restarts.
PortalEdit(val) ==
    LET c == [rev |-> node.cfg.rev, local |-> TRUE, val |-> val]
        s == Saved(flash, c, TRUE)
    IN  /\ node.stage = "idle" /\ val \notin Refuses
        /\ WritesAndBoots(<<Backed(flash, TRUE), s, [s EXCEPT !.trial = 0]>>)

\* The node is reflashed with its filesystem, or /config.json goes bad.
Reflash == Boot([cfg |-> Nothing, prev |-> Nothing, trial |-> 0, err |-> 0]) /\ UNCHANGED cuts
Spoil   == flash.cfg # Nothing /\ Boot([flash EXCEPT !.cfg = Bad]) /\ UNCHANGED cuts
=============================================================================
