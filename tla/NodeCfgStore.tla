---------------------------- MODULE NodeCfgStore ----------------------------
(***************************************************************************)
(* src/nodes/NodeCfgStore.cpp for one WiFi node: the index entry in RAM    *)
(* and the node's file, which alone holds the desired configuration.       *)
(* Every operation runs under the store's mutex; one that gives up waiting *)
(* for it, or for heap, leaves no trace.                                   *)
(***************************************************************************)
EXTENDS NodeCfgRules

CONSTANTS
    Content,      \* the settings a configuration can carry
    Nothing,      \* the absent value
    FlashFails    \* whether a write of a file may fail

VARIABLES
    entry,        \* s_e[], NodeCfgSummary: RAM
    file          \* /nodes/w_<name>.json

storeVars == <<entry, file>>

Entry == [rev : Rev \ {0}, applied : Rev, told : Rev, status : Status]
File  == [desired : [rev : Rev \ {0}, val : Content],
          applied : Rev, told : Rev, status : Status]

\* A POST as far as the store reads it: cfg_rev, and cfg and cfg_error when
\* the node sent them (err = 0: none).
Report == [rev : Rev, val : Content, local : BOOLEAN]
Query  == [rev : Rev, cfg : Report \cup {Nothing}, err : Rev]

Answer == [kind : {"none", "want", "rev", "full"}, rev : Rev, val : Content \cup {Nothing}]
NoAnswer(kind) == [kind |-> kind, rev |-> 0, val |-> Nothing]

StoreTypeOK ==
    /\ entry \in Entry \cup {Nothing}
    /\ file \in File \cup {Nothing}

StoreInit == entry = Nothing /\ file = Nothing

\* writeJson: the whole file or, if it fails, the old one.
Save(e, desired) ==
    \/ file' = [desired |-> desired, applied |-> e.applied, told |-> e.told, status |-> e.status]
    \/ FlashFails /\ UNCHANGED file

-----------------------------------------------------------------------------

\* An entry whose file is gone is no entry.
Held == entry # Nothing /\ file # Nothing

Noted(told, rev) == IF rev # 0 /\ ~revAtOrPast(told, rev) THEN rev ELSE told

\* Fault: a refusal changes nothing.
NotRefused(e, rev) == e

Refused(e, rev) == IF rev = e.rev THEN [e EXCEPT !.status = "rejected"] ELSE e

Runs(e, rev) == [e EXCEPT !.applied = rev, !.status = statusAfterApplied(@, e.rev, rev)]

\* The entry once the node's revision and its cfg_error are taken down.
Heard(q) == Refused([entry EXCEPT !.told = Noted(@, q.rev)], q.err)

Plan(q)   == planReport(Held, IF Held THEN entry.rev ELSE 0, q.cfg.rev, q.cfg.local)
Adopts(q) == q.cfg # Nothing /\ Plan(q).adopt

EntryAfter(q) ==
    IF Adopts(q)
    THEN [rev |-> Plan(q).rev, applied |-> Plan(q).applied,
          told |-> Noted(IF Held THEN Heard(q).told ELSE 0, Plan(q).applied),
          status |-> statusAfterApplied("pending", Plan(q).rev, Plan(q).applied)]
    ELSE IF q.cfg # Nothing \/ q.rev # Heard(q).applied
    THEN Runs(Heard(q), q.rev)
    ELSE Heard(q)

DesiredAfter(q) ==
    IF Adopts(q) THEN [rev |-> Plan(q).rev, val |-> q.cfg.val] ELSE file.desired

AnswerTo(q) ==
    IF ~Held /\ q.cfg = Nothing THEN NoAnswer("want")
    ELSE LET e    == EntryAfter(q)
             kind == ingestReply(Adopts(q), e.status, e.rev, q.rev, q.err)
         IN  CASE kind = "rev"  -> [kind |-> kind, rev |-> e.applied, val |-> Nothing]
               [] kind = "full" -> [kind |-> kind, rev |-> DesiredAfter(q).rev, val |-> DesiredAfter(q).val]
               [] OTHER -> NoAnswer("none")

\* nodeCfgIngest()
Ingest(q) ==
    IF ~Held /\ q.cfg = Nothing
    THEN entry' = Nothing /\ UNCHANGED file
    ELSE /\ entry' = EntryAfter(q)
         /\ IF q.cfg = Nothing /\ EntryAfter(q) = entry THEN UNCHANGED file
            ELSE Save(EntryAfter(q), DesiredAfter(q))

\* bumped(): a new desired configuration is past everything the node holds.
Bumped(e) ==
    LET rev == revAfter(e.rev, e.told) IN
    [e EXCEPT !.rev = rev, !.status = statusAfterApplied("pending", rev, e.applied)]

\* nodeCfgApiPost() of settings that pass the collector's validator.
ApiPost(val) ==
    /\ Held
    /\ entry' = Bumped(entry)
    /\ Save(Bumped(entry), [rev |-> Bumped(entry).rev, val |-> val])

\* nodeCfgForget(), and a file that is lost or will not load three times.
Forget == entry # Nothing /\ entry' = Nothing /\ file' = Nothing
LoseFile == file # Nothing /\ file' = Nothing /\ UNCHANGED entry

\* nodeCfgBegin() after a restart.
Reload ==
    /\ entry' = IF file = Nothing THEN Nothing
                ELSE [rev |-> file.desired.rev, applied |-> file.applied,
                      told |-> file.told, status |-> file.status]
    /\ UNCHANGED file
=============================================================================
