----------------------------- MODULE ConfigSync -----------------------------
(***************************************************************************)
(* One WiFi node and the collector agreeing on the node's configuration    *)
(* (docs/NODE_CONFIG.md, sections 3 and 4.7): the exchange rides on the    *)
(* ingest POSTs, both sides take edits, requests and answers are lost, and *)
(* either side loses its files.                                            *)
(***************************************************************************)
EXTENDS NodeSync

CONSTANTS
    Reach,        \* the nets on which the collector is
    WebEdits,     \* settings entered on the collector's Nodes page
    PageEdits,    \* settings entered on the node's own page
    FirstFiles,   \* what /config.json may be before the first boot
    FlashFails,   \* whether a write of the collector's file may fail
    Bound         \* bounds of the exploration: how often each event happens

Events == {"web", "page", "lost", "busy", "accident"}

ASSUME ConfigSyncAssumption ==
    /\ Reach \subseteq Nets
    /\ WebEdits \subseteq Content /\ PageEdits \subseteq Content
    /\ FirstFiles \subseteq Cfg \cup {Nothing}
    /\ FlashFails \in BOOLEAN
    /\ Bound \in [Events -> Nat]

VARIABLES
    entry, file,    \* the collector's store
    request,        \* a POST the collector has not handled
    answer,         \* a 200 the node has not read
    done,           \* how often each event happened
    \* what happened, for the properties
    issued,         \* what the collector has called the configuration of a revision
    trusted         \* nets a POST was answered on, or that were given at the node

Store == INSTANCE NodeCfgStore

wireVars == <<request, answer>>
storeVars == <<entry, file>>
vars == <<nodeVars, storeVars, wireVars, done, issued, trusted>>

Init ==
    /\ \E first \in FirstFiles :
          LET f == [cfg |-> first, prev |-> Nothing, trial |-> 0, err |-> 0] IN
          /\ flash = f /\ node = Booted(f)
          /\ trusted = {Loaded(f).val.net}
    /\ cuts = 0
    /\ Store!StoreInit
    /\ request = Nothing /\ answer = Nothing
    /\ done = [e \in Events |-> 0]
    /\ issued = {}

Happens(e) == done[e] < Bound[e] /\ done' = [done EXCEPT ![e] = @ + 1]

\* The node's socket is gone after a restart; its request may still be handled.
Dropped == answer' = Nothing /\ request' \in {request, Nothing}

-----------------------------------------------------------------------------

NodeAlone ==
    /\ StartCycle \/ NoWifi \/ EndCycle \/ FlushFirst \/ Restart
    /\ UNCHANGED <<storeVars, wireVars, done, issued, trusted>>

CutPower == PowerCut /\ Dropped /\ UNCHANGED <<storeVars, done, issued, trusted>>

SendPost ==
    /\ Post
    /\ request' = IF PostingNet \in Reach THEN Posted ELSE Nothing
    /\ UNCHANGED <<storeVars, answer, done, issued, trusted>>

\* Nobody answers on this net, or the collector restarted, or the request or its
\* answer is lost or late.
Fail ==
    /\ PostFails
    /\ IF request # Nothing \/ answer # Nothing THEN Happens("lost") ELSE UNCHANGED done
    /\ Dropped
    /\ trusted' = IF node'.cfg.local THEN trusted \cup {node'.cfg.val.net} ELSE trusted
    /\ UNCHANGED <<storeVars, issued>>

Issue(desired) == issued' = issued \cup {desired}

\* handleIngestPayload() and in it nodeCfgIngest().
Handle ==
    /\ request # Nothing
    /\ Store!Ingest(request)
    /\ IF Store!AnswerTo(request).kind = "want" THEN UNCHANGED issued
       ELSE Issue(Store!DesiredAfter(request))
    /\ answer' = IF node.stage = "wait" THEN Store!AnswerTo(request) ELSE Nothing
    /\ request' = Nothing
    /\ UNCHANGED <<nodeVars, done, trusted>>

\* The readings are taken, but the store's lock or heap is not to be had.
HandleBusy ==
    /\ request # Nothing
    /\ Happens("busy")
    /\ answer' = IF node.stage = "wait" THEN Store!NoAnswer("none") ELSE Nothing
    /\ request' = Nothing
    /\ UNCHANGED <<nodeVars, storeVars, issued, trusted>>

ReadAnswer ==
    /\ answer # Nothing
    /\ PostAnswered
    /\ trusted' = trusted \cup {PostingNet}
    /\ answer' = IF node'.stage = "reply" THEN answer ELSE Nothing
    /\ UNCHANGED <<storeVars, request, done, issued>>

ActOnAnswer ==
    /\ answer # Nothing
    /\ HandleReplyCfg(answer)
    /\ answer' = Nothing
    /\ UNCHANGED <<storeVars, request, done, issued, trusted>>

-----------------------------------------------------------------------------
(* What users and accidents do.                                            *)

WebEdit ==
    /\ Happens("web")
    /\ \E v \in WebEdits :
          /\ Store!ApiPost(v)
          /\ Issue([rev |-> Store!Bumped(entry).rev, val |-> v])
    /\ UNCHANGED <<nodeVars, wireVars, trusted>>

PageEdit ==
    /\ Happens("page")
    /\ \E v \in PageEdits : PortalEdit(v) /\ trusted' = trusted \cup {v.net}
    /\ UNCHANGED <<storeVars, wireVars, issued>>

StoreEvent ==
    /\ Happens("accident")
    /\ \/ Store!Reload /\ request' = Nothing
       \/ Store!Forget /\ UNCHANGED request
       \/ Store!LoseFile /\ UNCHANGED request
    /\ UNCHANGED <<nodeVars, answer, issued, trusted>>

FlashEvent ==
    /\ Happens("accident")
    /\ Reflash \/ Spoil
    /\ Dropped
    /\ trusted' = trusted \cup {node'.cfg.val.net}
    /\ UNCHANGED <<storeVars, issued>>

Next ==
    \/ NodeAlone \/ CutPower \/ SendPost \/ Fail
    \/ Handle \/ HandleBusy \/ ReadAnswer \/ ActOnAnswer
    \/ WebEdit \/ PageEdit \/ StoreEvent \/ FlashEvent

Spec == Init /\ [][Next]_vars

\* Both sides keep running; a cycle's WiFi and its POSTs do not fail for ever
\* where the collector is to be reached.
Fairness ==
    /\ WF_vars(NodeAlone /\ node.stage # "idle") /\ SF_vars(NodeAlone /\ StartCycle)
    /\ WF_vars(SendPost) /\ WF_vars(Fail /\ request = Nothing /\ answer = Nothing)
    /\ WF_vars(Handle) /\ WF_vars(ReadAnswer) /\ WF_vars(ActOnAnswer)

FairSpec == Spec /\ Fairness

-----------------------------------------------------------------------------

\* Every variable keeps the shape the code gives it.
TypeOK ==
    /\ NodeTypeOK
    /\ Store!StoreTypeOK
    /\ request \in Store!Query \cup {Nothing}
    /\ answer \in Store!Answer \cup {Nothing}
    /\ done \in [Events -> Nat]
    /\ issued \subseteq [rev : Rev, val : Content]
    /\ trusted \subseteq Nets

\* A revision names one configuration: a node that says it is at the desired
\* revision, with no edit of its own to report, runs the desired settings.
OneConfigPerRev ==
    file # Nothing /\ node.cfg.rev = file.desired.rev /\ ~node.cfg.local =>
        node.cfg.val = file.desired.val

\* Whenever the power goes, what boots next is on a net that has worked or was
\* typed in at the node, or it is on trial with such a net to go back to: as
\* long as the page and the flash are left alone.
WayBack ==
    done["page"] = 0 /\ done["accident"] = 0 =>
        \/ Booted(flash).cfg.val.net \in trusted
        \/ /\ Booted(flash).onTrial
           /\ flash.prev \notin {Nothing, Bad}
           /\ flash.prev.val.net \in trusted

\* An edit made on the node stays until the collector has it under a revision
\* of its own, unless the settings are on trial and roll back, or the file
\* itself is lost.
LocalWins ==
    [][node.cfg.local /\ ~node'.cfg.local =>
          \/ [rev |-> node'.cfg.rev, val |-> node.cfg.val] \in issued /\ node'.cfg.val = node.cfg.val
          \/ node.onTrial /\ node'.cfg = flash.prev
          \/ flash'.cfg \in {Nothing, Bad}]_node

\* When the edits and the accidents stop, the node comes to run what the
\* collector wants, or the collector knows that the node will not.
Settled ==
    /\ entry # Nothing /\ file # Nothing
    /\ \/ entry.status = "rejected"
       \/ node.cfg.val = file.desired.val /\ ~node.cfg.local

Converges == <>[]Settled
=============================================================================
