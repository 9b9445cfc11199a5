------------------------------- MODULE Deploy -------------------------------
(***************************************************************************)
(* The deploy tool (tools/deploy_core.py, deploy_gui.py, remote_ota.py): one *)
(* run of selected steps on a worker thread, the STOP button of the GUI, the  *)
(* thread that cancels, the program a step starts and what that one started.  *)
(* Steps keep their numbers: 1 builds the pages, 3 erases, 5 compiles, 6 and   *)
(* 7 flash firmware and pages by cable, 8 sends pages over HTTP, 9 is the       *)
(* serial monitor, 11 and 12 compile and flash a node, 13 and 14 send firmware  *)
(* to the collector and, through it, to nodes.                               *)
(*                                                                         *)
(* "new" is the version of the checkout, "old" what was built before, "bare"   *)
(* the pages from before the scripts were bundled.                            *)
(***************************************************************************)
EXTENDS Naturals, Sequences, FiniteSets

CONSTANT Jobs   \* [steps, bare, guard, crash, wipe, stubborn, chosen, prior,
                \*  watch, troubles, stops]

VARIABLES
    job,     \* the run that was asked for, and the troubles left
    gui,     \* the STOP button: at, and _stop_requested
    mgr,     \* the DeployManager: _cancelled, _proc, _killed_proc is this child
    killer,  \* the thread that runs cancel()
    run,     \* the worker: where it is, the steps left, failed, skipped, ...
    child,   \* the program of the step: itself, the program under it, its result
    tree,    \* what lies in the checkout: build, www, node
    dev,     \* the collector: firmware, its other partition, its pages
    node,    \* the image the collector holds, the rollout, the node
    done     \* ghost: steps whose work was done

deployVars == <<job, gui, mgr, killer, run, child, tree, dev, node, done>>
outside == <<tree, dev, node, done>>

Cancelled == 130
Trouble == job.troubles > 0
Suffer(bad) == job' = IF bad THEN [job EXCEPT !.troubles = @ - 1] ELSE job
Outcomes == IF Trouble THEN BOOLEAN ELSE {FALSE}    \* whether something goes wrong

-----------------------------------------------------------------------------
(* STOP.                                                                   *)

\* The worker has its manager; a STOP pressed before is caught up with.
MakeManager ==
    /\ run.at = "make"
    /\ mgr' = [mgr EXCEPT !.made = TRUE] /\ run' = [run EXCEPT !.at = "asked"]
    /\ UNCHANGED <<job, gui, killer, child, outside>>

AskedToStop ==
    /\ run.at = "asked"
    /\ mgr' = [mgr EXCEPT !.cancelled = @ \/ gui.requested]
    /\ run' = [run EXCEPT !.at = "next"]
    /\ UNCHANGED <<job, gui, killer, child, outside>>

\* _on_stop() reads the manager, then acts on what it read.
PressStop ==
    /\ gui.at = "ready" /\ job.stops /\ run.at # "over"
    /\ gui' = [gui EXCEPT !.at = IF mgr.made THEN "cancel" ELSE "early"]
    /\ UNCHANGED <<job, mgr, killer, run, child, outside>>

StopLater ==
    /\ gui.at = "early" /\ gui' = [gui EXCEPT !.at = "pressed", !.requested = TRUE]
    /\ UNCHANGED <<job, mgr, killer, run, child, outside>>

\* cancel(): the flag, then the child that is there, then three seconds.
CancelFlag ==
    /\ gui.at = "cancel" /\ gui' = [gui EXCEPT !.at = "pressed"]
    /\ mgr' = [mgr EXCEPT !.cancelled = TRUE] /\ killer' = "look"
    /\ UNCHANGED <<job, run, child, outside>>

CancelLooks ==
    /\ killer = "look"
    /\ IF mgr.proc THEN /\ mgr' = [mgr EXCEPT !.killed = TRUE] /\ killer' = "wait"
                        /\ child' = [child EXCEPT !.termed = TRUE]
       ELSE killer' = "off" /\ UNCHANGED <<mgr, child>>
    /\ UNCHANGED <<job, gui, run, outside>>

\* _kill_tree(): the programs under it, then itself.
KilledTree == child' = [child EXCEPT !.root = IF @ = "up" THEN "gone" ELSE @, !.under = FALSE]

CancelEnds ==
    /\ killer = "wait" /\ killer' = "off"
    /\ IF child.root = "up" THEN KilledTree ELSE UNCHANGED child
    /\ UNCHANGED <<job, gui, mgr, run, outside>>

-----------------------------------------------------------------------------
(* The steps and their order.                                              *)

\* The place of a step in a run: the firmware goes before its pages.
Place(s) == IF s = 13 THEN 15 ELSE 2 * s
First(todo) == CHOOSE s \in todo : \A t \in todo : Place(s) <= Place(t)

\* Fault: the pages are sent whatever became of the firmware.
OnlyTheBuild(s) == (s = 13 /\ 5 \in run.failed /\ ~job.chosen) \/ (s = 14 /\ 11 \in run.failed /\ ~job.chosen)

\* _blocked_by(): a step that would send the build before, or pages without their firmware.
BlockedBy(s) ==
    \/ s = 13 /\ 5 \in run.failed /\ ~job.chosen
    \/ s = 14 /\ 11 \in run.failed /\ ~job.chosen
    \/ s = 8 /\ 13 \in run.failed

Entry(s) == CASE s = 8 -> "reach" [] s = 13 -> "image" [] s = 14 -> "held" [] s \in {3} -> "confirm" [] OTHER -> "spawn"

\* run_steps(): the next step, one that is not run, or the end.
NextStep ==
    /\ run.at = "next"
    /\ LET s == First(run.todo) IN
       run' = IF mgr.cancelled THEN [run EXCEPT !.at = "over", !.unfinished = run.todo]
              ELSE IF run.todo = {} THEN [run EXCEPT !.at = "over"]
              ELSE IF BlockedBy(s) THEN [run EXCEPT !.todo = @ \ {s}, !.failed = @ \cup {s}]
              ELSE [run EXCEPT !.todo = @ \ {s}, !.step = s, !.at = Entry(s), !.fails = 0]
    /\ UNCHANGED <<job, gui, mgr, killer, child, outside>>

\* What run_steps() makes of a step's answer.
Ends(rc) ==
    run' = IF mgr.cancelled
           THEN [run EXCEPT !.at = "over",
                            !.unfinished = run.todo \cup IF rc = Cancelled THEN {run.step} ELSE {}]
           ELSE [run EXCEPT !.at = "next", !.failed = IF rc # 0 THEN @ \cup {run.step} ELSE @]

\* The question of a destructive step.
Confirm ==
    /\ run.at = "confirm"
    /\ \/ run' = [run EXCEPT !.at = "spawn"]
       \/ /\ run' = [run EXCEPT !.skipped = @ \cup {run.step},
                                !.at = IF mgr.cancelled THEN "over" ELSE "next",
                                !.unfinished = IF mgr.cancelled THEN run.todo ELSE @]
    /\ UNCHANGED <<job, gui, mgr, killer, child, outside>>

-----------------------------------------------------------------------------
(* A step that runs a program.                                             *)

\* _run_cmd(): not after a stop. Flashing is done by a program under it.
Spawn ==
    /\ run.at = "spawn"
    /\ IF mgr.cancelled THEN Ends(Cancelled) /\ UNCHANGED <<job, child>>
       ELSE \E bad \in Outcomes :
            /\ Suffer(bad)
            /\ IF bad THEN Ends(1) /\ UNCHANGED child
               ELSE /\ child' = [root |-> "up", under |-> run.step \in {3, 6, 7, 12}, termed |-> FALSE, ok |-> FALSE]
                    /\ run' = [run EXCEPT !.at = "publish"]
    /\ UNCHANGED <<gui, mgr, killer, outside>>

\* Fault: a stop that came before the child was known is forgotten.
PublishOnly ==
    /\ run.at = "publish"
    /\ mgr' = [mgr EXCEPT !.proc = TRUE, !.killed = FALSE]
    /\ run' = [run EXCEPT !.at = "read"]
    /\ UNCHANGED <<job, gui, killer, child, outside>>

\* From here on cancel() finds the child; one that came before is made up for.
Publish ==
    /\ run.at = "publish"
    /\ mgr' = [mgr EXCEPT !.proc = TRUE, !.killed = mgr.cancelled]
    /\ child' = [child EXCEPT !.termed = mgr.cancelled]
    /\ run' = [run EXCEPT !.at = IF mgr.cancelled THEN "three" ELSE "read"]
    /\ UNCHANGED <<job, gui, killer, outside>>

\* cancel() on the worker itself.
ThreeSeconds ==
    /\ run.at = "three" /\ run' = [run EXCEPT !.at = "read"]
    /\ IF child.root = "up" THEN KilledTree ELSE UNCHANGED child
    /\ UNCHANGED <<job, gui, mgr, killer, outside>>

Whole(v) == [app |-> v, css |-> v, index |-> v, script |-> "none"]

\* What the work of a program leaves: in the checkout, on the collector, on the node.
Built(s) ==
    tree' = CASE s = 1 -> [tree EXCEPT !.www = "new"] [] s \in {5, 6} -> [tree EXCEPT !.build = "new"]
              [] s \in {11, 12} -> [tree EXCEPT !.node = "new"] [] OTHER -> tree
Flashed(s) ==
    dev' = CASE s = 3 -> [dev EXCEPT !.fw = "none", !.spare = "none", !.pages = Whole("none")]
             [] s = 6 -> [dev EXCEPT !.fw = "new", !.mark = "valid"]
             [] s = 7 -> [dev EXCEPT !.pages = Whole(tree.www)] [] OTHER -> dev
NodeFlashed(s) == node' = IF s = 12 THEN [node EXCEPT !.fw = "new"] ELSE node
Worked(s) == done' = done \cup {s} /\ Built(s) /\ Flashed(s) /\ NodeFlashed(s)

\* The program does its work, or fails; the monitor has no end of its own.
Works ==
    /\ run.step # 9 /\ (child.under \/ (child.root = "up" /\ ~child.ok /\ run.step \notin {3, 6, 7, 12}))
    /\ \E bad \in Outcomes :
        /\ Suffer(bad)
        /\ child' = [child EXCEPT !.under = FALSE, !.ok = ~bad, !.root = IF bad /\ @ = "up" THEN "failed" ELSE @]
        /\ IF bad THEN UNCHANGED outside ELSE Worked(run.step)
    /\ UNCHANGED <<gui, mgr, killer, run>>

\* The program ends after what is under it, or on SIGTERM and leaves that running.
Exits ==
    /\ child.root = "up" /\ (child.ok \/ (child.termed /\ ~job.stubborn))
    /\ child' = [child EXCEPT !.root = IF child.ok THEN "done" ELSE "gone"]
    /\ UNCHANGED <<job, gui, mgr, killer, run, outside>>

\* The pipe closes when the last process that holds it is gone.
ReadEnds ==
    /\ run.at = "read" /\ child.root # "up" /\ ~child.under
    /\ Ends(IF mgr.killed THEN Cancelled ELSE IF child.root = "done" THEN 0 ELSE 1)
    /\ mgr' = [mgr EXCEPT !.proc = FALSE]
    /\ child' = [child EXCEPT !.root = "none", !.ok = FALSE, !.termed = FALSE]
    /\ UNCHANGED <<job, gui, killer, outside>>

-----------------------------------------------------------------------------
(* Step 8: the pages over HTTP.                                            *)

Sends == <<"app", "css", "index">>
Go(at) == run' = [run EXCEPT !.at = at]

\* The device must answer before anything is deleted or sent.
Reach ==
    /\ run.at = "reach"
    /\ \E bad \in Outcomes :
        /\ Suffer(bad)
        /\ IF bad \/ dev.fw = "none" THEN Ends(1)
           ELSE IF mgr.cancelled THEN Ends(Cancelled)
           ELSE run' = [run EXCEPT !.at = IF job.wipe THEN "wipe" ELSE "send", !.file = 1]
    /\ UNCHANGED <<gui, mgr, killer, child, outside>>

\* _http_wipe_www(): file by file, in the order of the listing.
Wipe ==
    /\ run.at = "wipe"
    /\ LET left == {f \in DOMAIN dev.pages : dev.pages[f] # "none"} IN
       IF mgr.cancelled THEN Ends(Cancelled) /\ UNCHANGED dev
       ELSE \/ /\ left # {} /\ UNCHANGED run
               /\ \E f \in left : dev' = [dev EXCEPT !.pages[f] = "none"]
            \/ (left = {} \/ Trouble) /\ Go("send") /\ UNCHANGED dev
    /\ UNCHANGED <<job, gui, mgr, killer, child, tree, node, done>>

\* One file: stored, cut off, or stored with its answer lost. The index goes last
\* and only after all the others.
Send ==
    /\ run.at = "send"
    /\ LET f == Sends[run.file] IN
       IF mgr.cancelled THEN Ends(Cancelled) /\ UNCHANGED <<job, dev>>
       ELSE IF f = "index" /\ run.fails > 0
       THEN run' = [run EXCEPT !.fails = @ + 1, !.at = "sent"] /\ UNCHANGED <<job, dev>>
       ELSE \E bad \in Outcomes :
            /\ Suffer(bad)
            /\ \E v \in IF bad THEN {dev.pages[f], "torn", tree.www} ELSE {tree.www} :
                 dev' = [dev EXCEPT !.pages[f] = v]
            /\ run' = [run EXCEPT !.fails = IF bad THEN @ + 1 ELSE @,
                                  !.file = IF f = "index" THEN 1 ELSE @ + 1,
                                  !.at = IF f = "index" THEN "sent" ELSE "send"]
    /\ UNCHANGED <<gui, mgr, killer, child, tree, node, done>>

\* Fault: the old scripts go although a file failed.
SentAnyway ==
    /\ run.at = "sent" /\ Ends(IF run.fails = 0 THEN 0 ELSE 1)
    /\ dev' = [dev EXCEPT !.pages.script = "none"]
    /\ done' = IF run.fails = 0 THEN done \cup {8} ELSE done
    /\ UNCHANGED <<job, gui, mgr, killer, child, tree, node>>

\* _http_drop_bundled(): once everything is there, the scripts it replaced go.
Sent ==
    /\ run.at = "sent" /\ Ends(IF run.fails = 0 THEN 0 ELSE 1)
    /\ dev' = IF run.fails = 0 THEN [dev EXCEPT !.pages.script = "none"] ELSE dev
    /\ done' = IF run.fails = 0 THEN done \cup {8} ELSE done
    /\ UNCHANGED <<job, gui, mgr, killer, child, tree, node>>

-----------------------------------------------------------------------------
(* Step 13: the collector's firmware over HTTP.                            *)

\* The image that was built last, or chosen; the collector must answer.
Image ==
    /\ run.at = "image"
    /\ \E bad \in Outcomes :
        /\ Suffer(bad)
        /\ IF tree.build = "none" THEN Ends(2)
           ELSE IF bad \/ dev.fw = "none" THEN Ends(1)
           ELSE IF mgr.cancelled THEN Ends(Cancelled)
           ELSE Go("upload")
    /\ UNCHANGED <<gui, mgr, killer, child, outside>>

\* Written to the other partition: the collector restarts. A stop in the middle
\* of the body and a refusal leave it alone; a lost answer does not.
Upload ==
    /\ run.at = "upload"
    /\ LET written == [dev EXCEPT !.spare = dev.fw, !.fw = tree.build, !.mark = "new", !.up = FALSE] IN
       \E bad \in Outcomes :
        /\ Suffer(bad)
        /\ \/ mgr.cancelled /\ ~bad /\ Ends(Cancelled) /\ UNCHANGED dev
           \/ IF bad THEN Ends(1) /\ dev' \in {dev, written} ELSE Go("back") /\ dev' = written
    /\ UNCHANGED <<gui, mgr, killer, child, tree, node, done>>

\* A new image runs, or fails and the bootloader goes back to the one before.
Restarts ==
    /\ dev.mark = "new"
    /\ dev' = IF ~(job.crash /\ dev.fw = "new") THEN [dev EXCEPT !.mark = "pending", !.up = TRUE]
              ELSE IF job.guard THEN [dev EXCEPT !.fw = dev.spare, !.mark = "valid", !.up = TRUE, !.rolled = TRUE]
              ELSE [dev EXCEPT !.mark = "dead"]
    /\ UNCHANGED <<job, gui, mgr, killer, run, child, tree, node, done>>

\* wait_back(): whatever answers the status page is back.
WaitBack ==
    /\ run.at = "back"
    /\ \/ mgr.cancelled /\ Ends(Cancelled) /\ UNCHANGED done
       \/ ~mgr.cancelled /\ dev.up /\ Go("confirmed") /\ UNCHANGED done
       \/ ~mgr.cancelled /\ dev.mark = "dead" /\ Ends(1) /\ UNCHANGED done
    /\ UNCHANGED <<job, gui, mgr, killer, child, tree, dev, node>>

\* A pending image is confirmed; a confirmation that fails is only a warning.
ConfirmImage ==
    /\ run.at = "confirmed" /\ Ends(0)
    /\ \E bad \in Outcomes :
        /\ Suffer(bad)
        /\ dev' = IF dev.mark = "pending" /\ ~bad THEN [dev EXCEPT !.mark = "valid"] ELSE dev
    /\ done' = IF dev.fw = tree.build THEN done \cup {13} ELSE done
    /\ UNCHANGED <<gui, mgr, killer, child, tree, node>>

-----------------------------------------------------------------------------
(* Step 14: node firmware through the collector.                           *)

\* An image the collector holds already is not sent again.
Held ==
    /\ run.at = "held"
    /\ \E bad \in Outcomes :
        /\ Suffer(bad)
        /\ IF tree.node = "none" THEN Ends(2) /\ UNCHANGED node
           ELSE IF bad \/ dev.fw = "none" THEN Ends(1) /\ UNCHANGED node
           ELSE IF node.held = tree.node THEN Go("start") /\ UNCHANGED node
           ELSE \/ Go("start") /\ node' = [node EXCEPT !.held = tree.node, !.st = "none"]
                \/ mgr.cancelled /\ Ends(Cancelled) /\ UNCHANGED node
    /\ UNCHANGED <<gui, mgr, killer, child, tree, dev, done>>

StartRollout ==
    /\ run.at = "start"
    /\ IF mgr.cancelled THEN Ends(Cancelled) /\ UNCHANGED <<job, node>>
       ELSE \E bad \in Outcomes :
            /\ Suffer(bad)
            /\ IF bad THEN Ends(1) /\ node' \in {node, [node EXCEPT !.st = "wait"]}
               ELSE Go("watch") /\ node' = [node EXCEPT !.st = "wait"]
    /\ UNCHANGED <<gui, mgr, killer, child, tree, dev, done>>

NodeTakes ==
    /\ node.st = "wait"
    /\ \/ node' = [node EXCEPT !.fw = node.held, !.st = "done"]
       \/ Trouble /\ node' = [node EXCEPT !.st = "failed"]
    /\ UNCHANGED <<job, gui, mgr, killer, run, child, tree, dev, done>>

\* _watch_rollout(): until the node is done, or the time is up, or a stop.
Watch ==
    /\ run.at = "watch"
    /\ \/ (~job.watch \/ node.st = "done") /\ Ends(0) /\ done' = done \cup {14} /\ UNCHANGED node
       \/ job.watch /\ node.st = "failed" /\ Ends(1) /\ UNCHANGED <<node, done>>
       \/ /\ job.watch /\ node.st = "wait"
          /\ \/ mgr.cancelled /\ Ends(Cancelled) /\ UNCHANGED node
             \/ ~mgr.cancelled /\ Ends(0) /\ node' = [node EXCEPT !.left = TRUE]
          /\ UNCHANGED done
    /\ UNCHANGED <<job, gui, mgr, killer, child, tree, dev>>

-----------------------------------------------------------------------------

DeployInit ==
    /\ job \in Jobs
    /\ gui = [at |-> "ready", requested |-> FALSE]
    /\ mgr = [made |-> FALSE, cancelled |-> FALSE, proc |-> FALSE, killed |-> FALSE]
    /\ killer = "off"
    /\ run = [at |-> "make", todo |-> job.steps, step |-> 0, failed |-> {}, skipped |-> {}, unfinished |-> {},
              fails |-> 0, file |-> 1]
    /\ child = [root |-> "none", under |-> FALSE, termed |-> FALSE, ok |-> FALSE]
    /\ tree = [build |-> job.prior, www |-> "old", node |-> job.prior]
    /\ dev = [fw |-> "old", spare |-> "none", mark |-> "valid", up |-> TRUE, rolled |-> FALSE,
              pages |-> IF job.bare THEN [app |-> "none", css |-> "bare", index |-> "bare", script |-> "bare"]
                        ELSE Whole("old")]
    /\ node = [held |-> IF job.chosen THEN "old" ELSE "none", st |-> "none", fw |-> "old", left |-> FALSE]
    /\ done = {}

Cancelling == PressStop \/ StopLater \/ CancelFlag \/ CancelLooks \/ CancelEnds
Program == Works \/ Exits
Worker ==
    \/ MakeManager \/ AskedToStop \/ NextStep \/ Confirm \/ Spawn \/ Publish \/ ThreeSeconds \/ ReadEnds
    \/ Reach \/ Wipe \/ Send \/ Sent \/ Image \/ Upload \/ WaitBack \/ ConfirmImage \/ Held \/ StartRollout \/ Watch
DeployNext == Cancelling \/ Program \/ Worker \/ Restarts \/ NodeTakes

\* The threads and programs go on, questions are answered, and a program that
\* takes SIGTERM does.
DeployFairness ==
    /\ WF_deployVars(Worker) /\ WF_deployVars(Works) /\ WF_deployVars(Exits) /\ WF_deployVars(Restarts)
    /\ WF_deployVars(StopLater) /\ WF_deployVars(CancelFlag) /\ WF_deployVars(CancelLooks)
    /\ WF_deployVars(CancelEnds)

-----------------------------------------------------------------------------

\* A cancelled run ends, whatever step it is in and wherever the cancel met
\* the start of its program (DeployManager.cancel(), _run_cmd()): nothing takes
\* a cancel back and nothing follows the end, so from some point on a run that
\* was cancelled is over.
StopEnds == <>[](mgr.cancelled => run.at = "over")

\* The pages a device serves are there: a new index comes after all it names, an
\* index from before the bundle keeps its scripts (s8_upload_http()). Not for a
\* device that is wiped first.
IndexNamesWhole ==
    job.wipe \/ (/\ dev.pages.index = "new" => dev.pages.app = "new" /\ dev.pages.css = "new"
                 /\ dev.pages.index = "bare" => dev.pages.script = "bare")

\* A run that compiles, updates and uploads never leaves the new pages on the old
\* firmware, but for an image the collector gave up by itself (_blocked_by()).
NewPagesNewFirmware ==
    {5, 13, 8} \subseteq job.steps /\ ~job.chosen /\ dev.pages.index = "new" => dev.fw = "new" \/ dev.rolled

\* A run that ends well did the work of every step that was not declined, but
\* for an image given up and a rollout it stopped following (run_steps()).
SuccessIsDone ==
    run.at = "over" /\ ~mgr.cancelled /\ run.failed = {} =>
        \A s \in job.steps \ (run.skipped \cup done) : (s = 13 /\ dev.rolled) \/ (s = 14 /\ node.left)

\* deploy_core.py, _RUN_ORDER: "Firmware first, pages after", so that the new
\* pages are not left on the old firmware.
PagesFollowFirmware ==
    {5, 13, 8} \subseteq job.steps /\ ~job.chosen /\ dev.pages.index = "new" => dev.fw = "new"

\* deploy_gui.py, _on_stop(): a press before the manager exists "is remembered".
StopRemembered == gui.at = "pressed" ~> run.at = "over"
=============================================================================
