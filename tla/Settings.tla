------------------------------ MODULE Settings ------------------------------
(***************************************************************************)
(* The collector's settings: one structure in RAM, written whole to          *)
(* /config.bin, and the modules' copy of a part of it in                     *)
(* /config/modules.json, which also holds what only modules keep             *)
(* (ConfigManager, ModuleRegistry, the save handlers of WebServer.cpp).      *)
(*                                                                         *)
(* A value of a field is the number of the edit it comes from, 0 the         *)
(* default. Handlers run one at a time on the web server's task; loop()      *)
(* saves on its own when a network handover ends.                            *)
(***************************************************************************)
EXTENDS Naturals, FiniteSets

CONSTANTS
    MaxEdits,    \* bound: saves that are asked for
    MaxTroubles  \* bound: power cuts, refused writes, unreadable files, formats

VARIABLES
    disk,    \* the four files: bin, binTmp, mods, modsNew
    cfg,     \* the settings in RAM, and whether the device is up
    saver,   \* what each task that saves has come to
    lock,    \* who holds fsMutex
    told     \* ghost: edits so far, those refused with a 400, the newest one answered

settingsVars == <<disk, cfg, saver, lock, told>>

\* "shared" stands for the theme, the data log and the clock, "rest" for what
\* only config.bin holds, "place" for what only a module keeps.
Own == {"pins", "rest", "ssid", "pass", "shared"}
Shadow == {"ssid", "shared", "place"}
Fields == Own \cup Shadow
Tasks == {"web", "loop"}

NoFile == [there |-> FALSE]
HalfFile == [there |-> TRUE, whole |-> FALSE]
File(v) == [there |-> TRUE, whole |-> TRUE, val |-> v]
Project(v, fs) == [f \in fs |-> v[f]]
Defaults == [f \in Fields |-> 0]
Quiet == [pc |-> "idle", n |-> 0, fs |-> {}]

Trouble == told.troubles < MaxTroubles /\ told' = [told EXCEPT !.troubles = @ + 1]

-----------------------------------------------------------------------------
(* The boot.                                                               *)

\* loadConfig() and loadAll() first finish or undo a write that was cut.
Recovered(file, spare) == IF ~file.there /\ spare.there THEN spare ELSE file

\* A file that cannot be read, or a short one, gives the defaults and is kept;
\* no file at all gives the defaults, which are written.
Readable(file) == file.there /\ file.whole

\* What loadAll() leaves of the settings v: the modules' copy has the last word.
Overlaid(v, file) == [f \in Fields |-> IF f \in Shadow /\ Readable(file) THEN file.val[f] ELSE v[f]]

FromBin(file) == [f \in Fields |-> IF f \in Own /\ Readable(file) THEN file.val[f] ELSE 0]

\* The settings the next boot comes up with when everything can be read.
Loads ==
    Overlaid(FromBin(Recovered(disk.bin, disk.binTmp)), Recovered(disk.mods, disk.modsNew))

\* loadConfig() and moduleRegistry.loadAll() of setup(), before any task runs.
\* Either file may fail to be read this once.
Boot ==
    /\ ~cfg.up
    /\ \E binRead, modsRead \in BOOLEAN :
        LET bin  == Recovered(disk.bin, disk.binTmp)
            mods == Recovered(disk.mods, disk.modsNew)
            v0   == IF binRead THEN FromBin(bin) ELSE Defaults
            v    == IF modsRead THEN Overlaid(v0, mods) ELSE v0 IN
        /\ (binRead /\ modsRead) \/ told.troubles < MaxTroubles
        /\ binRead \/ bin.there
        /\ modsRead \/ mods.there
        /\ cfg' = [up |-> TRUE, val |-> v]
        /\ disk' = [bin |-> IF bin.there THEN bin ELSE File(Project(v0, Own)), binTmp |-> NoFile,
                    mods |-> IF mods.there THEN mods ELSE File(Project(v, Shadow)), modsNew |-> NoFile]
        /\ told' = [told EXCEPT !.troubles = IF binRead /\ modsRead THEN @ ELSE @ + 1,
                                !.missed = (IF binRead THEN {} ELSE Own) \cup (IF modsRead THEN {} ELSE Shadow)]
    /\ UNCHANGED <<saver, lock>>

\* Any reset: the power, or the restart a handler asked for. A write under way
\* leaves a temporary file that may be cut short.
PowerCut ==
    /\ cfg.up /\ Trouble
    /\ \E half \in SUBSET {t \in Tasks : saver[t].pc \in {"bin", "mods"} /\ lock = "nobody"} :
        disk' = [disk EXCEPT !.binTmp = IF \E t \in half : saver[t].pc = "bin" THEN HalfFile ELSE @,
                             !.modsNew = IF \E t \in half : saver[t].pc = "mods" THEN HalfFile ELSE @]
    /\ cfg' = [up |-> FALSE, val |-> Defaults]
    /\ saver' = [t \in Tasks |-> Quiet]
    /\ lock' = "nobody"

-----------------------------------------------------------------------------
(* The handlers: each changes the RAM and calls saveConfig().              *)

\* Task t takes edit n of the fields fs.
Edit(t, fs) ==
    /\ cfg.up /\ saver[t].pc = "idle" /\ told.edits < MaxEdits
    /\ LET n == told.edits + 1 IN
       /\ cfg' = [cfg EXCEPT !.val = [f \in Fields |-> IF f \in fs THEN n ELSE @[f]]]
       /\ saver' = [saver EXCEPT ![t] = [pc |-> "bin", n |-> n, fs |-> fs]]
       \* Saving what was never read: those fields go, as the defaults replace them.
       /\ told' = [told EXCEPT !.edits = n, !.ok = [f \in Fields |-> IF f \in told.missed THEN 0 ELSE @[f]],
                               !.missed = {}]
    /\ UNCHANGED <<disk, lock>>

SaveDevice == Edit("web", {"rest"})

\* The theme and the clock.
SaveTheme == Edit("web", {"shared"})

\* The data log's files and formats, and how often its rows are made. A path or
\* a table of columns that is no good is refused before anything is applied.
SaveDatalog == Edit("web", {"shared", "rest"})

\* The form is applied to a copy: a refused one changes nothing. The password
\* is in config.bin alone.
SaveNetwork == Edit("web", {"ssid", "pass"})

\* POST /api/modules/:id: the structure is put back when the module refuses.
\* What only the module keeps is in modules.json alone.
UpdateModule == \E fs \in {{"place"}, {"ssid", "pass"}} : Edit("web", fs)

\* POST /api/kindle/config, the one handler that answers 500 when nothing was saved.
SaveKindle == Edit("web", {"rest"})

SaveHardware == Edit("web", {"pins", "rest"})

\* The wizard checks every pin before it takes the first.
FirstRun == Edit("web", {"pins"})

\* /import_settings takes nothing that a network is joined with, and no pins.
Import == Edit("web", {"shared", "rest"})

\* loop() ends a handover: the collector joins the network its nodes were told.
HandoverSwitch == Edit("loop", {"ssid", "pass"})

\* /save_hardware writes into the structure field by field and stops with a 400
\* at a bad pin or at two alike. Nothing is saved now.
RefuseHardware ==
    /\ cfg.up /\ saver["web"].pc = "idle" /\ told.edits < MaxEdits
    /\ LET n == told.edits + 1 IN
       /\ cfg' = [cfg EXCEPT !.val["pins"] = n, !.val["rest"] = n]
       /\ told' = [told EXCEPT !.edits = n, !.refused = @ \cup {n}]
    /\ UNCHANGED <<disk, saver, lock>>

\* /factory_reset, /api/format_filesystem: the files go, the RAM stays until
\* the restart.
FormatAll ==
    /\ cfg.up /\ lock = "nobody" /\ saver["web"].pc = "idle" /\ told.troubles < MaxTroubles
    /\ disk' = [f \in DOMAIN disk |-> NoFile]
    /\ told' = [told EXCEPT !.troubles = @ + 1, !.ok = Defaults]
    /\ saver' = [saver EXCEPT !["loop"].fs = {}]
    /\ UNCHANGED <<cfg, lock>>

-----------------------------------------------------------------------------
(* saveConfig(): config.bin under the lock, then modules.json under it.     *)

Step(t, pc) == saver' = [saver EXCEPT ![t].pc = pc]

WriteBin(t) ==
    /\ saver[t].pc = "bin" /\ lock = "nobody"
    /\ disk' = [disk EXCEPT !.binTmp = File(Project(cfg.val, Own))]
    /\ lock' = t
    /\ Step(t, "rename")
    /\ UNCHANGED <<cfg, told>>

\* Fault: saveAll() waits for the lock its caller still holds, and gives up.
AfterBinDone == "done"

\* The lock is given back before the modules' copy is written.
AfterBin == "mods"

RenameBin(t) ==
    /\ saver[t].pc = "rename"
    /\ disk' = [disk EXCEPT !.bin = disk.binTmp, !.binTmp = NoFile]
    /\ lock' = "nobody"
    /\ Step(t, AfterBin)
    /\ UNCHANGED <<cfg, told>>

WriteMods(t) ==
    /\ saver[t].pc = "mods" /\ lock = "nobody"
    /\ disk' = [disk EXCEPT !.modsNew = File(Project(cfg.val, Shadow))]
    /\ lock' = t
    /\ Step(t, "swap")
    /\ UNCHANGED <<cfg, told>>

RenameMods(t) ==
    /\ saver[t].pc = "swap"
    /\ disk' = [disk EXCEPT !.mods = disk.modsNew, !.modsNew = NoFile]
    /\ lock' = "nobody"
    /\ Step(t, "done")
    /\ UNCHANGED <<cfg, told>>

\* The lock is not obtained, the file cannot be opened or is not written whole,
\* or is not renamed: saveConfig() gives up, and but for one handler nobody
\* looks at what it returns.
GiveUp(t) ==
    /\ saver[t].pc \in {"bin", "rename", "mods", "swap"} /\ Trouble
    /\ disk' = [disk EXCEPT !.modsNew = IF saver[t].pc = "swap" THEN NoFile ELSE @]
    /\ lock' = IF lock = t THEN "nobody" ELSE lock
    /\ saver' = [saver EXCEPT ![t] = Quiet]
    /\ UNCHANGED cfg

\* "ok" to a save of which every write went through.
Answer(t) ==
    /\ saver[t].pc = "done"
    /\ told' = [told EXCEPT !.ok = [f \in Fields |-> IF f \in saver[t].fs /\ saver[t].n > @[f] THEN saver[t].n ELSE @[f]]]
    /\ saver' = [saver EXCEPT ![t] = Quiet]
    /\ UNCHANGED <<disk, cfg, lock>>

-----------------------------------------------------------------------------
SettingsInit ==
    /\ disk = [bin |-> NoFile, binTmp |-> NoFile, mods |-> NoFile, modsNew |-> NoFile]
    /\ cfg = [up |-> FALSE, val |-> Defaults]
    /\ saver = [t \in Tasks |-> Quiet]
    /\ lock = "nobody"
    /\ told = [edits |-> 0, troubles |-> 0, refused |-> {}, ok |-> Defaults, missed |-> {}]

Saving(t) == WriteBin(t) \/ RenameBin(t) \/ WriteMods(t) \/ RenameMods(t) \/ GiveUp(t) \/ Answer(t)

SettingsNext ==
    \/ Boot \/ PowerCut
    \/ SaveDevice \/ SaveTheme \/ SaveDatalog \/ SaveNetwork \/ UpdateModule \/ SaveKindle
    \/ SaveHardware \/ FirstRun \/ Import \/ HandoverSwitch
    \/ RefuseHardware \/ FormatAll
    \/ \E t \in Tasks : Saving(t)

-----------------------------------------------------------------------------

\* Whatever cuts the power and whenever, the next boot comes up with each field
\* as the newest answered save left it or newer, and not with an older or a
\* default value out of either file (saveConfig(), saveAll() and their
\* recovery). Excused are writes that failed, a format, and a save made after a
\* boot that could not read what it replaces.
AnsweredSurvives == \A f \in Fields : Loads[f] >= told.ok[f]

\* WebServer.cpp says of /save_hardware that a refused form is never persisted.
RefusedNotPersisted == Readable(disk.bin) => disk.bin.val["pins"] \notin told.refused

\* The modules' headers say that /config.bin remains authoritative and
\* modules.json is kept in sync.
BinIsAuthoritative == \A f \in Own \cap Shadow : Loads[f] = FromBin(Recovered(disk.bin, disk.binTmp))[f]

\* A network name is always used with the password that was saved with it.
PasswordOfItsNetwork == Loads["ssid"] = Loads["pass"]
=============================================================================
