----------------------------- MODULE ConfigFiles -----------------------------
(***************************************************************************)
(* The configuration files, and the three that write them: the loader,     *)
(* which adds missing defaults as it reads (config/mod.rs, defaults.rs)    *)
(* and resolves a snapshot (snapshot.rs); defiance-config --apply, the     *)
(* explicit migration (migration.rs), which may fail, roll back or be      *)
(* killed between any two files; and the user's editor.                    *)
(*                                                                         *)
(* Two settings stand for all: wait, which core.ini holds in [loader] and  *)
(* the bootstrap may hold too, and sway, a performance setting that        *)
(* [loader] held before it moved to the plugin's own section. A value is   *)
(* "" (not set), "bad" (fails validation), "quoted" (its text needs quotes *)
(* in the file) or plain. Comments, help text and line order are left out. *)
(***************************************************************************)
EXTENDS Integers, FiniteSets

CONSTANTS
    CoreTexts,   \* core.ini: [state, lwait, lsway, psway]
    BootTexts,   \* defiance-loader.ini: [state, wait, sway, plugins]
    EditTexts,   \* what the user may save as core.ini
    MaxStarts,   \* starts and refreshes of the loader
    MaxApplies,  \* runs of defiance-config --apply
    MaxEdits     \* saves by the user

VARIABLES
    core, boot,   \* the two files
    schema,       \* the metadata's schema_version; 0 is a missing file
    backup,       \* core.defiance-backup; state "missing" when there is none
    tmp,          \* core.tmp, which every replace of core.ini goes through
    lstep, ltext, lboot,   \* the loader: where it is, what it read
    tstep, ttext, tboot,   \* defiance-config: where it is, what it read
    moves,        \* [starts, applies, edits] so far
    meant,        \* ghost: the settings as the user left them
    raced,        \* ghost: an edit fell between a read and the write it led to
    overlap,      \* ghost: the loader and defiance-config ran at once
    claim,        \* ghost: the schema was recorded from current reads
    authored      \* ghost: the texts of core.ini that are the user's

cfgVars == <<core, boot, schema, backup, tmp, lstep, ltext, lboot, tstep, ttext, tboot,
             moves, meant, raced, overlap, claim, authored>>

Missing == [state |-> "missing", lwait |-> "", lsway |-> "", psway |-> ""]

----------------------------------------------------------------------------
(* Snapshot::build_with_extras: the plugin's own section, then [loader] for *)
(* a moved setting, then the bootstrap, then the default. An invalid value  *)
(* blocks its owner; it never falls through to the next source.             *)
FirstSet(a, b, c) == IF a # "" THEN a ELSE IF b # "" THEN b ELSE IF c # "" THEN c ELSE "default"

Resolved(c, b) ==
    IF c.state = "broken" \/ b.state = "broken" THEN [wait |-> "bad", sway |-> "bad"]
    ELSE [wait |-> FirstSet(c.lwait, "", b.wait), sway |-> FirstSet(c.psway, c.lsway, b.sway)]

(* startup_error: a problem of the loader's own section stops the host. *)
StartupError(c, b) == Resolved(c, b).wait = "bad"

(* complete_group, extend_missing: a declared setting nobody sets is added  *)
(* with its default; a legacy value stays authoritative.                    *)
CompleteGroup(c, b) ==
    IF c.state = "broken" THEN c
    ELSE [c EXCEPT !.state = "text",
                   !.lwait = IF @ = "" /\ b.wait = "" THEN "default" ELSE @,
                   !.psway = IF @ = "" /\ c.lsway = "" /\ b.sway = "" THEN "default" ELSE @]

(* legacy_pending *)
LegacyPending(c, b) ==
    \/ b.wait # "" /\ c.lwait = ""
    \/ c.lsway # ""
    \/ b.sway # "" /\ c.psway = ""

(* insert_setting writes the decoded value without quotes. *)
Inserted(v) == IF v = "quoted" THEN "cut" ELSE v

(* plan_loader_keys, take_moved_loader_keys: explicit values stay. *)
PlanLoaderKeys(c, b) ==
    [c EXCEPT !.state = "text",
              !.lwait = IF @ # "" THEN @ ELSE Inserted(b.wait),
              !.lsway = "",
              !.psway = IF @ # "" THEN @ ELSE IF c.lsway # "" THEN Inserted(c.lsway)
                        ELSE Inserted(b.sway)]

CoreChanges(c, b) == LegacyPending(c, b)
(* plan_default_plugins_override: only an override that equals the default. *)
BootChanges(b) == b.plugins = "default"

----------------------------------------------------------------------------
CfgInit ==
    /\ core \in CoreTexts /\ boot \in BootTexts /\ schema \in {0, 2}
    /\ backup = Missing /\ tmp = Missing
    /\ lstep = "idle" /\ ltext = Missing /\ lboot = boot
    /\ tstep = "idle" /\ ttext = Missing /\ tboot = boot
    /\ moves = [starts |-> 0, applies |-> 0, edits |-> 0]
    /\ meant = Resolved(core, boot)
    /\ raced = FALSE /\ overlap = FALSE /\ claim = FALSE /\ authored = {core}

loaderVars == <<lstep, ltext, lboot>>
toolVars == <<tstep, ttext, tboot>>
ghosts == <<meant, raced, authored>>

AtRest(step) == step \in {"idle", "ended", "clean", "dirty"}

(* backup: a copy before the first change to a file that exists. *)
KeepBackup ==
    backup' = IF core.state = "missing" \/ backup.state # "missing" THEN backup ELSE core

(* read: the bootstrap, then the metadata; a newer schema or a broken       *)
(* bootstrap ends it before any file is created or interpreted.             *)
LoaderReadsBoot ==
    /\ AtRest(lstep) /\ moves.starts < MaxStarts
    /\ lboot' = boot
    /\ lstep' = IF boot.state = "broken" \/ schema > 1 THEN "ended" ELSE "group"
    /\ moves' = [moves EXCEPT !.starts = @ + 1]
    /\ overlap' = (overlap \/ ~AtRest(tstep))
    /\ UNCHANGED <<core, boot, schema, backup, tmp, ltext, claim>> /\ UNCHANGED <<toolVars, ghosts>>

LoaderReadsGroup ==
    /\ lstep = "group"
    /\ ltext' = core
    /\ lstep' = IF CompleteGroup(core, lboot) = core THEN "record" ELSE "save"
    /\ UNCHANGED <<core, boot, schema, backup, tmp, lboot, moves, overlap, claim>>
    /\ UNCHANGED <<toolVars, ghosts>>

(* save_defaults: back up, write the temporary file, rename it. Either may  *)
(* fail; the defaults then stay in memory.                                  *)
LoaderWritesTmp ==
    /\ lstep = "save"
    /\ KeepBackup
    /\ tmp' = CompleteGroup(ltext, lboot)
    /\ lstep' = "rename"
    /\ UNCHANGED <<core, boot, schema, ltext, lboot, moves, overlap, claim>>
    /\ UNCHANGED <<toolVars, ghosts>>

LoaderRenames ==
    /\ lstep = "rename" /\ tmp.state # "missing"
    /\ core' = tmp /\ tmp' = Missing
    /\ ltext' = CompleteGroup(ltext, lboot) /\ lstep' = "record"
    /\ UNCHANGED <<boot, schema, backup, lboot, moves, overlap, claim>> /\ UNCHANGED <<toolVars, ghosts>>

LoaderSaveFails ==
    /\ lstep \in {"save", "rename"}
    /\ lstep' = "record"
    /\ UNCHANGED <<core, boot, schema, backup, tmp, ltext, lboot, moves, overlap, claim>>
    /\ UNCHANGED <<toolVars, ghosts>>

(* Mutant: the schema is recorded whatever is pending. *)
LoaderRecordsAnyway ==
    /\ lstep = "record"
    /\ lstep' = "ended"
    /\ \/ /\ ~StartupError(ltext, lboot) /\ schema = 0
          /\ schema' = 1 /\ claim' = ~(raced \/ overlap)
       \/ UNCHANGED <<schema, claim>>
    /\ UNCHANGED <<core, boot, backup, tmp, ltext, lboot, moves, overlap>> /\ UNCHANGED <<toolVars, ghosts>>

(* load_once: not while a migration is pending, nor after a startup error.  *)
(* refresh_later does not record, and the write may fail.                   *)
LoaderRecords ==
    /\ lstep = "record"
    /\ lstep' = "ended"
    /\ \/ /\ ~StartupError(ltext, lboot) /\ schema = 0 /\ ~LegacyPending(ltext, lboot)
          /\ schema' = 1 /\ claim' = ~(raced \/ overlap)
       \/ UNCHANGED <<schema, claim>>
    /\ UNCHANGED <<core, boot, backup, tmp, ltext, lboot, moves, overlap>> /\ UNCHANGED <<toolVars, ghosts>>

----------------------------------------------------------------------------
(* defiance-config: refuses what it cannot parse or does not know. *)
ToolReads ==
    /\ AtRest(tstep) /\ moves.applies < MaxApplies
    /\ tboot' = boot /\ ttext' = core
    /\ tstep' = IF boot.state = "broken" \/ schema > 1 \/ core.state = "broken" THEN "ended"
                ELSE IF CoreChanges(core, boot) THEN "core"
                ELSE IF BootChanges(boot) THEN "boot" ELSE "record"
    /\ moves' = [moves EXCEPT !.applies = @ + 1]
    /\ overlap' = (overlap \/ ~AtRest(lstep))
    /\ UNCHANGED <<core, boot, schema, backup, tmp, claim>> /\ UNCHANGED <<loaderVars, ghosts>>

ToolWritesTmp ==
    /\ tstep = "core"
    /\ KeepBackup
    /\ tmp' = PlanLoaderKeys(ttext, tboot)
    /\ tstep' = "rename"
    /\ UNCHANGED <<core, boot, schema, ttext, tboot, moves, overlap, claim>>
    /\ UNCHANGED <<loaderVars, ghosts>>

ToolRenames ==
    /\ tstep = "rename" /\ tmp.state # "missing"
    /\ core' = tmp /\ tmp' = Missing
    /\ tstep' = IF BootChanges(tboot) THEN "boot" ELSE "record"
    /\ UNCHANGED <<boot, schema, backup, ttext, tboot, moves, overlap, claim>>
    /\ UNCHANGED <<loaderVars, ghosts>>

(* The first write fails: nothing was written yet, so nothing is put back. *)
ToolCoreFails ==
    /\ tstep \in {"core", "rename"}
    /\ tstep' = "clean"
    /\ UNCHANGED <<core, boot, schema, backup, tmp, ttext, tboot, moves, overlap, claim>>
    /\ UNCHANGED <<loaderVars, ghosts>>

(* The bootstrap's backup and temporary file have names of their own. *)
ToolWritesBoot ==
    /\ tstep = "boot"
    /\ boot' = [tboot EXCEPT !.plugins = "none"]
    /\ tstep' = "record"
    /\ UNCHANGED <<core, schema, backup, tmp, ttext, tboot, moves, overlap, claim>>
    /\ UNCHANGED <<loaderVars, ghosts>>

(* apply_with: the second write fails, so the first is undone from memory;  *)
(* a restore that fails is reported as such. A file that was missing is     *)
(* removed again.                                                           *)
ToolBootFails ==
    /\ tstep = "boot"
    /\ \/ tstep' = "clean" /\ core' = IF CoreChanges(ttext, tboot) THEN ttext ELSE core
       \/ CoreChanges(ttext, tboot) /\ tstep' = "dirty" /\ UNCHANGED core
    /\ UNCHANGED <<boot, schema, backup, tmp, ttext, tboot, moves, overlap, claim>>
    /\ UNCHANGED <<loaderVars, ghosts>>

(* The metadata is written last, and may fail. *)
ToolRecords ==
    /\ tstep = "record"
    /\ tstep' = "ended"
    /\ \/ schema' = 1 /\ claim' = ~(raced \/ overlap)
       \/ UNCHANGED <<schema, claim>>
    /\ UNCHANGED <<core, boot, backup, tmp, ttext, tboot, moves, overlap>>
    /\ UNCHANGED <<loaderVars, ghosts>>

(* Either process may be killed; what it read is gone, tmp stays. *)
Killed ==
    \/ /\ ~AtRest(lstep) /\ lstep' = "ended"
       /\ UNCHANGED <<ltext, lboot>> /\ UNCHANGED toolVars
       /\ UNCHANGED <<core, boot, schema, backup, tmp, moves, overlap, claim, ghosts>>
    \/ /\ ~AtRest(tstep) /\ tstep' = "ended"
       /\ UNCHANGED <<ttext, tboot>> /\ UNCHANGED loaderVars
       /\ UNCHANGED <<core, boot, schema, backup, tmp, moves, overlap, claim, ghosts>>

(* The user saves core.ini from an editor. *)
UserSaves(text) ==
    /\ moves.edits < MaxEdits
    /\ core' = text
    /\ meant' = Resolved(text, boot)
    /\ authored' = authored \cup {text}
    /\ raced' = ~(AtRest(lstep) /\ AtRest(tstep))
    /\ claim' = FALSE
    /\ moves' = [moves EXCEPT !.edits = @ + 1]
    /\ UNCHANGED <<boot, schema, backup, tmp, overlap>> /\ UNCHANGED <<loaderVars, toolVars>>

CfgNext ==
    \/ LoaderReadsBoot \/ LoaderReadsGroup \/ LoaderWritesTmp \/ LoaderRenames
    \/ LoaderSaveFails \/ LoaderRecords
    \/ ToolReads \/ ToolWritesTmp \/ ToolRenames \/ ToolCoreFails \/ ToolWritesBoot
    \/ ToolBootFails \/ ToolRecords
    \/ Killed
    \/ \E text \in EditTexts : UserSaves(text)

CfgSpec == CfgInit /\ [][CfgNext]_cfgVars

----------------------------------------------------------------------------
(* Whatever the loader and the migration write, in whatever order and       *)
(* wherever either is killed, fails or rolls back, every setting resolves   *)
(* to what the user left it at. Two exceptions: an edit saved between a     *)
(* read and the write it leads to is overwritten, and a moved value that    *)
(* needs quotes loses what follows the first ';', '#'.                      *)
SettingsKeepTheirValue ==
    ~raced => \A k \in {"wait", "sway"} :
                  \/ Resolved(core, boot)[k] = meant[k]
                  \/ meant[k] = "quoted"

(* The recorded schema version is a claim about the files ("the version is  *)
(* a claim about the files"): once recorded from reads no other writer has  *)
(* overtaken, nothing is left to migrate.                                   *)
SchemaIsHonest == claim => ~LegacyPending(core, boot)

(* A migration that says it rolled back has put back every file.            *)
RollbackIsHonest ==
    tstep = "clean" /\ ~raced /\ ~overlap /\ AtRest(lstep) /\ moves.edits = 0 /\ moves.starts = 0
        => core = ttext /\ boot = tboot

(* The backup of a core.ini that was there first holds a text of the        *)
(* user's, never one a program wrote: also after any number of changes.     *)
BackupIsTheUsers ==
    backup.state # "missing" /\ Missing \notin authored => backup \in authored
=============================================================================
