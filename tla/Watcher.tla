------------------------------ MODULE Watcher ------------------------------
(***************************************************************************)
(* The hot-reload watcher and the queue it feeds, for one reloadable,      *)
(* managed plugin (reload.rs). Three actors: someone who edits the files;  *)
(* the watcher thread, which polls them and queues changes; and whichever  *)
(* thread applies the queue, the watcher at the menu or the game thread    *)
(* before a mission. A poll and an application overlap: only the FAILED    *)
(* lock, held while the queue is applied, is taken at a poll's start.      *)
(*                                                                         *)
(* What an operation does to other plugins, and how it unloads and loads   *)
(* copies, is HotReload's subject; when the queue may be applied,          *)
(* SessionGate's. hot_reload and live_toggle are both on, dependencies are *)
(* loaded, the guard is in place, and a copy of the DLL can be made.       *)
(***************************************************************************)
EXTENDS Integers, TLAPS

CONSTANTS
    Settings,         \* values of the plugin's settings
    FilesAtStart,     \* the DLL's stamps at startup: 0 (not installed), 1
    MaxBuilds,        \* DLLs written in all (a bound of the model)
    MaxDeletes,       \* times the files are deleted (a bound)
    MaxConfigEdits,   \* edits of the configuration (a bound)
    LowerCase,        \* the manifest spells its ID in lower case
    Worlds            \* "rough", "calm": see `world'

ASSUME BoundsAssumption ==
    MaxBuilds \in Nat \ {0} /\ MaxDeletes \in Nat /\ MaxConfigEdits \in Nat
ASSUME StartAssumption == FilesAtStart \subseteq {0, 1}
ASSUME SwitchesAssumption == LowerCase \in BOOLEAN /\ Worlds \subseteq {"rough", "calm"}

Gone == 0        \* no file: a Stamp of None
Absent == -1     \* no entry in a map of stamps
Stamps == Gone..MaxBuilds

ConfigStates == [enabled : BOOLEAN, settings : Settings]
NoConfig == [enabled |-> FALSE, settings |-> "none"]    \* no entry
ASSUME SettingsAssumption == {"none", "empty"} \cap Settings = {}

NoChange == [kind |-> "none", stamp |-> Absent]
FileChange(k, s) == [kind |-> k, stamp |-> s]
FileChanges ==
    [kind : {"reload", "add", "retry", "remove"}, stamp : Stamps] \cup {NoChange}
Queues == [file : FileChanges, config : ConfigStates \cup {NoConfig}]
Empty == [file |-> NoChange, config |-> NoConfig]

NoCopy == [code |-> Gone, stamp |-> Gone, settings |-> "none"]
Copies == [code : 1..MaxBuilds, stamp : Stamps, settings : Settings]

VARIABLES
    world,         \* "rough": operations may be refused, loads may fail, files
                   \* may go and edits come at any time; "calm": none of this,
                   \* the plugin is installed, and the configuration is edited
                   \* only when nothing is queued, applied or to be polled
    file,          \* the DLL's stamp, or Gone with its manifest
    builds, deletes, configEdits,    \* edits so far
    cfg,           \* the plugin's section in the configuration files
    touched,       \* a config file changed since the watcher's last look
    copy,          \* the loaded copy: the build it runs, Loaded::stamp, settings
    accepted,      \* config::accepted_settings
    failed,        \* FAILED
    known,         \* KNOWN
    startup,       \* STARTUP_FAILURES: the stamp that failed
    applied,       \* APPLIED_CONFIG's settings
    halted,        \* INCOMPLETE_ROLLBACK: plugin changes stop until a restart
    pending,       \* PENDING
    watcher, failedNow, seen, listed,    \* locals of `watch'
    desired, read, settling,             \* the same, for the configuration
    applier,       \* the thread applying the queue, or "none"
    batch,         \* the changes it took and has not applied
    step,          \* where it is in a change
    code, candidate,     \* the build and settings it loads
    reloaded       \* apply_pending's successfully_reloaded

fileVars == <<world, file, builds, deletes, configEdits, cfg>>
pluginVars == <<copy, accepted, failed, known, startup, applied, halted>>
pollVars == <<watcher, failedNow, seen, listed>>
configVars == <<desired, read, settling>>
applyVars == <<applier, batch, step, code, candidate, reloaded>>
vars == <<fileVars, touched, pluginVars, pending, pollVars, configVars, applyVars>>

TypeOK ==
    /\ world \in Worlds
    /\ file \in Stamps /\ builds \in 1..MaxBuilds
    /\ deletes \in 0..MaxDeletes /\ configEdits \in 0..MaxConfigEdits
    /\ cfg \in ConfigStates /\ touched \in BOOLEAN
    /\ copy \in Copies \cup {NoCopy}
    /\ accepted \in Settings
    /\ failed \in Stamps \cup {Absent} /\ known \in BOOLEAN
    /\ startup \in Stamps \cup {Absent}
    /\ applied \in Settings \cup {"none", "empty"} /\ halted \in BOOLEAN
    /\ pending \in Queues /\ batch \in Queues
    /\ watcher \in {"ended", "sleep", "loaded", "directory", "config", "menu", "apply"}
    /\ failedNow \in Stamps \cup {Absent} /\ seen \in Stamps \cup {Absent}
    /\ listed \in Stamps
    /\ desired \in ConfigStates \cup {NoConfig}
    /\ read \in ConfigStates \cup {NoConfig} /\ settling \in BOOLEAN
    /\ applier \in {"none", "watcher", "game"}
    /\ step \in {"next", "copy", "init"}
    /\ code \in Stamps /\ candidate \in Settings
    /\ reloaded \in BOOLEAN

LoadsFail == world = "rough"

(* config_now leaves out a plugin that is not in the directory. *)
ConfigNow == IF file = Gone THEN NoConfig ELSE cfg

(* Startup is over: the plugin is off, running or failed, or not installed, *)
(* with its section left from an earlier installation.                      *)
Init ==
    /\ world \in Worlds
    /\ file \in FilesAtStart /\ (world = "calm" => file # Gone)
    /\ builds = 1 /\ deletes = 0 /\ configEdits = 0
    /\ cfg \in ConfigStates /\ touched = FALSE
    /\ accepted = cfg.settings
    /\ \/ /\ file # Gone /\ cfg.enabled /\ startup = Absent
          /\ copy = [code |-> file, stamp |-> file, settings |-> cfg.settings]
       \/ /\ file # Gone /\ cfg.enabled /\ LoadsFail
          /\ startup = file /\ copy = NoCopy
       \/ /\ file = Gone \/ ~cfg.enabled
          /\ startup = Absent /\ copy = NoCopy
    /\ failed = Absent /\ known = (file # Gone)
    /\ applied = ConfigNow.settings /\ halted = FALSE
    /\ pending = Empty /\ batch = Empty
    /\ watcher = "sleep" /\ failedNow = Absent /\ seen = Absent /\ listed = file
    /\ desired = ConfigNow /\ read = ConfigNow /\ settling = FALSE
    /\ applier = "none" /\ step = "next"
    /\ code = Gone /\ candidate = cfg.settings
    /\ reloaded = FALSE

----------------------------------------------------------------------------
(* Editing the files. A stamp stands for what the DLL has when it is read:  *)
(* a build that is still being copied goes through several.                 *)

Build ==
    /\ builds < MaxBuilds
    /\ builds' = builds + 1
    /\ file' = builds + 1
    /\ UNCHANGED <<world, deletes, configEdits, cfg, touched, pluginVars, pending,
                   pollVars, configVars, applyVars>>

Delete ==
    /\ world = "rough" /\ file # Gone /\ deletes < MaxDeletes
    /\ deletes' = deletes + 1
    /\ file' = Gone
    /\ UNCHANGED <<world, builds, configEdits, cfg, touched, pluginVars, pending,
                   pollVars, configVars, applyVars>>

Settled ==
    /\ watcher = "sleep" /\ applier = "none" /\ pending = Empty
    /\ ~touched /\ ~settling

EditConfig ==
    /\ configEdits < MaxConfigEdits
    /\ world = "calm" => Settled
    /\ configEdits' = configEdits + 1
    /\ \E c \in ConfigStates \ {cfg} : cfg' = c
    /\ touched' = TRUE
    /\ UNCHANGED <<world, file, builds, deletes, pluginVars, pending, pollVars,
                   configVars, applyVars>>

----------------------------------------------------------------------------
(* One turn of `watch'.                                                     *)

(* queue and queue_into: the latest file change, and the latest             *)
(* configuration.                                                           *)
Queue(change) ==
    pending' = IF halted \/ change = NoChange THEN pending
               ELSE [pending EXCEPT !.file = change]

(* After an incomplete rollback the thread is over. *)
WatchReturns ==
    /\ watcher = "sleep" /\ halted
    /\ watcher' = "ended"
    /\ UNCHANGED <<fileVars, touched, pluginVars, pending, failedNow, seen,
                   listed, configVars, applyVars>>

Poll ==
    /\ watcher = "sleep" /\ ~halted /\ applier = "none"
    /\ failedNow' = failed
    /\ watcher' = "loaded"
    /\ UNCHANGED <<fileVars, touched, pluginVars, pending, seen, listed,
                   configVars, applyVars>>

(* Mutant: any failure holds the next build back. *)
FailedAny == IF failedNow # Absent THEN file ELSE Absent

(* FAILED has lower-case keys; this lookup uses the ID as it is spelled. *)
FailedAsSpelled == IF LowerCase THEN failedNow ELSE Absent

ScanLoaded ==
    /\ watcher = "loaded"
    /\ IF copy = NoCopy THEN UNCHANGED <<pending, seen>>
       ELSE /\ Queue(IF /\ file # Gone /\ file # copy.stamp
                        /\ seen = file /\ FailedAsSpelled # file
                     THEN FileChange("reload", file) ELSE NoChange)
            /\ seen' = file
    /\ watcher' = "directory"
    /\ UNCHANGED <<fileVars, touched, pluginVars, failedNow, listed, configVars,
                   applyVars>>

(* directory_changes and startup_retry_changes *)
Added ==
    /\ file # Gone /\ listed = file /\ copy = NoCopy
    /\ ~known /\ failedNow # file

Removed == copy # NoCopy /\ file = Gone /\ listed = Gone /\ failedNow = Absent

Replaced ==
    /\ startup # Absent /\ file \notin {Gone, startup}
    /\ listed = file /\ copy = NoCopy /\ failedNow # file

ScanDirectory ==
    /\ watcher = "directory"
    /\ Queue(CASE Removed  -> FileChange("remove", Gone)
               [] Added    -> FileChange("add", file)
               [] Replaced -> FileChange("retry", file)
               [] OTHER    -> NoChange)
    /\ listed' = file
    /\ watcher' = "config"
    /\ UNCHANGED <<fileVars, touched, pluginVars, failedNow, seen, configVars,
                   applyVars>>

(* Mutant: only a loaded plugin's section is compared. *)
ConfigChangedLoaded ==
    /\ ConfigNow # NoConfig /\ read = ConfigNow
    /\ desired \notin {NoConfig, ConfigNow}
    /\ copy # NoCopy

(* config_changes: read the same twice, and not what was wanted before.     *)
ConfigChanged ==
    /\ ConfigNow # NoConfig /\ read = ConfigNow /\ desired # NoConfig
    /\ \/ desired.enabled # ConfigNow.enabled
       \/ desired.settings # ConfigNow.settings /\ copy # NoCopy

ScanConfig ==
    /\ watcher = "config"
    /\ watcher' = "menu"
    /\ touched' = FALSE
    /\ settling' = touched
    /\ read' = IF touched \/ settling THEN ConfigNow ELSE read
    /\ IF settling /\ ~touched
       THEN /\ desired' = ConfigNow
            /\ pending' = IF ConfigChanged /\ ~halted
                          THEN [pending EXCEPT !.config = ConfigNow] ELSE pending
       ELSE UNCHANGED <<desired, pending>>
    /\ UNCHANGED <<fileVars, pluginVars, failedNow, seen, listed, applyVars>>

NotAtMenu ==
    /\ watcher = "menu"
    /\ watcher' = "sleep"
    /\ UNCHANGED <<fileVars, touched, pluginVars, pending, failedNow, seen,
                   listed, configVars, applyVars>>

----------------------------------------------------------------------------
(* apply_pending *)

Take(thread) ==
    /\ applier = "none" /\ pending # Empty
    /\ applier' = thread
    /\ batch' = pending /\ pending' = Empty
    /\ reloaded' = FALSE
    /\ UNCHANGED <<fileVars, touched, pluginVars, failedNow, seen, listed,
                   configVars, step, code, candidate>>

AtMenu == watcher = "menu" /\ Take("watcher") /\ watcher' = "apply"
BeforeMission == Take("game") /\ UNCHANGED watcher

BatchApplied ==
    /\ applier # "none" /\ step = "next" /\ batch = Empty
    /\ applier' = "none"
    /\ watcher' = IF applier = "watcher" THEN "sleep" ELSE watcher
    /\ UNCHANGED <<fileVars, touched, pluginVars, pending, failedNow, seen,
                   listed, configVars, batch, step, code, candidate, reloaded>>

(* apply_changes looks before each change. *)
BatchDropped ==
    /\ applier # "none" /\ step = "next" /\ halted /\ batch # Empty
    /\ batch' = Empty /\ pending' = Empty
    /\ UNCHANGED <<fileVars, touched, pluginVars, pollVars, configVars, applier,
                   step, code, candidate, reloaded>>

(* The end of a file change: apply_changes and note_loaded. *)
FileChangeEnds(ok) ==
    /\ batch' = [batch EXCEPT !.file = NoChange]
    /\ step' = "next"
    /\ failed' = IF ok THEN Absent ELSE batch.file.stamp
    /\ UNCHANGED applied

(* The end of a Config change: reconcile_config and record_applied_config.  *)
ConfigEnds(ok, settingsApplied) ==
    /\ batch' = [batch EXCEPT !.config = NoConfig]
    /\ step' = "next"
    /\ failed' = IF ok THEN Absent ELSE Gone
    /\ applied' = CASE settingsApplied  -> batch.config.settings
                    [] applied = "none" -> "empty"
                    [] OTHER            -> applied

ChangeEnds(ok) ==
    IF batch.file # NoChange THEN FileChangeEnds(ok) ELSE ConfigEnds(ok, ok)

(* An operation got through its checks: the running copy, if any, is out.   *)
Unloads(settings) ==
    /\ copy' = NoCopy
    /\ candidate' = settings
    /\ step' = "copy"
    /\ UNCHANGED <<accepted, failed, known, startup, applied, halted, batch>>

(* The copy could not be unloaded: it stays, or it is kept mapped but out of *)
(* the active set, or a span of it is still there and changes stop.          *)
UnloadFails ==
    /\ LoadsFail /\ copy # NoCopy
    /\ \/ copy' \in {copy, NoCopy} /\ UNCHANGED halted
       \/ halted' = TRUE /\ UNCHANGED copy

Applies(kind) ==
    applier # "none" /\ step = "next" /\ ~halted /\ batch.file.kind = kind

(* reload: planned with the settings the plugin last accepted.              *)
ApplyReload ==
    /\ Applies("reload")
    /\ \/ /\ copy # NoCopy /\ copy.stamp = batch.file.stamp
          /\ FileChangeEnds(TRUE)
          /\ UNCHANGED <<copy, accepted, known, startup, halted, candidate>>
       \/ /\ copy = NoCopy \/ copy.stamp # batch.file.stamp
          /\ copy = NoCopy \/ file = Gone \/ LoadsFail
          /\ FileChangeEnds(FALSE)
          /\ UNCHANGED <<copy, accepted, known, startup, halted, candidate>>
       \/ /\ copy # NoCopy /\ copy.stamp # batch.file.stamp /\ file # Gone
          /\ UnloadFails /\ FileChangeEnds(FALSE)
          /\ UNCHANGED <<accepted, known, startup, candidate>>
       \/ /\ copy # NoCopy /\ copy.stamp # batch.file.stamp /\ file # Gone
          /\ Unloads(accepted)
    /\ UNCHANGED <<fileVars, touched, pending, pollVars, configVars, applier,
                   code, reloaded>>

(* Mutant: a failed startup is not looked for. *)
AddAllowedAnyway(retry) == file # Gone /\ cfg.enabled

(* add_plugin's checks, with the configuration as it is now. *)
AddRefused(retry) ==
    \/ file = Gone \/ ~cfg.enabled \/ LoadsFail
    \/ startup # Absent /\ ~retry
AddAllowed(retry) ==
    file # Gone /\ cfg.enabled /\ (startup # Absent => retry)

ApplyAdd ==
    /\ Applies("add")
    /\ \/ /\ copy # NoCopy
          /\ FileChangeEnds(TRUE)
          /\ UNCHANGED <<copy, accepted, known, startup, halted, candidate>>
       \/ /\ copy = NoCopy /\ AddRefused(FALSE)
          /\ FileChangeEnds(FALSE)
          /\ UNCHANGED <<copy, accepted, known, startup, halted, candidate>>
       \/ /\ copy = NoCopy /\ AddAllowed(FALSE)
          /\ Unloads(cfg.settings)
    /\ UNCHANGED <<fileVars, touched, pending, pollVars, configVars, applier,
                   code, reloaded>>

(* retry_startup: a newer build must settle first. *)
ApplyRetry ==
    /\ Applies("retry")
    /\ \/ /\ copy # NoCopy \/ (startup # Absent /\ file # batch.file.stamp)
          /\ FileChangeEnds(TRUE)
          /\ UNCHANGED <<copy, accepted, known, startup, halted, candidate>>
       \/ /\ copy = NoCopy /\ startup = Absent
          /\ FileChangeEnds(FALSE)
          /\ UNCHANGED <<copy, accepted, known, startup, halted, candidate>>
       \/ /\ copy = NoCopy /\ startup # Absent /\ file = batch.file.stamp
          /\ AddRefused(TRUE)
          /\ FileChangeEnds(FALSE)
          /\ startup' = batch.file.stamp
          /\ UNCHANGED <<copy, accepted, known, halted, candidate>>
       \/ /\ copy = NoCopy /\ startup # Absent /\ file = batch.file.stamp
          /\ AddAllowed(TRUE)
          /\ Unloads(cfg.settings)
    /\ UNCHANGED <<fileVars, touched, pending, pollVars, configVars, applier,
                   code, reloaded>>

(* remove *)
ApplyRemove ==
    /\ Applies("remove")
    /\ \/ /\ copy = NoCopy
          /\ FileChangeEnds(TRUE)
          /\ UNCHANGED <<copy, known, halted>>
       \/ /\ copy # NoCopy
          /\ copy' = NoCopy /\ known' = FALSE
          /\ FileChangeEnds(TRUE)
          /\ UNCHANGED halted
       \/ UnloadFails /\ FileChangeEnds(FALSE) /\ UNCHANGED known
    /\ UNCHANGED <<fileVars, touched, pending, pollVars, configVars, applier,
                   accepted, startup, candidate, code, reloaded>>

(* config_action *)
SettingsReloaded == reloaded /\ accepted = batch.config.settings
Action ==
    CASE ~batch.config.enabled /\ copy # NoCopy -> "disable"
      [] batch.config.enabled /\ copy = NoCopy -> "enable"
      [] /\ batch.config.enabled /\ copy # NoCopy /\ ~SettingsReloaded
         /\ applied \notin {"none", batch.config.settings} -> "resettle"
      [] OTHER -> "keep"

AppliesConfig(action) ==
    /\ applier # "none" /\ step = "next" /\ ~halted
    /\ batch.file = NoChange /\ batch.config # NoConfig
    /\ Action = action

ApplyKeep ==
    /\ AppliesConfig("keep")
    /\ ConfigEnds(TRUE, SettingsReloaded /\ copy # NoCopy /\ batch.config.enabled)
    /\ UNCHANGED <<fileVars, touched, copy, accepted, known, startup, halted,
                   pending, pollVars, configVars, applier, code, candidate,
                   reloaded>>

ApplyDisable ==
    /\ AppliesConfig("disable")
    /\ \/ copy' = NoCopy /\ ConfigEnds(TRUE, FALSE) /\ UNCHANGED halted
       \/ UnloadFails /\ ConfigEnds(FALSE, FALSE)
    /\ UNCHANGED <<fileVars, touched, accepted, known, startup, pending,
                   pollVars, configVars, applier, code, candidate, reloaded>>

(* enable and resettle load with the configuration as it is now, which need *)
(* not be the snapshot that was queued.                                     *)
ApplyEnable ==
    /\ AppliesConfig("enable")
    /\ \/ /\ AddRefused(FALSE)
          /\ ConfigEnds(FALSE, FALSE)
          /\ UNCHANGED <<copy, accepted, known, startup, halted, candidate>>
       \/ /\ AddAllowed(FALSE)
          /\ Unloads(cfg.settings)
    /\ UNCHANGED <<fileVars, touched, pending, pollVars, configVars, applier,
                   code, reloaded>>

ApplyResettle ==
    /\ AppliesConfig("resettle")
    /\ \/ /\ file = Gone \/ ~cfg.enabled \/ LoadsFail
          /\ ConfigEnds(FALSE, FALSE)
          /\ UNCHANGED <<copy, accepted, known, startup, halted, candidate>>
       \/ /\ file # Gone /\ cfg.enabled
          /\ UnloadFails /\ ConfigEnds(FALSE, FALSE)
          /\ UNCHANGED <<accepted, known, startup, candidate>>
       \/ /\ file # Gone /\ cfg.enabled
          /\ Unloads(cfg.settings)
    /\ UNCHANGED <<fileVars, touched, pending, pollVars, configVars, applier,
                   code, reloaded>>

(* A failed attempt of a retry is remembered by its stamp. *)
LoadFails ==
    /\ ChangeEnds(FALSE)
    /\ startup' = IF batch.file.kind = "retry" THEN batch.file.stamp ELSE startup
    /\ UNCHANGED <<accepted, known>>

(* Mutant: the copy is not checked. *)
ShadowCopyUnchecked ==
    /\ step = "copy"
    /\ code' = file /\ step' = "init"
    /\ UNCHANGED <<fileVars, touched, pluginVars, pending, pollVars, configVars,
                   applier, batch, candidate, reloaded>>

(* plugin::load copies the DLL ... *)
ShadowCopy ==
    /\ step = "copy"
    /\ \/ /\ file # Gone
          /\ code' = file /\ step' = "init"
          /\ UNCHANGED <<pluginVars, batch, reloaded>>
       \/ /\ file = Gone
          /\ LoadFails /\ UNCHANGED <<copy, halted, reloaded, code>>
    /\ UNCHANGED <<fileVars, touched, pending, pollVars, configVars, applier,
                   candidate>>

(* ... runs its init, and reads the stamp when that is over. A failure      *)
(* whose rollback is incomplete stops all changes, with the copy recorded   *)
(* if its writes were already begun.                                        *)
NewCopy == [code |-> code, stamp |-> file, settings |-> candidate]

InitReturns ==
    /\ step = "init"
    /\ \/ /\ copy' = NewCopy
          /\ accepted' = candidate
          /\ startup' = IF batch.file.kind = "retry" THEN Absent ELSE startup
          /\ known' = (known \/ batch.file.kind = "add")
          /\ reloaded' = (reloaded \/ batch.file.kind = "reload")
          /\ ChangeEnds(TRUE)
          /\ UNCHANGED halted
       \/ /\ LoadsFail /\ LoadFails
          /\ halted' \in {halted, TRUE}
          /\ UNCHANGED <<copy, reloaded>>
       \/ /\ LoadsFail /\ ChangeEnds(FALSE)
          /\ halted' = TRUE
          /\ copy' = NewCopy /\ startup' = Absent
          /\ reloaded' = (reloaded \/ batch.file.kind = "reload")
          /\ UNCHANGED <<accepted, known>>
    /\ UNCHANGED <<fileVars, touched, pending, pollVars, configVars, applier,
                   code, candidate>>

----------------------------------------------------------------------------
Edit == Build \/ Delete \/ EditConfig
WatcherStep == WatchReturns \/ Poll \/ ScanLoaded \/ ScanDirectory \/ ScanConfig
TakeQueue == AtMenu \/ BeforeMission
ApplyStep ==
    \/ BatchApplied \/ BatchDropped
    \/ ApplyReload \/ ApplyAdd \/ ApplyRetry \/ ApplyRemove
    \/ ApplyKeep \/ ApplyDisable \/ ApplyEnable \/ ApplyResettle
    \/ ShadowCopy \/ InitReturns

Next == Edit \/ WatcherStep \/ NotAtMenu \/ TakeQueue \/ ApplyStep

(* The watcher keeps polling, an application goes on, and what is queued is *)
(* taken at some menu or before some mission (SessionGate's PendingTaken).  *)
Spec ==
    /\ Init /\ [][Next]_vars
    /\ WF_vars(WatcherStep \/ NotAtMenu \/ AtMenu)
    /\ WF_vars(TakeQueue)
    /\ WF_vars(ApplyStep)

----------------------------------------------------------------------------
(* What the loader has recorded of the plugin agrees: the settings it       *)
(* answers are those its copy was loaded with, unless an incomplete rollback *)
(* stopped all changes; a startup failure is remembered only of a plugin    *)
(* that is not loaded; and once changes stopped, none is under way.         *)
RecordsAgree ==
    /\ copy # NoCopy => startup = Absent
    /\ copy # NoCopy /\ ~halted => copy.settings = accepted
    /\ halted => step = "next"

(* "Plugin changes stop until restart."                                     *)
ChangesStop == [][halted => UNCHANGED <<halted, copy, accepted, known, startup>>]_vars

(* The edits of a behaviour come to an end, so what holds for ever from     *)
(* some point on is where the loader settles after the last one.            *)

(* Once the files rest, the loader does too: nothing is queued or applied   *)
(* again and again, failed attempts included. And no build is overlooked: a *)
(* loaded plugin's DLL is the one its copy was recorded with, or one that   *)
(* was tried and failed, unless an incomplete rollback stopped all changes. *)
BuildsNoticed ==
    <>[](/\ pending = Empty /\ applier = "none"
         /\ copy # NoCopy /\ file # Gone /\ ~halted => file \in {copy.stamp, failed})

(* In the end a plugin that is there runs exactly if it is switched on, if  *)
(* the world is calm.                                                       *)
EnabledConverges ==
    <>[](world = "calm" /\ file # Gone => (copy # NoCopy <=> cfg.enabled))

-----------------------------------------------------------------------------
(* Proofs. Between unloading the old copy and recording the new one nothing *)
(* is loaded, the build that is loaded was there when it was copied, and a  *)
(* plugin whose startup failed is only loaded by its retry.                 *)
UnderWay ==
    /\ step # "next" =>
        copy = NoCopy /\ (startup # Absent => batch.file.kind = "retry")
    /\ step = "init" => code # Gone
    /\ applier = "none" => step = "next"

WatcherInv == TypeOK /\ RecordsAgree /\ UnderWay

(* The builds, the stamps and what the loader keeps of them.                *)
LEMMA Values ==
    /\ MaxBuilds \in Nat \ {0} /\ MaxDeletes \in Nat /\ MaxConfigEdits \in Nat
    /\ Stamps = 0..MaxBuilds /\ Gone \in Stamps
    /\ NoCopy \notin Copies /\ NoConfig \notin ConfigStates
    /\ \A s \in Stamps, k \in {"reload", "add", "retry", "remove"} :
            FileChange(k, s) \in FileChanges
    /\ NoChange \in FileChanges
    /\ \A c \in FileChanges : c.stamp \in Stamps \cup {Absent}
    /\ \A c \in ConfigStates : c.settings \in Settings
    /\ \A c \in ConfigStates \cup {NoConfig} : c.settings \in Settings \cup {"none", "empty"}
<1>1. NoCopy \notin Copies
      BY BoundsAssumption DEF NoCopy, Copies, Gone
<1>2. NoConfig \notin ConfigStates
      BY SettingsAssumption DEF NoConfig, ConfigStates
<1> QED
    BY <1>1, <1>2, BoundsAssumption
    DEF Stamps, Gone, Absent, FileChange, FileChanges, NoChange, ConfigStates, NoConfig

LEMMA InitWatcher == Init => WatcherInv
<1> SUFFICES ASSUME Init PROVE WatcherInv
    OBVIOUS
<1>1. file \in Stamps /\ builds \in 1..MaxBuilds
      BY StartAssumption, Values DEF Init, Gone
<1>2. copy \in Copies \cup {NoCopy}
      BY <1>1, Values DEF Init, Copies, Gone, ConfigStates
<1>3. Empty \in Queues
      BY Values DEF Empty, Queues
<1>4. ConfigNow \in ConfigStates \cup {NoConfig}
      BY DEF Init, ConfigNow
<1>5. startup \in Stamps \cup {Absent}
      BY <1>1 DEF Init
<1>6. /\ cfg.settings \in Settings
      /\ ConfigNow.settings \in Settings \cup {"none", "empty"}
      BY <1>4, Values DEF Init
<1>8. known \in BOOLEAN /\ touched \in BOOLEAN /\ settling \in BOOLEAN
      /\ halted \in BOOLEAN /\ reloaded \in BOOLEAN
      BY Zenon DEF Init
<1>9. TypeOK
      BY <1>1, <1>2, <1>3, <1>4, <1>5, <1>6, <1>8, Values DEF Init, TypeOK
<1>7. RecordsAgree /\ UnderWay
      BY Values DEF Init, RecordsAgree, UnderWay, ConfigStates
<1> QED BY <1>7, <1>9 DEF WatcherInv

(* Editing the files touches nothing the loader has recorded.               *)
LEMMA EditWatcher == WatcherInv /\ Edit => WatcherInv'
<1> SUFFICES ASSUME WatcherInv, Edit PROVE WatcherInv'
    OBVIOUS
<1> USE DEF WatcherInv
<1>1. UNCHANGED <<copy, accepted, startup, halted, applier, batch, step, code>>
      BY DEF Edit, Build, Delete, EditConfig, pluginVars, applyVars
<1>2. (RecordsAgree /\ UnderWay)'
      BY <1>1 DEF RecordsAgree, UnderWay
<1>3. CASE Build
  <2>1. builds + 1 \in 1..MaxBuilds /\ builds + 1 \in Stamps
        BY <1>3, Values DEF Build, TypeOK
  <2> QED BY <1>2, <1>3, <2>1
          DEF Build, TypeOK, pluginVars, pollVars, configVars, applyVars
<1>4. CASE Delete
  <2>1. deletes + 1 \in 0..MaxDeletes
        BY <1>4, Values DEF Delete, TypeOK
  <2> QED BY <1>2, <1>4, <2>1, Values
          DEF Delete, TypeOK, pluginVars, pollVars, configVars, applyVars
<1>5. CASE EditConfig
  <2>1. configEdits + 1 \in 0..MaxConfigEdits
        BY <1>5, Values DEF EditConfig, TypeOK
  <2> QED BY <1>2, <1>5, <2>1
          DEF EditConfig, TypeOK, pluginVars, pollVars, configVars, applyVars
<1> QED BY <1>3, <1>4, <1>5 DEF Edit

(* A turn of the watcher queues well-formed changes and applies none.       *)
LEMMA PollWatcher ==
    WatcherInv /\ (WatcherStep \/ NotAtMenu \/ TakeQueue) => WatcherInv'
<1> SUFFICES ASSUME WatcherInv, WatcherStep \/ NotAtMenu \/ TakeQueue
             PROVE WatcherInv'
    OBVIOUS
<1> USE DEF WatcherInv
<1>1. /\ UNCHANGED <<copy, accepted, startup, halted, step, code>>
      /\ UNCHANGED <<applier, batch>> \/ (applier = "none" /\ applier' # "none")
      BY DEF WatcherStep, NotAtMenu, TakeQueue, WatchReturns, Poll, ScanLoaded,
             ScanDirectory, ScanConfig, AtMenu, BeforeMission, Take,
             pluginVars, applyVars
<1>2. (RecordsAgree /\ UnderWay)'
      BY <1>1 DEF RecordsAgree, UnderWay
<1>3. ASSUME NEW c \in FileChanges, Queue(c) PROVE pending' \in Queues
      BY <1>3 DEF Queue, TypeOK, Queues
<1>4. CASE WatchReturns \/ Poll \/ NotAtMenu
      BY <1>2, <1>4 DEF WatchReturns, Poll, NotAtMenu, TypeOK, fileVars, pluginVars,
                        pollVars, configVars, applyVars
<1>5. CASE ScanLoaded
  <2>1. pending' \in Queues /\ seen' \in Stamps \cup {Absent}
        BY <1>3, <1>5, Values DEF ScanLoaded, TypeOK
  <2> QED BY <1>2, <1>5, <2>1
          DEF ScanLoaded, TypeOK, fileVars, pluginVars, configVars, applyVars
<1>6. CASE ScanDirectory
  <2>1. pending' \in Queues
        BY <1>3, <1>6, Values DEF ScanDirectory, TypeOK
  <2> QED BY <1>2, <1>6, <2>1
          DEF ScanDirectory, TypeOK, fileVars, pluginVars, configVars, applyVars
<1>7. CASE ScanConfig
  <2>1. ConfigNow \in ConfigStates \cup {NoConfig}
        BY DEF ConfigNow, TypeOK
  <2>2. desired' \in ConfigStates \cup {NoConfig} /\ read' \in ConfigStates \cup {NoConfig}
        BY <1>7, <2>1 DEF ScanConfig, TypeOK
  <2>3. \/ pending' = pending
        \/ pending' = [pending EXCEPT !.config = ConfigNow]
        BY <1>7 DEF ScanConfig
  <2>4. pending' \in Queues
        BY <2>1, <2>3 DEF TypeOK, Queues
  <2>5. settling' \in BOOLEAN /\ touched' \in BOOLEAN
        BY <1>7, Zenon DEF ScanConfig, TypeOK
  <2> QED BY <1>2, <1>7, <2>2, <2>4, <2>5
          DEF ScanConfig, TypeOK, fileVars, pluginVars, applyVars
<1>8. CASE TakeQueue
  <2>1. Empty \in Queues
        BY Values DEF Empty, Queues
  <2>2. PICK thread \in {"watcher", "game"} :
            Take(thread) /\ watcher' \in {watcher, "apply"}
        BY <1>8 DEF TakeQueue, AtMenu, BeforeMission
  <2>3. /\ pending' = Empty /\ batch' = pending /\ applier' = thread
        /\ reloaded' = FALSE
        BY <2>2 DEF Take
  <2>4. UNCHANGED <<fileVars, touched, pluginVars, failedNow, seen, listed, configVars,
                    step, code, candidate>>
        BY <2>2 DEF Take
  <2>5. /\ pending' \in Queues /\ batch' \in Queues
        /\ watcher' \in {"ended", "sleep", "loaded", "directory", "config", "menu", "apply"}
        /\ applier' \in {"none", "watcher", "game"} /\ reloaded' \in BOOLEAN
        BY <2>1, <2>2, <2>3 DEF TypeOK
  <2>6. TypeOK'
        BY <2>4, <2>5 DEF TypeOK, fileVars, pluginVars, configVars
  <2> QED BY <1>2, <2>6
<1> QED BY <1>4, <1>5, <1>6, <1>7, <1>8 DEF WatcherStep, TakeQueue

(* The end of a change leaves the other one of the batch.                   *)
LEMMA ChangeEnded ==
    ASSUME TypeOK, NEW ok \in BOOLEAN, NEW settled \in BOOLEAN,
           FileChangeEnds(ok) \/ ConfigEnds(ok, settled)
    PROVE  /\ batch' \in Queues /\ step' = "next"
           /\ failed' \in Stamps \cup {Absent}
           /\ applied' \in Settings \cup {"none", "empty"}
<1>1. /\ batch.file \in FileChanges
      /\ batch.config \in ConfigStates \cup {NoConfig}
      BY DEF TypeOK, Queues
<1>2. batch.file.stamp \in Stamps \cup {Absent}
      BY <1>1, Values
<1>3. batch.config.settings \in Settings \cup {"none", "empty"}
      BY <1>1, Values
<1>4. batch' \in Queues
      BY <1>1, Values DEF FileChangeEnds, ConfigEnds, TypeOK, Queues
<1> QED BY <1>2, <1>3, <1>4, Values DEF FileChangeEnds, ConfigEnds, TypeOK

(* What the steps of an application may do: it goes on with nothing loaded, *)
(* or the change ends, or all of it does.                                   *)
LEMMA ApplyWatcher ==
    ASSUME WatcherInv, UNCHANGED <<fileVars, touched, pollVars, configVars, applier>>,
           batch' \in Queues, pending' \in Queues,
           failed' \in Stamps \cup {Absent}, known' \in BOOLEAN,
           startup' \in Stamps \cup {Absent},
           applied' \in Settings \cup {"none", "empty"}, halted' \in BOOLEAN,
           copy' \in Copies \cup {NoCopy}, accepted' \in Settings,
           code' \in Stamps, candidate' \in Settings, reloaded' \in BOOLEAN,
           step' \in {"next", "copy", "init"},
           (RecordsAgree /\ UnderWay)'
    PROVE  WatcherInv'
BY DEF WatcherInv, TypeOK, fileVars, pollVars, configVars

(* Each step of an application.                                             *)
LEMMA ChangeWatcher ==
    ASSUME WatcherInv,
           \/ ApplyReload \/ ApplyAdd \/ ApplyRetry \/ ApplyRemove
           \/ ApplyKeep \/ ApplyDisable \/ ApplyEnable \/ ApplyResettle
    PROVE  WatcherInv'
<1> USE DEF WatcherInv
<1>1. cfg.settings \in Settings /\ ~halted /\ step = "next"
      BY Values DEF TypeOK, ApplyReload, ApplyAdd, ApplyRetry, ApplyRemove, ApplyKeep,
         ApplyDisable, ApplyEnable, ApplyResettle, Applies, AppliesConfig
<1>2. /\ UNCHANGED <<fileVars, touched, pollVars, configVars, applier, pending, code,
                     reloaded, accepted>>
      /\ candidate' \in {candidate, accepted, cfg.settings}
      /\ known' \in {known, FALSE}
      BY DEF ApplyReload, ApplyAdd, ApplyRetry, ApplyRemove, ApplyKeep, ApplyDisable,
             ApplyEnable, ApplyResettle, Unloads
<1>3. CASE \E ok \in BOOLEAN, settled \in BOOLEAN :
             /\ FileChangeEnds(ok) \/ ConfigEnds(ok, settled)
             /\ copy' \in {copy, NoCopy}
             /\ startup' \in {startup, batch.file.stamp}
             /\ startup' # startup => copy' = NoCopy
             /\ halted' \in {halted, TRUE}
  <2>1. PICK ok \in BOOLEAN, settled \in BOOLEAN :
             FileChangeEnds(ok) \/ ConfigEnds(ok, settled)
        BY <1>3
  <2>2. /\ batch' \in Queues /\ step' = "next"
        /\ failed' \in Stamps \cup {Absent}
        /\ applied' \in Settings \cup {"none", "empty"}
        BY <2>1, ChangeEnded
  <2>3. batch.file.stamp \in Stamps \cup {Absent}
        BY Values DEF TypeOK, Queues
  <2>4. (RecordsAgree /\ UnderWay)'
        BY <1>1, <1>2, <1>3, <2>2 DEF RecordsAgree, UnderWay
  <2> QED BY <1>1, <1>2, <1>3, <2>2, <2>3, <2>4, ApplyWatcher DEF TypeOK
<1>4. CASE /\ \E settings \in {accepted, cfg.settings} : Unloads(settings)
           /\ startup # Absent => batch.file.kind = "retry"
           /\ applier # "none"
  <2>1. (RecordsAgree /\ UnderWay)'
        BY <1>1, <1>2, <1>4 DEF RecordsAgree, UnderWay, Unloads
  <2> QED BY <1>1, <1>2, <1>4, <2>1, ApplyWatcher DEF TypeOK, Unloads
<1>5. \/ /\ \E settings \in {accepted, cfg.settings} : Unloads(settings)
         /\ startup # Absent => batch.file.kind = "retry"
         /\ applier # "none"
      \/ \E ok \in BOOLEAN, settled \in BOOLEAN :
             /\ FileChangeEnds(ok) \/ ConfigEnds(ok, settled)
             /\ copy' \in {copy, NoCopy}
             /\ startup' \in {startup, batch.file.stamp}
             /\ startup' # startup => copy' = NoCopy
             /\ halted' \in {halted, TRUE}
  <2>1. CASE ApplyReload
        BY <1>1, <2>1 DEF ApplyReload, UnloadFails, Applies, RecordsAgree
  <2>2. CASE ApplyAdd
        BY <1>1, <2>2 DEF ApplyAdd, AddAllowed, Applies
  <2>3. CASE ApplyRetry
        BY <1>1, <2>3 DEF ApplyRetry, Applies
  <2>4. CASE ApplyRemove
        BY <2>4 DEF ApplyRemove, UnloadFails
  <2>5. CASE ApplyKeep
    <3>1. ConfigEnds(TRUE, (SettingsReloaded /\ copy # NoCopy /\ batch.config.enabled) = TRUE)
          BY <2>5 DEF ApplyKeep, ConfigEnds
    <3> QED BY <2>5, <3>1 DEF ApplyKeep
  <2>6. CASE ApplyDisable
        BY <2>6 DEF ApplyDisable, UnloadFails
  <2>7. CASE ApplyEnable
        BY <1>1, <2>7 DEF ApplyEnable, AddAllowed, AppliesConfig
  <2>8. CASE ApplyResettle
    <3>1. copy # NoCopy /\ applier # "none"
          BY <2>8 DEF ApplyResettle, AppliesConfig, Action
    <3> QED BY <1>1, <2>8, <3>1 DEF ApplyResettle, UnloadFails, RecordsAgree
  <2> QED BY <2>1, <2>2, <2>3, <2>4, <2>5, <2>6, <2>7, <2>8
<1> QED BY <1>3, <1>4, <1>5

(* Copying and initializing the new build.                                  *)
LEMMA LoadWatcher == WatcherInv /\ (ShadowCopy \/ InitReturns) => WatcherInv'
<1> SUFFICES ASSUME WatcherInv, ShadowCopy \/ InitReturns PROVE WatcherInv'
    OBVIOUS
<1> USE DEF WatcherInv
<1>1. step # "next" /\ copy = NoCopy /\ ~halted
      BY DEF ShadowCopy, InitReturns, RecordsAgree, UnderWay
<1>2. ASSUME NEW ok \in BOOLEAN, ChangeEnds(ok)
      PROVE  /\ batch' \in Queues /\ step' = "next"
             /\ failed' \in Stamps \cup {Absent}
             /\ applied' \in Settings \cup {"none", "empty"}
      BY <1>2, ChangeEnded DEF ChangeEnds
<1>3. batch.file.stamp \in Stamps \cup {Absent}
      BY Values DEF TypeOK, Queues
<1>4. CASE ShadowCopy /\ file # Gone
  <2>1. (RecordsAgree /\ UnderWay)'
        BY <1>1, <1>4 DEF ShadowCopy, RecordsAgree, UnderWay, pluginVars
  <2> QED BY <1>4, <2>1, ApplyWatcher DEF ShadowCopy, TypeOK, pluginVars
<1>5. CASE ShadowCopy /\ file = Gone
  <2>1. LoadFails
        BY <1>5 DEF ShadowCopy
  <2>2. ChangeEnds(FALSE)
        BY <2>1 DEF LoadFails
  <2>3. (RecordsAgree /\ UnderWay)'
        BY <1>1, <1>2, <1>5, <2>2 DEF ShadowCopy, RecordsAgree, UnderWay
  <2> QED BY <1>2, <1>3, <1>5, <2>1, <2>2, <2>3, ApplyWatcher
          DEF ShadowCopy, LoadFails, TypeOK
<1>6. CASE InitReturns
  <2>1. NewCopy \in Copies
        BY <1>6, Values DEF InitReturns, TypeOK, UnderWay, NewCopy, Copies, Gone
  <2>2. CASE ChangeEnds(TRUE) /\ copy' = NewCopy /\ accepted' = candidate
             /\ startup' = (IF batch.file.kind = "retry" THEN Absent ELSE startup)
             /\ halted' = halted
             /\ known' = (known \/ batch.file.kind = "add")
             /\ reloaded' = (reloaded \/ batch.file.kind = "reload")
    <3>1. (RecordsAgree /\ UnderWay)'
          BY <1>1, <1>2, <2>2 DEF RecordsAgree, UnderWay, NewCopy
    <3> QED BY <1>2, <1>6, <2>1, <2>2, <3>1, ApplyWatcher
            DEF InitReturns, TypeOK
  <2>3. CASE LoadFails /\ halted' \in {halted, TRUE} /\ UNCHANGED <<copy, reloaded>>
    <3>1. ChangeEnds(FALSE)
          BY <2>3 DEF LoadFails
    <3>2. (RecordsAgree /\ UnderWay)'
          BY <1>1, <1>2, <2>3, <3>1 DEF RecordsAgree, UnderWay, LoadFails
    <3>3. reloaded' \in BOOLEAN
          BY <2>3, Zenon DEF TypeOK
    <3> QED BY <1>1, <1>2, <1>3, <1>6, <2>3, <3>1, <3>2, <3>3, ApplyWatcher
            DEF InitReturns, LoadFails, TypeOK
  <2>4. CASE /\ ChangeEnds(FALSE) /\ halted' = TRUE
             /\ copy' = NewCopy /\ startup' = Absent
             /\ reloaded' = (reloaded \/ batch.file.kind = "reload")
             /\ UNCHANGED <<accepted, known>>
    <3>1. (RecordsAgree /\ UnderWay)'
          BY <1>2, <2>4 DEF RecordsAgree, UnderWay
    <3>2. reloaded' \in BOOLEAN /\ halted' \in BOOLEAN
          BY <2>4, Zenon
    <3> QED BY <1>2, <1>6, <2>1, <2>4, <3>1, <3>2, ApplyWatcher
            DEF InitReturns, TypeOK
  <2> QED BY <1>6, <2>2, <2>3, <2>4 DEF InitReturns
<1> QED BY <1>4, <1>5, <1>6 DEF ShadowCopy

LEMMA NextWatcher == WatcherInv /\ [Next]_vars => WatcherInv'
<1> SUFFICES ASSUME WatcherInv, [Next]_vars PROVE WatcherInv'
    OBVIOUS
<1>1. CASE BatchApplied
  <2>1. (RecordsAgree /\ UnderWay)'
        BY <1>1 DEF BatchApplied, WatcherInv, RecordsAgree, UnderWay, pluginVars
  <2> QED BY <1>1, <2>1 DEF BatchApplied, WatcherInv, TypeOK, fileVars, pluginVars,
                            configVars
<1>2. CASE BatchDropped
  <2>1. (RecordsAgree /\ UnderWay)'
        BY <1>2 DEF BatchDropped, WatcherInv, RecordsAgree, UnderWay, pluginVars
  <2>2. Empty \in Queues
        BY Values DEF Empty, Queues
  <2> QED BY <1>2, <2>1, <2>2 DEF BatchDropped, WatcherInv, TypeOK, fileVars,
                                  pluginVars, pollVars, configVars
<1>3. CASE UNCHANGED vars
      BY <1>3 DEF WatcherInv, TypeOK, RecordsAgree, UnderWay, vars, fileVars, pluginVars,
                  pollVars, configVars, applyVars
<1> QED
    BY <1>1, <1>2, <1>3, EditWatcher, PollWatcher, ChangeWatcher, LoadWatcher
    DEF Next, ApplyStep

(* Whatever is edited, polled, queued, refused or fails, and in whichever   *)
(* order: the watcher's queue, its observations and what it keeps of the    *)
(* plugin are well formed.                                                  *)
THEOREM WatcherTyped == Spec => []TypeOK
<1>1. WatcherInv => TypeOK
      BY DEF WatcherInv
<1> QED BY <1>1, InitWatcher, NextWatcher, PTL DEF Spec

(* The settings the loader answers for a plugin are those its copy was      *)
(* loaded with, and a plugin that runs has no startup failure, however many *)
(* builds and configurations come while it is loaded and unloaded.          *)
THEOREM WatcherRecords == Spec => []RecordsAgree
<1>1. WatcherInv => RecordsAgree
      BY DEF WatcherInv
<1> QED BY <1>1, InitWatcher, NextWatcher, PTL DEF Spec

(* After an incomplete rollback nothing is loaded or unloaded any more,     *)
(* whatever is still queued, polled or edited.                              *)
THEOREM HaltIsFinal == Spec => ChangesStop
<1> DEFINE kept == <<halted, copy, accepted, known, startup>>
<1>1. RecordsAgree /\ [Next]_vars => [halted => UNCHANGED kept]_vars
  <2> SUFFICES ASSUME RecordsAgree, Next, halted PROVE UNCHANGED kept
      OBVIOUS
  <2>1. step = "next"
        BY DEF RecordsAgree
  <2>2. ~ApplyReload /\ ~ApplyAdd /\ ~ApplyRetry /\ ~ApplyRemove /\ ~ApplyKeep
        /\ ~ApplyDisable /\ ~ApplyEnable /\ ~ApplyResettle
        BY DEF ApplyReload, ApplyAdd, ApplyRetry, ApplyRemove, ApplyKeep, ApplyDisable,
               ApplyEnable, ApplyResettle, Applies, AppliesConfig
  <2>3. ~ShadowCopy /\ ~InitReturns
        BY <2>1 DEF ShadowCopy, InitReturns
  <2>4. CASE Edit
        BY <2>4 DEF Edit, Build, Delete, EditConfig, pluginVars
  <2>5. CASE WatcherStep \/ NotAtMenu \/ TakeQueue
        BY <2>5 DEF WatcherStep, NotAtMenu, TakeQueue, WatchReturns, Poll, ScanLoaded,
                    ScanDirectory, ScanConfig, AtMenu, BeforeMission, Take, pluginVars
  <2>6. CASE BatchApplied \/ BatchDropped
        BY <2>6 DEF BatchApplied, BatchDropped, pluginVars
  <2> QED BY <2>2, <2>3, <2>4, <2>5, <2>6 DEF Next, ApplyStep
<1> QED BY <1>1, WatcherRecords, PTL DEF Spec, ChangesStop
=============================================================================
