----------------------------- MODULE HostLaunch -----------------------------
(***************************************************************************)
(* Starting the plugin host from the outside (injector/src/host_mode.rs),  *)
(* and the status block by which the host tells its launcher how it went   *)
(* (crates/loader/src/bootstrap.rs, startup.rs).                           *)
(*                                                                         *)
(* A launcher writes the DLL's name into the game, starts a thread there   *)
(* that loads it, and waits.  Every wait of it may time out, it may be     *)
(* closed at any point, and several launchers may be started for one game; *)
(* the thread it left in the game goes on without it.                      *)
(***************************************************************************)
EXTENDS Naturals, FiniteSets

CONSTANTS
    Launchers,  \* the launcher processes
    None

ASSUME NoLauncher == None \notin Launchers

VARIABLES
    mapped,     \* whether the host's DLL is in the game
    status,     \* its exported state
    hostRunning,    \* whether the host's own thread is still in host::run
    lock,       \* the launcher that owns the mutex of this game
    launcherAt,         \* where each launcher is
    nameOf,       \* the filename each launcher wrote into the game
    loading,    \* the thread each launcher started in the game
    result      \* how each launcher ended

launchVars == <<mapped, status, hostRunning, lock, launcherAt, nameOf, loading, result>>

(* The game may have come with the host, as a proxy DLL.                    *)
LaunchInit ==
    /\ mapped \in BOOLEAN
    /\ status = (IF mapped THEN "starting" ELSE "dormant")
    /\ hostRunning = mapped
    /\ lock = None
    /\ launcherAt = [l \in Launchers |-> "lock"]
    /\ nameOf = [l \in Launchers |-> "none"]
    /\ loading = [l \in Launchers |-> "none"]
    /\ result = [l \in Launchers |-> "none"]

LauncherEnds(l, outcome) ==
    /\ launcherAt' = [launcherAt EXCEPT ![l] = "ended"]
    /\ result' = [result EXCEPT ![l] = outcome]
    /\ lock' = IF lock = l THEN None ELSE lock

Moves(l, where) == launcherAt' = [launcherAt EXCEPT ![l] = where] /\ UNCHANGED <<result, lock>>

(* A mutex its owner left behind counts as taken over, not as an error.     *)
Lock(l) ==
    /\ launcherAt[l] = "lock"
    /\ \/ lock = None /\ lock' = l /\ launcherAt' = [launcherAt EXCEPT ![l] = "inspect"] /\ UNCHANGED result
       \/ lock # None /\ LauncherEnds(l, "timed out")
    /\ UNCHANGED <<mapped, status, hostRunning, nameOf, loading>>

TakesLock(l) == Lock(l)

(* An existing host is only observed.                                       *)
Inspect(l) ==
    /\ launcherAt[l] = "inspect"
    /\ Moves(l, IF mapped THEN "observe" ELSE "write")
    /\ UNCHANGED <<mapped, status, hostRunning, nameOf, loading>>

(* The name is written and the thread started; a failure frees the name.    *)
Load(l) ==
    /\ launcherAt[l] = "write"
    /\ \/ /\ nameOf' = [nameOf EXCEPT ![l] = "held"] /\ loading' = [loading EXCEPT ![l] = "started"]
          /\ Moves(l, "wait")
       \/ /\ nameOf' = [nameOf EXCEPT ![l] = "freed"] /\ LauncherEnds(l, "failed") /\ UNCHANGED loading
    /\ UNCHANGED <<mapped, status, hostRunning>>

Loaded(l) ==
    /\ launcherAt[l] = "wait" /\ loading[l] = "ended"
    /\ nameOf' = [nameOf EXCEPT ![l] = "freed"]
    /\ IF mapped THEN Moves(l, "start") ELSE LauncherEnds(l, "failed")
    /\ UNCHANGED <<mapped, status, hostRunning, loading>>

(* Mutant: the name is freed on every way out. *)
NameAfterTimeoutFreed == "freed"
(* "A timeout retains it in the target rather than freeing a live argument" *)
NameAfterTimeout == "held"

LoadTimesOut(l) ==
    /\ launcherAt[l] = "wait" /\ loading[l] # "ended"
    /\ nameOf' = [nameOf EXCEPT ![l] = NameAfterTimeout]
    /\ LauncherEnds(l, "timed out")
    /\ UNCHANGED <<mapped, status, hostRunning, loading>>

(* wait_ready, after an observed and after a loaded host.                   *)
AwaitReady(l) ==
    /\ launcherAt[l] \in {"observe", "start"}
    /\ \/ status = "ready" /\ LauncherEnds(l, IF launcherAt[l] = "start" THEN "started" ELSE "observed")
       \/ status = "failed" /\ LauncherEnds(l, "failed")
       \/ status \notin {"ready", "failed"} /\ LauncherEnds(l, "timed out")
    /\ UNCHANGED <<mapped, status, hostRunning, nameOf, loading>>

LauncherClosed(l) ==
    /\ launcherAt[l] # "ended"
    /\ LauncherEnds(l, "closed")
    /\ UNCHANGED <<mapped, status, hostRunning, nameOf, loading>>

(* LoadLibraryW on the thread in the game: it reads the name when it gets   *)
(* to run; a DLL that is already mapped is not attached again.              *)
ReadName(l) ==
    /\ loading[l] = "started"
    /\ loading' = [loading EXCEPT ![l] = IF nameOf[l] = "held" THEN "loading" ELSE "crashed"]
    /\ UNCHANGED <<mapped, status, hostRunning, lock, launcherAt, nameOf, result>>

Attach(l) ==
    /\ loading[l] = "loading"
    /\ loading' = [loading EXCEPT ![l] = "ended"]
    /\ \/ ~mapped /\ mapped' = TRUE /\ status' = "starting" /\ hostRunning' = TRUE
       \/ ~mapped /\ mapped' = TRUE /\ status' = "failed" /\ UNCHANGED hostRunning
       \/ UNCHANGED <<mapped, status, hostRunning>>
    /\ UNCHANGED <<lock, launcherAt, nameOf, result>>

(* The host publishes its result once; when its thread returns, whatever    *)
(* has no result yet has failed.                                            *)
HostPublishes ==
    /\ hostRunning /\ status = "starting"
    /\ status' \in {"ready", "failed"}
    /\ UNCHANGED <<mapped, hostRunning, lock, launcherAt, nameOf, loading, result>>

StatusAfterRun == IF status = "starting" THEN "failed" ELSE status

HostReturns ==
    /\ hostRunning
    /\ hostRunning' = FALSE
    /\ status' = StatusAfterRun
    /\ UNCHANGED <<mapped, lock, launcherAt, nameOf, loading, result>>

LaunchNext ==
    \/ \E l \in Launchers : TakesLock(l) \/ Inspect(l) \/ Load(l) \/ Loaded(l) \/ LoadTimesOut(l)
                            \/ AwaitReady(l) \/ LauncherClosed(l) \/ ReadName(l) \/ Attach(l)
    \/ HostPublishes \/ HostReturns

LaunchSpec == LaunchInit /\ [][LaunchNext]_launchVars
-----------------------------------------------------------------------------
LaunchTypeOK ==
    /\ mapped \in BOOLEAN /\ hostRunning \in BOOLEAN
    /\ status \in {"dormant", "starting", "ready", "failed"}
    /\ lock \in Launchers \cup {None}
    /\ launcherAt \in [Launchers -> {"lock", "inspect", "write", "wait", "start", "observe", "ended"}]
    /\ nameOf \in [Launchers -> {"none", "held", "freed"}]
    /\ loading \in [Launchers -> {"none", "started", "loading", "ended", "crashed"}]
    /\ result \in [Launchers -> {"none", "started", "observed", "failed", "timed out", "closed"}]

(* host_mode.rs, load_library: the thread that loads the DLL never reads a  *)
(* filename its launcher has freed, however the launcher ended.             *)
ArgumentOutlivesThread == \A l \in Launchers : loading[l] # "crashed"

(* A launcher that reports a started or running host is right, and stays    *)
(* right: startup.rs lets no later failure overwrite the published result.  *)
SuccessMeansReady == \A l \in Launchers : result[l] \in {"started", "observed"} => status = "ready"

(* One launcher at most reports that it started the host of a game.         *)
OneStarter == Cardinality({l \in Launchers : result[l] = "started"}) <= 1

(* The launcher frees what the remote thread reads only after it ended,     *)
(* reports success only of a host that is ready, and starts one host.       *)
LaunchSound == LaunchTypeOK /\ ArgumentOutlivesThread /\ SuccessMeansReady /\ OneStarter
=============================================================================
