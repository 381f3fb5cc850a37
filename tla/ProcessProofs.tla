--------------------------- MODULE ProcessProofs ---------------------------
(***************************************************************************)
(* What the host does to a process that runs on meanwhile: the threads it  *)
(* freezes, the game a launcher starts it in, and the squad panel whose    *)
(* refreshes run on while plugins come and go.                             *)
(*                                                                         *)
(* For every number of threads, every LIMIT and however threads are        *)
(* created and exit during the walk: code is patched only while every      *)
(* other thread stands still, and after a freeze, taken or refused, none   *)
(* is left suspended and no handle open.                                   *)
(*                                                                         *)
(* For every number of launchers, however their waits time out and         *)
(* whenever they are closed: the thread in the game never reads a freed    *)
(* name, a reported success is and stays one, and one launcher at most     *)
(* has started the host.                                                   *)
(*                                                                         *)
(* The squad panel keeps the promise of CallbackRegistry with a gate and a *)
(* count of the calls in flight, and no lock: for every set of plugins and *)
(* of threads that refresh the panel, and every sequence of inits,         *)
(* activations, retirements and refreshes.                                 *)
(***************************************************************************)
EXTENDS Threads, HostLaunch, SquadPanel, TLAPS, FiniteSetTheorems

-----------------------------------------------------------------------------
(* Threads *)

(* Threads are created in the order in which they are listed.               *)
CreatedInOrder ==
    \A t, u \in ThreadIds : u < t /\ thread[t] # "none" => thread[u] # "none"

(* What the freeze has suspended stands, and nothing else does.             *)
StoppedIsSuspended ==
    /\ \A t \in ThreadIds : thread[t] = "stopped" <=> t \in suspended
    /\ phase = "idle" => suspended = {}

(* The handle retained with each suspension, and the one the walk uses; in  *)
(* "control" the walk's handle is the one just retained.                    *)
HandlesHeld ==
    /\ \A t \in ThreadIds :
          handles[t] = (IF t \in suspended THEN 1 ELSE 0)
                       + (IF t = cursor /\ phase # "control" THEN 1 ELSE 0)
    /\ phase \in {"idle", "closure", "drop"} => cursor = 0
    /\ phase \in {"visit", "control"} => cursor \in ThreadIds /\ thread[cursor] # "none"
    /\ phase = "control" => cursor \in suspended
    /\ phase = "next" /\ cursor # 0 => thread[cursor] # "none"

(* The threads a pass has come past: those before the cursor, and the one   *)
(* at it once it was visited.                                               *)
Passed(t) ==
    \/ phase = "closure"
    \/ phase \in {"next", "visit"} /\ t < cursor
    \/ phase = "next" /\ t = cursor

(* None of them runs, nor will: a thread that exits does not come back and  *)
(* new ones are listed later.                                               *)
PassedStand == \A t \in ThreadIds \ {Caller} : Passed(t) => thread[t] # "running"

FreezeInv ==
    ThreadsTypeOK /\ CreatedInOrder /\ StoppedIsSuspended /\ HandlesHeld /\ PassedStand

-----------------------------------------------------------------------------
(* The retained handles are never more than the threads.                    *)
LEMMA SuspendedCount ==
    ASSUME NEW S \in SUBSET ThreadIds
    PROVE  Cardinality(S) \in 0..MaxThreads
<1>1. MaxThreads \in Nat /\ 1 \in Int /\ MaxThreads \in Int
      BY ThreadsAssumption
<1>2. IsFiniteSet(ThreadIds) /\ Cardinality(ThreadIds) = MaxThreads
      BY <1>1, FS_Interval DEF ThreadIds
<1>3. IsFiniteSet(S) /\ Cardinality(S) <= Cardinality(ThreadIds)
      BY <1>2, FS_Subset
<1>4. Cardinality(S) \in Nat
      BY <1>3, FS_CardinalityType
<1> QED BY <1>1, <1>2, <1>3, <1>4

(* Before the first freeze only the caller runs.                            *)
LEMMA InitFreeze == ThreadsInit => FreezeInv
<1> SUFFICES ASSUME ThreadsInit PROVE FreezeInv
    OBVIOUS
<1> USE ThreadsAssumption DEF ThreadsInit, ThreadIds, Caller
<1>1. ThreadsTypeOK
      BY DEF ThreadsTypeOK, Phases
<1>2. CreatedInOrder /\ StoppedIsSuspended /\ HandlesHeld
      BY DEF CreatedInOrder, StoppedIsSuspended, HandlesHeld
<1>3. PassedStand
      BY DEF PassedStand, Passed
<1> QED BY <1>1, <1>2, <1>3 DEF FreezeInv

(* Threads come and go: a new one is listed last, one that stands neither   *)
(* exits nor creates any, and with all others standing none is created.     *)
LEMMA CreateFreeze == FreezeInv /\ Create => FreezeInv'
<1> SUFFICES ASSUME FreezeInv, Create PROVE FreezeInv'
    OBVIOUS
<1> USE ThreadsAssumption DEF FreezeInv, ThreadIds, Caller
<1>1. PICK t \in ThreadIds :
         /\ thread[t] = "none" /\ \A u \in 1..(t - 1) : thread[u] # "none"
         /\ thread' = [thread EXCEPT ![t] = "running"]
      BY DEF Create
<1>2. UNCHANGED <<phase, cursor, suspended, countBefore, handles, freezes>>
      BY DEF Create
<1>3. ThreadsTypeOK'
      BY <1>1, <1>2 DEF ThreadsTypeOK
<1>4. CreatedInOrder'
      BY <1>1 DEF CreatedInOrder, ThreadsTypeOK
<1>5. StoppedIsSuspended'
      BY <1>1, <1>2 DEF StoppedIsSuspended, ThreadsTypeOK
<1>6. HandlesHeld'
      BY <1>1, <1>2 DEF HandlesHeld, ThreadsTypeOK
<1>7. PassedStand'
  <2>1. ~Passed(t)
    <3>1. phase # "closure"
          BY DEF Create, PassedStand, Passed, ThreadsTypeOK
    <3>2. phase \in {"next", "visit"} /\ cursor # 0 => cursor < t
          BY <1>1 DEF HandlesHeld, CreatedInOrder, ThreadsTypeOK
    <3> QED BY <3>1, <3>2 DEF Passed, ThreadsTypeOK
  <2> QED BY <1>1, <1>2, <2>1 DEF PassedStand, Passed, ThreadsTypeOK
<1> QED BY <1>3, <1>4, <1>5, <1>6, <1>7

LEMMA ExitFreeze ==
    ASSUME FreezeInv, NEW t \in ThreadIds, Exit(t)
    PROVE  FreezeInv'
<1> USE ThreadsAssumption DEF FreezeInv, ThreadIds, Caller, Exit
<1>1. ThreadsTypeOK'
      BY DEF ThreadsTypeOK
<1>2. CreatedInOrder' /\ StoppedIsSuspended' /\ HandlesHeld'
      BY DEF CreatedInOrder, StoppedIsSuspended, HandlesHeld, ThreadsTypeOK
<1>3. PassedStand'
      BY DEF PassedStand, Passed, ThreadsTypeOK
<1> QED BY <1>1, <1>2, <1>3

(* The walk: what it passed stands, so when no thread is left all do.       *)
LEMMA NextThreadFreeze == FreezeInv /\ NextThread => FreezeInv'
<1> SUFFICES ASSUME FreezeInv, NextThread PROVE FreezeInv'
    OBVIOUS
<1> USE ThreadsAssumption DEF FreezeInv, ThreadIds, Caller
<1>1. phase = "next" /\ UNCHANGED <<thread, suspended, freezes>>
      BY DEF NextThread
<1>2. countBefore' \in 0..MaxThreads
      BY SuspendedCount DEF NextThread, ThreadsTypeOK
<1>3. CreatedInOrder' /\ \A t \in ThreadIds : thread'[t] = "stopped" <=> t \in suspended'
      BY <1>1 DEF CreatedInOrder, StoppedIsSuspended
<1>4. ASSUME NEW n \in Later(cursor), \A u \in Later(cursor) : n <= u,
             handles' = Opened(HandleClosed(handles, cursor), n),
             cursor' = n, phase' = "visit"
      PROVE  FreezeInv'
  <2>1. n \in ThreadIds /\ n > cursor /\ thread[n] \notin {"none", "gone"}
        BY DEF Later
  <2> DEFINE closed == HandleClosed(handles, cursor)
  <2>2. \A t \in ThreadIds : handles'[t] = (IF t \in suspended THEN 1 ELSE 0)
                                         + (IF t = n THEN 1 ELSE 0)
    <3>1. /\ DOMAIN closed = ThreadIds
          /\ \A t \in ThreadIds : closed[t] = IF t \in suspended THEN 1 ELSE 0
          BY <1>1 DEF HandleClosed, HandlesHeld, ThreadsTypeOK
    <3> HIDE DEF closed
    <3>2. handles' = [closed EXCEPT ![n] = @ + 1]
          BY <1>4 DEF Opened, closed
    <3> QED BY <2>1, <3>1, <3>2
  <2>3. handles' \in [ThreadIds -> 0..2]
        BY <1>4, <2>1, <2>2 DEF Opened, HandleClosed, ThreadsTypeOK
  <2>4. ThreadsTypeOK' /\ HandlesHeld'
        BY <1>1, <1>2, <1>4, <2>1, <2>2, <2>3 DEF ThreadsTypeOK, HandlesHeld, Phases
  <2>5. PassedStand'
        BY <1>1, <1>4, <2>1 DEF PassedStand, Passed, Later, ThreadsTypeOK
  <2> QED BY <1>3, <1>4, <2>4, <2>5 DEF StoppedIsSuspended
<1>5. ASSUME handles' = HandleClosed(handles, cursor), cursor' = 0,
             phase' \in {"next", "closure", "drop"},
             phase' = "closure" => Later(cursor) = {}
      PROVE  FreezeInv'
  <2>1. \A t \in ThreadIds : handles'[t] = IF t \in suspended THEN 1 ELSE 0
        BY <1>1, <1>5 DEF HandleClosed, HandlesHeld, ThreadsTypeOK
  <2>2. handles' \in [ThreadIds -> 0..2]
        BY <1>5, <2>1 DEF HandleClosed, ThreadsTypeOK
  <2>3. ThreadsTypeOK' /\ HandlesHeld'
        BY <1>1, <1>2, <1>5, <2>1, <2>2 DEF ThreadsTypeOK, HandlesHeld, Phases
  <2>4. PassedStand'
        BY <1>1, <1>5 DEF PassedStand, Passed, Later, ThreadsTypeOK
  <2> QED BY <1>3, <1>5, <2>3, <2>4 DEF StoppedIsSuspended
<1> QED BY <1>4, <1>5 DEF NextThread, PassEnds

(* A failed visit closes the handle it did not retain.                      *)
LEMMA FailsFreeze ==
    ASSUME FreezeInv, phase = "visit", FreezeFails, UNCHANGED <<countBefore, freezes>>
    PROVE  FreezeInv'
<1> USE ThreadsAssumption DEF FreezeInv, ThreadIds, FreezeFails
<1>1. \A t \in ThreadIds : handles'[t] = IF t \in suspended THEN 1 ELSE 0
      BY DEF HandleClosed, HandlesHeld, ThreadsTypeOK
<1>2. handles' \in [ThreadIds -> 0..2]
      BY <1>1 DEF HandleClosed, ThreadsTypeOK
<1>3. ThreadsTypeOK' /\ HandlesHeld'
      BY <1>1, <1>2 DEF ThreadsTypeOK, HandlesHeld, Phases
<1>4. CreatedInOrder' /\ StoppedIsSuspended'
      BY DEF CreatedInOrder, StoppedIsSuspended
<1>5. PassedStand'
      BY DEF PassedStand, Passed
<1> QED BY <1>3, <1>4, <1>5

(* A visit leaves behind it the caller, a suspended thread or one that is   *)
(* exiting.                                                                 *)
LEMMA VisitFreeze == FreezeInv /\ Visit => FreezeInv'
<1> SUFFICES ASSUME FreezeInv, Visit PROVE FreezeInv'
    OBVIOUS
<1> USE ThreadsAssumption DEF FreezeInv, ThreadIds, Caller
<1>1. phase = "visit" /\ UNCHANGED <<countBefore, freezes>>
      BY DEF Visit
<1>2. cursor \in ThreadIds /\ thread[cursor] # "none"
      BY <1>1 DEF HandlesHeld
<1>3. ASSUME Skip, cursor = Caller \/ cursor \in suspended \/ Skips
      PROVE  FreezeInv'
  <2>1. ThreadsTypeOK' /\ CreatedInOrder' /\ StoppedIsSuspended'
        BY <1>1, <1>3 DEF Skip, ThreadsTypeOK, CreatedInOrder, StoppedIsSuspended, Phases
  <2>2. HandlesHeld'
        BY <1>1, <1>2, <1>3 DEF Skip, HandlesHeld
  <2>3. cursor # Caller => thread[cursor] # "running"
        BY <1>2, <1>3 DEF StoppedIsSuspended, Skips
  <2>4. PassedStand'
        BY <1>1, <1>3, <2>3 DEF Skip, PassedStand, Passed, ThreadsTypeOK
  <2> QED BY <2>1, <2>2, <2>4
<1>4. ASSUME cursor # Caller, cursor \notin suspended, thread[cursor] = "running",
             thread' = [thread EXCEPT ![cursor] = "stopped"],
             suspended' = suspended \cup {cursor}, phase' = "control",
             UNCHANGED <<cursor, handles>>
      PROVE  FreezeInv'
  <2>1. ThreadsTypeOK'
        BY <1>1, <1>2, <1>4 DEF ThreadsTypeOK, Phases
  <2>2. CreatedInOrder' /\ StoppedIsSuspended'
        BY <1>1, <1>2, <1>4 DEF ThreadsTypeOK, CreatedInOrder, StoppedIsSuspended
  <2>3. HandlesHeld'
        BY <1>1, <1>2, <1>4 DEF HandlesHeld, ThreadsTypeOK
  <2>4. PassedStand'
        BY <1>4 DEF PassedStand, Passed
  <2> QED BY <2>1, <2>2, <2>3, <2>4
<1> QED BY <1>1, <1>3, <1>4, FailsFreeze DEF Visit

(* Its suspension retained, a thread's handle stays; all are closed, and    *)
(* every thread resumed, when Frozen is dropped.                            *)
LEMMA OtherStepsFreeze ==
    FreezeInv /\ (StartFreeze \/ Control \/ RunClosure \/ DropFrozen) => FreezeInv'
<1> SUFFICES ASSUME FreezeInv, StartFreeze \/ Control \/ RunClosure \/ DropFrozen
             PROVE  FreezeInv'
    OBVIOUS
<1> USE ThreadsAssumption DEF FreezeInv, ThreadIds, Caller
<1>1. CASE StartFreeze
  <2>1. ThreadsTypeOK'
        BY <1>1 DEF StartFreeze, ThreadsTypeOK, Phases
  <2>2. CreatedInOrder' /\ StoppedIsSuspended' /\ HandlesHeld' /\ PassedStand'
        BY <1>1 DEF StartFreeze, CreatedInOrder, StoppedIsSuspended, HandlesHeld,
                    PassedStand, Passed, ThreadsTypeOK
  <2> QED BY <2>1, <2>2
<1>2. CASE Control
  <2>1. countBefore' \in 0..MaxThreads
        BY <1>2, SuspendedCount DEF Control, ThreadsTypeOK
  <2>2. ThreadsTypeOK'
        BY <1>2, <2>1 DEF Control, ThreadsTypeOK, Phases
  <2>3. CreatedInOrder' /\ StoppedIsSuspended' /\ HandlesHeld'
        BY <1>2 DEF Control, CreatedInOrder, StoppedIsSuspended, HandlesHeld
  <2>4. PassedStand'
        BY <1>2 DEF Control, PassedStand, Passed
  <2> QED BY <2>2, <2>3, <2>4
<1>3. CASE RunClosure
      BY <1>3 DEF RunClosure, ThreadsTypeOK, Phases, CreatedInOrder, StoppedIsSuspended,
                  HandlesHeld, PassedStand, Passed
<1>4. CASE DropFrozen
  <2>1. handles' = [t \in ThreadIds |-> 0]
        BY <1>4 DEF DropFrozen, HandlesHeld, ThreadsTypeOK
  <2>2. ThreadsTypeOK'
        BY <1>4, <2>1 DEF DropFrozen, ThreadsTypeOK, Phases
  <2>3. CreatedInOrder' /\ StoppedIsSuspended'
        BY <1>4 DEF DropFrozen, CreatedInOrder, StoppedIsSuspended, ThreadsTypeOK
  <2>4. HandlesHeld'
        BY <1>4, <2>1 DEF DropFrozen, HandlesHeld
  <2>5. PassedStand'
        BY <1>4 DEF DropFrozen, PassedStand, Passed
  <2> QED BY <2>2, <2>3, <2>4, <2>5
<1> QED BY <1>1, <1>2, <1>3, <1>4

(* Every step keeps the invariant. *)
LEMMA NextFreeze == FreezeInv /\ [ThreadsNext]_threadsVars => FreezeInv'
<1> SUFFICES ASSUME FreezeInv, [ThreadsNext]_threadsVars PROVE FreezeInv'
    OBVIOUS
<1>1. CASE UNCHANGED threadsVars
      BY <1>1 DEF threadsVars, FreezeInv, ThreadsTypeOK, CreatedInOrder, StoppedIsSuspended,
                  HandlesHeld, PassedStand, Passed
<1> QED
    BY <1>1, CreateFreeze, ExitFreeze, NextThreadFreeze, VisitFreeze, OtherStepsFreeze
    DEF ThreadsNext, FreezeStep

(* For every number of threads: while the closure patches code no other     *)
(* thread runs, and a freeze leaves no thread suspended and no handle open, *)
(* whatever failed on the way (threads::freeze, Frozen's drop).             *)
THEOREM FreezeStopsTheWorld == ThreadsSpec => []FreezeSound
<1>1. FreezeInv => FreezeSound
  <2> SUFFICES ASSUME FreezeInv PROVE FreezeSound
      OBVIOUS
  <2> USE DEF FreezeInv
  <2>1. WorldStopped
        BY DEF WorldStopped, PassedStand, Passed
  <2>2. NothingLeftFrozen
        BY ThreadsAssumption DEF NothingLeftFrozen, StoppedIsSuspended, HandlesHeld, ThreadIds
  <2> QED BY <2>1, <2>2 DEF FreezeSound
<1> QED BY InitFreeze, NextFreeze, <1>1, PTL DEF ThreadsSpec
-----------------------------------------------------------------------------
(* HostLaunch *)

(* The mutex: a launcher between taking it and its end owns it.             *)
OwnsTheLock ==
    \A l \in Launchers : launcherAt[l] \notin {"lock", "ended"} => lock = l

(* The name a launcher wrote stays until the thread that reads it has       *)
(* ended, and only that thread ever runs on it.                             *)
NameKept ==
    \A l \in Launchers :
        /\ loading[l] \in {"started", "loading"} => nameOf[l] = "held"
        /\ loading[l] # "crashed"
        /\ launcherAt[l] \in {"lock", "inspect", "write"} => loading[l] = "none"

(* The host's status: dormant until it is mapped, and the published result  *)
(* stays.                                                                   *)
StatusFollowsHost ==
    /\ ~mapped => status = "dormant" /\ ~hostRunning
    /\ \A l \in Launchers : result[l] \in {"started", "observed"} => status = "ready"

(* Whoever has started the host did so alone: nobody who found it unmapped  *)
(* is still on the way.                                                     *)
StarterAlone ==
    \A l, k \in Launchers : result[l] = "started" =>
        /\ launcherAt[k] \notin {"write", "wait", "start"}
        /\ result[k] = "started" => k = l

LaunchInv == LaunchTypeOK /\ OwnsTheLock /\ NameKept /\ StatusFollowsHost /\ StarterAlone

-----------------------------------------------------------------------------
(* No launcher has begun; the game may have come with the host.             *)
LEMMA InitLaunch == LaunchInit => LaunchInv
<1> SUFFICES ASSUME LaunchInit PROVE LaunchInv
    OBVIOUS
<1>1. LaunchTypeOK
      BY DEF LaunchInit, LaunchTypeOK
<1>2. OwnsTheLock /\ NameKept /\ StarterAlone
      BY DEF LaunchInit, OwnsTheLock, NameKept, StarterAlone
<1>3. StatusFollowsHost
      BY DEF LaunchInit, StatusFollowsHost
<1> QED BY <1>1, <1>2, <1>3 DEF LaunchInv

(* What ends a launcher ends its hold on the mutex and nobody else's; only  *)
(* a launcher that saw the host ready says so, and only one that loaded it  *)
(* says that it started it.                                                 *)
LEMMA EndsLaunch ==
    ASSUME LaunchInv, NEW l \in Launchers,
           NEW outcome \in {"started", "observed", "failed", "timed out", "closed"},
           LauncherEnds(l, outcome), launcherAt[l] # "ended",
           outcome \in {"started", "observed"} => status = "ready",
           outcome = "started" => launcherAt[l] = "start",
           nameOf' \in [Launchers -> {"none", "held", "freed"}],
           \A k \in Launchers : k # l => nameOf'[k] = nameOf[k],
           loading[l] \in {"started", "loading"} => nameOf'[l] = "held",
           UNCHANGED <<mapped, status, hostRunning, loading>>
    PROVE  LaunchInv'
<1> USE NoLauncher DEF LaunchInv
<1>1. LaunchTypeOK'
      BY DEF LaunchTypeOK, LauncherEnds
<1>2. OwnsTheLock'
      BY DEF LaunchTypeOK, LauncherEnds, OwnsTheLock
<1>3. NameKept'
      BY DEF LaunchTypeOK, LauncherEnds, NameKept
<1>4. StatusFollowsHost'
      BY DEF LaunchTypeOK, LauncherEnds, StatusFollowsHost
<1>5. StarterAlone'
  <2>1. \A k \in Launchers : launcherAt'[k] = IF k = l THEN "ended" ELSE launcherAt[k]
        BY DEF LaunchTypeOK, LauncherEnds
  <2>2. \A k \in Launchers : result'[k] = IF k = l THEN outcome ELSE result[k]
        BY DEF LaunchTypeOK, LauncherEnds
  <2>3. CASE outcome = "started"
    <3>1. \A k \in Launchers : k # l => launcherAt[k] \in {"lock", "ended"}
          BY <2>3 DEF OwnsTheLock
    <3>2. \A k \in Launchers : result[k] # "started"
          BY <2>3 DEF StarterAlone
    <3> QED BY <2>1, <2>2, <2>3, <3>1, <3>2 DEF StarterAlone
  <2>4. CASE outcome # "started"
    <3> SUFFICES ASSUME NEW k \in Launchers, NEW j \in Launchers, result'[k] = "started"
                 PROVE  /\ launcherAt'[j] \notin {"write", "wait", "start"}
                        /\ result'[j] = "started" => j = k
        BY DEF StarterAlone
    <3>1. result[k] = "started"
          BY <2>2, <2>4
    <3>2. /\ launcherAt[j] \notin {"write", "wait", "start"}
          /\ result[j] = "started" => j = k
          BY <3>1 DEF StarterAlone
    <3>3. launcherAt'[j] \in {"ended", launcherAt[j]}
          BY <2>1
    <3>4. result'[j] = "started" => result[j] = "started"
          BY <2>2, <2>4
    <3> QED BY <3>2, <3>3, <3>4
  <2> QED BY <2>3, <2>4
<1> QED BY <1>1, <1>2, <1>3, <1>4, <1>5

(* A launcher that goes on keeps the mutex; it gets to write the name only  *)
(* while the host is not mapped, so never once another has started it.      *)
LEMMA MovesLaunch ==
    ASSUME LaunchInv, NEW l \in Launchers,
           NEW where \in {"write", "wait", "start", "observe"},
           Moves(l, where), launcherAt[l] \notin {"lock", "ended"},
           where = "observe" \/ launcherAt[l] # "inspect" \/ ~mapped,
           launcherAt[l] \in {"inspect", "write", "wait"},
           where # "write" \/ loading'[l] = "none",
           nameOf' \in [Launchers -> {"none", "held", "freed"}],
           loading' \in [Launchers -> {"none", "started", "loading", "ended", "crashed"}],
           \A k \in Launchers : k # l => nameOf'[k] = nameOf[k] /\ loading'[k] = loading[k],
           loading'[l] \in {"started", "loading"} => nameOf'[l] = "held",
           loading'[l] # "crashed",
           UNCHANGED <<mapped, status, hostRunning>>
    PROVE  LaunchInv'
<1> USE NoLauncher DEF LaunchInv
<1>1. LaunchTypeOK'
      BY DEF LaunchTypeOK, Moves
<1>2. OwnsTheLock'
      BY DEF LaunchTypeOK, Moves, OwnsTheLock
<1>3. NameKept'
      BY DEF LaunchTypeOK, Moves, NameKept
<1>4. StatusFollowsHost'
      BY DEF LaunchTypeOK, Moves, StatusFollowsHost
<1>5. StarterAlone'
  <2>1. ASSUME NEW k \in Launchers, result[k] = "started"
        PROVE  where = "observe"
    <3>1. launcherAt[l] = "inspect"
          BY <2>1 DEF StarterAlone
    <3>2. mapped
          BY <2>1 DEF StatusFollowsHost
    <3> QED BY <3>1, <3>2
  <2>2. \A k \in Launchers : launcherAt'[k] = IF k = l THEN where ELSE launcherAt[k]
        BY DEF LaunchTypeOK, Moves
  <2>3. result' = result
        BY DEF Moves
  <2> QED BY <2>1, <2>2, <2>3 DEF StarterAlone
<1> QED BY <1>1, <1>2, <1>3, <1>4, <1>5

(* Every step of a launcher or of the thread it left in the game keeps it.  *)
LEMMA LauncherStep ==
    ASSUME LaunchInv, NEW l \in Launchers,
           \/ TakesLock(l) \/ Inspect(l) \/ Load(l) \/ Loaded(l) \/ LoadTimesOut(l)
           \/ AwaitReady(l) \/ LauncherClosed(l) \/ ReadName(l) \/ Attach(l)
    PROVE  LaunchInv'
<1> USE NoLauncher
<1>1. CASE TakesLock(l)
  <2>1. CASE lock = None /\ lock' = l /\ UNCHANGED result
             /\ launcherAt' = [launcherAt EXCEPT ![l] = "inspect"]
    <3> USE DEF LaunchInv
    <3>1. LaunchTypeOK' /\ OwnsTheLock'
          BY <1>1, <2>1 DEF TakesLock, Lock, LaunchTypeOK, OwnsTheLock
    <3>2. NameKept' /\ StatusFollowsHost' /\ StarterAlone'
          BY <1>1, <2>1 DEF TakesLock, Lock, LaunchTypeOK, NameKept, StatusFollowsHost,
                            StarterAlone
    <3> QED BY <3>1, <3>2
  <2>2. CASE LauncherEnds(l, "timed out")
        BY <1>1, <2>2, EndsLaunch DEF TakesLock, Lock, LaunchInv, NameKept, LaunchTypeOK
  <2> QED BY <1>1, <2>1, <2>2 DEF TakesLock, Lock
<1>2. CASE Inspect(l)
  <2>1. loading[l] = "none"
        BY <1>2 DEF Inspect, LaunchInv, NameKept
  <2> QED BY <1>2, <2>1, MovesLaunch DEF Inspect, LaunchInv, LaunchTypeOK
<1>3. CASE Load(l)
  <2>1. CASE nameOf' = [nameOf EXCEPT ![l] = "held"] /\ Moves(l, "wait")
             /\ loading' = [loading EXCEPT ![l] = "started"]
        BY <1>3, <2>1, MovesLaunch DEF Load, LaunchInv, LaunchTypeOK
  <2>2. CASE nameOf' = [nameOf EXCEPT ![l] = "freed"] /\ LauncherEnds(l, "failed")
             /\ UNCHANGED loading
        BY <1>3, <2>2, EndsLaunch DEF Load, LaunchInv, NameKept, LaunchTypeOK
  <2> QED BY <1>3, <2>1, <2>2 DEF Load
<1>4. CASE Loaded(l)
  <2>1. CASE mapped
        BY <1>4, <2>1, MovesLaunch DEF Loaded, LaunchInv, LaunchTypeOK
  <2>2. CASE ~mapped
        BY <1>4, <2>2, EndsLaunch DEF Loaded, LaunchInv, LaunchTypeOK
  <2> QED BY <2>1, <2>2
<1>5. CASE LoadTimesOut(l)
      BY <1>5, EndsLaunch DEF LoadTimesOut, NameAfterTimeout, LaunchInv, LaunchTypeOK
<1>6. CASE AwaitReady(l)
  <2>1. nameOf' \in [Launchers -> {"none", "held", "freed"}] /\ launcherAt[l] # "ended"
        /\ (loading[l] \in {"started", "loading"} => nameOf'[l] = "held")
        BY <1>6 DEF AwaitReady, LaunchInv, LaunchTypeOK, NameKept
  <2>2. PICK outcome \in {"started", "observed", "failed", "timed out"} :
           /\ LauncherEnds(l, outcome)
           /\ outcome \in {"started", "observed"} => status = "ready"
           /\ outcome = "started" => launcherAt[l] = "start"
        BY <1>6 DEF AwaitReady
  <2> QED BY <1>6, <2>1, <2>2, EndsLaunch DEF AwaitReady
<1>7. CASE LauncherClosed(l)
      BY <1>7, EndsLaunch DEF LauncherClosed, LaunchInv, LaunchTypeOK, NameKept
<1>8. CASE ReadName(l)
  <2>1. loading' = [loading EXCEPT ![l] = "loading"]
        BY <1>8 DEF ReadName, LaunchInv, NameKept
  <2> USE DEF LaunchInv
  <2>2. LaunchTypeOK' /\ NameKept'
        BY <1>8, <2>1 DEF ReadName, LaunchTypeOK, NameKept
  <2>3. OwnsTheLock' /\ StatusFollowsHost' /\ StarterAlone'
        BY <1>8 DEF ReadName, OwnsTheLock, StatusFollowsHost, StarterAlone
  <2> QED BY <2>2, <2>3
<1>9. CASE Attach(l)
  <2> USE DEF LaunchInv
  <2>1. LaunchTypeOK'
        BY <1>9 DEF Attach, LaunchTypeOK
  <2>2. NameKept'
        BY <1>9 DEF Attach, LaunchTypeOK, NameKept
  <2>3. StatusFollowsHost'
    <3>1. CASE ~mapped /\ mapped'
      <4>1. \A k \in Launchers : result'[k] \notin {"started", "observed"}
            BY <1>9, <3>1 DEF Attach, StatusFollowsHost
      <4> QED BY <3>1, <4>1 DEF StatusFollowsHost
    <3>2. CASE UNCHANGED <<mapped, status, hostRunning>>
          BY <1>9, <3>2 DEF Attach, StatusFollowsHost
    <3> QED BY <1>9, <3>1, <3>2 DEF Attach
  <2>4. OwnsTheLock' /\ StarterAlone'
        BY <1>9 DEF Attach, OwnsTheLock, StarterAlone
  <2> QED BY <2>1, <2>2, <2>3, <2>4
<1> QED BY <1>1, <1>2, <1>3, <1>4, <1>5, <1>6, <1>7, <1>8, <1>9

(* The host's own thread publishes once and overwrites nothing.             *)
LEMMA NextLaunch == LaunchInv /\ [LaunchNext]_launchVars => LaunchInv'
<1> SUFFICES ASSUME LaunchInv, [LaunchNext]_launchVars PROVE LaunchInv'
    OBVIOUS
<1>1. CASE HostPublishes
  <2> USE DEF LaunchInv
  <2>1. LaunchTypeOK' /\ StatusFollowsHost'
        BY <1>1 DEF HostPublishes, LaunchTypeOK, StatusFollowsHost
  <2>2. OwnsTheLock' /\ NameKept' /\ StarterAlone'
        BY <1>1 DEF HostPublishes, OwnsTheLock, NameKept, StarterAlone
  <2> QED BY <2>1, <2>2
<1>2. CASE HostReturns
  <2> USE DEF LaunchInv
  <2>1. LaunchTypeOK' /\ StatusFollowsHost'
        BY <1>2 DEF HostReturns, StatusAfterRun, LaunchTypeOK, StatusFollowsHost
  <2>2. OwnsTheLock' /\ NameKept' /\ StarterAlone'
        BY <1>2 DEF HostReturns, OwnsTheLock, NameKept, StarterAlone
  <2> QED BY <2>1, <2>2
<1>3. CASE UNCHANGED launchVars
      BY <1>3 DEF launchVars, LaunchInv, LaunchTypeOK, OwnsTheLock, NameKept,
                  StatusFollowsHost, StarterAlone
<1> QED BY <1>1, <1>2, <1>3, LauncherStep DEF LaunchNext

(* A set in which every two elements are equal has at most one.             *)
LEMMA AtMostOne ==
    ASSUME NEW S, \A x, y \in S : x = y
    PROVE  Cardinality(S) <= 1
<1>1. CASE S = {}
      BY <1>1, FS_EmptySet
<1>2. CASE S # {}
  <2>1. PICK x \in S : S = {x}
        BY <1>2
  <2> QED BY <2>1, FS_Singleton
<1> QED BY <1>1, <1>2

(* For every number of launchers: the argument outlives the thread that     *)
(* reads it, "started" and "observed" are true of the host and stay true,   *)
(* and one launcher at most started it (host_mode.rs, startup.rs).          *)
THEOREM LaunchIsSound == LaunchSpec => []LaunchSound
<1>1. LaunchInv => LaunchSound
  <2> SUFFICES ASSUME LaunchInv PROVE LaunchSound
      OBVIOUS
  <2> USE DEF LaunchInv
  <2>1. ArgumentOutlivesThread /\ SuccessMeansReady
        BY DEF ArgumentOutlivesThread, SuccessMeansReady, NameKept, StatusFollowsHost
  <2>2. OneStarter
        BY AtMostOne DEF OneStarter, StarterAlone
  <2> QED BY <2>1, <2>2 DEF LaunchSound
<1> QED BY InitLaunch, NextLaunch, <1>1, PTL DEF LaunchSpec

-----------------------------------------------------------------------------
(* SquadPanel *)

Sub == [owner : Observers, committed : BOOLEAN, retired : BOOLEAN, inFlight : Nat,
        listed : BOOLEAN]

(* The subscriptions by what can be done with them: still in the list, not  *)
(* retired, and open to a call.                                             *)
Listed == {s \in DOMAIN subs : subs[s].listed = TRUE}
Alive == {s \in DOMAIN subs : subs[s].retired = FALSE}
OpenSubs == {s \in DOMAIN subs : subs[s].committed = TRUE /\ subs[s].retired = FALSE}

(* The threads in the callback of a subscription. *)
Inside(s) == {t \in GameThreads : dispatch[t].now = s}

PanelTypes ==
    /\ subs \in Seq(Sub)
    /\ feed \in [owner : PanelPlugins \cup {""}, pending : PanelPlugins \cup {""},
                 retiring : PanelPlugins \cup {""}]
    /\ initOf \in PanelPlugins \cup {""}
    /\ life \in [PanelPlugins -> {"out", "init", "recorded", "active", "retiring", "stopped"}]
    /\ dispatch \in [GameThreads -> [left : Seq(Nat), now : Nat]]
    /\ \A t \in GameThreads : dispatch[t].now \in {0} \cup DOMAIN subs
    /\ \A t \in GameThreads : \A i \in DOMAIN dispatch[t].left :
          dispatch[t].left[i] \in DOMAIN subs

(* The count is of the threads that are inside; a token out of the list was *)
(* retired and quiet when it left.                                          *)
CountsInFlight == \A s \in DOMAIN subs : subs[s].inFlight = Cardinality(Inside(s))
UnlistedIsQuiet ==
    /\ Alive \subseteq Listed
    /\ \A s \in DOMAIN subs \ Listed : subs[s].inFlight = 0

(* What is open is of an active owner, and a thread is inside only of one   *)
(* that is active or waits for it.                                          *)
OpenIsActive == \A s \in OpenSubs : life[subs[s].owner] = "active"
InsideIsMapped ==
    \A s \in DOMAIN subs : subs[s].inFlight # 0 => life[subs[s].owner] \in {"active", "retiring"}
InitIsInit == initOf # "" => life[initOf] = "init"

(* A snapshot was taken under a feed, and the end of that feed retires all  *)
(* of it.                                                                   *)
SnapshotHasFeed ==
    \A t \in GameThreads : \A i \in DOMAIN dispatch[t].left :
        dispatch[t].left[i] \in Alive => feed.owner # ""

PanelInv ==
    /\ PanelTypes /\ CountsInFlight /\ UnlistedIsQuiet /\ OpenIsActive /\ InsideIsMapped
    /\ InitIsInit /\ SnapshotHasFeed
-----------------------------------------------------------------------------
(* How the operations change the subscriptions.                             *)

(* A function on 1..n is a sequence.                                        *)
LEMMA FunctionIsSeq == \A T : \A n \in Nat : \A f \in [1..n -> T] : f \in Seq(T)
  OBVIOUS

(* The calls in flight are no more than the threads.                        *)
LEMMA InsideFinite ==
    \A s : /\ IsFiniteSet(Inside(s)) /\ Cardinality(Inside(s)) \in Nat
           /\ Inside(s) = {} <=> Cardinality(Inside(s)) = 0
<1> TAKE s
<1>1. IsFiniteSet(Inside(s))
      BY PanelAssumption, FS_Subset DEF Inside
<1> QED BY <1>1, FS_CardinalityType, FS_EmptySet

(* A subscription is of an observer, and its marks are Booleans.            *)
LEMMA SubTypes ==
    ASSUME PanelTypes
    PROVE  /\ DOMAIN subs = 1..Len(subs) /\ Len(subs) \in Nat
           /\ 0 \notin DOMAIN subs /\ {0} \cup DOMAIN subs \subseteq Nat
           /\ \A s \in DOMAIN subs :
                /\ subs[s] \in Sub /\ subs[s].owner \in PanelPlugins \ {Provider}
                /\ subs[s].inFlight \in Nat /\ subs[s].listed \in BOOLEAN
                /\ subs[s].retired \in BOOLEAN /\ subs[s].committed \in BOOLEAN
<1>0. subs \in Seq(Sub)
      BY DEF PanelTypes
<1>1. DOMAIN subs = 1..Len(subs) /\ Len(subs) \in Nat
      BY <1>0
<1>2. \A s \in DOMAIN subs : subs[s] \in Sub
      BY <1>0
<1>3. 0 \notin DOMAIN subs /\ {0} \cup DOMAIN subs \subseteq Nat
      BY <1>1
<1> QED BY <1>1, <1>2, <1>3, PanelAssumption DEF Sub, PanelPlugins

(* retire_matching and unsubscribe close, and drop what is quiet.           *)
LEMMA ClosedSubs ==
    ASSUME PanelTypes, NEW S \in SUBSET DOMAIN subs, subs' = Closed(S)
    PROVE  /\ subs' \in Seq(Sub) /\ DOMAIN subs' = DOMAIN subs
           /\ \A s \in DOMAIN subs : subs'[s].owner = subs[s].owner
                                     /\ subs'[s].inFlight = subs[s].inFlight
           /\ Alive' = Alive \ S /\ OpenSubs' = OpenSubs \ S
           /\ Listed' = (Listed \ S) \cup {s \in S : subs[s].inFlight # 0}
<1>0. subs \in Seq(Sub)
      BY DEF PanelTypes
<1>1. DOMAIN subs = 1..Len(subs) /\ Len(subs) \in Nat
      BY <1>0
<1>2. DOMAIN subs' = DOMAIN subs
      BY Zenon DEF Closed
<1>3. ASSUME NEW s \in DOMAIN subs
      PROVE  /\ subs'[s] \in Sub
             /\ subs'[s].owner = subs[s].owner /\ subs'[s].inFlight = subs[s].inFlight
             /\ s \in S => subs'[s].retired = TRUE
                           /\ (subs'[s].listed = TRUE <=> subs[s].inFlight # 0)
             /\ s \notin S => subs'[s] = subs[s]
  <2>1. subs[s] \in Sub
        BY <1>0, <1>1
  <2>2. CASE s \in S
    <3>1. subs'[s] = [subs[s] EXCEPT !.retired = TRUE, !.committed = FALSE,
                                     !.listed = subs[s].inFlight # 0]
          BY Zenon, <2>2 DEF Closed
    <3> QED BY <2>1, <2>2, <3>1 DEF Sub
  <2>3. CASE s \notin S
        BY <2>1, <2>3 DEF Closed
  <2> QED BY <2>2, <2>3
<1>4. subs' \in Seq(Sub)
  <2>1. subs' = [s \in 1..Len(subs) |-> subs'[s]]
        BY Zenon, <1>1 DEF Closed
  <2>2. \A s \in 1..Len(subs) : subs'[s] \in Sub
        BY <1>1, <1>3
  <2>3. subs' \in [1..Len(subs) -> Sub]
        BY Zenon, <2>1, <2>2
  <2> QED BY Zenon, <1>1, <2>3, FunctionIsSeq
<1>5. Alive' = Alive \ S
      BY <1>2, <1>3 DEF Alive
<1>6. OpenSubs' = OpenSubs \ S
      BY <1>2, <1>3 DEF OpenSubs
<1>7. Listed' = (Listed \ S) \cup {s \in S : subs[s].inFlight # 0}
      BY <1>2, <1>3 DEF Listed
<1> QED BY <1>2, <1>3, <1>4, <1>5, <1>6, <1>7

(* The gate counts a call in, or out.                                       *)
LEMMA CountedSubs ==
    ASSUME PanelTypes, NEW s \in DOMAIN subs, NEW n \in Nat,
           subs' = [subs EXCEPT ![s].inFlight = n]
    PROVE  /\ subs' \in Seq(Sub) /\ DOMAIN subs' = DOMAIN subs
           /\ \A k \in DOMAIN subs : subs'[k].owner = subs[k].owner
           /\ \A k \in DOMAIN subs \ {s} : subs'[k].inFlight = subs[k].inFlight
           /\ subs'[s].inFlight = n
           /\ Alive' = Alive /\ OpenSubs' = OpenSubs /\ Listed' = Listed
<1>0. subs \in Seq(Sub)
      BY DEF PanelTypes
<1>1. DOMAIN subs = 1..Len(subs) /\ Len(subs) \in Nat
      BY <1>0
<1>2. DOMAIN subs' = DOMAIN subs
      BY Zenon
<1>3. subs[s] \in Sub /\ subs'[s] = [subs[s] EXCEPT !.inFlight = n]
      BY <1>0, <1>1
<1>4. \A k \in DOMAIN subs \ {s} : subs'[k] = subs[k]
      BY Zenon
<1>5. /\ subs'[s] \in Sub /\ subs'[s].owner = subs[s].owner /\ subs'[s].inFlight = n
      /\ subs'[s].retired = subs[s].retired /\ subs'[s].committed = subs[s].committed
      /\ subs'[s].listed = subs[s].listed
      BY <1>3 DEF Sub
<1>6. subs' \in Seq(Sub)
  <2>1. \A k \in 1..Len(subs) : subs'[k] \in Sub
        BY <1>0, <1>1, <1>4, <1>5
  <2>2. subs' = [k \in 1..Len(subs) |-> subs'[k]]
        BY Zenon, <1>1
  <2>3. subs' \in [1..Len(subs) -> Sub]
        BY Zenon, <2>1, <2>2
  <2> QED BY Zenon, <1>1, <2>3, FunctionIsSeq
<1>7. Alive' = Alive
      BY Zenon, <1>2, <1>4, <1>5 DEF Alive
<1>8. OpenSubs' = OpenSubs
      BY Zenon, <1>2, <1>4, <1>5 DEF OpenSubs
<1>9. Listed' = Listed
      BY Zenon, <1>2, <1>4, <1>5 DEF Listed
<1> QED BY Zenon, <1>2, <1>4, <1>5, <1>6, <1>7, <1>8, <1>9

(* subscribe: the new token is listed and not open.                         *)
LEMMA AddedSub ==
    ASSUME PanelTypes, NEW p \in Observers,
           subs' = Append(subs, [owner |-> p, committed |-> FALSE, retired |-> FALSE,
                                 inFlight |-> 0, listed |-> TRUE])
    PROVE  /\ subs' \in Seq(Sub)
           /\ DOMAIN subs' = DOMAIN subs \cup {Len(subs) + 1} /\ Len(subs) + 1 \notin DOMAIN subs
           /\ Len(subs) + 1 \in Nat \ {0}
           /\ \A k \in DOMAIN subs : subs'[k] = subs[k]
           /\ subs'[Len(subs) + 1].inFlight = 0
           /\ Alive' = Alive \cup {Len(subs) + 1} /\ OpenSubs' = OpenSubs
           /\ Listed' = Listed \cup {Len(subs) + 1}
<1> DEFINE new == [owner |-> p, committed |-> FALSE, retired |-> FALSE,
                   inFlight |-> 0, listed |-> TRUE]
           at == Len(subs) + 1
<1>0. subs \in Seq(Sub)
      BY DEF PanelTypes
<1>1. DOMAIN subs = 1..Len(subs) /\ Len(subs) \in Nat
      BY <1>0
<1>2. new \in Sub
      BY DEF Sub
<1> HIDE DEF new
<1>3. subs' \in Seq(Sub) /\ DOMAIN subs' = 1..(Len(subs) + 1)
      BY <1>0, <1>2 DEF new
<1>4. subs'[at] = new /\ \A k \in DOMAIN subs : subs'[k] = subs[k]
      BY <1>0, <1>2 DEF new
<1>5. DOMAIN subs' = DOMAIN subs \cup {at} /\ at \notin DOMAIN subs /\ at \in Nat \ {0}
      BY <1>1, <1>3
<1>6. /\ subs'[at].inFlight = 0 /\ subs'[at].retired = FALSE /\ subs'[at].listed = TRUE
      /\ subs'[at].committed = FALSE
      BY <1>4 DEF new
<1> HIDE DEF at
<1>7. Alive' = Alive \cup {at}
      BY Zenon, <1>4, <1>5, <1>6 DEF Alive
<1>8. OpenSubs' = OpenSubs
  <2>1. at \notin OpenSubs' /\ OpenSubs \subseteq DOMAIN subs
        BY <1>6 DEF OpenSubs
  <2> QED BY Zenon, <1>4, <1>5, <2>1 DEF OpenSubs
<1>9. Listed' = Listed \cup {at}
      BY Zenon, <1>4, <1>5, <1>6 DEF Listed
<1> QED BY Zenon, <1>3, <1>4, <1>5, <1>6, <1>7, <1>8, <1>9 DEF at

(* activate_owner opens what its owner has in the list, unless retired.     *)
LEMMA ActivatedSubs ==
    ASSUME PanelTypes, NEW p,
           subs' = [s \in DOMAIN subs |->
                       IF subs[s].listed /\ subs[s].owner = p
                       THEN [subs[s] EXCEPT !.committed = TRUE] ELSE subs[s]]
    PROVE  /\ subs' \in Seq(Sub) /\ DOMAIN subs' = DOMAIN subs
           /\ \A s \in DOMAIN subs : subs'[s].owner = subs[s].owner
                                     /\ subs'[s].inFlight = subs[s].inFlight
           /\ Alive' = Alive /\ Listed' = Listed
           /\ OpenSubs \subseteq OpenSubs'
           /\ \A s \in OpenSubs' \ OpenSubs : subs[s].owner = p
<1>0. subs \in Seq(Sub)
      BY DEF PanelTypes
<1>1. DOMAIN subs = 1..Len(subs) /\ Len(subs) \in Nat
      BY <1>0
<1>2. DOMAIN subs' = DOMAIN subs
      BY Zenon
<1>3. ASSUME NEW s \in DOMAIN subs
      PROVE  /\ subs'[s] \in Sub
             /\ subs'[s].owner = subs[s].owner /\ subs'[s].inFlight = subs[s].inFlight
             /\ subs'[s].retired = subs[s].retired /\ subs'[s].listed = subs[s].listed
             /\ subs[s].committed = TRUE => subs'[s].committed = TRUE
             /\ subs[s].owner # p => subs'[s].committed = subs[s].committed
  <2>1. subs[s] \in Sub
        BY <1>0, <1>1
  <2>2. CASE subs[s].listed /\ subs[s].owner = p
    <3>1. subs'[s] = [subs[s] EXCEPT !.committed = TRUE]
          BY Zenon, <2>2
    <3> QED BY <2>1, <2>2, <3>1 DEF Sub
  <2>3. CASE ~(subs[s].listed /\ subs[s].owner = p)
    <3>1. subs'[s] = subs[s]
          BY Zenon, <2>3
    <3> QED BY Zenon, <2>1, <3>1
  <2> QED BY Zenon, <2>2, <2>3
<1>4. subs' \in Seq(Sub)
  <2>1. \A s \in 1..Len(subs) : subs'[s] \in Sub
        BY Zenon, <1>1, <1>3
  <2>2. subs' = [s \in 1..Len(subs) |-> subs'[s]]
        BY Zenon, <1>1
  <2>3. subs' \in [1..Len(subs) -> Sub]
        BY Zenon, <2>1, <2>2
  <2> QED BY Zenon, <1>1, <2>3, FunctionIsSeq
<1>5. Alive' = Alive
      BY Zenon, <1>2, <1>3 DEF Alive
<1>6. Listed' = Listed
      BY Zenon, <1>2, <1>3 DEF Listed
<1>7. OpenSubs \subseteq OpenSubs' /\ \A s \in OpenSubs' \ OpenSubs : subs[s].owner = p
      BY Zenon, <1>2, <1>3 DEF OpenSubs
<1> QED BY Zenon, <1>2, <1>3, <1>4, <1>5, <1>6, <1>7
-----------------------------------------------------------------------------
(* The invariant.                                                           *)

LEMMA PanelInitInv == PanelInit => PanelInv
<1> SUFFICES ASSUME PanelInit PROVE PanelInv
    OBVIOUS
<1>0. subs = <<>> /\ dispatch = [t \in GameThreads |-> [left |-> <<>>, now |-> 0]]
      BY DEF PanelInit
<1>1. DOMAIN subs = {} /\ subs \in Seq(Sub)
      BY <1>0
<1>2. dispatch \in [GameThreads -> [left : Seq(Nat), now : Nat]]
  <2>1. [left |-> <<>>, now |-> 0] \in [left : Seq(Nat), now : Nat]
        OBVIOUS
  <2> QED BY Zenon, <1>0, <2>1
<1>3. \A t \in GameThreads : dispatch[t].left = <<>> /\ dispatch[t].now = 0
      BY DEF PanelInit
<1>4. PanelTypes
      BY <1>1, <1>2, <1>3 DEF PanelInit, PanelTypes
<1>5. CountsInFlight /\ UnlistedIsQuiet /\ OpenIsActive /\ InsideIsMapped
      BY <1>1 DEF CountsInFlight, UnlistedIsQuiet, OpenIsActive, InsideIsMapped,
                  Alive, Listed, OpenSubs
<1>6. InitIsInit /\ SnapshotHasFeed
  <2>1. \A t \in GameThreads : DOMAIN dispatch[t].left = {}
        BY <1>3
  <2> QED BY Zenon, <2>1 DEF PanelInit, InitIsInit, SnapshotHasFeed
<1> QED BY <1>4, <1>5, <1>6 DEF PanelInv

(* Steps that leave the subscriptions, the dispatches and the feed alone.   *)
LEMMA PanelLifeInv ==
    ASSUME PanelInv, PanelTypes', UNCHANGED <<subs, dispatch, feed>>,
           \A p \in PanelPlugins : life[p] \in {"active", "retiring"} => life'[p] = life[p],
           InitIsInit'
    PROVE  PanelInv'
<1>1. CountsInFlight' /\ UnlistedIsQuiet' /\ SnapshotHasFeed'
      BY DEF PanelInv, CountsInFlight, UnlistedIsQuiet, SnapshotHasFeed, Alive, Listed, Inside
<1>2. \A s \in DOMAIN subs : subs[s].owner \in PanelPlugins
      BY Zenon, SubTypes DEF PanelInv
<1>3. OpenIsActive'
      BY <1>2 DEF PanelInv, OpenIsActive, OpenSubs
<1>4. InsideIsMapped'
      BY <1>2 DEF PanelInv, InsideIsMapped
<1> QED BY <1>1, <1>3, <1>4 DEF PanelInv

(* What closing leaves as it was.                                           *)
LEMMA CloseInv ==
    ASSUME PanelInv, NEW S \in SUBSET Listed, subs' = Closed(S), UNCHANGED dispatch,
           feed' \in [owner : PanelPlugins \cup {""}, pending : PanelPlugins \cup {""},
                      retiring : PanelPlugins \cup {""}],
           initOf' \in PanelPlugins \cup {""},
           life' \in [PanelPlugins -> {"out", "init", "recorded", "active", "retiring", "stopped"}]
    PROVE  PanelTypes' /\ CountsInFlight' /\ UnlistedIsQuiet'
<1>0. S \subseteq DOMAIN subs /\ PanelTypes
      BY DEF PanelInv, Listed
<1>1. /\ subs' \in Seq(Sub) /\ DOMAIN subs' = DOMAIN subs
      /\ \A s \in DOMAIN subs : subs'[s].inFlight = subs[s].inFlight
      /\ Alive' = Alive \ S
      /\ Listed' = (Listed \ S) \cup {s \in S : subs[s].inFlight # 0}
      BY Zenon, <1>0, ClosedSubs
<1>2. PanelTypes'
      BY Zenon, <1>0, <1>1 DEF PanelTypes
<1>3. CountsInFlight'
  <2>1. \A s : Inside(s)' = Inside(s)
        BY Zenon DEF Inside
  <2> QED BY Zenon, <1>1, <2>1 DEF PanelInv, CountsInFlight
<1>4. UnlistedIsQuiet'
      BY <1>0, <1>1 DEF PanelInv, UnlistedIsQuiet
<1> QED BY <1>2, <1>3, <1>4

(* One plugin's state of life changes.                                      *)
LEMMA LifeType ==
    ASSUME PanelTypes, NEW p, NEW where \in {"out", "init", "recorded", "active", "retiring", "stopped"},
           life' = [life EXCEPT ![p] = where]
    PROVE  /\ life' \in [PanelPlugins -> {"out", "init", "recorded", "active", "retiring", "stopped"}]
           /\ \A q \in PanelPlugins : life'[q] = IF q = p THEN where ELSE life[q]
<1>1. life \in [PanelPlugins -> {"out", "init", "recorded", "active", "retiring", "stopped"}]
      BY DEF PanelTypes
<1> QED BY <1>1

(* A feed that ends is of one of the plugins, or of none.                   *)
LEMMA FeedType ==
    ASSUME PanelTypes, NEW p \in PanelPlugins, NEW quiet \in BOOLEAN
    PROVE  /\ FeedAfter(p, quiet) \in [owner : PanelPlugins \cup {""},
                                       pending : PanelPlugins \cup {""},
                                       retiring : PanelPlugins \cup {""}]
           /\ ~IsProvider(p) => FeedAfter(p, quiet) = feed
<1>1. feed \in [owner : PanelPlugins \cup {""}, pending : PanelPlugins \cup {""},
                 retiring : PanelPlugins \cup {""}]
      BY DEF PanelTypes
<1> QED BY <1>1 DEF FeedAfter

(* The subscriptions a retirement closes: all of the owner's that are in    *)
(* the list, and every one when the feed ends with it.                      *)
LEMMA AffectedSubs ==
    ASSUME PanelTypes, NEW p
    PROVE  /\ Affected(p) \subseteq Listed
           /\ \A s \in Listed : subs[s].owner = p => s \in Affected(p)
           /\ IsProvider(p) => Affected(p) = Listed
<1>1. \A s \in DOMAIN subs : subs[s].listed \in BOOLEAN
      BY Zenon, SubTypes
<1>2. \A s \in DOMAIN subs : subs[s].listed <=> subs[s].listed = TRUE
      BY Zenon, <1>1
<1> QED BY Zenon, <1>2 DEF Affected, Listed

(* begin: whoever starts was out, so nothing of it is open or running.      *)
LEMMA BeginInv == ASSUME PanelInv, NEW p \in PanelPlugins, PanelBegin(p) PROVE PanelInv'
<1>1. /\ life[p] \in {"out", "stopped"} /\ life' = [life EXCEPT ![p] = "init"] /\ initOf' = p
      /\ UNCHANGED <<subs, dispatch, feed>>
      BY DEF PanelBegin
<1>2. /\ life' \in [PanelPlugins -> {"out", "init", "recorded", "active", "retiring", "stopped"}]
      /\ \A q \in PanelPlugins : life'[q] = IF q = p THEN "init" ELSE life[q]
      BY <1>1, LifeType DEF PanelInv
<1>3. PanelTypes'
      BY Zenon, <1>1, <1>2 DEF PanelInv, PanelTypes
<1>4. InitIsInit'
      BY <1>1, <1>2 DEF InitIsInit
<1> QED BY <1>1, <1>2, <1>3, <1>4, PanelLifeInv

(* finish, of an init that ended well.                                      *)
LEMMA FinishOkInv == ASSUME PanelInv, FinishOk PROVE PanelInv'
<1>1. /\ initOf # "" /\ life' = [life EXCEPT ![initOf] = "recorded"] /\ initOf' = ""
      /\ UNCHANGED <<subs, dispatch, feed>>
      BY DEF FinishOk
<1>2. /\ life' \in [PanelPlugins -> {"out", "init", "recorded", "active", "retiring", "stopped"}]
      /\ \A q \in PanelPlugins : life'[q] = IF q = initOf THEN "recorded" ELSE life[q]
      BY <1>1, LifeType DEF PanelInv
<1>3. PanelTypes'
      BY Zenon, <1>1, <1>2 DEF PanelInv, PanelTypes
<1>4. InitIsInit'
      BY <1>1 DEF InitIsInit
<1>5. life[initOf] = "init"
      BY <1>1 DEF PanelInv, InitIsInit
<1> QED BY <1>1, <1>2, <1>3, <1>4, <1>5, PanelLifeInv

(* feed_publish.                                                            *)
LEMMA PublishInv == ASSUME PanelInv, FeedPublish PROVE PanelInv'
<1>1. /\ feed' = [feed EXCEPT !.pending = Provider]
      /\ UNCHANGED <<subs, initOf, life, dispatch>>
      BY DEF FeedPublish
<1>2. feed \in [owner : PanelPlugins \cup {""}, pending : PanelPlugins \cup {""},
                retiring : PanelPlugins \cup {""}]
      BY DEF PanelInv, PanelTypes
<1>3. /\ feed' \in [owner : PanelPlugins \cup {""}, pending : PanelPlugins \cup {""},
                     retiring : PanelPlugins \cup {""}]
      /\ feed'.owner = feed.owner
      BY <1>1, <1>2 DEF PanelPlugins
<1>4. PanelTypes'
      BY Zenon, <1>1, <1>3 DEF PanelInv, PanelTypes
<1>5. CountsInFlight' /\ UnlistedIsQuiet' /\ OpenIsActive' /\ InsideIsMapped' /\ InitIsInit'
      BY <1>1 DEF PanelInv, CountsInFlight, UnlistedIsQuiet, OpenIsActive, InsideIsMapped,
                  InitIsInit, Alive, Listed, OpenSubs, Inside
<1>6. SnapshotHasFeed'
      BY Zenon, <1>1, <1>3 DEF PanelInv, SnapshotHasFeed, Alive
<1> QED BY <1>4, <1>5, <1>6 DEF PanelInv

(* subscribe.                                                               *)
LEMMA SubscribeInv == ASSUME PanelInv, Subscribe PROVE PanelInv'
<1> DEFINE at == Len(subs) + 1
<1>1. initOf \in Observers /\ UNCHANGED <<feed, initOf, life, dispatch>> /\ PanelTypes
      BY DEF Subscribe, PanelInv
<1>2. /\ subs' \in Seq(Sub)
      /\ DOMAIN subs' = DOMAIN subs \cup {at} /\ at \notin DOMAIN subs /\ at \in Nat \ {0}
      /\ \A k \in DOMAIN subs : subs'[k] = subs[k]
      /\ subs'[at].inFlight = 0
      /\ Alive' = Alive \cup {at} /\ OpenSubs' = OpenSubs /\ Listed' = Listed \cup {at}
      BY <1>1, AddedSub DEF Subscribe
<1> HIDE DEF at
<1>3. PanelTypes'
      BY Zenon, <1>1, <1>2 DEF PanelTypes
<1>4. CountsInFlight'
  <2>1. \A s : Inside(s)' = Inside(s)
        BY Zenon, <1>1 DEF Inside
  <2> \A t \in GameThreads : dispatch[t].now \in {0} \cup DOMAIN subs
      BY Zenon, <1>1 DEF PanelTypes
  <2>2. Inside(at) = {}
        BY <1>2 DEF Inside
  <2>3. Cardinality(Inside(at)) = 0
        BY Zenon, <2>2, InsideFinite
  <2> QED BY Zenon, <1>2, <2>1, <2>3 DEF PanelInv, CountsInFlight
<1>5. UnlistedIsQuiet'
      BY Zenon, <1>2 DEF PanelInv, UnlistedIsQuiet
<1>6. OpenIsActive'
  <2>1. OpenSubs \subseteq DOMAIN subs
        BY DEF OpenSubs
  <2> QED BY Zenon, <1>1, <1>2, <2>1 DEF PanelInv, OpenIsActive
<1>7. InsideIsMapped'
      BY Zenon, <1>1, <1>2 DEF PanelInv, InsideIsMapped
<1>8. InitIsInit'
      BY <1>1 DEF PanelInv, InitIsInit
<1>9. SnapshotHasFeed'
  <2>1. \A t \in GameThreads : \A i \in DOMAIN dispatch[t].left :
           dispatch[t].left[i] \in DOMAIN subs
        BY Zenon, <1>1 DEF PanelTypes
  <2>2. \A t \in GameThreads : \A i \in DOMAIN dispatch[t].left :
           dispatch[t].left[i] \in Alive' => dispatch[t].left[i] \in Alive
        BY Zenon, <1>2, <2>1
  <2>3. \A t \in GameThreads : \A i \in DOMAIN dispatch[t].left :
           dispatch[t].left[i] \in Alive => feed.owner # ""
        BY Zenon DEF PanelInv, SnapshotHasFeed
  <2>4. \A t \in GameThreads : \A i \in DOMAIN dispatch[t].left :
           dispatch[t].left[i] \in Alive' => feed.owner # ""
        BY Zenon, <2>2, <2>3
  <2> QED BY Zenon, <1>1, <2>4 DEF SnapshotHasFeed
<1> QED BY <1>3, <1>4, <1>5, <1>6, <1>7, <1>8, <1>9 DEF PanelInv

(* unsubscribe closes one subscription.                                     *)
LEMMA UnsubscribeCloses ==
    ASSUME PanelTypes, NEW s \in DOMAIN subs, Unsubscribe(s)
    PROVE  subs' = Closed({s}) /\ s \in Listed
<1>1. s \in Listed
  <2>1. subs[s].listed \in BOOLEAN
        BY Zenon, SubTypes
  <2> QED BY Zenon, <2>1 DEF Unsubscribe, Listed
<1>2. subs' = [subs EXCEPT ![s].retired = TRUE, ![s].committed = FALSE,
                           ![s].listed = subs[s].inFlight # 0]
      BY DEF Unsubscribe
<1>3. subs[s] \in Sub
      BY Zenon, SubTypes
<1>4. subs' = [k \in DOMAIN subs |-> subs'[k]] /\ Closed({s}) = [k \in DOMAIN subs |-> Closed({s})[k]]
      BY Zenon, <1>2 DEF Closed
<1>5. \A k \in DOMAIN subs : subs'[k] = Closed({s})[k]
      BY <1>2, <1>3 DEF Closed
<1> QED BY Zenon, <1>1, <1>4, <1>5

LEMMA UnsubscribeInv ==
    ASSUME PanelInv, NEW s \in DOMAIN subs, Unsubscribe(s) PROVE PanelInv'
<1>1. PanelTypes /\ UNCHANGED <<feed, initOf, life, dispatch>>
      BY DEF Unsubscribe, PanelInv
<1>2. subs' = Closed({s}) /\ s \in Listed
      BY Zenon, <1>1, UnsubscribeCloses
<1>3. /\ DOMAIN subs' = DOMAIN subs
      /\ \A k \in DOMAIN subs : subs'[k].owner = subs[k].owner
                                /\ subs'[k].inFlight = subs[k].inFlight
      /\ Alive' \subseteq Alive /\ OpenSubs' \subseteq OpenSubs
      BY Zenon, <1>1, <1>2, ClosedSubs
<1>4. PanelTypes' /\ CountsInFlight' /\ UnlistedIsQuiet'
  <2>1. {s} \in SUBSET Listed
        BY <1>2
  <2>2. /\ feed' \in [owner : PanelPlugins \cup {""}, pending : PanelPlugins \cup {""},
                       retiring : PanelPlugins \cup {""}]
        /\ initOf' \in PanelPlugins \cup {""}
        /\ life' \in [PanelPlugins -> {"out", "init", "recorded", "active", "retiring", "stopped"}]
        BY Zenon, <1>1 DEF PanelTypes
  <2> QED BY Zenon, <1>1, <1>2, <2>1, <2>2, CloseInv
<1>5. OpenIsActive'
  <2>1. OpenSubs \subseteq DOMAIN subs
        BY DEF OpenSubs
  <2> QED BY Zenon, <1>1, <1>3, <2>1 DEF PanelInv, OpenIsActive
<1>6. InsideIsMapped'
      BY Zenon, <1>1, <1>3 DEF PanelInv, InsideIsMapped
<1>7. InitIsInit' /\ SnapshotHasFeed'
      BY Zenon, <1>1, <1>3 DEF PanelInv, InitIsInit, SnapshotHasFeed
<1> QED BY <1>4, <1>5, <1>6, <1>7 DEF PanelInv

(* finish, of an init that failed: its plugin was not active, so what it    *)
(* loses was neither open nor running.                                      *)
LEMMA FinishFailedInv == ASSUME PanelInv, FinishFailed PROVE PanelInv'
<1> DEFINE S == Affected(initOf)
<1>1. /\ initOf # "" /\ initOf' = "" /\ UNCHANGED dispatch /\ subs' = Closed(S)
      /\ life' = [life EXCEPT ![initOf] = "out"] /\ feed' = FeedAfter(initOf, Quiescent(S))
      BY DEF FinishFailed
<1>2. PanelTypes /\ initOf \in PanelPlugins
      BY Zenon, <1>1 DEF PanelInv, PanelTypes
<1>3. life[initOf] = "init"
      BY <1>1 DEF PanelInv, InitIsInit
<1>4. /\ life' \in [PanelPlugins -> {"out", "init", "recorded", "active", "retiring", "stopped"}]
      /\ \A q \in PanelPlugins : life'[q] = IF q = initOf THEN "out" ELSE life[q]
      BY <1>1, <1>2, LifeType
<1>5. /\ feed' \in [owner : PanelPlugins \cup {""}, pending : PanelPlugins \cup {""},
                     retiring : PanelPlugins \cup {""}]
      /\ ~IsProvider(initOf) => feed' = feed
  <2>1. Quiescent(S) \in BOOLEAN
        BY Zenon DEF Quiescent
  <2> QED BY Zenon, <1>1, <1>2, <2>1, FeedType
<1>6. /\ S \subseteq Listed
      /\ IsProvider(initOf) => S = Listed
      BY Zenon, <1>2, AffectedSubs
<1> HIDE DEF S
<1>7. /\ DOMAIN subs' = DOMAIN subs
      /\ \A k \in DOMAIN subs : subs'[k].owner = subs[k].owner
                                /\ subs'[k].inFlight = subs[k].inFlight
      /\ Alive' = Alive \ S /\ OpenSubs' \subseteq OpenSubs
  <2>1. S \in SUBSET DOMAIN subs
        BY <1>6 DEF Listed
  <2> QED BY Zenon, <1>1, <1>2, <2>1, ClosedSubs
<1>8. PanelTypes' /\ CountsInFlight' /\ UnlistedIsQuiet'
  <2>1. S \in SUBSET Listed /\ initOf' \in PanelPlugins \cup {""}
        BY Zenon, <1>1, <1>6
  <2> QED BY Zenon, <1>1, <1>4, <1>5, <2>1, CloseInv
<1>9. \A s \in DOMAIN subs : life[subs[s].owner] \in {"active", "retiring"}
                                => life'[subs[s].owner] = life[subs[s].owner]
  <2>1. \A s \in DOMAIN subs : subs[s].owner \in PanelPlugins
        BY Zenon, <1>2, SubTypes
  <2> QED BY <1>3, <1>4, <2>1
<1>10. OpenIsActive'
  <2>1. OpenSubs \subseteq DOMAIN subs
        BY DEF OpenSubs
  <2> QED BY Zenon, <1>7, <1>9, <2>1 DEF PanelInv, OpenIsActive
<1>11. InsideIsMapped'
      BY Zenon, <1>7, <1>9 DEF PanelInv, InsideIsMapped
<1>12. InitIsInit'
      BY <1>1 DEF InitIsInit
<1>13. SnapshotHasFeed'
  <2>1. IsProvider(initOf) => Alive' = {}
        BY Zenon, <1>6, <1>7 DEF PanelInv, UnlistedIsQuiet
  <2> QED BY Zenon, <1>1, <1>5, <1>7, <2>1 DEF PanelInv, SnapshotHasFeed
<1> QED BY <1>8, <1>10, <1>11, <1>12, <1>13 DEF PanelInv

(* retire_owner: with a callback running the owner only waits; quiet means  *)
(* that no thread is inside one of its callbacks, listed or not.            *)
LEMMA RetireInv == ASSUME PanelInv, NEW p \in PanelPlugins, RetireOwner(p) PROVE PanelInv'
<1> DEFINE S == Affected(p)
           where == IF Quiescent(S) THEN "stopped" ELSE "retiring"
<1>1. /\ initOf = "" /\ UNCHANGED <<initOf, dispatch>> /\ subs' = Closed(S)
      /\ life' = [life EXCEPT ![p] = where] /\ feed' = FeedAfter(p, Quiescent(S))
      BY DEF RetireOwner
<1>2. PanelTypes
      BY DEF PanelInv
<1>4. /\ life' \in [PanelPlugins -> {"out", "init", "recorded", "active", "retiring", "stopped"}]
      /\ \A q \in PanelPlugins : life'[q] = IF q = p THEN where ELSE life[q]
  <2>1. where \in {"out", "init", "recorded", "active", "retiring", "stopped"}
        OBVIOUS
  <2> HIDE DEF where
  <2> QED BY <1>1, <1>2, <2>1, LifeType
<1>5. /\ feed' \in [owner : PanelPlugins \cup {""}, pending : PanelPlugins \cup {""},
                     retiring : PanelPlugins \cup {""}]
      /\ ~IsProvider(p) => feed' = feed
  <2>1. Quiescent(S) \in BOOLEAN
        BY Zenon DEF Quiescent
  <2> QED BY Zenon, <1>1, <1>2, <2>1, FeedType
<1>6. /\ S \subseteq Listed
      /\ \A s \in Listed : subs[s].owner = p => s \in S
      /\ IsProvider(p) => S = Listed
      BY Zenon, <1>2, AffectedSubs
<1> HIDE DEF S
<1>7. /\ DOMAIN subs' = DOMAIN subs
      /\ \A k \in DOMAIN subs : subs'[k].owner = subs[k].owner
                                /\ subs'[k].inFlight = subs[k].inFlight
      /\ Alive' = Alive \ S /\ OpenSubs' = OpenSubs \ S
  <2>1. S \in SUBSET DOMAIN subs
        BY <1>6 DEF Listed
  <2> QED BY Zenon, <1>1, <1>2, <2>1, ClosedSubs
<1>8. PanelTypes' /\ CountsInFlight' /\ UnlistedIsQuiet'
  <2>1. S \in SUBSET Listed /\ initOf' \in PanelPlugins \cup {""}
        BY Zenon, <1>1, <1>6
  <2> QED BY Zenon, <1>1, <1>4, <1>5, <2>1, CloseInv
<1>9. \A s \in DOMAIN subs : subs[s].owner \in PanelPlugins
      BY Zenon, <1>2, SubTypes
<1>10. OpenIsActive'
  <2>1. \A s \in OpenSubs \ S : s \in DOMAIN subs /\ subs[s].owner # p
    <3>1. OpenSubs \subseteq Alive /\ Alive \subseteq DOMAIN subs
          BY DEF OpenSubs, Alive
    <3> QED BY Zenon, <1>6, <3>1 DEF PanelInv, UnlistedIsQuiet
  <2>2. \A s \in OpenSubs \ S : life'[subs[s].owner] = "active"
        BY <1>4, <1>9, <2>1 DEF PanelInv, OpenIsActive
  <2> QED BY Zenon, <1>7, <2>1, <2>2 DEF OpenIsActive
<1>11. InsideIsMapped'
  <2>1. ASSUME NEW s \in DOMAIN subs, subs[s].inFlight # 0
        PROVE  life'[subs[s].owner] \in {"active", "retiring"}
    <3>1. s \in Listed /\ life[subs[s].owner] \in {"active", "retiring"}
          BY Zenon, <2>1 DEF PanelInv, UnlistedIsQuiet, InsideIsMapped
    <3>2. CASE subs[s].owner = p
      <4>1. ~Quiescent(S)
            BY Zenon, <1>6, <2>1, <3>1, <3>2 DEF Quiescent
      <4> QED BY <1>4, <3>2, <4>1
    <3>3. CASE subs[s].owner # p
          BY <1>4, <1>9, <3>1, <3>3
    <3> QED BY <3>2, <3>3
  <2> QED BY Zenon, <1>7, <2>1 DEF InsideIsMapped
<1>12. InitIsInit'
      BY <1>1 DEF InitIsInit
<1>13. SnapshotHasFeed'
  <2>1. IsProvider(p) => Alive' = {}
        BY Zenon, <1>6, <1>7 DEF PanelInv, UnlistedIsQuiet
  <2> QED BY Zenon, <1>1, <1>5, <1>7, <2>1 DEF PanelInv, SnapshotHasFeed
<1> QED BY <1>8, <1>10, <1>11, <1>12, <1>13 DEF PanelInv

(* activate_owner: what opens is of the plugin that is active from now on.  *)
LEMMA ActivateInv == ASSUME PanelInv, NEW p \in PanelPlugins, ActivateOwner(p) PROVE PanelInv'
<1>1. /\ life[p] = "recorded" /\ life' = [life EXCEPT ![p] = "active"]
      /\ UNCHANGED <<initOf, dispatch>>
      /\ feed' = IF feed.pending = p THEN [feed EXCEPT !.owner = p, !.pending = ""] ELSE feed
      BY DEF ActivateOwner
<1>2. PanelTypes
      BY DEF PanelInv
<1>3. /\ life' \in [PanelPlugins -> {"out", "init", "recorded", "active", "retiring", "stopped"}]
      /\ \A q \in PanelPlugins : life'[q] = IF q = p THEN "active" ELSE life[q]
      BY <1>1, <1>2, LifeType
<1>4. /\ feed' \in [owner : PanelPlugins \cup {""}, pending : PanelPlugins \cup {""},
                     retiring : PanelPlugins \cup {""}]
      /\ feed.owner # "" => feed'.owner # ""
  <2>1. feed \in [owner : PanelPlugins \cup {""}, pending : PanelPlugins \cup {""},
                  retiring : PanelPlugins \cup {""}]
        BY DEF PanelInv, PanelTypes
  <2>2. p # ""
        BY PanelAssumption DEF PanelPlugins
  <2> QED BY <1>1, <2>1, <2>2
<1>5. /\ subs' \in Seq(Sub) /\ DOMAIN subs' = DOMAIN subs
      /\ \A s \in DOMAIN subs : subs'[s].owner = subs[s].owner
                                /\ subs'[s].inFlight = subs[s].inFlight
      /\ Alive' = Alive /\ Listed' = Listed
      /\ \A s \in OpenSubs' \ OpenSubs : subs[s].owner = p
      BY Zenon, <1>2, ActivatedSubs DEF ActivateOwner
<1>6. PanelTypes'
      BY Zenon, <1>1, <1>2, <1>3, <1>4, <1>5 DEF PanelTypes
<1>7. CountsInFlight'
  <2>1. \A s : Inside(s)' = Inside(s)
        BY Zenon, <1>1 DEF Inside
  <2> QED BY Zenon, <1>5, <2>1 DEF PanelInv, CountsInFlight
<1>8. UnlistedIsQuiet'
      BY Zenon, <1>5 DEF PanelInv, UnlistedIsQuiet
<1>9. \A s \in DOMAIN subs :
          /\ (subs[s].owner = p => life'[subs[s].owner] = "active")
          /\ (life[subs[s].owner] \in {"active", "retiring"}
               => life'[subs[s].owner] = life[subs[s].owner])
  <2>1. \A s \in DOMAIN subs : subs[s].owner \in PanelPlugins
        BY Zenon, <1>2, SubTypes
  <2> QED BY <1>1, <1>3, <2>1
<1>10. OpenIsActive'
  <2>1. OpenSubs' \subseteq DOMAIN subs
        BY Zenon, <1>5 DEF OpenSubs
  <2>2. \A s \in OpenSubs : life[subs[s].owner] = "active"
        BY DEF PanelInv, OpenIsActive
  <2>3. ASSUME NEW s \in OpenSubs' PROVE life'[subs'[s].owner] = "active"
    <3>1. s \in DOMAIN subs /\ subs'[s].owner = subs[s].owner
          BY Zenon, <1>5, <2>1
    <3>2. CASE s \in OpenSubs
          BY <1>9, <2>2, <3>1, <3>2
    <3>3. CASE s \notin OpenSubs
          BY Zenon, <1>5, <1>9, <3>1, <3>3
    <3> QED BY <3>2, <3>3
  <2> QED BY Zenon, <2>3 DEF OpenIsActive
<1>11. InsideIsMapped'
  <2>1. ASSUME NEW s \in DOMAIN subs, subs[s].inFlight # 0
        PROVE  life'[subs[s].owner] \in {"active", "retiring"}
        BY <1>9, <2>1 DEF PanelInv, InsideIsMapped
  <2> QED BY Zenon, <1>5, <2>1 DEF InsideIsMapped
<1>12. InitIsInit'
  <2>1. initOf # "" => initOf \in PanelPlugins /\ initOf # p
        BY Zenon, <1>1, <1>2 DEF PanelInv, PanelTypes, InitIsInit
  <2> QED BY <1>1, <1>3, <2>1 DEF PanelInv, InitIsInit
<1>13. SnapshotHasFeed'
      BY Zenon, <1>1, <1>4, <1>5 DEF PanelInv, SnapshotHasFeed
<1> QED BY <1>6, <1>7, <1>8, <1>10, <1>11, <1>12, <1>13 DEF PanelInv

(* Steps of a dispatch that call nobody.                                    *)
LEMMA QuietDispatch ==
    ASSUME PanelInv, NEW t \in GameThreads, UNCHANGED <<subs, feed, initOf, life>>,
           dispatch' \in [GameThreads -> [left : Seq(Nat), now : Nat]],
           \A u \in GameThreads : dispatch'[u].now = dispatch[u].now,
           \A u \in GameThreads : u # t => dispatch'[u].left = dispatch[u].left,
           \A i \in DOMAIN dispatch'[t].left :
               /\ dispatch'[t].left[i] \in DOMAIN subs
               /\ dispatch'[t].left[i] \in Alive => feed.owner # ""
    PROVE  PanelInv'
<1>1. PanelTypes'
      BY Zenon DEF PanelInv, PanelTypes
<1>2. CountsInFlight'
  <2>1. \A s : Inside(s)' = Inside(s)
        BY Zenon DEF Inside
  <2> QED BY Zenon, <2>1 DEF PanelInv, CountsInFlight
<1>3. UnlistedIsQuiet' /\ OpenIsActive' /\ InsideIsMapped' /\ InitIsInit'
      BY DEF PanelInv, UnlistedIsQuiet, OpenIsActive, InsideIsMapped, InitIsInit,
             Alive, Listed, OpenSubs
<1>4. SnapshotHasFeed'
  <2>1. Alive' = Alive
        BY Zenon DEF Alive
  <2> QED BY Zenon, <2>1 DEF PanelInv, SnapshotHasFeed
<1> QED BY <1>1, <1>2, <1>3, <1>4 DEF PanelInv

(* dispatch: the snapshot is of listed tokens, taken while there is a feed. *)
LEMMA RefreshInv == ASSUME PanelInv, NEW t \in GameThreads, DispatchRefresh(t) PROVE PanelInv'
<1> DEFINE listed == {s \in DOMAIN subs : subs[s].listed}
<1>1. PICK order \in Orderings(listed) : dispatch' = [dispatch EXCEPT ![t].left = order]
      BY DEF DispatchRefresh
<1>2. UNCHANGED <<subs, feed, initOf, life>> /\ feed.owner # "" /\ PanelTypes
      BY DEF DispatchRefresh, PanelInv
<1>3. order \in Seq(Nat) /\ \A i \in DOMAIN order : order[i] \in DOMAIN subs
  <2>1. DOMAIN subs = 1..Len(subs) /\ Len(subs) \in Nat
        BY Zenon, <1>2, SubTypes
  <2>2. IsFiniteSet(listed) /\ listed \subseteq Nat
    <3>1. IsFiniteSet(1..Len(subs))
          BY <2>1, FS_Interval
    <3>2. listed \subseteq 1..Len(subs)
          BY Zenon, <2>1
    <3> HIDE DEF listed
    <3>3. IsFiniteSet(listed)
          BY <3>1, <3>2, FS_Subset
    <3> QED BY <2>1, <3>2, <3>3
  <2>3. Cardinality(listed) \in Nat
        BY <2>2, FS_CardinalityType
  <2>4. order \in [1..Cardinality(listed) -> listed]
        BY DEF Orderings
  <2>5. order \in [1..Cardinality(listed) -> Nat]
        BY <2>2, <2>4
  <2>6. order \in Seq(Nat)
        BY <2>3, <2>5, FunctionIsSeq
  <2> QED BY Zenon, <2>4, <2>6
<1>4. dispatch \in [GameThreads -> [left : Seq(Nat), now : Nat]]
      BY Zenon, <1>2 DEF PanelTypes
<1>5. /\ dispatch' \in [GameThreads -> [left : Seq(Nat), now : Nat]]
      /\ \A u \in GameThreads : dispatch'[u].now = dispatch[u].now
      /\ \A u \in GameThreads : u # t => dispatch'[u].left = dispatch[u].left
      /\ dispatch'[t].left = order
      BY <1>1, <1>3, <1>4
<1> QED BY Zenon, <1>2, <1>3, <1>5, QuietDispatch

(* The head of a snapshot is a token, and the rest are too.                 *)
LEMMA SnapshotTail ==
    ASSUME PanelInv, NEW t \in GameThreads, dispatch[t].left # <<>>
    PROVE  /\ Head(dispatch[t].left) \in DOMAIN subs /\ Tail(dispatch[t].left) \in Seq(Nat)
           /\ \A i \in DOMAIN Tail(dispatch[t].left) :
                /\ Tail(dispatch[t].left)[i] \in DOMAIN subs
                /\ Tail(dispatch[t].left)[i] \in Alive => feed.owner # ""
           /\ Head(dispatch[t].left) \in Alive => feed.owner # ""
<1> DEFINE q == dispatch[t].left
<1>1. q \in Seq(Nat)
  <2>1. dispatch \in [GameThreads -> [left : Seq(Nat), now : Nat]]
        BY Zenon DEF PanelInv, PanelTypes
  <2> QED BY <2>1
<1>2. \A i \in DOMAIN q : q[i] \in DOMAIN subs /\ (q[i] \in Alive => feed.owner # "")
      BY Zenon DEF PanelInv, PanelTypes, SnapshotHasFeed
<1>3. q # <<>>
      OBVIOUS
<1> HIDE DEF q
<1>4. Head(q) = q[1] /\ 1 \in DOMAIN q /\ Tail(q) \in Seq(Nat)
      BY <1>1, <1>3
<1>5. \A i \in DOMAIN Tail(q) : i + 1 \in DOMAIN q /\ Tail(q)[i] = q[i + 1]
      BY <1>1, <1>3
<1>6. \A i \in DOMAIN Tail(q) :
          /\ Tail(q)[i] \in DOMAIN subs
          /\ Tail(q)[i] \in Alive => feed.owner # ""
      BY Zenon, <1>2, <1>5
<1> QED BY <1>2, <1>4, <1>6 DEF q

(* What a step of a dispatch makes of the thread's record.                  *)
LEMMA DispatchType ==
    ASSUME PanelInv, NEW t \in GameThreads, NEW left \in Seq(Nat), NEW now \in Nat,
           dispatch' = [dispatch EXCEPT ![t] = [left |-> left, now |-> now]]
    PROVE  /\ dispatch' \in [GameThreads -> [left : Seq(Nat), now : Nat]]
           /\ dispatch'[t].left = left /\ dispatch'[t].now = now
           /\ \A u \in GameThreads \ {t} : dispatch'[u] = dispatch[u]
<1>1. dispatch \in [GameThreads -> [left : Seq(Nat), now : Nat]]
      BY Zenon DEF PanelInv, PanelTypes
<1> QED BY <1>1

(* A thread enters an open callback, or leaves the one it is in: the count  *)
(* follows, and the subscriptions stay as they were.                        *)
LEMMA CallInv ==
    ASSUME PanelInv, NEW t \in GameThreads, NEW s \in DOMAIN subs, NEW n \in Nat,
           NEW left \in Seq(Nat), NEW now \in {0, s},
           UNCHANGED <<feed, initOf, life>>,
           dispatch' = [dispatch EXCEPT ![t] = [left |-> left, now |-> now]],
           dispatch[t].now \in {0, s},
           subs' = [subs EXCEPT ![s].inFlight = n],
           n = Cardinality(Inside(s)'),
           n # 0 => life[subs[s].owner] \in {"active", "retiring"},
           n = 0 \/ s \in Listed,
           \A i \in DOMAIN left : /\ left[i] \in DOMAIN subs
                                  /\ left[i] \in Alive => feed.owner # ""
    PROVE  PanelInv'
<1>0. PanelTypes
      BY DEF PanelInv
<1>1. /\ subs' \in Seq(Sub) /\ DOMAIN subs' = DOMAIN subs
      /\ \A k \in DOMAIN subs : subs'[k].owner = subs[k].owner
      /\ \A k \in DOMAIN subs \ {s} : subs'[k].inFlight = subs[k].inFlight
      /\ subs'[s].inFlight = n
      /\ Alive' = Alive /\ OpenSubs' = OpenSubs /\ Listed' = Listed
      BY Zenon, <1>0, CountedSubs
<1>2. now \in Nat /\ 0 \notin DOMAIN subs
  <2>1. now \in {0} \cup DOMAIN subs
        BY Zenon
  <2> QED BY Zenon, <1>0, <2>1, SubTypes
<1>3. /\ dispatch' \in [GameThreads -> [left : Seq(Nat), now : Nat]]
      /\ dispatch'[t].left = left /\ dispatch'[t].now = now
      /\ \A u \in GameThreads \ {t} : dispatch'[u] = dispatch[u]
      BY <1>2, DispatchType
<1>4. PanelTypes'
  <2>1. ASSUME NEW u \in GameThreads
        PROVE  /\ dispatch'[u].now \in {0} \cup DOMAIN subs
               /\ \A i \in DOMAIN dispatch'[u].left : dispatch'[u].left[i] \in DOMAIN subs
    <3>1. CASE u = t
      <4>1. now \in {0} \cup DOMAIN subs
            BY Zenon
      <4> QED BY Zenon, <1>3, <3>1, <4>1
    <3>2. CASE u # t
      <4>1. dispatch'[u] = dispatch[u]
            BY Zenon, <1>3, <3>2
      <4>2. /\ dispatch[u].now \in {0} \cup DOMAIN subs
            /\ \A i \in DOMAIN dispatch[u].left : dispatch[u].left[i] \in DOMAIN subs
            BY Zenon, <1>0 DEF PanelTypes
      <4> QED BY Zenon, <4>1, <4>2
    <3> QED BY Zenon, <3>1, <3>2
  <2>2. /\ feed' \in [owner : PanelPlugins \cup {""}, pending : PanelPlugins \cup {""},
                       retiring : PanelPlugins \cup {""}]
        /\ initOf' \in PanelPlugins \cup {""}
        /\ life' \in [PanelPlugins -> {"out", "init", "recorded", "active", "retiring", "stopped"}]
        BY Zenon, <1>0 DEF PanelTypes
  <2> QED BY Zenon, <1>1, <1>3, <2>1, <2>2 DEF PanelTypes
<1>5. CountsInFlight'
  <2>1. \A k \in DOMAIN subs \ {s} : Inside(k)' = Inside(k)
    <3> TAKE k \in DOMAIN subs \ {s}
    <3>1. k # 0 /\ k # s
          BY Zenon, <1>2
    <3>2. k # now /\ k # dispatch[t].now
          BY Zenon, <3>1
    <3> QED BY Zenon, <1>3, <3>2 DEF Inside
  <2>2. \A k \in DOMAIN subs \ {s} : subs'[k].inFlight = Cardinality(Inside(k)')
    <3> TAKE k \in DOMAIN subs \ {s}
    <3>1. subs'[k].inFlight = subs[k].inFlight /\ Inside(k)' = Inside(k)
          BY Zenon, <1>1, <2>1
    <3>2. subs[k].inFlight = Cardinality(Inside(k))
          BY Zenon DEF PanelInv, CountsInFlight
    <3> QED BY Zenon, <3>1, <3>2
  <2> QED BY Zenon, <1>1, <2>2 DEF CountsInFlight
<1>6. UnlistedIsQuiet'
  <2>1. \A k \in DOMAIN subs \ Listed : subs'[k].inFlight = 0
        BY <1>1 DEF PanelInv, UnlistedIsQuiet
  <2> QED BY Zenon, <1>1, <2>1 DEF PanelInv, UnlistedIsQuiet
<1>7. OpenIsActive'
  <2>1. OpenSubs \subseteq DOMAIN subs
        BY DEF OpenSubs
  <2> QED BY Zenon, <1>1, <2>1 DEF PanelInv, OpenIsActive
<1>8. InsideIsMapped'
  <2>1. \A k \in DOMAIN subs : subs'[k].inFlight # 0
                                 => life[subs[k].owner] \in {"active", "retiring"}
        BY <1>1 DEF PanelInv, InsideIsMapped
  <2> QED BY Zenon, <1>1, <2>1 DEF InsideIsMapped
<1>9. InitIsInit'
      BY DEF PanelInv, InitIsInit
<1>10. SnapshotHasFeed'
      BY Zenon, <1>1, <1>3 DEF PanelInv, SnapshotHasFeed
<1> QED BY <1>4, <1>5, <1>6, <1>7, <1>8, <1>9, <1>10 DEF PanelInv

(* The gate: a token is called exactly if it is open, and counted with it.  *)
LEMMA EnterSplit ==
    ASSUME PanelInv, NEW t \in GameThreads, EnterCallback(t)
    PROVE  LET s == Head(dispatch[t].left)
           IN /\ s \in DOMAIN subs /\ dispatch[t].now = 0 /\ dispatch[t].left # <<>>
              /\ \/ /\ s \in OpenSubs
                    /\ subs' = [subs EXCEPT ![s].inFlight = @ + 1]
                    /\ dispatch' = [dispatch EXCEPT ![t] =
                                       [left |-> Tail(dispatch[t].left), now |-> s]]
                 \/ /\ s \notin OpenSubs /\ subs' = subs
                    /\ dispatch' = [dispatch EXCEPT ![t] =
                                       [left |-> Tail(dispatch[t].left), now |-> 0]]
<1> DEFINE s == Head(dispatch[t].left)
<1>1. dispatch[t].now = 0 /\ dispatch[t].left # <<>>
      BY DEF EnterCallback
<1>2. s \in DOMAIN subs
      BY Zenon, <1>1, SnapshotTail
<1>3. subs[s].committed \in BOOLEAN /\ subs[s].retired \in BOOLEAN
      BY Zenon, <1>2, SubTypes DEF PanelInv
<1>4. CASE subs[s].committed /\ ~subs[s].retired
  <2>1. s \in OpenSubs
        BY Zenon, <1>2, <1>3, <1>4 DEF OpenSubs
  <2>2. /\ subs' = [subs EXCEPT ![s].inFlight = @ + 1]
        /\ dispatch' = [dispatch EXCEPT ![t] = [left |-> Tail(dispatch[t].left), now |-> s]]
        BY Zenon, <1>4 DEF EnterCallback
  <2> QED BY Zenon, <1>1, <1>2, <2>1, <2>2
<1>5. CASE ~(subs[s].committed /\ ~subs[s].retired)
  <2>1. s \notin OpenSubs
        BY Zenon, <1>2, <1>3, <1>5 DEF OpenSubs
  <2>2. /\ subs' = subs
        /\ dispatch' = [dispatch EXCEPT ![t] = [left |-> Tail(dispatch[t].left), now |-> 0]]
        BY Zenon, <1>5 DEF EnterCallback
  <2> QED BY Zenon, <1>1, <1>2, <2>1, <2>2
<1> QED BY Zenon, <1>4, <1>5

LEMMA EnterInv == ASSUME PanelInv, NEW t \in GameThreads, EnterCallback(t) PROVE PanelInv'
<1>0. PICK s, rest : s = Head(dispatch[t].left) /\ rest = Tail(dispatch[t].left)
      OBVIOUS
<1>1. /\ s \in DOMAIN subs /\ dispatch[t].now = 0 /\ dispatch[t].left # <<>>
      /\ \/ /\ s \in OpenSubs
            /\ subs' = [subs EXCEPT ![s].inFlight = @ + 1]
            /\ dispatch' = [dispatch EXCEPT ![t] = [left |-> rest, now |-> s]]
         \/ /\ s \notin OpenSubs /\ subs' = subs
            /\ dispatch' = [dispatch EXCEPT ![t] = [left |-> rest, now |-> 0]]
      BY Zenon, <1>0, EnterSplit
<1>2. /\ rest \in Seq(Nat)
      /\ \A i \in DOMAIN rest :
            /\ rest[i] \in DOMAIN subs
            /\ rest[i] \in Alive => feed.owner # ""
      BY Zenon, <1>0, <1>1, SnapshotTail
<1>3. UNCHANGED <<feed, initOf, life>> /\ PanelTypes
      BY DEF EnterCallback, PanelInv
<1>4. subs[s].inFlight \in Nat /\ s \in Nat /\ 0 \in Nat /\ s # 0
      BY Zenon, <1>1, <1>3, SubTypes
<1>5. CASE /\ s \in OpenSubs
           /\ subs' = [subs EXCEPT ![s].inFlight = @ + 1]
           /\ dispatch' = [dispatch EXCEPT ![t] = [left |-> rest, now |-> s]]
  <2>0. PICK n : n = subs[s].inFlight + 1
        OBVIOUS
  <2>1. n \in Nat /\ n # 0
        BY <1>4, <2>0
  <2>2. dispatch'[t].now = s /\ \A u \in GameThreads \ {t} : dispatch'[u] = dispatch[u]
        BY Zenon, <1>2, <1>4, <1>5, DispatchType
  <2>3. Inside(s)' = Inside(s) \cup {t} /\ t \notin Inside(s)
        BY Zenon, <1>1, <1>4, <2>2 DEF Inside
  <2>4. n = Cardinality(Inside(s)')
    <3>1. subs[s].inFlight = Cardinality(Inside(s))
          BY Zenon, <1>1 DEF PanelInv, CountsInFlight
    <3>2. Cardinality(Inside(s) \cup {t}) = Cardinality(Inside(s)) + 1
          BY <2>3, InsideFinite, FS_AddElement
    <3> QED BY Zenon, <2>0, <2>3, <3>1, <3>2
  <2>5. s \in Listed /\ life[subs[s].owner] \in {"active", "retiring"}
    <3>1. s \in Alive
          BY Zenon, <1>5 DEF OpenSubs, Alive
    <3> QED BY Zenon, <1>5, <3>1 DEF PanelInv, UnlistedIsQuiet, OpenIsActive
  <2>6. subs' = [subs EXCEPT ![s].inFlight = n]
        BY Zenon, <1>5, <2>0
  <2>7. dispatch[t].now \in {0, s} /\ s \in {0, s}
        BY Zenon, <1>1
  <2> QED BY Zenon, <1>1, <1>2, <1>3, <1>5, <2>1, <2>4, <2>5, <2>6, <2>7, CallInv
<1>6. CASE /\ subs' = subs
           /\ dispatch' = [dispatch EXCEPT ![t] = [left |-> rest, now |-> 0]]
  <2>1. /\ dispatch' \in [GameThreads -> [left : Seq(Nat), now : Nat]]
        /\ dispatch'[t].left = rest /\ dispatch'[t].now = 0
        /\ \A u \in GameThreads \ {t} : dispatch'[u] = dispatch[u]
        BY Zenon, <1>2, <1>4, <1>6, DispatchType
  <2>2. /\ \A u \in GameThreads : dispatch'[u].now = dispatch[u].now
        /\ \A u \in GameThreads : u # t => dispatch'[u].left = dispatch[u].left
        BY Zenon, <1>1, <2>1
  <2>3. \A i \in DOMAIN dispatch'[t].left :
            /\ dispatch'[t].left[i] \in DOMAIN subs
            /\ dispatch'[t].left[i] \in Alive => feed.owner # ""
        BY Zenon, <1>2, <2>1
  <2> QED BY Zenon, <1>3, <1>6, <2>1, <2>2, <2>3, QuietDispatch
<1> QED BY Zenon, <1>1, <1>5, <1>6

(* A callback returns; its thread was counted.                              *)
LEMMA ReturnInv == ASSUME PanelInv, NEW t \in GameThreads, ReturnCallback(t) PROVE PanelInv'
<1>0. PICK s, rest, n : s = dispatch[t].now /\ rest = dispatch[t].left
                        /\ n = subs[s].inFlight - 1
      BY Zenon
<1>1. /\ s # 0 /\ UNCHANGED <<feed, initOf, life>> /\ PanelTypes
      /\ subs' = [subs EXCEPT ![s].inFlight = n]
      /\ dispatch' = [dispatch EXCEPT ![t].now = 0]
  <2>1. subs' = [subs EXCEPT ![s].inFlight = n]
        BY Zenon, <1>0 DEF ReturnCallback
  <2> QED BY <1>0, <2>1 DEF ReturnCallback, PanelInv
<1>2. s \in DOMAIN subs
      BY Zenon, <1>0, <1>1 DEF PanelTypes
<1>3. subs[s].inFlight \in Nat /\ 0 \in Nat
      BY Zenon, <1>1, <1>2, SubTypes
<1>4. /\ rest \in Seq(Nat) /\ dispatch' = [dispatch EXCEPT ![t] = [left |-> rest, now |-> 0]]
  <2>1. dispatch \in [GameThreads -> [left : Seq(Nat), now : Nat]]
        BY Zenon, <1>1 DEF PanelTypes
  <2>2. dispatch[t] \in [left : Seq(Nat), now : Nat]
        BY Zenon, <2>1
  <2>3. [dispatch[t] EXCEPT !.now = 0] = [left |-> dispatch[t].left, now |-> 0]
        BY <2>2
  <2>4. dispatch[t].left \in Seq(Nat)
        BY <2>2
  <2> QED BY Zenon, <1>0, <1>1, <2>3, <2>4
<1>5. \A i \in DOMAIN rest :
          /\ rest[i] \in DOMAIN subs
          /\ rest[i] \in Alive => feed.owner # ""
      BY Zenon, <1>0, <1>1 DEF PanelInv, PanelTypes, SnapshotHasFeed
<1>6. dispatch'[t].now = 0 /\ \A u \in GameThreads \ {t} : dispatch'[u] = dispatch[u]
      BY Zenon, <1>3, <1>4, DispatchType
<1>7. Inside(s)' = Inside(s) \ {t} /\ t \in Inside(s)
      BY Zenon, <1>0, <1>1, <1>6 DEF Inside
<1>8. subs[s].inFlight = Cardinality(Inside(s))
      BY Zenon, <1>2 DEF PanelInv, CountsInFlight
<1>9. n = Cardinality(Inside(s)') /\ n \in Nat /\ subs[s].inFlight # 0
  <2>1. Cardinality(Inside(s) \ {t}) = Cardinality(Inside(s)) - 1
        BY <1>7, InsideFinite, FS_RemoveElement
  <2>2. Cardinality(Inside(s)) # 0
        BY Zenon, <1>7, InsideFinite
  <2>3. n = Cardinality(Inside(s)')
        BY Zenon, <1>0, <1>7, <1>8, <2>1
  <2>4. n \in Nat
        BY <1>0, <1>3, <1>8, <2>2
  <2> QED BY Zenon, <1>8, <2>2, <2>3, <2>4
<1>10. s \in Listed /\ life[subs[s].owner] \in {"active", "retiring"}
      BY Zenon, <1>2, <1>9 DEF PanelInv, UnlistedIsQuiet, InsideIsMapped
<1>11. dispatch[t].now \in {0, s} /\ 0 \in {0, s}
      BY Zenon, <1>0
<1> QED BY Zenon, <1>1, <1>2, <1>4, <1>5, <1>9, <1>10, <1>11, CallInv

(* Every step of the panel preserves the invariant.                         *)
LEMMA PanelNextInv == PanelInv /\ [PanelNext]_panelVars => PanelInv'
<1> SUFFICES ASSUME PanelInv, [PanelNext]_panelVars PROVE PanelInv'
    OBVIOUS
<1>1. CASE SetPlanOrder \/ UNCHANGED panelVars
  <2>1. UNCHANGED <<subs, feed, initOf, life, dispatch>>
        BY <1>1 DEF SetPlanOrder, panelVars
  <2>2. PanelTypes' /\ InitIsInit'
        BY Zenon, <2>1 DEF PanelInv, PanelTypes, InitIsInit
  <2>3. \A p \in PanelPlugins : life[p] \in {"active", "retiring"} => life'[p] = life[p]
        BY Zenon, <2>1
  <2> QED BY Zenon, <2>1, <2>2, <2>3, PanelLifeInv
<1> QED BY Zenon, <1>1, BeginInv, ActivateInv, RetireInv, PublishInv, SubscribeInv, FinishOkInv,
           FinishFailedInv, UnsubscribeInv, RefreshInv, EnterInv, ReturnInv
        DEF PanelNext

(* The invariant holds in every reachable state.                            *)
LEMMA PanelInvariance == PanelSpec => []PanelInv
  BY PanelInitInv, PanelNextInv, PTL DEF PanelSpec
-----------------------------------------------------------------------------
(* The refinement of CallbackRegistry: an owner is mapped while the loader  *)
(* has not stopped it, open while one of its subscriptions is, and bound to *)
(* the threads inside one of them.                                          *)
MappedOwners == {p \in PanelPlugins : life[p] \notin {"out", "stopped"}}
OpenOwners == {p \in PanelPlugins : \E s \in OpenSubs : subs[s].owner = p}
BoundOwners == [t \in GameThreads |-> IF dispatch[t].now = 0 THEN {}
                                      ELSE {subs[dispatch[t].now].owner}]

LEMMA OpenOwnersAre ==
    ASSUME PanelTypes
    PROVE  OpenOwners = {p \in PanelPlugins : \E s \in DOMAIN subs :
                            subs[s].owner = p /\ subs[s].committed /\ ~subs[s].retired}
<1>1. \A s \in DOMAIN subs : subs[s].committed \in BOOLEAN /\ subs[s].retired \in BOOLEAN
      BY Zenon, SubTypes
<1>2. \A s \in DOMAIN subs : /\ subs[s].committed <=> subs[s].committed = TRUE
                             /\ ~subs[s].retired <=> subs[s].retired = FALSE
      BY Zenon, <1>1
<1> QED BY Zenon, <1>2 DEF OpenOwners, OpenSubs

LEMMA OpenOwnersWillBe ==
    ASSUME PanelTypes'
    PROVE  OpenOwners' = {p \in PanelPlugins : \E s \in DOMAIN subs' :
                             subs'[s].owner = p /\ subs'[s].committed /\ ~subs'[s].retired}
<1>1. \A s \in DOMAIN subs' : subs'[s].committed \in BOOLEAN /\ subs'[s].retired \in BOOLEAN
  <2>1. subs' \in Seq(Sub)
        BY Zenon DEF PanelTypes
  <2>2. \A s \in DOMAIN subs' : subs'[s] \in Sub
        BY <2>1
  <2> QED BY <2>2 DEF Sub
<1>2. \A s \in DOMAIN subs' : /\ subs'[s].committed <=> subs'[s].committed = TRUE
                              /\ ~subs'[s].retired <=> subs'[s].retired = FALSE
      BY Zenon, <1>1
<1> QED BY Zenon, <1>2 DEF OpenOwners, OpenSubs

(* The registry's steps, in those terms.                                    *)
LEMMA PanelMaps ==
    ASSUME PanelTypes, PanelTypes', NEW p \in PanelPlugins,
           MappedOwners' = MappedOwners \cup {p},
           OpenOwners' \in {OpenOwners, OpenOwners \cup {p}}, BoundOwners' = BoundOwners
    PROVE  PanelRegistry!RegistryNext
<1>1. PanelRegistry!MapOwner(p)
      BY Zenon, OpenOwnersAre, OpenOwnersWillBe
      DEF PanelRegistry!MapOwner, MappedOwners, BoundOwners
<1> QED BY Zenon, <1>1 DEF PanelRegistry!RegistryNext

LEMMA PanelCloses ==
    ASSUME PanelTypes, PanelTypes',
           MappedOwners' \subseteq MappedOwners, OpenOwners' \subseteq OpenOwners,
           \A p \in MappedOwners \ MappedOwners' :
               p \notin OpenOwners' /\ \A t \in GameThreads : p \notin BoundOwners[t],
           BoundOwners' = BoundOwners
    PROVE  PanelRegistry!RegistryNext
<1>1. PanelRegistry!CloseOwners
      BY Zenon, OpenOwnersAre, OpenOwnersWillBe
      DEF PanelRegistry!CloseOwners, PanelRegistry!Bound, MappedOwners, BoundOwners
<1> QED BY Zenon, <1>1 DEF PanelRegistry!RegistryNext

LEMMA PanelCalls ==
    ASSUME PanelTypes, PanelTypes', NEW t \in GameThreads, NEW p \in OpenOwners,
           MappedOwners' = MappedOwners, OpenOwners' = OpenOwners, BoundOwners[t] = {},
           BoundOwners' = [BoundOwners EXCEPT ![t] = {p}]
    PROVE  PanelRegistry!RegistryNext
<1>1. {p} \in SUBSET OpenOwners
      BY Zenon
<1>2. PanelRegistry!Call(t)
      BY Zenon, <1>1, OpenOwnersAre, OpenOwnersWillBe
      DEF PanelRegistry!Call, MappedOwners, BoundOwners
<1> QED BY Zenon, <1>2 DEF PanelRegistry!RegistryNext

LEMMA PanelReturns ==
    ASSUME PanelTypes, PanelTypes', NEW t \in GameThreads, NEW p \in PanelPlugins,
           MappedOwners' = MappedOwners, OpenOwners' = OpenOwners, p \in BoundOwners[t],
           BoundOwners' = [BoundOwners EXCEPT ![t] = @ \ {p}]
    PROVE  PanelRegistry!RegistryNext
<1>1. PanelRegistry!Return(t, p)
      BY Zenon, OpenOwnersAre, OpenOwnersWillBe
      DEF PanelRegistry!Return, MappedOwners, BoundOwners
<1> QED BY Zenon, <1>1 DEF PanelRegistry!RegistryNext

LEMMA PanelStutters ==
    ASSUME PanelTypes, PanelTypes',
           MappedOwners' = MappedOwners, OpenOwners' = OpenOwners, BoundOwners' = BoundOwners
    PROVE  UNCHANGED PanelRegistry!registryVars
  BY Zenon, OpenOwnersAre, OpenOwnersWillBe
  DEF PanelRegistry!registryVars, MappedOwners, BoundOwners

(* What the threads are bound to depends only on where they are.            *)
LEMMA SameBound ==
    ASSUME PanelTypes, \A t \in GameThreads : dispatch'[t].now = dispatch[t].now,
           \A s \in DOMAIN subs : subs'[s].owner = subs[s].owner
    PROVE  BoundOwners' = BoundOwners
<1>1. \A t \in GameThreads : dispatch[t].now # 0 => dispatch[t].now \in DOMAIN subs
      BY Zenon DEF PanelTypes
<1> QED BY Zenon, <1>1 DEF BoundOwners

(* An owner none of whose callbacks runs is in nobody's reach.              *)
LEMMA OutOfReach ==
    ASSUME PanelInv, NEW p, \A s \in DOMAIN subs : subs[s].owner = p => subs[s].inFlight = 0
    PROVE  \A t \in GameThreads : p \notin BoundOwners[t]
<1> SUFFICES ASSUME NEW t \in GameThreads, p \in BoundOwners[t] PROVE FALSE
    BY Zenon
<1>1. dispatch[t].now # 0 /\ p = subs[dispatch[t].now].owner
  <2>1. CASE dispatch[t].now = 0
        BY Zenon, <2>1 DEF BoundOwners
  <2>2. CASE dispatch[t].now # 0
        BY Zenon, <2>2 DEF BoundOwners
  <2> QED BY Zenon, <2>1, <2>2
<1>2. dispatch[t].now \in DOMAIN subs
      BY Zenon, <1>1 DEF PanelInv, PanelTypes
<1>3. Inside(dispatch[t].now) # {}
      BY Zenon DEF Inside
<1>4. subs[dispatch[t].now].inFlight = Cardinality(Inside(dispatch[t].now))
      BY Zenon, <1>2 DEF PanelInv, CountsInFlight
<1> QED BY Zenon, <1>1, <1>2, <1>3, <1>4, InsideFinite

(* What closes is of owners that were open.                                 *)
LEMMA ClosingOwners ==
    ASSUME OpenSubs' \subseteq OpenSubs,
           \A s \in DOMAIN subs : subs'[s].owner = subs[s].owner
    PROVE  OpenOwners' \subseteq OpenOwners
<1>1. OpenSubs \subseteq DOMAIN subs
      BY Zenon DEF OpenSubs
<1> QED BY Zenon, <1>1 DEF OpenOwners

LEMMA RegistryBegin ==
    ASSUME PanelInv, PanelTypes', NEW p \in PanelPlugins, PanelBegin(p)
    PROVE  PanelRegistry!RegistryNext
<1>1. PanelTypes /\ UNCHANGED <<subs, dispatch>> /\ life' = [life EXCEPT ![p] = "init"]
      BY DEF PanelInv, PanelBegin
<1>2. \A q \in PanelPlugins : life'[q] = IF q = p THEN "init" ELSE life[q]
      BY <1>1, LifeType
<1>3. MappedOwners' = MappedOwners \cup {p}
      BY <1>2 DEF MappedOwners
<1>4. OpenOwners' = OpenOwners /\ BoundOwners' = BoundOwners
      BY Zenon, <1>1 DEF OpenOwners, OpenSubs, BoundOwners
<1>5. OpenOwners' \in {OpenOwners, OpenOwners \cup {p}}
      BY Zenon, <1>4
<1> QED BY Zenon, <1>1, <1>3, <1>4, <1>5, PanelMaps

LEMMA RegistryActivate ==
    ASSUME PanelInv, PanelTypes', NEW p \in PanelPlugins, ActivateOwner(p)
    PROVE  PanelRegistry!RegistryNext
<1>1. /\ PanelTypes /\ dispatch' = dispatch /\ life[p] = "recorded"
      /\ life' = [life EXCEPT ![p] = "active"]
      BY DEF PanelInv, ActivateOwner
<1>2. \A q \in PanelPlugins : life'[q] = IF q = p THEN "active" ELSE life[q]
      BY <1>1, LifeType
<1>3. MappedOwners' = MappedOwners \cup {p}
      BY <1>1, <1>2 DEF MappedOwners
<1>4. /\ DOMAIN subs' = DOMAIN subs
      /\ \A s \in DOMAIN subs : subs'[s].owner = subs[s].owner
      /\ OpenSubs \subseteq OpenSubs'
      /\ \A s \in OpenSubs' \ OpenSubs : subs[s].owner = p
      BY Zenon, <1>1, ActivatedSubs DEF ActivateOwner
<1>5. OpenOwners' \in {OpenOwners, OpenOwners \cup {p}}
  <2>1. OpenSubs \subseteq DOMAIN subs /\ OpenSubs' \subseteq DOMAIN subs
        BY Zenon, <1>4 DEF OpenSubs
  <2>2. OpenOwners \subseteq OpenOwners'
        BY Zenon, <1>4, <2>1 DEF OpenOwners
  <2>3. OpenOwners' \subseteq OpenOwners \cup {p}
        BY Zenon, <1>4, <2>1 DEF OpenOwners
  <2>4. CASE p \in OpenOwners'
    <3>1. OpenOwners' = OpenOwners \cup {p}
          BY Zenon, <2>2, <2>3, <2>4
    <3> QED BY Zenon, <3>1
  <2>5. CASE p \notin OpenOwners'
    <3>1. OpenOwners' = OpenOwners
          BY Zenon, <2>2, <2>3, <2>5
    <3> QED BY Zenon, <3>1
  <2> QED BY Zenon, <2>4, <2>5
<1>6. BoundOwners' = BoundOwners
      BY Zenon, <1>1, <1>4, SameBound
<1> QED BY Zenon, <1>1, <1>3, <1>5, <1>6, PanelMaps

(* unsubscribe closes one; nothing is unmapped.                             *)
LEMMA RegistryUnsubscribe ==
    ASSUME PanelInv, PanelTypes', NEW s \in DOMAIN subs, Unsubscribe(s)
    PROVE  PanelRegistry!RegistryNext
<1>1. PanelTypes /\ UNCHANGED <<life, dispatch>>
      BY DEF PanelInv, Unsubscribe
<1>2. subs' = Closed({s})
      BY Zenon, <1>1, UnsubscribeCloses
<1>3. OpenSubs' \subseteq OpenSubs /\ \A k \in DOMAIN subs : subs'[k].owner = subs[k].owner
      BY Zenon, <1>1, <1>2, ClosedSubs
<1>4. OpenOwners' \subseteq OpenOwners
      BY Zenon, <1>3, ClosingOwners
<1>5. BoundOwners' = BoundOwners
      BY Zenon, <1>1, <1>3, SameBound
<1>6. MappedOwners' = MappedOwners
      BY Zenon, <1>1 DEF MappedOwners
<1> QED BY Zenon, <1>1, <1>4, <1>5, <1>6, PanelCloses

(* A plugin whose init failed is unmapped: it was not active yet, so it had *)
(* nothing open and nothing running.                                        *)
LEMMA RegistryFailed ==
    ASSUME PanelInv, PanelTypes', FinishFailed
    PROVE  PanelRegistry!RegistryNext
<1>0. PICK p : p = initOf
      OBVIOUS
<1>1. /\ PanelTypes /\ dispatch' = dispatch /\ subs' = Closed(Affected(p))
      /\ life' = [life EXCEPT ![p] = "out"]
      BY <1>0 DEF PanelInv, FinishFailed
<1>2. p \in PanelPlugins /\ life[p] = "init"
      BY Zenon, <1>0, <1>1 DEF FinishFailed, PanelInv, PanelTypes, InitIsInit
<1>3. \A q \in PanelPlugins : life'[q] = IF q = p THEN "out" ELSE life[q]
      BY <1>1, LifeType
<1>4. MappedOwners' = MappedOwners \ {p}
      BY <1>3 DEF MappedOwners
<1>5. OpenSubs' \subseteq OpenSubs /\ \A k \in DOMAIN subs : subs'[k].owner = subs[k].owner
  <2>1. Affected(p) \in SUBSET DOMAIN subs
        BY Zenon DEF Affected
  <2> QED BY Zenon, <1>1, <2>1, ClosedSubs
<1>6. OpenOwners' \subseteq OpenOwners
      BY Zenon, <1>5, ClosingOwners
<1>7. p \notin OpenOwners
  <2>1. "init" # "active"
        OBVIOUS
  <2> QED BY Zenon, <1>2, <2>1 DEF OpenOwners, PanelInv, OpenIsActive
<1>8. \A t \in GameThreads : p \notin BoundOwners[t]
  <2>1. "init" \notin {"active", "retiring"}
        OBVIOUS
  <2>2. \A s \in DOMAIN subs : subs[s].owner = p => subs[s].inFlight = 0
        BY Zenon, <1>2, <2>1 DEF PanelInv, InsideIsMapped
  <2> QED BY Zenon, <2>2, OutOfReach
<1>9. BoundOwners' = BoundOwners
      BY Zenon, <1>1, <1>5, SameBound
<1>10. MappedOwners' \subseteq MappedOwners
       /\ \A q \in MappedOwners \ MappedOwners' :
              q \notin OpenOwners' /\ \A t \in GameThreads : q \notin BoundOwners[t]
      BY Zenon, <1>4, <1>6, <1>7, <1>8
<1> QED BY Zenon, <1>1, <1>6, <1>9, <1>10, PanelCloses

(* A plugin is stopped only if all its callbacks are quiet: a subscription  *)
(* out of the list is quiet too, and all the others were looked at.         *)
LEMMA RegistryRetire ==
    ASSUME PanelInv, PanelTypes', NEW p \in PanelPlugins, RetireOwner(p)
    PROVE  PanelRegistry!RegistryNext
<1>0. PICK S : S = Affected(p)
      OBVIOUS
<1>1. /\ PanelTypes /\ dispatch' = dispatch /\ subs' = Closed(S)
      /\ life' = [life EXCEPT ![p] = IF Quiescent(S) THEN "stopped" ELSE "retiring"]
      /\ life[p] \in {"recorded", "active", "retiring"}
      BY <1>0 DEF PanelInv, RetireOwner
<1>2. /\ S \in SUBSET DOMAIN subs /\ S \subseteq Listed
      /\ \A s \in Listed : subs[s].owner = p => s \in S
  <2>1. S \subseteq Listed /\ \A s \in Listed : subs[s].owner = p => s \in S
        BY Zenon, <1>0, <1>1, AffectedSubs
  <2> QED BY Zenon, <2>1 DEF Listed
<1>3. /\ OpenSubs' = OpenSubs \ S /\ DOMAIN subs' = DOMAIN subs
      /\ \A k \in DOMAIN subs : subs'[k].owner = subs[k].owner
      BY Zenon, <1>1, <1>2, ClosedSubs
<1>4. OpenOwners' \subseteq OpenOwners
  <2>1. OpenSubs' \subseteq OpenSubs
        BY Zenon, <1>3
  <2> QED BY Zenon, <1>3, <2>1, ClosingOwners
<1>5. BoundOwners' = BoundOwners
      BY Zenon, <1>1, <1>3, SameBound
<1>6. p \notin OpenOwners'
  <2>1. OpenSubs \subseteq Alive /\ OpenSubs \subseteq DOMAIN subs
        BY Zenon DEF OpenSubs, Alive
  <2>2. \A s \in OpenSubs \ S : subs[s].owner # p
        BY Zenon, <1>2, <2>1 DEF PanelInv, UnlistedIsQuiet
  <2> QED BY Zenon, <1>3, <2>1, <2>2 DEF OpenOwners
<1>7. CASE Quiescent(S)
  <2>1. \A q \in PanelPlugins : life'[q] = IF q = p THEN "stopped" ELSE life[q]
        BY <1>1, <1>7, LifeType
  <2>2. MappedOwners' = MappedOwners \ {p}
        BY <2>1 DEF MappedOwners
  <2>3. \A s \in DOMAIN subs : subs[s].owner = p => subs[s].inFlight = 0
        BY Zenon, <1>2, <1>7 DEF Quiescent, PanelInv, UnlistedIsQuiet
  <2>4. \A t \in GameThreads : p \notin BoundOwners[t]
        BY Zenon, <2>3, OutOfReach
  <2>5. MappedOwners' \subseteq MappedOwners
        /\ \A q \in MappedOwners \ MappedOwners' :
               q \notin OpenOwners' /\ \A t \in GameThreads : q \notin BoundOwners[t]
        BY Zenon, <1>6, <2>2, <2>4
  <2> QED BY Zenon, <1>1, <1>4, <1>5, <2>5, PanelCloses
<1>8. CASE ~Quiescent(S)
  <2>1. \A q \in PanelPlugins : life'[q] = IF q = p THEN "retiring" ELSE life[q]
        BY <1>1, <1>8, LifeType
  <2>2. MappedOwners' = MappedOwners
        BY <1>1, <2>1 DEF MappedOwners
  <2> QED BY Zenon, <1>1, <1>4, <1>5, <2>2, PanelCloses
<1> QED BY Zenon, <1>7, <1>8

(* The gate: a thread enters a callback only while it is open.              *)
LEMMA RegistryEnter ==
    ASSUME PanelInv, PanelTypes', NEW t \in GameThreads, EnterCallback(t)
    PROVE  PanelRegistry!RegistryNext \/ UNCHANGED PanelRegistry!registryVars
<1>0. PICK s, rest : s = Head(dispatch[t].left) /\ rest = Tail(dispatch[t].left)
      OBVIOUS
<1>1. /\ s \in DOMAIN subs /\ dispatch[t].now = 0 /\ dispatch[t].left # <<>>
      /\ \/ /\ s \in OpenSubs
            /\ subs' = [subs EXCEPT ![s].inFlight = @ + 1]
            /\ dispatch' = [dispatch EXCEPT ![t] = [left |-> rest, now |-> s]]
         \/ /\ s \notin OpenSubs /\ subs' = subs
            /\ dispatch' = [dispatch EXCEPT ![t] = [left |-> rest, now |-> 0]]
      BY Zenon, <1>0, EnterSplit
<1>2. PanelTypes /\ life' = life /\ MappedOwners' = MappedOwners
      BY DEF PanelInv, EnterCallback, MappedOwners
<1>3. rest \in Seq(Nat) /\ s \in Nat /\ 0 \in Nat /\ s # 0
  <2>1. rest \in Seq(Nat)
        BY Zenon, <1>0, <1>1, SnapshotTail
  <2> QED BY Zenon, <1>1, <1>2, <2>1, SubTypes
<1>4. CASE /\ s \in OpenSubs
           /\ subs' = [subs EXCEPT ![s].inFlight = @ + 1]
           /\ dispatch' = [dispatch EXCEPT ![t] = [left |-> rest, now |-> s]]
  <2>0. PICK n : n = subs[s].inFlight + 1
        OBVIOUS
  <2>1. n \in Nat
    <3>1. subs[s].inFlight \in Nat
          BY Zenon, <1>1, <1>2, SubTypes
    <3> QED BY <2>0, <3>1
  <2>2. subs' = [subs EXCEPT ![s].inFlight = n]
        BY Zenon, <1>4, <2>0
  <2>3. /\ OpenSubs' = OpenSubs
        /\ \A k \in DOMAIN subs : subs'[k].owner = subs[k].owner
        BY Zenon, <1>1, <1>2, <2>1, <2>2, CountedSubs
  <2>4. OpenSubs \subseteq DOMAIN subs
        BY Zenon DEF OpenSubs
  <2>5. OpenOwners' = OpenOwners
        BY Zenon, <2>3, <2>4 DEF OpenOwners
  <2>6. dispatch'[t].now = s /\ \A u \in GameThreads \ {t} : dispatch'[u] = dispatch[u]
        BY Zenon, <1>3, <1>4, DispatchType
  <2>7. PICK p : p = subs[s].owner
        OBVIOUS
  <2>8. p \in OpenOwners
    <3>1. p \in PanelPlugins
          BY Zenon, <1>1, <1>2, <2>7, SubTypes
    <3> QED BY Zenon, <1>4, <2>7, <3>1 DEF OpenOwners
  <2>9. BoundOwners[t] = {}
        BY Zenon, <1>1 DEF BoundOwners
  <2>10. BoundOwners' = [BoundOwners EXCEPT ![t] = {p}]
    <3>1. \A u \in GameThreads : dispatch[u].now # 0 => dispatch[u].now \in DOMAIN subs
          BY Zenon, <1>2 DEF PanelTypes
    <3>2. (IF dispatch'[t].now = 0 THEN {} ELSE {subs'[dispatch'[t].now].owner}) = {p}
          BY Zenon, <1>1, <1>3, <2>3, <2>6, <2>7
    <3>3. \A u \in GameThreads \ {t} :
              (IF dispatch'[u].now = 0 THEN {} ELSE {subs'[dispatch'[u].now].owner})
                = (IF dispatch[u].now = 0 THEN {} ELSE {subs[dispatch[u].now].owner})
          BY Zenon, <2>3, <2>6, <3>1
    <3> QED BY Zenon, <3>2, <3>3 DEF BoundOwners
  <2> QED BY Zenon, <1>2, <2>5, <2>8, <2>9, <2>10, PanelCalls
<1>5. CASE /\ subs' = subs
           /\ dispatch' = [dispatch EXCEPT ![t] = [left |-> rest, now |-> 0]]
  <2>1. dispatch'[t].now = 0 /\ \A u \in GameThreads \ {t} : dispatch'[u] = dispatch[u]
        BY Zenon, <1>3, <1>5, DispatchType
  <2>2. \A u \in GameThreads : dispatch'[u].now = dispatch[u].now
        BY Zenon, <1>1, <2>1
  <2>3. BoundOwners' = BoundOwners
        BY Zenon, <1>2, <1>5, <2>2, SameBound
  <2>4. OpenOwners' = OpenOwners
        BY Zenon, <1>5 DEF OpenOwners, OpenSubs
  <2> QED BY Zenon, <1>2, <2>3, <2>4, PanelStutters
<1> QED BY Zenon, <1>1, <1>4, <1>5

LEMMA RegistryReturn ==
    ASSUME PanelInv, PanelTypes', NEW t \in GameThreads, ReturnCallback(t)
    PROVE  PanelRegistry!RegistryNext
<1>0. PICK s, n : s = dispatch[t].now /\ n = subs[s].inFlight - 1
      BY Zenon
<1>1. /\ s # 0 /\ PanelTypes /\ MappedOwners' = MappedOwners
      /\ subs' = [subs EXCEPT ![s].inFlight = n]
      /\ dispatch' = [dispatch EXCEPT ![t].now = 0]
  <2>1. subs' = [subs EXCEPT ![s].inFlight = n]
        BY Zenon, <1>0 DEF ReturnCallback
  <2> QED BY <1>0, <2>1 DEF ReturnCallback, PanelInv, MappedOwners
<1>2. s \in DOMAIN subs
      BY Zenon, <1>0, <1>1 DEF PanelTypes
<1>3. n \in Nat
  <2>1. subs[s].inFlight = Cardinality(Inside(s)) /\ Inside(s) # {}
        BY Zenon, <1>0, <1>2 DEF PanelInv, CountsInFlight, Inside
  <2>2. subs[s].inFlight \in Nat /\ subs[s].inFlight # 0
        BY Zenon, <2>1, InsideFinite
  <2> QED BY <1>0, <2>2
<1>4. /\ OpenSubs' = OpenSubs
      /\ \A k \in DOMAIN subs : subs'[k].owner = subs[k].owner
      BY Zenon, <1>1, <1>2, <1>3, CountedSubs
<1>5. OpenOwners' = OpenOwners
  <2>1. OpenSubs \subseteq DOMAIN subs
        BY Zenon DEF OpenSubs
  <2> QED BY Zenon, <1>4, <2>1 DEF OpenOwners
<1>6. dispatch'[t].now = 0 /\ \A u \in GameThreads \ {t} : dispatch'[u] = dispatch[u]
  <2>1. dispatch \in [GameThreads -> [left : Seq(Nat), now : Nat]]
        BY Zenon, <1>1 DEF PanelTypes
  <2> QED BY <1>1, <2>1
<1>7. PICK p : p = subs[s].owner
      OBVIOUS
<1>8. p \in PanelPlugins
      BY Zenon, <1>1, <1>2, <1>7, SubTypes
<1>9. BoundOwners[t] = {p}
      BY Zenon, <1>0, <1>1, <1>7 DEF BoundOwners
<1>10. BoundOwners' = [BoundOwners EXCEPT ![t] = @ \ {p}]
  <2>1. \A u \in GameThreads : dispatch[u].now # 0 => dispatch[u].now \in DOMAIN subs
        BY Zenon, <1>1 DEF PanelTypes
  <2>2. \A u \in GameThreads \ {t} :
            (IF dispatch'[u].now = 0 THEN {} ELSE {subs'[dispatch'[u].now].owner})
              = (IF dispatch[u].now = 0 THEN {} ELSE {subs[dispatch[u].now].owner})
        BY Zenon, <1>4, <1>6, <2>1
  <2>3. (IF dispatch'[t].now = 0 THEN {} ELSE {subs'[dispatch'[t].now].owner}) = {}
        BY Zenon, <1>6
  <2>4. BoundOwners' = [BoundOwners EXCEPT ![t] = {}]
        BY Zenon, <2>2, <2>3 DEF BoundOwners
  <2>5. BoundOwners[t] \ {p} = {}
        BY Zenon, <1>9
  <2> QED BY Zenon, <2>4, <2>5
<1>11. p \in BoundOwners[t]
      BY Zenon, <1>9
<1> QED BY Zenon, <1>1, <1>5, <1>8, <1>10, <1>11, PanelReturns

(* A subscription is not open yet, a snapshot calls nobody, and a feed or a *)
(* plan order is none of the registry's.                                    *)
LEMMA RegistryStays ==
    ASSUME PanelInv, PanelTypes',
           \/ FeedPublish \/ Subscribe \/ FinishOk \/ SetPlanOrder \/ UNCHANGED panelVars
           \/ \E t \in GameThreads : DispatchRefresh(t)
    PROVE  UNCHANGED PanelRegistry!registryVars
<1>0. PanelTypes
      BY DEF PanelInv
<1>1. MappedOwners' = MappedOwners
  <2>1. CASE FinishOk
    <3>0. PICK p : p = initOf
          OBVIOUS
    <3>1. p \in PanelPlugins /\ life[p] = "init"
          BY Zenon, <1>0, <2>1, <3>0 DEF FinishOk, PanelInv, PanelTypes, InitIsInit
    <3>2. life' = [life EXCEPT ![p] = "recorded"]
          BY Zenon, <2>1, <3>0 DEF FinishOk
    <3>3. \A q \in PanelPlugins : life'[q] = IF q = p THEN "recorded" ELSE life[q]
          BY <1>0, <3>2, LifeType
    <3> QED BY <3>1, <3>3 DEF MappedOwners
  <2>2. CASE ~FinishOk
    <3>1. life' = life
          BY <2>2 DEF FeedPublish, Subscribe, SetPlanOrder, panelVars, DispatchRefresh
    <3> QED BY Zenon, <3>1 DEF MappedOwners
  <2> QED BY <2>1, <2>2
<1>2. /\ OpenSubs' = OpenSubs
      /\ \A k \in DOMAIN subs : subs'[k].owner = subs[k].owner
  <2>1. CASE Subscribe
        BY Zenon, <1>0, <2>1, AddedSub DEF Subscribe
  <2>2. CASE ~Subscribe
    <3>1. subs' = subs
          BY <2>2 DEF FeedPublish, FinishOk, SetPlanOrder, panelVars, DispatchRefresh
    <3> QED BY Zenon, <3>1 DEF OpenSubs
  <2> QED BY <2>1, <2>2
<1>3. OpenOwners' = OpenOwners
  <2>1. OpenSubs \subseteq DOMAIN subs
        BY Zenon DEF OpenSubs
  <2> QED BY Zenon, <1>2, <2>1 DEF OpenOwners
<1>4. \A u \in GameThreads : dispatch'[u].now = dispatch[u].now
  <2>1. ASSUME NEW t \in GameThreads, DispatchRefresh(t)
        PROVE  \A u \in GameThreads : dispatch'[u].now = dispatch[u].now
    <3>1. PICK order : dispatch' = [dispatch EXCEPT ![t].left = order]
          BY Zenon, <2>1 DEF DispatchRefresh
    <3>2. dispatch \in [GameThreads -> [left : Seq(Nat), now : Nat]]
          BY Zenon, <1>0 DEF PanelTypes
    <3> QED BY <3>1, <3>2
  <2>2. CASE ~\E t \in GameThreads : DispatchRefresh(t)
    <3>1. dispatch' = dispatch
          BY <2>2 DEF FeedPublish, Subscribe, FinishOk, SetPlanOrder, panelVars
    <3> QED BY Zenon, <3>1
  <2> QED BY <2>1, <2>2
<1>5. BoundOwners' = BoundOwners
      BY Zenon, <1>0, <1>2, <1>4, SameBound
<1> QED BY Zenon, <1>0, <1>1, <1>3, <1>5, PanelStutters

LEMMA PanelInitRegistry == PanelInit => PanelRegistry!RegistryInit
<1> SUFFICES ASSUME PanelInit PROVE PanelRegistry!RegistryInit
    OBVIOUS
<1>1. \A p \in PanelPlugins : life[p] = "out"
      BY DEF PanelInit
<1>2. DOMAIN subs = {}
  <2>1. DOMAIN subs = 1..Len(subs)
        BY Zenon, PanelInitInv, SubTypes DEF PanelInv
  <2>2. Len(subs) = 0
        BY DEF PanelInit
  <2> QED BY <2>1, <2>2
<1>3. \A t \in GameThreads : dispatch[t].now = 0
      BY DEF PanelInit
<1> QED BY Zenon, <1>1, <1>2, <1>3 DEF PanelRegistry!RegistryInit

LEMMA PanelNextRegistry ==
    PanelInv /\ [PanelNext]_panelVars => [PanelRegistry!RegistryNext]_(PanelRegistry!registryVars)
<1> SUFFICES ASSUME PanelInv, [PanelNext]_panelVars
             PROVE  PanelRegistry!RegistryNext \/ UNCHANGED PanelRegistry!registryVars
    OBVIOUS
<1>1. PanelTypes'
  <2>1. PanelInv'
        BY PanelNextInv
  <2> QED BY <2>1 DEF PanelInv
<1> QED BY Zenon, <1>1, RegistryBegin, RegistryActivate, RegistryRetire, RegistryFailed,
           RegistryUnsubscribe, RegistryEnter, RegistryReturn, RegistryStays
        DEF PanelNext

(* The squad panel keeps the promise of CallbackRegistry: for every set of  *)
(* plugins and threads, once the loader was told a plugin's callbacks are   *)
(* quiet and stops it, no thread is in one of them, nor ever enters one.    *)
THEOREM PanelRefinesRegistry == PanelSpec => PanelKeepsPromise
<1>1. PanelInit => PanelRegistry!RegistryInit
      BY PanelInitRegistry
<1>2. PanelInv /\ [PanelNext]_panelVars
        => [PanelRegistry!RegistryNext]_(PanelRegistry!registryVars)
      BY PanelNextRegistry
<1> QED
    BY PanelInvariance, <1>1, <1>2, PTL
    DEF PanelSpec, PanelKeepsPromise, PanelRegistry!RegistrySpec

(* A callback is entered only for an active owner and while a feed stands:  *)
(* what is open is of an active owner, and a list that was copied before    *)
(* the feed ended holds nothing but retired subscriptions after it.         *)
THEOREM PanelCallsAreOpen == PanelSpec => CallsAreOpen
<1> DEFINE A == \A t \in GameThreads :
                    dispatch[t].now = 0 /\ dispatch'[t].now # 0 =>
                        life[subs[dispatch'[t].now].owner] = "active" /\ feed.owner # ""
<1>1. PanelInv /\ [PanelNext]_panelVars => [A]_panelVars
  <2> SUFFICES ASSUME PanelInv, PanelNext, NEW t \in GameThreads,
                      dispatch[t].now = 0, dispatch'[t].now # 0
               PROVE  life[subs[dispatch'[t].now].owner] = "active" /\ feed.owner # ""
      BY Zenon DEF A
  <2>0. dispatch \in [GameThreads -> [left : Seq(Nat), now : Nat]]
        BY Zenon DEF PanelInv, PanelTypes
  <2>1. PICK u \in GameThreads : DispatchRefresh(u) \/ EnterCallback(u) \/ ReturnCallback(u)
    <3>1. dispatch' # dispatch
          BY Zenon
    <3> QED BY Zenon, <3>1 DEF PanelNext, PanelBegin, ActivateOwner, RetireOwner, FeedPublish,
                               Subscribe, FinishOk, FinishFailed, Unsubscribe, SetPlanOrder
  <2>2. ~DispatchRefresh(u)
    <3> SUFFICES ASSUME DispatchRefresh(u) PROVE FALSE
        OBVIOUS
    <3>1. PICK order : dispatch' = [dispatch EXCEPT ![u].left = order]
          BY Zenon DEF DispatchRefresh
    <3> QED BY <2>0, <3>1
  <2>3. ~ReturnCallback(u)
    <3> SUFFICES ASSUME ReturnCallback(u) PROVE FALSE
        OBVIOUS
    <3>1. dispatch' = [dispatch EXCEPT ![u].now = 0]
          BY DEF ReturnCallback
    <3> QED BY <2>0, <3>1
  <2>4. PICK s, rest : s = Head(dispatch[u].left) /\ rest = Tail(dispatch[u].left)
        OBVIOUS
  <2>5. /\ dispatch[u].left # <<>> /\ s \in DOMAIN subs
        /\ \/ /\ s \in OpenSubs
              /\ dispatch' = [dispatch EXCEPT ![u] = [left |-> rest, now |-> s]]
           \/ dispatch' = [dispatch EXCEPT ![u] = [left |-> rest, now |-> 0]]
        BY Zenon, <2>1, <2>2, <2>3, <2>4, EnterSplit
  <2>6. s \in OpenSubs /\ dispatch'[t].now = s
        BY <2>0, <2>5
  <2>7. life[subs[s].owner] = "active"
        BY Zenon, <2>6 DEF PanelInv, OpenIsActive
  <2>8. feed.owner # ""
    <3>1. s \in Alive
          BY Zenon, <2>6 DEF OpenSubs, Alive
    <3> QED BY Zenon, <2>4, <2>5, <3>1, SnapshotTail
  <2> QED BY Zenon, <2>6, <2>7, <2>8
<1> QED BY PanelInvariance, <1>1, PTL DEF PanelSpec, CallsAreOpen
=============================================================================
