------------------------------ MODULE Threads ------------------------------
(***************************************************************************)
(* Suspending every other thread (threads.rs). Threads are created and     *)
(* exit while they are enumerated; any call to the system may fail. The    *)
(* system lists threads in the order of their creation and skips the ones  *)
(* that are gone (NtGetNextThread, external).                              *)
(***************************************************************************)
EXTENDS Integers, FiniteSets

CONSTANTS
    MaxThreads,    \* threads ever created, the caller among them (a bound)
    FreezeLimit,         \* LIMIT
    MaxFreezes     \* safe points taken (a bound)

ASSUME ThreadsAssumption ==
    MaxThreads \in Nat \ {0} /\ FreezeLimit \in Nat /\ MaxFreezes \in Nat

Caller == 1
ThreadIds == 1..MaxThreads

VARIABLES
    thread,     \* each thread's state
    phase,      \* where `freeze' is
    cursor,     \* the thread of the handle it walks with, or 0
    suspended,  \* Frozen's ids: handles it retained, in any order
    countBefore,     \* how many it had at the start of this pass
    handles,    \* open handles per thread
    freezes

threadsVars == <<thread, phase, cursor, suspended, countBefore, handles, freezes>>

Phases == {"idle", "next", "visit", "control", "closure", "drop"}

ThreadsTypeOK ==
    /\ thread \in [ThreadIds -> {"none", "running", "stopped", "exiting", "gone"}]
    /\ phase \in Phases /\ cursor \in 0..MaxThreads
    /\ suspended \subseteq ThreadIds \ {Caller} /\ countBefore \in 0..MaxThreads
    /\ handles \in [ThreadIds -> 0..2] /\ freezes \in 0..MaxFreezes

ThreadsInit ==
    /\ thread = [t \in ThreadIds |-> IF t = Caller THEN "running" ELSE "none"]
    /\ phase = "idle" /\ cursor = 0 /\ suspended = {} /\ countBefore = 0
    /\ handles = [t \in ThreadIds |-> 0]
    /\ freezes = 0

----------------------------------------------------------------------------
(* The other threads. The caller creates none while it freezes them.        *)

Create ==
    /\ \E t \in ThreadIds : thread[t] = "running" /\ (t = Caller => phase = "idle")
    /\ \E t \in ThreadIds :
          /\ thread[t] = "none" /\ \A u \in 1..(t - 1) : thread[u] # "none"
          /\ thread' = [thread EXCEPT ![t] = "running"]
    /\ UNCHANGED <<phase, cursor, suspended, countBefore, handles, freezes>>

Exit(t) ==
    /\ t # Caller
    /\ thread[t] \in {"running", "exiting"}
    /\ thread' = [thread EXCEPT
                     ![t] = IF @ = "running" THEN "exiting" ELSE "gone"]
    /\ UNCHANGED <<phase, cursor, suspended, countBefore, handles, freezes>>

----------------------------------------------------------------------------
(* freeze *)

StartFreeze ==
    /\ phase = "idle" /\ freezes < MaxFreezes
    /\ freezes' = freezes + 1
    /\ phase' = "next" /\ cursor' = 0 /\ suspended' = {} /\ countBefore' = 0
    /\ UNCHANGED <<thread, handles>>

Later(t) == {u \in ThreadIds : u > t /\ thread[u] \notin {"none", "gone"}}
Opened(hs, t) == [hs EXCEPT ![t] = @ + 1]
HandleClosed(hs, t) == IF t = 0 THEN hs ELSE [hs EXCEPT ![t] = @ - 1]

(* Mutant: after a pass that suspended threads no other follows only if     *)
(* there were none at all.                                                  *)
PassEndsAgain == IF suspended = {} THEN "closure" ELSE "next"

(* The end of a pass: nothing new was suspended, or another pass follows.   *)
PassEnds == IF Cardinality(suspended) = countBefore THEN "closure" ELSE "next"

(* The next thread, and the walking handle is closed. *)
NextThread ==
    /\ phase = "next"
    /\ \/ \E n \in Later(cursor) :
             /\ \A u \in Later(cursor) : n <= u
             /\ handles' = Opened(HandleClosed(handles, cursor), n)
             /\ cursor' = n
             /\ phase' = "visit"
       \/ /\ Later(cursor) = {}
          /\ handles' = HandleClosed(handles, cursor)
          /\ cursor' = 0
          /\ phase' = PassEnds
       \/ /\ handles' = HandleClosed(handles, cursor)    \* enumerating failed
          /\ cursor' = 0
          /\ phase' = "drop"
    /\ countBefore' = IF phase' = "next" THEN Cardinality(suspended) ELSE countBefore
    /\ UNCHANGED <<thread, suspended, freezes>>

(* Mutant: the handle stays open when the visit fails. *)
FailLeaking ==
    /\ phase' = "drop" /\ cursor' = 0
    /\ UNCHANGED <<thread, suspended, handles>>

(* A failed visit closes the handle it did not retain. *)
FreezeFails ==
    /\ phase' = "drop" /\ cursor' = 0
    /\ handles' = HandleClosed(handles, cursor)
    /\ UNCHANGED <<thread, suspended>>

Skip == phase' = "next" /\ UNCHANGED <<thread, cursor, suspended, handles>>

(* Only a thread that has begun to exit may be skipped. *)
Skips == thread[cursor] \in {"exiting", "gone"}

(* One thread: the caller and those already stopped are passed over, the    *)
(* identification or the suspension may fail.                               *)
Visit ==
    /\ phase = "visit"
    /\ \/ FreezeFails                              \* identifying it failed
       \/ (cursor = Caller \/ cursor \in suspended) /\ Skip
       \/ /\ cursor # Caller /\ cursor \notin suspended
          /\ \/ Cardinality(suspended) = FreezeLimit /\ FreezeFails
             \/ /\ Cardinality(suspended) < FreezeLimit
                /\ \/ /\ thread[cursor] = "running"
                      /\ thread' = [thread EXCEPT ![cursor] = "stopped"]
                      /\ suspended' = suspended \cup {cursor}
                      /\ phase' = "control"
                      /\ UNCHANGED <<cursor, handles>>
                   \/ Skips /\ Skip         \* suspending failed
                   \/ ~Skips /\ FreezeFails
    /\ UNCHANGED <<countBefore, freezes>>

(* Its context is read and the enumeration starts again; the handle stays.  *)
Control ==
    /\ phase = "control"
    /\ \/ phase' = "next" /\ countBefore' = Cardinality(suspended)
       \/ phase' = "drop" /\ UNCHANGED countBefore    \* reading it failed
    /\ cursor' = 0
    /\ UNCHANGED <<thread, suspended, handles, freezes>>

RunClosure ==
    /\ phase = "closure"
    /\ phase' = "drop"
    /\ UNCHANGED <<thread, cursor, suspended, countBefore, handles, freezes>>

(* Drop for Frozen: all are resumed, then their handles closed.             *)
DropFrozen ==
    /\ phase = "drop"
    /\ thread' = [t \in ThreadIds |-> IF t \in suspended THEN "running" ELSE thread[t]]
    /\ handles' = [t \in ThreadIds |->
                      IF t \in suspended THEN handles[t] - 1 ELSE handles[t]]
    /\ suspended' = {}
    /\ phase' = "idle"
    /\ UNCHANGED <<cursor, countBefore, freezes>>

FreezeStep == NextThread \/ Visit \/ Control \/ RunClosure \/ DropFrozen

ThreadsNext ==
    \/ Create \/ \E t \in ThreadIds : Exit(t)
    \/ StartFreeze \/ FreezeStep

ThreadsSpec ==
    ThreadsInit /\ [][ThreadsNext]_threadsVars /\ WF_threadsVars(FreezeStep)

----------------------------------------------------------------------------
(* While the closure patches code, no other thread runs, however threads    *)
(* came and went during the enumeration.                                    *)
WorldStopped ==
    phase = "closure" => \A t \in ThreadIds \ {Caller} : thread[t] # "running"

(* After a safe point, taken or refused, no thread stays suspended and      *)
(* every handle was closed once.                                            *)
NothingLeftFrozen ==
    phase = "idle" => \A t \in ThreadIds : thread[t] # "stopped" /\ handles[t] = 0

(* Every attempt ends, taken or refused. *)
FreezeEnds == phase = "next" ~> phase = "idle"

(* Code is patched only while every other thread stands, and none is left   *)
(* standing.                                                                *)
FreezeSound == ThreadsTypeOK /\ WorldStopped /\ NothingLeftFrozen
=============================================================================
