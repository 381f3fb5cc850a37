----------------------------- MODULE TraceSites -----------------------------
(***************************************************************************)
(* The loader's tracing (trace.rs, trace_capture.rs): hardware breakpoints *)
(* in four slots that the `trace` service, which logs its hits, and the    *)
(* `trace capture` service, which keeps them for a consumer, share.        *)
(*                                                                         *)
(* The exception handler runs on whichever game thread hits a breakpoint   *)
(* and may neither allocate nor wait, so it works on atomics alone, next   *)
(* to plugin threads that register and release sites under two locks.  A   *)
(* step of this module is one atomic access, or a group of them that no    *)
(* other thread can tell apart.                                            *)
(***************************************************************************)
EXTENDS Naturals, Sequences, FiniteSets, SequencesExt

CONSTANTS
    DebugSlots,          \* the debug registers, 1..n
    Addresses,      \* the code addresses that are traced
    TracedThreads,    \* the threads that run into breakpoints
    RetiredSlots,   \* how many released addresses stay handled
    Limit,          \* the hits a registration asks for
    QueueLength,    \* the events a capture holds
    MaxHits,        \* bound: exceptions in a behaviour
    MaxAdds,        \* bound: registrations and stops of the trace service, each
    MaxCaptures     \* bound: registrations of the capture service

ASSUME SlotsAreRanked == DebugSlots = 1..Cardinality(DebugSlots) /\ Cardinality(DebugSlots) \in Nat \ {0}

Tracer == "tracer"      \* a plugin thread in the trace service
Capturer == "capturer"  \* a plugin thread in the capture service
Workers == TracedThreads \cup {Tracer, Capturer}
NoAddress == "none"
Nobody == "nobody"

VARIABLES
    slotSite,           \* SITES: the address a slot traces
    claimed,        \* CLAIMED
    captureSlot,    \* CAPTURE_SLOTS
    captureAddress, \* CAPTURE_ADDRESSES
    generation,     \* CAPTURE_GENERATIONS: [id, retiring]
    budget,         \* CAPTURE_GENERATION_LIMITS: [id, limit]
    hits,           \* HITS and LIMITS of the trace service, as the hits counted
    counted,        \* COUNTERS.hits: [id, count]
    captures,       \* State.sites: [id, address, len] of each slot, or id 0
    retiredSlots,        \* RETIRED, newest last
    stateLock,      \* who holds the capture service's STATE
    registration,   \* who holds REGISTRATION
    captureSession,        \* whether the capture plugin's session is open
    registers,          \* the addresses in each game thread's debug registers
    stepOf, local,      \* where each thread is, and what it has read
    owned,          \* ghost: the address each generation was registered for
    spentBounds            \* bounds: [hits, adds, stops, captures] so far

traceVars == <<slotSite, claimed, captureSlot, captureAddress, generation, budget, hits, counted, captures,
               retiredSlots, stateLock, registration, captureSession, registers, stepOf, local, owned, spentBounds>>

slotVars == <<slotSite, claimed, captureSlot, captureAddress, generation, budget, hits, counted, captures>>
lockVars == <<stateLock, registration, captureSession>>

NoGeneration == [id |-> 0, retiring |-> FALSE]
NoCapture == [id |-> 0, address |-> NoAddress, len |-> 0]

TraceInit ==
    /\ slotSite = [s \in DebugSlots |-> NoAddress]
    /\ claimed = [s \in DebugSlots |-> FALSE]
    /\ captureSlot = [s \in DebugSlots |-> FALSE]
    /\ captureAddress = [s \in DebugSlots |-> NoAddress]
    /\ generation = [s \in DebugSlots |-> NoGeneration]
    /\ budget = [s \in DebugSlots |-> [id |-> 0, limit |-> 0]]
    /\ hits = [s \in DebugSlots |-> 0]
    /\ counted = [s \in DebugSlots |-> [id |-> 0, count |-> 0]]
    /\ captures = [s \in DebugSlots |-> NoCapture]
    /\ retiredSlots = << >>
    /\ stateLock = Nobody /\ registration = Nobody
    /\ captureSession = FALSE
    /\ registers = [t \in TracedThreads |-> {}]
    /\ stepOf = [t \in Workers |-> "idle"]
    /\ local = [t \in Workers |-> [address |-> NoAddress, slot |-> 1, id |-> 0, hit |-> 0]]
    /\ owned = << >>
    /\ spentBounds = [hits |-> 0, adds |-> 0, stops |-> 0, captures |-> 0]

Goto(t, where) == stepOf' = [stepOf EXCEPT ![t] = where]
AtStep(t, where) == stepOf[t] = where
MySlot(t) == local[t].slot
A(t) == local[t].address
RetireSite(address) ==
    retiredSlots' = IF Len(retiredSlots) = RetiredSlots THEN Append(Tail(retiredSlots), address) ELSE Append(retiredSlots, address)

(***************************************************************************)
(* The exception handler, on a game thread.                                *)
(***************************************************************************)
Hit(t) ==
    /\ AtStep(t, "idle") /\ spentBounds.hits < MaxHits
    /\ \E a \in registers[t] : local' = [local EXCEPT ![t].address = a]
    /\ Goto(t, "match")
    /\ spentBounds' = [spentBounds EXCEPT !.hits = @ + 1]
    /\ UNCHANGED <<slotVars, retiredSlots, lockVars, registers, owned>>

(* The slot that traces the address; a capture's slot is told by its flag. *)
Match(t) ==
    /\ AtStep(t, "match")
    /\ IF \E s \in DebugSlots : slotSite[s] = A(t)
       THEN /\ local' = [local EXCEPT ![t].slot = CHOOSE s \in DebugSlots : slotSite[s] = A(t)]
            /\ Goto(t, "route")
       ELSE Goto(t, "retired") /\ UNCHANGED local
    /\ UNCHANGED <<slotVars, retiredSlots, lockVars, registers, owned, spentBounds>>

(* A released address is still the tracer's; any other single step is not.  *)
MatchRetired(t) ==
    /\ AtStep(t, "retired")
    /\ Goto(t, IF A(t) \in ToSet(retiredSlots) THEN "idle" ELSE "unhandled")
    /\ UNCHANGED <<slotVars, retiredSlots, lockVars, registers, local, owned, spentBounds>>

Route(t) ==
    /\ AtStep(t, "route")
    /\ Goto(t, IF captureSlot[MySlot(t)] THEN "generation" ELSE "count")
    /\ UNCHANGED <<slotVars, retiredSlots, lockVars, registers, local, owned, spentBounds>>

(* A hit of the trace service: count it, report it, release at the limit.   *)
CountHit(t) ==
    /\ AtStep(t, "count")
    /\ hits' = [hits EXCEPT ![MySlot(t)] = @ + 1]
    /\ Goto(t, IF hits[MySlot(t)] + 1 >= Limit THEN "claim" ELSE "idle")
    /\ UNCHANGED <<slotSite, claimed, captureSlot, captureAddress, generation, budget, counted, captures,
                   retiredSlots, lockVars, registers, local, owned, spentBounds>>

(* A hit of a capture: of the generation the slot has now.                  *)
ReadGeneration(t) ==
    /\ AtStep(t, "generation")
    /\ local' = [local EXCEPT ![t].id = IF generation[MySlot(t)].retiring THEN 0 ELSE generation[MySlot(t)].id]
    /\ Goto(t, "check")
    /\ UNCHANGED <<slotVars, retiredSlots, lockVars, registers, owned, spentBounds>>

CheckGeneration(t) ==
    LET s == MySlot(t)
    IN  /\ AtStep(t, "check")
        /\ Goto(t, IF local[t].id = 0 \/ generation[s] # [id |-> local[t].id, retiring |-> FALSE]
                      \/ slotSite[s] # A(t) \/ ~captureSlot[s]
                   THEN "idle" ELSE "budget")
        /\ UNCHANGED <<slotVars, retiredSlots, lockVars, registers, local, owned, spentBounds>>

(* The limit carries its generation, and so does the count: a reused slot's *)
(* budget is never charged for an older exception.                          *)
ReadBudget(t) ==
    /\ AtStep(t, "budget")
    /\ Goto(t, IF budget[MySlot(t)].id # local[t].id THEN "idle" ELSE "increment")
    /\ UNCHANGED <<slotVars, retiredSlots, lockVars, registers, local, owned, spentBounds>>

OwnCount(s, id) == counted[s].id = id /\ counted[s].count < Limit

Increment(t) ==
    LET s == MySlot(t)
        hit == counted[s].count + 1
    IN  /\ AtStep(t, "increment")
        /\ IF ~OwnCount(s, local[t].id)
           THEN Goto(t, "idle") /\ UNCHANGED <<counted, local>>
           ELSE /\ counted' = [counted EXCEPT ![s].count = hit]
                /\ local' = [local EXCEPT ![t].hit = hit]
                /\ Goto(t, IF hit = Limit THEN "exhaust" ELSE "store")
        /\ UNCHANGED <<slotSite, claimed, captureSlot, captureAddress, generation, budget, hits, captures,
                       retiredSlots, lockVars, registers, owned, spentBounds>>

Unmarked(id) == [id |-> id, retiring |-> FALSE]

(* retire_capture_site: the site goes, the queue and the slot stay.         *)
Exhaust(t) ==
    LET s == MySlot(t)
        own == [id |-> local[t].id, retiring |-> FALSE]
    IN  \/ /\ AtStep(t, "exhaust")
           /\ IF generation[s] = own
              THEN generation' = [generation EXCEPT ![s].retiring = TRUE] /\ Goto(t, "exhaust site")
              ELSE Goto(t, "store") /\ UNCHANGED generation
           /\ UNCHANGED <<slotSite, retiredSlots>>
        \/ /\ AtStep(t, "exhaust site")
           /\ IF slotSite[s] = A(t)
              THEN slotSite' = [slotSite EXCEPT ![s] = NoAddress] /\ Goto(t, "exhaust retire") /\ UNCHANGED generation
              ELSE generation' = [generation EXCEPT ![s] = own] /\ Goto(t, "store") /\ UNCHANGED slotSite
           /\ UNCHANGED retiredSlots
        \/ /\ AtStep(t, "exhaust retire")
           /\ RetireSite(A(t)) /\ Goto(t, "exhaust done")
           /\ UNCHANGED <<slotSite, generation>>
        \/ /\ AtStep(t, "exhaust done")
           /\ generation' = [generation EXCEPT ![s] = Unmarked(local[t].id)] /\ Goto(t, "store")
           /\ UNCHANGED <<slotSite, retiredSlots>>

ExhaustStep(t) ==
    /\ Exhaust(t)
    /\ UNCHANGED <<claimed, captureSlot, captureAddress, budget, hits, counted, captures,
                   lockVars, registers, local, owned, spentBounds>>

(* The event itself needs STATE: a lock that is taken drops it, and so does *)
(* a full queue.                                                            *)
TryLock(t) ==
    /\ AtStep(t, "store")
    /\ IF stateLock = Nobody THEN stateLock' = t /\ Goto(t, "write") ELSE Goto(t, "idle") /\ UNCHANGED stateLock
    /\ UNCHANGED <<slotVars, retiredSlots, registration, captureSession, registers, local, owned, spentBounds>>

WriteEvent(t) ==
    LET s == MySlot(t)
    IN  /\ AtStep(t, "write")
        /\ captures' = IF captures[s].id = local[t].id /\ captures[s].address = A(t) /\ captures[s].len < QueueLength
                       THEN [captures EXCEPT ![s].len = @ + 1] ELSE captures
        /\ stateLock' = Nobody /\ Goto(t, "idle")
        /\ UNCHANGED <<slotSite, claimed, captureSlot, captureAddress, generation, budget, hits, counted,
                       retiredSlots, registration, captureSession, registers, local, owned, spentBounds>>

(***************************************************************************)
(* release_slot: by a handler at the limit, and by the trace service.      *)
(***************************************************************************)
ClaimZero(s) == generation[s] = NoGeneration

ReleaseEnds(t, done) == Goto(t, IF t = Tracer THEN IF done THEN "stopped" ELSE "next slot" ELSE "idle")

ReleaseSlot(t) ==
    LET s == MySlot(t)
    IN  \/ /\ AtStep(t, "claim")
           /\ IF ClaimZero(s)
              THEN generation' = [generation EXCEPT ![s].retiring = TRUE] /\ Goto(t, "clear site")
              ELSE ReleaseEnds(t, FALSE) /\ UNCHANGED generation
           /\ UNCHANGED <<slotSite, claimed, captureSlot, captureAddress, budget, retiredSlots>>
        \/ /\ AtStep(t, "clear site")
           /\ IF slotSite[s] = A(t)
              THEN slotSite' = [slotSite EXCEPT ![s] = NoAddress] /\ Goto(t, "retire") /\ UNCHANGED generation
              ELSE /\ generation' = IF generation[s] = [id |-> 0, retiring |-> TRUE]
                                    THEN [generation EXCEPT ![s] = NoGeneration] ELSE generation
                   /\ ReleaseEnds(t, FALSE) /\ UNCHANGED slotSite
           /\ UNCHANGED <<claimed, captureSlot, captureAddress, budget, retiredSlots>>
        \/ /\ AtStep(t, "retire")
           /\ RetireSite(A(t)) /\ Goto(t, "forget")
           /\ UNCHANGED <<slotSite, claimed, captureSlot, captureAddress, generation, budget>>
        \/ /\ AtStep(t, "forget")
           /\ captureSlot' = [captureSlot EXCEPT ![s] = FALSE]
           /\ captureAddress' = [captureAddress EXCEPT ![s] = NoAddress]
           /\ Goto(t, "forget generation")
           /\ UNCHANGED <<slotSite, claimed, generation, budget, retiredSlots>>
        \/ /\ AtStep(t, "forget generation")
           /\ generation' = [generation EXCEPT ![s] = NoGeneration]
           /\ budget' = [budget EXCEPT ![s] = [id |-> 0, limit |-> 0]]
           /\ Goto(t, "unclaim")
           /\ UNCHANGED <<slotSite, claimed, captureSlot, captureAddress, retiredSlots>>
        \/ /\ AtStep(t, "unclaim")
           /\ claimed' = [claimed EXCEPT ![s] = FALSE] /\ ReleaseEnds(t, TRUE)
           /\ UNCHANGED <<slotSite, captureSlot, captureAddress, generation, budget, retiredSlots>>

ReleaseStep(t) ==
    /\ ReleaseSlot(t)
    /\ UNCHANGED <<hits, counted, captures, lockVars, registers, local, owned, spentBounds>>

(***************************************************************************)
(* The trace service, on a plugin thread: add and release.                 *)
(***************************************************************************)
Traced(address) == \E s \in DebugSlots : slotSite[s] = address \/ captureAddress[s] = address
FreeSlots == {s \in DebugSlots : ~claimed[s]}
FirstFree == CHOOSE s \in FreeSlots : \A other \in FreeSlots : s <= other
ArmAll(sites) == registers' = [t \in TracedThreads |-> {sites[s] : s \in DebugSlots} \ {NoAddress}]

Add(address) ==
    /\ AtStep(Tracer, "idle") /\ registration = Nobody /\ spentBounds.adds < MaxAdds
    /\ spentBounds' = [spentBounds EXCEPT !.adds = @ + 1]
    /\ IF Traced(address) \/ FreeSlots = {}
       THEN UNCHANGED <<claimed, hits, registration, stepOf, local>>
       ELSE /\ claimed' = [claimed EXCEPT ![FirstFree] = TRUE]
            /\ hits' = [hits EXCEPT ![FirstFree] = 0]
            /\ registration' = Tracer
            /\ local' = [local EXCEPT ![Tracer] = [@ EXCEPT !.address = address, !.slot = FirstFree]]
            /\ Goto(Tracer, "publish")
    /\ UNCHANGED <<slotSite, captureSlot, captureAddress, generation, budget, counted, captures, retiredSlots,
                   stateLock, captureSession, registers, owned>>

PublishSlot ==
    /\ AtStep(Tracer, "publish")
    /\ slotSite' = [slotSite EXCEPT ![MySlot(Tracer)] = A(Tracer)]
    /\ ArmAll(slotSite')
    /\ registration' = Nobody /\ Goto(Tracer, "idle")
    /\ UNCHANGED <<claimed, captureSlot, captureAddress, generation, budget, hits, counted, captures,
                   retiredSlots, stateLock, captureSession, local, owned, spentBounds>>

StopSite(address) ==
    /\ AtStep(Tracer, "idle") /\ registration = Nobody /\ Traced(address) /\ spentBounds.stops < MaxAdds
    /\ spentBounds' = [spentBounds EXCEPT !.stops = @ + 1]
    /\ registration' = Tracer
    /\ local' = [local EXCEPT ![Tracer] = [@ EXCEPT !.address = address, !.slot = 1]]
    /\ Goto(Tracer, "stop slot")
    /\ UNCHANGED <<slotVars, retiredSlots, stateLock, captureSession, registers, owned>>

(* The first slot that is no capture's and whose release succeeds.          *)
StopSlot ==
    \/ /\ AtStep(Tracer, "stop slot")
       /\ Goto(Tracer, IF captureSlot[MySlot(Tracer)] THEN "next slot" ELSE "claim")
       /\ UNCHANGED <<registration, local>>
    \/ /\ AtStep(Tracer, "next slot") /\ MySlot(Tracer) + 1 \in DebugSlots
       /\ local' = [local EXCEPT ![Tracer].slot = @ + 1] /\ Goto(Tracer, "stop slot")
       /\ UNCHANGED registration
    \/ /\ AtStep(Tracer, "stopped") \/ (AtStep(Tracer, "next slot") /\ MySlot(Tracer) + 1 \notin DebugSlots)
       /\ registration' = Nobody /\ Goto(Tracer, "idle")
       /\ UNCHANGED local

StopStep == StopSlot /\ UNCHANGED <<slotVars, retiredSlots, stateLock, captureSession, registers, owned, spentBounds>>

(* The helper sets every thread's debug registers again; a thread may get   *)
(* what the slots held when it was read, before the thread was suspended.   *)
Arm(t) ==
    /\ \E stale \in {slotSite} \cup {[slotSite EXCEPT ![s] = retiredSlots[Len(retiredSlots)]] :
                                    s \in IF retiredSlots = << >> THEN {} ELSE DebugSlots} :
            registers' = [registers EXCEPT ![t] = {stale[s] : s \in DebugSlots} \ {NoAddress}]
    /\ UNCHANGED <<slotVars, retiredSlots, lockVars, stepOf, local, owned, spentBounds>>

(***************************************************************************)
(* The capture service, on a plugin thread.                                *)
(***************************************************************************)
OpenSession ==
    /\ AtStep(Capturer, "idle") /\ stateLock = Nobody /\ ~captureSession
    /\ captureSession' = TRUE
    /\ UNCHANGED <<slotVars, retiredSlots, stateLock, registration, registers, stepOf, local, owned, spentBounds>>

StartCapture(address) ==
    /\ AtStep(Capturer, "idle") /\ stateLock = Nobody /\ captureSession /\ spentBounds.captures < MaxCaptures
    /\ spentBounds' = [spentBounds EXCEPT !.captures = @ + 1]
    /\ owned' = Append(owned, address)
    /\ local' = [local EXCEPT ![Capturer] = [@ EXCEPT !.address = address, !.id = Len(owned) + 1]]
    /\ stateLock' = Capturer /\ Goto(Capturer, "register")
    /\ UNCHANGED <<slotVars, retiredSlots, registration, captureSession, registers>>

Register ==
    /\ AtStep(Capturer, "register") /\ registration = Nobody
    /\ IF Traced(A(Capturer)) \/ FreeSlots = {}
       THEN stateLock' = Nobody /\ Goto(Capturer, "idle") /\ UNCHANGED <<claimed, registration, local>>
       ELSE /\ claimed' = [claimed EXCEPT ![FirstFree] = TRUE]
            /\ registration' = Capturer
            /\ local' = [local EXCEPT ![Capturer].slot = FirstFree]
            /\ Goto(Capturer, "reserve") /\ UNCHANGED stateLock
    /\ UNCHANGED <<slotSite, captureSlot, captureAddress, generation, budget, hits, counted, captures,
                   retiredSlots, captureSession, registers, owned, spentBounds>>

(* A delayed release of the trace service may own the marker: wait for it.  *)
ReserveSlot ==
    /\ AtStep(Capturer, "reserve") /\ generation[MySlot(Capturer)] = NoGeneration
    /\ generation' = [generation EXCEPT ![MySlot(Capturer)] = [id |-> local[Capturer].id, retiring |-> FALSE]]
    /\ Goto(Capturer, "prepare")
    /\ UNCHANGED <<slotSite, claimed, captureSlot, captureAddress, budget, hits, counted, captures,
                   retiredSlots, lockVars, registers, local, owned, spentBounds>>

PrepareSite ==
    LET s == MySlot(Capturer)
        id == local[Capturer].id
    IN  /\ AtStep(Capturer, "prepare")
        /\ counted' = [counted EXCEPT ![s] = [id |-> id, count |-> 0]]
        /\ captures' = [captures EXCEPT ![s] = [id |-> id, address |-> A(Capturer), len |-> 0]]
        /\ budget' = [budget EXCEPT ![s] = [id |-> id, limit |-> Limit]]
        /\ captureAddress' = [captureAddress EXCEPT ![s] = A(Capturer)]
        /\ Goto(Capturer, "flag")
        /\ UNCHANGED <<slotSite, claimed, captureSlot, generation, hits, retiredSlots, lockVars, registers, local, owned, spentBounds>>

Flag ==
    /\ AtStep(Capturer, "flag")
    /\ captureSlot' = [captureSlot EXCEPT ![MySlot(Capturer)] = TRUE]
    /\ Goto(Capturer, "go live")
    /\ UNCHANGED <<slotSite, claimed, captureAddress, generation, budget, hits, counted, captures,
                   retiredSlots, lockVars, registers, local, owned, spentBounds>>

GoLive ==
    /\ AtStep(Capturer, "go live")
    /\ slotSite' = [slotSite EXCEPT ![MySlot(Capturer)] = A(Capturer)]
    /\ ArmAll(slotSite')
    /\ stateLock' = Nobody /\ registration' = Nobody /\ Goto(Capturer, "idle")
    /\ UNCHANGED <<claimed, captureSlot, captureAddress, generation, budget, hits, counted, captures,
                   retiredSlots, captureSession, local, owned, spentBounds>>

Poll(s) ==
    /\ AtStep(Capturer, "idle") /\ stateLock = Nobody /\ captures[s].len > 0
    /\ captures' = [captures EXCEPT ![s].len = 0]
    /\ UNCHANGED <<slotSite, claimed, captureSlot, captureAddress, generation, budget, hits, counted,
                   retiredSlots, lockVars, registers, stepOf, local, owned, spentBounds>>

(* Stopping one capture, or closing the session and with it all of them.    *)
EndCapture(s, closing) ==
    /\ AtStep(Capturer, "idle") /\ stateLock = Nobody /\ captureSession
    /\ IF closing THEN captureSession' = FALSE ELSE captures[s].id # 0 /\ UNCHANGED captureSession
    /\ stateLock' = Capturer
    /\ local' = [local EXCEPT ![Capturer].slot = s]
    /\ Goto(Capturer, IF captures[s].id = 0 THEN "end next" ELSE "end")
    /\ UNCHANGED <<slotVars, retiredSlots, registration, registers, owned, spentBounds>>

(* release_capture_slot waits for a handler that is retiring the site.      *)
MayEnd(s) == ~generation[s].retiring

ReleaseCapture ==
    LET s == MySlot(Capturer)
    IN  \/ /\ AtStep(Capturer, "end") /\ registration = Nobody
           /\ registration' = Capturer /\ Goto(Capturer, "end mark")
           /\ UNCHANGED <<slotVars, retiredSlots>>
        \/ /\ AtStep(Capturer, "end mark") /\ MayEnd(s)
           /\ IF generation[s] = [id |-> captures[s].id, retiring |-> FALSE]
              THEN generation' = [generation EXCEPT ![s].retiring = TRUE] /\ Goto(Capturer, "end site")
                   /\ UNCHANGED registration
              ELSE registration' = Nobody /\ Goto(Capturer, "end next") /\ UNCHANGED generation
           /\ UNCHANGED <<slotSite, claimed, captureSlot, captureAddress, budget, hits, counted, captures, retiredSlots>>
        \/ /\ AtStep(Capturer, "end site")
           /\ IF slotSite[s] = captures[s].address
              THEN slotSite' = [slotSite EXCEPT ![s] = NoAddress] /\ Goto(Capturer, "end retire")
              ELSE Goto(Capturer, "end forget") /\ UNCHANGED slotSite
           /\ UNCHANGED <<claimed, captureSlot, captureAddress, generation, budget, hits, counted, captures,
                          retiredSlots, registration>>
        \/ /\ AtStep(Capturer, "end retire")
           /\ RetireSite(captures[s].address) /\ Goto(Capturer, "end forget")
           /\ UNCHANGED <<slotVars, registration>>
        \/ /\ AtStep(Capturer, "end forget")
           /\ captureSlot' = [captureSlot EXCEPT ![s] = FALSE]
           /\ captureAddress' = [captureAddress EXCEPT ![s] = NoAddress]
           /\ budget' = [budget EXCEPT ![s] = [id |-> 0, limit |-> 0]]
           /\ Goto(Capturer, "end unclaim")
           /\ UNCHANGED <<slotSite, claimed, generation, hits, counted, captures, retiredSlots, registration>>
        \/ /\ AtStep(Capturer, "end unclaim")
           /\ generation' = [generation EXCEPT ![s] = NoGeneration]
           /\ claimed' = [claimed EXCEPT ![s] = FALSE]
           /\ captures' = [captures EXCEPT ![s] = NoCapture]
           /\ registration' = Nobody /\ Goto(Capturer, "end next")
           /\ UNCHANGED <<slotSite, captureSlot, captureAddress, budget, hits, counted, retiredSlots>>

ReleaseCaptureStep ==
    /\ ReleaseCapture
    /\ UNCHANGED <<stateLock, captureSession, registers, local, owned, spentBounds>>

(* close_session visits every slot; stop is done with its one.              *)
EndNext ==
    /\ AtStep(Capturer, "end next")
    /\ IF ~captureSession /\ MySlot(Capturer) + 1 \in DebugSlots
       THEN /\ local' = [local EXCEPT ![Capturer].slot = @ + 1]
            /\ Goto(Capturer, IF captures[MySlot(Capturer) + 1].id = 0 THEN "end next" ELSE "end")
            /\ UNCHANGED stateLock
       ELSE stateLock' = Nobody /\ Goto(Capturer, "idle") /\ UNCHANGED local
    /\ UNCHANGED <<slotVars, retiredSlots, registration, captureSession, registers, owned, spentBounds>>

HandlerStep(t) ==
    \/ Match(t) \/ MatchRetired(t) \/ Route(t) \/ CountHit(t)
    \/ ReadGeneration(t) \/ CheckGeneration(t) \/ ReadBudget(t) \/ Increment(t)
    \/ ExhaustStep(t) \/ TryLock(t) \/ WriteEvent(t)

TracerStep == PublishSlot \/ StopStep
CapturerStep == Register \/ ReserveSlot \/ PrepareSite \/ Flag \/ GoLive \/ ReleaseCaptureStep \/ EndNext

TraceNext ==
    \/ \E t \in TracedThreads : Hit(t) \/ HandlerStep(t) \/ Arm(t)
    \/ \E t \in TracedThreads \cup {Tracer} : ReleaseStep(t)
    \/ \E a \in Addresses : Add(a) \/ StopSite(a) \/ StartCapture(a)
    \/ TracerStep \/ OpenSession \/ CapturerStep
    \/ \E s \in DebugSlots : Poll(s) \/ EndCapture(s, FALSE)
    \/ EndCapture(1, TRUE)

(* A thread that is in the handler or in a service goes on: the loader      *)
(* suspends a thread only to set its registers, and resumes it.             *)
TraceFairness ==
    /\ \A t \in TracedThreads : WF_traceVars(HandlerStep(t) \/ ReleaseStep(t))
    /\ WF_traceVars(TracerStep \/ ReleaseStep(Tracer))
    /\ WF_traceVars(CapturerStep)

TraceSpec == TraceInit /\ [][TraceNext]_traceVars /\ TraceFairness
-----------------------------------------------------------------------------
TraceTypeOK ==
    /\ slotSite \in [DebugSlots -> Addresses \cup {NoAddress}]
    /\ claimed \in [DebugSlots -> BOOLEAN] /\ captureSlot \in [DebugSlots -> BOOLEAN]
    /\ \A s \in DebugSlots : generation[s].id \in 0..MaxCaptures /\ captures[s].len \in 0..QueueLength
    /\ stateLock \in Workers \cup {Nobody} /\ registration \in {Tracer, Capturer, Nobody}
    /\ \A t \in TracedThreads : registers[t] \subseteq Addresses

(* The generation of an exception that is being counted or stored. *)
Counting(t) == stepOf[t] \in {"store", "write", "exhaust", "exhaust site", "exhaust retire", "exhaust done"}

(* trace.rs, release_slot: a delayed release of the trace service must not  *)
(* erase a newly published capture.  While a capture is live and has hits   *)
(* left, its slot traces its address and nobody else's.                     *)
CaptureKeepsItsSite ==
    \A s \in DebugSlots :
        /\ captureSlot[s] /\ generation[s].id # 0 /\ ~generation[s].retiring
        /\ counted[s].count < Limit /\ ~(registration = Capturer /\ MySlot(Capturer) = s)
        => slotSite[s] = captures[s].address /\ claimed[s]

(* "An exception can never use a reused slot's budget": the hits counted    *)
(* for a generation are hits of the address it was registered for.          *)
BudgetIsOwn ==
    \A t \in TracedThreads : Counting(t) => owned[local[t].id] = A(t) /\ local[t].hit <= Limit
                                          /\ \A u \in TracedThreads : u # t /\ Counting(u) /\ local[u].id = local[t].id
                                                => local[u].hit # local[t].hit

(* Closing a session takes every one of its captures out of the slots.      *)
CloseReleasesAll ==
    ~captureSession /\ AtStep(Capturer, "idle") => \A s \in DebugSlots : captures[s].id = 0 /\ ~captureSlot[s]

(* Neither service waits for ever: not for the marker of a slot, and not    *)
(* for the other's lock.                                                    *)
ServicesReturn ==
    /\ stepOf[Capturer] # "idle" ~> stepOf[Capturer] = "idle"
    /\ stepOf[Tracer] # "idle" ~> stepOf[Tracer] = "idle"
=============================================================================
