---------------------------- MODULE CrashCapture ----------------------------
(***************************************************************************)
(* Crash capture (crates/loader/src/crash.rs) and the dump helper it       *)
(* starts (bin/defiance-crash-helper.rs): faults of the game's threads,    *)
(* the observer of faults in mod code, the unhandled filter and the panic  *)
(* report, the one capture of a process, the journal of mod code that the  *)
(* helper replays.                                                         *)
(*                                                                         *)
(* Registers, addresses and wording are left out: a fault is its thread,   *)
(* where it happened and whether its code is a serious one.                *)
(***************************************************************************)
EXTENDS Integers, Sequences, FiniteSets

CONSTANTS
    FaultingThreads,    \* threads that may fault
    Places,         \* start addresses of mod code
    Labels,         \* who owns mod code
    SessionLimit,   \* SESSION_LIMIT, in lines
    MaxFaults,      \* bound: faults and panics
    MaxMappings     \* bound: times mod code is put in place

VARIABLES
    capture,        \* "off", "text" or "helper"; how far initialize got
    observes,       \* the vectored handler is in place
    eventOpen,      \* the helper could open the completion event
    latched,        \* CAPTURING
    report,         \* the lines of .crash.txt
    faults,         \* every fault so far
    faultAt,             \* what each thread is doing, and in which fault
    request,        \* the faults whose packets were sent
    event,          \* DONE is set
    ranges,         \* RANGES, newest node first
    journal,        \* .session.txt
    written,        \* SESSION_WRITTEN
    host,           \* what the host thread is doing to the ranges
    modCode,      \* the owner of the mod code at each place
    mappings,
    helper, dump, details, reportStatus,
    ended           \* the game has ended

crashVars == <<capture, observes, eventOpen, latched, report, faults, faultAt, request,
               event, ranges, journal, written, host, modCode, mappings, helper, dump, details,
               reportStatus, ended>>
threadVars == <<latched, report, faults, faultAt, request>>
rangeVars == <<ranges, journal, written, host, modCode, mappings>>
helperVars == <<event, helper, dump, details, reportStatus>>
startVars == <<capture, observes, eventOpen>>

Running == [pc |-> "running", fault |-> 0, way |-> "none"]
NoOwner == "none"

CrashInit ==
    /\ capture = "off" /\ observes = FALSE /\ eventOpen = FALSE
    /\ latched = FALSE /\ report = <<>> /\ faults = <<>> /\ request = <<>>
    /\ faultAt = [t \in FaultingThreads |-> Running]
    /\ ranges = <<>> /\ journal = <<>> /\ written = 0 /\ mappings = 0
    /\ host = [pc |-> "start"] /\ modCode = [p \in Places |-> NoOwner]
    /\ event = FALSE /\ helper = "none" /\ dump = [of |-> 0] /\ details = [of |-> 0]
    /\ reportStatus = "none" /\ ended = FALSE
-----------------------------------------------------------------------------
(* Starting                                                                 *)

(* How far initialize gets, whether the observer is installed and whether   *)
(* the helper can open the completion event.                                *)
Outcomes == {<<"off", FALSE, FALSE>>, <<"text", TRUE, FALSE>>, <<"helper", TRUE, TRUE>>,
             <<"helper", FALSE, TRUE>>, <<"helper", TRUE, FALSE>>}

(* initialize: the directory cannot be written, the helper or its event is  *)
(* missing, or all is well.  The loader goes on in every case.              *)
Initialize(outcome) ==
    /\ host.pc = "start" /\ ~ended
    /\ capture' = outcome[1] /\ observes' = outcome[2] /\ eventOpen' = outcome[3]
    /\ helper' = IF capture' = "helper" THEN "waiting" ELSE "none"
    /\ host' = [pc |-> "idle"]
    /\ UNCHANGED <<threadVars, ranges, journal, written, modCode, mappings, event, dump,
                   details, reportStatus, ended>>
-----------------------------------------------------------------------------
(* The ranges                                                               *)

(* note: lines past the limit are dropped, whatever they say.               *)
CountLine == written' = IF capture # "off" /\ written <= SessionLimit THEN written + 1 ELSE written
Note(line) ==
    /\ journal' = IF capture # "off" /\ written < SessionLimit THEN Append(journal, line) ELSE journal
    /\ CountLine

(* A log line is noted too and says nothing of ranges.                      *)
Log ==
    /\ host.pc = "idle" /\ ~ended
    /\ CountLine
    /\ UNCHANGED <<startVars, threadVars, ranges, journal, host, modCode, mappings, helperVars, ended>>

(* A thread stopped in a fault is still in the code that raised it, and     *)
(* that code's owner is not unloaded while it is.                           *)
Stopped(place) == \E t \in FaultingThreads : faultAt[t].fault # 0 /\ faults[faultAt[t].fault].place = place

HostMay == ~ended /\ mappings < MaxMappings

(* New code is put in place, then mapped.                                   *)
Install(place, owner) ==
    /\ host.pc = "idle" /\ HostMay /\ modCode[place] = NoOwner
    /\ modCode' = [modCode EXCEPT ![place] = owner]
    /\ host' = [pc |-> "map", place |-> place, owner |-> owner]
    /\ mappings' = mappings + 1
    /\ UNCHANGED <<startVars, threadVars, ranges, journal, written, helperVars, ended>>

(* deactivate                                                               *)
Deactivated(place) ==
    [i \in 1..Len(ranges) |-> IF ranges[i].place = place THEN [ranges[i] EXCEPT !.active = FALSE]
                              ELSE ranges[i]]

Map ==
    /\ host.pc = "map" /\ ~ended
    /\ Note([op |-> "map", place |-> host.place, owner |-> host.owner])
    /\ host' = [host EXCEPT !.pc = "push"]
    /\ UNCHANGED <<startVars, threadVars, ranges, modCode, mappings, helperVars, ended>>

(* deactivate what started here before, and push the new node.              *)
MapPushes ==
    /\ host.pc = "push" /\ ~ended
    /\ ranges' = <<[place |-> host.place, owner |-> host.owner, active |-> TRUE]>>
                    \o Deactivated(host.place)
    /\ host' = [pc |-> "idle"]
    /\ UNCHANGED <<startVars, threadVars, journal, written, modCode, mappings, helperVars, ended>>

RemoveCode(place) ==
    /\ host.pc = "idle" /\ ~ended /\ modCode[place] # NoOwner /\ ~Stopped(place)
    /\ host' = [pc |-> "unmap", place |-> place]
    /\ modCode' = [modCode EXCEPT ![place] = NoOwner]
    /\ UNCHANGED <<startVars, threadVars, ranges, journal, written, mappings, helperVars, ended>>

Unmap ==
    /\ host.pc = "unmap" /\ ~ended
    /\ Note([op |-> "unmap", place |-> host.place])
    /\ host' = [host EXCEPT !.pc = "forget"]
    /\ UNCHANGED <<startVars, threadVars, ranges, modCode, mappings, helperVars, ended>>

UnmapDeactivates ==
    /\ host.pc = "forget" /\ ~ended
    /\ ranges' = Deactivated(host.place)
    /\ host' = [pc |-> "idle"]
    /\ UNCHANGED <<startVars, threadVars, journal, written, modCode, mappings, helperVars, ended>>

(* range_of, owned_exception: the walk over the active ranges.              *)
Watched(place) == \E i \in 1..Len(ranges) : ranges[i].active /\ ranges[i].place = place
-----------------------------------------------------------------------------
(* Faults                                                                   *)

Goes(t, pc) == faultAt' = [faultAt EXCEPT ![t].pc = pc]
Line(kind, f) == report' = IF capture = "off" THEN report ELSE Append(report, [kind |-> kind, of |-> f])

Raised == (Places \X BOOLEAN) \cup {<<"game", TRUE>>}

(* A thread faults in mod code or in the game's ("game").                   *)
Fault(t, place, serious) ==
    /\ faultAt[t].pc = "running" /\ host.pc # "start" /\ ~ended /\ Len(faults) < MaxFaults
    /\ place \in Places => modCode[place] # NoOwner
    /\ faults' = Append(faults, [place |-> place, serious |-> serious,
                                 owner |-> IF place \in Places THEN modCode[place] ELSE NoOwner])
    /\ faultAt' = [faultAt EXCEPT ![t] = [pc |-> "observed", fault |-> Len(faults'), way |-> "first"]]
    /\ UNCHANGED <<startVars, latched, report, request, rangeVars, helperVars, ended>>

Of(t) == faults[faultAt[t].fault]

(* owned_exception: nothing once there is a capture; the label is written   *)
(* before the latch is taken.                                               *)
Observe(t) ==
    /\ faultAt[t].pc = "observed" /\ ~ended
    /\ IF observes /\ ~latched /\ Of(t).serious /\ Watched(Of(t).place)
       THEN Line("first-chance", faultAt[t].fault) /\ Goes(t, "capture")
       ELSE Goes(t, "dispatch") /\ UNCHANGED report
    /\ UNCHANGED <<startVars, latched, faults, request, rangeVars, helperVars, ended>>

(* A handler of the game recovers, or the fault is unhandled: the filter    *)
(* captures it, unless another component has replaced the filter.           *)
Dispatch(t) ==
    /\ faultAt[t].pc = "dispatch" /\ ~ended
    /\ \/ faultAt' = [faultAt EXCEPT ![t] = Running]
       \/ capture # "off" /\ faultAt' = [faultAt EXCEPT ![t].pc = "capture", ![t].way = "filter"]
       \/ Goes(t, "passed")
    /\ UNCHANGED <<startVars, latched, report, faults, request, rangeVars, helperVars, ended>>

(* panic_report: the message is written whether or not there is a capture.  *)
Panic(t) ==
    /\ faultAt[t].pc = "running" /\ host.pc # "start" /\ ~ended /\ Len(faults) < MaxFaults
    /\ faults' = Append(faults, [place |-> "panic", serious |-> TRUE, owner |-> NoOwner])
    /\ Line("panic", Len(faults'))
    /\ faultAt' = [faultAt EXCEPT ![t] = [pc |-> IF capture = "off" THEN "passed" ELSE "capture",
                                fault |-> Len(faults'), way |-> "panic"]]
    /\ UNCHANGED <<startVars, latched, request, rangeVars, helperVars, ended>>

(* Where a thread goes when capture returns.                                *)
AfterFilter(t) == IF faultAt[t].way = "first" THEN "dispatch" ELSE "passed"

(* Mutant: the latch is set without a look at what it was. *)
TakesAny(t) == TRUE
(* CAPTURING.swap                                                           *)
Takes(t) == ~latched

Capture(t) ==
    /\ faultAt[t].pc = "capture" /\ ~ended
    /\ latched' = TRUE
    /\ IF Takes(t) THEN Goes(t, "report") ELSE Goes(t, AfterFilter(t))
    /\ UNCHANGED <<startVars, report, faults, request, rangeVars, helperVars, ended>>

(* The registers, then the packet; a helper that is gone has closed its end. *)
Report(t) ==
    /\ faultAt[t].pc = "report" /\ ~ended
    /\ IF capture = "helper"
       THEN /\ Line("report", faultAt[t].fault) /\ Goes(t, "await")
            /\ request' = IF helper = "waiting" THEN Append(request, faultAt[t].fault) ELSE request
       ELSE /\ Line("text only", faultAt[t].fault) /\ Goes(t, AfterFilter(t)) /\ UNCHANGED request
    /\ UNCHANGED <<startVars, latched, faults, rangeVars, helperVars, ended>>

(* Mutant: the wait for the helper has no limit. *)
WaitEndsNever == FALSE
(* WaitForSingleObject, at most ten seconds.                                *)
WaitEnds == ~event

Completed(t) ==
    /\ faultAt[t].pc = "await" /\ event /\ ~ended
    /\ Line("completed", faultAt[t].fault)
    /\ Goes(t, AfterFilter(t))
    /\ UNCHANGED <<startVars, latched, faults, request, rangeVars, helperVars, ended>>

TimesOut(t) ==
    /\ faultAt[t].pc = "await" /\ WaitEnds /\ ~ended
    /\ Line("timed out", faultAt[t].fault)
    /\ Goes(t, AfterFilter(t))
    /\ UNCHANGED <<startVars, latched, faults, request, rangeVars, helperVars, ended>>

(* An unhandled fault or a panic ends the game, and so may the player.      *)
CrashEnds ==
    /\ ~ended /\ host.pc # "start"
    /\ \/ \E t \in FaultingThreads : faultAt[t].pc = "passed"
       \/ \A t \in FaultingThreads : faultAt[t].pc = "running"
    /\ ended' = TRUE
    /\ UNCHANGED <<startVars, threadVars, rangeVars, helperVars>>
-----------------------------------------------------------------------------
(* The helper                                                               *)

EndOfFile == ended

HelperReads ==
    /\ helper = "waiting"
    /\ IF request # <<>> THEN helper' = "dumping" ELSE EndOfFile /\ helper' = "gone"
    /\ UNCHANGED <<startVars, threadVars, rangeVars, event, dump, details, reportStatus, ended>>

(* The faulting thread is still in capture, with its context intact.        *)
StillIntact(f) == ~ended /\ \E t \in FaultingThreads : faultAt[t].pc = "await" /\ faultAt[t].fault = f

Dumps(ok) ==
    /\ helper = "dumping"
    /\ dump' = IF ok THEN [of |-> request[1], live |-> StillIntact(request[1])] ELSE dump
    /\ helper' = IF ok THEN "describing" ELSE "failed"
    /\ UNCHANGED <<startVars, threadVars, rangeVars, event, details, reportStatus, ended>>

(* describe: the journal's additions and removals, in order.                *)
Replayed(place) ==
    LET of == {i \in 1..Len(journal) : journal[i].place = place}
        last == journal[CHOOSE i \in of : \A j \in of : j <= i]
    IN  IF of = {} THEN NoOwner ELSE IF last.op = "map" THEN last.owner ELSE NoOwner

Describes ==
    /\ helper = "describing"
    /\ details' = [of |-> request[1], live |-> StillIntact(request[1]),
                   owner |-> IF StillIntact(request[1]) /\ faults[request[1]].place \in Places
                             THEN Replayed(faults[request[1]].place) ELSE NoOwner]
    /\ helper' = "described"
    /\ UNCHANGED <<startVars, threadVars, rangeVars, event, dump, reportStatus, ended>>

(* The status, then the event; without the event the thread times out.      *)
Signalled == {"described", "failed"}

Finishes ==
    /\ helper \in Signalled /\ ~event
    /\ reportStatus' = IF helper = "failed" THEN "failed" ELSE "complete"
    /\ event' = eventOpen
    /\ helper' = "gone"
    /\ UNCHANGED <<startVars, threadVars, rangeVars, dump, details, ended>>

(* It is killed at any point.                                               *)
HelperDies ==
    /\ helper \notin {"none", "gone", "killed"}
    /\ helper' = "killed"
    /\ UNCHANGED <<startVars, threadVars, rangeVars, event, dump, details, reportStatus, ended>>
-----------------------------------------------------------------------------
ThreadSteps(t) ==
    \/ Observe(t) \/ Dispatch(t) \/ Capture(t) \/ Report(t) \/ Completed(t) \/ TimesOut(t)
HelperSteps == HelperReads \/ (\E ok \in BOOLEAN : Dumps(ok)) \/ Describes \/ Finishes

CrashNext ==
    \/ \E outcome \in Outcomes : Initialize(outcome)
    \/ Log \/ Map \/ MapPushes \/ Unmap \/ UnmapDeactivates
    \/ \E p \in Places : RemoveCode(p) \/ \E l \in Labels : Install(p, l)
    \/ \E t \in FaultingThreads : \/ ThreadSteps(t) \/ Panic(t)
                              \/ \E f \in Raised : Fault(t, f[1], f[2])
    \/ CrashEnds \/ HelperSteps \/ HelperDies

(* The scheduler runs a faulting thread, the wait times out by itself, the  *)
(* operating system runs the helper.                                        *)
CrashFairness == WF_crashVars(HelperSteps) /\ \A t \in FaultingThreads : WF_crashVars(ThreadSteps(t))

CrashSpec == CrashInit /\ [][CrashNext]_crashVars /\ CrashFairness
-----------------------------------------------------------------------------
Lines(kind) == {i \in 1..Len(report) : report[i].kind = kind}

CrashTypeOK ==
    /\ capture \in {"off", "text", "helper"} /\ latched \in BOOLEAN /\ event \in BOOLEAN
    /\ \A t \in FaultingThreads : faultAt[t].fault \in 0..Len(faults)

(* capture: whatever threads fault at once, one fault is reported, one      *)
(* request is sent and the dump is of that fault.                           *)
FirstEvidenceKept ==
    /\ Cardinality(Lines("report") \cup Lines("text only")) <= 1 /\ Len(request) <= 1
    /\ \A i \in Lines("report"), k \in 1..Len(request) : report[i].of = request[k]

(* capture, run: a report that says the helper completed, with a status     *)
(* that says so too, has its dump and details from the reported fault's own *)
(* context, read while the thread stood still.                              *)
CompletedMeansWhole ==
    Lines("completed") # {} /\ reportStatus # "failed" =>
        /\ reportStatus = "complete" /\ dump.of # 0 /\ dump.live
        /\ details.of # 0 /\ details.live
        /\ \A i \in Lines("completed") : report[i].of = dump.of

(* describe: mod code named for the fault's address is owned by the plugin  *)
(* whose code was there, unless the journal had reached its limit.          *)
AttributionTrue ==
    details.of # 0 /\ details.owner # NoOwner /\ written <= SessionLimit =>
        details.owner = faults[details.of].owner

(* unmap: a fault is labelled first-chance only in mod code that has not    *)
(* been removed; ranges left active would report the game's own faults.     *)
RemovedNotObserved ==
    host.pc = "idle" => \A p \in Places : Watched(p) => modCode[p] # NoOwner

(* No thread is held in its fault: a helper that is missing, slow or killed *)
(* costs it the ten seconds and then it goes on.                            *)
FaultsGoOn ==
    \A t \in FaultingThreads : faultAt[t].pc \notin {"running", "passed"} ~>
        (faultAt[t].pc \in {"running", "passed"} \/ ended)

(* The helper leaves with the game.                                         *)
HelperLeaves == ended ~> helper \in {"none", "gone", "killed"}
=============================================================================
