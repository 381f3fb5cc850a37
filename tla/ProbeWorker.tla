---------------------------- MODULE ProbeWorker ----------------------------
(***************************************************************************)
(* The diagnostics plugin: a worker thread that reads an editable probe    *)
(* file, resolves the probes it enables to code sites and keeps them armed *)
(* in the four breakpoint slots the loader's trace services share.         *)
(*                                                                         *)
(* The worker's service calls are steps of their own: the user's edits,    *)
(* other users of the slots, the game's hits and the plugin's stop fall    *)
(* between them.  A probe is the record of what its checks tell apart:     *)
(* whether it is enabled, a preset, has a signature, an RVA, a module hash, *)
(* an offset inside the signature, positive hits, valid fields, its site.   *)
(***************************************************************************)
EXTENDS Naturals, Sequences, FiniteSets, FiniteSetsExt

CONSTANTS
    Files,          \* the contents the user gives the file: sequences of probes
    Slots,          \* the breakpoint slots (4)
    MaxProbes,      \* the most enabled probes of a file (4)
    MaxEdits,       \* bound on the user's edits
    MaxOthers,      \* bound on how often another user takes slots
    Broken,         \* text that does not parse
    Missing,        \* no file: an empty list
    Unreadable,     \* cannot be read, or is over 64 KiB
    NoText          \* nothing seen yet

VARIABLES
    file, edits,    \* the file's content, and the edits made
    loaded, build,  \* game.dll is loaded; the module is the build the RVAs are of
    workerAt,             \* where the worker is
    seen,           \* the content last dealt with
    active, next,   \* the armed set and its replacement: [probes, handles]
    armed,          \* the service: for each handle its site and whether its hits are used up
    told,           \* the handles whose end the worker has reported
    others, takes,  \* slots held by other users, and how often they took some
    session,        \* the service session: "open" or "closed"
    stopping        \* stop() has been called

probeVars == <<file, edits, loaded, build, workerAt, seen, active, next, armed, told,
               others, takes, session, stopping>>
world == <<file, edits, loaded, build, others, takes, session, stopping>>

-----------------------------------------------------------------------------
(* Accepting a file: config::parse.                                        *)

(* A custom probe names its site by a signature, or by RVA and module hash. *)
SiteGiven(p) == p.preset \/ (IF p.sig THEN ~p.sha ELSE p.rva /\ p.sha)

(* Well-formed fields and filter; a census needs a u64 field caller. *)
FieldsValid(p) == p.fields /\ (p.census => p.caller)

(* A preset brings its site; an offset must lie in its signature; hits and *)
(* every are not zero.                                                     *)
ProbeValid(p) ==
    /\ p.preset => ~p.sig /\ ~p.rva /\ ~p.sha /\ p.inside
    /\ SiteGiven(p)
    /\ ~p.preset => p.inside
    /\ p.positive
    /\ FieldsValid(p)

Enabled(f) == SelectSeq(f, LAMBDA p : p.on)

Parses(f) ==
    /\ f # Broken
    /\ \A i, j \in DOMAIN f : i # j => f[i].name # f[j].name
    /\ \A i \in DOMAIN f : f[i].on => ProbeValid(f[i])
    /\ Len(Enabled(f)) <= MaxProbes

(* Resolving it: the module is loaded, its hash is the one asked for, the  *)
(* signature matches once and where the RVA says, no site is given twice.  *)
SiteFound(p) ==
    /\ p.module = "game" => loaded
    /\ p.sha => build = "known"
    /\ p.sig \/ p.preset => p.unique
    /\ p.sig /\ p.rva => build = "known"

Resolves(f) ==
    LET on == Enabled(f)
    IN  /\ \A i \in DOMAIN on : SiteFound(on[i])
        /\ \A i, j \in DOMAIN on : i # j => on[i].site # on[j].site

Text(f) == IF f = Missing THEN <<>> ELSE f

-----------------------------------------------------------------------------
NoSet == [probes |-> <<>>, handles |-> <<>>]

ProbeInit ==
    /\ file \in Files \cup {Missing}
    /\ edits = 0
    /\ loaded \in BOOLEAN
    /\ build \in {"known", "other"}
    /\ workerAt = "check"
    /\ seen = NoText
    /\ active = NoSet /\ next = NoSet
    /\ armed = <<>>
    /\ told = {}
    /\ others = 0 /\ takes = 0
    /\ session = "open"
    /\ stopping = FALSE

FreeHandle == Min((1..(Slots + 1)) \ DOMAIN armed)

(* The service arms a site while a slot is free, and only one probe a site. *)
CanArm(site) == /\ Cardinality(DOMAIN armed) + others < Slots
                /\ \A h \in DOMAIN armed : armed[h].site # site

(* start one more probe of the set *)
Armed(set, h) == [set EXCEPT !.handles = Append(@, h)]

Released(h) == [g \in DOMAIN armed \ {h} |-> armed[g]]

-----------------------------------------------------------------------------
(* The worker: run.                                                        *)

Unchanged == Text(file) = seen

(* One look at the file.  An edit that is refused is not looked at again.  *)
Check ==
    /\ workerAt = "check"
    /\ IF stopping THEN workerAt' = "last" /\ UNCHANGED <<seen, next>>
       ELSE IF file = Unreadable \/ Unchanged
       THEN workerAt' = "drain" /\ UNCHANGED <<seen, next>>
       ELSE /\ seen' = Text(file)
            /\ IF Parses(Text(file)) /\ Resolves(Text(file))
               THEN workerAt' = "old" /\ next' = [probes |-> Enabled(Text(file)), handles |-> <<>>]
               ELSE workerAt' = "drain" /\ UNCHANGED next
    /\ UNCHANGED <<active, armed, told, world>>

(* replace, disarm: the old set is stopped probe by probe.                 *)
StopOld ==
    /\ workerAt = "old"
    /\ IF active.handles = <<>> THEN workerAt' = "arm" /\ UNCHANGED <<active, armed, told>>
       ELSE /\ armed' = Released(Head(active.handles))
            /\ told' = told \ {Head(active.handles)}
            /\ active' = [active EXCEPT !.handles = Tail(@)]
            /\ workerAt' = workerAt
    /\ UNCHANGED <<seen, next, world>>

(* arm: the new set, probe by probe; it is the active set once all are. *)
ArmNext ==
    /\ workerAt = "arm"
    /\ LET k == Len(next.handles) + 1
       IN  IF k > Len(next.probes)
           THEN /\ active' = next /\ next' = NoSet /\ workerAt' = "drain"
                /\ UNCHANGED armed
           ELSE IF CanArm(next.probes[k].site)
           THEN /\ armed' = [h \in DOMAIN armed \cup {FreeHandle} |->
                                IF h = FreeHandle THEN [site |-> next.probes[k].site, done |-> FALSE]
                                ELSE armed[h]]
                /\ next' = Armed(next, FreeHandle)
                /\ UNCHANGED <<active, workerAt>>
           ELSE workerAt' = "undo" /\ UNCHANGED <<armed, active, next>>
    /\ UNCHANGED <<seen, told, world>>

(* Mutant: the replacement's armed probes are not stopped first. *)
UndoneAlways == TRUE

(* A partial replacement releases its sites before the old set returns.    *)
Undone == next.handles = <<>>

Undo ==
    /\ workerAt = "undo"
    /\ IF Undone THEN workerAt' = "restore" /\ next' = NoSet /\ UNCHANGED armed
       ELSE /\ armed' = Released(Head(next.handles))
            /\ next' = [next EXCEPT !.handles = Tail(@)]
            /\ workerAt' = workerAt
    /\ UNCHANGED <<active, seen, told, world>>

RestoreEnds == active' = active /\ workerAt' = "clear"

Restore ==
    /\ workerAt = "restore"
    /\ LET k == Len(active.handles) + 1
       IN  IF k > Len(active.probes) THEN workerAt' = "drain" /\ UNCHANGED <<active, armed>>
           ELSE IF CanArm(active.probes[k].site)
           THEN /\ armed' = [h \in DOMAIN armed \cup {FreeHandle} |->
                                IF h = FreeHandle THEN [site |-> active.probes[k].site, done |-> FALSE]
                                ELSE armed[h]]
                /\ active' = Armed(active, FreeHandle)
                /\ workerAt' = workerAt
           ELSE RestoreEnds /\ UNCHANGED armed
    /\ UNCHANGED <<seen, next, told, world>>

(* The old set could not be restored whole: it is dropped. *)
Clear ==
    /\ workerAt = "clear"
    /\ IF active.handles = <<>> THEN workerAt' = "drain" /\ active' = NoSet /\ UNCHANGED armed
       ELSE /\ armed' = Released(Head(active.handles))
            /\ active' = [active EXCEPT !.handles = Tail(@)]
            /\ workerAt' = workerAt
    /\ UNCHANGED <<seen, next, told, world>>

Ended == {active.handles[k] : k \in {k \in DOMAIN active.handles : armed[active.handles[k]].done}}

(* drain: poll every armed probe and report the ones whose hits are used up. *)
Drain ==
    /\ workerAt = "drain"
    /\ told' = told \cup Ended
    /\ workerAt' = "check"
    /\ UNCHANGED <<active, next, armed, seen, world>>

NothingArmed == active.handles = <<>>

(* The loop has ended: drain, disarm, and close the session.               *)
Finish ==
    /\ workerAt = "last"
    /\ IF NothingArmed THEN workerAt' = "ended" /\ session' = "closed" /\ UNCHANGED <<active, armed, told>>
       ELSE /\ armed' = Released(Head(active.handles))
            /\ told' = told \ {Head(active.handles)}
            /\ active' = [active EXCEPT !.handles = Tail(@)]
            /\ UNCHANGED <<workerAt, session>>
    /\ UNCHANGED <<seen, next, file, edits, loaded, build, others, takes, stopping>>

-----------------------------------------------------------------------------
(* Everyone else.                                                          *)

Edit ==
    /\ edits < MaxEdits
    /\ file' \in (Files \cup {Missing, Broken, Unreadable}) \ {file}
    /\ edits' = edits + 1
    /\ UNCHANGED <<loaded, build, workerAt, seen, active, next, armed, told, others, takes, session, stopping>>

LoadModule ==
    /\ ~loaded
    /\ loaded' = TRUE
    /\ UNCHANGED <<file, edits, build, workerAt, seen, active, next, armed, told, others, takes, session, stopping>>

(* Another tracing user takes free slots, or gives them back. *)
OthersMove ==
    /\ \/ /\ takes < MaxOthers
          /\ others' \in (others + 1)..(Slots - Cardinality(DOMAIN armed))
          /\ takes' = takes + 1
       \/ others > 0 /\ others' = 0 /\ takes' = takes
    /\ UNCHANGED <<file, edits, loaded, build, workerAt, seen, active, next, armed, told, session, stopping>>

(* A site's hit budget is used up. *)
UsedUp ==
    /\ \E h \in DOMAIN armed : ~armed[h].done /\ armed' = [armed EXCEPT ![h].done = TRUE]
    /\ UNCHANGED <<file, edits, loaded, build, workerAt, seen, active, next, told, others, takes, session, stopping>>

(* stop(): the flag, an unpark and a join. *)
Stop ==
    /\ ~stopping
    /\ stopping' = TRUE
    /\ UNCHANGED <<file, edits, loaded, build, workerAt, seen, active, next, armed, told, others, takes, session>>

Worker == Check \/ StopOld \/ ArmNext \/ Undo \/ Restore \/ Clear \/ Drain \/ Finish

ProbeNext == Worker \/ Edit \/ LoadModule \/ OthersMove \/ UsedUp \/ Stop

ProbeFairness == WF_probeVars(Worker)

ProbeSpec == ProbeInit /\ [][ProbeNext]_probeVars /\ ProbeFairness

-----------------------------------------------------------------------------
Sites(set) == {set.probes[k].site : k \in DOMAIN set.probes}

ProbesTypeOK ==
    /\ workerAt \in {"check", "old", "arm", "undo", "restore", "clear", "drain", "last", "ended"}
    /\ DOMAIN armed \subseteq 1..Slots
    /\ told \subseteq 1..Slots
    /\ others \in 0..Slots
    /\ session \in {"open", "closed"}

(***************************************************************************)
(* No slot is leaked or counted twice: whatever edit, refusal or stop      *)
(* falls between two service calls, the armed sites are exactly the ones   *)
(* the worker holds handles of, for the probes of the sets in their order; *)
(* and the session is closed with none left (arm, disarm, replace, run).   *)
(***************************************************************************)
SlotsOwned ==
    LET held == active.handles \o next.handles
    IN  /\ \A i, j \in DOMAIN held : i # j => held[i] # held[j]
        /\ {held[i] : i \in DOMAIN held} = DOMAIN armed
        /\ \A set \in {active, next} : \A k \in DOMAIN set.handles :
              workerAt \in {"drain", "check", "arm", "restore"} => armed[set.handles[k]].site = set.probes[k].site
        /\ session = "closed" => armed = <<>>

(***************************************************************************)
(* Between replacements the armed sites are those of one whole file: never *)
(* a part of one, nor a mix of an edit and what it replaced, however its   *)
(* arming failed (replace: "the last valid set remains active").           *)
(***************************************************************************)
WholeSets ==
    workerAt \in {"check", "drain"} =>
        {armed[h].site : h \in DOMAIN armed} = Sites(active)

(***************************************************************************)
(* A breakpoint is only ever set where this build was checked: by a        *)
(* signature found once in the module, or by an RVA with the module's hash *)
(* (parse_probe's rules and resolve together).                             *)
(***************************************************************************)
SitesArePinned ==
    \A set \in {active, next} : \A k \in DOMAIN set.handles :
        LET p == set.probes[k]
        IN  \/ (p.preset \/ p.sig) /\ p.unique
            \/ p.rva /\ p.sha /\ build = "known"

(***************************************************************************)
(* The file's last state takes effect: once edits stop, the worker comes   *)
(* to rest with that file's probes armed if the file can be read and is    *)
(* acceptable, no other user of the slots interfered and no probe waited   *)
(* for a module to load: neither of these two refusals is retried (run).   *)
(***************************************************************************)
Settled ==
    \/ stopping \/ file = Unreadable \/ takes > 0
    \/ /\ seen = Text(file)
       /\ workerAt \in {"check", "drain"}
       /\ \/ ~Parses(seen) \/ ~Resolves(seen)
          \/ \E i \in DOMAIN seen : seen[i].module = "game"
          \/ Sites(active) = Sites([probes |-> Enabled(seen)])

EditTakesEffect == []<>Settled

(***************************************************************************)
(* A probe whose hits are used up is reported, and stop() always returns.  *)
(***************************************************************************)
EndsAreReported ==
    /\ []<>(stopping \/ \A k \in DOMAIN active.handles :
                armed[active.handles[k]].done => active.handles[k] \in told)
    /\ stopping ~> (workerAt = "ended")

=============================================================================
