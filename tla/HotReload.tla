----------------------------- MODULE HotReload -----------------------------
(***************************************************************************)
(* Replacing plugins in the running game: reload, remove, add, enable,     *)
(* disable and retry (reload.rs), the copies of plugin libraries they load *)
(* and unload (lifecycle.rs, plugin.rs), the service tables copies hold    *)
(* from each other (services.rs) and the list of plugins that keep the     *)
(* game out of multiplayer (multiplayer.rs).                               *)
(*                                                                         *)
(* One operation runs at a time (the gate and APPLYING), but each is a     *)
(* sequence of steps: Core's lobby guard reads the blockers between any    *)
(* two, the files on disk change under it, and a step may fail.            *)
(*                                                                         *)
(* A copy of a plugin is its owner <<id, n>>: n = 0 at startup, and a      *)
(* fresh number for every copy started later (next_owner).                 *)
(***************************************************************************)
EXTENDS Naturals, Sequences, FiniteSets

CONSTANTS
    Ids,        \* plugin IDs
    Builds,     \* Builds[i]: the manifests plugin i's files may declare
    MaxCopies   \* most copies started after startup (a bound of the model)

(* What an operation needs from a manifest. "hot": hot_reload; "startup": a *)
(* managed plugin that only loads at startup; a legacy plugin has none, and *)
(* so no dependencies and no claim to be safe in multiplayer.               *)
Legacy == [kind |-> "legacy", safe |-> FALSE, depends |-> {}, schema |-> 0]

Manifests ==
    [kind : {"hot", "startup"}, safe : BOOLEAN, depends : SUBSET Ids,
     schema : Nat] \cup {Legacy}

Off == [kind |-> "off"]    \* not installed, switched off, or refused alone

ASSUME BuildsAssumption == Builds \in [Ids -> SUBSET Manifests]
ASSUME MaxCopiesAssumption == MaxCopies \in Nat
ASSUME IdsAssumption == Ids # {} /\ IsFiniteSet(Ids)

(* However a plugin's files change, what its builds depend on agrees with   *)
(* one order: no build of one plugin needs another whose builds may need it.*)
DependenciesAgree(builds) ==
    \A S \in SUBSET DOMAIN builds :
        S # {} => \E i \in S : \A j \in S \ {i} :
                      \A m \in builds[j] : i \notin m.depends

Owners == Ids \X (0..MaxCopies)
Id(o) == o[1]
IdsOf(S) == {Id(o) : o \in S}

VARIABLES
    disk,        \* what a fresh read of the files and configuration plans from
    plan,        \* the same as the running operation read it
    loaded,      \* lifecycle::LOADED
    retained,    \* lifecycle::RETAINED: stopped copies kept mapped
    copy,        \* a copy's Loaded record: reloadable, safe, schema
    hooked,      \* copies with a live hook or patch span
    tables,      \* copies whose service tables can be queried
    uses,        \* services::uses: <<consumer copy, provider ID>>
    holds,       \* the copies whose tables a copy really has
    blockers,    \* multiplayer::BLOCKERS
    guarded,     \* multiplayer::GUARDED
    halt,        \* INCOMPLETE_ROLLBACK: {} or the copy whose rollback failed
    everLoaded, startupFailed,    \* EVER_LOADED, STARTUP_FAILURES
    next,        \* lifecycle::NEXT_OWNER
    starting,    \* {} or the copy whose init runs
    phase, kind, target,          \* the running operation
    todo, keep,                   \* copies to unload, and to keep mapped
    queue,                        \* IDs to load, in order
    rest,                         \* dependants `enable' may bring back, in order
    before                        \* history: the IDs loaded when it began

copyVars == <<loaded, retained, copy, hooked, tables, uses, holds>>
historyVars == <<everLoaded, startupFailed>>
opVars == <<phase, kind, target, todo, keep, queue, rest, before>>
vars == <<disk, plan, copyVars, blockers, guarded, halt, historyVars, next,
          starting, opVars>>

----------------------------------------------------------------------------
(* Planning: what a fresh plan would initialize. A plugin needs its files,  *)
(* and all it depends on; a dependency cycle leaves its members out.        *)

Planned(files) ==
    {i \in Ids : \A S \in SUBSET Ids :
        (\A j \in Ids : files[j] # Off /\ files[j].depends \subseteq S => j \in S)
            => i \in S}

(* The service graph. *)

Consumers(i) == {o \in Owners : <<o, i>> \in uses}

HoldersIncluded(D, i) ==
    \A p \in loaded :
        (\/ Id(p) # i /\ p \in Consumers(i)
         \/ \E d \in D : Id(p) # Id(d) /\ p \in Consumers(Id(d)))
            => p \in D

(* lifecycle::dependants: the loaded copies that hold a table from i,       *)
(* directly or through others.                                              *)
Dependants(i) ==
    {p \in loaded : \A D \in SUBSET loaded : HoldersIncluded(D, i) => p \in D}

KeptIncluded(K, group, holders) ==
    \A m \in group : Consumers(Id(m)) \cap (holders \cup K) # {} => m \in K

(* Mutant: only what a staying copy holds itself is kept. *)
RetainedDirectOnly(group, holders) ==
    {m \in group : Consumers(Id(m)) \cap holders # {}}

(* reload::retained_closure *)
RetainedClosure(group, holders) ==
    {m \in group : \A K \in SUBSET group :
        KeptIncluded(K, group, holders) => m \in K}

(* The copies that go with i, and those of them to keep mapped. *)
LoadedCopies(i) == {o \in loaded : Id(o) = i}
Group(i) == LoadedCopies(i) \cup {o \in Dependants(i) : copy[o].reloadable}
Staying(i) == {o \in Dependants(i) : ~copy[o].reloadable} \cup retained
Keep(i) == RetainedClosure(Group(i), Staying(i))

(* Copies whose code can run: a stopped copy that is kept may still be      *)
(* called through its tables, a failed one through a span left live.        *)
Running == loaded \cup retained \cup hooked \cup starting

----------------------------------------------------------------------------
NoPlan == [i \in Ids |-> Off]
NoTarget == CHOOSE i \in Ids : TRUE
NoCopy == [reloadable |-> FALSE, safe |-> TRUE, schema |-> 0]
Copies == [reloadable : BOOLEAN, safe : BOOLEAN, schema : Nat]

TypeOK ==
    /\ disk \in [Ids -> Manifests \cup {Off}]
    /\ plan \in [Ids -> Manifests \cup {Off}]
    /\ loaded \subseteq Owners /\ retained \subseteq Owners
    /\ hooked \subseteq Owners /\ tables \subseteq Owners
    /\ copy \in [Owners -> Copies]
    /\ uses \subseteq Owners \X Ids
    /\ holds \in [Owners -> SUBSET Owners]
    /\ blockers \subseteq Ids
    /\ guarded \in BOOLEAN
    /\ halt \subseteq [id : Ids, safe : BOOLEAN]
    /\ everLoaded \subseteq Ids /\ startupFailed \subseteq Ids
    /\ next \in 1..(MaxCopies + 1)
    /\ starting \subseteq Owners
    /\ phase \in {"idle", "unload", "load", "start", "init", "replan", "restore",
                  "finish"}
    /\ kind \in {"none", "reload", "remove", "add", "enable", "retry"}
    /\ target \in Ids
    /\ todo \subseteq Owners /\ keep \subseteq Owners
    /\ queue \in Seq(Ids)
    /\ rest \in Seq([id : Ids, depends : SUBSET Ids])
    /\ before \subseteq Ids

(* Mutant: the copies kept mapped are forgotten. *)
BlockingLoadedOnly == {Id(o) : o \in {c \in loaded : ~copy[c].safe}}

(* multiplayer::refresh, over what is loaded, retained and degraded. *)
Blocking ==
    {Id(o) : o \in {c \in loaded \cup retained : ~copy[c].safe}}
        \cup {h.id : h \in {f \in halt : ~f.safe}}

(* Startup is over: `active' started, each after what it depends on and     *)
(* holding some of its tables; an unsafe plugin only with the guard.        *)
Init ==
    /\ disk \in [Ids -> UNION {Builds[i] : i \in Ids} \cup {Off}]
    /\ \A i \in Ids : disk[i] = Off \/ disk[i] \in Builds[i]
    /\ plan = NoPlan
    /\ guarded \in BOOLEAN
    /\ \E active \in SUBSET Planned(disk) :
        /\ \A i \in active : disk[i].depends \subseteq active
        /\ \A i \in active : disk[i].safe \/ guarded
        /\ loaded = active \X {0}
        /\ startupFailed \in SUBSET {i \in Planned(disk) \ active :
                                        disk[i].kind = "hot"}
        /\ copy = [o \in Owners |->
                     IF o \in loaded
                     THEN [reloadable |-> disk[Id(o)].kind = "hot",
                           safe |-> disk[Id(o)].safe,
                           schema |-> disk[Id(o)].schema]
                     ELSE NoCopy]
        /\ uses \in SUBSET UNION {{o} \X disk[Id(o)].depends : o \in loaded}
        /\ holds = [o \in Owners |->
                      {<<u[2], 0>> : u \in {v \in uses : v[1] = o}}]
        /\ everLoaded = active
    /\ tables = {o \in loaded : disk[Id(o)].kind # "legacy"}
    /\ hooked = loaded /\ retained = {}
    /\ halt = {}
    /\ blockers = Blocking
    /\ next = 1 /\ starting = {}
    /\ phase = "idle" /\ kind = "none" /\ target = NoTarget
    /\ todo = {} /\ keep = {} /\ queue = <<>> /\ rest = <<>> /\ before = {}

----------------------------------------------------------------------------
(* The player or developer changes the files. They may at any time; an      *)
(* operation reads them when it starts, and remove and enable once more, so *)
(* an edit at another point is one made at the next of these.               *)
FilesReadNext ==
    \/ phase \in {"idle", "replan", "restore"}
    \/ phase = "unload" /\ kind = "remove"

Edit(i) ==
    /\ FilesReadNext
    /\ \E m \in Builds[i] \cup {Off} :
        /\ m # disk[i]
        /\ disk' = [disk EXCEPT ![i] = m]
    /\ UNCHANGED <<plan, copyVars, blockers, guarded, halt, historyVars, next,
                   starting, opVars>>

----------------------------------------------------------------------------
(* Starting an operation. A refused one changes nothing.                    *)

(* Mutant: a halt is not looked at. *)
ReadyIgnoringHalt == phase = "idle"

Ready == phase = "idle" /\ halt = {}

(* reload_group's checks on every member, before any is unloaded. *)
Reloadable(i) ==
    \A o \in Group(i) :
        /\ Id(o) \in Planned(disk)
        /\ disk[Id(o)].kind = "hot"
        /\ disk[Id(o)].schema = copy[o].schema

UnloadGroup(i, what) ==
    /\ Ready
    /\ \E o \in LoadedCopies(i) : copy[o].reloadable
    /\ next + Cardinality(Group(i)) <= MaxCopies + IF what = "remove" THEN 2 ELSE 1
    /\ todo' = Group(i)
    /\ keep' = Keep(i)
    /\ kind' = what /\ target' = i /\ phase' = "unload" /\ queue' = <<>>
    /\ before' = IdsOf(loaded)
    /\ UNCHANGED <<disk, copyVars, blockers, guarded, halt, historyVars, next,
                   starting, rest>>

Reload(i) ==
    /\ Reloadable(i)
    /\ UnloadGroup(i, "reload")
    /\ plan' = disk

Remove(i) ==
    /\ UnloadGroup(i, "remove")
    /\ UNCHANGED plan

(* Mutant: that it is loaded already is not noticed. *)
AddableAgain(i, what) ==
    /\ i \in Planned(disk)
    /\ what = "retry" <=> i \in startupFailed
    /\ disk[i].kind # "startup"
    /\ disk[i].depends \subseteq IdsOf(loaded)
    /\ disk[i].safe \/ guarded

(* add_plugin's checks. *)
Addable(i, what) ==
    /\ LoadedCopies(i) = {}
    /\ i \in Planned(disk)
    /\ what = "retry" <=> i \in startupFailed
    /\ disk[i].kind # "startup"
    /\ what = "retry" => disk[i].kind = "hot"
    /\ disk[i].depends \subseteq IdsOf(loaded)
    /\ disk[i].safe \/ guarded

Add(i, what) ==
    /\ Ready
    /\ what \in {"add", "enable", "retry"}
    /\ Addable(i, what)
    /\ next <= MaxCopies
    /\ plan' = disk
    /\ queue' = <<i>>
    /\ kind' = what /\ target' = i /\ phase' = "load"
    /\ before' = IdsOf(loaded)
    /\ UNCHANGED <<disk, copyVars, blockers, guarded, halt, historyVars, next,
                   starting, todo, keep, rest>>

----------------------------------------------------------------------------
(* Unloading one copy: lifecycle::unload, by reload_group and remove_plugin *)

(* Deepest first: nobody left in the group holds its table, the target last *)
Deepest(o) ==
    /\ Consumers(Id(o)) \cap (todo \ {o}) = {}
    /\ Id(o) = target => todo = {o}

Failed == phase' = "finish" /\ UNCHANGED <<todo, queue, plan>>

(* Mutant: the queue gets the copy, not its ID. *)
UnloadedByOwner(o) ==
    /\ todo' = todo \ {o}
    /\ queue' = <<o>> \o queue
    /\ phase' = IF todo = {o} THEN "load" ELSE "unload"
    /\ plan' = plan

(* The copy is out; after the last one, loading starts, in the reverse      *)
(* order. A removal plans again from the files as they are now.             *)
Unloaded(o) ==
    /\ todo' = todo \ {o}
    /\ queue' = IF kind = "remove" /\ Id(o) = target
                THEN queue ELSE <<Id(o)>> \o queue
    /\ phase' = IF todo = {o} THEN "load" ELSE "unload"
    /\ plan' = IF todo = {o} /\ kind = "remove" THEN disk ELSE plan

(* Out of the active set, its tables withdrawn; its use records stay. *)
RetainMapped(o) ==
    /\ loaded' = loaded \ {o}
    /\ retained' = retained \cup {o}
    /\ hooked' = hooked \ {o}
    /\ tables' = tables \ {o}
    /\ UNCHANGED <<copy, uses, holds>>

Free(o) ==
    /\ loaded' = loaded \ {o}
    /\ hooked' = hooked \ {o}
    /\ tables' = tables \ {o}
    /\ uses' = {u \in uses : u[1] # o}
    /\ copy' = [copy EXCEPT ![o] = NoCopy]
    /\ holds' = [holds EXCEPT ![o] = {}]
    /\ UNCHANGED retained

(* reload::halt: the first one stays. *)
Halt(o) == halt' = IF halt = {} THEN {[id |-> Id(o), safe |-> copy[o].safe]}
                   ELSE halt

(* On its own stack, or an observer callback is in flight. *)
UnloadRefused(o) == Failed /\ UNCHANGED <<copyVars, halt>>

(* A span could not be restored: everything stays. *)
UnloadDegraded(o) == Failed /\ Halt(o) /\ UNCHANGED copyVars

UnloadKept(o) ==
    o \in keep /\ RetainMapped(o) /\ Unloaded(o) /\ UNCHANGED halt

UnloadFreed(o) ==
    o \notin keep /\ Free(o) /\ Unloaded(o) /\ UNCHANGED halt

(* A thread stays in its code: kept, and the operation fails. *)
UnloadBusy(o) ==
    o \notin keep /\ RetainMapped(o) /\ Failed /\ UNCHANGED halt

Unload(o) ==
    /\ phase = "unload"
    /\ o \in todo
    /\ Deepest(o)
    /\ \/ UnloadRefused(o) \/ UnloadDegraded(o)
       \/ UnloadKept(o) \/ UnloadFreed(o) \/ UnloadBusy(o)
    /\ UNCHANGED <<disk, blockers, guarded, historyVars, next, starting, kind,
                   target, keep, rest, before>>

----------------------------------------------------------------------------
(* Loading one copy: the head of the queue.                                 *)

(* Mutant: a reload goes on after a member that failed to load. *)
LoadedIgnoringFailure(ok) ==
    /\ queue' = Tail(queue)
    /\ phase' = "load"

(* After a copy that did (or did not) load. reload_group stops at the first *)
(* failure, remove_plugin goes on, enable restores dependants once its own  *)
(* plugin is loaded.                                                        *)
Loaded(ok) ==
    /\ queue' = Tail(queue)
    /\ phase' = CASE kind = "remove" -> "load"
                  [] kind = "enable" /\ Head(queue) # target -> "restore"
                  [] kind = "enable" /\ Head(queue) = target /\ ok -> "replan"
                  [] OTHER -> IF ok THEN "load" ELSE "finish"

(* A removed plugin's dependant that cannot start without it stays out.     *)
Skip ==
    /\ phase = "load" /\ queue # <<>>
    /\ kind = "remove" /\ Head(queue) \notin Planned(plan)
    /\ Loaded(FALSE)
    /\ UNCHANGED <<disk, plan, copyVars, blockers, guarded, halt, historyVars,
                   next, starting, kind, target, todo, keep, rest, before>>

(* reload_group refuses an unsafe plugin without the multiplayer guard;     *)
(* add_plugin has checked before; remove_plugin does not.                   *)
MustBeGuarded == kind = "reload" /\ ~plan[Head(queue)].safe

(* Mutant: the reload waits for the guard to be installed. *)
UnguardedWaits ==
    /\ phase = "load" /\ queue # <<>>
    /\ MustBeGuarded /\ ~guarded
    /\ UNCHANGED vars

Unguarded ==
    /\ phase = "load" /\ queue # <<>>
    /\ MustBeGuarded /\ ~guarded
    /\ phase' = "finish"
    /\ UNCHANGED <<disk, plan, copyVars, blockers, guarded, halt, historyVars,
                   next, starting, kind, target, todo, keep, queue, rest, before>>

(* multiplayer::block, before any of its code runs. *)
Block ==
    /\ phase = "load" /\ queue # <<>>
    /\ Head(queue) \in Planned(plan)
    /\ MustBeGuarded => guarded
    /\ blockers' = IF plan[Head(queue)].safe THEN blockers
                   ELSE blockers \cup {Head(queue)}
    /\ phase' = "start"
    /\ UNCHANGED <<disk, plan, copyVars, guarded, halt, historyVars, next,
                   starting, kind, target, todo, keep, queue, rest, before>>

(* initialize refuses once an incomplete rollback stopped plugin changes.   *)
StartRefused ==
    /\ phase = "start"
    /\ halt # {}
    /\ Loaded(FALSE)
    /\ UNCHANGED <<disk, plan, copyVars, blockers, guarded, halt, historyVars,
                   next, starting, kind, target, todo, keep, rest, before>>

(* Mutant: any plugin's table is given out. *)
QueryableAny(i) == tables

(* services::query: tables of the plugins that i's manifest depends on.     *)
Queryable(i) == {t \in tables : Id(t) \in plan[i].depends}

(* plugin::load up to init: the copy queries tables of what it depends on.  *)
(* Without a shadow copy it loads in place and cannot be reloaded.          *)
Start ==
    LET i == Head(queue)
        o == <<i, next>>
    IN  /\ phase = "start"
        /\ halt = {} /\ next <= MaxCopies
        /\ next' = next + 1
        /\ starting' = {o}
        /\ \E got \in SUBSET Queryable(i) :
            /\ holds' = [holds EXCEPT ![o] = got]
            /\ uses' = uses \cup ({o} \X IdsOf(got))
        /\ \E shadowed \in BOOLEAN :
            copy' = [copy EXCEPT ![o] =
                       [reloadable |-> plan[i].kind = "hot" /\ shadowed,
                        safe |-> plan[i].safe, schema |-> plan[i].schema]]
        /\ phase' = "init"
        /\ UNCHANGED <<disk, plan, loaded, retained, hooked, tables, blockers,
                       guarded, halt, historyVars, kind, target, todo, keep,
                       queue, rest, before>>

(* A managed plugin's writes are staged until its init is over; a legacy    *)
(* one's are live at once, and it registers no tables.                      *)
Managed(o) == plan[Id(o)].kind # "legacy"

(* Its writes are published and it is recorded. *)
Commit(o) ==
    /\ loaded' = loaded \cup {o}
    /\ hooked' = hooked \cup {o}
    /\ tables' = IF Managed(o) THEN tables \cup {o} ELSE tables
    /\ UNCHANGED <<retained, copy, uses, holds>>

(* Init failed and its hooks are out: services::finish(false). The library  *)
(* stays mapped, but nothing calls it.                                      *)
Drop(o) ==
    /\ uses' = {u \in uses : u[1] # o}
    /\ copy' = [copy EXCEPT ![o] = NoCopy]
    /\ holds' = [holds EXCEPT ![o] = {}]
    /\ UNCHANGED <<loaded, retained, hooked, tables>>

InitFailed(o) == Drop(o) /\ Loaded(FALSE) /\ UNCHANGED halt

(* Init failed and a span of it could not be restored. *)
InitDegraded(o) ==
    /\ hooked' = hooked \cup {o}
    /\ uses' = {u \in uses : u[1] # o}
    /\ Halt(o) /\ Loaded(FALSE)
    /\ UNCHANGED <<loaded, retained, copy, tables, holds>>

InitCommitted(o) == Commit(o) /\ Loaded(TRUE) /\ UNCHANGED halt

(* publish_transaction failed after a write: recorded, and changes stop.    *)
(* discard_started that cannot restore a span ends the same way.            *)
InitPartial(o) == Managed(o) /\ Commit(o) /\ Halt(o) /\ Loaded(FALSE)

(* publish_transaction failed before any write: discard_started. A holder   *)
(* of its ID that is still there, or a busy thread, keeps it mapped; an     *)
(* observer still running also stops plugin changes.                        *)
KeepDiscarded(o) ==
    /\ Managed(o)
    /\ retained' = retained \cup {o}
    /\ UNCHANGED <<loaded, copy, hooked, tables, uses, holds>>

InitDiscardedKept(o) == KeepDiscarded(o) /\ Loaded(FALSE) /\ UNCHANGED halt

InitDiscardedBusy(o) == KeepDiscarded(o) /\ Halt(o) /\ Loaded(FALSE)

InitDiscarded(o) ==
    /\ Managed(o)
    /\ (Consumers(Id(o)) \ {o}) \cap (loaded \cup retained) = {}
    /\ Drop(o) /\ Loaded(FALSE) /\ UNCHANGED halt

EndInit(o) ==
    /\ phase = "init"
    /\ o \in starting
    /\ \/ InitFailed(o) \/ InitDegraded(o)
       \/ InitCommitted(o) \/ InitPartial(o)
       \/ InitDiscardedKept(o) \/ InitDiscardedBusy(o) \/ InitDiscarded(o)
    /\ starting' = {}
    /\ UNCHANGED <<disk, plan, blockers, guarded, historyVars, next, kind,
                   target, todo, keep, rest, before>>

----------------------------------------------------------------------------
(* enable: bring back the dependants that were loaded before.               *)

(* The plugins that need `target', directly or through others. *)
NeedTarget(files) ==
    {i \in Planned(files) : \A S \in SUBSET Ids :
        (\A j \in Planned(files) :
            files[j].depends \cap (S \cup {target}) # {} => j \in S)
                => i \in S}

(* The plan's orders of R: dependencies first. *)
Orders(R, files) ==
    {s \in [1..Cardinality(R) -> R] :
        \A a, b \in DOMAIN s :
            a < b => s[a] # s[b] /\ s[b] \notin files[s[a]].depends}

PlanRestore ==
    /\ phase = "replan"
    /\ \E s \in Orders(NeedTarget(disk) \cap everLoaded, disk) :
        rest' = [k \in DOMAIN s |-> [id |-> s[k], depends |-> disk[s[k]].depends]]
    /\ phase' = "restore"
    /\ UNCHANGED <<disk, plan, copyVars, blockers, guarded, halt, historyVars,
                   next, starting, kind, target, todo, keep, queue, before>>

Restore ==
    /\ phase = "restore" /\ rest # <<>>
    /\ rest' = Tail(rest)
    /\ LET r == Head(rest)
       IN  IF /\ r.depends \subseteq IdsOf(loaded)
              /\ halt = {} /\ next <= MaxCopies
              /\ Addable(r.id, "add")
           THEN phase' = "load" /\ queue' = <<r.id>> /\ plan' = disk
           ELSE UNCHANGED <<phase, queue, plan>>
    /\ UNCHANGED <<disk, copyVars, blockers, guarded, halt, historyVars, next,
                   starting, kind, target, todo, keep, before>>

(* The operation is over, whatever the outcome: multiplayer::refresh and    *)
(* note_loaded.                                                             *)
Finish ==
    /\ \/ phase = "finish"
       \/ phase = "load" /\ queue = <<>>
       \/ phase = "restore" /\ rest = <<>>
    /\ blockers' = Blocking
    /\ everLoaded' = everLoaded \cup IdsOf(loaded)
    /\ startupFailed' = startupFailed \ IdsOf(loaded)
    /\ phase' = "idle" /\ kind' = "none" /\ target' = NoTarget
    /\ todo' = {} /\ keep' = {} /\ queue' = <<>> /\ rest' = <<>>
    /\ plan' = NoPlan /\ before' = {}
    /\ UNCHANGED <<disk, copyVars, guarded, halt, next, starting>>

----------------------------------------------------------------------------
Step ==
    \/ \E o \in Owners : Unload(o) \/ EndInit(o)
    \/ Skip \/ Unguarded \/ Block \/ StartRefused \/ Start
    \/ PlanRestore \/ Restore
    \/ Finish

Next ==
    \/ \E i \in Ids : Edit(i) \/ Reload(i) \/ Remove(i)
    \/ \E i \in Ids, what \in {"add", "enable", "retry"} : Add(i, what)
    \/ Step

(* The thread that runs an operation goes on with it. *)
Spec == Init /\ [][Next]_vars /\ WF_vars(Step)

----------------------------------------------------------------------------
(* Properties *)

(* A copy whose code can run never has a table of a copy that was unmapped: *)
(* unload order, retained_closure and the use records keep every provider   *)
(* a holder may still call, whatever step of whatever operation failed.     *)
NoDanglingTable ==
    \A o \in Running : holds[o] \subseteq loaded \cup retained

(* Core's lobby guard, which may look between any two steps, sees every     *)
(* copy that can run and is not multiplayer-safe: retained, half-started    *)
(* and degraded ones included.                                              *)
BlockersCover ==
    \A o \in Running : ~copy[o].safe => Id(o) \in blockers

(* At most one copy of a plugin is active, and only active copies answer    *)
(* service queries.                                                         *)
OneActiveCopy ==
    /\ \A o, p \in loaded \cup starting : Id(o) = Id(p) => o = p
    /\ tables \subseteq loaded

(* A reload that ran to its end left the same plugins active as before it.  *)
ReloadRestores ==
    kind = "reload" /\ phase = "load" /\ queue = <<>> => IdsOf(loaded) = before

(* Once a rollback was incomplete nothing is unloaded, started or committed *)
(* until the game restarts: not by the rest of the operation it hit either. *)
HaltFreezes ==
    [][halt # {} => UNCHANGED <<copyVars, starting, halt>>]_vars

(* Every operation ends, and the next one can run. *)
OperationEnds == phase # "idle" ~> phase = "idle"

(* The plugins that are not multiplayer-safe run only with Core's guard in  *)
(* place (multiplayer.rs:14-16).                                            *)
UnsafeNeedsGuard == ~guarded => \A o \in loaded \cup starting : copy[o].safe

(* dependants can order what holds i's tables: no two loaded copies hold    *)
(* each other's, directly or through others (lifecycle.rs:450-452).         *)
HoldersOrdered ==
    \A S \in SUBSET IdsOf(loaded) :
        S # {} => \E i \in S : \A p \in loaded :
                      Id(p) \in S \ {i} => p \notin Consumers(i)
=============================================================================
