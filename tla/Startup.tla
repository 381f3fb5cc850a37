------------------------------ MODULE Startup ------------------------------
(***************************************************************************)
(* Starting the loader in the game (bootstrap.rs, host.rs): the host       *)
(* thread waits for the game's modules, then initializes the plugins of    *)
(* the plan in order. Managed plugins stage their writes; before each      *)
(* legacy plugin and at the end finalize_patch_plan refuses the losers of  *)
(* overlaps, publishes the rest in one transaction and rolls back what it  *)
(* could not publish (lifecycle.rs).                                       *)
(*                                                                         *)
(* The hooks of a plugin are the spans it writes; how they are written is  *)
(* the subject of Hooks.                                                   *)
(***************************************************************************)
EXTENDS Integers, Sequences, Functions, TLAPS

CONSTANTS
    Order,         \* the plan's initialization order, plugin IDs
    LegacyIds,     \* those without a manifest
    SafeIds,       \* those whose manifest declares multiplayer_safe
    ReloadableIds, \* those whose manifest declares hot_reload
    Depends,       \* [ID -> the IDs its manifest depends on]
    Stages,        \* [ID -> the sets of spans its init may ask for]
    CoreId,        \* defiance.core, which hooks the lobby connection
    GuardSpan      \* the span of that hook

Planned == Range(Order)

ASSUME StartupAssumption ==
    /\ Order \in Seq(Planned) /\ IsInjective(Order)
    /\ LegacyIds \subseteq Planned /\ SafeIds \cup ReloadableIds \subseteq Planned \ LegacyIds
    /\ \A i \in LegacyIds : Depends[i] = {}
    /\ \A k \in 1..Len(Order) :       \* the planner's order, see PluginPlan
          /\ Depends[Order[k]] \subseteq {Order[j] : j \in 1..(k - 1)}
          /\ Order[k] \in SafeIds \cup {CoreId} \cup
                 (IF CoreId \in {Order[j] : j \in 1..(k - 1)} \/ CoreId \notin Planned
                  THEN Planned ELSE {})

VARIABLES
    status,       \* DEFIANCE_LOADER_STATE
    startStep,    \* what the host thread does
    index,        \* of the plugin in Order
    runState,     \* StartupResult.states
    degraded,     \* StartupResult.degraded
    activeSet,    \* run_plan's `active'
    staged,       \* the spans of STAGED, by owner
    installed,    \* the spans of INSTALLED, by owner
    recorded,     \* lifecycle::LOADED
    pending,      \* lifecycle::PENDING
    keptMapped,   \* lifecycle::RETAINED
    tablesHeld,   \* [owner -> the providers whose tables it has]
    unmapped,     \* libraries freed
    reported,     \* multiplayer::GUARDED
    blocking,     \* multiplayer::BLOCKERS: {} or {the list}
    retryable,    \* reload::STARTUP_FAILURES
    watching,     \* the watcher has a thread
    rollback      \* the owners finalize_patch_plan has yet to discard, and why

storeVars == <<staged, installed, recorded, pending, keptMapped, tablesHeld, unmapped>>
resultVars == <<blocking, retryable, watching>>
startupVars == <<status, startStep, index, runState, degraded, activeSet, storeVars,
                 reported, resultVars, rollback>>

Spans == UNION {UNION Stages[i] : i \in Planned}
Nothing == [i \in Planned |-> {}]
Rollbacks == [why : {"none", "refuse", "abandon", "unpublished"},
              todo : SUBSET Planned, refused : SUBSET Planned, owners : SUBSET Planned]
NoRollback == [why |-> "none", todo |-> {}, refused |-> {}, owners |-> {}]

StartupTypeOK ==
    /\ status \in {"dormant", "starting", "ready", "failed"}
    /\ startStep \in {"attach", "wait", "plan", "init", "finalize", "refuse", "rest",
               "publish", "record", "watch", "done"}
    /\ index \in 1..(Len(Order) + 1)
    /\ runState \in [Planned -> {"not initialized", "active", "blocked", "failed"}]
    /\ degraded \in BOOLEAN /\ activeSet \subseteq Planned
    /\ {staged, installed} \subseteq [Planned -> SUBSET Spans]
    /\ recorded \cup pending \cup keptMapped \cup unmapped \subseteq Planned
    /\ tablesHeld \in [Planned -> SUBSET Planned]
    /\ reported \in BOOLEAN /\ blocking \subseteq SUBSET Planned
    /\ retryable \subseteq ReloadableIds /\ watching \in BOOLEAN
    /\ rollback \in Rollbacks

StartupInit ==
    /\ status = "dormant" /\ startStep = "attach" /\ index = 1
    /\ runState = [i \in Planned |-> "not initialized"]
    /\ degraded = FALSE /\ activeSet = {}
    /\ staged = Nothing /\ installed = Nothing
    /\ recorded = {} /\ pending = {} /\ keptMapped = {}
    /\ tablesHeld = Nothing /\ unmapped = {}
    /\ reported = FALSE /\ blocking = {} /\ rollback = NoRollback
    /\ retryable = {} /\ watching = FALSE

----------------------------------------------------------------------------
(* LoaderState::fail and ready. *)
Fail == IF status = "starting" THEN "failed" ELSE status
ReadyNow == IF status = "starting" THEN "ready" ELSE status

(* DllMain: the host gets a thread of its own, or there is none. *)
DllMain ==
    /\ startStep = "attach"
    /\ \/ status' = "starting" /\ startStep' = "wait"
       \/ status' = "failed" /\ startStep' = "done"
    /\ UNCHANGED <<index, runState, degraded, activeSet, storeVars, reported,
                   resultVars, rollback>>

(* run: not the game's process, a configuration that stops startup, or a    *)
(* module that did not load in time.                                        *)
RunReturns ==
    /\ startStep = "wait"
    /\ startStep' = "done" /\ status' = Fail
    /\ UNCHANGED <<index, runState, degraded, activeSet, storeVars, reported,
                   resultVars, rollback>>

ModulesLoaded ==
    /\ startStep = "wait"
    /\ startStep' = "plan"
    /\ UNCHANGED <<status, index, runState, degraded, activeSet, storeVars,
                   reported, resultVars, rollback>>

----------------------------------------------------------------------------
(* run_plan. *)

Current == Order[index]

(* The next plugin; a legacy one after what is staged is published. *)
NextPlugin ==
    /\ startStep = "plan"
    /\ startStep' = IF index > Len(Order) \/ Current \in LegacyIds THEN "finalize" ELSE "init"
    /\ UNCHANGED <<status, index, runState, degraded, activeSet, storeVars,
                   reported, resultVars, rollback>>

NotActive == {d \in Depends[Current] : d \notin activeSet}
MayStart ==
    /\ ~degraded /\ NotActive = {}
    /\ Current \in SafeIds \/ reported

(* Core is multiplayer-safe; plugins that are not wait for its report. *)
Refused ==
    /\ startStep = "init" /\ ~MayStart
    /\ runState' = [runState EXCEPT ![Current] = "blocked"]
    /\ startStep' = "plan" /\ index' = index + 1
    /\ UNCHANGED <<status, degraded, activeSet, storeVars, reported, resultVars,
                   rollback>>

(* What an init asks for: a request over an installed span is refused, a   *)
(* legacy plugin's also over a staged one, and they are written at once.    *)
Asked(i, S) ==
    /\ S \in Stages[i]
    /\ S \cap UNION {installed[j] : j \in Planned} = {}
    /\ i \in LegacyIds => S \cap UNION {staged[j] : j \in Planned} = {}

(* Core reports the guard when its request was accepted. *)
Reports(i, S) == reported' = (reported \/ (i = CoreId /\ GuardSpan \in S))

Initialized ==
    /\ startStep = "init" /\ MayStart
    /\ \E S \in Stages[Current] :
          /\ Asked(Current, S)
          /\ Reports(Current, S)
          /\ IF Current \in LegacyIds
             THEN /\ installed' = [installed EXCEPT ![Current] = S]
                  /\ recorded' = recorded \cup {Current}
                  /\ UNCHANGED <<staged, pending>>
             ELSE /\ staged' = [staged EXCEPT ![Current] = S]
                  /\ pending' = pending \cup {Current}
                  /\ UNCHANGED <<installed, recorded>>
    /\ \E T \in SUBSET Depends[Current] :
          tablesHeld' = [tablesHeld EXCEPT ![Current] = T]
    /\ runState' = [runState EXCEPT ![Current] = "active"]
    /\ activeSet' = activeSet \cup {Current}
    /\ startStep' = "plan" /\ index' = index + 1
    /\ UNCHANGED <<status, degraded, keptMapped, unmapped, resultVars, rollback>>

(* init failed, or its requests did not match its contract: what it asked   *)
(* for is taken back, except spans of a legacy plugin that stay written.    *)
InitFails ==
    /\ startStep = "init" /\ MayStart
    /\ \E S \in Stages[Current] :
          /\ Asked(Current, S)
          /\ Reports(Current, S)
          /\ \/ degraded' = FALSE /\ UNCHANGED installed
             \/ /\ Current \in LegacyIds /\ S # {}
                /\ degraded' = TRUE
                /\ \E T \in SUBSET S \ {{}} : installed' = [installed EXCEPT ![Current] = T]
    /\ runState' = [runState EXCEPT ![Current] = "failed"]
    /\ startStep' = "plan" /\ index' = index + 1
    /\ UNCHANGED <<status, activeSet, staged, recorded, pending, keptMapped,
                   tablesHeld, unmapped, resultVars, rollback>>

----------------------------------------------------------------------------
(* lifecycle::discard_started. *)

Mapped == recorded \cup pending \cup keptMapped

HeldByConsumer(o) == \E c \in Mapped \ {o} : o \in tablesHeld[c]

Forget(o) == recorded' = recorded \ {o} /\ pending' = pending \ {o}

(* Its squad panel callbacks cannot be retired: it is kept as it is. *)
DiscardBusy(o) ==
    /\ Forget(o)
    /\ keptMapped' = keptMapped \cup {o}
    /\ UNCHANGED <<staged, installed, tablesHeld, unmapped>>

(* A span cannot be restored: it counts as loaded. *)
DiscardDegraded(o) ==
    /\ installed[o] # {}
    /\ \E S \in SUBSET installed[o] \ {{}} :
          installed' = [installed EXCEPT ![o] = S]
    /\ staged' = [staged EXCEPT ![o] = {}]
    /\ recorded' = recorded \cup {o} /\ pending' = pending \ {o}
    /\ UNCHANGED <<keptMapped, tablesHeld, unmapped>>

(* Kept mapped for a consumer or a thread in its code, or freed. *)
DiscardDone(o) ==
    /\ staged' = [staged EXCEPT ![o] = {}]
    /\ installed' = [installed EXCEPT ![o] = {}]
    /\ Forget(o)
    /\ \/ keptMapped' = keptMapped \cup {o} /\ UNCHANGED <<tablesHeld, unmapped>>
       \/ /\ ~HeldByConsumer(o)
          /\ tablesHeld' = [tablesHeld EXCEPT ![o] = {}]
          /\ unmapped' = unmapped \cup {o}
          /\ UNCHANGED keptMapped

DiscardFails(o) == DiscardBusy(o) \/ DiscardDegraded(o)

----------------------------------------------------------------------------
(* finalize_patch_plan. *)

Managed == {i \in Planned \ LegacyIds : runState[i] = "active"}

Before(i, j) == \E k, l \in DOMAIN Order : k < l /\ Order[k] = i /\ Order[l] = j

(* Owners are discarded backwards: the latest in plan order first. *)
Latest(o, S) == \A p \in S \ {o} : Before(p, o)

(* The first owner in plan order wins an overlap: A is the set of those     *)
(* that overlap neither a written span nor one staged by an earlier winner. *)
Accepts(A) ==
    \A i \in Managed :
        i \in A <=> /\ \A j \in Planned \ {i} : staged[i] \cap installed[j] = {}
                   /\ \A j \in A : Before(j, i) => staged[i] \cap staged[j] = {}

(* Mutant: only the losers themselves are blocked. *)
BlockedAlone(A) == Managed \ A

(* The losers and everything that depends on one. *)
Blocked(A) ==
    {o \in Managed : \A B \in SUBSET Managed :
        (Managed \ A \subseteq B /\
         \A i \in Managed : Depends[i] \cap B # {} => i \in B) => o \in B}

Finalize ==
    /\ startStep = "finalize"
    /\ IF degraded
       THEN /\ startStep' = "rest"
            /\ rollback' = [why |-> "abandon", todo |-> Managed, refused |-> {},
                            owners |-> Managed]
       ELSE /\ startStep' = "refuse"
            /\ \E A \in SUBSET Managed :
                  /\ Accepts(A)
                  /\ rollback' = [why |-> "refuse", todo |-> Blocked(A),
                                  refused |-> Managed \ A, owners |-> Managed]
    /\ UNCHANGED <<status, index, runState, degraded, activeSet, storeVars,
                   reported, resultVars>>

Settle(o, state) ==
    /\ activeSet' = activeSet \ {o}
    /\ runState' = [runState EXCEPT ![o] = state]
    /\ rollback' = [rollback EXCEPT !.todo = @ \ {o}]

(* The owners of the finalized plan that are still active. *)
StillActive == {o \in rollback.owners : runState[o] = "active"}

RefuseNext ==
    /\ startStep = "refuse"
    /\ \E o \in rollback.todo :
          /\ Latest(o, rollback.todo)
          /\ Settle(o, IF o \in rollback.refused THEN "failed" ELSE "blocked")
          /\ \/ DiscardDone(o) /\ UNCHANGED degraded
             \/ DiscardFails(o) /\ degraded' = TRUE
    /\ UNCHANGED <<status, startStep, index, reported, resultVars>>

(* Nothing more is started after a rollback that failed. *)
Refusals ==
    /\ startStep = "refuse" /\ rollback.todo = {}
    /\ IF degraded
       THEN /\ startStep' = "rest"
            /\ rollback' = [rollback EXCEPT !.why = "abandon", !.todo = StillActive]
            /\ UNCHANGED staged
       ELSE /\ startStep' = "publish"
            /\ staged' = [o \in Planned |->
                           IF o \in rollback.owners \ StillActive THEN {} ELSE staged[o]]
            /\ UNCHANGED rollback
    /\ UNCHANGED <<status, index, runState, degraded, activeSet, installed,
                   recorded, pending, keptMapped, tablesHeld, unmapped,
                   reported, resultVars>>

CommitPending(S) ==
    /\ recorded' = recorded \cup (pending \cap S)
    /\ pending' = pending \ S

Finalized ==
    IF index > Len(Order) THEN startStep' = "record" ELSE startStep' = "init"

Overlapping ==
    \E i, j \in Planned : i # j /\ staged[i] \cap (staged[j] \cup installed[j]) # {}

(* commit_staged wrote the plan, or left it partial. *)
Publish ==
    /\ startStep = "publish"
    /\ ~Overlapping
    /\ installed' = [o \in Planned |->
                        IF o \in StillActive THEN installed[o] \cup staged[o] ELSE installed[o]]
    /\ staged' = [o \in Planned |-> IF o \in StillActive THEN {} ELSE staged[o]]
    /\ CommitPending(StillActive)
    /\ degraded' \in BOOLEAN
    /\ rollback' = NoRollback
    /\ Finalized
    /\ UNCHANGED <<status, index, runState, activeSet, keptMapped, tablesHeld,
                   unmapped, reported, resultVars>>

(* It was refused before it wrote anything: every managed plugin goes, also *)
(* one that an earlier plan published.                                      *)
PublishRefused ==
    /\ startStep = "publish"
    /\ startStep' = "rest"
    /\ rollback' = [rollback EXCEPT !.why = "unpublished", !.todo = StillActive]
    /\ UNCHANGED <<status, index, runState, degraded, activeSet, storeVars,
                   reported, resultVars>>

DiscardRest ==
    /\ startStep = "rest"
    /\ \E o \in rollback.todo :
          /\ Latest(o, rollback.todo)
          /\ Settle(o, IF rollback.why = "unpublished" THEN "failed" ELSE "blocked")
          /\ \/ DiscardDone(o) /\ UNCHANGED degraded
             \/ DiscardFails(o) /\ degraded' = TRUE
    /\ UNCHANGED <<status, startStep, index, reported, resultVars>>

RestDiscarded ==
    /\ startStep = "rest" /\ rollback.todo = {}
    /\ staged' = [o \in Planned |-> IF o \in rollback.owners THEN {} ELSE staged[o]]
    /\ rollback' = NoRollback
    /\ Finalized
    /\ UNCHANGED <<status, index, runState, degraded, activeSet, installed,
                   recorded, pending, keptMapped, tablesHeld, unmapped,
                   reported, resultVars>>

(* remember_startup, multiplayer::record and the status, once the plan has  *)
(* run.                                                                     *)
Retryable ==
    IF degraded THEN {} ELSE {i \in ReloadableIds : runState[i] = "failed"}

Record ==
    /\ startStep = "record"
    /\ retryable' = Retryable
    /\ blocking' = {{i \in Planned : runState[i] = "active" /\ i \notin SafeIds}}
    /\ status' = IF degraded THEN Fail ELSE ReadyNow
    /\ startStep' = "watch"
    /\ UNCHANGED <<index, runState, degraded, activeSet, storeVars, reported,
                   watching, rollback>>

(* start_watcher: with hot_reload or live_toggle, if it gets its thread. *)
StartWatcher ==
    /\ startStep = "watch"
    /\ watching' \in IF degraded THEN {FALSE} ELSE BOOLEAN
    /\ startStep' = "done"
    /\ UNCHANGED <<status, index, runState, degraded, activeSet, storeVars, reported,
                   blocking, retryable, rollback>>

StartupNext ==
    \/ DllMain \/ RunReturns \/ ModulesLoaded
    \/ NextPlugin \/ Refused \/ Initialized \/ InitFails
    \/ Finalize \/ RefuseNext \/ Refusals \/ Publish \/ PublishRefused
    \/ DiscardRest \/ RestDiscarded \/ Record \/ StartWatcher

StartupSpec == StartupInit /\ [][StartupNext]_startupVars /\ WF_startupVars(StartupNext)

----------------------------------------------------------------------------
Finished == startStep = "done" /\ blocking # {}

(* However plugins fail, lose an overlap or are rolled back, run_plan ends  *)
(* with no active plugin whose dependency is not active.                    *)
DependenciesActive ==
    Finished => \A i \in Planned : runState[i] = "active" =>
        \A d \in Depends[i] : runState[d] = "active"

(* When startup is not degraded, the plugins with written spans, the ones   *)
(* recorded as loaded and the ones reported active are the same; nothing    *)
(* stays staged, and no plugin waits in PENDING for a commit that has been. *)
(* A plugin whose startup may be tried again has nothing written and no     *)
(* record of a copy.                                                        *)
StatesAgree ==
    Finished =>
        /\ \A i \in Planned : staged[i] = {}
        /\ pending = {}
        /\ ~degraded => /\ recorded = {i \in Planned : runState[i] = "active"}
                        /\ \A i \in Planned : installed[i] # {} => i \in recorded
        /\ \A i \in retryable : installed[i] = {} /\ i \notin recorded

(* What is handed to commit_staged has no overlap left: one would make it   *)
(* refuse the whole plan, and with it every managed plugin.                 *)
PlanHasNoOverlap == startStep = "publish" => ~Overlapping

(* finalize_patch_plan discards plugins whose tables others already have:   *)
(* no library is unmapped while a plugin that is loaded, waiting or kept    *)
(* mapped has its table.                                                    *)
NoTableOfUnmapped ==
    \A c \in Mapped : tablesHeld[c] \cap unmapped = {}

(* A plugin is active only with what it depends on, the reported states are *)
(* the stores', the plan handed to commit has no overlap and no table is of *)
(* an unmapped library.                                                     *)
StartupSound ==
    /\ StartupTypeOK /\ DependenciesActive /\ StatesAgree
    /\ PlanHasNoOverlap /\ NoTableOfUnmapped

(* A launcher that polls DEFIANCE_LOADER_STATE gets an answer, whichever    *)
(* way the host thread ends.                                                *)
StartupReports == startStep # "attach" ~> status \in {"ready", "failed"}

----------------------------------------------------------------------------
(* The inductive invariant. Ahead of index nothing has started; `active'    *)
(* and the reported states name the same plugins.                           *)
ActiveAgrees ==
    /\ activeSet = {i \in Planned : runState[i] = "active"}
    /\ \A k \in index..Len(Order) : runState[Order[k]] = "not initialized"

(* What the rollback under way will leave is closed under dependencies.     *)
Left == activeSet \ rollback.todo
DependenciesLeft == \A i \in Left : Depends[i] \subseteq Left

(* The rollback goes over managed plugins that are active, and reaches all  *)
(* of them when the plan is given up.                                       *)
Rolling == startStep \in {"refuse", "publish", "rest"}
RollbackFits ==
    /\ rollback.todo \subseteq activeSet \ LegacyIds
    /\ rollback.owners \cap LegacyIds = {}
    /\ Rolling => activeSet \ LegacyIds \subseteq rollback.owners
    /\ startStep = "rest" => activeSet \ LegacyIds \subseteq rollback.todo
    /\ startStep = "publish" => rollback.todo = {} /\ ~degraded
    /\ ~Rolling => rollback = NoRollback
    /\ startStep = "init" => index \in DOMAIN Order

(* Who has spans staged, and who waits for the commit.                      *)
StoresFit ==
    /\ \A i \in Planned : staged[i] # {} =>
           i \notin LegacyIds /\ i \in activeSet \cup rollback.owners
    /\ startStep = "publish" => \A i \in Planned : staged[i] # {} => i \in activeSet
    /\ pending \subseteq activeSet \ LegacyIds
    /\ activeSet \subseteq recorded \cup pending
    /\ ~degraded => /\ recorded \cup pending \subseteq activeSet
                    /\ \A i \in Planned : installed[i] # {} => i \in recorded

(* What is left of the plan overlaps nothing, so far as nothing went wrong. *)
NoOverlapLeft ==
    startStep \in {"refuse", "publish"} /\ ~degraded =>
        \A i \in Left : \A j \in Planned \ {i} :
            /\ staged[i] \cap installed[j] = {}
            /\ j \in Left => staged[i] \cap staged[j] = {}

(* Freed libraries are of plugins that failed or were blocked.              *)
UnmappedGone == \A i \in unmapped : runState[i] \in {"failed", "blocked"}

(* After the last finalization the stores are settled and stay so.          *)
Reported == startStep = "watch" \/ Finished
SettledStores ==
    /\ startStep = "record" \/ Reported => pending = {} /\ staged = Nothing
    /\ ~Reported => blocking = {} /\ retryable = {}
    /\ startStep = "watch" => blocking # {}
    /\ \A i \in retryable : installed[i] = {} /\ i \notin recorded

StartupInv ==
    /\ StartupTypeOK /\ ActiveAgrees /\ DependenciesLeft /\ RollbackFits /\ StoresFit
    /\ NoOverlapLeft /\ UnmappedGone /\ NoTableOfUnmapped /\ SettledStores

(* The plan's order lists every planned plugin, and each after what it      *)
(* depends on.                                                              *)
LEMMA Ordered ==
    /\ DOMAIN Order = 1..Len(Order) /\ Len(Order) \in Nat /\ 1 \in 1..(Len(Order) + 1)
    /\ \A k \in 1..Len(Order) : Order[k] \in Planned
    /\ \A i \in Planned : Depends[i] \subseteq Planned
    /\ \A j, k \in 1..Len(Order) : Order[j] = Order[k] => j = k
  <1>1. Order \in Seq(Planned) /\ IsInjective(Order)
    BY StartupAssumption
  <1>2. DOMAIN Order = 1..Len(Order) /\ Len(Order) \in Nat
        /\ \A k \in 1..Len(Order) : Order[k] \in Planned
    BY <1>1
  <1>3. ASSUME NEW i \in Planned PROVE Depends[i] \subseteq Planned
    <2>1. PICK k \in 1..Len(Order) : Order[k] = i
      BY <1>2 DEF Planned, Range
    <2>2. Depends[i] \subseteq {Order[j] : j \in 1..(k - 1)}
      BY <2>1, StartupAssumption
    <2>3. \A j \in 1..(k - 1) : j \in 1..Len(Order)
      BY <2>1, <1>2
    <2> QED  BY <2>2, <2>3, <1>2
  <1>4. \A j, k \in 1..Len(Order) : Order[j] = Order[k] => j = k
    BY <1>1, <1>2 DEF IsInjective
  <1>5. 1 \in 1..(Len(Order) + 1)
    BY <1>2
  <1> QED  BY <1>2, <1>3, <1>4, <1>5

(* Before DllMain nothing has started.                                      *)
LEMMA StartupBegins == StartupInit => StartupInv
  <1> SUFFICES ASSUME StartupInit PROVE StartupInv
    OBVIOUS
  <1> USE DEF StartupInit, Nothing
  <1>1. StartupTypeOK
    <2>1. NoRollback \in Rollbacks
      BY DEF NoRollback, Rollbacks
    <2> QED  BY <2>1, Ordered DEF StartupTypeOK
  <1>2. ActiveAgrees
    BY Ordered DEF ActiveAgrees
  <1>3. DependenciesLeft /\ RollbackFits
    BY DEF DependenciesLeft, Left, RollbackFits, Rolling, NoRollback
  <1>4. StoresFit /\ NoOverlapLeft /\ UnmappedGone
    BY DEF StoresFit, NoOverlapLeft, UnmappedGone
  <1>5. NoTableOfUnmapped /\ SettledStores
    BY DEF NoTableOfUnmapped, Mapped, SettledStores, Reported, Finished
  <1> QED  BY <1>1, <1>2, <1>3, <1>4, <1>5 DEF StartupInv

(* What the invariant promises of the rest of a run.                        *)
LEMMA InvSound == StartupInv => StartupSound
  <1> SUFFICES ASSUME StartupInv PROVE StartupSound
    OBVIOUS
  <1>1. StartupTypeOK /\ NoTableOfUnmapped
    BY DEF StartupInv
  <1>2. DependenciesActive
    <2> SUFFICES ASSUME Finished, NEW i \in Planned, runState[i] = "active",
                        NEW d \in Depends[i]
                 PROVE  runState[d] = "active"
      BY DEF DependenciesActive
    <2>1. rollback.todo = {}
      BY DEF StartupInv, RollbackFits, Rolling, NoRollback, Finished
    <2>2. i \in Left /\ Left = activeSet
      BY <2>1 DEF StartupInv, Left, ActiveAgrees
    <2> QED  BY <2>2 DEF StartupInv, DependenciesLeft, ActiveAgrees
  <1>3. StatesAgree
    BY DEF StatesAgree, StartupInv, SettledStores, Reported, StoresFit, ActiveAgrees,
           Nothing, Finished
  <1>4. PlanHasNoOverlap
    BY DEF PlanHasNoOverlap, Overlapping, StartupInv, NoOverlapLeft, Left, RollbackFits,
           StoresFit
  <1> QED  BY <1>1, <1>2, <1>3, <1>4 DEF StartupSound

(* The plugin whose turn it is has not started, and no later one is it.     *)
LEMMA CurrentIsNew ==
    ASSUME StartupInv, startStep = "init"
    PROVE  /\ Current \in Planned /\ runState[Current] = "not initialized"
           /\ Current \notin activeSet /\ index + 1 \in 1..(Len(Order) + 1)
           /\ \A k \in (index + 1)..Len(Order) : k \in index..Len(Order) /\ Order[k] # Current
  <1>1. index \in 1..Len(Order) /\ Len(Order) \in Nat
    BY Ordered DEF StartupInv, RollbackFits
  <1>2. index + 1 \in 1..(Len(Order) + 1) /\ index \in index..Len(Order)
    BY <1>1
  <1>3. Current \in Planned
    BY <1>1, Ordered DEF Current
  <1>4. runState[Current] = "not initialized"
    BY <1>2 DEF StartupInv, ActiveAgrees, Current
  <1>5. Current \notin activeSet
    BY <1>4 DEF StartupInv, ActiveAgrees
  <1>6. ASSUME NEW k \in (index + 1)..Len(Order)
        PROVE  k \in index..Len(Order) /\ Order[k] # Current
    <2>1. k \in 1..Len(Order) /\ k # index /\ k \in index..Len(Order)
      BY <1>1
    <2> QED  BY <2>1, <1>1, Ordered DEF Current
  <1> QED  BY <1>2, <1>3, <1>4, <1>5, <1>6

(* Steps that only move the host thread on.                                 *)
LEMMA HostSteps ==
    ASSUME StartupInv, DllMain \/ RunReturns \/ ModulesLoaded \/ NextPlugin
    PROVE  StartupInv'
  <1> USE DEF DllMain, RunReturns, ModulesLoaded, NextPlugin, storeVars, resultVars
  <1>1. StartupTypeOK'
    BY DEF StartupInv, StartupTypeOK, Fail
  <1>2. ActiveAgrees' /\ DependenciesLeft' /\ UnmappedGone' /\ NoTableOfUnmapped'
    BY DEF StartupInv, ActiveAgrees, DependenciesLeft, Left, UnmappedGone,
           NoTableOfUnmapped, Mapped
  <1>3. RollbackFits'
    <2>1. ASSUME NextPlugin, startStep' = "init" PROVE index \in DOMAIN Order
      <3>1. index \in 1..(Len(Order) + 1) /\ ~(index > Len(Order)) /\ Len(Order) \in Nat
        BY <2>1, Ordered DEF StartupInv, StartupTypeOK
      <3>2. index \in 1..Len(Order)
        BY <3>1
      <3> QED  BY <3>2, Ordered
    <2>2. rollback = NoRollback /\ rollback' = rollback
      BY DEF StartupInv, RollbackFits, Rolling
    <2> QED  BY <2>1, <2>2 DEF StartupInv, RollbackFits, Rolling
  <1>4. StoresFit' /\ NoOverlapLeft' /\ SettledStores'
    BY DEF StartupInv, StoresFit, NoOverlapLeft, SettledStores, Reported, Finished
  <1> QED  BY <1>1, <1>2, <1>3, <1>4 DEF StartupInv

(* What the host thread reports when the plan has run.                      *)
LEMMA ReportSteps ==
    ASSUME StartupInv, Record \/ StartWatcher
    PROVE  StartupInv'
  <1> USE DEF Record, StartWatcher, storeVars
  <1>1. StartupTypeOK'
    <2>1. /\ retryable' \subseteq ReloadableIds /\ watching' \in BOOLEAN
          /\ blocking' \subseteq SUBSET Planned
      BY DEF StartupInv, StartupTypeOK, Retryable
    <2>2. status' \in {"dormant", "starting", "ready", "failed"}
      BY DEF StartupInv, StartupTypeOK, Fail, ReadyNow
    <2> QED  BY <2>1, <2>2 DEF StartupInv, StartupTypeOK
  <1>2. ActiveAgrees' /\ DependenciesLeft' /\ UnmappedGone' /\ NoTableOfUnmapped'
    BY DEF StartupInv, ActiveAgrees, DependenciesLeft, Left, UnmappedGone,
           NoTableOfUnmapped, Mapped
  <1>3. RollbackFits'
    BY DEF StartupInv, RollbackFits, Rolling
  <1>4. StoresFit' /\ NoOverlapLeft'
    BY DEF StartupInv, StoresFit, NoOverlapLeft
  <1>5. SettledStores'
    <2>1. CASE Record
      <3>1. ASSUME NEW i \in retryable' PROVE installed[i] = {} /\ i \notin recorded
        BY <2>1, StartupAssumption
        DEF Retryable, StartupInv, StoresFit, ActiveAgrees
      <3>2. startStep' = "watch" /\ pending = {} /\ staged = Nothing
        BY <2>1 DEF StartupInv, SettledStores
      <3> QED  BY <2>1, <3>1, <3>2 DEF SettledStores, Reported
    <2>2. CASE StartWatcher
      <3>1. pending = {} /\ staged = Nothing
            /\ \A i \in retryable : installed[i] = {} /\ i \notin recorded
        BY <2>2 DEF StartupInv, SettledStores, Reported
      <3>2. Reported'
        BY <2>2 DEF StartupInv, SettledStores, Reported, Finished
      <3> QED  BY <2>2, <3>1, <3>2 DEF SettledStores, Reported
    <2> QED  BY <2>1, <2>2
  <1> QED  BY <1>1, <1>2, <1>3, <1>4, <1>5 DEF StartupInv

(* While plugins are initialized no rollback is under way.                  *)
LEMMA InitIsQuiet ==
    ASSUME StartupInv, startStep = "init"
    PROVE  /\ rollback = NoRollback /\ rollback.todo = {} /\ rollback.owners = {}
           /\ Left = activeSet /\ blocking = {} /\ retryable = {}
  BY DEF StartupInv, RollbackFits, Rolling, NoRollback, Left, SettledStores, Reported, Finished

(* A plugin's turn ends with its new state and the next index.              *)
LEMMA TurnTaken ==
    ASSUME StartupInv, startStep = "init", NEW state \in {"active", "blocked", "failed"},
           runState' = [runState EXCEPT ![Current] = state], index' = index + 1,
           activeSet' = IF state = "active" THEN activeSet \cup {Current} ELSE activeSet
    PROVE  /\ ActiveAgrees' /\ index' \in 1..(Len(Order) + 1)
           /\ runState' \in [Planned -> {"not initialized", "active", "blocked", "failed"}]
           /\ activeSet' \subseteq Planned
           /\ \A i \in Planned : runState[i] \in {"failed", "blocked"} =>
                  runState'[i] \in {"failed", "blocked"}
  <1>1. /\ runState \in [Planned -> {"not initialized", "active", "blocked", "failed"}]
        /\ activeSet = {i \in Planned : runState[i] = "active"}
        /\ \A k \in index..Len(Order) : runState[Order[k]] = "not initialized"
        /\ index \in 1..(Len(Order) + 1) /\ Len(Order) \in Nat
    BY Ordered DEF StartupInv, StartupTypeOK, ActiveAgrees
  <1> HIDE DEF StartupInv
  <1>2. \A i \in Planned : runState'[i] = IF i = Current THEN state ELSE runState[i]
    BY <1>1
  <1>3. activeSet' = {i \in Planned : runState'[i] = "active"}
    BY <1>1, <1>2, CurrentIsNew
  <1>4. ASSUME NEW k \in (index + 1)..Len(Order)
        PROVE  runState'[Order[k]] = "not initialized"
    <2>1. k \in index..Len(Order) /\ Order[k] # Current
      BY CurrentIsNew
    <2>2. k \in 1..Len(Order)
      <3>1. index \in 1..(Len(Order) + 1) /\ Len(Order) \in Nat
        BY <1>1
      <3> QED  BY <2>1, <3>1
    <2> QED  BY <2>1, <2>2, <1>1, <1>2, Ordered
  <1> QED  BY <1>1, <1>2, <1>3, <1>4, CurrentIsNew DEF ActiveAgrees

(* A plugin that may not start is blocked; nothing else changes.            *)
LEMMA RefusedSound == ASSUME StartupInv, Refused PROVE StartupInv'
  <1> USE DEF Refused, storeVars, resultVars
  <1>1. /\ ActiveAgrees' /\ index' \in 1..(Len(Order) + 1)
        /\ runState' \in [Planned -> {"not initialized", "active", "blocked", "failed"}]
        /\ \A i \in Planned : runState[i] \in {"failed", "blocked"} =>
               runState'[i] \in {"failed", "blocked"}
    BY TurnTaken
  <1>2. StartupTypeOK'
    BY <1>1 DEF StartupInv, StartupTypeOK
  <1>3. DependenciesLeft' /\ NoTableOfUnmapped'
    BY DEF StartupInv, DependenciesLeft, Left, NoTableOfUnmapped, Mapped
  <1>4. UnmappedGone'
    BY <1>1 DEF StartupInv, StartupTypeOK, UnmappedGone
  <1>5. RollbackFits' /\ StoresFit' /\ NoOverlapLeft' /\ SettledStores'
    BY InitIsQuiet DEF StartupInv, RollbackFits, Rolling, StoresFit, NoOverlapLeft,
       SettledStores, Reported, Finished
  <1> QED  BY <1>1, <1>2, <1>3, <1>4, <1>5 DEF StartupInv

(* What an init may ask for are spans of the plan.                          *)
LEMMA StagesInSpans == \A i \in Planned : \A S \in Stages[i] : S \subseteq Spans
  <1> SUFFICES ASSUME NEW i \in Planned, NEW S \in Stages[i], NEW x \in S
               PROVE  x \in Spans
    OBVIOUS
  <1>1. x \in UNION Stages[i]
    OBVIOUS
  <1> QED  BY <1>1 DEF Spans

(* A plugin that starts depends on active plugins only.                     *)
LEMMA InitializedSound == ASSUME StartupInv, Initialized PROVE StartupInv'
  <1> USE DEF Initialized, resultVars
  <1>1. PICK S \in Stages[Current] :
            IF Current \in LegacyIds
            THEN /\ installed' = [installed EXCEPT ![Current] = S]
                 /\ recorded' = recorded \cup {Current}
                 /\ staged' = staged /\ pending' = pending
            ELSE /\ staged' = [staged EXCEPT ![Current] = S]
                 /\ pending' = pending \cup {Current}
                 /\ installed' = installed /\ recorded' = recorded
    OBVIOUS
  <1>2. PICK T \in SUBSET Depends[Current] :
            tablesHeld' = [tablesHeld EXCEPT ![Current] = T]
    OBVIOUS
  <1>0. Current \in Planned /\ Current \notin activeSet
    BY CurrentIsNew
  <1>3. S \subseteq Spans /\ Depends[Current] \subseteq Planned
    <2>1. Depends[Current] \subseteq Planned
      BY <1>0, Ordered
    <2>2. S \subseteq Spans
      BY <1>0, <1>1, StagesInSpans
    <2> QED  BY <2>1, <2>2
  <1>12. /\ ActiveAgrees' /\ index' \in 1..(Len(Order) + 1)
         /\ runState' \in [Planned -> {"not initialized", "active", "blocked", "failed"}]
         /\ activeSet' \subseteq Planned
         /\ \A i \in Planned : runState[i] \in {"failed", "blocked"} =>
                runState'[i] \in {"failed", "blocked"}
    BY TurnTaken
  <1>4. StartupTypeOK'
    <2>0. {staged, installed} \subseteq [Planned -> SUBSET Spans]
      BY DEF StartupInv, StartupTypeOK
    <2>1. {staged', installed'} \subseteq [Planned -> SUBSET Spans]
      <3> HIDE DEF Initialized, StartupInv
      <3>1. CASE Current \in LegacyIds
        BY <3>1, <2>0, <1>1, <1>3, <1>0
      <3>2. CASE Current \notin LegacyIds
        BY <3>2, <2>0, <1>1, <1>3, <1>0
      <3> QED  BY <3>1, <3>2
    <2>2. tablesHeld' \in [Planned -> SUBSET Planned]
      BY <1>2, <1>3, CurrentIsNew DEF StartupInv, StartupTypeOK
    <2>3. recorded' \cup pending' \subseteq Planned
      BY <1>1, <1>0 DEF StartupInv, StartupTypeOK
    <2>4. reported' \in BOOLEAN
      BY DEF StartupInv, StartupTypeOK, Reports
    <2> QED  BY <2>1, <2>2, <2>3, <2>4, <1>12 DEF StartupInv, StartupTypeOK
  <1>6. Depends[Current] \subseteq activeSet /\ ~degraded
    BY DEF MayStart, NotActive
  <1>7. DependenciesLeft'
    BY <1>6, InitIsQuiet DEF StartupInv, DependenciesLeft, Left
  <1>8. UnmappedGone'
    BY <1>12 DEF StartupInv, StartupTypeOK, UnmappedGone
  <1>9. NoTableOfUnmapped'
    <2>1. activeSet \cap unmapped = {}
      BY DEF StartupInv, ActiveAgrees, UnmappedGone
    <2>2. ASSUME NEW c \in Mapped' PROVE tablesHeld'[c] \cap unmapped = {}
      <3>1. CASE c = Current
        BY <3>1, <1>2, <1>6, <2>1, CurrentIsNew DEF StartupInv, StartupTypeOK
      <3>2. CASE c # Current
        <4>1. c \in Mapped
          BY <3>2, <1>1 DEF Mapped
        <4>2. tablesHeld'[c] = tablesHeld[c]
          BY <3>2, <1>2, <4>1 DEF StartupInv, StartupTypeOK, Mapped
        <4> QED  BY <4>1, <4>2 DEF StartupInv, NoTableOfUnmapped
      <3> QED  BY <3>1, <3>2
    <2> QED  BY <2>2 DEF NoTableOfUnmapped
  <1>10. RollbackFits' /\ NoOverlapLeft' /\ SettledStores'
    BY InitIsQuiet DEF StartupInv, RollbackFits, Rolling, NoOverlapLeft, SettledStores,
       Reported, Finished
  <1>11. StoresFit'
    <2>1. /\ \A i \in Planned : staged[i] # {} => i \notin LegacyIds /\ i \in activeSet
          /\ pending \subseteq activeSet \ LegacyIds /\ recorded \cup pending = activeSet
          /\ \A i \in Planned : installed[i] # {} => i \in recorded
          /\ {staged, installed} \subseteq [Planned -> SUBSET Spans]
      BY <1>6, InitIsQuiet DEF StartupInv, StartupTypeOK, StoresFit
    <2>2. startStep' = "plan" /\ activeSet' = activeSet \cup {Current}
          /\ degraded' = degraded /\ rollback' = rollback
      OBVIOUS
    <2> HIDE DEF Initialized, StartupInv
    <2>3. CASE Current \in LegacyIds
      <3>1. \A i \in Planned : installed'[i] = IF i = Current THEN S ELSE installed[i]
        BY <2>1, <2>3, <1>1
      <3> QED  BY <2>1, <2>2, <2>3, <3>1, <1>0, <1>1 DEF StoresFit
    <2>4. CASE Current \notin LegacyIds
      <3>1. \A i \in Planned : staged'[i] = IF i = Current THEN S ELSE staged[i]
        BY <2>1, <2>4, <1>1
      <3> QED  BY <2>1, <2>2, <2>4, <3>1, <1>0, <1>1 DEF StoresFit
    <2> QED  BY <2>3, <2>4
  <1> QED  BY <1>4, <1>7, <1>8, <1>9, <1>10, <1>11, <1>12 DEF StartupInv

(* A failed init leaves no record, and spans only when degraded.            *)
LEMMA InitFailsSound == ASSUME StartupInv, InitFails PROVE StartupInv'
  <1> USE DEF InitFails, resultVars
  <1>1. PICK S \in Stages[Current] :
            /\ Reports(Current, S)
            /\ \/ degraded' = FALSE /\ installed' = installed
               \/ /\ Current \in LegacyIds /\ S # {}
                  /\ degraded' = TRUE
                  /\ \E T \in SUBSET S \ {{}} :
                         installed' = [installed EXCEPT ![Current] = T]
    OBVIOUS
  <1>0. Current \in Planned /\ Current \notin activeSet
    BY CurrentIsNew
  <1>2. S \subseteq Spans
    <2> HIDE DEF InitFails
    <2> QED  BY <1>0, <1>1, StagesInSpans
  <1>3. installed' \in [Planned -> SUBSET Spans] /\ degraded' \in BOOLEAN
    <2>1. installed \in [Planned -> SUBSET Spans]
      BY DEF StartupInv, StartupTypeOK
    <2> HIDE DEF InitFails
    <2> QED  BY <2>1, <1>0, <1>1, <1>2
  <1>4. reported' \in BOOLEAN
    BY <1>1 DEF StartupInv, StartupTypeOK, Reports
  <1>6. /\ ActiveAgrees' /\ index' \in 1..(Len(Order) + 1)
        /\ runState' \in [Planned -> {"not initialized", "active", "blocked", "failed"}]
        /\ \A i \in Planned : runState[i] \in {"failed", "blocked"} =>
               runState'[i] \in {"failed", "blocked"}
    BY TurnTaken
  <1>5. StartupTypeOK'
    <2>1. StartupTypeOK /\ startStep' = "plan"
          /\ UNCHANGED <<status, activeSet, staged, recorded, pending, keptMapped,
                         tablesHeld, unmapped, blocking, retryable, watching, rollback>>
      BY DEF StartupInv
    <2> HIDE DEF InitFails, StartupInv
    <2> QED  BY <2>1, <1>3, <1>4, <1>6 DEF StartupTypeOK
  <1>7. DependenciesLeft' /\ NoTableOfUnmapped'
    BY DEF StartupInv, DependenciesLeft, Left, NoTableOfUnmapped, Mapped
  <1>8. UnmappedGone'
    BY <1>6 DEF StartupInv, StartupTypeOK, UnmappedGone
  <1>9. RollbackFits' /\ NoOverlapLeft' /\ SettledStores'
    BY InitIsQuiet DEF StartupInv, RollbackFits, Rolling, NoOverlapLeft, SettledStores,
       Reported, Finished
  <1>10. StoresFit'
    <2>1. ~degraded
      BY DEF MayStart
    <2> QED  BY <1>1, <2>1 DEF StartupInv, StoresFit
  <1> QED  BY <1>5, <1>6, <1>7, <1>8, <1>9, <1>10 DEF StartupInv

(* An owner of a rollback is discarded: it is active no more, and nothing   *)
(* that is loaded has its table when its library is freed.                  *)
LEMMA Discarding ==
    ASSUME StartupInv, startStep \in {"refuse", "rest"}, NEW o \in rollback.todo,
           NEW state \in {"failed", "blocked"}, Settle(o, state),
           \/ DiscardDone(o) /\ degraded' = degraded
           \/ DiscardFails(o) /\ degraded' = TRUE,
           UNCHANGED <<status, startStep, index, reported, blocking, retryable, watching>>
    PROVE  StartupInv'
  <1> HIDE DEF StartupInv
  <1>1. /\ activeSet' = activeSet \ {o} /\ rollback'.todo = rollback.todo \ {o}
        /\ rollback' = [rollback EXCEPT !.todo = @ \ {o}]
        /\ runState' = [runState EXCEPT ![o] = state]
    BY DEF StartupInv, StartupTypeOK, Rollbacks, Settle
  <1>2. o \in activeSet /\ o \in Planned \ LegacyIds /\ runState[o] = "active"
    BY DEF StartupInv, RollbackFits, ActiveAgrees
  <1>3. /\ installed \in [Planned -> SUBSET Spans] /\ staged \in [Planned -> SUBSET Spans]
        /\ recorded \cup pending \cup keptMapped \cup unmapped \subseteq Planned
        /\ tablesHeld \in [Planned -> SUBSET Planned]
        /\ runState \in [Planned -> {"not initialized", "active", "blocked", "failed"}]
    BY DEF StartupInv, StartupTypeOK
  <1>4. rollback' \in Rollbacks /\ rollback'.owners = rollback.owners
    BY <1>1 DEF StartupInv, StartupTypeOK, Rollbacks
  <1>5. \A i \in Planned : runState'[i] = IF i = o THEN state ELSE runState[i]
    BY <1>1, <1>3
  <1>6. /\ \A i \in Planned \ {o} : staged'[i] = staged[i] /\ installed'[i] = installed[i]
        /\ staged'[o] \in {staged[o], {}} /\ installed'[o] \in SUBSET installed[o]
        /\ staged' \in [Planned -> SUBSET Spans] /\ installed' \in [Planned -> SUBSET Spans]
    <2>1. CASE DiscardDone(o)
      BY <2>1, <1>2, <1>3 DEF DiscardDone
    <2>2. CASE DiscardBusy(o)
      BY <2>2, <1>2, <1>3 DEF DiscardBusy
    <2>3. CASE DiscardDegraded(o)
      <3>1. PICK S \in SUBSET installed[o] : installed' = [installed EXCEPT ![o] = S]
        BY <2>3 DEF DiscardDegraded
      <3>2. staged' = [staged EXCEPT ![o] = {}]
        BY <2>3 DEF DiscardDegraded
      <3> QED  BY <3>1, <3>2, <1>2, <1>3
    <2> QED  BY <2>1, <2>2, <2>3 DEF DiscardFails
  <1>7. /\ pending' = pending \ {o} /\ recorded' \subseteq recorded \cup {o}
        /\ recorded \ {o} \subseteq recorded'
        /\ keptMapped' \subseteq keptMapped \cup {o} /\ unmapped' \subseteq unmapped \cup {o}
    BY DEF DiscardDone, DiscardFails, DiscardBusy, DiscardDegraded, Forget
  <1>8. ~degraded' => /\ ~degraded /\ recorded' = recorded \ {o} /\ installed'[o] = {}
    BY <1>2, <1>3 DEF DiscardDone, Forget
  <1>9. tablesHeld' \in [Planned -> SUBSET Planned]
    BY <1>2, <1>3 DEF DiscardDone, DiscardFails, DiscardBusy, DiscardDegraded
  <1>10. StartupTypeOK'
    <2>1. StartupTypeOK /\ degraded' \in BOOLEAN /\ Planned \ {o} \subseteq Planned
      BY DEF StartupInv, StartupTypeOK
    <2>2. activeSet' \subseteq Planned
          /\ recorded' \cup pending' \cup keptMapped' \cup unmapped' \subseteq Planned
      BY <1>1, <1>2, <1>3, <1>7, <2>1 DEF StartupTypeOK
    <2>3. runState' \in [Planned -> {"not initialized", "active", "blocked", "failed"}]
      BY <1>1, <1>3
    <2> QED  BY <2>1, <2>2, <2>3, <1>4, <1>6, <1>9 DEF StartupTypeOK
  <1>11. ActiveAgrees'
    <2>1. /\ activeSet = {i \in Planned : runState[i] = "active"}
          /\ \A k \in index..Len(Order) : runState[Order[k]] = "not initialized"
          /\ index \in 1..(Len(Order) + 1) /\ index' = index
      BY DEF StartupInv, StartupTypeOK, ActiveAgrees
    <2>2. activeSet' = {i \in Planned : runState'[i] = "active"}
      BY <2>1, <1>1, <1>5
    <2>3. ASSUME NEW k \in index..Len(Order) PROVE runState'[Order[k]] = "not initialized"
      <3>1. index \in 1..(Len(Order) + 1) /\ Len(Order) \in Nat
        BY <2>1, Ordered
      <3>2. k \in 1..Len(Order)
        BY <3>1
      <3> QED  BY <3>2, <2>1, <1>2, <1>5, Ordered
    <2> QED  BY <2>1, <2>2, <2>3 DEF ActiveAgrees
  <1>12. Left' = Left /\ DependenciesLeft'
    <2>1. Left' = Left
      BY <1>1 DEF Left
    <2> QED  BY <2>1 DEF StartupInv, DependenciesLeft
  <1>13. RollbackFits'
    BY <1>1, <1>4 DEF StartupInv, RollbackFits, Rolling
  <1>14. StoresFit'
    BY <1>1, <1>2, <1>4, <1>6, <1>7, <1>8 DEF StartupInv, StoresFit, RollbackFits, Rolling
  <1>15. NoOverlapLeft'
    <2> SUFFICES ASSUME startStep' \in {"refuse", "publish"}, ~degraded', NEW i \in Left,
                        NEW j \in Planned \ {i}
                 PROVE  /\ staged'[i] \cap installed'[j] = {}
                        /\ j \in Left => staged'[i] \cap staged'[j] = {}
      BY <1>12 DEF NoOverlapLeft
    <2>1. i \in Planned \ {o} /\ o \notin Left
      BY <1>2 DEF Left, StartupInv, ActiveAgrees
    <2>2. staged[i] \cap installed[j] = {} /\ (j \in Left => staged[i] \cap staged[j] = {})
      BY <1>8 DEF StartupInv, NoOverlapLeft
    <2> QED  BY <2>1, <2>2, <1>6
  <1>16. UnmappedGone'
    <2> SUFFICES ASSUME NEW i \in unmapped' PROVE runState'[i] \in {"failed", "blocked"}
      BY DEF UnmappedGone
    <2>1. i \in Planned /\ (i # o => i \in unmapped)
      BY <1>2, <1>3, <1>7
    <2>2. i # o => runState[i] \in {"failed", "blocked"}
      BY <2>1 DEF StartupInv, UnmappedGone
    <2> QED  BY <2>1, <2>2, <1>5
  <1>17. NoTableOfUnmapped'
    <2>0. o \in Mapped /\ \A c \in Mapped : tablesHeld[c] \cap unmapped = {}
      BY <1>2 DEF StartupInv, StoresFit, Mapped, NoTableOfUnmapped
    <2>1. Mapped' \subseteq Mapped
      BY <2>0, <1>7 DEF Mapped
    <2>2. CASE UNCHANGED <<tablesHeld, unmapped>>
      BY <2>0, <2>1, <2>2 DEF NoTableOfUnmapped
    <2>3. CASE /\ ~HeldByConsumer(o) /\ tablesHeld' = [tablesHeld EXCEPT ![o] = {}]
               /\ unmapped' = unmapped \cup {o}
      <3>1. \A c \in Mapped' : tablesHeld'[c] = IF c = o THEN {} ELSE tablesHeld[c]
        BY <2>1, <2>3, <1>3 DEF Mapped
      <3>2. \A c \in Mapped \ {o} : o \notin tablesHeld[c]
        BY <2>3 DEF HeldByConsumer
      <3> QED  BY <2>0, <2>1, <2>3, <3>1, <3>2 DEF NoTableOfUnmapped
    <2> QED  BY <2>2, <2>3 DEF DiscardDone, DiscardFails, DiscardBusy, DiscardDegraded
  <1>18. SettledStores'
    BY DEF StartupInv, SettledStores, Reported, Finished
  <1> QED  BY <1>10, <1>11, <1>12, <1>13, <1>14, <1>15, <1>16, <1>17, <1>18 DEF StartupInv

(* Either loop over the owners to discard takes them one by one.            *)
LEMMA DiscardSteps ==
    ASSUME StartupInv, RefuseNext \/ DiscardRest
    PROVE  StartupInv'
  <1> HIDE DEF StartupInv
  <1>1. CASE RefuseNext
    BY <1>1, Discarding DEF RefuseNext, resultVars
  <1>2. CASE DiscardRest
    BY <1>2, Discarding DEF DiscardRest, resultVars
  <1> QED  BY <1>1, <1>2

(* The active managed plugins, by run_plan's set and by the plan's owners.  *)
LEMMA ActiveManaged ==
    ASSUME StartupInv
    PROVE  /\ Managed = activeSet \ LegacyIds
           /\ Rolling => StillActive = activeSet \ LegacyIds
           /\ activeSet \subseteq Planned /\ \A i \in LegacyIds : Depends[i] = {}
  BY StartupAssumption
  DEF StartupInv, StartupTypeOK, ActiveAgrees, RollbackFits, Managed, StillActive, Rollbacks

(* Without the managed plugins the active ones depend on nothing.           *)
LEMMA LegacyLeft ==
    ASSUME StartupInv, UNCHANGED activeSet, rollback'.todo = activeSet \ LegacyIds
    PROVE  DependenciesLeft'
  <1>1. Left' \subseteq LegacyIds
    BY DEF Left
  <1> QED  BY <1>1, ActiveManaged DEF DependenciesLeft

(* Of two plugins of the plan one comes first.                              *)
LEMMA OneBefore == \A i, j \in Planned : i # j => Before(i, j) \/ Before(j, i)
  <1> SUFFICES ASSUME NEW i \in Planned, NEW j \in Planned, i # j
               PROVE  Before(i, j) \/ Before(j, i)
    OBVIOUS
  <1>1. PICK k \in DOMAIN Order : Order[k] = i
    BY DEF Planned, Range
  <1>2. PICK l \in DOMAIN Order : Order[l] = j
    BY DEF Planned, Range
  <1>3. k < l \/ l < k
    <2>1. k \in Nat /\ l \in Nat /\ k # l
      BY <1>1, <1>2, Ordered
    <2> QED  BY <2>1
  <1> QED  BY <1>1, <1>2, <1>3 DEF Before

(* The winners of the overlaps are not blocked unless they depend on what   *)
(* is, and what is left then is closed under dependencies.                  *)
LEMMA BlockedCloses ==
    ASSUME StartupInv, NEW A \in SUBSET Managed
    PROVE  /\ Blocked(A) \subseteq Managed /\ Managed \ A \subseteq Blocked(A)
           /\ \A i \in Managed \ Blocked(A) : Depends[i] \cap Blocked(A) = {}
  <1>1. Blocked(A) \subseteq Managed /\ Managed \ A \subseteq Blocked(A)
    BY DEF Blocked
  <1>2. ASSUME NEW i \in Managed \ Blocked(A), NEW d \in Depends[i] \cap Blocked(A)
        PROVE  FALSE
    <2>1. PICK B \in SUBSET Managed :
             /\ Managed \ A \subseteq B /\ i \notin B
             /\ \A m \in Managed : Depends[m] \cap B # {} => m \in B
      BY DEF Blocked
    <2>2. d \in B
      BY <2>1 DEF Blocked
    <2> QED  BY <2>1, <2>2
  <1> QED  BY <1>1, <1>2

(* What Finalize will discard leaves a plan without an overlap.             *)
LEMMA FinalizeSound == ASSUME StartupInv, Finalize PROVE StartupInv'
  <1> USE DEF Finalize, storeVars, resultVars
  <1>1. rollback = NoRollback /\ rollback.todo = {} /\ Left = activeSet
    BY DEF StartupInv, RollbackFits, Rolling, NoRollback, Left
  <1>2. Managed \subseteq Planned
    BY DEF Managed
  <1>3. ActiveAgrees' /\ UnmappedGone' /\ NoTableOfUnmapped' /\ SettledStores'
    BY DEF StartupInv, ActiveAgrees, UnmappedGone, NoTableOfUnmapped, Mapped,
           SettledStores, Reported, Finished
  <1>4. StoresFit'
    BY <1>1 DEF StartupInv, StoresFit, NoRollback
  <1>5. CASE degraded
    <2>1. rollback' \in Rollbacks /\ rollback'.todo = Managed /\ rollback'.owners = Managed
      BY <1>2, <1>5 DEF Rollbacks
    <2>2. StartupTypeOK' /\ RollbackFits' /\ NoOverlapLeft'
      BY <1>5, <2>1, ActiveManaged
      DEF StartupInv, StartupTypeOK, RollbackFits, Rolling, NoOverlapLeft
    <2>3. DependenciesLeft'
      BY <2>1, ActiveManaged, LegacyLeft
    <2> QED  BY <1>3, <1>4, <2>2, <2>3 DEF StartupInv
  <1>6. CASE ~degraded
    <2>1. PICK A \in SUBSET Managed :
             /\ Accepts(A)
             /\ rollback' = [why |-> "refuse", todo |-> Blocked(A),
                             refused |-> Managed \ A, owners |-> Managed]
      BY <1>6
    <2>2. /\ Blocked(A) \subseteq Managed /\ Managed \ A \subseteq Blocked(A)
          /\ \A i \in Managed \ Blocked(A) : Depends[i] \cap Blocked(A) = {}
      BY BlockedCloses
    <2>3. rollback' \in Rollbacks
      BY <1>2, <2>1, <2>2 DEF Rollbacks
    <2>4. Left' = activeSet \ Blocked(A) /\ rollback'.owners = Managed
      BY <2>1 DEF Left
    <2>5. StartupTypeOK' /\ RollbackFits'
      BY <1>6, <2>1, <2>2, <2>3, ActiveManaged
      DEF StartupInv, StartupTypeOK, RollbackFits, Rolling
    <2>6. DependenciesLeft'
      <3> SUFFICES ASSUME NEW i \in activeSet \ Blocked(A)
                   PROVE  Depends[i] \subseteq activeSet \ Blocked(A)
        BY <2>4 DEF DependenciesLeft
      <3>1. Depends[i] \subseteq activeSet
        BY <1>1 DEF StartupInv, DependenciesLeft
      <3>2. Depends[i] \cap Blocked(A) = {}
        BY <2>2, ActiveManaged
      <3> QED  BY <3>1, <3>2
    <2>7. NoOverlapLeft'
      <3> SUFFICES ASSUME NEW i \in activeSet \ Blocked(A), NEW j \in Planned \ {i}
                   PROVE  /\ staged[i] \cap installed[j] = {}
                          /\ j \in activeSet \ Blocked(A) => staged[i] \cap staged[j] = {}
        BY <2>4 DEF NoOverlapLeft
      <3>1. \A m \in Planned : m \in LegacyIds => staged[m] = {}
        BY DEF StartupInv, StoresFit
      <3>2. \A m \in activeSet \ Blocked(A) : m \in Planned /\ (m \notin LegacyIds => m \in A)
        BY <2>2, ActiveManaged
      <3>3. \A m, n \in A : m # n => staged[m] \cap staged[n] = {}
        BY <1>2, <2>1, OneBefore DEF Accepts
      <3>4. \A m \in A : \A n \in Planned \ {m} : staged[m] \cap installed[n] = {}
        BY <2>1 DEF Accepts
      <3> QED  BY <3>1, <3>2, <3>3, <3>4
    <2> QED  BY <1>3, <1>4, <2>5, <2>6, <2>7 DEF StartupInv
  <1> QED  BY <1>5, <1>6

(* After the refusals the plan is published or given up.                    *)
LEMMA RefusalsSound == ASSUME StartupInv, Refusals PROVE StartupInv'
  <1> USE DEF Refusals, resultVars
  <1>1. rollback.todo = {} /\ Left = activeSet /\ StillActive = activeSet \ LegacyIds
    BY ActiveManaged DEF Left, Rolling
  <1>2. ActiveAgrees' /\ UnmappedGone' /\ NoTableOfUnmapped' /\ SettledStores'
    BY DEF StartupInv, ActiveAgrees, UnmappedGone, NoTableOfUnmapped, Mapped,
           SettledStores, Reported, Finished
  <1>3. StillActive \subseteq Planned
    BY <1>1, ActiveManaged
  <1>4. CASE degraded
    <2>1. rollback' \in Rollbacks /\ rollback'.todo = activeSet \ LegacyIds
          /\ rollback'.owners = rollback.owners
      <3>1. rollback \in Rollbacks
        BY DEF StartupInv, StartupTypeOK
      <3>2. rollback' = [rollback EXCEPT !.why = "abandon", !.todo = StillActive]
        BY <1>4
      <3> HIDE DEF Refusals, StartupInv
      <3> QED  BY <1>1, <1>3, <3>1, <3>2 DEF Rollbacks
    <2>2. StartupTypeOK' /\ RollbackFits' /\ NoOverlapLeft'
      BY <1>4, <2>1 DEF StartupInv, StartupTypeOK, RollbackFits, Rolling, NoOverlapLeft
    <2>3. StoresFit'
      BY <1>4, <2>1 DEF StartupInv, StoresFit
    <2>4. DependenciesLeft'
      BY <2>1, LegacyLeft
    <2> QED  BY <1>2, <2>2, <2>3, <2>4 DEF StartupInv
  <1>5. CASE ~degraded
    <2>1. \A i \in Planned :
             staged'[i] = IF i \in rollback.owners \ StillActive THEN {} ELSE staged[i]
      BY <1>5
    <2>2. staged' \in [Planned -> SUBSET Spans]
      BY <1>5 DEF StartupInv, StartupTypeOK
    <2>3. StartupTypeOK' /\ RollbackFits' /\ DependenciesLeft'
      BY <1>1, <1>5, <2>2
      DEF StartupInv, StartupTypeOK, RollbackFits, Rolling, DependenciesLeft, Left
    <2>4. StoresFit'
      BY <1>1, <1>5, <2>1 DEF StartupInv, StoresFit
    <2>5. NoOverlapLeft'
      <3>1. Left' = activeSet /\ activeSet \subseteq Planned
        BY <1>1, <1>5, ActiveManaged DEF Left
      <3> QED  BY <1>1, <1>5, <2>1, <3>1 DEF StartupInv, NoOverlapLeft
    <2> QED  BY <1>2, <2>3, <2>4, <2>5 DEF StartupInv
  <1> QED  BY <1>4, <1>5

(* commit_staged had nothing to refuse: all that was staged is written.     *)
LEMMA PublishSound == ASSUME StartupInv, Publish PROVE StartupInv'
  <1> USE DEF Publish, resultVars
  <1>1. rollback.todo = {} /\ Left = activeSet /\ StillActive = activeSet \ LegacyIds
        /\ ~degraded /\ activeSet \subseteq Planned
    BY ActiveManaged DEF StartupInv, RollbackFits, Left, Rolling
  <1>2. rollback' = NoRollback /\ NoRollback \in Rollbacks /\ NoRollback.todo = {}
        /\ NoRollback.owners = {}
    BY DEF NoRollback, Rollbacks
  <1>3. \A i \in Planned : staged[i] # {} => i \in StillActive
    BY <1>1 DEF StartupInv, StoresFit
  <1>4. staged' = Nothing
    BY <1>3 DEF Nothing
  <1>5. pending' = {} /\ recorded' = recorded \cup pending
    BY <1>1 DEF CommitPending, StartupInv, StoresFit
  <1>6. startStep' \in {"record", "init"} /\ (startStep' = "init" => index \in DOMAIN Order)
    <2>1. index \in 1..(Len(Order) + 1) /\ Len(Order) \in Nat
      BY Ordered DEF StartupInv, StartupTypeOK
    <2>2. ~(index > Len(Order)) => index \in 1..Len(Order)
      BY <2>1
    <2> QED  BY <2>2, Ordered DEF Finalized
  <1>7. installed' \in [Planned -> SUBSET Spans] /\ staged' \in [Planned -> SUBSET Spans]
    BY <1>4 DEF StartupInv, StartupTypeOK, Nothing
  <1>8. StartupTypeOK'
    BY <1>2, <1>5, <1>6, <1>7 DEF StartupInv, StartupTypeOK
  <1>9. ActiveAgrees' /\ UnmappedGone' /\ NoTableOfUnmapped'
    BY <1>5 DEF StartupInv, ActiveAgrees, UnmappedGone, NoTableOfUnmapped, Mapped
  <1>10. DependenciesLeft' /\ RollbackFits' /\ NoOverlapLeft'
    BY <1>1, <1>2, <1>6
    DEF StartupInv, DependenciesLeft, Left, RollbackFits, Rolling, NoOverlapLeft
  <1>11. StoresFit'
    <2>1. /\ recorded \cup pending = activeSet
          /\ \A i \in Planned : installed[i] # {} => i \in recorded
      BY <1>1 DEF StartupInv, StoresFit
    <2>2. \A i \in Planned : staged'[i] = {}
      BY <1>4 DEF Nothing
    <2>3. \A i \in Planned : installed'[i] # {} => i \in activeSet
      BY <2>1, <1>1
    <2>4. startStep' # "publish" /\ activeSet' = activeSet
      BY <1>6
    <2> HIDE DEF Publish, StartupInv
    <2> QED  BY <2>1, <2>2, <2>3, <2>4, <1>5 DEF StoresFit
  <1>12. SettledStores'
    BY <1>4, <1>5, <1>6 DEF StartupInv, SettledStores, Reported, Finished
  <1> QED  BY <1>8, <1>9, <1>10, <1>11, <1>12 DEF StartupInv

(* A refused commit gives the whole plan up.                                *)
LEMMA PublishRefusedSound == ASSUME StartupInv, PublishRefused PROVE StartupInv'
  <1> USE DEF PublishRefused, storeVars, resultVars
  <1>1. StillActive = activeSet \ LegacyIds /\ activeSet \subseteq Planned
    BY ActiveManaged DEF Rolling
  <1>2. rollback' \in Rollbacks /\ rollback'.todo = activeSet \ LegacyIds
        /\ rollback'.owners = rollback.owners
    BY <1>1 DEF StartupInv, StartupTypeOK, Rollbacks
  <1>3. StartupTypeOK' /\ RollbackFits' /\ NoOverlapLeft'
    BY <1>2 DEF StartupInv, StartupTypeOK, RollbackFits, Rolling, NoOverlapLeft
  <1>4. ActiveAgrees' /\ UnmappedGone' /\ NoTableOfUnmapped' /\ SettledStores'
    BY DEF StartupInv, ActiveAgrees, UnmappedGone, NoTableOfUnmapped, Mapped,
           SettledStores, Reported, Finished
  <1>5. StoresFit'
    BY <1>2 DEF StartupInv, StoresFit
  <1>6. DependenciesLeft'
    BY <1>2, LegacyLeft
  <1> QED  BY <1>3, <1>4, <1>5, <1>6 DEF StartupInv

(* When the plan has been given up nothing of it stays staged.              *)
LEMMA RestDiscardedSound == ASSUME StartupInv, RestDiscarded PROVE StartupInv'
  <1> USE DEF RestDiscarded, resultVars
  <1>1. activeSet \subseteq LegacyIds /\ activeSet \ LegacyIds \subseteq rollback.owners
        /\ rollback.todo = {} /\ Left = activeSet
    BY DEF StartupInv, RollbackFits, Rolling, Left
  <1>2. rollback' = NoRollback /\ NoRollback \in Rollbacks /\ NoRollback.todo = {}
        /\ NoRollback.owners = {}
    BY DEF NoRollback, Rollbacks
  <1>3. staged' = Nothing /\ pending = {}
    <2>1. \A i \in Planned : staged[i] # {} => i \in rollback.owners
      BY <1>1 DEF StartupInv, StoresFit
    <2> QED  BY <1>1, <2>1 DEF Nothing, StartupInv, StoresFit
  <1>4. startStep' \in {"record", "init"} /\ (startStep' = "init" => index \in DOMAIN Order)
    <2>1. index \in 1..(Len(Order) + 1) /\ Len(Order) \in Nat
      BY Ordered DEF StartupInv, StartupTypeOK
    <2>2. ~(index > Len(Order)) => index \in 1..Len(Order)
      BY <2>1
    <2> QED  BY <2>2, Ordered DEF Finalized
  <1>5. StartupTypeOK'
    <2>1. staged' \in [Planned -> SUBSET Spans]
      BY <1>3 DEF Nothing
    <2> QED  BY <1>2, <1>4, <2>1 DEF StartupInv, StartupTypeOK
  <1>6. ActiveAgrees' /\ UnmappedGone' /\ NoTableOfUnmapped'
    BY DEF StartupInv, ActiveAgrees, UnmappedGone, NoTableOfUnmapped, Mapped
  <1>7. DependenciesLeft' /\ RollbackFits' /\ NoOverlapLeft'
    BY <1>1, <1>2, <1>4
    DEF StartupInv, DependenciesLeft, Left, RollbackFits, Rolling, NoOverlapLeft
  <1>8. StoresFit'
    <2>1. \A i \in Planned : staged'[i] = {}
      BY <1>3 DEF Nothing
    <2> QED  BY <2>1, <1>3, <1>4 DEF StartupInv, StoresFit
  <1>9. SettledStores'
    BY <1>3, <1>4 DEF StartupInv, SettledStores, Reported, Finished
  <1> QED  BY <1>5, <1>6, <1>7, <1>8, <1>9 DEF StartupInv

(* The invariant is inductive.                                              *)
LEMMA StartupStep == StartupInv /\ [StartupNext]_startupVars => StartupInv'
  <1> SUFFICES ASSUME StartupInv, [StartupNext]_startupVars PROVE StartupInv'
    OBVIOUS
  <1> HIDE DEF StartupInv
  <1>1. CASE DllMain \/ RunReturns \/ ModulesLoaded \/ NextPlugin
    BY <1>1, HostSteps
  <1>2. CASE Record \/ StartWatcher
    BY <1>2, ReportSteps
  <1>3. CASE Refused
    BY <1>3, RefusedSound
  <1>4. CASE Initialized
    BY <1>4, InitializedSound
  <1>5. CASE InitFails
    BY <1>5, InitFailsSound
  <1>6. CASE Finalize
    BY <1>6, FinalizeSound
  <1>7. CASE RefuseNext \/ DiscardRest
    BY <1>7, DiscardSteps
  <1>8. CASE Refusals
    BY <1>8, RefusalsSound
  <1>9. CASE Publish
    BY <1>9, PublishSound
  <1>10. CASE PublishRefused
    BY <1>10, PublishRefusedSound
  <1>11. CASE RestDiscarded
    BY <1>11, RestDiscardedSound
  <1>12. CASE UNCHANGED startupVars
    <2> USE <1>12 DEF startupVars, storeVars, resultVars, StartupInv
    <2>1. StartupTypeOK'
      BY DEF StartupTypeOK
    <2>4. RollbackFits' /\ DependenciesLeft'
      BY DEF RollbackFits, Rolling, DependenciesLeft, Left
    <2>2. ActiveAgrees' /\ StoresFit' /\ NoOverlapLeft'
      BY DEF ActiveAgrees, StoresFit, NoOverlapLeft, Left
    <2>3. UnmappedGone' /\ NoTableOfUnmapped' /\ SettledStores'
      BY DEF UnmappedGone, NoTableOfUnmapped, Mapped, SettledStores, Reported, Finished
    <2> QED  BY <2>1, <2>2, <2>3, <2>4
  <1> QED  BY <1>1, <1>2, <1>3, <1>4, <1>5, <1>6, <1>7, <1>8, <1>9, <1>10, <1>11, <1>12
           DEF StartupNext

(* Whatever plan, contracts and failures: an active plugin's dependencies   *)
(* are active, the reported states are the stores', the plan handed to      *)
(* commit_staged has no overlap, and nobody has the table of an unmapped    *)
(* library.                                                                 *)
THEOREM StartupIsSound == StartupSpec => []StartupSound
  <1>1. StartupInit => StartupInv
    BY StartupBegins
  <1>2. StartupInv /\ [StartupNext]_startupVars => StartupInv'
    BY StartupStep
  <1>3. StartupInv => StartupSound
    BY InvSound
  <1> QED  BY <1>1, <1>2, <1>3, PTL DEF StartupSpec

=============================================================================
