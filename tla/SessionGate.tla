---------------------------- MODULE SessionGate ----------------------------
(***************************************************************************)
(* The gate that keeps hot reload out of missions, with the three threads  *)
(* that meet at it:                                                        *)
(*                                                                         *)
(*   - the game thread, which builds and destroys mission states; Core     *)
(*     reports each to the loader's `session' service;                     *)
(*   - the render thread, which feeds mission frames to subscribers;       *)
(*   - the watcher thread, which queues plugin changes and applies them    *)
(*     at the menu.                                                        *)
(*                                                                         *)
(* The mission counters are atomics that `mission' changes outside the     *)
(* gate's lock, so every load and store of them is a step of its own.      *)
(* Applying a change is abstracted to what the gate and the mission events *)
(* tell apart: the plugin's subscriptions are dropped (under the write     *)
(* lock a dispatch holds for reading), its library is freed or kept, and a *)
(* new copy may be mapped and subscribe. It may also be refused, or fail   *)
(* with a rollback left incomplete, after which nothing is applied any     *)
(* more.                                                                   *)
(***************************************************************************)
EXTENDS Integers

CONSTANTS
    Plugins,     \* plugins that subscribe to mission events
    MaxStates    \* most mission states alive at once (a bound of the model)

ASSUME MaxStatesAssumption == MaxStates \in Nat \ {0}

NoPlugin == "none"
ASSUME NoPluginAssumption == NoPlugin \notin Plugins

VARIABLES
    tracking,     \* Gate.tracking: Core reports missions
    missions,     \* Gate.missions
    building,     \* Gate.building
    gate,         \* who holds Gate.lock
    states,       \* the game's own: constructed and not yet destroyed states
    pending,      \* reload::PENDING: the plugins with a queued change
    batch,        \* the changes taken out of PENDING and not yet applied
    halted,       \* reload::INCOMPLETE_ROLLBACK: changes stop until a restart
    current,      \* the plugin whose change is being applied
    mapped,       \* plugins whose library is mapped
    subscribers,  \* mission_events::SUBSCRIPTIONS
    calling,      \* per dispatching thread: callbacks left in this dispatch
    announced,    \* what subscribers were last told: a mission is loaded
    polls,        \* watch's `at_menu': polls in a row at the menu, up to 2
    game, render, watcher    \* where each thread is

gateVars == <<tracking, missions, building, gate>>
pluginVars == <<batch, halted, current, mapped, subscribers>>
vars == <<gateVars, pluginVars, states, pending, calling, announced, polls,
          game, render, watcher>>

Dispatchers == {"game", "render"}
Appliers == {"game", "watcher"}

TypeOK ==
    /\ tracking \in BOOLEAN
    /\ missions \in 0..MaxStates
    /\ building \in 0..1
    /\ gate \in {"free", "game", "watcher"}
    /\ states \in 0..MaxStates
    /\ pending \subseteq Plugins
    /\ batch \subseteq Plugins /\ halted \in BOOLEAN
    /\ current \in Plugins \cup {NoPlugin}
    /\ mapped \subseteq Plugins
    /\ subscribers \subseteq Plugins
    /\ calling \in [Dispatchers -> SUBSET Plugins]
    /\ announced \in BOOLEAN
    /\ polls \in 0..2
    /\ game \in {"idle", "wait", "apply", "closed", "construct", "handoff",
                 "loaded", "destroy", "ended", "dispatch"}
    /\ render \in {"idle", "readMissions", "readBuilding", "lock", "dispatch"}
    /\ watcher \in {"sleep", "returned", "scan", "readMissions", "readBuilding",
                    "decide", "wait", "gateMissions", "gateBuilding", "apply", "closed"}

(* Startup is over: the plugins are mapped and subscribed, no mission runs. *)
Init ==
    /\ tracking = FALSE
    /\ missions = 0 /\ building = 0 /\ gate = "free" /\ states = 0
    /\ pending = {} /\ batch = {} /\ halted = FALSE /\ current = NoPlugin
    /\ mapped = Plugins /\ subscribers = Plugins
    /\ calling = [t \in Dispatchers |-> {}]
    /\ announced = FALSE /\ polls = 0
    /\ game = "idle" /\ render = "idle" /\ watcher = "sleep"

----------------------------------------------------------------------------
(* Applying the queue: apply_pending, on whichever thread holds the gate.   *)

At(t, where) == IF t = "game" THEN game = where ELSE watcher = where

Goto(t, where) ==
    IF t = "game" THEN game' = where /\ UNCHANGED watcher
                  ELSE watcher' = where /\ UNCHANGED game

(* mission_events::close_owner, from services::withdraw or remove: the      *)
(* write lock is granted once no dispatch holds the lock for reading.       *)
NoReader == game # "dispatch" /\ render # "dispatch"

(* Mutant: subscriptions are dropped without waiting for a dispatch.        *)
CloseOwnerUnlocked(t, p) ==
    /\ At(t, "apply") /\ ~halted
    /\ p \in batch
    /\ subscribers' = subscribers \ {p}
    /\ batch' = batch \ {p}
    /\ current' = p
    /\ Goto(t, "closed")
    /\ UNCHANGED <<gateVars, states, pending, halted, mapped, calling, announced,
                   polls, render>>

CloseOwner(t, p) ==
    /\ At(t, "apply") /\ ~halted
    /\ p \in batch
    /\ NoReader
    /\ subscribers' = subscribers \ {p}
    /\ batch' = batch \ {p}
    /\ current' = p
    /\ Goto(t, "closed")
    /\ UNCHANGED <<gateVars, states, pending, halted, mapped, calling, announced,
                   polls, render>>

(* Nothing of the plugin is unloaded: the change is refused, or its hooks   *)
(* could not all be taken out.                                              *)
ChangeRefused(t, p) ==
    /\ At(t, "apply") /\ ~halted
    /\ p \in batch
    /\ batch' = batch \ {p}
    /\ halted' \in {FALSE, TRUE}
    /\ UNCHANGED <<gateVars, states, pending, current, mapped, subscribers,
                   calling, announced, polls, game, render, watcher>>

(* apply_changes looks at the halt before each change. *)
BatchDropped(t) ==
    /\ At(t, "apply") /\ halted
    /\ batch # {}
    /\ batch' = {} /\ pending' = {}
    /\ UNCHANGED <<gateVars, states, halted, current, mapped, subscribers,
                   calling, announced, polls, game, render, watcher>>

(* The old copy is freed, or kept mapped for a holder or a busy thread; the *)
(* new copy loads and subscribes, or the change leaves the plugin unloaded. *)
(* Subscribing takes the write lock.                                        *)
Replace(t) ==
    /\ At(t, "closed")
    /\ \/ /\ mapped' = mapped \ {current}
          /\ UNCHANGED subscribers
       \/ UNCHANGED <<mapped, subscribers>>     \* or freed and mapped again
       \/ /\ NoReader
          /\ mapped' = mapped \cup {current}
          /\ subscribers' = subscribers \cup {current}
    /\ current' = NoPlugin
    /\ halted' \in {halted, TRUE}
    /\ Goto(t, "apply")
    /\ UNCHANGED <<gateVars, batch, states, pending, calling, announced,
                   polls, render>>

----------------------------------------------------------------------------
(* The game thread: Core's hooks on a mission state's constructor and       *)
(* destructor.                                                              *)

Track ==
    /\ ~tracking
    /\ tracking' = TRUE
    /\ UNCHANGED <<missions, building, gate, pluginVars, states, pending,
                   calling, announced, polls, game, render, watcher>>

BeforeMission ==
    /\ tracking
    /\ game = "idle"
    /\ states < MaxStates
    /\ game' = "wait"
    /\ UNCHANGED <<gateVars, pluginVars, states, pending, calling, announced,
                   polls, render, watcher>>

(* Mutant: the lock is not waited for. *)
BeginConstructionUnlocked ==
    /\ game = "wait"
    /\ gate' = "game"
    /\ building' = building + 1
    /\ batch' = pending
    /\ pending' = {}
    /\ game' = "apply"
    /\ UNCHANGED <<tracking, missions, states, halted, current, mapped,
                   subscribers, calling, announced, polls, render, watcher>>

(* Mutant: the construction is not marked. *)
BeginConstructionUnmarked ==
    /\ game = "wait"
    /\ gate = "free"
    /\ gate' = "game"
    /\ batch' = pending
    /\ pending' = {}
    /\ game' = "apply"
    /\ UNCHANGED <<tracking, missions, building, states, halted, current,
                   mapped, subscribers, calling, announced, polls, render,
                   watcher>>

(* begin_construction: the mark and the queue, inside the lock. *)
BeginConstruction ==
    /\ game = "wait"
    /\ gate = "free"
    /\ gate' = "game"
    /\ building' = building + 1
    /\ batch' = pending
    /\ pending' = {}
    /\ game' = "apply"
    /\ UNCHANGED <<tracking, missions, states, halted, current, mapped,
                   subscribers, calling, announced, polls, render, watcher>>

ConstructionBegun ==
    /\ game = "apply"
    /\ batch = {}
    /\ gate' = "free"
    /\ game' = "construct"
    /\ UNCHANGED <<tracking, missions, building, pluginVars, states, pending,
                   calling, announced, polls, render, watcher>>

(* Mutant: the mark is never taken away. *)
LeaveBuildingMarked ==
    /\ game = "construct"
    /\ states' = states + 1
    /\ game' = "handoff"
    /\ UNCHANGED <<tracking, missions, building, gate, pluginVars, pending,
                   calling, announced, polls, render, watcher>>

(* The constructor returned; mission(1) first takes the state out of        *)
(* `building' ...                                                           *)
LeaveBuilding ==
    /\ game = "construct"
    /\ states' = states + 1
    /\ building' = IF building > 0 THEN building - 1 ELSE 0
    /\ game' = "handoff"
    /\ UNCHANGED <<tracking, missions, gate, pluginVars, pending, calling,
                   announced, polls, render, watcher>>

(* Mutant: every state that ends is announced as the last one. *)
TransitionEveryEnd(before, delta) ==
    game' = CASE before = 0 /\ delta = 1  -> "loaded"
              [] delta = -1 -> "ended"
              [] OTHER -> "idle"

(* mission_events::transition: the first mission loaded and the last one    *)
(* ended are announced.                                                     *)
Transition(before, delta) ==
    game' = CASE before = 0 /\ delta = 1  -> "loaded"
              [] before = 1 /\ delta = -1 -> "ended"
              [] OTHER -> "idle"

(* ... and then adds it to `missions'. *)
EnterMissions ==
    /\ game = "handoff"
    /\ missions' = missions + 1
    /\ Transition(missions, 1)
    /\ UNCHANGED <<tracking, building, gate, pluginVars, states, pending,
                   calling, announced, polls, render, watcher>>

Destroy ==
    /\ game = "idle"
    /\ states > 0
    /\ game' = "destroy"
    /\ UNCHANGED <<gateVars, pluginVars, states, pending, calling, announced,
                   polls, render, watcher>>

(* The destructor returned: mission(-1). *)
LeaveMissions ==
    /\ game = "destroy"
    /\ states' = states - 1
    /\ missions' = missions - 1
    /\ Transition(missions, -1)
    /\ UNCHANGED <<tracking, building, gate, pluginVars, pending, calling,
                   announced, polls, render, watcher>>

----------------------------------------------------------------------------
(* Dispatching to subscribers, on the game or the render thread.            *)

(* dispatch takes the lock for reading and keeps it for the whole call.     *)
Announce ==
    /\ game \in {"loaded", "ended"}
    /\ announced' = (game = "loaded")
    /\ calling' = [calling EXCEPT !["game"] = subscribers]
    /\ game' = "dispatch"
    /\ UNCHANGED <<gateVars, pluginVars, states, pending, polls, render,
                   watcher>>

Callback(t, p) ==
    /\ p \in calling[t]
    /\ calling' = [calling EXCEPT ![t] = @ \ {p}]
    /\ UNCHANGED <<gateVars, pluginVars, states, pending, announced, polls,
                   game, render, watcher>>

EventDispatched ==
    /\ game = "dispatch"
    /\ calling["game"] = {}
    /\ game' = "idle"
    /\ UNCHANGED <<gateVars, pluginVars, states, pending, calling, announced,
                   polls, render, watcher>>

(* feed_frame: the game draws frames of the mission states it has.          *)
Frame ==
    /\ tracking
    /\ render = "idle"
    /\ states > 0
    /\ render' = "readMissions"
    /\ UNCHANGED <<gateVars, pluginVars, states, pending, calling, announced,
                   polls, game, watcher>>

(* in_mission loads `missions', and `building' only when that is zero.      *)
FrameReadMissions ==
    /\ render = "readMissions"
    /\ render' = IF missions > 0 THEN "lock" ELSE "readBuilding"
    /\ UNCHANGED <<gateVars, pluginVars, states, pending, calling, announced,
                   polls, game, watcher>>

FrameReadBuilding ==
    /\ render = "readBuilding"
    /\ render' = IF building > 0 THEN "lock" ELSE "idle"
    /\ UNCHANGED <<gateVars, pluginVars, states, pending, calling, announced,
                   polls, game, watcher>>

(* Mutant: every plugin still mapped is called, its subscription or not.    *)
DispatchFrameMapped ==
    /\ render = "lock"
    /\ calling' = [calling EXCEPT !["render"] = mapped]
    /\ render' = "dispatch"
    /\ UNCHANGED <<gateVars, pluginVars, states, pending, announced, polls,
                   game, watcher>>

DispatchFrame ==
    /\ render = "lock"
    /\ calling' = [calling EXCEPT !["render"] = subscribers]
    /\ render' = "dispatch"
    /\ UNCHANGED <<gateVars, pluginVars, states, pending, announced, polls,
                   game, watcher>>

FrameDispatched ==
    /\ render = "dispatch"
    /\ calling["render"] = {}
    /\ render' = "idle"
    /\ UNCHANGED <<gateVars, pluginVars, states, pending, calling, announced,
                   polls, game, watcher>>

----------------------------------------------------------------------------
(* The watcher thread: one turn of `watch'.                                 *)

(* After an incomplete rollback the thread is over. *)
WatchReturns ==
    /\ watcher = "sleep" /\ halted
    /\ watcher' = "returned"
    /\ UNCHANGED <<gateVars, pluginVars, states, pending, calling, announced,
                   polls, game, render>>

(* The FAILED lock: before_mission holds it while it applies. *)
PollBegins ==
    /\ watcher = "sleep" /\ ~halted
    /\ game \notin {"apply", "closed"}
    /\ watcher' = "scan"
    /\ UNCHANGED <<gateVars, pluginVars, states, pending, calling, announced,
                   polls, game, render>>

(* The turn queues the changes it saw, unless changes have stopped, and     *)
(* goes on only if Core reports missions.                                   *)
Poll ==
    /\ watcher = "scan"
    /\ \E seen \in SUBSET Plugins :
            pending' = IF halted THEN pending ELSE pending \cup seen
    /\ watcher' = IF tracking THEN "readMissions" ELSE "sleep"
    /\ UNCHANGED <<gateVars, pluginVars, states, calling, announced, polls,
                   game, render>>

PollReadMissions ==
    /\ watcher = "readMissions"
    /\ IF missions > 0 THEN polls' = 0 /\ watcher' = "sleep"
                       ELSE watcher' = "readBuilding" /\ UNCHANGED polls
    /\ UNCHANGED <<gateVars, pluginVars, states, pending, calling, announced,
                   game, render>>

PollReadBuilding ==
    /\ watcher = "readBuilding"
    /\ IF building > 0 THEN polls' = 0 /\ watcher' = "sleep"
                       ELSE /\ polls' = IF polls < 2 THEN polls + 1 ELSE 2
                            /\ watcher' = "decide"
    /\ UNCHANGED <<gateVars, pluginVars, states, pending, calling, announced,
                   game, render>>

(* Mutant: one poll more than the count can reach. *)
DecideLater ==
    /\ watcher = "decide"
    /\ watcher' = IF polls > 2 /\ pending # {} THEN "wait" ELSE "sleep"
    /\ UNCHANGED <<gateVars, pluginVars, states, pending, calling, announced,
                   polls, game, render>>

Decide ==
    /\ watcher = "decide"
    /\ watcher' = IF polls >= 2 /\ pending # {} THEN "wait" ELSE "sleep"
    /\ UNCHANGED <<gateVars, pluginVars, states, pending, calling, announced,
                   polls, game, render>>

(* while_at_menu: decide again, and apply, inside the lock. *)
EnterGate ==
    /\ watcher = "wait"
    /\ gate = "free"
    /\ gate' = "watcher"
    /\ watcher' = "gateMissions"
    /\ UNCHANGED <<tracking, missions, building, pluginVars, states, pending,
                   calling, announced, polls, game, render>>

LeaveGate == gate' = "free" /\ watcher' = "sleep"

GateReadMissions ==
    /\ watcher = "gateMissions"
    /\ IF missions > 0 THEN LeaveGate
                       ELSE watcher' = "gateBuilding" /\ UNCHANGED gate
    /\ UNCHANGED <<tracking, missions, building, pluginVars, states, pending,
                   calling, announced, polls, game, render>>

GateReadBuilding ==
    /\ watcher = "gateBuilding"
    /\ IF building > 0
       THEN LeaveGate /\ UNCHANGED <<batch, pending>>
       ELSE /\ batch' = pending
            /\ pending' = {}
            /\ watcher' = "apply"
            /\ UNCHANGED gate
    /\ UNCHANGED <<tracking, missions, building, states, halted, current,
                   mapped, subscribers, calling, announced, polls, game, render>>

Applied ==
    /\ watcher = "apply"
    /\ batch = {}
    /\ LeaveGate
    /\ UNCHANGED <<tracking, missions, building, pluginVars, states, pending,
                   calling, announced, polls, game, render>>

----------------------------------------------------------------------------
Apply ==
    \E t \in Appliers :
        \/ Replace(t) \/ BatchDropped(t)
        \/ \E p \in Plugins : CloseOwner(t, p) \/ ChangeRefused(t, p)

Callbacks(t) == \E p \in Plugins : Callback(t, p)

GameStep ==
    \/ BeginConstruction \/ ConstructionBegun
    \/ LeaveBuilding \/ EnterMissions \/ LeaveMissions
    \/ Announce \/ EventDispatched

RenderStep ==
    FrameReadMissions \/ FrameReadBuilding \/ DispatchFrame \/ FrameDispatched

WatcherStep ==
    \/ WatchReturns \/ PollBegins \/ Poll
    \/ PollReadMissions \/ PollReadBuilding \/ Decide
    \/ EnterGate \/ GateReadMissions \/ GateReadBuilding \/ Applied

Next ==
    \/ Track \/ BeforeMission \/ Destroy \/ Frame
    \/ GameStep \/ RenderStep \/ WatcherStep \/ Apply
    \/ \E t \in Dispatchers : Callbacks(t)

(* Every thread goes on with what it began; nothing makes the game start or *)
(* end a mission, or draw a frame. The write lock is granted to a writer    *)
(* that keeps asking, since the lock holds new readers back for it; the     *)
(* gate to the game thread, since the watcher sleeps between its turns.     *)
Fairness ==
    /\ WF_vars(GameStep)
    /\ WF_vars(RenderStep)
    /\ WF_vars(WatcherStep)
    /\ \A t \in Dispatchers : WF_vars(Callbacks(t))
    /\ SF_vars(BeginConstruction)
    /\ SF_vars(Apply)

Spec == Init /\ [][Next]_vars /\ Fairness

----------------------------------------------------------------------------
(* Properties *)

WatcherApplies == watcher \in {"apply", "closed"}
GameBuilds == game \in {"apply", "closed", "construct"}

(* The watcher never replaces plugins while a mission state is being built: *)
(* while_at_menu holds the lock that begin_construction takes first.        *)
NoReloadDuringConstruction == ~(WatcherApplies /\ GameBuilds)

(* A state is counted by the gate from the start of its construction to the *)
(* return of its destructor, except in the moment mission(1) has taken it   *)
(* out of `building' and not yet added it to `missions'.                    *)
CountedButForHandoff ==
    (states > 0 \/ GameBuilds) /\ game # "handoff" => missions + building > 0

(* A subscriber's callback only runs while the subscriber's library is      *)
(* mapped: dispatch holds the lock close_owner needs before the unload goes *)
(* on.                                                                      *)
CallbacksMapped ==
    \A t \in Dispatchers : calling[t] \subseteq mapped

(* Once a game step is over, what subscribers were last told (loaded or     *)
(* ended) is what the game has, overlapping states included.                *)
EventsMatchMissions == game = "idle" => (announced <=> states > 0)

(* A queued change is taken for applying if the game keeps coming back to   *)
(* the menu, however briefly: a new mission applies it, or the watcher;     *)
(* unless an incomplete rollback stops all changes.                         *)
PendingTaken ==
    []<>(tracking /\ game = "idle" /\ states = 0)
        => \A p \in Plugins : p \in pending ~> p \notin pending \/ halted

(* The watcher finishes the batch it took and leaves the gate: it never     *)
(* waits on a dispatch that waits on it.                                    *)
BatchFinishes == WatcherApplies ~> ~WatcherApplies

(* The game thread gets through the gate to its constructor. *)
ConstructionProceeds == game = "wait" ~> game = "construct"

(* The promise of CallbackRegistry, kept by the lock: a plugin's library    *)
(* goes only after its subscriptions were dropped with no dispatch under    *)
(* way, so no thread calls, or still has on its list, an unmapped callback. *)
EventRegistry == INSTANCE CallbackRegistry WITH
    Owners <- Plugins, Callers <- Dispatchers,
    isMapped <- mapped, isOpen <- subscribers, bound <- calling
EventsKeepPromise == EventRegistry!RegistrySpec

(* Nobody waits for ever on the gate: a pending batch is taken, a batch     *)
(* finishes, and a construction goes on.                                    *)
GateProgress == PendingTaken /\ BatchFinishes /\ ConstructionProceeds
=============================================================================
