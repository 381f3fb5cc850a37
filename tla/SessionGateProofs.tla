-------------------------- MODULE SessionGateProofs --------------------------
(***************************************************************************)
(* For every number of mission states and every set of plugins, the        *)
(* watcher never replaces plugins while a state is being built, a live     *)
(* state is counted outside the handoff, and a callback only runs in       *)
(* mapped code.                                                            *)
(***************************************************************************)
EXTENDS SessionGate, TLAPS

(* Who holds the gate is where the threads are. *)
GateHeld ==
    /\ gate = "game" <=> game \in {"apply", "closed"}
    /\ gate = "watcher" <=>
         watcher \in {"gateMissions", "gateBuilding", "apply", "closed"}

(* The counters, as the game thread's progress makes them. *)
Counters ==
    /\ building = IF GameBuilds THEN 1 ELSE 0
    /\ missions = IF game = "handoff" THEN states - 1 ELSE states
    /\ game \in {"handoff", "destroy"} => states > 0
    /\ GameBuilds \/ game = "wait" => states < MaxStates

(* What the game thread has announced, with an event still to announce. *)
Announcements ==
    /\ game = "loaded" => states = 1 /\ ~announced
    /\ game = "ended" => states = 0 /\ announced
    /\ game = "handoff" => (announced <=> states > 1)
    /\ game \notin {"loaded", "ended", "handoff"} => (announced <=> states > 0)

(* Only mapped plugins are subscribed, and a dispatch's list stays within   *)
(* the subscriptions as long as it holds the lock.                          *)
Subscriptions ==
    /\ subscribers \subseteq mapped
    /\ game = "closed" \/ watcher = "closed" => current \in Plugins \ subscribers
    /\ \A t \in Dispatchers : calling[t] \subseteq subscribers
    /\ game # "dispatch" => calling["game"] = {}
    /\ render # "dispatch" => calling["render"] = {}

Inv ==
    /\ TypeOK
    /\ GateHeld
    /\ Counters
    /\ Announcements
    /\ Subscriptions
    /\ NoReloadDuringConstruction

(* The invariant holds once startup is over. *)
LEMMA InitInv == Init => Inv
<1> SUFFICES ASSUME Init PROVE Inv
    OBVIOUS
<1>1. TypeOK
  <2>1. calling \in [Dispatchers -> SUBSET Plugins]
        BY DEF Init
  <2>2. missions \in 0..MaxStates /\ states \in 0..MaxStates
        BY MaxStatesAssumption DEF Init
  <2>3. announced \in BOOLEAN /\ tracking \in BOOLEAN /\ halted \in BOOLEAN
        BY Zenon DEF Init
  <2> QED BY <2>1, <2>2, <2>3 DEF Init, TypeOK
<1>2. GateHeld /\ NoReloadDuringConstruction
      BY DEF Init, GateHeld, NoReloadDuringConstruction, GameBuilds,
             WatcherApplies
<1>3. Counters /\ Announcements
      BY MaxStatesAssumption DEF Init, Counters, Announcements, GameBuilds
<1>4. Subscriptions
      BY DEF Init, Subscriptions, Dispatchers
<1> QED BY <1>1, <1>2, <1>3, <1>4 DEF Inv

(* Every step of every thread keeps the invariant. *)
LEMMA NextInv == Inv /\ [Next]_vars => Inv'
<1> SUFFICES ASSUME Inv, [Next]_vars PROVE Inv'
    OBVIOUS
<1> USE MaxStatesAssumption, NoPluginAssumption
    DEF Inv, TypeOK, GateHeld, Counters, Announcements, Subscriptions,
        NoReloadDuringConstruction, GameBuilds, WatcherApplies, Dispatchers,
        gateVars, pluginVars
<1>1. CASE Track
      BY <1>1 DEF Track
<1>2. CASE BeforeMission
      BY <1>2 DEF BeforeMission
<1>3. CASE Destroy
      BY <1>3 DEF Destroy
<1>4. CASE Frame
      BY <1>4 DEF Frame
<1>5. CASE BeginConstruction
      BY <1>5 DEF BeginConstruction
<1>6. CASE ConstructionBegun
      BY <1>6 DEF ConstructionBegun
<1>7. CASE LeaveBuilding
      BY <1>7 DEF LeaveBuilding
<1>8. CASE EnterMissions
      BY <1>8 DEF EnterMissions, Transition
<1>9. CASE LeaveMissions
      BY <1>9 DEF LeaveMissions, Transition
<1>10. CASE Announce
  <2>1. calling' = [calling EXCEPT !["game"] = subscribers]
        BY <1>10 DEF Announce
  <2>2. announced' \in BOOLEAN /\ (announced' <=> game = "loaded")
        BY <1>10 DEF Announce
  <2>3. TypeOK'
        BY <1>10, <2>1, <2>2 DEF Announce
  <2>4. Announcements'
        BY <1>10, <2>2 DEF Announce
  <2> QED BY <1>10, <2>1, <2>3, <2>4 DEF Announce
<1>11. CASE EventDispatched
      BY <1>11 DEF EventDispatched
<1>12. CASE RenderStep
      BY <1>12 DEF RenderStep, FrameReadMissions, FrameReadBuilding,
                   DispatchFrame, FrameDispatched
<1>13. CASE WatchReturns \/ PollBegins \/ Poll
      BY <1>13 DEF WatchReturns, PollBegins, Poll
<1>14. CASE PollReadMissions \/ PollReadBuilding \/ Decide
      BY <1>14 DEF PollReadMissions, PollReadBuilding, Decide
<1>15. CASE EnterGate \/ GateReadMissions
      BY <1>15 DEF EnterGate, GateReadMissions, LeaveGate
<1>16. CASE GateReadBuilding
      BY <1>16 DEF GateReadBuilding, LeaveGate
<1>17. CASE Applied
      BY <1>17 DEF Applied, LeaveGate
<1>18. ASSUME NEW t \in Appliers, NEW p \in Plugins, CloseOwner(t, p)
       PROVE  Inv'
      BY <1>18 DEF CloseOwner, NoReader, At, Goto, Appliers
<1>19. ASSUME NEW t \in Appliers, Replace(t)
       PROVE  Inv'
  <2>0. halted' \in BOOLEAN
        BY <1>19, Zenon DEF Replace
  <2>1. CASE NoReader /\ mapped' = mapped \cup {current}
             /\ subscribers' = subscribers \cup {current}
        BY <1>19, <2>0, <2>1 DEF Replace, NoReader, At, Goto, Appliers
  <2>2. CASE mapped' = mapped \ {current} /\ UNCHANGED subscribers
        BY <1>19, <2>0, <2>2 DEF Replace, At, Goto, Appliers
  <2>3. CASE UNCHANGED <<mapped, subscribers>>
        BY <1>19, <2>0, <2>3 DEF Replace, At, Goto, Appliers
  <2> QED BY <1>19, <2>1, <2>2, <2>3 DEF Replace
<1>20. ASSUME NEW t \in Dispatchers, NEW p \in Plugins, Callback(t, p)
       PROVE  Inv'
      BY <1>20 DEF Callback
<1>21. ASSUME NEW t \in Appliers, NEW p \in Plugins, ChangeRefused(t, p)
       PROVE  Inv'
  <2>1. halted' \in BOOLEAN
        BY <1>21, Zenon DEF ChangeRefused
  <2> QED BY <1>21, <2>1 DEF ChangeRefused
<1>22. ASSUME NEW t \in Appliers, BatchDropped(t)
       PROVE  Inv'
      BY <1>22 DEF BatchDropped
<1>23. CASE UNCHANGED vars
      BY <1>23 DEF vars
<1> QED
    BY <1>1, <1>2, <1>3, <1>4, <1>5, <1>6, <1>7, <1>8, <1>9, <1>10, <1>11,
       <1>12, <1>13, <1>14, <1>15, <1>16, <1>17, <1>18, <1>19, <1>20, <1>21,
       <1>22, <1>23
    DEF Next, GameStep, WatcherStep, Apply, Callbacks

(* The invariant holds in every reachable state. *)
LEMMA Invariance == Spec => []Inv
  BY InitInv, NextInv, PTL DEF Spec

(* Every variable keeps its type: the counters stay within the states the   *)
(* game can have (Gate's atomics never go negative).                        *)
THEOREM TypeCorrect == Spec => []TypeOK
<1>1. Inv => TypeOK
      BY DEF Inv
<1> QED BY Invariance, <1>1, PTL

(* while_at_menu's apply and a construction exclude each other.             *)
THEOREM ReloadExcludesConstruction == Spec => []NoReloadDuringConstruction
<1>1. Inv => NoReloadDuringConstruction
      BY DEF Inv
<1> QED BY Invariance, <1>1, PTL

(* The handoff inside mission(1) is the only moment the gate does not count *)
(* a state that exists.                                                     *)
THEOREM HandoffIsTheOnlyGap == Spec => []CountedButForHandoff
<1>1. Inv => CountedButForHandoff
      BY DEF Inv, TypeOK, Counters, CountedButForHandoff, GameBuilds
<1> QED BY Invariance, <1>1, PTL

(* A mission event or frame is never delivered into an unmapped library.    *)
THEOREM NoCallbackIntoFreedCode == Spec => []CallbacksMapped
<1>1. Inv => CallbacksMapped
      BY DEF Inv, Subscriptions, CallbacksMapped
<1> QED BY Invariance, <1>1, PTL

(* Subscribers are told of the first mission loaded and the last one ended, *)
(* and of nothing else.                                                     *)
THEOREM EventsFollowMissions == Spec => []EventsMatchMissions
<1>1. Inv => EventsMatchMissions
      BY DEF Inv, Announcements, EventsMatchMissions
<1> QED BY Invariance, <1>1, PTL
-----------------------------------------------------------------------------
(* The refinement: the mission events keep the promise of CallbackRegistry. *)

(* Startup leaves every library mapped, its callback open and nobody in it. *)
LEMMA InitRegistry == Init => EventRegistry!RegistryInit
  BY DEF Init, EventRegistry!RegistryInit

(* A step that leaves the libraries, the subscriptions and the dispatches   *)
(* alone is none of the registry's.                                         *)
LEMMA SilentSteps ==
    (\/ Track \/ BeforeMission \/ Destroy \/ Frame \/ WatcherStep
     \/ BeginConstruction \/ ConstructionBegun \/ LeaveBuilding \/ EnterMissions
     \/ LeaveMissions \/ EventDispatched
     \/ FrameReadMissions \/ FrameReadBuilding \/ FrameDispatched)
    => UNCHANGED EventRegistry!registryVars
  BY DEF Track, BeforeMission, Destroy, Frame, WatcherStep, BeginConstruction,
         ConstructionBegun, LeaveBuilding, EnterMissions, LeaveMissions,
         EventDispatched, FrameReadMissions, FrameReadBuilding, FrameDispatched,
         WatchReturns, PollBegins, Poll, PollReadMissions, PollReadBuilding, Decide, EnterGate,
         GateReadMissions, GateReadBuilding, Applied, pluginVars,
         EventRegistry!registryVars

(* A dispatch calls what is subscribed when it takes the lock; a library is *)
(* unmapped after its owner was dropped from the subscriptions, of which    *)
(* every dispatch under way keeps to a part.                                *)
LEMMA NextRegistry ==
    Inv /\ [Next]_vars => [EventRegistry!RegistryNext]_(EventRegistry!registryVars)
<1> SUFFICES ASSUME Inv, [Next]_vars
             PROVE  EventRegistry!RegistryNext \/ UNCHANGED EventRegistry!registryVars
    OBVIOUS
<1> USE DEF EventRegistry!registryVars
<1>1. ASSUME NEW t \in Dispatchers, calling[t] = {},
             calling' = [calling EXCEPT ![t] = subscribers],
             UNCHANGED <<mapped, subscribers>>
      PROVE  EventRegistry!RegistryNext
  <2>1. EventRegistry!Call(t)
        BY <1>1 DEF EventRegistry!Call
  <2> QED BY <2>1 DEF EventRegistry!RegistryNext
<1>2. CASE Announce
  <2>1. calling["game"] = {}
        BY <1>2 DEF Inv, Subscriptions, Announce
  <2> QED BY <1>1, <1>2, <2>1 DEF Announce, pluginVars, Dispatchers
<1>3. CASE DispatchFrame
  <2>1. calling["render"] = {}
        BY <1>3 DEF Inv, Subscriptions, DispatchFrame
  <2> QED BY <1>1, <1>3, <2>1 DEF DispatchFrame, pluginVars, Dispatchers
<1>4. ASSUME NEW t \in Dispatchers, NEW p \in Plugins, Callback(t, p)
      PROVE  EventRegistry!RegistryNext
  <2>1. EventRegistry!Return(t, p)
        BY <1>4 DEF Callback, pluginVars, EventRegistry!Return
  <2> QED BY <2>1 DEF EventRegistry!RegistryNext
<1>5. ASSUME NEW t \in Appliers, NEW p \in Plugins, CloseOwner(t, p)
      PROVE  EventRegistry!RegistryNext
  <2>1. EventRegistry!CloseOwners
        BY <1>5 DEF CloseOwner, EventRegistry!CloseOwners
  <2> QED BY <2>1 DEF EventRegistry!RegistryNext
<1>6. ASSUME NEW t \in Appliers, Replace(t)
      PROVE  EventRegistry!RegistryNext \/ UNCHANGED EventRegistry!registryVars
  <2>1. current \in Plugins \ subscribers
        BY <1>6 DEF Inv, Subscriptions, Replace, At, Appliers
  <2>2. CASE mapped' = mapped \ {current} /\ UNCHANGED subscribers
    <3>1. ~EventRegistry!Bound(current)
          BY <2>1 DEF Inv, Subscriptions, EventRegistry!Bound
    <3>2. EventRegistry!CloseOwners
          BY <1>6, <2>1, <2>2, <3>1 DEF Replace, EventRegistry!CloseOwners
    <3> QED BY <3>2 DEF EventRegistry!RegistryNext
  <2>3. CASE mapped' = mapped \cup {current} /\ subscribers' = subscribers \cup {current}
    <3>1. EventRegistry!MapOwner(current)
          BY <1>6, <2>3 DEF Replace, EventRegistry!MapOwner
    <3> QED BY <2>1, <3>1 DEF EventRegistry!RegistryNext
  <2>4. CASE UNCHANGED <<mapped, subscribers>>
        BY <1>6, <2>4 DEF Replace
  <2> QED BY <1>6, <2>2, <2>3, <2>4 DEF Replace
<1>7. ASSUME NEW t \in Appliers, NEW p \in Plugins, ChangeRefused(t, p)
      PROVE  UNCHANGED EventRegistry!registryVars
      BY <1>7 DEF ChangeRefused
<1>8. ASSUME NEW t \in Appliers, BatchDropped(t)
      PROVE  UNCHANGED EventRegistry!registryVars
      BY <1>8 DEF BatchDropped
<1>9. CASE UNCHANGED vars
      BY <1>9 DEF vars, pluginVars
<1> QED
    BY <1>2, <1>3, <1>4, <1>5, <1>6, <1>7, <1>8, <1>9, SilentSteps
    DEF Next, GameStep, RenderStep, Apply, Callbacks

(* The mission events keep the promise: for every set of plugins, whatever  *)
(* reloads and missions come, no thread is in an unmapped callback or bound *)
(* to call one, and a closed one is called by no new dispatch.              *)
THEOREM EventsRefineRegistry == Spec => EventsKeepPromise
<1>1. Init => EventRegistry!RegistryInit
      BY InitRegistry
<1>2. Inv /\ [Next]_vars => [EventRegistry!RegistryNext]_(EventRegistry!registryVars)
      BY NextRegistry
<1> QED
    BY Invariance, <1>1, <1>2, PTL
    DEF Spec, EventsKeepPromise, EventRegistry!RegistrySpec
=============================================================================
