------------------------------- MODULE MCServices --------------------------------
(* The parts whose progress is checked under the fairness of their          *)
(* schedulers, one after another in one model: `part` names the one a       *)
(* behaviour exercises; every other one stays in its initial state and no   *)
(* fairness is asked of it.                                                 *)
EXTENDS Threads, Startup, SquadPanel

CONSTANT Explored \* the components this run explores

VARIABLE part     \* the component this behaviour exercises

PlanOfThree == {<<"core", "a", "b">>}

StartOrder == <<"alpha", "core", "feature", "old", "late">>
StartDepends ==
    [i \in {"alpha", "core", "feature", "old", "late"} |->
        CASE i = "feature" -> {"core"} [] i = "late" -> {"old", "alpha"} [] OTHER -> {}]
StartStages ==
    [i \in {"alpha", "core", "feature", "old", "late"} |->
        CASE i = "alpha" -> {{1}} [] i = "core" -> {{2}, {1, 2}, {}} [] i = "feature" -> {{3}}
          [] i = "old" -> {{4}} [] i = "late" -> {{3}, {5}}]
-----------------------------------------------------------------------------
vars == <<part, threadsVars, startupVars, panelVars>>

Init ==
    /\ part \in Explored
    /\ ThreadsInit
    /\ StartupInit
    /\ PanelInit

ThreadsPart ==
    /\ part = "threads" /\ ThreadsNext
    /\ UNCHANGED <<part, startupVars, panelVars>>

StartupPart ==
    /\ part = "startup" /\ StartupNext
    /\ UNCHANGED <<part, threadsVars, panelVars>>

PanelPart ==
    /\ part = "panel" /\ PanelNext
    /\ UNCHANGED <<part, threadsVars, startupVars>>

Next == ThreadsPart \/ StartupPart \/ PanelPart

(* The active component tells two states apart: the others do not move. *)
Active ==
    CASE part = "threads" -> <<part, threadsVars>>
      [] part = "startup" -> <<part, startupVars>>
      [] part = "panel"   -> <<part, panelVars>>

Spec == 
    /\ Init /\ [][Next]_vars
    /\ WF_threadsVars(part = "threads" /\ FreezeStep)
    /\ WF_startupVars(part = "startup" /\ StartupNext)
    /\ \A t \in GameThreads :
           WF_panelVars(part = "panel" /\ (EnterCallback(t) \/ ReturnCallback(t)))
    /\ WF_panelVars(part = "panel" /\ (FinishOk \/ FinishFailed))
    /\ \A p \in PanelPlugins : SF_panelVars(part = "panel" /\ life[p] = "retiring" /\ RetireOwner(p))

-----------------------------------------------------------------------------
(* Every freeze ends with the world running, every start with a report and  *)
(* every retirement with a stop; callbacks are entered only while open, and *)
(* a merged plan keeps every plugin's place.                                *)
ServicesRespond ==
    /\ FreezeEnds /\ StartupReports /\ RetiringEnds /\ CallsAreOpen
    /\ [](PanelTypeOK /\ MergeKeepsPlaces)
=============================================================================
