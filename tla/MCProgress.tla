------------------------------- MODULE MCProgress --------------------------------
(* The parts whose progress depends on other threads or on time passing,     *)
(* one after another in one model: `part` names the one a behaviour         *)
(* exercises; every other one stays in its initial state and no fairness is *)
(* asked of it.                                                             *)
EXTENDS PassengerRebind, MovingGrenades, CrashCapture, ProbeWorker, TraceSites

CONSTANT Explored \* the components this run explores

VARIABLE part     \* the component this behaviour exercises

GunsOfTheMount ==
    [rifle   |-> [special |-> TRUE, still |-> TRUE, ranges |-> {"far"}],
     smg     |-> [special |-> FALSE, still |-> FALSE, ranges |-> {"near", "far"}],
     carbine |-> [special |-> FALSE, still |-> FALSE, ranges |-> {"far"}],
     lmg     |-> [special |-> FALSE, still |-> FALSE, ranges |-> {"near"}]]
OneMount == <<"m">>
FourGuns == <<"rifle", "lmg", "carbine", "smg">>

BaseProbe ==
    [name |-> "p", on |-> TRUE, preset |-> FALSE, sig |-> TRUE, rva |-> FALSE, sha |-> FALSE,
     inside |-> TRUE, positive |-> TRUE, fields |-> TRUE, census |-> FALSE, caller |-> FALSE,
     unique |-> TRUE, module |-> "logic", site |-> "s"]
ProbeForms ==
    {<<[BaseProbe EXCEPT !.sig = f[1], !.rva = f[2], !.sha = f[3]]>> :
        f \in {<<FALSE, FALSE, FALSE>>, <<FALSE, TRUE, FALSE>>, <<FALSE, TRUE, TRUE>>,
               <<TRUE, TRUE, TRUE>>}}
OddProbes ==
    {<<[BaseProbe EXCEPT !.unique = FALSE]>>, <<[BaseProbe EXCEPT !.on = FALSE]>>,
     <<[BaseProbe EXCEPT !.census = TRUE]>>, <<[BaseProbe EXCEPT !.module = "game"]>>}
OtherProbe == [BaseProbe EXCEPT !.name = "q", !.site = "t"]
ProbePairs ==
    {<<BaseProbe, OtherProbe>>, <<BaseProbe, [OtherProbe EXCEPT !.site = "s"]>>,
     <<BaseProbe, [OtherProbe EXCEPT !.name = "p"]>>,
     <<[OtherProbe EXCEPT !.site = "u"], [BaseProbe EXCEPT !.name = "r", !.site = "v"]>>,
     <<BaseProbe, OtherProbe, [OtherProbe EXCEPT !.name = "r", !.site = "u"]>>}
ProbeFiles == ProbePairs \cup OddProbes \cup ProbeForms
-----------------------------------------------------------------------------
vars == <<part, rebindVars, grenadeVars, crashVars, probeVars, traceVars>>

Init ==
    /\ part \in Explored
    /\ RebindInit
    /\ part # "rebind" =>
           bound = [m \in Mount |-> "rifle"]
    /\ GrenadeInit
    /\ CrashInit
    /\ ProbeInit
    /\ part # "probes" =>
           file = Missing /\ loaded = FALSE /\ build = "known"
    /\ TraceInit

RebindPart ==
    /\ part = "rebind" /\ RebindNext
    /\ UNCHANGED <<part, grenadeVars, crashVars, probeVars, traceVars>>

GrenadesPart ==
    /\ part = "grenades" /\ GrenadeNext
    /\ UNCHANGED <<part, rebindVars, crashVars, probeVars, traceVars>>

CrashPart ==
    /\ part = "crash" /\ CrashNext
    /\ UNCHANGED <<part, rebindVars, grenadeVars, probeVars, traceVars>>

ProbesPart ==
    /\ part = "probes" /\ ProbeNext
    /\ UNCHANGED <<part, rebindVars, grenadeVars, crashVars, traceVars>>

TracePart ==
    /\ part = "trace" /\ TraceNext
    /\ UNCHANGED <<part, rebindVars, grenadeVars, crashVars, probeVars>>

Next == RebindPart \/ GrenadesPart \/ CrashPart \/ ProbesPart \/ TracePart

(* The active component tells two states apart: the others do not move. *)
Active ==
    CASE part = "rebind"   -> <<part, rebindVars>>
      [] part = "grenades" -> <<part, grenadeVars>>
      [] part = "crash"    -> <<part, crashVars>>
      [] part = "probes"   -> <<part, probeVars>>
      [] part = "trace"    -> <<part, traceVars>>

Spec == 
    /\ Init /\ [][Next]_vars
    /\ WF_rebindVars(part = "rebind" /\ Update) /\ WF_rebindVars(part = "rebind" /\ UpdateMount)
    /\ SF_rebindVars(part = "rebind" /\ Time)
    /\ WF_grenadeVars(part = "grenades" /\ Second)
    /\ WF_grenadeVars(part = "grenades" /\ (OrderEnds \/ SubmitEnds \/ StopInitEnds
                                           \/ \E s \in Throwers : ChassisStop(s)))
    /\ \A s \in Throwers : WF_grenadeVars(part = "grenades" /\ AiUpdate(s))
    /\ WF_crashVars(part = "crash" /\ HelperSteps)
    /\ \A t \in FaultingThreads : WF_crashVars(part = "crash" /\ ThreadSteps(t))
    /\ WF_probeVars(part = "probes" /\ Worker)
    /\ \A t \in TracedThreads : WF_traceVars(part = "trace" /\ (HandlerStep(t) \/ ReleaseStep(t)))
    /\ WF_traceVars(part = "trace" /\ (TracerStep \/ ReleaseStep(Tracer)))
    /\ WF_traceVars(part = "trace" /\ CapturerStep)

-----------------------------------------------------------------------------
(* Whatever edits, orders, starts and stops come, a mount is not rebound in *)
(* a loop, a throw flies to where its thrower was sent, and the probes'     *)
(* worker owns exactly the slots of one whole, checked file.                *)
TimedPartsSafe ==
    RebindsAreCalm /\ MovesWhereSent /\ ProbesTypeOK /\ SlotsOwned /\ WholeSets /\ SitesArePinned

(* Nothing waits for ever: mounts come to rest with a gun that fires, the   *)
(* order references of throws are given back, a faulting thread and the     *)
(* crash helper go on, an edit of the probes' file takes effect and their   *)
(* ends are reported, and both trace services return.                       *)
TimedPartsProgress ==
    /\ BindingsSettle /\ MovingVehiclesFire
    /\ GivesBack
    /\ FaultsGoOn /\ HelperLeaves
    /\ part = "probes" => EditTakesEffect /\ EndsAreReported
    /\ ServicesReturn
=============================================================================
