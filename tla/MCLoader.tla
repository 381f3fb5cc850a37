-------------------------------- MODULE MCLoader ---------------------------------
(* The loader's parts that keep their own state, one after another in one   *)
(* model: `part` names the one a behaviour exercises; every other one stays *)
(* in its initial state.                                                    *)
EXTENDS Hooks, NearMemory, PluginPlan, ConfigFiles, FeatureInstall,
        TraceSites, Injector, HostLaunch, PatchUnits, CrashCapture

CONSTANT Explored \* the components this run explores

VARIABLE part     \* the component this behaviour exercises

CONSTANTS
    plugin1, plugin2, legacyPlugin,     \* two current plugins and a legacy one
    thread1, thread2     \* threads of the game that are traced, or fault
Interchangeable == Permutations({plugin1, plugin2}) \cup Permutations({thread1, thread2})
CodeRequests ==
    {[at |-> 0, len |-> 1, kind |-> "entry"], [at |-> 1, len |-> 2, kind |-> "bytes"],
     [at |-> 2, len |-> 1, kind |-> "call"]}

NearModules == {[base |-> 9, size |-> 5], [base |-> 18, size |-> 3]}

File(dll, id, sidecar, depends, min, conflicts, safe, enabled) ==
    [dll |-> dll, id |-> id, sidecar |-> sidecar, depends |-> depends, min |-> min,
     conflicts |-> conflicts, safe |-> safe, enabled |-> enabled, version |-> 1]
Plain(dll, sidecar) == File(dll, dll, sidecar, {}, 0, {}, FALSE, TRUE)
PluginFiles(dll, others, next) ==
    {Plain(dll, "none"), Plain(dll, "bad"), File(dll, next, "ok", {}, 0, {}, TRUE, TRUE),
     File(dll, dll, "ok", {}, 0, {next}, FALSE, TRUE), File(dll, dll, "ok", {next}, 1, {}, TRUE, TRUE),
     File(dll, dll, "ok", {}, 0, {}, FALSE, FALSE)}
    \cup {File(dll, dll, "ok", depends, 0, {}, FALSE, TRUE) : depends \in SUBSET others}
CoreFiles == {File("core", "core", "ok", {}, 0, {}, TRUE, TRUE), Plain("core", "ok"), Plain("core", "none")}
PluginDirectories ==
    {<<a, b, c, d>> : a \in PluginFiles("a", {"b", "d"}, "b"), b \in PluginFiles("b", {"a", "d"}, "d"),
                      c \in CoreFiles, d \in PluginFiles("d", {"a", "b"}, "a")}
RunningBefore == {<<>>, [x \in {"a"} |-> 0]}

Text(wait, sway, plugin) == [state |-> "text", lwait |-> wait, lsway |-> sway, psway |-> plugin]
CoreFileTexts ==
    {Missing, Text("", "", ""), Text("v", "", ""), Text("", "v", ""), Text("", "quoted", ""),
     Text("", "v", "w"), Text("bad", "v", "")}
BootText(wait, sway, plugins) == [state |-> "text", wait |-> wait, sway |-> sway, plugins |-> plugins]
BootFileTexts ==
    {BootText(w, s, "none") : w \in {"", "u"}, s \in {"", "u"}}
    \cup {BootText("u", "u", "default"), [BootText("", "", "none") EXCEPT !.state = "broken"]}
EditedTexts == {Text("e", "", ""), Text("", "e", ""), [Text("", "", "") EXCEPT !.state = "broken"]}

FeatureSets ==
    {{f} : f \in DOMAIN Features}
    \cup {{f, g} : f \in DOMAIN Features, g \in {"grenades", "sync", "ammoMenu"}}

InjectedBranches ==
    [m \in PatchedModules |-> IF m = "logic" THEN <<"chooser", "move">> ELSE <<"icon", "double">>]
InjectedEdits == [m \in PatchedModules |-> IF m = "logic" THEN <<"getter">> ELSE << >>]
-----------------------------------------------------------------------------
vars == <<part, hooksVars, nearVars, planVars, cfgVars, installVars,
          traceVars, injectVars, launchVars, unitVars, crashVars>>

Init ==
    /\ part \in Explored
    /\ HooksInit
    /\ NearInit
    /\ PlanInit
    /\ CfgInit
    /\ part # "config" =>
           schema = 2 /\ core = Missing /\ boot = BootText("", "", "none")
    /\ InstallInit
    /\ part # "features" =>
           loadout = {"grenades"} /\ absent = {}
    /\ TraceInit
    /\ InjectInit
    /\ part # "inject" =>
           path = Select(CHOOSE b \in Builds : TRUE, CHOOSE b \in Builds : TRUE)
           /\ \A s \in AllSites : siteCode[s] = Stock
    /\ LaunchInit
    /\ part # "launch" =>
           mapped = FALSE
    /\ UnitsInit
    /\ part # "units" =>
           hash = [m \in UnitModules |-> CHOOSE h \in Hashes : TRUE]
           /\ truth = [m \in UnitModules |-> CHOOSE t \in TruthsOf(hash[m]) : TRUE] /\ unknown = FALSE
    /\ CrashInit

HooksPart ==
    /\ part = "hooks" /\ HooksNext
    /\ UNCHANGED <<part, nearVars, planVars, cfgVars, installVars, traceVars,
                   injectVars, launchVars, unitVars, crashVars>>

NearPart ==
    /\ part = "near" /\ NearNext
    /\ UNCHANGED <<part, hooksVars, planVars, cfgVars, installVars,
                   traceVars, injectVars, launchVars, unitVars, crashVars>>

PlanPart ==
    /\ part = "plan" /\ PlanNext
    /\ UNCHANGED <<part, hooksVars, nearVars, cfgVars, installVars,
                   traceVars, injectVars, launchVars, unitVars, crashVars>>

ConfigPart ==
    /\ part = "config" /\ CfgNext
    /\ UNCHANGED <<part, hooksVars, nearVars, planVars, installVars,
                   traceVars, injectVars, launchVars, unitVars, crashVars>>

FeaturesPart ==
    /\ part = "features" /\ InstallNext
    /\ UNCHANGED <<part, hooksVars, nearVars, planVars, cfgVars, traceVars,
                   injectVars, launchVars, unitVars, crashVars>>

TracePart ==
    /\ part = "trace" /\ TraceNext
    /\ UNCHANGED <<part, hooksVars, nearVars, planVars, cfgVars, installVars,
                   injectVars, launchVars, unitVars, crashVars>>

InjectPart ==
    /\ part = "inject" /\ InjectNext
    /\ UNCHANGED <<part, hooksVars, nearVars, planVars, cfgVars, installVars,
                   traceVars, launchVars, unitVars, crashVars>>

LaunchPart ==
    /\ part = "launch" /\ LaunchNext
    /\ UNCHANGED <<part, hooksVars, nearVars, planVars, cfgVars, installVars,
                   traceVars, injectVars, unitVars, crashVars>>

UnitsPart ==
    /\ part = "units" /\ UnitsNext
    /\ UNCHANGED <<part, hooksVars, nearVars, planVars, cfgVars, installVars,
                   traceVars, injectVars, launchVars, crashVars>>

CrashPart ==
    /\ part = "crash" /\ CrashNext
    /\ UNCHANGED <<part, hooksVars, nearVars, planVars, cfgVars, installVars,
                   traceVars, injectVars, launchVars, unitVars>>

Next == HooksPart \/ NearPart \/ PlanPart \/ ConfigPart \/ FeaturesPart \/
        TracePart \/ InjectPart \/ LaunchPart \/ UnitsPart \/
        CrashPart

(* The active component tells two states apart: the others do not move. *)
Active ==
    CASE part = "hooks"    -> <<part, hooksVars>>
      [] part = "near"     -> <<part, nearVars>>
      [] part = "plan"     -> <<part, planVars>>
      [] part = "config"   -> <<part, cfgVars>>
      [] part = "features" -> <<part, installVars>>
      [] part = "trace"    -> <<part, traceVars>>
      [] part = "inject"   -> <<part, injectVars>>
      [] part = "launch"   -> <<part, launchVars>>
      [] part = "units"    -> <<part, unitVars>>
      [] part = "crash"    -> <<part, crashVars>>

Spec == Init /\ [][Next]_vars

-----------------------------------------------------------------------------
(* What is loaded and how: the plan is in dependency order, settings keep   *)
(* their values through migrations and failures, and a feature's sites are  *)
(* written whole and only over the code it expects.                         *)
PlanningSound ==
    /\ part = "plan" => PlanTypeOK /\ PlanIsWellFounded /\ OrderSound
    /\ part = "config" => SettingsKeepTheirValue /\ SchemaIsHonest /\ RollbackIsHonest
                          /\ BackupIsTheUsers
    /\ part = "features" => InstallTypeOK /\ WritesOnlyWhatItFound /\ InstalledWhole
                            /\ ContractsAgree /\ OriginalReadersResolve

(* Memory within reach of the code is got once; patches from outside: a     *)
(* live branch of the injector lands in its block, its reports are true and *)
(* its failures undone; the patch units' copies are disjoint, paired and of *)
(* the version asked for.                                                   *)
PatchingSound ==
    /\ part = "near" => NearTypeOK /\ GivenReachable /\ HeldReachable /\ GivenOnce
    /\ part = "inject" => InjectTypeOK /\ LiveBranchesLand /\ UnitReportsAreTrue
                          /\ FailuresUndone
    /\ part = "units" => UnitsTypeOK /\ RecognizedStaysPaired /\ StagedWhereMeant
                         /\ CopiesDisjoint /\ StagesItsVersion

(* Evidence is what happened: a capture is of its own site and budget and   *)
(* is released with its session; the first crash is kept, whole when it     *)
(* says so and blamed on the module that was mapped there.                  *)
EvidenceSound ==
    /\ part = "trace" => TraceTypeOK /\ CaptureKeepsItsSite /\ BudgetIsOwn
                         /\ CloseReleasesAll
    /\ part = "crash" => CrashTypeOK /\ FirstEvidenceKept /\ CompletedMeansWhole
                         /\ AttributionTrue /\ RemovedNotObserved
=============================================================================
