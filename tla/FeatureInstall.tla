--------------------------- MODULE FeatureInstall ---------------------------
(***************************************************************************)
(* How a feature plugin goes into the game.  Each one resolves everything  *)
(* it is about to use from signatures, class tables and expected bytes of  *)
(* the loaded module, and only then asks the loader for its hooks, so that *)
(* a build in which a site moved resolves to an error and nothing is       *)
(* written.  The loader keeps the requests staged, compares them with the  *)
(* contract the plugin exports, and writes them all or discards them.      *)
(*                                                                         *)
(* A feature is data here: the parts it is made of, what each part has to  *)
(* find, and which writes it makes, in their order.  Signatures, offsets   *)
(* and byte strings are names: the properties only tell a site that is     *)
(* there from one that is not, and one place from another.                 *)
(***************************************************************************)
EXTENDS Naturals, Sequences, FiniteSets, SequencesExt

(* The features installed together in one behaviour: sets of Features. *)
CONSTANTS Loadouts, MaxLeftOut

One(name) == {<<name, 1>>}
Many(name, n) == {<<name, i>> : i \in 1..n}
Row(name, n) == [i \in 1..n |-> <<name, i>>]

(* A part: the sites it needs, and its writes in order. *)
Part(needs, hooks) == [needs |-> needs, hooks |-> hooks]

(* A feature: how it reads the game's code ("live" bytes, or the loader's   *)
(* "original" view); what its init answers on a build it does not know     *)
(* (idle: 0 and no writes, otherwise 1); whether it declares its writes    *)
(* in a contract; whether it may be switched on in a running game; its     *)
(* parts, those its settings may leave out, and whether a part that does   *)
(* not resolve is left out rather than refused.                            *)
Feature(reads, idles, declares, hot, parts, optional, partial) ==
    [reads |-> reads, idles |-> idles, declares |-> declares, hot |-> hot,
     parts |-> parts, optional |-> optional, partial |-> partial]

(***************************************************************************)
(* The features.                                                           *)
(***************************************************************************)
AbilityGroupsSites == Many("ability site", 12) \cup One("widget move")
AbilityGroupsEntries == Row("ability site", 6)
AbilityGroups ==
    Feature("live", FALSE, TRUE, TRUE,
            <<Part(AbilityGroupsSites \cup Many("ability entry span", 6) \cup Many("ability field", 2),
                   AbilityGroupsEntries)>>, {}, FALSE)

SpeedGetter == One("movement speed getter") \cup One("movement speed getter bytes")
MovingActions ==
    Feature("live", TRUE, FALSE, TRUE,
            <<Part(SpeedGetter, Row("action table byte", 3))>>, {}, FALSE)

AnimationSites ==
    One("animation update") \cup One("position sampler") \cup One("rotation sampler")
    \cup One("slerp") \cup Many("animation class", 2) \cup Many("animation bytes", 5)
Animation ==
    Feature("live", FALSE, FALSE, FALSE,
            <<Part(AnimationSites,
                   <<<<"animation update", 1>>, <<"position sampler", 1>>, <<"rotation sampler", 1>>>>)>>,
            {}, FALSE)

(* The handoff is only called: it is the step the sync feature hooks.       *)
RenderSyncSites ==
    One("shot") \cup One("primary shot") \cup One("gunner update") \cup One("client gunner update")
    \cup One("model record rebind") \cup One("weapon-change step")
    \cup Many("render sync class", 3) \cup Many("render sync bytes", 5)
RenderSyncWorld == One("attach") \cup One("detach") \cup Many("render sync world bytes", 2)
RenderSync ==
    Feature("live", TRUE, FALSE, TRUE,
            <<Part(RenderSyncSites \cup RenderSyncWorld,
                   <<<<"shot", 1>>, <<"primary shot", 1>>, <<"gunner update", 1>>, <<"client gunner update", 1>>>>)>>,
            {}, FALSE)

(* The helper is only compared: it is the queue moving grenades hooks.      *)
SyncSites ==
    One("weapon-change step") \cup One("animation action queue") \cup Many("sync bytes", 2)
Sync ==
    Feature("live", TRUE, FALSE, TRUE,
            <<Part(SyncSites, <<<<"weapon-change step", 1>>>>)>>, {}, FALSE)

GrenadeSites == Many("grenade site", 39) \cup One("animation action queue")
GrenadeEntries == Row("grenade site", 15) \o <<<<"animation action queue", 1>>>>
GrenadeEntryBytes == Many("grenade entry bytes", 16)
Grenades ==
    Feature("live", TRUE, FALSE, FALSE,
            <<Part(GrenadeSites \cup GrenadeEntryBytes, GrenadeEntries)>>, {}, FALSE)

HackingSites == One("deny branch") \cup One("suspension test") \cup One("state check")
HackingWrites == <<<<"suspension test", 1>>, <<"state check", 1>>, <<"deny branch", 1>>>>
Hacking ==
    Feature("live", FALSE, FALSE, TRUE, <<Part(HackingSites, HackingWrites)>>, {}, FALSE)

(* Six adapters, each with its call and its entry, behind two resolvers.    *)
ExperienceAdapters == Many("experience adapter", 6) \cup Many("experience resolver", 2)
ExperienceSites == One("table reader") \cup One("cell lookup") \cup ExperienceAdapters
ExperienceWrites == <<<<"table reader", 1>>>> \o Row("experience adapter write", 12)
Experience ==
    Feature("live", TRUE, TRUE, FALSE, <<Part(ExperienceSites, ExperienceWrites)>>, {1}, FALSE)

RepairMenu == One("repair menu mask") \cup One("helicopter veto") \cup Many("helicopter slot", 2)
RepairStates ==
    One("recharge handler") \cup One("sit on land handler") \cup One("push helper")
    \cup Many("repair state class", 4) \cup Many("repair id", 2)
RepairOrder == One("self repair order") \cup One("stop deployment call") \cup Many("order helper call", 2)
RepairPosition == One("repair points") \cup One("repair bounds")
RepairWrites ==
    <<<<"repair menu mask", 1>>, <<"helicopter veto", 1>>, <<"self repair order", 1>>,
      <<"stop deployment call", 1>>, <<"recharge handler", 1>>, <<"sit on land handler", 1>>,
      <<"repair points", 1>>>>
DeployedRepair ==
    Feature("live", TRUE, TRUE, FALSE,
            <<Part(RepairMenu \cup RepairOrder \cup RepairStates \cup RepairPosition, RepairWrites)>>,
            {}, FALSE)

AmmoSites == Many("ammo menu site", 53)
AmmoCombined == Many("combined function", 8) \cup One("menu hover") \cup Many("hover call", 7)
AmmoShared == One("menu redraw") \cup Many("ammo menu field", 4) \cup One("roster getter")
AmmoMenu ==
    Feature("original", FALSE, TRUE, FALSE,
            <<Part(AmmoSites \cup AmmoShared,
                   Row("ammo menu site", 53) \o <<<<"menu redraw", 1>>>>),
              Part(AmmoCombined, <<<<"combined function", 8>>, <<"menu hover", 1>>>>)>>,
            {2}, FALSE)

ScrollSites == Many("squad management site", 18)
ScrollTables == Many("squad management table", 5) \cup Many("squad management slot", 7)
ScrollRelations == Many("squad management relation", 3)
ScrollWrites == Row("squad management slot", 7) \o Row("squad management site", 5)
Scroll ==
    Feature("original", FALSE, TRUE, FALSE,
            <<Part(ScrollSites \cup ScrollTables \cup ScrollRelations, ScrollWrites)>>, {}, FALSE)

DropSites == Many("weapon drop site", 27) \cup Many("stock function", 30)
DropChecks == Many("human method", 2) \cup Many("getter call", 2)
DropWrites == Row("weapon drop site", 8)
Drops ==
    Feature("original", FALSE, TRUE, FALSE,
            <<Part(DropSites \cup DropChecks, DropWrites)>>, {}, FALSE)

RegroupLogic == Many("regroup logic site", 25)
RegroupGame == Many("regroup game site", 4)
RegroupChecks ==
    Many("regroup class", 2) \cup Many("regroup call target", 4) \cup Many("regroup entry span", 6)
    \cup One("regroup offsets")
RegroupWrites == Row("regroup call", 4) \o Row("regroup game site", 2) \o Row("regroup logic site", 4)
Regroup ==
    Feature("live", FALSE, TRUE, TRUE,
            <<Part(RegroupLogic \cup RegroupGame \cup RegroupChecks, RegroupWrites)>>, {}, FALSE)

SpecialFireSites == Many("special fire site", 9) \cup One("menu redraw")
SpecialFireGuards == Many("gun guard", 6)
SpecialFireWrites ==
    <<<<"special fire units", 1>>>> \o Row("special fire site", 9)
        \o Row("gun guard", 6) \o <<<<"special fire menu", 1>>>>
SpecialFireUnits == One("special fire units")
SpecialFire ==
    Feature("original", FALSE, TRUE, TRUE,
            <<Part(SpecialFireUnits \cup SpecialFireSites \cup SpecialFireGuards,
                   SpecialFireWrites)>>, {}, FALSE)

CoverGame == Many("cover game site", 9)
CoverLogic == Many("cover logic site", 7)
CoverWorld == Many("cover world site", 4)
CoverWrites == Row("cover game site", 5) \o Row("cover logic site", 5)
Cover ==
    Feature("live", TRUE, TRUE, TRUE,
            <<Part(CoverGame \cup CoverLogic \cup CoverWorld \cup Many("cover entry bytes", 10), CoverWrites)>>,
            {}, FALSE)

ArrivalSites == One("chassis update") \cup Many("chassis class", 3)
Arrival ==
    Feature("live", TRUE, TRUE, FALSE,
            <<Part(ArrivalSites, <<<<"chassis update", 1>>>>)>>, {1}, FALSE)

InspectionSites == Many("inspection site", 5) \cup Many("label slot", 4)
InspectionWrites == Row("inspection site", 5)
Inspection ==
    Feature("original", TRUE, TRUE, FALSE,
            <<Part(InspectionSites, InspectionWrites)>>, {}, FALSE)

(* The performance fixes: each is a part of its own. *)
AffinityFix == Part(One("thread pin"), Row("thread pin", 1))
GrassFix == Part(Many("grass sort site", 3), <<<<"grass sort site", 1>>>>)
InverseFix == Part(Many("matrix inverse", 3), <<<<"matrix inverse", 1>>>>)
ViewSortFix == Part(Many("view sort site", 3), <<<<"view sort site", 1>>>>)
MeshSortFix == Part(Many("mesh sort site", 3), <<<<"mesh sort site", 1>>>>)
ShadowFitFix == Part(Many("cascade fitting", 2), <<<<"cascade fitting loop", 1>>>>)
ShadowSnapFix == Part(Many("cascade fitting", 2), <<<<"cascade fitting", 1>>>>)
ShadowCullFix == Part(Many("caster walk", 2), <<<<"caster walk", 1>>>>)
ShadowPassFix == Part(Many("shadow pass", 2), <<<<"shadow pass", 1>>>>)
TreeSwayFix == Part(Many("tree sway", 3), Row("tree sway", 2))
Performance ==
    Feature("original", TRUE, TRUE, FALSE,
            <<AffinityFix, GrassFix, InverseFix, ViewSortFix, MeshSortFix, ShadowPassFix,
              ShadowFitFix, ShadowSnapFix, ShadowCullFix, TreeSwayFix>>, 1..10, TRUE)

(* A feature whose patch units Core relocates and installs for the build.   *)
Units == Feature("original", FALSE, TRUE, TRUE,
                 <<Part(One("patch units"), Row("unit hook", 2))>>, {}, FALSE)

Features ==
    [abilityGroups |-> AbilityGroups, movingActions |-> MovingActions, animation |-> Animation,
     renderSync |-> RenderSync, sync |-> Sync, grenades |-> Grenades, hacking |-> Hacking,
     experience |-> Experience, deployedRepair |-> DeployedRepair, ammoMenu |-> AmmoMenu,
     scroll |-> Scroll, drops |-> Drops, regroup |-> Regroup, specialFire |-> SpecialFire,
     cover |-> Cover, arrival |-> Arrival, inspection |-> Inspection,
     performance |-> Performance, units |-> Units]

ASSUME LoadoutsAreFeatures == \A set \in Loadouts : set \subseteq DOMAIN Features

VARIABLES
    loadout,    \* the features of this behaviour
    absent,     \* the sites this build of the game does not have
    starting,   \* the loader is still starting its plugins
    installOutcome,     \* "off", "active", "idle" or "failed"
    reason,     \* why a load failed: "none", "setting", "unsupported", "refused" or "contract"
    wanted,     \* the parts the settings ask for, by feature
    requested,     \* the writes a feature requested that are not in the code yet
    code        \* the writes of each feature that are in the game's code

installVars == <<loadout, absent, starting, installOutcome, reason, wanted, requested, code>>

Parts(p) == Features[p].parts
NeededSites(p) == UNION {Parts(p)[i].needs : i \in DOMAIN Parts(p)}
WritesOf(p, chosen) ==
    FlattenSeq([i \in DOMAIN Parts(p) |-> IF i \in chosen THEN Parts(p)[i].hooks ELSE << >>])

(* The parts the settings may ask for: every one that is not optional.  A   *)
(* feature that asks for nothing leaves the game's own behaviour.  At most  *)
(* MaxLeftOut parts are left out otherwise.                                 *)
SettingsOf(p) ==
    {DOMAIN Parts(p) \ out : out \in {o \in SUBSET Features[p].optional :
        Cardinality(o) <= MaxLeftOut \/ o = DOMAIN Parts(p)}}

InstallInit ==
    /\ loadout \in Loadouts
    /\ absent \in IF Cardinality(loadout) = 1
                  THEN {{}} \cup {{site} : site \in UNION {NeededSites(p) : p \in loadout}}
                  ELSE {{}}
    /\ starting = TRUE
    /\ installOutcome = [p \in loadout |-> "off"]
    /\ reason = [p \in loadout |-> "none"]
    /\ wanted = [p \in loadout |-> {}]
    /\ requested = [p \in loadout |-> {}]
    /\ code = [p \in loadout |-> {}]

(* What a reader sees: another feature's hook hides a site from the live    *)
(* bytes, never from the original view.                                     *)
Hidden(p) ==
    IF Features[p].reads = "original" THEN {}
    ELSE UNION {code[q] : q \in loadout \ {p}}

MissingSites(p) == NeededSites(p) \cap (absent \cup Hidden(p))
Resolves(p, i) == Parts(p)[i].needs \cap (absent \cup Hidden(p)) = {}

(* What init does with the settings: the parts it installs, or its refusal. *)
(* Everything is resolved before the first write.                           *)
ResolvedParts(p, chosen) ==
    IF Features[p].partial THEN {i \in chosen : Resolves(p, i)}
    ELSE IF MissingSites(p) = {} THEN chosen ELSE {}

(* A refused write ends the init of a feature, which takes its writes back; *)
(* a partial feature drops the part it belongs to and goes on.              *)
RequestAll(p, chosen, refused) ==
    IF refused = {} THEN ToSet(WritesOf(p, chosen))
    ELSE IF Features[p].partial
         THEN ToSet(WritesOf(p, {i \in chosen : refused \cap ToSet(Parts(p)[i].hooks) = {}}))
         ELSE {}

(* The expected writes the contract export names after init: resolved the   *)
(* same way, empty when there is nothing to install.  A feature that        *)
(* refuses an unknown build has no contract there, and is not asked.        *)
Declared(p, chosen) == ToSet(WritesOf(p, ResolvedParts(p, chosen)))
ContractHolds(p, chosen, requests) == Features[p].declares => requests = Declared(p, chosen)

(* Why the load of p fails, or "none". *)
Verdict(p, chosen, refused) ==
    CASE chosen # {} /\ ~Features[p].partial /\ MissingSites(p) # {} /\ ~Features[p].idles -> "unsupported"
      [] refused # {} /\ ~Features[p].partial -> "refused"
      [] ~ContractHolds(p, chosen, RequestAll(p, ResolvedParts(p, chosen), refused)) -> "contract"
      [] OTHER -> "none"

(* init, its contract and what the loader does with both.  While the loader *)
(* is starting the requests stay staged; in a running game they are written *)
(* as the load succeeds.                                                    *)
LoadFeature(p, chosen, refused) ==
    LET parts == IF chosen = {} THEN {} ELSE ResolvedParts(p, chosen)
        why == Verdict(p, chosen, refused)
        writes == IF why = "none" THEN RequestAll(p, parts, refused) ELSE {}
    IN  /\ installOutcome[p] = "off" /\ (starting \/ Features[p].hot)
        /\ refused \subseteq ToSet(WritesOf(p, parts)) /\ Cardinality(refused) <= 1
        /\ installOutcome' = [installOutcome EXCEPT ![p] = IF why # "none" THEN "failed"
                                           ELSE IF parts = {} /\ chosen # {} THEN "idle" ELSE "active"]
        /\ reason' = [reason EXCEPT ![p] = why]
        /\ wanted' = [wanted EXCEPT ![p] = chosen]
        /\ requested' = IF starting THEN [requested EXCEPT ![p] = writes] ELSE requested
        /\ code' = IF starting THEN code ELSE [code EXCEPT ![p] = writes]
        /\ UNCHANGED <<loadout, absent, starting>>

(* A setting out of its range is refused before anything is resolved.       *)
BadSetting(p) ==
    /\ installOutcome[p] = "off" /\ (starting \/ Features[p].hot)
    /\ p \in {"arrival", "experience", "ammoMenu", "scroll"}
    /\ installOutcome' = [installOutcome EXCEPT ![p] = "failed"]
    /\ reason' = [reason EXCEPT ![p] = "setting"]
    /\ UNCHANGED <<loadout, absent, starting, wanted, requested, code>>

(* The end of startup: every staged write goes into the code.               *)
StartDone ==
    /\ starting
    /\ starting' = FALSE
    /\ code' = [p \in loadout |-> code[p] \cup requested[p]]
    /\ requested' = [p \in loadout |-> {}]
    /\ UNCHANGED <<loadout, absent, installOutcome, reason, wanted>>

(* Switching a feature off, or reloading it: its writes are undone first.   *)
SwitchOff(p) ==
    /\ ~starting /\ Features[p].hot
    /\ installOutcome[p] # "off"
    /\ installOutcome' = [installOutcome EXCEPT ![p] = "off"]
    /\ reason' = [reason EXCEPT ![p] = "none"]
    /\ wanted' = [wanted EXCEPT ![p] = {}]
    /\ code' = [code EXCEPT ![p] = {}]
    /\ UNCHANGED <<loadout, absent, starting, requested>>

SomeRefusal(p) == {{}} \cup {{h} : h \in ToSet(WritesOf(p, DOMAIN Parts(p)))}

InstallNext ==
    \/ \E p \in loadout : \E chosen \in SettingsOf(p), refused \in SomeRefusal(p) : LoadFeature(p, chosen, refused)
    \/ \E p \in loadout : BadSetting(p)
    \/ StartDone
    \/ \E p \in loadout : SwitchOff(p)

InstallSpec == InstallInit /\ [][InstallNext]_installVars
-----------------------------------------------------------------------------
InstallTypeOK ==
    /\ loadout \in Loadouts
    /\ starting \in BOOLEAN
    /\ \A p \in loadout :
        /\ installOutcome[p] \in {"off", "active", "idle", "failed"}
        /\ reason[p] \in {"none", "setting", "unsupported", "refused", "contract"}
        /\ wanted[p] \subseteq DOMAIN Parts(p)
        /\ requested[p] \cup code[p] \subseteq ToSet(WritesOf(p, DOMAIN Parts(p)))

(* The parts of p whose writes are in the code or about to be. *)
Installed(p) ==
    {i \in DOMAIN Parts(p) : ToSet(Parts(p)[i].hooks) \subseteq requested[p] \cup code[p]}

(* A feature writes only what it found: no write of a part is in the code,  *)
(* or staged, on a build that lacks a site of that part - and of a feature  *)
(* that is not made of separate fixes, none at all when any site is gone.   *)
WritesOnlyWhatItFound ==
    \A p \in loadout : requested[p] \cup code[p] # {} =>
        IF Features[p].partial
        THEN \A i \in DOMAIN Parts(p) :
                ToSet(Parts(p)[i].hooks) \cap (requested[p] \cup code[p]) # {} => Parts(p)[i].needs \cap absent = {}
        ELSE NeededSites(p) \cap absent = {}

(* A feature that runs has all the writes its settings ask for, one that    *)
(* does not has none: a write refused half-way, a setting, an unknown build *)
(* or a contract that does not match leave nothing of it behind.  A fix of  *)
(* the performance feature is there whole or not at all.                    *)
InstalledWhole ==
    \A p \in loadout :
        /\ installOutcome[p] # "active" => requested[p] \cup code[p] = {}
        /\ installOutcome[p] = "active" =>
              requested[p] \cup code[p] =
                  ToSet(WritesOf(p, IF Features[p].partial THEN Installed(p) \cap wanted[p] ELSE wanted[p]))

(* The contract a feature exports is the one its init keeps, on every build *)
(* and under every setting: a load is refused for its contract only where a *)
(* fix was planned and then refused its place.                              *)
ContractsAgree == \A p \in loadout : reason[p] = "contract" => Features[p].partial

(* What the original view is for: on a build that has every site, a feature *)
(* that reads through it resolves whatever others have hooked meanwhile.    *)
OriginalReadersResolve ==
    absent = {} => \A p \in loadout : Features[p].reads = "original" =>
        installOutcome[p] # "idle" /\ reason[p] # "unsupported"

=============================================================================
