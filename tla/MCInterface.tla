------------------------------- MODULE MCInterface -------------------------------
(* The interface and rendering features, one after another in one model:    *)
(* `part` names the feature a behaviour exercises; every other one stays in *)
(* its initial state.                                                       *)
EXTENDS ShadowCascades, MovingAnimation, PanelScroll, AbilityGroups,
        ExperienceLevels, CombinedAmmo, TreeSway, RenderSorts

CONSTANT Explored \* the components this run explores

VARIABLE part     \* the component this behaviour exercises

UpgradeTags ==
    [u \in Upgrades |-> CASE u = "a" -> {1, 2} [] u = "b" -> {2, 3} [] u = "c" -> {3} [] OTHER -> {}]
PlainLists == {<<>>, <<"v">>, <<"v", "w">>, <<"w", "x", "v">>, <<"v", "w", "x", "y">>}
HidingLists == {<<"h">>, <<"v", "h", "w", "x">>, <<"h", "v", "w">>}
PanelLists ==
    [k \in Kinds |-> CASE k = "upgrade" -> {s \in SeqOf(Upgrades, MaxItems) : IsInjective(s)}
                        [] k = "weapon" -> PlainLists \cup HidingLists
                        [] OTHER -> PlainLists]
WheelDeltas == {-2, -1, 1, 4}

TwoSlots == [a \in 0..(AbilityCount - 1) |-> IF a < 2 THEN 0 ELSE 1]
FirstCells == <<0, 2>>

LevelFiles ==
    {[cells |-> c, columns |-> e] :
        c \in {<<"u", "v">>, <<"u", Empty>>, <<Blank, "v">>, <<"u">>},
        e \in {<<>>, <<Empty, "u">>, <<"v">>, <<Blank>>, <<Blank, "u">>,
               <<"u", Blank, "v">>, <<Blank, Blank>>}}

SquadAndVehicle == [A |-> <<"a", "b">>, V |-> <<>>]
SlotsOfBoth == [A |-> <<2, 1>>, V |-> <<2>>]
UsableByBoth == [a |-> {1, 2}, b |-> {2}, V |-> {2}]
SelectionsOfBoth ==
    {[units |-> <<"A", "V">>, marked |-> {}], [units |-> <<"V", "A">>, marked |-> {"a"}],
     [units |-> <<"A">>, marked |-> {"a"}], [units |-> <<"A">>, marked |-> {}]}

ManagersOfTrees == [t \in Trees |-> IF t = "c" THEN "n" ELSE "m"]
RatesOfBands == [d \in Distances |-> IF d = "near" THEN 2 ELSE 3]
TreeStaggers == [t \in Trees |-> IF t = "a" THEN 4 ELSE 3]

GrassDistances == {0, 1, NotNumber}
ShortGrassLists ==
    UNION {[1..n -> GrassDistances] : n \in 1..5} \cup [1..8 -> {0, 1}] \cup [1..6 -> 0..2]
ViewObjects ==
    {[kind |-> 1, distance |-> 0, flag |-> f] : f \in 0..1}
    \cup {[kind |-> 2, distance |-> d, flag |-> 0] : d \in {1, 2, NotNumber}}
ShortViewLists == UNION {[1..n -> ViewObjects] : n \in 1..5}
-----------------------------------------------------------------------------
vars == <<part, sortVars, shadowVars, animVars, scrollVars, groupVars,
          levelVars, meter, ammoVars, treeVars>>

Init ==
    /\ part \in Explored
    /\ SortInit
    /\ part # "sorts" =>
           budget = 0 /\ sortList = <<0>>
    /\ ShadowInit
    /\ part # "shadow" =>
           mode = CHOOSE m \in Modes : TRUE
    /\ AnimInit
    /\ part # "animation" =>
           composite = [t \in Tracks |-> CHOOSE d \in Differences : TRUE]
    /\ ScrollInit
    /\ part # "scroll" =>
           kind = "weapon" /\ slider = None /\ squad = CHOOSE s \in SquadOf : TRUE
    /\ GroupInit
    /\ LevelsInit
    /\ MeterInit
    /\ AmmoInit
    /\ part # "ammo" =>
           selection = CHOOSE s \in Selections : TRUE
    /\ TreeInit
    /\ part # "trees" =>
           sway = "rates"

SortsPart ==
    /\ part = "sorts" /\ SortNext
    /\ UNCHANGED <<part, shadowVars, animVars, scrollVars, groupVars,
                   levelVars, meter, ammoVars, treeVars>>

ShadowPart ==
    /\ part = "shadow" /\ ShadowNext
    /\ UNCHANGED <<part, sortVars, animVars, scrollVars, groupVars,
                   levelVars, meter, ammoVars, treeVars>>

AnimationPart ==
    /\ part = "animation" /\ AnimNext
    /\ UNCHANGED <<part, sortVars, shadowVars, scrollVars, groupVars,
                   levelVars, meter, ammoVars, treeVars>>

ScrollPart ==
    /\ part = "scroll" /\ ScrollNext
    /\ UNCHANGED <<part, sortVars, shadowVars, animVars, groupVars,
                   levelVars, meter, ammoVars, treeVars>>

GroupsPart ==
    /\ part = "groups" /\ GroupNext
    /\ UNCHANGED <<part, sortVars, shadowVars, animVars, scrollVars,
                   levelVars, meter, ammoVars, treeVars>>

LevelsPart ==
    /\ part = "levels" /\ LevelsNext
    /\ UNCHANGED <<part, sortVars, shadowVars, animVars, scrollVars,
                   groupVars, meter, ammoVars, treeVars>>

MeterPart ==
    /\ part = "meter" /\ MeterNext
    /\ UNCHANGED <<part, sortVars, shadowVars, animVars, scrollVars,
                   groupVars, levelVars, ammoVars, treeVars>>

AmmoPart ==
    /\ part = "ammo" /\ AmmoNext
    /\ UNCHANGED <<part, sortVars, shadowVars, animVars, scrollVars,
                   groupVars, levelVars, meter, treeVars>>

TreesPart ==
    /\ part = "trees" /\ TreeNext
    /\ UNCHANGED <<part, sortVars, shadowVars, animVars, scrollVars,
                   groupVars, levelVars, meter, ammoVars>>

Next == SortsPart \/ ShadowPart \/ AnimationPart \/ ScrollPart \/
        GroupsPart \/ LevelsPart \/ MeterPart \/ AmmoPart \/
        TreesPart

(* The active component tells two states apart: the others do not move. *)
Active ==
    CASE part = "sorts"     -> <<part, sortVars>>
      [] part = "shadow"    -> <<part, shadowVars>>
      [] part = "animation" -> <<part, animVars>>
      [] part = "scroll"    -> <<part, scrollVars>>
      [] part = "groups"    -> <<part, groupVars>>
      [] part = "levels"    -> <<part, levelVars>>
      [] part = "meter"     -> <<part, meter>>
      [] part = "ammo"      -> <<part, ammoVars>>
      [] part = "trees"     -> <<part, treeVars>>

Spec == Init /\ [][Next]_vars

-----------------------------------------------------------------------------
(* The rendering shortcuts show what the game would: shadow layers that     *)
(* cover their bands, animations and sway that keep time, and the orders of *)
(* the game's own sorts.                                                    *)
RenderingSound ==
    /\ part = "shadow" => LayersCoverTheirBands /\ LayersTakeTurns /\ CoverageIsHonest
    /\ part = "animation" => AnimTypeOK /\ OverlayFits /\ TravelIsHis /\ KeysEnclose
    /\ part = "trees" => TreeTypeOK /\ SwayKeepsTime /\ SampledInTime /\ CompletionsRun
    /\ part = "sorts" => SortTypeOK /\ GrassSorted /\ ViewSortIsTheGames

(* A card stands for the item of the list under it: a drop, an upgrade and  *)
(* a perk go to the item shown, and a disabled ammunition is not loaded.    *)
CardsSound ==
    /\ part = "scroll" => ScrollTypeOK /\ CardsShowTheList /\ DropGoesWhereShown
                          /\ RoomForEveryUpgrade /\ OnlyNextPerkPicks
    /\ part = "ammo" => AmmoTypeOK /\ DisabledIsUnloaded

(* One step of the interface does one thing: a card acts on what it shows,  *)
(* a click settles the ability row, a step of the ammunition card moves one *)
(* unit.                                                                    *)
InterfaceSteps == CardsActOnWhatTheyShow /\ ClickSettles /\ SingleStepMovesOne
=============================================================================
