-------------------------------- MODULE MCCombat ---------------------------------
(* The combat features, one after another in one model: `part` names the    *)
(* feature a behaviour exercises and every other one stays in its initial   *)
(* state.  Each keeps its own state, so nothing is lost by not interleaving *)
(* them; the features that do share state are one module each.              *)
EXTENDS CoverMarkers, GrenadeSelect, PassengerTargets, WeaponDrops, Regroup, TLC

CONSTANT Explored \* the components this run explores

VARIABLE part     \* the component this behaviour exercises

CONSTANTS s1, s2, t1, t2

GunsOfTheMounts ==
    [rifle |-> [special |-> TRUE, still |-> TRUE, ranges |-> {"far"}],
     smg   |-> [special |-> FALSE, still |-> FALSE, ranges |-> {"near", "far"}],
     lmg   |-> [special |-> FALSE, still |-> FALSE, ranges |-> {"near"}]]
TwoMounts == <<"front", "rear">>
ThreeGuns == <<"rifle", "lmg", "smg">>

OneSquad == [s \in {"A"} |-> {1, 2}]
TwoWeapons == [rifle |-> "a", carbine |-> "b"]
Carbine == [item |-> "carbine", rounds |-> 2]

Troopers == "x" :> 1 @@ "y" :> 1 @@ "z" :> 2
Carried == "x" :> {3} @@ "y" :> {1, 3} @@ "z" :> {2}
Filled(c, n, r) == [capacity |-> c, rounds |-> n, reserved |-> r]
FilledPools == <<1 :> Filled(3, 2, 0) @@ 3 :> Filled(5, 2, 2),
                 1 :> Filled(2, 1, 0) @@ 2 :> Filled(3, 2, 1)>>
-----------------------------------------------------------------------------
vars == <<part, coverVars, grenadeVars, selectVars, targetVars, rebindVars,
          weaponVars, regroupVars>>

Init ==
    /\ part \in Explored
    /\ CoverInit
    /\ GrenadeInit
    /\ SelectInit
    /\ part # "select" =>
           selected = Grenade /\ walking = FALSE
    /\ TargetsInit
    /\ part # "targets" =>
           mount = [m \in Mounts |-> "hull"] /\ atWill = FALSE
    /\ RebindInit
    /\ part # "rebind" =>
           bound = [m \in Mount |-> IF m = "front" THEN "rifle" ELSE "lmg"]
    /\ WeaponInit
    /\ part # "weapons" =>
           ammoPolicy = "discard" /\ deathAmmo = "discard"
    /\ RegroupInit

CoverPart ==
    /\ part = "cover" /\ CoverNext
    /\ UNCHANGED <<part, grenadeVars, selectVars, targetVars, rebindVars,
                   weaponVars, regroupVars>>

GrenadesPart ==
    /\ part = "grenades" /\ GrenadeNext
    /\ UNCHANGED <<part, coverVars, selectVars, targetVars, rebindVars,
                   weaponVars, regroupVars>>

SelectPart ==
    /\ part = "select" /\ SelectNext
    /\ UNCHANGED <<part, coverVars, grenadeVars, targetVars, rebindVars,
                   weaponVars, regroupVars>>

TargetsPart ==
    /\ part = "targets" /\ TargetsNext
    /\ UNCHANGED <<part, coverVars, grenadeVars, selectVars, rebindVars,
                   weaponVars, regroupVars>>

RebindPart ==
    /\ part = "rebind" /\ RebindNext
    /\ UNCHANGED <<part, coverVars, grenadeVars, selectVars, targetVars,
                   weaponVars, regroupVars>>

WeaponsPart ==
    /\ part = "weapons" /\ WeaponNext
    /\ UNCHANGED <<part, coverVars, grenadeVars, selectVars, targetVars,
                   rebindVars, regroupVars>>

RegroupPart ==
    /\ part = "regroup" /\ RegroupNext
    /\ UNCHANGED <<part, coverVars, grenadeVars, selectVars, targetVars,
                   rebindVars, weaponVars>>

Next == CoverPart \/ GrenadesPart \/ SelectPart \/ TargetsPart \/
        RebindPart \/ WeaponsPart \/ RegroupPart

(* The active component tells two states apart: the others do not move. *)
Active ==
    CASE part = "cover"    -> <<part, coverVars>>
      [] part = "grenades" -> <<part, grenadeVars>>
      [] part = "select"   -> <<part, selectVars>>
      [] part = "targets"  -> <<part, targetVars>>
      [] part = "rebind"   -> <<part, rebindVars>>
      [] part = "weapons"  -> <<part, weaponVars>>
      [] part = "regroup"  -> <<part, regroupVars>>

Spec == Init /\ [][Next]_vars

-----------------------------------------------------------------------------
(* The squads' gear is conserved: weapon-drops neither makes nor loses      *)
(* rounds, drops once per squad and arms it alike; regrouping keeps every   *)
(* magazine and round and brings the restored soldiers home.                *)
GearSound ==
    /\ part = "weapons" =>
           RoundsConserved /\ DepotsSound /\ SquadsArmedAlike /\ OneDropPerWipe
    /\ part = "regroup" =>
           /\ RegroupTypeOK /\ MagazinesAccounted /\ RoundsKept /\ RestoredAreHome
           /\ FormedAsAsked /\ PopulatedIsSelectable

(* What a step may not do: override an order that was not earned, pass a    *)
(* gate for another target, end an explicit order, take away a private      *)
(* target, move a home or a first origin, or part a pin from its ammunition.*)
OrdersAreKept ==
    /\ OverridesAreEarned /\ GatePassesItsTarget
    /\ ExplicitOrderHolds /\ PrivateTargetsSurvive
    /\ HomesAreKept /\ FirstOriginStays /\ PinsFollowAmmo
=============================================================================
