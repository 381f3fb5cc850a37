----------------------------- MODULE GrenadeSelect -----------------------------
(***************************************************************************)
(* How moving-grenades lets a moving soldier keep a grenade selected: the  *)
(* hook around the gunner's weapon selection (select) watches, through a   *)
(* thread-local, the two weapon checks the game makes inside it, and may   *)
(* turn the game's refusal into a yes; the hook around one candidate       *)
(* (candidate) arms a gate that chassis_can_move honours inside it.        *)
(* A gun is in one inventory slot; calls nest, and each hook puts back     *)
(* what it found.                                                          *)
(***************************************************************************)
EXTENDS MovingGrenades

CONSTANTS Guns, Grenade, MaxCalls

ASSUME SelectAssumption == Grenade \in Guns /\ MaxCalls \in Nat

VARIABLES
    selected,   \* the gunner's selected gun
    walking,    \* moving_route, with an animation that waits for idle
    watch,      \* SELECTING: [gun, eligible, idle]; -1 when a check was not made
    gate,       \* CANDIDATE_GATE: the gun and target it was armed for, or NoGate
    aim,     \* the gunner's target
    calls,      \* hooks under way, with what they put back
    truth,      \* history: the checks of each gun inside the innermost select
    verdict,    \* history: [gun, overridden] of the select that just ended
    gatePassed       \* history: the gate the step just passed, for what
selectVars == <<selected, walking, watch, gate, aim, calls, truth, verdict, gatePassed>>

NoWatch == [gun |-> "none", eligible |-> -1, idle |-> -1]
NoGate == [gun |-> "none", target |-> 0]
NoVerdict == [gun |-> "none", overridden |-> FALSE]
Unchecked == [g \in Guns |-> [eligible |-> -1, idle |-> -1]]

SelectInit ==
    /\ selected \in Guns /\ walking \in BOOLEAN /\ watch = NoWatch /\ gate = NoGate
    /\ aim = 1 /\ calls = <<>> /\ truth = Unchecked
    /\ verdict = NoVerdict /\ gatePassed = NoGate

(* A step that neither ends a selection nor passes a gate. *)
Silent == verdict' = NoVerdict /\ gatePassed' = NoGate

(* select, before the game's own selection. Only a grenade is watched. *)
SelectBegins ==
    /\ Len(calls) < MaxCalls
    /\ LET gun == IF selected = Grenade THEN Grenade ELSE "none"
       IN /\ watch' = [gun |-> gun, eligible |-> -1, idle |-> -1]
          /\ calls' = Append(calls, [kind |-> "select", gun |-> gun, was |-> watch, seen |-> truth,
                                     armed |-> NoGate])
    /\ truth' = Unchecked
    /\ Silent
    /\ UNCHANGED <<selected, walking, gate, aim>>

(* weapon_eligible, weapon_requires_idle: the game asks about any gun. *)
WeaponCheck(gun, check, yes) ==
    /\ calls # <<>> /\ calls[Len(calls)].kind = "select"
    /\ watch' = IF watch.gun = gun THEN [watch EXCEPT ![check] = yes] ELSE watch
    /\ truth' = [truth EXCEPT ![gun][check] = yes]
    /\ Silent
    /\ UNCHANGED <<selected, walking, gate, aim, calls>>

(* The game changes its mind, its target or the soldier's pace (external). *)
GameChanges ==
    /\ calls # <<>>
    /\ \/ selected' \in Guns \ {selected} /\ UNCHANGED <<walking, aim>>
       \/ walking' = ~walking /\ UNCHANGED <<selected, aim>>
       \/ aim' = 3 - aim /\ UNCHANGED <<selected, walking>>
    /\ Silent
    /\ UNCHANGED <<watch, gate, calls, truth>>

(* select, after it: the exception is for the gun that was selected before, *)
(* is still selected, and passed its checks inside this very call.          *)
Overrides(native, found, before) ==
    /\ ~native /\ before = Grenade /\ selected = before
    /\ found.eligible = 1 /\ found.idle = 1 /\ walking

SelectEnds(native) ==
    /\ calls # <<>> /\ calls[Len(calls)].kind = "select"
    /\ LET call == calls[Len(calls)]
       IN /\ verdict' = [gun |-> selected, overridden |-> Overrides(native, watch, call.gun)]
          /\ watch' = call.was
          /\ truth' = call.seen
    /\ calls' = SubSeq(calls, 1, Len(calls) - 1)
    /\ gatePassed' = NoGate
    /\ UNCHANGED <<selected, walking, gate, aim>>

(* candidate_gate: the exception holds for a grenade on an active route. *)
CandidateGate(gun) == IF gun = Grenade /\ walking THEN [gun |-> gun, target |-> aim] ELSE NoGate

CandidateBegins(gun) ==
    /\ Len(calls) < MaxCalls
    /\ gate' = CandidateGate(gun)
    /\ calls' = Append(calls, [kind |-> "candidate", gun |-> gun, was |-> gate, seen |-> truth,
                               armed |-> CandidateGate(gun)])
    /\ Silent
    /\ UNCHANGED <<selected, walking, watch, aim, truth>>

CandidateEnds ==
    /\ calls # <<>> /\ calls[Len(calls)].kind = "candidate"
    /\ gate' = calls[Len(calls)].was
    /\ calls' = SubSeq(calls, 1, Len(calls) - 1)
    /\ Silent
    /\ UNCHANGED <<selected, walking, watch, aim, truth>>

(* chassis_can_move: a refusal becomes a yes while the gate it is inside    *)
(* would be armed again for the same gun and target.                        *)
ChassisCanMove ==
    /\ gate # NoGate /\ CandidateGate(gate.gun) = gate
    /\ gatePassed' = [gun |-> gate.gun, target |-> aim] /\ verdict' = NoVerdict
    /\ UNCHANGED <<selected, walking, watch, gate, aim, calls, truth>>

SelectNext ==
    \/ SelectBegins \/ (\E native \in BOOLEAN : SelectEnds(native))
    \/ \E gun \in Guns, check \in {"eligible", "idle"}, yes \in 0..1 : WeaponCheck(gun, check, yes)
    \/ GameChanges \/ (\E gun \in Guns : CandidateBegins(gun)) \/ CandidateEnds \/ ChassisCanMove

SelectSpec == SelectInit /\ [][SelectNext]_selectVars

----------------------------------------------------------------------------
(* Whatever the game asks, switches or nests in between, a refusal is only  *)
(* overturned for the grenade that is selected when the call ends, and only *)
(* if the game itself found it eligible and waiting for idle in that call.  *)
OverridesAreEarned ==
    [][Len(calls') < Len(calls) /\ calls[Len(calls)].kind = "select" /\ verdict'.overridden =>
          selected = Grenade /\ walking /\ truth[Grenade] = [eligible |-> 1, idle |-> 1]]_selectVars

(* Outside a candidate call no gate is armed, and outside a selection no    *)
(* gun is watched; a gate is only passed for the gun and the target of the  *)
(* candidate call it is inside.                                             *)
GatesAreScoped ==
    /\ (\A k \in DOMAIN calls : calls[k].kind # "candidate") => gate = NoGate
    /\ (\A k \in DOMAIN calls : calls[k].kind # "select") => watch = NoWatch

(* A gate lets the soldier pass only for the gun and the target it was      *)
(* armed for, though the game may turn to another one inside the call.      *)
GatePassesItsTarget ==
    [][gatePassed' # gatePassed /\ gatePassed' # NoGate =>
          \E k \in DOMAIN calls :
             /\ calls[k].armed = gatePassed' /\ calls[k].kind = "candidate"
             /\ \A j \in DOMAIN calls : calls[j].kind = "candidate" => j <= k]_selectVars

(* moving-grenades: what it owns of the game's it holds once, its scopes    *)
(* are closed at rest, and a gate it opened is closed with its call.        *)
GrenadesSound == ReferencesOwned /\ ScopesClosed /\ GatesAreScoped
=============================================================================
