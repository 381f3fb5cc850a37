--------------------------- MODULE PassengerTargets ---------------------------
(***************************************************************************)
(* Targets of the guns that passengers fire from a vehicle                 *)
(* (vehicle-special-fire targeting.rs). Each passenger mount has a target  *)
(* of its own while its gunner fires at will; an explicit attack order     *)
(* overrides that. The plugin's hooks run inside one another on the        *)
(* simulation's thread: scopes is the stack of thread-local contexts.      *)
(* Target handles are counted references: refs is what the game's junction *)
(* counts. One gunner, whose mounts hold passengers' guns, nothing, or a   *)
(* gun of the hull.                                                        *)
(***************************************************************************)
EXTENDS PassengerRebind

CONSTANTS
    Mounts, Enemies,
    MaxAttackOrders,    \* bound on attack orders given
    ChecksFirst   \* the AI looks at an attack before the player gives a Move

NoTarget == "none"

ASSUME TargetsAssumption ==
    IsFiniteSet(Mounts) /\ NoTarget \notin Enemies /\ MaxAttackOrders \in Nat

Targets == Enemies \cup {NoTarget}
NoRecord == [target |-> NoTarget]

VARIABLES
    mount,      \* Mounts -> "passenger", "empty" or "hull"
    shared,     \* the gunner's target
    private,    \* Mounts -> the gun's target
    handles, lives,
    atWill,     \* GUNNER_AUTOMATIC is 1
    suspended,  \* the native reset's mark
    record,     \* ORDER_MODES: [target, automatic, order] or NoOrder
    ai,         \* the AI's top state: [attacks, order, own, deferred, checked]
    scopes,     \* the contexts of the hooks under way, the innermost last
    standing    \* history: the player's attack order in force

targetVars == <<mount, shared, private, handles, lives, atWill, suspended, record, ai, scopes, standing>>

TargetsInit ==
    /\ mount \in [Mounts -> {"passenger", "hull"}]
    /\ shared = NoTarget /\ private = [m \in Mounts |-> NoTarget]
    /\ handles = [e \in Enemies |-> 0] /\ lives = [e \in Enemies |-> TRUE]
    /\ atWill \in BOOLEAN /\ suspended = FALSE /\ record = NoRecord
    /\ ai = [attacks |-> FALSE, order |-> 0, own |-> FALSE, deferred |-> FALSE, checked |-> FALSE]
    /\ scopes = <<>> /\ standing = NoTarget

----------------------------------------------------------------------------
Engageable == {NoTarget} \cup {e \in Enemies : lives[e]}

(* PtrJunction references (external): what the setter, clone and release do. *)
Ref(r, e, n) == IF e = NoTarget THEN r ELSE [r EXCEPT ![e] = @ + n]
Assigned(r, m, e) == Ref(r, private[m], -1)     \* consumes e's handle, frees the old

InnerScope == scopes[Len(scopes)]
Inner == IF scopes = <<>> THEN [hook |-> "none"] ELSE InnerScope

(* automatic_intent: a record that no longer matches, or was reset, goes. *)
Matches == record # NoRecord /\ shared # NoTarget /\ record.target = shared
Reset == atWill /\ suspended
CheckedRecord == IF ~Reset /\ Matches THEN record ELSE NoRecord
Intent == IF CheckedRecord = NoRecord THEN atWill ELSE CheckedRecord.automatic

(* shared_target *)
Independent(m, explicit) ==
    ~explicit /\ scopes # <<>> /\ mount[m] = "passenger" /\ Intent

(* Mutant: only the hook's own context counts, not the refresh's. *)
RouteNarrow(m, e, explicit) ==
    /\ record' = IF ~explicit /\ scopes # <<>> THEN CheckedRecord ELSE record
    /\ IF Independent(m, explicit) /\ e # NoTarget /\ e = shared
       THEN UNCHANGED <<private, handles>>
       ELSE private' = [private EXCEPT ![m] = e] /\ handles' = Assigned(Ref(handles, e, 1), m, e)

(* The caller hands over a reference of its own to e: given back, or the    *)
(* gun's from now on. A refresh that clears leaves a live private target.   *)
Route(m, e, explicit) ==
    /\ record' = IF ~explicit /\ scopes # <<>> THEN CheckedRecord ELSE record
    /\ IF /\ Independent(m, explicit)
          /\ \/ e # NoTarget /\ e = shared
             \/ e = NoTarget /\ Inner.hook = "refresh" /\ private[m] # NoTarget /\ lives[private[m]]
       THEN UNCHANGED <<private, handles>>
       ELSE private' = [private EXCEPT ![m] = e] /\ handles' = Assigned(Ref(handles, e, 1), m, e)

----------------------------------------------------------------------------
(* tick: the native update, then every mount acquires by itself. *)
Tick ==
    /\ scopes = <<>>
    /\ scopes' = <<[hook |-> "tick", left |-> {}]>>
    /\ UNCHANGED <<mount, shared, private, handles, lives, atWill, suspended, record, ai, standing>>

NativeTicked ==
    /\ Inner.hook = "tick"
    /\ scopes' = <<[hook |-> "acquire", left |-> Mounts]>>
    /\ UNCHANGED <<mount, shared, private, handles, lives, atWill, suspended, record, ai, standing>>

(* choose: the current target if it can still be hit, else the native       *)
(* choice, else the first of the native order that can be hit. handles are  *)
(* the references the selections gave and the plugin still owns.            *)
Choose(m, seen, hit, picked, first) ==
    LET keep == private[m] # NoTarget /\ lives[private[m]] /\ private[m] \in seen \cap hit
    IN IF keep THEN private[m] ELSE IF picked \in hit THEN picked ELSE first

(* Mutant: what the native choice returned is not given back. *)
OwnedLeaks(target, picked) ==
    Ref(IF picked = target THEN handles ELSE Ref(handles, picked, 1), target, 1)

WithOwned(target, picked) == Ref(handles, target, 1)

(* retarget, for a mount bound to a passenger's gun: apply_selected_target  *)
(* discards the handle of the target it already has.                        *)
Retarget(m) ==
    \E seen, hit \in SUBSET {e \in Enemies : lives[e]} : \E picked \in seen \cup {NoTarget} :
      \E first \in (IF seen \cap hit = {} THEN {NoTarget} ELSE seen \cap hit) :
        LET target == Choose(m, seen, hit, picked, first)
        IN /\ private' = [private EXCEPT ![m] = target]
           /\ handles' = IF target = private[m] THEN Ref(WithOwned(target, picked), target, -1)
                      ELSE Assigned(WithOwned(target, picked), m, target)

AcquireIntent == Intent

(* Throttled, or its gun disabled: nothing happens. *)
Acquire(m) ==
    /\ Inner.hook = "acquire" /\ m \in InnerScope.left
    /\ record' = IF mount[m] = "passenger" THEN CheckedRecord ELSE record
    /\ \/ mount[m] = "passenger" /\ AcquireIntent /\ Retarget(m)
       \/ UNCHANGED <<private, handles>>
    /\ scopes' = [scopes EXCEPT ![Len(scopes)].left = @ \ {m}]
    /\ UNCHANGED <<mount, shared, lives, atWill, suspended, ai, standing>>

Acquired ==
    /\ Inner.hook = "acquire" /\ InnerScope.left = {}
    /\ scopes' = <<>>
    /\ UNCHANGED <<mount, shared, private, handles, lives, atWill, suspended, record, ai, standing>>

(* shared_refresh: the gunner's target changes, and is broadcast. *)
SharedRefresh(t) ==
    /\ Inner.hook \in {"none", "tick"}
    /\ t \in Engageable
    /\ shared' = t /\ handles' = Ref(Ref(handles, shared, -1), t, 1)
    /\ standing' = IF t = standing THEN standing ELSE NoTarget
    /\ scopes' = Append(scopes, [hook |-> "refresh", left |-> Mounts, had |-> private,
                                 free |-> atWill /\ (record = NoRecord \/ record.automatic)])
    /\ UNCHANGED <<mount, private, lives, atWill, suspended, record, ai>>

PassengerAboard == \E m \in Mounts : mount[m] = "passenger"

(* command: the intent is recorded before the native broadcast. *)
Command(t, explicit) ==
    /\ scopes = <<>> /\ t \in Engageable
    /\ ai.order < MaxAttackOrders
    /\ record' = IF PassengerAboard /\ t # NoTarget
                 THEN [target |-> t, automatic |-> ~explicit, order |-> 0] ELSE NoRecord
    /\ standing' = IF explicit /\ PassengerAboard THEN t ELSE NoTarget
    /\ shared' = t /\ handles' = Ref(Ref(handles, shared, -1), t, 1)
    /\ suspended' = FALSE /\ atWill' \in BOOLEAN
    /\ ai' = [attacks |-> t # NoTarget, order |-> ai.order + 1, own |-> ~explicit,
              deferred |-> FALSE, checked |-> FALSE]
    /\ scopes' = <<[hook |-> "command", left |-> Mounts, explicit |-> explicit]>>
    /\ UNCHANGED <<mount, private, lives>>

Broadcast(m) ==
    /\ Inner.hook \in {"refresh", "command"} /\ m \in InnerScope.left
    /\ \E e \in {shared} \cup (IF InnerScope.hook = "refresh" THEN {NoTarget} ELSE {}) :
          Route(m, e, InnerScope.hook = "command" /\ InnerScope.explicit)
    /\ scopes' = [scopes EXCEPT ![Len(scopes)].left = @ \ {m}]
    /\ UNCHANGED <<mount, shared, lives, atWill, suspended, ai, standing>>

BroadcastEnds ==
    /\ Inner.hook \in {"refresh", "command"} /\ InnerScope.left = {}
    /\ scopes' = SubSeq(scopes, 1, Len(scopes) - 1)
    /\ UNCHANGED <<mount, shared, private, handles, lives, atWill, suspended, record, ai, standing>>

(* Stop, or an invalid target: the game clears one gun. *)
ClearGun(m) ==
    /\ Inner.hook \in {"none", "tick"} /\ private[m] # NoTarget
    /\ Route(m, NoTarget, FALSE)
    /\ UNCHANGED <<mount, shared, lives, atWill, suspended, ai, scopes, standing>>

----------------------------------------------------------------------------
(* OrderMode::observe *)
Observed ==
    IF record = NoRecord \/ ~ai.attacks \/ record.automatic THEN record
    ELSE IF record.order = 0 THEN [record EXCEPT !.order = ai.order]
    ELSE IF ai.order # record.order /\ ai.own THEN [record EXCEPT !.automatic = TRUE]
    ELSE record

(* automatic_passenger_gunner: no mount is, or may still be, the hull's. *)
PassengerOnly(automatic) ==
    automatic /\ PassengerAboard /\ \A m \in Mounts : mount[m] # "hull"

(* capable, candidate_query and move_acquire report no enemy. *)
LeavesAttack == [ai EXCEPT !.attacks = FALSE, !.deferred = FALSE]

(* passenger_only_entity, behind capable, candidate_query and move_acquire: *)
(* told that no gun can engage, the AI leaves its attack and does what was  *)
(* deferred.                                                                *)
CheckAttack ==
    /\ scopes = <<>> /\ ai.attacks
    /\ LET seen == Observed
           kept == IF ~Reset /\ seen # NoRecord /\ shared # NoTarget /\ seen.target = shared
                   THEN seen ELSE NoRecord
           only == PassengerOnly(IF kept = NoRecord THEN atWill ELSE kept.automatic)
       IN /\ record' = kept
          /\ ai' = IF only THEN LeavesAttack ELSE [ai EXCEPT !.checked = TRUE]
          /\ standing' = IF only THEN NoTarget ELSE standing
    /\ UNCHANGED <<mount, shared, private, handles, lives, atWill, suspended, scopes>>

(* A Move during an attack (external): the AI attacks on by an order of its *)
(* own, with the Move behind it.                                            *)
MoveGiven ==
    /\ scopes = <<>> /\ ai.attacks /\ ~ai.deferred /\ ai.order < MaxAttackOrders
    /\ ai.checked \/ ~ChecksFirst
    /\ ai' = [ai EXCEPT !.order = @ + 1, !.own = TRUE, !.deferred = TRUE]
    /\ standing' = NoTarget
    /\ UNCHANGED <<mount, shared, private, handles, lives, atWill, suspended, record, scopes>>

(* The native reset suspends the gunner; the game resumes it. *)
Suspend ==
    /\ scopes = <<>> /\ suspended' = ~suspended /\ standing' = NoTarget
    /\ atWill' = (atWill \/ ~suspended)
    /\ UNCHANGED <<mount, shared, private, handles, lives, record, ai, scopes>>

Die(e) ==
    /\ lives[e] /\ lives' = [lives EXCEPT ![e] = FALSE]
    /\ standing' = IF standing = e THEN NoTarget ELSE standing
    /\ UNCHANGED <<mount, shared, private, handles, atWill, suspended, record, ai, scopes>>

(* A passenger's gun is bound to a mount, or unbound. *)
Board(m) ==
    /\ Inner.hook \in {"none", "tick"} /\ mount[m] # "hull"
    /\ mount' = [mount EXCEPT ![m] = IF @ = "empty" THEN "passenger" ELSE "empty"]
    /\ UNCHANGED <<shared, private, handles, lives, atWill, suspended, record, ai, scopes, standing>>

TargetsNext ==
    \/ Tick \/ NativeTicked \/ Acquired \/ BroadcastEnds \/ CheckAttack \/ MoveGiven \/ Suspend
    \/ \E m \in Mounts : Acquire(m) \/ Broadcast(m) \/ ClearGun(m) \/ Board(m)
    \/ \E t \in Targets : SharedRefresh(t) \/ \E explicit \in BOOLEAN : Command(t, explicit)
    \/ \E e \in Enemies : Die(e)

TargetsSpec == TargetsInit /\ [][TargetsNext]_targetVars

----------------------------------------------------------------------------
(* Every reference to a target is the gunner's or a gun's: however the      *)
(* hooks nest, none is leaked and none is released twice.                   *)
HandlesBalanced ==
    \A e \in Enemies : handles[e] = (IF shared = e THEN 1 ELSE 0)
                                 + Cardinality({m \in Mounts : private[m] = e})

(* While the player's attack order stands, no mount looks for a target of   *)
(* its own, whatever mode the game has put the gunner in.                   *)
ExplicitOrderHolds ==
    [][standing # NoTarget /\ Inner.hook = "acquire" => private' = private]_targetVars

(* A refresh of the shared target costs no passenger's mount that fires at  *)
(* will its own live target, in whichever hook it happens.                  *)
PrivateTargetsSurvive ==
    [][Inner.hook = "refresh" /\ InnerScope.left = {} /\ InnerScope.free /\ ~suspended =>
          \A m \in Mounts : mount[m] = "passenger" /\ InnerScope.had[m] # NoTarget /\ lives[InnerScope.had[m]]
                                => private[m] = InnerScope.had[m]]_targetVars

(* The Move a player gives during an attack is not held up by the record of *)
(* that attack: the next time the AI asks about a vehicle with passengers'  *)
(* guns only, it moves on.                                                  *)
MoveProceeds ==
    ai.deferred /\ ai.attacks /\ scopes = <<>> /\ ~suspended /\ Matches
        => Observed.automatic

(* vehicle-special-fire: target handles balance, a move goes on whatever    *)
(* the gunner aims at, and no gun is on two mounts.                         *)
GunnersSound == HandlesBalanced /\ MoveProceeds /\ RebindTypeOK /\ OneMountPerGun
=============================================================================
