------------------------------ MODULE WeaponDrops ------------------------------
(***************************************************************************)
(* The weapon-drops plugin: a squad exchanges its primary weapon as a      *)
(* whole (squad_collection.rs), with its shared rounds conserved (ammo.rs) *)
(* or set aside (reserve.rs); a wiped squad drops one weapon               *)
(* (squad_death.rs); and a loaded game gets back its loadout               *)
(* (persistence.rs) and the rounds set aside (reserve.rs).                 *)
(*                                                                         *)
(* The plugin's functions run inside the game's collection and death       *)
(* callbacks, which call one another: calls is the stack of those under    *)
(* way. The game's own ammunition arithmetic (external) is the one the     *)
(* plugin's tests give it. Every weapon here is a primary of one slot and  *)
(* fires one kind of round; held special weapons and the limits on the     *)
(* length of a depot's vectors are left out.                               *)
(***************************************************************************)
EXTENDS Integers, Sequences, FiniteSets, FiniteSetsExt

CONSTANTS
    Squads,
    SquadMembers,          \* the members of each squad
    Weapons,
    AmmoOf,          \* the kind of round of each weapon
    PerGun,          \* rounds a gun adds to its squad's capacity
    MaxReserve,      \* rounds a reserve may count (u32::MAX)
    Pickups,         \* names for pickups on the ground
    FirstWeapon,     \* what squads are scripted to carry
    FirstRounds,     \* what each squad starts with
    FirstPickup,     \* [item, rounds] lying on the ground
    MaxCallbacks         \* bound on callbacks inside one another

ASSUME WeaponAssumption ==
    \A s \in Squads : FirstRounds <= PerGun * Cardinality(SquadMembers[s])

Ammo == {AmmoOf[w] : w \in Weapons}
Infantry == UNION {SquadMembers[s] : s \in Squads}
SquadOf(m) == CHOOSE s \in Squads : m \in SquadMembers[s]
NoPickup == [item |-> "none", rounds |-> 0]

VARIABLES
    ammoPolicy, deathAmmo,
    weapon, survivors, chambered,   \* of each soldier
    pool,                     \* per squad and kind: [cap, rounds, carriers]
    reserve,                  \* STATES: rounds set aside per squad's depot
    cache,                    \* per squad: the item of its primary slot in the
                              \* holder's cache, or "none" before its rebuild
    ground, callStack,
    wiped,                    \* squads whose last soldier died, and drops made
    spent,                    \* history: rounds fired, discarded or lost
    panicked                  \* an expect() failed

weaponVars == <<ammoPolicy, deathAmmo, weapon, survivors, chambered, pool, reserve, cache, ground,
                callStack, wiped, spent, panicked>>

NoRow == [cap |-> 0, rounds |-> 0, carriers |-> 0]
Living(s) == {m \in SquadMembers[s] : survivors[m]}
Reserved(s, a) ==
    MapThenSumSet(LAMBDA m : chambered[m], {m \in SquadMembers[s] : AmmoOf[weapon[m]] = a})

WeaponInit ==
    /\ ammoPolicy \in {"discard", "transfer", "retain"} /\ deathAmmo \in {"discard", "transfer"}
    /\ weapon = [m \in Infantry |-> FirstWeapon]
    /\ survivors = [m \in Infantry |-> TRUE] /\ chambered = [m \in Infantry |-> 0]
    /\ pool = [s \in Squads |-> [a \in Ammo |->
                  IF a # AmmoOf[FirstWeapon] THEN NoRow
                  ELSE [cap |-> PerGun * Cardinality(SquadMembers[s]), rounds |-> FirstRounds,
                        carriers |-> Cardinality(SquadMembers[s])]]]
    /\ reserve = [s \in Squads |-> [a \in Ammo |-> 0]]
    /\ cache = [s \in Squads |-> FirstWeapon]
    /\ ground = [p \in Pickups |-> IF p = Min(Pickups) THEN FirstPickup ELSE NoPickup]
    /\ callStack = <<>> /\ wiped = [s \in Squads |-> 0]
    /\ spent = [a \in Ammo |-> 0] /\ panicked = FALSE

----------------------------------------------------------------------------
(* The game's depot (external): a gun leaves with its share, a gun is      *)
(* registered with no rounds, and rounds are taken up to capacity.         *)
CarrierShare(row) == IF row.carriers = 0 THEN 0 ELSE row.rounds \div row.carriers
RemoveCarrier(row) ==
    IF row.carriers <= 1 THEN NoRow
    ELSE LET left == row.carriers - 1
             cap == (left * row.cap) \div row.carriers
         IN [cap |-> cap, rounds |-> Min({row.rounds - CarrierShare(row), cap}), carriers |-> left]
Register(row) == [row EXCEPT !.cap = @ + PerGun, !.carriers = @ + 1]
Taken(row, n) == Min({n, row.cap - row.rounds})

(* The rows after n guns left and what they took, one after another. *)
Removals[n \in Nat] ==
    [row \in [cap : Nat, rounds : Nat, carriers : Nat] |->
        IF n = 0 THEN [row |-> row, out |-> 0]
        ELSE LET rest == Removals[n - 1][RemoveCarrier(row)]
             IN [row |-> rest.row, out |-> CarrierShare(row) + rest.out]]
RemoveAll(row, n) == Removals[n][row]

Registrations[n \in Nat] ==
    [row \in [cap : Nat, rounds : Nat, carriers : Nat] |->
        IF n = 0 THEN row ELSE Registrations[n - 1][Register(row)]]
RegisterAll(row, n) == Registrations[n][row]

----------------------------------------------------------------------------
(* squad_collection.rs *)
TopCall == callStack[Len(callStack)]
Popped == SubSeq(callStack, 1, Len(callStack) - 1)
Busy(s) == \E k \in DOMAIN callStack : callStack[k].kind = "collect" /\ callStack[k].squad = s

(* The game collects inside a collection, but not inside a death. *)
MayCollect ==
    /\ Len(callStack) < MaxCallbacks
    /\ callStack # <<>> => TopCall.kind = "collect"

(* Bound: each callback under way may leave one more pickup. *)
RoomOnGround == Cardinality({p \in Pickups : ground[p] = NoPickup}) > Len(callStack)

(* One weapon that every living member of the squad carries. *)
Uniform(s) == \A m, n \in Living(s) : weapon[m] = weapon[n]

(* preflight_retain, with the ceiling of what may come out *)
Preflight(s, old) ==
    ammoPolicy = "retain" =>
        reserve[s][AmmoOf[old]] + pool[s][AmmoOf[old]].rounds <= MaxReserve

(* collect, as far as the game's own callback: plan refuses what it cannot *)
(* exchange as a whole, and the pickup stays on the ground.                *)
Collect(m, p) ==
    LET s == SquadOf(m)
    IN /\ MayCollect /\ survivors[m] /\ ground[p] # NoPickup
       /\ \A k \in DOMAIN callStack : callStack[k].kind = "collect" => callStack[k].pickup # p
       /\ ~Busy(s) /\ Uniform(s) /\ Preflight(s, weapon[m])
       /\ RoomOnGround
       /\ callStack' = Append(callStack, [kind |-> "collect", squad |-> s, pickup |-> p,
                                  members |-> Living(s), old |-> weapon[m],
                                  swapped |-> FALSE, out |-> 0, left |-> 0])
       /\ UNCHANGED <<ammoPolicy, deathAmmo, weapon, survivors, chambered, pool, reserve, cache, ground,
                      wiped, spent, panicked>>

(* revalidate *)
Revalidate(call) ==
    /\ call.members \subseteq Living(call.squad)
    /\ \A m \in call.members : weapon[m] = call.old

(* Mutant: all that was set aside is withdrawn, whatever was taken. *)
WithdrawAll(s, set, a, taken) == [set EXCEPT ![s][a] = 0]

(* withdraw: exactly the rounds the depot took *)
Withdraw(s, set, a, taken) == [set EXCEPT ![s][a] = @ - taken]

(* The exchange: every outgoing gun first, then every replacement, then     *)
(* the pickup's rounds, then what was set aside for this kind; the slot of  *)
(* a cache there is names the new weapon.                                   *)
ExchangeGuns(call) ==
    LET s == call.squad
        item == ground[call.pickup].item
        n == Cardinality(call.members)
        from == AmmoOf[call.old]
        to == AmmoOf[item]
        gone == RemoveAll(pool[s][from], n)
        bare == [pool[s] EXCEPT ![from] = gone.row]
        new == [bare EXCEPT ![to] = RegisterAll(@, n)]
        come == Taken(new[to], ground[call.pickup].rounds)
        fed == [new EXCEPT ![to].rounds = @ + come]
        kept == IF ammoPolicy = "retain" THEN [reserve EXCEPT ![s][from] = @ + gone.out] ELSE reserve
        back == IF ammoPolicy = "retain" THEN Taken(fed[to], kept[s][to]) ELSE 0
        spill == pool[s][from].rounds - gone.out - gone.row.rounds
    IN /\ pool' = [pool EXCEPT ![s] = [fed EXCEPT ![to].rounds = @ + back]]
       /\ reserve' = Withdraw(s, kept, to, back)
       /\ panicked' = (panicked \/ kept[s][from] > MaxReserve \/ new[to].carriers = 0)
       /\ weapon' = [m \in Infantry |-> IF m \in call.members THEN item ELSE weapon[m]]
       /\ chambered' = [m \in Infantry |-> IF m \in call.members THEN 0 ELSE chambered[m]]
       /\ cache' = [cache EXCEPT ![s] = IF @ = "none" THEN @ ELSE item]
       /\ callStack' = Append(Popped, [call EXCEPT !.swapped = TRUE, !.out = gone.out,
                                   !.left = ground[call.pickup].rounds - come])
       /\ spent' = [spent EXCEPT ![from] = @ + spill
                                             + (IF ammoPolicy = "discard" THEN gone.out ELSE 0)]

(* add: called for the collector inside the game's callback; what no longer *)
(* matches the plan is refused, and the callback goes on.                   *)
Add ==
    /\ callStack # <<>> /\ TopCall.kind = "collect" /\ ~TopCall.swapped
    /\ Revalidate(TopCall) /\ Preflight(TopCall.squad, TopCall.old)
    /\ ExchangeGuns(TopCall)
    /\ UNCHANGED <<ammoPolicy, deathAmmo, survivors, ground, wiped>>

Spawned(g, first, second) ==
    LET free == {p \in Pickups : g[p] = NoPickup}
        one == Min(free)
        two == Min(free \ {one})
    IN IF second = NoPickup THEN [g EXCEPT ![one] = first]
       ELSE [g EXCEPT ![one] = first, ![two] = second]

(* The rest of collect: the game has used up the pickup; the old weapon is  *)
(* left, with its rounds where they are transferred, and what did not fit.  *)
CollectReturns ==
    LET call == TopCall
        pick == ground[call.pickup]
        rest == [ground EXCEPT ![call.pickup] = NoPickup]
    IN /\ callStack # <<>> /\ TopCall.kind = "collect"
       /\ TopCall.swapped \/ ~Revalidate(TopCall) \/ ~Preflight(TopCall.squad, TopCall.old)
       /\ callStack' = Popped
       /\ ground' = IF ~call.swapped THEN rest
                    ELSE Spawned(rest, [item |-> call.old, rounds |->
                                            IF ammoPolicy = "transfer" THEN call.out ELSE 0],
                                 IF call.left = 0 THEN NoPickup
                                 ELSE [item |-> pick.item, rounds |-> call.left])
       /\ spent' = IF call.swapped THEN spent
                   ELSE [spent EXCEPT ![AmmoOf[pick.item]] = @ + pick.rounds]
       /\ UNCHANGED <<ammoPolicy, deathAmmo, weapon, survivors, chambered, pool, reserve, cache, wiped,
                      panicked>>

----------------------------------------------------------------------------
(* squad_death.rs *)
Dying == {callStack[k].soldier : k \in {j \in DOMAIN callStack : callStack[j].kind = "death"}}

(* death, as far as the game's bookkeeping, which may kill others *)
DeathBegins(m) ==
    /\ Len(callStack) < MaxCallbacks /\ survivors[m] /\ m \notin Dying
    /\ RoomOnGround
    /\ callStack' = Append(callStack, [kind |-> "death", soldier |-> m, item |-> weapon[m]])
    /\ UNCHANGED <<ammoPolicy, deathAmmo, weapon, survivors, chambered, pool, reserve, cache, ground,
                   wiped, spent, panicked>>

(* has_active_infantry_peer: the dying count until their callback is over *)
FinalInfantry(m) == Living(SquadOf(m)) = {m}

(* transfer_ammo: the rounds outside the loaded magazines *)
DeathPayload(s, item) ==
    LET a == AmmoOf[item]
    IN IF deathAmmo = "discard" THEN 0 ELSE pool[s][a].rounds - Reserved(s, a)

(* The rest of death *)
DeathEnds ==
    LET m == TopCall.soldier
        s == SquadOf(m)
        a == AmmoOf[TopCall.item]
        rounds == DeathPayload(s, TopCall.item)
    IN /\ callStack # <<>> /\ TopCall.kind = "death"
       /\ callStack' = Popped
       /\ survivors' = [survivors EXCEPT ![m] = FALSE]
       /\ IF FinalInfantry(m)
          THEN /\ ground' = Spawned(ground, [item |-> TopCall.item, rounds |-> rounds], NoPickup)
               /\ pool' = [pool EXCEPT ![s][a].rounds = @ - rounds]
               /\ wiped' = [wiped EXCEPT ![s] = @ + 1]
          ELSE UNCHANGED <<ground, pool, wiped>>
       /\ UNCHANGED <<ammoPolicy, deathAmmo, weapon, chambered, reserve, cache, spent, panicked>>

----------------------------------------------------------------------------
(* destroy and forget: the game frees a wiped squad's depot, whose address  *)
(* a later squad's may have.                                                *)
ReserveForgotten(s) == [reserve EXCEPT ![s] = [a \in Ammo |-> 0]]

SquadReplaced(s) ==
    /\ callStack = <<>> /\ Living(s) = {} /\ wiped[s] = 1
    /\ spent' = [a \in Ammo |-> spent[a] + pool[s][a].rounds + reserve[s][a]]
    /\ reserve' = ReserveForgotten(s)
    /\ pool' = [pool EXCEPT ![s] = [a \in Ammo |->
                   IF a = AmmoOf[FirstWeapon]
                   THEN [cap |-> PerGun * Cardinality(SquadMembers[s]), rounds |-> 0,
                         carriers |-> Cardinality(SquadMembers[s])]
                   ELSE NoRow]]
    /\ weapon' = [m \in Infantry |-> IF m \in SquadMembers[s] THEN FirstWeapon ELSE weapon[m]]
    /\ survivors' = [m \in Infantry |-> m \in SquadMembers[s] \/ survivors[m]]
    /\ chambered' = [m \in Infantry |-> IF m \in SquadMembers[s] THEN 0 ELSE chambered[m]]
    /\ cache' = [cache EXCEPT ![s] = FirstWeapon]
    /\ wiped' = [wiped EXCEPT ![s] = 0]
    /\ UNCHANGED <<ammoPolicy, deathAmmo, ground, callStack, panicked>>

(* The game fires, loads magazines and sends reinforcements, who carry what *)
(* the squad's slot says (external).                                        *)
Reload(m) ==
    LET s == SquadOf(m) a == AmmoOf[weapon[m]]
    IN /\ callStack = <<>> /\ survivors[m]
       /\ \/ /\ chambered[m] = 0 /\ pool[s][a].rounds > Reserved(s, a)
             /\ chambered' = [chambered EXCEPT ![m] = 1]
             /\ UNCHANGED <<pool, spent>>
          \/ /\ chambered[m] = 1
             /\ chambered' = [chambered EXCEPT ![m] = 0]
             /\ pool' = [pool EXCEPT ![s][a].rounds = @ - 1]
             /\ spent' = [spent EXCEPT ![a] = @ + 1]
       /\ UNCHANGED <<ammoPolicy, deathAmmo, weapon, survivors, reserve, cache, ground, callStack, wiped,
                      panicked>>

Reinforce(m) ==
    LET s == SquadOf(m)
        from == AmmoOf[weapon[m]]
        to == AmmoOf[cache[s]]
        bare == [pool[s] EXCEPT ![from] = IF to = from THEN @ ELSE RemoveCarrier(@)]
    IN /\ callStack = <<>> /\ ~survivors[m] /\ Living(s) # {} /\ cache[s] # "none"
       /\ survivors' = [survivors EXCEPT ![m] = TRUE]
       /\ weapon' = [weapon EXCEPT ![m] = cache[s]]
       /\ chambered' = [chambered EXCEPT ![m] = 0]
       /\ pool' = [pool EXCEPT ![s] = [bare EXCEPT ![to] = IF to = from THEN @ ELSE Register(@)]]
       /\ spent' = [spent EXCEPT ![from] = @ + pool[s][from].rounds - bare[from].rounds]
       /\ UNCHANGED <<ammoPolicy, deathAmmo, reserve, cache, ground, callStack, wiped, panicked>>

----------------------------------------------------------------------------
(* writer: the game saves a depot's rows with a tagged one after them for   *)
(* each kind set aside, and the depot has its own rows back.                *)
Row(a, row, tagged) == [kind |-> a, row |-> row, tagged |-> tagged]
Markers(s) ==
    {Row(a, [cap |-> reserve[s][a], rounds |-> reserve[s][a], carriers |-> 1], TRUE) :
        a \in {b \in Ammo : reserve[s][b] # 0}}
SavedRows(s) ==
    {Row(a, pool[s][a], FALSE) : a \in {b \in Ammo : pool[s][b] # NoRow}} \cup Markers(s)

(* load: what is tagged leaves the depot before the game sees it. *)
LoadedPool(rows) ==
    [a \in Ammo |->
        IF \E r \in rows : r.kind = a /\ ~r.tagged
        THEN (CHOOSE r \in rows : r.kind = a /\ ~r.tagged).row
        ELSE NoRow]
LoadedReserve(rows) ==
    [a \in Ammo |->
        MapThenSumSet(LAMBDA r : r.row.rounds, {r \in rows : r.kind = a /\ r.tagged})]

(* snapshot_members: the weapons of the living, or else of the dead *)
Evidence(s, guns, alive) ==
    LET present == {m \in SquadMembers[s] : alive[m]}
    IN {guns[m] : m \in (IF present = {} THEN SquadMembers[s] ELSE present)}

(* rebuild and reconcile: a slot takes the weapon all evidence agrees on *)
Reconcile(s, guns, alive) ==
    IF Cardinality(Evidence(s, guns, alive)) = 1
    THEN CHOOSE w \in Evidence(s, guns, alive) : TRUE
    ELSE FirstWeapon

(* A game is saved here and loaded (what was played in between is undone): *)
(* the slot cache is not in the save, and the policies may be others.      *)
Reloaded ==
    /\ callStack = <<>>
    /\ pool' = [s \in Squads |-> LoadedPool(SavedRows(s))]
    /\ reserve' = [s \in Squads |-> LoadedReserve(SavedRows(s))]
    /\ cache' = [s \in Squads |-> "none"]
    /\ ammoPolicy' \in {"discard", "transfer", "retain"}
    /\ deathAmmo' \in {"discard", "transfer"}
    /\ UNCHANGED <<weapon, survivors, chambered, ground, callStack, wiped, spent, panicked>>

(* rebuild: the game makes a holder's cache, before it sends reinforcements. *)
Rebuild(s) ==
    /\ callStack = <<>> /\ cache[s] = "none"
    /\ cache' = [cache EXCEPT ![s] = Reconcile(s, weapon, survivors)]
    /\ UNCHANGED <<ammoPolicy, deathAmmo, weapon, survivors, chambered, pool, reserve,
                   ground, callStack, wiped, spent, panicked>>

WeaponNext ==
    \/ \E m \in Infantry, p \in Pickups : Collect(m, p)
    \/ Add \/ CollectReturns \/ DeathEnds \/ Reloaded
    \/ \E m \in Infantry : DeathBegins(m) \/ Reload(m) \/ Reinforce(m)
    \/ \E s \in Squads : SquadReplaced(s) \/ Rebuild(s)

WeaponSpec == WeaponInit /\ [][WeaponNext]_weaponVars

----------------------------------------------------------------------------
OnGround(a) ==
    MapThenSumSet(LAMBDA p : ground[p].rounds,
                  {p \in Pickups : ground[p] # NoPickup /\ AmmoOf[ground[p].item] = a})
InSquads(a) == MapThenSumSet(LAMBDA s : pool[s][a].rounds + reserve[s][a], Squads)
Started(a) == (IF a = AmmoOf[FirstWeapon] THEN FirstRounds * Cardinality(Squads) ELSE 0)
              + (IF a = AmmoOf[FirstPickup.item] THEN FirstPickup.rounds ELSE 0)

(* No swap, drop, save or reload makes or loses a round: what squads carry, *)
(* what they set aside and what lies on the ground is what there was, less  *)
(* what was fired, what the discard policy threw away, and what went with a *)
(* destroyed squad or a refused collection.                                 *)
RoundsConserved ==
    callStack = <<>> => \A a \in Ammo : InSquads(a) + OnGround(a) + spent[a] = Started(a)

(* A squad's depot stays one the game can use, and no expect() fails: rows  *)
(* hold no more than their capacity, magazines no more than the row.        *)
DepotsSound ==
    /\ ~panicked
    /\ \A s \in Squads, a \in Ammo :
          /\ pool[s][a].rounds <= pool[s][a].cap
          /\ Reserved(s, a) <= pool[s][a].rounds
          /\ reserve[s][a] \in 0..MaxReserve

(* A squad is armed alike: its living members carry one primary, the one    *)
(* its slot will give the next, through swaps, deaths, saves and reloads.   *)
SquadsArmedAlike ==
    callStack = <<>> => \A s \in Squads :
        /\ Uniform(s)
        /\ cache[s] # "none" => \A m \in Living(s) : weapon[m] = cache[s]

(* A wiped squad leaves one drop, whoever's death brought about another's.  *)
OneDropPerWipe ==
    callStack = <<>> => \A s \in Squads : wiped[s] = (IF Living(s) = {} THEN 1 ELSE 0)
=============================================================================
