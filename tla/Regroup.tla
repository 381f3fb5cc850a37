------------------------------ MODULE Regroup -------------------------------
(***************************************************************************)
(* plugins/regroup: forming a squad from selected soldiers and restoring   *)
(* them to the squads they came from.                                      *)
(*                                                                         *)
(* One key press runs to its end on the game's thread, so nothing of the   *)
(* game comes between its steps except what the game's own squad factory   *)
(* does while it is asked for a new squad: it may construct other squads   *)
(* first, return one it was not asked for, or none.  Between key presses   *)
(* soldiers fire, reload, board and die, and squads are updated.           *)
(*                                                                         *)
(* Left out of a pool's record: its carriers, which are split like its     *)
(* spare capacity, and its disabled bit; of a pin, which way it is set; of *)
(* an origin, its species and team.  One world; a new one starts with an   *)
(* empty ledger.  No count is near 2^32.  Nothing but the transfer touches *)
(* the plan's squads while the factory runs, so its re-checks of rosters   *)
(* and pools before it commits, and of the result after, find what it left.*)
(***************************************************************************)
EXTENDS Integers, FiniteSets, FiniteSetsExt, SequencesExt

CONSTANTS
    Troops,         \* the soldiers
    FirstSquads,    \* the squad each one starts in, a function into {1, 2}
    Supports,       \* the ammunition each one's gun takes
    FirstPools,     \* the pools the first two squads start with
    MaxTroops,      \* the effective max_soldiers
    MaxTypes,       \* the effective limit of ammunition types of a squad
    PinBits,        \* the slots a soldier's ammunition pins can name; 8
    MaxSquads,      \* bound: squads ever made
    MaxMade,        \* bound: squads the factory makes for one request
    MaxScripts,     \* bound: squads a script removes
    MaxEvents       \* bound: what soldiers do between key presses

ASSUME FirstSquadsAreTwo == FirstSquads \in [Troops -> {1, 2}] /\ MaxSquads \in Nat \ {0, 1}

VARIABLES
    squads,     \* the squads that exist
    squadOf,    \* the squad of each soldier
    living,     \* the soldiers alive
    aboard,     \* the soldiers in a building or a vehicle
    pools,      \* the ammunition records of each squad
    inGun,      \* the rounds loaded in each soldier's gun
    pins,       \* the slots each soldier has pinned
    places,     \* the capacity of each squad's holder
    selectable, \* the squads the player can select
    origins,    \* the ledger's origins: where each is now, whether parked
    origin,     \* the origin recorded for each soldier, or 0
    spawn,      \* the request to the factory under way, and the hooks' state
    blocked,    \* CREATION_BLOCKED
    tasks,      \* what is left of a restore: soldiers by origin
    report,     \* what the last key press came to
    fired, scripts, events, nextSquad

gameVars == <<squads, squadOf, living, aboard, pools, inGun, pins, places, selectable>>
regroupVars == <<squads, squadOf, living, aboard, pools, inGun, pins, places, selectable,
                 origins, origin, spawn, blocked, tasks, report, fired, scripts, events, nextSquad>>

NoSpawn == [on |-> FALSE, who |-> {}, from |-> {}, key |-> 0, prepared |-> 0, destination |-> 0,
            constructed |-> FALSE, aborted |-> FALSE, made |-> {}, created |-> {}]
NoReport == [kind |-> "none", squad |-> 0, who |-> {}]

Roster(q) == {s \in living : squadOf[s] = q}
(* The ammunition a gun has chosen, of those it takes.                      *)
GunAmmo(s) == Max(Supports[s])
LoadedOf(S, ammo) == MapThenSumSet(LAMBDA s : inGun[s], {s \in S : GunAmmo(s) = ammo})

RegroupInit ==
    /\ squads = {1, 2}
    /\ squadOf = FirstSquads
    /\ living = Troops /\ aboard = {}
    /\ pools = [q \in 1..MaxSquads |-> IF q \in {1, 2} THEN FirstPools[q] ELSE <<>>]
    /\ inGun = [s \in Troops |-> 1]
    /\ pins = [s \in Troops |-> {}]
    /\ places = [q \in 1..MaxSquads |-> Cardinality({s \in Troops : FirstSquads[s] = q})]
    /\ selectable = {1, 2}
    /\ origins = <<>> /\ origin = [s \in Troops |-> 0]
    /\ spawn = NoSpawn /\ blocked = FALSE /\ tasks = <<>> /\ report = NoReport
    /\ fired = 0 /\ scripts = 0 /\ events = 0 /\ nextSquad = 3
-----------------------------------------------------------------------------
(* Ammunition (model.rs, plan.rs)                                           *)

Share(n, picked, total) == (n * picked) \div total

(* What goes with the picked ones of a pool's compatible soldiers.          *)
Split(supply, picked, total, loaded) ==
    LET rounds == loaded + Share(supply.rounds - supply.reserved, picked, total)
    IN  [rounds |-> rounds, capacity |-> rounds + Share(supply.capacity - supply.rounds, picked, total),
         reserved |-> loaded]

Minus(a, b) == [rounds |-> a.rounds - b.rounds, capacity |-> a.capacity - b.capacity,
                reserved |-> a.reserved - b.reserved]
Combine(a, b) == [rounds |-> a.rounds + b.rounds, capacity |-> a.capacity + b.capacity,
                  reserved |-> a.reserved + b.reserved]

(* A slot no gun of the squad takes is shared by all of it.                 *)
Sharers(q, ammo) ==
    LET compatible == {s \in Roster(q) : ammo \in Supports[s]}
    IN  IF compatible = {} THEN Roster(q) ELSE compatible

MovedSupply(q, ammo, who) ==
    LET sharers == Sharers(q, ammo)
    IN  Split(pools[q][ammo], Cardinality(sharers \cap who), Cardinality(sharers),
              LoadedOf(Roster(q) \cap who, ammo))

Sources(who) == {squadOf[s] : s \in who}

(* The squads that give up some of an ammunition.                           *)
Givers(who, ammo) == {q \in Sources(who) : /\ ammo \in DOMAIN pools[q]
                                           /\ Sharers(q, ammo) \cap who # {}}
MovedTypes(who) == {ammo \in UNION {DOMAIN pools[q] : q \in Sources(who)} : Givers(who, ammo) # {}}
Moved(who) ==
    [ammo \in MovedTypes(who) |->
        FoldSet(LAMBDA q, sum : Combine(sum, MovedSupply(q, ammo, who)),
                [rounds |-> 0, capacity |-> 0, reserved |-> 0], Givers(who, ammo))]

Left(q, who) == [ammo \in DOMAIN pools[q] |-> Minus(pools[q][ammo], MovedSupply(q, ammo, who))]

(* Pins name slots, and the game keeps a pool's slots sorted.               *)
Order(types) == SetToSortSeq(types, LAMBDA a, b : a < b)
RemapPins(old, new, pinned) ==
    {j \in 1..Min({PinBits, Len(new)}) : \E i \in pinned : i <= PinBits /\ old[i] = new[j]}
-----------------------------------------------------------------------------
(* Preflight (plan.rs, history.rs)                                          *)

(* Supply::split refuses counts that do not fit each other.                 *)
Orderly(supply) == supply.reserved <= supply.rounds /\ supply.rounds <= supply.capacity

(* pool_slots, member: every member of a squad taken from or joined is fit. *)
Fit(q) ==
    /\ Roster(q) \cap aboard = {}
    /\ places[q] >= Cardinality(Roster(q))
    /\ \A ammo \in DOMAIN pools[q] : /\ Orderly(pools[q][ammo])
                                    /\ pools[q][ammo].reserved = LoadedOf(Roster(q), ammo)
    /\ \A s \in Roster(q) : inGun[s] # 0 => GunAmmo(s) \in DOMAIN pools[q]

(* Rounds loaded in the guns that take an ammunition are all its reserve.   *)
SplitsWell(q, ammo, who) ==
    LET sharers == Sharers(q, ammo)
        loaded == LoadedOf(Roster(q) \cap who, ammo)
    IN  /\ sharers \cap who = {} => loaded = 0
        /\ sharers \subseteq who => loaded = pools[q][ammo].reserved

(* What is selected may be moved; forming one's own whole squad is refused. *)
PlanFor(who, allowWhole) ==
    /\ who # {} /\ Cardinality(who) <= MaxTroops
    /\ \A q \in Sources(who) : /\ Fit(q)
                              /\ \A ammo \in DOMAIN pools[q] : SplitsWell(q, ammo, who)
    /\ allowWhole \/ \A q \in squads : who # Roster(q)
    /\ Cardinality(MovedTypes(who)) <= MaxTypes

(* transfer_into refuses before it detaches anyone.                         *)
MayJoin(q, who) ==
    /\ q \notin Sources(who)
    /\ Cardinality(Roster(q)) + Cardinality(who) <= MaxTroops
    /\ Cardinality(DOMAIN pools[q] \cup MovedTypes(who)) <= MaxTypes

JoinedPool(q, who) ==
    LET moved == Moved(who)
    IN  [ammo \in DOMAIN pools[q] \cup DOMAIN moved |->
            IF ammo \notin DOMAIN moved THEN pools[q][ammo]
            ELSE IF ammo \notin DOMAIN pools[q] THEN moved[ammo]
            ELSE Combine(pools[q][ammo], moved[ammo])]

(* The pins of those moved and of those already there follow their slots.   *)
JoinedPins(q, who, s) ==
    LET new == Order(DOMAIN JoinedPool(q, who))
    IN  IF s \in who \cup Roster(q)
        THEN RemapPins(Order(DOMAIN pools[squadOf[s]]), new, pins[s]) ELSE pins[s]

(* transfer_into                                                            *)
TransferInto(q, who) ==
    /\ pools' = [r \in 1..MaxSquads |-> IF r = q THEN JoinedPool(q, who)
                                        ELSE IF r \in Sources(who) THEN Left(r, who) ELSE pools[r]]
    /\ pins' = [s \in Troops |-> JoinedPins(q, who, s)]
    /\ squadOf' = [s \in Troops |-> IF s \in who THEN q ELSE squadOf[s]]
    /\ places' = [r \in 1..MaxSquads |->
                    IF r = q THEN (IF Roster(q) = {} /\ spawn.on THEN 0 ELSE places[q]) + Cardinality(who)
                    ELSE places[r] - Cardinality(who \cap Roster(r))]
-----------------------------------------------------------------------------
(* The ledger and parking (history.rs, parking.rs)                          *)

KeyOf(q) == {k \in DOMAIN origins : origins[k].at = q}
IsHome(q) == KeyOf(q) # {}

(* park_if_needed: whether an empty squad is kept, given everyone's squad.  *)
KeepEmpty(q, rosters) ==
    /\ IsHome(q)
    /\ \A s \in living : rosters[s] # q
    /\ \E s \in living : origin[s] \in KeyOf(q)

(* What parking and cleanup leave of a set of squads after a move: an empty *)
(* origin is parked, another empty squad is removed, a populated origin is  *)
(* selectable again.                                                        *)
Parked(Q, rosters) == {q \in Q : KeepEmpty(q, rosters)}
Cleaned(Q, rosters) == {q \in Q \ Parked(Q, rosters) : \A s \in living : rosters[s] # q}

Ledger(parked, woken) ==
    [k \in DOMAIN origins |->
        LET q == origins[k].at
        IN  IF q \in parked /\ origins[k].parked = "no"
            THEN [at |-> q, parked |-> IF q \in selectable THEN "shown" ELSE "hidden"]
            ELSE IF q \in woken /\ q \notin parked THEN [at |-> q, parked |-> "no"] ELSE origins[k]]
Shown(parked, woken) ==
    {q \in squads : IF q \in parked THEN FALSE
                    ELSE IF q \in woken /\ \E k \in KeyOf(q) : origins[k].parked # "no"
                    THEN \A k \in KeyOf(q) : origins[k].parked # "hidden"
                    ELSE q \in selectable}

(* transfer_into ends by waking the squad it filled.                        *)
Woken(q) == {q}

(* CLEANUP on the sources of a transfer into q, and wake(q) before it.      *)
CleanupSources(q, who) ==
    LET parked == Parked(Sources(who), squadOf')
        touched == Woken(q) \cup Sources(who)
    IN  /\ squads' = squads \ Cleaned(Sources(who), squadOf')
        /\ origins' = Ledger(parked, touched)
        /\ selectable' = Shown(parked, touched) \cap squads'

(* reset_if_new_world, with every recorded soldier dead.                    *)
Stale == (\E s \in Troops : origin[s] # 0) /\ \A s \in living : origin[s] = 0

(* remember: a soldier's first origin is never replaced, and a recreated    *)
(* origin is still the same one.                                            *)
OriginOf(q) == IF IsHome(q) THEN Min(KeyOf(q)) ELSE q

Unrecorded(who, known) == {s \in who : known[s] = 0}

KnownOrigin == IF Stale THEN [s \in Troops |-> 0] ELSE origin
KeptOrigins == IF Stale THEN <<>> ELSE origins

Remember(who) ==
    LET known == KnownOrigin
        kept == KeptOrigins
        key(q) == IF Stale THEN q ELSE OriginOf(q)
        fresh == Unrecorded(who, known)
        keys == {key(squadOf[s]) : s \in fresh}
    IN  /\ origin' = [s \in Troops |-> IF s \in fresh THEN key(squadOf[s]) ELSE known[s]]
        /\ origins' = [k \in DOMAIN kept \cup keys |->
                        IF k \in DOMAIN kept THEN kept[k] ELSE [at |-> k, parked |-> "no"]]
-----------------------------------------------------------------------------
(* Key presses (input.rs)                                                   *)

Quiet == ~spawn.on /\ tasks = <<>>

(* The regroup key: the origins are recorded, then the factory is asked.    *)
PressRegroup(who) ==
    /\ Quiet /\ ~blocked
    /\ who # {} /\ who \subseteq living
    /\ IF PlanFor(who, FALSE)
       THEN /\ Remember(who)
            /\ spawn' = [NoSpawn EXCEPT !.on = TRUE, !.who = who, !.from = Sources(who)]
            /\ report' = NoReport
       ELSE /\ report' = NoReport
            /\ UNCHANGED <<origins, origin, spawn>>
    /\ UNCHANGED <<gameVars, blocked, tasks, fired, scripts, events, nextSquad>>

(* The restore key: the selected soldiers by their recorded origins.        *)
PressRestore(who) ==
    /\ Quiet /\ ~blocked
    /\ who # {} /\ who \subseteq living
    /\ IF PlanFor(who, TRUE) THEN origin' = KnownOrigin /\ origins' = KeptOrigins
                              ELSE UNCHANGED <<origin, origins>>
    /\ LET known == {s \in who : origin'[s] # 0}
           keys == {origin'[s] : s \in known}
       IN  IF PlanFor(who, TRUE) /\ known # {}
           THEN /\ tasks' = [i \in 1..Cardinality(keys) |->
                                LET k == Order(keys)[i] IN [key |-> k, who |-> {s \in known : origin'[s] = k}]]
                /\ report' = [kind |-> "restoring", squad |-> 0, who |-> known]
           ELSE UNCHANGED tasks /\ report' = NoReport
    /\ UNCHANGED <<gameVars, spawn, blocked, fired, scripts, events, nextSquad>>

Stops == tasks' = <<>> /\ report' = NoReport
GoesOn ==
    /\ tasks' = Tail(tasks)
    /\ report' = IF Len(tasks) = 1 THEN [report EXCEPT !.kind = "restored"] ELSE report

(* Soldiers already home stay put.                                          *)
Away(task) == IF origins[task.key].at \in squads
              THEN {s \in task.who : squadOf[s] # origins[task.key].at} ELSE task.who

(* One origin of a restore, into the squad that is still there.             *)
RestoreGroup ==
    /\ tasks # <<>> /\ ~spawn.on
    /\ LET task == Head(tasks)
           who == Away(task)
           q == origins[task.key].at
       IN  \/ /\ who = {} /\ GoesOn
              /\ UNCHANGED <<gameVars, origins, spawn>>
           \/ /\ who # {} /\ q \in squads
              /\ IF PlanFor(who, TRUE) /\ Fit(q) /\ MayJoin(q, who)
                 THEN /\ TransferInto(q, who) /\ CleanupSources(q, who) /\ GoesOn
                      /\ UNCHANGED <<living, aboard, inGun, spawn>>
                 ELSE Stops /\ UNCHANGED <<gameVars, origins, spawn>>
           \/ /\ who # {} /\ q \notin squads
              /\ IF PlanFor(who, TRUE) /\ ~blocked
                 THEN /\ spawn' = [NoSpawn EXCEPT !.on = TRUE, !.who = who,
                                              !.from = Sources(who), !.key = task.key]
                      /\ UNCHANGED <<tasks, report>>
                 ELSE Stops /\ UNCHANGED spawn
              /\ UNCHANGED <<gameVars, origins>>
    /\ UNCHANGED <<origin, blocked, fired, scripts, events, nextSquad>>
-----------------------------------------------------------------------------
(* The factory, with the hooks in it (creation.rs)                          *)

(* prepare_templates for a squad the factory constructs: the first one of   *)
(* the requested type is claimed, another gets its default weapons.         *)
PrepareTemplates(requested) ==
    /\ spawn.on /\ nextSquad <= MaxSquads /\ Cardinality(spawn.made) < MaxMade
    /\ nextSquad' = nextSquad + 1
    /\ squads' = squads \cup {nextSquad} /\ selectable' = selectable \cup {nextSquad}
    /\ spawn' = [spawn EXCEPT !.made = @ \cup {nextSquad},
                              !.prepared = IF requested /\ ~spawn.aborted /\ @ = 0 THEN nextSquad ELSE @]
    /\ UNCHANGED <<squadOf, living, aboard, pools, inGun, pins, places,
                   origins, origin, blocked, tasks, report, fired, scripts, events>>

(* create_members: only the claimed squad is filled, and only once; for any *)
(* other the default soldiers are suppressed and the request is given up.   *)
CreateMembers(q) ==
    /\ q \in spawn.made \ spawn.created
    /\ LET claimed == ~spawn.aborted /\ spawn.prepared = q /\ spawn.destination = 0
           filled == claimed /\ MayJoin(q, spawn.who)
       IN  /\ spawn' = [spawn EXCEPT !.created = @ \cup {q},
                                     !.destination = IF claimed THEN q ELSE @,
                                     !.constructed = @ \/ filled,
                                     !.aborted = @ \/ ~filled]
           /\ IF filled THEN TransferInto(q, spawn.who)
                        ELSE UNCHANGED <<pools, pins, squadOf, places>>
    /\ UNCHANGED <<squads, living, aboard, inGun, selectable,
                   origins, origin, blocked, tasks, report, fired, scripts, events, nextSquad>>

(* The request came to what was asked for.                                  *)
Created(q) == q # 0 /\ q = spawn.destination /\ spawn.constructed /\ ~spawn.aborted

Recreated(q, ledger) ==
    IF spawn.key = 0 THEN ledger ELSE [ledger EXCEPT ![spawn.key] = [at |-> q, parked |-> @.parked]]

(* The factory returns; an unverified result blocks every later request.    *)
SpawnReturns(q) ==
    /\ spawn.on /\ q \in spawn.made \cup {0}
    /\ spawn' = NoSpawn
    /\ IF Created(q)
       THEN LET parked == Parked(spawn.from, squadOf)
            IN  /\ squads' = squads \ Cleaned(spawn.from, squadOf)
                /\ origins' = Recreated(q, Ledger(parked, spawn.from))
                /\ selectable' = Shown(parked, spawn.from) \cap squads'
                /\ UNCHANGED blocked
                /\ IF spawn.key = 0
                   THEN report' = [kind |-> "formed", squad |-> q, who |-> spawn.who] /\ UNCHANGED tasks
                   ELSE GoesOn
       ELSE /\ blocked' = TRUE
            /\ squads' = IF q # 0 /\ ~(spawn.constructed /\ ~spawn.aborted) /\ Roster(q) = {}
                         THEN squads \ {q} ELSE squads
            /\ selectable' = selectable \cap squads'
            /\ UNCHANGED origins
            /\ IF spawn.key = 0 THEN report' = NoReport /\ UNCHANGED tasks
               ELSE Stops
    /\ UNCHANGED <<squadOf, living, aboard, pools, inGun, pins, places, origin, fired, scripts, events, nextSquad>>
-----------------------------------------------------------------------------
(* The game between key presses (external)                                  *)

(* A squad's update, and the game's own cleanup of an empty one, both pass  *)
(* through park_if_needed; the stock cleanup removes an empty squad.        *)
UpdateSquad(q) ==
    /\ Quiet /\ q \in squads
    /\ LET parked == Parked({q}, squadOf)
       IN  /\ squads' = squads \ Cleaned({q}, squadOf)
           /\ origins' = Ledger(parked, {q})
           /\ selectable' = Shown(parked, {q}) \cap squads'
    /\ report' = NoReport
    /\ UNCHANGED <<squadOf, living, aboard, pools, inGun, pins, places,
                   origin, spawn, blocked, tasks, fired, scripts, events, nextSquad>>

Event == events < MaxEvents /\ events' = events + 1

Fires(s) ==
    /\ Quiet /\ s \in living /\ inGun[s] > 0
    /\ inGun' = [inGun EXCEPT ![s] = @ - 1]
    /\ pools' = [pools EXCEPT ![squadOf[s]][GunAmmo(s)].rounds = @ - 1,
                              ![squadOf[s]][GunAmmo(s)].reserved = @ - 1]
    /\ fired' = fired + 1 /\ report' = NoReport /\ Event
    /\ UNCHANGED <<squads, squadOf, living, aboard, pins, places, selectable,
                   origins, origin, spawn, blocked, tasks, scripts, nextSquad>>

Reloads(s) ==
    /\ Quiet /\ s \in living /\ inGun[s] = 0
    /\ pools[squadOf[s]][GunAmmo(s)].rounds > pools[squadOf[s]][GunAmmo(s)].reserved
    /\ inGun' = [inGun EXCEPT ![s] = 1]
    /\ pools' = [pools EXCEPT ![squadOf[s]][GunAmmo(s)].reserved = @ + 1]
    /\ report' = NoReport /\ Event
    /\ UNCHANGED <<squads, squadOf, living, aboard, pins, places, selectable,
                   origins, origin, spawn, blocked, tasks, fired, scripts, nextSquad>>

(* What was in his gun is lost with a soldier.                              *)
Dies(s) ==
    /\ Quiet /\ s \in living
    /\ living' = living \ {s} /\ aboard' = aboard \ {s}
    /\ pools' = [pools EXCEPT ![squadOf[s]][GunAmmo(s)].rounds = @ - inGun[s],
                              ![squadOf[s]][GunAmmo(s)].reserved = @ - inGun[s]]
    /\ inGun' = [inGun EXCEPT ![s] = 0]
    /\ report' = NoReport /\ Event
    /\ UNCHANGED <<squads, squadOf, pins, places, selectable,
                   origins, origin, spawn, blocked, tasks, fired, scripts, nextSquad>>

Boards(s) ==
    /\ Quiet /\ s \in living
    /\ aboard' = IF s \in aboard THEN aboard \ {s} ELSE aboard \cup {s}
    /\ report' = NoReport /\ Event
    /\ UNCHANGED <<squads, squadOf, living, pools, inGun, pins, places, selectable,
                   origins, origin, spawn, blocked, tasks, fired, scripts, nextSquad>>

Pins(s) ==
    /\ Quiet /\ s \in living /\ pins[s] = {}
    /\ \E i \in 1..Cardinality(DOMAIN pools[squadOf[s]]) : pins' = [pins EXCEPT ![s] = {i}]
    /\ report' = NoReport /\ Event
    /\ UNCHANGED <<squads, squadOf, living, aboard, pools, inGun, places, selectable,
                   origins, origin, spawn, blocked, tasks, fired, scripts, nextSquad>>

(* A script removes an empty squad, parked or not.                          *)
ScriptRemoves(q) ==
    /\ Quiet /\ scripts < MaxScripts /\ q \in squads /\ Roster(q) = {}
    /\ scripts' = scripts + 1
    /\ squads' = squads \ {q} /\ selectable' = selectable \ {q}
    /\ report' = NoReport
    /\ UNCHANGED <<squadOf, living, aboard, pools, inGun, pins, places,
                   origins, origin, spawn, blocked, tasks, fired, events, nextSquad>>

RegroupNext ==
    \/ \E who \in SUBSET Troops : PressRegroup(who) \/ PressRestore(who)
    \/ RestoreGroup
    \/ \E requested \in BOOLEAN : PrepareTemplates(requested)
    \/ \E q \in 0..MaxSquads : CreateMembers(q) \/ SpawnReturns(q) \/ UpdateSquad(q) \/ ScriptRemoves(q)
    \/ \E s \in Troops : Fires(s) \/ Reloads(s) \/ Dies(s) \/ Boards(s) \/ Pins(s)

RegroupSpec == RegroupInit /\ [][RegroupNext]_regroupVars
-----------------------------------------------------------------------------
RegroupTypeOK ==
    /\ squads \subseteq 1..MaxSquads /\ selectable \subseteq squads
    /\ squadOf \in [Troops -> 1..MaxSquads] /\ living \subseteq Troops /\ aboard \subseteq living
    /\ \A s \in Troops : origin[s] # 0 => origin[s] \in DOMAIN origins
    /\ \A k \in DOMAIN origins : origins[k].parked \in {"no", "shown", "hidden"}
    /\ \A s \in living : squadOf[s] \in squads

Accounted(q) ==
    \A ammo \in DOMAIN pools[q] :
        LET supply == pools[q][ammo]
        IN  /\ supply.reserved = LoadedOf(Roster(q), ammo)
            /\ supply.reserved <= supply.rounds /\ supply.rounds <= supply.capacity

(* model.rs, transfer_into: however often soldiers are regrouped, restored, *)
(* fire and die in between, every squad's pool reserves exactly what its    *)
(* own soldiers have loaded, and holds its rounds within its capacity.      *)
MagazinesAccounted == \A q \in squads : Accounted(q)

Held == MapThenSumSet(LAMBDA q : MapThenSumSet(LAMBDA ammo : pools[q][ammo].rounds, DOMAIN pools[q]), squads)
FirstHeld == MapThenSumSet(LAMBDA q : MapThenSumSet(LAMBDA ammo : FirstPools[q][ammo].rounds,
                                                    DOMAIN FirstPools[q]), {1, 2})

(* No round is made or lost by regrouping: while nobody has died, the       *)
(* squads that exist hold what they began with less what was fired, the     *)
(* ones that were emptied and removed having left nothing behind.           *)
RoundsKept == living = Troops /\ scripts = 0 => Held + fired = FirstHeld

(* history.rs, park_if_needed: the game never removes the squad a living    *)
(* soldier is to be restored to; only a script does.                        *)
HomesAreKept ==
    [][\A s \in living : origin[s] # 0 /\ origin'[s] = origin[s] /\ scripts' = scripts
           /\ origins[origin[s]].at \in squads => origins[origin[s]].at \in squads']_regroupVars

(* remember: a soldier's first origin survives every later regrouping.      *)
FirstOriginStays == [][\A s \in living : origin[s] # 0 => origin'[s] = origin[s]]_regroupVars

(* A restore that reports success has every recorded soldier it was asked   *)
(* for in the squad he came from, or in the one recreated for it.           *)
RestoredAreHome ==
    report.kind = "restored" =>
        \A s \in report.who : squadOf[s] = origins[origin[s]].at /\ squadOf[s] \in squads

(* A squad reported as formed consists of the soldiers it was formed from,  *)
(* whatever else the factory constructed on the way.                        *)
FormedAsAsked == report.kind = "formed" => Roster(report.squad) = report.who

(* A squad with soldiers in it is never left parked out of the player's     *)
(* reach.                                                                   *)
PopulatedIsSelectable == Quiet => \A q \in squads : Roster(q) # {} => q \in selectable

PinnedAmmo(s) == {Order(DOMAIN pools[squadOf[s]])[i] : i \in pins[s]}

(* remap_pins: when a soldier or a pool's slots move, he keeps his pins on  *)
(* the same ammunition or loses them; a pin never passes to another type.   *)
PinsFollowAmmo == [][(squadOf' # squadOf \/ pools' # pools) =>
                        \A s \in living' : PinnedAmmo(s)' \subseteq PinnedAmmo(s)]_regroupVars
=============================================================================
