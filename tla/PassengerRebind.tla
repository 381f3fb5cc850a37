---------------------------- MODULE PassengerRebind ----------------------------
(***************************************************************************)
(* Which of a passenger's guns a vehicle's mounts carry                    *)
(* (vehicle-special-fire targeting/rebind.rs): a mount changes to a gun    *)
(* that can fire when the vehicle starts or stops moving, when an explicit *)
(* order needs another range, and when its gun gives it no weapon record.  *)
(*                                                                         *)
(* Instants are ages that count up to Oldest, the longest interval asked   *)
(* about, or Never. One gunner, one passenger; the game's bind may choose  *)
(* any empty mount, and may refuse (external).                             *)
(***************************************************************************)
EXTENDS Integers, Sequences, FiniteSets, FiniteSetsExt

CONSTANTS
    MountOrder,        \* the gunner's mounts
    GunRoster,            \* the passenger's guns, in order
    GunTable,              \* gun -> [special, still, ranges]
    Recordless,        \* guns that leave their mount without a record
    RecordlessLimit,   \* RECORDLESS_LIMIT
    StartDwell, StopDwell, MotionHold, RebindDwell,
    BindsRefused       \* whether the game may refuse to bind or unbind

Gun == {GunRoster[k] : k \in DOMAIN GunRoster}
Ranges == {"near", "far"}
NoGun == "none"
Mount == {MountOrder[k] : k \in DOMAIN MountOrder}
Intervals == {StartDwell, StopDwell, MotionHold, RebindDwell}
Oldest == Max(Intervals)
Never == Oldest + 1
Generations == 4       \* generation is a u32 compared for equality only

ASSUME RebindAssumption ==
    /\ IsFiniteSet(Recordless) /\ Cardinality(Recordless) <= RecordlessLimit
    /\ RecordlessLimit \in Nat /\ Intervals \subseteq Nat
    /\ MountOrder \in Seq(Mount) /\ GunRoster \in Seq(Gun) /\ NoGun \notin Gun

VARIABLES
    bound,       \* Mount -> the gun bound to it
    driving,     \* the owner's speed is above zero
    ordered,     \* an explicit order's distance, or NoGun
    motion,      \* MOTION: [since, last, changed, moving, generation]
    states,      \* MOUNTS: Mount -> [checked, rebound, seen]
    forced,      \* FORCED has the gunner
    recordlessSeen,       \* RECORDLESS, oldest first
    update,      \* update: the mounts left, and whether it was forced
    swaps        \* history: the ages of each mount's recent rebinds

rebindVars == <<bound, driving, ordered, motion, states, forced, recordlessSeen, update, swaps>>

NoUpdate == [left |-> <<>>, forced |-> FALSE]

RebindInit ==
    /\ \E f \in [Mount -> Gun] : (\A m, n \in Mount : m # n => f[m] # f[n]) /\ bound = f
    /\ driving = FALSE /\ ordered = NoGun /\ forced = FALSE /\ recordlessSeen = <<>>
    /\ motion = [since |-> Never, last |-> Never, changed |-> Never,
                 moving |-> FALSE, generation |-> 0]
    /\ states = [m \in Mount |-> [checked |-> Never, rebound |-> Never, seen |-> 0]]
    /\ update = NoUpdate /\ swaps = [m \in Mount |-> <<>>]

RebindTypeOK ==
    /\ bound \in [Mount -> Gun \cup {NoGun}] /\ ordered \in Ranges \cup {NoGun}
    /\ motion \in [since : 0..Oldest \cup {Never}, last : 0..Oldest \cup {Never},
                   changed : 0..Oldest \cup {Never}, moving : BOOLEAN,
                   generation : 0..(Generations - 1)]
    /\ states \in [Mount -> [checked : 0..Oldest \cup {Never}, rebound : 0..Oldest \cup {Never}, seen : 0..(Generations - 1)]]
    /\ Len(recordlessSeen) <= RecordlessLimit

Bound(g) == \E m \in Mount : bound[m] = g
Free == {m \in Mount : bound[m] = NoGun}
Older(age) == IF age >= Oldest THEN age ELSE age + 1

----------------------------------------------------------------------------
Change(mo) == [mo EXCEPT !.moving = ~@, !.changed = 0, !.generation = (@ + 1) % Generations]

(* Motion::sample *)
Sample(mo, movingNow) ==
    LET held == mo.changed < MotionHold
    IN IF movingNow THEN
           LET run == [mo EXCEPT !.since = IF @ = Never THEN 0 ELSE @, !.last = 0]
           IN IF ~mo.moving /\ ~held /\ run.since >= StartDwell THEN Change(run) ELSE run
       ELSE IF ~mo.moving THEN [mo EXCEPT !.since = Never]
       ELSE IF ~held /\ mo.last >= StopDwell THEN [Change(mo) EXCEPT !.since = Never]
       ELSE mo

(* remember_recordless *)
RememberRecordless(g) ==
    IF g \in {recordlessSeen[k] : k \in DOMAIN recordlessSeen} THEN recordlessSeen
    ELSE Append(IF Len(recordlessSeen) = RecordlessLimit THEN Tail(recordlessSeen) ELSE recordlessSeen, g)

Known(g) == \E k \in DOMAIN recordlessSeen' : recordlessSeen'[k] = g

(* candidates *)
Candidates(source) == {g \in Gun : (g = source \/ ~Bound(g)) /\ ~Known(g)}

Usable(g, moving) ==
    ~(moving /\ GunTable[g].still) /\ (ordered # NoGun => ordered \in GunTable[g].ranges)

(* choose: special guns before the current one before the rest. *)
Better(g, h, current) ==
    \/ GunTable[g].special /\ ~GunTable[h].special
    \/ GunTable[g].special = GunTable[h].special /\ g = current /\ h # current

Best(source, moving) ==
    LET usable == {k \in DOMAIN GunRoster : /\ GunRoster[k] \in Candidates(source)
                                            /\ Usable(GunRoster[k], moving)}
        best == {k \in usable : \A j \in usable : ~Better(GunRoster[j], GunRoster[k], source)}
    IN IF best = {} THEN source ELSE GunRoster[Min(best)]

(* exchange: unbind, bind the new gun, else the old one again. *)
Exchanged(m, gun) == {[x \in Mount |-> IF x = n THEN gun ELSE IF x = m THEN NoGun ELSE bound[x]] :
                         n \in Free \cup {m}}
Exchange(m, old, new) ==
    Exchanged(m, new) \cup
    (IF BindsRefused THEN Exchanged(m, old) \cup {[bound EXCEPT ![m] = NoGun]} ELSE {})

(* due and may_rebind *)
Evaluates(m, changed, stuck) ==
    /\ update.forced \/ changed \/ states[m].checked >= 1
    /\ changed \/ stuck \/ states[m].rebound >= RebindDwell

(* update, for one mount. *)
UpdateMount ==
    /\ update.left # <<>>
    /\ LET m == Head(update.left) source == bound[m]
       IN IF source = NoGun THEN UNCHANGED <<bound, motion, states, recordlessSeen, swaps>>
          ELSE LET stuck == source \in Recordless
                   sampled == Sample(motion, driving)
                   changed == sampled.generation # states[m].seen
                   due == update.forced \/ changed \/ states[m].checked >= 1
                   state(age) == [checked |-> IF due THEN 0 ELSE states[m].checked,
                                  rebound |-> age, seen |-> sampled.generation]
               IN /\ motion' = sampled
                  /\ recordlessSeen' = IF stuck THEN RememberRecordless(source) ELSE recordlessSeen
                  /\ LET best == Best(source, sampled.moving)
                     IN \/ /\ ~Evaluates(m, changed, stuck) \/ best = source \/ BindsRefused
                           /\ states' = [states EXCEPT ![m] = state(states[m].rebound)]
                           /\ UNCHANGED <<bound, swaps>>
                        \/ /\ Evaluates(m, changed, stuck) /\ best # source
                           /\ bound' \in Exchange(m, source, best)
                           /\ states' = [states EXCEPT ![m] = state(0)]
                           /\ swaps' = [swaps EXCEPT ![m] = IF stuck THEN @ ELSE Append(@, 0)]
    /\ update' = [update EXCEPT !.left = Tail(@)]
    /\ UNCHANGED <<driving, ordered, forced>>

Update ==
    /\ update.left = <<>>
    /\ update' = [left |-> MountOrder, forced |-> forced] /\ forced' = FALSE
    /\ UNCHANGED <<bound, driving, ordered, motion, states, recordlessSeen, swaps>>

(* A new explicit order calls force; an order ends. *)
OrderRange(d) ==
    /\ update.left = <<>> /\ ordered # d
    /\ ordered' = d /\ forced' = (forced \/ d # NoGun)
    /\ UNCHANGED <<bound, driving, motion, states, recordlessSeen, update, swaps>>

Drive ==
    /\ update.left = <<>> /\ driving' = ~driving
    /\ UNCHANGED <<bound, ordered, motion, states, forced, recordlessSeen, update, swaps>>

(* The game's own rebalance binds a gun to an empty mount (external). *)
Rebalance ==
    /\ update.left = <<>>
    /\ \E m \in Free, g \in Gun : ~Bound(g) /\ bound' = [bound EXCEPT ![m] = g]
    /\ UNCHANGED <<driving, ordered, motion, states, forced, recordlessSeen, update, swaps>>

Time ==
    /\ update.left = <<>>
    /\ motion' = [motion EXCEPT !.since = Older(@), !.last = Older(@), !.changed = Older(@)]
    /\ states' = [m \in Mount |-> [states[m] EXCEPT !.checked = Older(@), !.rebound = Older(@)]]
    /\ swaps' = [m \in Mount |->
                    SelectSeq([k \in DOMAIN swaps[m] |-> swaps[m][k] + 1],
                              LAMBDA age : age < RebindDwell)]
    /\ UNCHANGED <<bound, driving, ordered, forced, recordlessSeen, update>>

RebindNext == UpdateMount \/ Update \/ (\E d \in Ranges \cup {NoGun} : OrderRange(d)) \/ Drive
              \/ Rebalance \/ Time

(* The game ticks its gunners and time goes on. *)
RebindSpec ==
    RebindInit /\ [][RebindNext]_rebindVars /\ WF_rebindVars(Update) /\ WF_rebindVars(UpdateMount)
    /\ SF_rebindVars(Time)

----------------------------------------------------------------------------
(* No gun is on two mounts, whichever empty mount the game binds and        *)
(* whatever it refuses.                                                     *)
OneMountPerGun ==
    \A m, n \in Mount : m # n /\ bound[m] # NoGun => bound[m] # bound[n]

(* A mount with a working gun changes it at most twice in any REBIND_DWELL, *)
(* however the vehicle hops and however orders come and go.                 *)
RebindsAreCalm == \A m \in Mount : Len(swaps[m]) <= 2

(* A vehicle that drives on, or stands, with no order, ends up with its     *)
(* mounts at rest: none keeps changing guns, not even among guns that give  *)
(* it no record, ...                                                        *)
BindingsSettle ==
    (<>[]driving \/ <>[]~driving) /\ <>[](ordered = NoGun) => <>[][bound' = bound]_bound

(* ... and none keeps a gun that cannot fire while another could. *)
MovingVehiclesFire ==
    <>[]driving /\ <>[](ordered = NoGun) =>
        <>[](\A m \in Mount : bound[m] # NoGun /\ (GunTable[bound[m]].still \/ bound[m] \in Recordless)
                => ~\E g \in Gun \ Recordless : ~Bound(g) /\ ~GunTable[g].still)
=============================================================================
