---------------------------- MODULE MovingGrenades ----------------------------
(***************************************************************************)
(* The moving-grenades plugin (plugins/moving-grenades): a soldier who is  *)
(* interrupted by an attack keeps the route he was on (ROUTES) and, for a  *)
(* positional ability such as smoke, an owned reference to his movement    *)
(* order (FLARE_ORDERS, then FLARE_COMPLETIONS while the closing Stop      *)
(* runs). The throw resumes the route; the end of the ability submits a    *)
(* fresh copy of the movement order.                                       *)
(*                                                                         *)
(* The game's thread runs every hook, and its own code inside a hook calls *)
(* further hooks: frames is that call stack, with the thread-local values  *)
(* each hook puts back when it ends. A soldier stands for his unit, AI and *)
(* chassis. A route and its target are the ID of the movement order that   *)
(* made it. One tick is the second between two sweeps. What the game does  *)
(* between its hooks is external.                                          *)
(***************************************************************************)
EXTENDS Integers, Sequences, FiniteSets, FiniteSetsExt

CONSTANTS
    Throwers,    \* soldiers
    MaxIssued,   \* bound on the orders the game makes
    MaxQueued,   \* bound on the orders a soldier has not begun
    MaxHeld,     \* 128: entries of FLARE_ORDERS and of FLARE_COMPLETIONS
    MaxAge       \* 8000 ms, in ticks

ASSUME GrenadeAssumption ==
    /\ IsFiniteSet(Throwers) /\ MaxIssued \in Nat
    /\ MaxHeld \in Nat \ {0} /\ MaxAge \in Nat \ {0}

VARIABLES
    body,        \* a soldier in the game: [doing, order, route, moving, target, queue]
    issued,      \* the orders made: [s, kind, done]
    routes,      \* ROUTES
    flareOrders,     \* FLARE_ORDERS
    completion,  \* FLARE_COMPLETIONS
    frames, replacing, completing,
    refs,        \* references to an order that the plugin owns
    sweepDue,
    wanted       \* history: the movement order last begun and not stopped, or 0

grenadeVars == <<body, issued, routes, flareOrders, completion, frames, replacing,
                 completing, refs, sweepDue, wanted>>

NoEntry == [order |-> 0]
NoThrower == "nobody"
Idler == [doing |-> "idle", order |-> 0, route |-> 0, moving |-> FALSE, target |-> 0, queue |-> <<>>]

GrenadeInit ==
    /\ body = [s \in Throwers |-> Idler] /\ issued = <<>>
    /\ routes = [s \in Throwers |-> NoEntry] /\ flareOrders = [s \in Throwers |-> NoEntry]
    /\ completion = [s \in Throwers |-> NoEntry]
    /\ frames = <<>> /\ replacing = NoThrower /\ completing = NoThrower
    /\ refs = [o \in 1..MaxIssued |-> 0] /\ sweepDue = FALSE
    /\ wanted = [s \in Throwers |-> 0]

Keeping(map) == {s \in Throwers : map[s] # NoEntry}
Owning(p, c) ==
    [o \in 1..MaxIssued |->
        Cardinality({s \in Throwers : p[s].order = o}) +
        Cardinality({s \in Throwers : c[s].order = o}) +
        Cardinality({s \in Throwers : c[s] # NoEntry /\ c[s].stop = o})]

(* Drop for FlareOrder and FlareCompletion: the references that the entries *)
(* of the soldiers P and C owned.                                           *)
GaveBack(P, C) ==
    [o \in 1..MaxIssued |->
        refs[o] - Cardinality({s \in P : flareOrders[s].order = o})
                - Cardinality({s \in C : completion[s].order = o})
                - Cardinality({s \in C : completion[s] # NoEntry /\ completion[s].stop = o})]

Dropped(map, S) == [s \in Throwers |-> IF s \in S THEN NoEntry ELSE map[s]]

----------------------------------------------------------------------------
(* sweep_flare_orders, at most once a second *)
Sweep(p, c) ==
    [p |-> Dropped(p, {s \in Keeping(p) : p[s].age > MaxAge}),
     c |-> Dropped(c, {s \in Keeping(c) : c[s].age > MaxAge})]

Swept == IF sweepDue THEN Sweep(flareOrders, completion) ELSE [p |-> flareOrders, c |-> completion]

(* The entries that P and C hold no longer give up their references. *)
Keep(p, c) ==
    /\ flareOrders' = p /\ completion' = c
    /\ refs' = GaveBack({s \in Throwers : p[s] = NoEntry}, {s \in Throwers : c[s] = NoEntry})

(* forget, forget_flare_order *)
RouteForgotten(s) ==
    [r |-> Dropped(routes, {s}), p |-> Dropped(flareOrders, {s}),
     c |-> IF completing = s THEN completion ELSE Dropped(completion, {s})]

Evicted(map, s) ==
    IF Cardinality(Keeping(map)) < MaxHeld \/ s \in Keeping(map) THEN {}
    ELSE {CHOOSE t \in Keeping(map) : \A u \in Keeping(map) : map[t].age >= map[u].age}

HookFrame(kind, s, o) == [kind |-> kind, s |-> s, order |-> o, stopped |-> FALSE,
                      replacing |-> replacing, completing |-> completing]

(* What order, order_attack_move, submit and stop_order_init put back. *)
Pop ==
    /\ frames' = SubSeq(frames, 1, Len(frames) - 1)
    /\ replacing' = frames[Len(frames)].replacing
    /\ completing' = frames[Len(frames)].completing

Top == frames[Len(frames)]
AtRest == frames = <<>>

----------------------------------------------------------------------------
NewOrder == Len(issued) + 1
CanMake == Len(issued) < MaxIssued
Made(s, kind) == Append(issued, [s |-> s, kind |-> kind, done |-> FALSE])

(* submit of any order but the gunner's release: what was saved is dropped. *)
Submit(s, kind) ==
    /\ AtRest /\ CanMake /\ Len(body[s].queue) < MaxQueued
    /\ issued' = Made(s, kind)
    /\ body' = [body EXCEPT ![s].queue = Append(@, NewOrder)]
    /\ LET w == Swept IN Keep(Dropped(w.p, {s}), Dropped(w.c, {s}))
    /\ sweepDue' = FALSE
    /\ UNCHANGED <<routes, frames, replacing, completing, wanted>>

(* A movement order begins (external): it makes its own route. A soldier    *)
(* who was moving had his state replaced, which order sees: capture forgets *)
(* him when what comes is no attack.                                        *)
BeginMove(s) ==
    /\ AtRest /\ body[s].queue # <<>>
    /\ LET o == Head(body[s].queue)
           f == IF body[s].doing \in {"move", "attackMove"} THEN RouteForgotten(s)
                ELSE [r |-> routes, p |-> flareOrders, c |-> completion]
       IN /\ issued[o].kind \in {"move", "attackMove"}
          /\ body' = [body EXCEPT ![s] = [doing |-> issued[o].kind, order |-> o, route |-> o,
                                          moving |-> TRUE, target |-> 0, queue |-> Tail(@.queue)]]
          /\ routes' = f.r /\ Keep(f.p, f.c)
          /\ wanted' = [wanted EXCEPT ![s] = o]
    /\ UNCHANGED <<issued, frames, replacing, completing, sweepDue>>

(* Mutant: the entry that makes room, or is replaced, keeps its reference. *)
RetainLeaking(s, o) ==
    LET b == body[s]
    IN /\ flareOrders' = [Dropped(flareOrders, Evicted(flareOrders, s)) EXCEPT
                         ![s] = [order |-> b.order, age |-> 0, route |-> b.route, target |-> o,
                                 resumed |-> FALSE]]
       /\ refs' = [refs EXCEPT ![b.order] = @ + 1]

(* retain_flare_order: the movement order itself, for smoke. *)
RetainFlareOrder(s, o) ==
    LET out == Evicted(flareOrders, s)
        b == body[s]
    IN /\ flareOrders' = [Dropped(flareOrders, out) EXCEPT
                         ![s] = [order |-> b.order, age |-> 0, route |-> b.route, target |-> o,
                                 resumed |-> FALSE]]
       /\ refs' = [GaveBack(out \cup {s}, {}) EXCEPT ![b.order] = @ + 1]

(* order, order_attack_move, capture: an attack (submitted, or the AI's own *)
(* on an attack-move) replaces the movement. A soldier whose route is       *)
(* active has it saved; the mark of an outer replacement is inherited.      *)
OrderBegins(s, o, kind) ==
    /\ body[s].doing \in {"move", "attackMove"}
    /\ IF body[s].moving
       THEN /\ routes' = [routes EXCEPT ![s] = [order |-> body[s].order, age |-> 0,
                                                route |-> body[s].route, target |-> o]]
            /\ replacing' = s
            /\ IF kind = "smoke" THEN RetainFlareOrder(s, o) ELSE UNCHANGED <<flareOrders, refs>>
       ELSE UNCHANGED <<routes, replacing, flareOrders, refs>>
    /\ frames' = Append(frames, HookFrame("order", s, o))
    /\ UNCHANGED <<completion, completing, sweepDue, wanted>>

AttackSubmitted(s) ==
    /\ AtRest /\ body[s].queue # <<>> /\ issued[Head(body[s].queue)].kind = "smoke"
    /\ OrderBegins(s, Head(body[s].queue), "smoke")
    /\ body' = [body EXCEPT ![s].queue = Tail(@)]
    /\ UNCHANGED issued

(* Also the nested move state of an attack-move, inside the outer call. *)
AttackOnTheWay(s, kind) ==
    /\ body[s].doing = "attackMove" /\ CanMake
    /\ AtRest \/ (Len(frames) = 1 /\ Top.kind = "order" /\ Top.s = s)
    /\ issued' = Made(s, kind)
    /\ OrderBegins(s, NewOrder, kind)
    /\ UNCHANGED body

(* stop: the chassis halts. Inside the replacement that captured its route, *)
(* the route stays.                                                         *)
ChassisStop(s) ==
    /\ frames # <<>> /\ Top.s = s /\ ~Top.stopped
    /\ LET f == IF replacing = s THEN [r |-> routes, p |-> flareOrders, c |-> completion] ELSE RouteForgotten(s)
       IN routes' = f.r /\ Keep(f.p, f.c)
    /\ body' = [body EXCEPT ![s].moving = FALSE]
    /\ frames' = [frames EXCEPT ![Len(frames)].stopped = TRUE]
    /\ UNCHANGED <<issued, replacing, completing, sweepDue, wanted>>

(* The attack's state is in place. An interrupted move is over; an          *)
(* attack-move's order lives on.                                            *)
OrderEnds ==
    /\ frames # <<>> /\ Top.kind = "order" /\ Top.stopped
    /\ \E done \in BOOLEAN :
          /\ issued[body[Top.s].order].kind = "move" => done
          /\ issued' = [issued EXCEPT ![body[Top.s].order].done = @ \/ done]
    /\ body' = [body EXCEPT ![Top.s].doing = IF Len(frames) = 1 THEN "attack" ELSE @,
                            ![Top.s].target = Top.order]
    /\ Pop
    /\ UNCHANGED <<routes, flareOrders, completion, refs, sweepDue, wanted>>

(* The soldier gets where he was going (external); no hook sees it. *)
Arrive(s) ==
    /\ AtRest /\ body[s].moving
    /\ body' = [body EXCEPT ![s].moving = FALSE]
    /\ UNCHANGED <<issued, routes, flareOrders, completion, refs, frames, replacing, completing,
                   sweepDue, wanted>>

(* turn_point, and turn_direction from anywhere but the aim helper. *)
TurnAway(s) ==
    /\ AtRest
    /\ LET f == RouteForgotten(s) IN routes' = f.r /\ Keep(f.p, f.c)
    /\ UNCHANGED <<body, issued, frames, replacing, completing, sweepDue, wanted>>

----------------------------------------------------------------------------
(* The identity and age checks resume, submit and ai_update make. *)
StillTheRoute(s, e) == e.age <= MaxAge /\ e.route = body[s].route /\ body[s].route # 0

(* queue with a throw, resume: the route starts again once, if the game     *)
(* agrees.                                                                  *)
ThrowQueued(s) ==
    /\ AtRest /\ body[s].doing = "attack" /\ body[s].target # 0
    /\ routes' = Dropped(routes, {s})
    /\ LET r == routes[s]
           goes == /\ r # NoEntry /\ StillTheRoute(s, r)
                   /\ r.target = body[s].target /\ ~body[s].moving
           mine == goes /\ flareOrders[s] # NoEntry /\ flareOrders[s].target = r.target
       IN \E success \in BOOLEAN :
             /\ body' = IF goes /\ success THEN [body EXCEPT ![s].moving = TRUE] ELSE body
             /\ flareOrders' = IF mine THEN [flareOrders EXCEPT ![s].resumed = success, ![s].age = 0]
                           ELSE flareOrders
    /\ UNCHANGED <<issued, completion, refs, frames, replacing, completing, sweepDue, wanted>>

(* submit of the Stop with which the gunner lets the ability go: the saved  *)
(* order waits, as a completion, for that Stop to be over.                  *)
ReleaseSubmitted(s) ==
    /\ AtRest /\ CanMake /\ Len(body[s].queue) < MaxQueued
    /\ body[s].doing = "attack" /\ body[s].target # 0
    /\ issued' = Made(s, "stop")
    /\ body' = [body EXCEPT ![s].queue = Append(@, NewOrder)]
    /\ LET w == Swept
           e == w.p[s]
           transfers == /\ e # NoEntry /\ e.resumed /\ body[s].moving
                        /\ StillTheRoute(s, e) /\ e.target = body[s].target
           out == Evicted(Dropped(w.c, {s}), s)
       IN IF transfers
          THEN /\ flareOrders' = Dropped(w.p, {s})
               /\ completion' = [Dropped(w.c, out) EXCEPT
                                    ![s] = [order |-> e.order, age |-> e.age, route |-> e.route,
                                            stop |-> NewOrder, finished |-> FALSE]]
               /\ refs' = [GaveBack({t \in Throwers : w.p[t] = NoEntry},
                                    {t \in Throwers : w.c[t] = NoEntry} \cup out \cup {s})
                             EXCEPT ![NewOrder] = @ + 1]
               /\ frames' = Append(frames, HookFrame("submit", s, NewOrder))
               /\ completing' = s
          ELSE /\ Keep(Dropped(w.p, {s}), Dropped(w.c, {s}))
               /\ UNCHANGED <<frames, completing>>
    /\ sweepDue' = FALSE
    /\ UNCHANGED <<routes, replacing, wanted>>

SubmitEnds ==
    /\ frames # <<>> /\ Top.kind = "submit"
    /\ Pop
    /\ UNCHANGED <<body, issued, routes, flareOrders, completion, refs, sweepDue, wanted>>

(* stop_order_init of any Stop: only the one that was saved is marked. *)
StopInit(s) ==
    /\ AtRest /\ body[s].queue # <<>>
    /\ LET o == Head(body[s].queue)
       IN /\ issued[o].kind = "stop"
          /\ frames' = Append(frames, HookFrame("stop", s, o))
          /\ completing' = IF completion[s] # NoEntry /\ completion[s].stop = o THEN s ELSE NoThrower
    /\ body' = [body EXCEPT ![s].queue = Tail(@)]
    /\ UNCHANGED <<issued, routes, flareOrders, completion, refs, replacing, sweepDue, wanted>>

(* The Stop has halted the soldier; the game may have cleared his target    *)
(* and may have marked the Stop finished. A Stop of the player's ends what  *)
(* he wanted.                                                               *)
StopInitEnds ==
    /\ frames # <<>> /\ Top.kind = "stop" /\ Top.stopped
    /\ \E done, cleared \in BOOLEAN :
          LET s == Top.s
              mine == completion[s] # NoEntry /\ completion[s].stop = Top.order
          IN /\ issued' = [issued EXCEPT ![Top.order].done = done]
             /\ body' = [body EXCEPT ![s].doing = "idle", ![s].target = IF cleared THEN 0 ELSE @]
             /\ completion' = IF mine THEN [completion EXCEPT ![s].finished = done] ELSE completion
             /\ wanted' = IF completing = s THEN wanted ELSE [wanted EXCEPT ![s] = 0]
    /\ Pop
    /\ UNCHANGED <<routes, flareOrders, refs, sweepDue>>

(* ai_update, fresh_movement_order: after the game's own update, a finished *)
(* completion becomes a fresh order, straight to the original submit; the   *)
(* factories may fail. Its references go either way.                        *)
AiUpdate(s) ==
    /\ AtRest
    /\ LET w == Swept
           e == w.c[s]
           due == e # NoEntry /\ e.finished
           wants == /\ due /\ StillTheRoute(s, e) /\ ~body[s].moving /\ body[s].target = 0
                    /\ issued[e.order].done
       IN /\ Keep(w.p, IF due THEN Dropped(w.c, {s}) ELSE w.c)
          /\ \/ /\ wants /\ CanMake
                /\ issued' = Made(s, issued[e.order].kind)
                /\ body' = [body EXCEPT ![s].doing = issued[e.order].kind, ![s].order = NewOrder,
                                        ![s].moving = TRUE]
             \/ UNCHANGED <<issued, body>>
    /\ sweepDue' = FALSE
    /\ UNCHANGED <<routes, frames, replacing, completing, wanted>>

AgedEntries(map) == [s \in Throwers |->
                  IF map[s] = NoEntry \/ map[s].age > MaxAge THEN map[s] ELSE [map[s] EXCEPT !.age = @ + 1]]

Second ==
    /\ AtRest
    /\ sweepDue' = TRUE
    /\ routes' = AgedEntries(routes) /\ flareOrders' = AgedEntries(flareOrders) /\ completion' = AgedEntries(completion)
    /\ UNCHANGED <<body, issued, refs, frames, replacing, completing, wanted>>

GrenadeNext ==
    \/ \E s \in Throwers :
          \/ \E kind \in {"move", "attackMove", "stop", "smoke"} : Submit(s, kind)
          \/ BeginMove(s) \/ AttackSubmitted(s) \/ ChassisStop(s) \/ Arrive(s) \/ TurnAway(s)
          \/ \E kind \in {"smoke", "throw"} : AttackOnTheWay(s, kind)
          \/ ThrowQueued(s) \/ ReleaseSubmitted(s) \/ StopInit(s) \/ AiUpdate(s)
    \/ OrderEnds \/ SubmitEnds \/ StopInitEnds \/ Second

(* The game runs every soldier's AI again and again, and time passes; a     *)
(* call it has begun ends.                                                  *)
GrenadeFairness ==
    /\ WF_grenadeVars(Second)
    /\ WF_grenadeVars(OrderEnds \/ SubmitEnds \/ StopInitEnds \/ \E s \in Throwers : ChassisStop(s))
    /\ \A s \in Throwers : WF_grenadeVars(AiUpdate(s))

GrenadeSpec == GrenadeInit /\ [][GrenadeNext]_grenadeVars /\ GrenadeFairness

----------------------------------------------------------------------------
(* A soldier only ever moves where the last movement command he began sends *)
(* him, and not at all after the player's Stop: no resumed route and no     *)
(* fresh order outlives the command it continues.                           *)
MovesWhereSent == \A s \in Throwers : body[s].moving => body[s].route = wanted[s]

(* The plugin owns exactly the references its two maps hold, through        *)
(* evictions, transfers, replaced entries and expiry.                       *)
ReferencesOwned == refs = Owning(flareOrders, completion)

(* The maps stay within their limits, and outside every call the thread's   *)
(* marks are clear, so a later Stop of the same soldier is not mistaken for *)
(* a replacement.                                                           *)
ScopesClosed ==
    /\ Cardinality(Keeping(flareOrders)) <= MaxHeld /\ Cardinality(Keeping(completion)) <= MaxHeld
    /\ AtRest => replacing = NoThrower /\ completing = NoThrower

(* What the plugin owns of the game's it gives back in the end, whatever    *)
(* becomes of the soldier.                                                  *)
GivesBack == \A o \in 1..MaxIssued : refs[o] > 0 ~> refs[o] = 0
=============================================================================
