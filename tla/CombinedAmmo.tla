--------------------------- MODULE CombinedAmmo ---------------------------
(***************************************************************************)
(* Which weapons may be used, and the ammunition menu that switches them:  *)
(* a squad shares one disabled flag per slot, a pin of a soldier overrides *)
(* it for the first slots (ammunition plugin), and the expanded menu shows *)
(* one card per ammunition for all the selected units together, ordered by *)
(* type, and applies a click or a step of a card to each unit's own slot   *)
(* (combined.rs).                                                          *)
(*                                                                         *)
(* All of it runs on the game's thread, one input or redraw at a time; the *)
(* selection, the marks and the squads change between them.                *)
(***************************************************************************)
EXTENDS Naturals, FiniteSets, FiniteSetsExt, Sequences, SequencesExt, NoValue

CONSTANTS
    Roster,         \* the squads' soldiers in roster order, <<>> for a vehicle
    Slots,          \* each unit's ammunition by slot; a type is a number, its address
    CanUse,         \* the types a soldier's or a vehicle's guns take
    PinSlots,       \* slots a pin can cover (8)
    MaxCards,       \* cards of the menu
    Selections,     \* the selections made: [units, marked]
    MaxDeaths      \* bound: soldiers that die

Units == DOMAIN Roster
Soldiers == UNION {ToSet(Roster[u]) : u \in Units}
Vehicles == {u \in Units : Roster[u] = <<>>}
AmmoPlaces == {p \in Units \X (1..Max({Len(Slots[u]) : u \in Units})) : p[2] <= Len(Slots[p[1]])}
Types == {Slots[p[1]][p[2]] : p \in AmmoPlaces}

ASSUME PinsAreFewer == PinSlots \in Nat /\ DOMAIN CanUse = Soldiers \cup Vehicles

VARIABLES
    flags,      \* the places a unit's shared flag disables
    pinned,     \* the slots a soldier's pins cover
    off,        \* those of them his pins disable
    loaded,     \* the type each gun has loaded, or None
    live,       \* the soldiers alive
    selection,  \* [units: in selection order, marked: soldiers picked individually]
    ammoView,       \* VIEW: what the combined menu shows, [units, types], or None
    did         \* the last input: [kind, card, dir], or None

settings == <<flags, pinned, off, loaded>>
ammoVars == <<flags, pinned, off, loaded, live, selection, ammoView, did>>

-----------------------------------------------------------------------------
(* members: the living soldiers of a squad, only the marked ones when some *)
(* but not all are marked; a vehicle is one user.                          *)
Alive(u) == SelectSeq(Roster[u], LAMBDA s : s \in live)

Crew(u) == IF u \in Vehicles THEN {u} ELSE ToSet(Alive(u))

Partial(u) ==
    LET marked == ToSet(Alive(u)) \cap selection.marked
    IN  marked # {} /\ marked # ToSet(Alive(u))

Members(u) ==
    IF u \in Vehicles THEN <<u>>
    ELSE SelectSeq(Alive(u), LAMBDA s : Partial(u) => s \in selection.marked)

HasPin(m, k) == m \in Soldiers /\ k <= PinSlots /\ k \in pinned[m]

IsOff(u, k, m) == IF HasPin(m, k) THEN k \in off[m] ELSE <<u, k>> \in flags

(* state: the users of a slot, and those of them it is enabled for.        *)
Takers(u, k) == {m \in ToSet(Members(u)) : Slots[u][k] \in CanUse[m]}
Enabled(u, k) == {m \in Takers(u, k) : ~IsOff(u, k, m)}

(* sources: the selected units with guns of their own.                     *)
Sources == SelectSeq(selection.units, LAMBDA u : \E m \in ToSet(Members(u)) : CanUse[m] # {})

PlacesOf(t) == {p \in AmmoPlaces : p[1] \in ToSet(Sources) /\ Slots[p[1]][p[2]] = t /\ Takers(p[1], p[2]) # {}}

(* cards: one per type that a selected user takes, ordered by type.        *)
Cards == SetToSortSeq({t \in Types : PlacesOf(t) # {}}, <)

Count(t) == FoldSet(LAMBDA p, n : n + Cardinality(Takers(p[1], p[2])), 0, PlacesOf(t))
EnabledCount(t) == FoldSet(LAMBDA p, n : n + Cardinality(Enabled(p[1], p[2])), 0, PlacesOf(t))

-----------------------------------------------------------------------------
(* ammo_set (ammo-mode.asm), for a set of places with one value: pins for  *)
(* the marked soldiers of a partial selection, else the squad's flag, with *)
(* the slot's pins cleared; a disabled weapon is unloaded.                 *)
PinsAt(places, m) ==
    {p[2] : p \in {p \in places : /\ m \in ToSet(Members(p[1])) /\ m \in Soldiers
                                  /\ Partial(p[1]) /\ p[2] <= PinSlots}}
WholeAt(places) == {p \in places : ~Partial(p[1])}
ClearedAt(places, m) == {p[2] : p \in {p \in WholeAt(places) : m \in ToSet(Alive(p[1]))}}
SlotsLost(places, m) ==
    {Slots[p[1]][p[2]] : p \in {p \in places : /\ m \in ToSet(Members(p[1]))
                                               /\ Partial(p[1]) => p[2] <= PinSlots}}

AmmoSet(places, disable) ==
    /\ flags' = IF disable THEN flags \cup WholeAt(places) ELSE flags \ WholeAt(places)
    /\ pinned' = [m \in Soldiers |-> (pinned[m] \cup PinsAt(places, m)) \ ClearedAt(places, m)]
    /\ off' = [m \in Soldiers |-> (IF disable THEN off[m] \cup PinsAt(places, m)
                                   ELSE off[m] \ PinsAt(places, m)) \cap pinned'[m]]
    /\ loaded' = [m \in DOMAIN loaded |-> IF disable /\ loaded[m] \in SlotsLost(places, m)
                                          THEN None ELSE loaded[m]]

-----------------------------------------------------------------------------
(* render, which follows the game's own redraw: the combined view only for *)
(* two sources or more.                                                    *)
Rendered ==
    IF Len(Sources) < 2 THEN None
    ELSE [units |-> Sources, types |-> SubSeq(Cards, 1, Min({MaxCards, Len(Cards)}))]

Render ==
    /\ ammoView' = Rendered
    /\ did' = None
    /\ UNCHANGED <<settings, live, selection>>

Refreshed == ammoView' = Rendered

(* Never apply a stale displayed type to a newly selected set of squads.   *)
SameUnits == Sources = ammoView.units

CardShown(i) == ammoView # None /\ i \in 1..Len(ammoView.types)

(* A click disables only when every user has the type enabled.             *)
Disables(t) == EnabledCount(t) = Count(t)

(* click: every selected place of the card's type.                         *)
Click(i) ==
    /\ CardShown(i)
    /\ did' = [kind |-> "click", card |-> i, dir |-> 0]
    /\ LET t == ammoView.types[i]
       IN  IF SameUnits /\ PlacesOf(t) # {}
           THEN AmmoSet(PlacesOf(t), Disables(t)) /\ Refreshed
           ELSE UNCHANGED <<settings, ammoView>>
    /\ UNCHANGED <<live, selection>>

(* The flag of a source's copy of the record: no user has it enabled.      *)
CopiedFlag(u, k) == Enabled(u, k) = {}

SeenOff(u, k, m, flag) == IF HasPin(m, k) THEN k \in off[m] ELSE flag

(* Mutant: the card's index is taken for the slot. *)
LocalSlotIsCard(u, t, i) == IF i <= Len(Slots[u]) THEN {i} ELSE {}

(* A source's own slot of the card's type: its first with a user.          *)
LocalSlot(u, t, i) ==
    LET own == {k \in 1..Len(Slots[u]) : Slots[u][k] = t /\ Takers(u, k) # {}}
    IN  IF own = {} THEN {} ELSE {k \in {Min(own)} : k <= PinSlots}

(* The users a step goes through, in selection and then roster order.      *)
Candidates(t, i) ==
    FlattenSeq([n \in 1..Len(Sources) |->
        LET u == Sources[n]
        IN  IF u \in Vehicles \/ LocalSlot(u, t, i) = {} THEN <<>>
            ELSE LET k == CHOOSE k \in LocalSlot(u, t, i) : TRUE
                     takers == SelectSeq(Members(u), LAMBDA m : t \in CanUse[m])
                 IN  [j \in 1..Len(takers) |-> <<u, k, takers[j]>>]])

Unloaded(m, t) == [loaded EXCEPT ![m] = IF @ = t THEN None ELSE @]

(* Pin the first disabled user on, or the last enabled one off.            *)
Pin(list, disabled, t, dir) ==
    LET able == IF dir > 0 THEN disabled ELSE DOMAIN list \ disabled
    IN  IF able = {}
        THEN UNCHANGED settings
        ELSE LET c == list[IF dir > 0 THEN Min(able) ELSE Max(able)]
                 k == c[2]
                 m == c[3]
             IN  /\ pinned' = [pinned EXCEPT ![m] = @ \cup {k}]
                 /\ off' = [off EXCEPT ![m] = IF dir > 0 THEN @ \ {k} ELSE @ \cup {k}]
                 /\ loaded' = IF dir > 0 THEN loaded ELSE Unloaded(m, t)
                 /\ UNCHANGED flags

(* step: the combined menu's callback.  dir 2 is up, 0 is down.            *)
Step(i, dir) ==
    /\ CardShown(i) /\ Len(Sources) # 1
    /\ did' = [kind |-> "step", card |-> i, dir |-> dir]
    /\ LET t == ammoView.types[i]
       IN  IF SameUnits /\ i <= Len(Cards) /\ Cards[i] = t
           THEN LET users == Candidates(t, i)
                IN  Pin(users, {j \in DOMAIN users :
                                    LET c == users[j]
                                    IN  SeenOff(c[1], c[2], c[3], CopiedFlag(c[1], c[2]))}, t, dir)
           ELSE UNCHANGED settings
    /\ Refreshed
    /\ UNCHANGED <<live, selection>>

(* The shared flag ammo_step reads. *)
SquadFlag(u, k) == <<u, k>> \in flags

(* ammo_step (ammo-panel.asm): one squad selected, a card is its slot and  *)
(* the flag is the squad's own.                                            *)
SingleStep(k, dir) ==
    /\ Len(Sources) = 1 /\ Sources[1] \notin Vehicles
    /\ k <= Len(Slots[Sources[1]]) /\ k <= PinSlots
    /\ LET u == Sources[1]
           t == Slots[u][k]
           takers == SelectSeq(Members(u), LAMBDA m : t \in CanUse[m])
       IN  Pin([j \in 1..Len(takers) |-> <<u, k, takers[j]>>],
               {j \in DOMAIN takers : SeenOff(u, k, takers[j], SquadFlag(u, k))}, t, dir)
    /\ did' = [kind |-> "single", card |-> k, dir |-> dir]
    /\ Refreshed
    /\ UNCHANGED <<live, selection>>

(* The game's click with one unit selected: mixed settings are enabled.    *)
SingleClick(k) ==
    /\ ammoView = None /\ Len(Sources) = 1
    /\ LET u == Sources[1]
       IN  /\ k <= Len(Slots[u]) /\ Takers(u, k) # {}
           /\ AmmoSet({<<u, k>>}, Enabled(u, k) = Takers(u, k))
    /\ did' = [kind |-> "singleclick", card |-> k, dir |-> 0]
    /\ Refreshed
    /\ UNCHANGED <<live, selection>>

-----------------------------------------------------------------------------
(* External: the game between two inputs. *)

Select ==
    /\ selection' \in Selections \ {selection}
    /\ did' = None
    /\ UNCHANGED <<settings, live, ammoView>>

Die(s) ==
    /\ s \in live /\ Cardinality(Soldiers \ live) < MaxDeaths
    /\ live' = live \ {s}
    /\ did' = None
    /\ UNCHANGED <<settings, selection, ammoView>>

(* A gun takes a round of an enabled type, or fires the one it has. *)
Load(p, m) ==
    /\ m \in Crew(p[1])
    /\ Slots[p[1]][p[2]] \in CanUse[m] /\ ~IsOff(p[1], p[2], m)
    /\ loaded' = [loaded EXCEPT ![m] = IF @ = None THEN Slots[p[1]][p[2]] ELSE None]
    /\ did' = None
    /\ UNCHANGED <<flags, pinned, off, live, selection, ammoView>>

AmmoInit ==
    /\ flags = {}
    /\ pinned = [s \in Soldiers |-> {}] /\ off = pinned
    /\ loaded = [m \in Soldiers \cup Vehicles |-> None]
    /\ live = Soldiers
    /\ selection \in Selections
    /\ ammoView = None
    /\ did = None

AmmoNext ==
    \/ Render \/ Select
    \/ \E i \in 1..MaxCards : Click(i) \/ SingleClick(i)
    \/ \E i \in 1..MaxCards, dir \in {0, 2} : Step(i, dir) \/ SingleStep(i, dir)
    \/ \E s \in Soldiers : Die(s)
    \/ \E p \in AmmoPlaces, m \in Soldiers \cup Vehicles : Load(p, m)

AmmoSpec == AmmoInit /\ [][AmmoNext]_ammoVars

-----------------------------------------------------------------------------
AmmoTypeOK ==
    /\ flags \subseteq AmmoPlaces
    /\ \A s \in Soldiers : off[s] \subseteq pinned[s] /\ pinned[s] \subseteq 1..PinSlots
    /\ ammoView # None => Len(ammoView.units) >= 2

(***************************************************************************)
(* An input on a card of the combined menu changes only the use of the     *)
(* type that the card shows, and only for the units whose cards the player *)
(* saw: whatever was selected, killed or switched since the menu was drawn *)
(* (click and step look the sources up again).                             *)
(***************************************************************************)
CardsActOnWhatTheyShow ==
    [][did' # None /\ did'.kind \in {"click", "step"} =>
          \A p \in AmmoPlaces : \A m \in Crew(p[1]) :
             (p[1] \notin ToSet(ammoView.units) \/ Slots[p[1]][p[2]] # ammoView.types[did'.card]) =>
                 IsOff(p[1], p[2], m)' = IsOff(p[1], p[2], m)]_ammoVars

(***************************************************************************)
(* A click on a combined card leaves all its users with one setting:       *)
(* enabled, unless all of them were; with squads, vehicles and parts of    *)
(* squads selected together.  Slots beyond the pins of a partial selection *)
(* keep theirs.                                                            *)
(***************************************************************************)
ClickSettles ==
    [][(did' # None /\ did'.kind = "click" /\ Sources = ammoView.units) =>
          LET t == ammoView.types[did'.card]
              all == \A p \in PlacesOf(t) : Enabled(p[1], p[2]) = Takers(p[1], p[2])
          IN  \A p \in PlacesOf(t) :
                 (Partial(p[1]) => p[2] <= PinSlots) =>
                     \A m \in Takers(p[1], p[2]) : IsOff(p[1], p[2], m)' = all]_ammoVars

(***************************************************************************)
(* No gun keeps a round of a weapon its user has disabled, "so the soldier *)
(* falls back to an enabled one": however it was disabled, by a flag or a  *)
(* pin, for a squad, a part of it or one step at a time.                   *)
(***************************************************************************)
DisabledIsUnloaded ==
    \A p \in AmmoPlaces :
        \A m \in Crew(p[1]) :
            ~(loaded[m] = Slots[p[1]][p[2]] /\ IsOff(p[1], p[2], m))

(* One more user enabled, or one fewer, when there is one to change. *)
MovesOne(t, places) ==
    LET n == EnabledCount(t)
        able == IF did'.dir > 0 THEN \E p \in places : Takers(p[1], p[2]) # Enabled(p[1], p[2])
                ELSE \E p \in places : Enabled(p[1], p[2]) # {}
    IN  EnabledCount(t)' = IF ~able THEN n ELSE IF did'.dir > 0 THEN n + 1 ELSE n - 1

(***************************************************************************)
(* A step with one squad selected enables one more of the users the card   *)
(* counts, or disables one (docs/features.md, ammo_step).                  *)
(***************************************************************************)
SingleStepMovesOne ==
    [][did' # None /\ did'.kind = "single" =>
          \A p \in AmmoPlaces : p = <<Sources[1], did'.card>> =>
              MovesOne(Slots[p[1]][p[2]], {p})]_ammoVars

=============================================================================
