---------------------------- MODULE PanelScroll ----------------------------
(***************************************************************************)
(* The scrolled rows of the squad-management scroll plugin: a row of the   *)
(* squad or vehicle panel (weapons, ammunition, upgrades, perks) or of the *)
(* training chooser, whose few widgets show a window of a longer list.     *)
(*                                                                         *)
(* The rows of a panel keep separate viewports and share only the panel    *)
(* and its unit, so a behaviour follows one row.  The plugin keeps a       *)
(* viewport per panel between events and reads everything else (unit,      *)
(* inventory, slider) again at each event.  The game's own refresh,        *)
(* chooser and drop are external: they are modelled from how the plugin    *)
(* hooks and mirrors them.                                                 *)
(***************************************************************************)
EXTENDS Integers, Sequences, FiniteSets, FiniteSetsExt, SequencesExt, NoValue

CONSTANTS
    Upgrades,       \* the upgrades that fit the unit's type
    Tags,           \* [Upgrades -> SUBSET of tags]: two sharing one conflict
    Lists,          \* for each kind of row, the lists a unit may have
    Hidden,         \* the weapons whose script hides them
    Visible,        \* the cards of a row (6 and 5 in the code)
    CardSlots,          \* the upgrade_slots and perk_slots settings
    FitUpgrades,    \* the fit_upgrades setting
    Notch,           \* a wheel notch (120 in the code)
    Deltas,         \* the wheel movements that arrive
    MaxItems       \* bound on a unit's records

PanelUnits == {1, 2}
BlankCard == "blank"
Kinds == {"weapon", "ammo", "upgrade", "perk", "training"}

ASSUME SlotsCoverTheCards == Visible \in Nat \ {0} /\ CardSlots \in Nat /\ CardSlots >= Visible
ASSUME TagsOfUpgrades == \A u \in Upgrades : IsFiniteSet(Tags[u])

VARIABLES
    kind,       \* the row this behaviour follows
    unit,       \* the panel's unit, None without one (or without a panel)
    inv,        \* the unit's records for the row, in the order of its vector
    squad,      \* what the perk row also reads: [locks, rank, mayPick, trainings]
    panelDrawn,      \* FALSE after the game changed the unit, until it refreshes
    shown,      \* the stock refresh left the row's cards visible
    keyed,      \* the game has resolved an upgrade card this session
    slider,     \* the companion slider: [value, max]; None when it is missing
    cards,      \* what each card shows
    state,      \* the plugin's STATES/CHOICES entry of this panel, or None
    chosen      \* the last answer of the drag-start chooser, or None

scrollVars == <<kind, unit, inv, squad, panelDrawn, shown, keyed, slider, cards, state, chosen>>

-----------------------------------------------------------------------------
(* The viewport.  A view is [offset, count, remainder].                    *)

NewView == [offset |-> 0, count |-> 0, remainder |-> 0]

Maximum(v) == IF v.count > Visible THEN v.count - Visible ELSE 0

Clamp(x, top) == IF x < 0 THEN 0 ELSE IF x > top THEN top ELSE x

(* Mutant: a list that shrank leaves the window where it was. *)
ResizeLate(v, n) == [v EXCEPT !.count = n]

Resize(v, n) ==
    LET w == [v EXCEPT !.count = n]
    IN  [w EXCEPT !.offset = Clamp(@, Maximum(w)),
                  !.remainder = IF Maximum(w) = 0 THEN 0 ELSE @]

Seek(v, value) == [v EXCEPT !.offset = Clamp(value, Maximum(v)), !.remainder = 0]

(* Rust's / and % truncate towards zero. *)
Quotient(x) == IF x < 0 THEN -((-x) \div Notch) ELSE x \div Notch

Wheel(v, delta) ==
    LET sum == v.remainder + delta
    IN  IF Maximum(v) = 0 THEN v
        ELSE [v EXCEPT !.offset = Clamp(@ - Quotient(sum), Maximum(v)),
                       !.remainder = sum - Notch * Quotient(sum)]

Show(v, index) ==
    IF index < v.offset THEN Seek(v, index)
    ELSE IF index >= v.offset + Visible THEN Seek(v, index + 1 - Visible)
    ELSE v

-----------------------------------------------------------------------------
(* The row's list.                                                         *)

Conflict(a, b) == Tags[a] \cap Tags[b] # {}

(* A set containing another is dropped: the smaller serves as well. *)
Minimal(sets) == {s \in sets : ~\E k \in sets \ {s} : k \subseteq s}

MostDisjoint(sets) ==
    Max({Cardinality(D) : D \in {D \in SUBSET Minimal(sets) :
            \A s, t \in D : s # t => s \cap t = {}}})

Installable == Cardinality({u \in Upgrades : Tags[u] = {}})
                 + MostDisjoint({Tags[u] : u \in Upgrades} \ {{}})

(* The length of the upgrade column; without the game's key, or with no    *)
(* answer, the configured slots.                                           *)
UpgradeColumn(isKeyed, owned) ==
    LET answer == IF FitUpgrades /\ isKeyed /\ Installable > 0 THEN Installable ELSE CardSlots
    IN  Max({Min({answer, CardSlots}), owned})

Capped(s) == SubSeq(s, 1, Min({Len(s), CardSlots}))

Pad(s, n) == [i \in 1..Max({n, Len(s)}) |-> IF i <= Len(s) THEN s[i] ELSE BlankCard]

(* The perk row is resized only when the lock rule can be applied. *)
PerkRow(s, q) ==
    IF q.locks /\ q.rank = None THEN s
    ELSE Pad(s, IF q.trainings = None THEN CardSlots ELSE Min({q.trainings, CardSlots}))

TakesPart(isShown) == kind \in {"upgrade", "perk"} => isShown

Items(isShown, isKeyed) ==
    CASE kind = "weapon"  -> SelectSeq(inv, LAMBDA r : r \notin Hidden)
      [] kind = "upgrade" -> IF TakesPart(isShown)
                             THEN Pad(Capped(inv), UpgradeColumn(isKeyed, Len(Capped(inv))))
                             ELSE Capped(inv)
      [] kind = "perk"    -> IF TakesPart(isShown) THEN PerkRow(Capped(inv), squad)
                             ELSE Capped(inv)
      [] OTHER            -> inv

-----------------------------------------------------------------------------
(* What a card shows: its record, and for a perk card whether it is open   *)
(* and highlighted.                                                        *)

Bare(record) == [record |-> record, open |-> FALSE, highlight |-> FALSE]

(* The record at a zero-based index of the list, Blank past its end. *)
At(s, i) == IF i < Len(s) THEN s[i + 1] ELSE BlankCard

OpenCard(index) == squad.locks => squad.rank # None /\ index < squad.rank

(* A blank perk card, as the stock refresh and blank_card draw it.         *)
BlankPerk(index, owned, isOpen) ==
    [record |-> BlankCard, open |-> isOpen,
     highlight |-> isOpen /\ index = owned /\ squad.mayPick]

BoundPerk(card, record) == Bare(record)

(* External: the stock refresh draws the head of the list.                 *)
StockCard(i) ==
    LET list == IF kind = "weapon" THEN SelectSeq(inv, LAMBDA r : r \notin Hidden) ELSE inv
    IN  IF kind = "perk" /\ At(list, i) = BlankCard
        THEN BlankPerk(i, Len(list), OpenCard(i))
        ELSE Bare(At(list, i))

StockCards == [i \in 0..(Visible - 1) |-> StockCard(i)]

(* An upgrade's display needs the game's key; without one the card clears. *)
DrawnCard(old, items, v, i, isKeyed) ==
    LET index == v.offset + i
        owned == Len(Capped(inv))
    IN  CASE kind = "perk" /\ index >= Len(items) -> old
          [] kind = "perk" /\ index < Len(items) /\ items[index + 1] = BlankCard ->
                BlankPerk(index, owned, OpenCard(index))
          [] kind = "perk" /\ index < Len(items) /\ items[index + 1] # BlankCard ->
                BoundPerk(old, items[index + 1])
          [] kind = "upgrade" /\ ~isKeyed -> Bare(BlankCard)
          [] OTHER -> Bare(At(items, index))

(***************************************************************************)
(* update: read the panel again, keep or renew the viewport, apply the     *)
(* input to it, draw the cards and the slider.                             *)
(***************************************************************************)

Kept(u) == state # None /\ state.unit = u

View(u) == IF Kept(u) THEN state.view ELSE NewView

SyncSlider(v) == [value |-> v.offset, max |-> Maximum(v)]

Forgets == slider = None \/ unit = None

(* The view an event finds: the kept one, resized to the list. *)
Sized(isShown, isKeyed) == Resize(View(unit), Len(Items(isShown, isKeyed)))

Update(view, base, isShown, isKeyed) ==
    IF Forgets
    THEN state' = None /\ cards' = base /\ slider' = IF slider = None THEN None
                                                    ELSE [slider EXCEPT !.max = 0]
    ELSE LET items == Items(isShown, isKeyed)
         IN  /\ state' = [unit |-> unit, view |-> view]
             /\ cards' = IF TakesPart(isShown)
                         THEN [i \in DOMAIN base |-> DrawnCard(base[i], items, view, i, isKeyed)]
                         ELSE base
             /\ slider' = IF TakesPart(isShown)
                          THEN SyncSlider(view)
                          ELSE [slider EXCEPT !.max = 0]

-----------------------------------------------------------------------------
(* The game.                                                               *)

Owned == {s \in Lists[kind] :
            kind = "upgrade" => \A i, j \in DOMAIN s : i # j => ~Conflict(s[i], s[j])}

SquadOf == IF kind = "perk"
           THEN [locks : BOOLEAN, rank : 0..MaxItems \cup {None}, mayPick : BOOLEAN,
                 trainings : {None, 1, MaxItems + 1}]
           ELSE {[locks |-> FALSE, rank |-> None, mayPick |-> FALSE, trainings |-> None]}

ScrollInit ==
    /\ kind \in Kinds
    /\ unit = None
    /\ inv = <<>>
    /\ squad \in SquadOf
    /\ panelDrawn = FALSE /\ shown = FALSE /\ keyed = FALSE
    /\ slider \in {None, [value |-> 0, max |-> 0]}
    /\ cards = [i \in 0..(Visible - 1) |-> Bare(BlankCard)]
    /\ state = None
    /\ chosen = None

(* External: the game changes the unit's records, its pick right, or the   *)
(* unit the panel shows.                                                   *)
GameChanges ==
    /\ panelDrawn
    /\ \/ inv' \in Owned /\ unit' = unit /\ squad' = squad
       \/ inv' \in Owned /\ unit' \in PanelUnits \cup {None} /\ squad' = squad
       \/ squad' = [squad EXCEPT !.mayPick = ~@] /\ kind = "perk" /\ UNCHANGED <<inv, unit>>
    /\ panelDrawn' = FALSE
    /\ chosen' = None
    /\ UNCHANGED <<kind, shown, keyed, slider, cards, state>>

(* The stock refresh draws the head of the list, then the plugin updates.  *)
Redraw ==
    /\ shown' \in IF kind \in {"upgrade", "perk"} THEN BOOLEAN ELSE {TRUE}
    /\ keyed' = (keyed \/ (kind = "upgrade" /\ unit # None /\ inv # <<>>))
    /\ panelDrawn' = TRUE
    /\ chosen' = None
    /\ LET view == Sized(shown', keyed')
       IN  Update(IF kind = "training" THEN Seek(view, 0) ELSE view, StockCards, shown', keyed')
    /\ UNCHANGED <<kind, unit, inv, squad>>

(* panel_refresh, refresh_vehicle. *)
PanelRefresh == kind # "training" /\ Redraw

(* training_show: the chooser forgets its window when it is shown. *)
TrainingShow == kind = "training" /\ Redraw

(* External: the panel's first unit. *)
SelectUnit ==
    /\ unit = None
    /\ unit' \in PanelUnits
    /\ inv' \in Owned
    /\ panelDrawn' = FALSE
    /\ chosen' = None
    /\ UNCHANGED <<kind, squad, shown, keyed, slider, cards, state>>

(* A wheel event over a card or the slider.  A held button consumes it, so *)
(* that no card is rebound under a drag: chosen # None is that drag.       *)
WheelTurned(delta) ==
    /\ slider # None
    /\ unit # None
    /\ TakesPart(shown)
    /\ chosen = None
    /\ Update(Wheel(Sized(shown, keyed), delta), cards, shown, keyed)
    /\ UNCHANGED <<kind, unit, inv, squad, panelDrawn, shown, keyed, chosen>>

PanelWheel(delta) == kind # "training" /\ WheelTurned(delta)

TrainingWheel(delta) == kind = "training" /\ WheelTurned(delta)

(* The slider reports a value (0x481), or a vertical one is dragged.       *)
SliderEvent(value) ==
    /\ slider # None /\ unit # None
    /\ TakesPart(shown)
    /\ slider.max > 0 /\ value \in 0..slider.max
    /\ chosen = None
    /\ Update(Seek(Sized(shown, keyed), value), cards, shown, keyed)
    /\ UNCHANGED <<kind, unit, inv, squad, panelDrawn, shown, keyed, chosen>>

(* destroy: the panel goes, its entry first.  The next panel may have its  *)
(* address and the same unit.                                              *)
DestroyPanel ==
    /\ panelDrawn
    /\ state' = None
    /\ unit' = None
    /\ inv' = <<>>
    /\ panelDrawn' = FALSE
    /\ chosen' = None
    /\ cards' = [i \in 0..(Visible - 1) |-> Bare(BlankCard)]
    /\ UNCHANGED <<kind, squad, shown, keyed, slider>>

-----------------------------------------------------------------------------
(* Dragging an upgrade.                                                    *)

Clash(item) == {i \in 1..Len(Capped(inv)) : inv[i] = item \/ Conflict(inv[i], item)}

(* show_target: the first installed upgrade that is the item or shares a   *)
(* tag, else the first blank card.                                         *)
Target(item) ==
    IF keyed /\ Clash(item) # {} THEN Min(Clash(item)) - 1 ELSE Len(Capped(inv))

(* External: the stock chooser refuses an item a visible card holds and    *)
(* takes the first card that is empty or conflicts.                        *)
StockChoice(item, row) ==
    LET records == [i \in DOMAIN row |-> row[i].record]
        fit     == {i \in DOMAIN row : records[i] = BlankCard \/ Conflict(records[i], item)}
    IN  IF \E i \in DOMAIN row : records[i] = item THEN "refused"
        ELSE IF fit = {} THEN "nowhere"
        ELSE records[Min(fit)]

(* choose_squad, choose_vehicle: show_target, then the stock chooser.      *)
Choose(item) ==
    /\ kind = "upgrade"
    /\ panelDrawn /\ unit # None
    /\ IF Target(item) < UpgradeColumn(keyed, Len(Capped(inv)))
       THEN Update(Show(Sized(shown, keyed), Target(item)), cards, shown, keyed)
       ELSE UNCHANGED <<state, cards, slider>>
    /\ chosen' = [item |-> item, card |-> StockChoice(item, cards')]
    /\ UNCHANGED <<kind, unit, inv, squad, panelDrawn, shown, keyed>>

(* External: the drop installs the item in place of what it conflicts with. *)
Drop ==
    /\ chosen # None
    /\ chosen' = None
    /\ IF chosen.card \in {"refused", "nowhere"}
       THEN UNCHANGED <<inv, panelDrawn>>
       ELSE /\ inv' = Append(SelectSeq(inv, LAMBDA r : ~Conflict(r, chosen.item)), chosen.item)
            /\ panelDrawn' = FALSE
    /\ UNCHANGED <<kind, unit, squad, shown, keyed, slider, cards, state>>

ScrollNext ==
    \/ GameChanges \/ PanelRefresh \/ TrainingShow \/ SelectUnit \/ DestroyPanel \/ Drop
    \/ \E d \in Deltas : PanelWheel(d) \/ TrainingWheel(d)
    \/ \E n \in 0..MaxItems : SliderEvent(n)
    \/ \E u \in Upgrades : Choose(u)

ScrollSpec == ScrollInit /\ [][ScrollNext]_scrollVars

-----------------------------------------------------------------------------
ScrollTypeOK ==
    /\ kind \in Kinds
    /\ unit \in PanelUnits \cup {None}
    /\ panelDrawn \in BOOLEAN /\ shown \in BOOLEAN /\ keyed \in BOOLEAN
    /\ slider = None \/ (slider.value \in Nat /\ slider.max \in Nat)
    /\ DOMAIN cards = 0..(Visible - 1)
    /\ state = None \/ (/\ state.unit \in PanelUnits
                        /\ state.view.offset \in Nat /\ state.view.count \in Nat
                        /\ state.view.remainder \in -(Notch - 1)..(Notch - 1))

(***************************************************************************)
(* Once the game has drawn its last change, the cards are a window of the  *)
(* list as it is now, the slider stands at that window, and no card is     *)
(* left empty at the end while a record is scrolled out at the front: after *)
(* any mix of wheel, slider, shrinking lists and other units on the same   *)
(* panel (update, resize, sync_slider).                                    *)
(***************************************************************************)
CardsShowTheList ==
    (panelDrawn /\ state # None /\ TakesPart(shown)) =>
        LET items == Items(shown, keyed)
            v     == state.view
        IN  /\ state.unit = unit
            /\ v.count = Len(items)
            /\ slider = [value |-> v.offset, max |-> Maximum(v)]
            /\ v.offset + Visible > Len(items) => v.offset = 0
            /\ \A i \in DOMAIN cards : cards[i].record = At(items, v.offset + i)

(***************************************************************************)
(* The card the chooser marks is the one the drop changes: an upgrade the  *)
(* unit has is refused, one that conflicts is offered the place of the     *)
(* first it conflicts with, and only one that conflicts with nothing is    *)
(* offered an empty card (show_target before the stock chooser).           *)
(***************************************************************************)
DropGoesWhereShown ==
    (chosen # None /\ state # None /\ shown /\ Len(inv) <= CardSlots) =>
        LET all == {i \in DOMAIN inv : Conflict(inv[i], chosen.item)}
        IN  IF chosen.item \in Range(inv) THEN chosen.card = "refused"
            ELSE IF all # {} THEN chosen.card = inv[Min(all)]
            ELSE chosen.card \in {BlankCard, "nowhere"}

(***************************************************************************)
(* The fitted column is long enough: an upgrade that fits the unit and     *)
(* conflicts with nothing it has always finds an empty card while the      *)
(* configured slots are not used up (upgrade_column, most_disjoint).       *)
(***************************************************************************)
RoomForEveryUpgrade ==
    (chosen # None /\ state # None /\ shown /\ Len(inv) < CardSlots) =>
        (chosen.card = "nowhere" => chosen.item \in Range(inv)
                                      \/ \E i \in DOMAIN inv : Conflict(inv[i], chosen.item))

(***************************************************************************)
(* A perk is picked for the next card only: whatever was scrolled, a       *)
(* highlighted card (which a click picks for) is the first without a perk, *)
(* is open at the squad's rank and the squad may pick; a card with a perk  *)
(* is never open (blank_card, the perk binding).                           *)
(***************************************************************************)
OnlyNextPerkPicks ==
    (kind = "perk" /\ panelDrawn /\ shown /\ state # None) =>
        \A i \in DOMAIN cards :
            /\ cards[i].highlight =>
                 /\ squad.mayPick
                 /\ state.view.offset + i = Len(inv)
                 /\ OpenCard(state.view.offset + i)
            /\ cards[i].open => cards[i].record = BlankCard

=============================================================================
