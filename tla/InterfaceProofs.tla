-------------------------- MODULE InterfaceProofs --------------------------
(***************************************************************************)
(* Ability groups: for every set of abilities, slots and cells, and        *)
(* whatever comes between two frames, the windows a row moved come home,   *)
(* no slot is emptied for a conflict, and each slot settles on the ability *)
(* it should show.                                                         *)
(*                                                                         *)
(* Experience levels: for any rows of any length, what an adapter is given *)
(* of a row is parsed as the whole row would be, an object shows its own   *)
(* cells outside a call, and the meter has a separator at the nearest      *)
(* pixel of each boundary.                                                 *)
(***************************************************************************)
EXTENDS AbilityGroups, ExperienceLevels, TLAPS, FiniteSetTheorems, SequenceTheorems,
        NaturalsInduction, WellFoundedInduction

(* Of a frame under way, what the abilities that had their turn are; of the *)
(* frames since anything changed, what the squads have.                     *)
FrameRecorded ==
    \A s \in BarSlots :
        /\ cursor > 0 => now[s] = {a \in Of(s, avail) : a < cursor}
        /\ cursor = 0 /\ quiet > 0 => now[s] = Of(s, avail)
        /\ cursor > 0 /\ quiet > 0 => lastSeen[s] = Of(s, avail)

(* The windows of an open row are visible, and after the first ability of a *)
(* frame the submenu is open with it.                                       *)
RowStands ==
    openRow # None =>
        /\ InRow(openRow) \subseteq ui.visible
        /\ cursor > 0 => submenu

(* A pick by key waits for the next frame only, and its slot keeps it.      *)
PickWaits == activate # None => cursor = 0 /\ ui.shown[activate] # None

(* With no row open, an ability that had its turn is visible only in its    *)
(* slot.                                                                    *)
VisibleServed ==
    openRow = None /\ (cursor > 0 \/ quiet > 0) =>
        \A a \in ui.visible : cursor = 0 \/ a < cursor => ui.shown[SlotOf[a]] = a

(* In the second frame without a change, an ability that had its turn is    *)
(* shown if it is the one its slot should show, and not otherwise.          *)
Wanted(s) == Desired(Of(s, avail), picked[s])
SlotsServed ==
    openRow = None /\ cursor > 0 /\ quiet > 0 =>
        \A a \in Abilities : a < cursor => (ui.shown[SlotOf[a]] = a <=> Wanted(SlotOf[a]) = a)

GroupInv ==
    /\ AbilityRowSound /\ FrameRecorded /\ RowStands /\ PickWaits
    /\ VisibleServed /\ SlotsServed

-----------------------------------------------------------------------------
(* The bar as the proofs use it: a slot shows none or one of its own        *)
(* abilities, whose window is visible, and the stock bar emptied none.      *)
BarOK(u) ==
    /\ u \in [shown : [BarSlots -> Abilities \cup {None}], visible : SUBSET Abilities,
              clash : BOOLEAN]
    /\ \A s \in BarSlots : u.shown[s] \in Of(s, Abilities) \cup {None}
    /\ \A s \in BarSlots : u.shown[s] # None => u.shown[s] \in u.visible
    /\ ~u.clash

(* Every ability has its slot. *)
LEMMA SlotKnown == ASSUME NEW a \in Abilities PROVE SlotOf[a] \in BarSlots
BY DEF BarSlots

(* A frame's turns: after the last ability comes the first.                 *)
LEMMA NextTurn ==
    ASSUME NEW a \in Abilities
    PROVE  /\ (a + 1) % AbilityCount = IF a = AbilityCount - 1 THEN 0 ELSE a + 1
           /\ (a + 1) % AbilityCount \in Abilities
           /\ 0 \in Abilities /\ a \in Int /\ 0 # AbilityCount - 1
<1>1. a \in Int /\ a >= 0 /\ a <= AbilityCount - 1 /\ AbilityCount \in Nat /\ AbilityCount >= 2
  BY AbilitiesGiven DEF Abilities
<1>2. CASE a = AbilityCount - 1
  BY <1>1, <1>2 DEF Abilities
<1>3. CASE a # AbilityCount - 1
  <2>1. a + 1 >= 0 /\ a + 1 < AbilityCount
    BY <1>1, <1>3
  <2>2. (a + 1) % AbilityCount = a + 1
    BY <1>1, <2>1
  <2> QED BY <1>1, <1>3, <2>1, <2>2 DEF Abilities
<1> QED BY <1>2, <1>3

(* A set of numbers has its smallest one. *)
LEMMA LeastExists ==
    ASSUME NEW set \in SUBSET Nat, set # {}
    PROVE  \E m \in set : \A k \in set : m <= k
<1> DEFINE Less == {p \in Nat \X Nat : p[1] < p[2]}
<1>1. OpToRel(<, Nat) = Less
  BY Zenon DEF OpToRel
<1> HIDE DEF Less
<1>2. PICK m \in set : \A k \in set : ~(<<k, m>> \in Less)
  BY <1>1, WFMin, NatLessThanWellFounded
<1>3. ASSUME NEW k \in set PROVE m <= k
  <2>1. ~(k < m)
    BY <1>2 DEF Less
  <2> QED BY <2>1
<1> QED BY <1>3

(* The first ability the squads have exists whenever they have one.         *)
LEMMA MinChosen ==
    ASSUME NEW set \in SUBSET Abilities, set # {}
    PROVE  Min(set) \in set
<1>1. set \in SUBSET Nat
  BY AbilitiesGiven DEF Abilities
<1>2. \E m \in set : \A k \in set : m <= k
  BY <1>1, LeastExists
<1> QED BY <1>2 DEF Min

(* A slot should show an ability of the squads', and none only for want of  *)
(* one.                                                                     *)
LEMMA DesiredChosen ==
    ASSUME NEW set \in SUBSET Abilities, NEW pick \in Abilities \cup {None}
    PROVE  /\ Desired(set, pick) \in set \cup {None}
           /\ Desired(set, pick) = None <=> set = {}
<1>1. None \notin set
  BY NoneIsApart
<1>2. CASE set = {}
  BY <1>2 DEF Desired
<1>3. CASE set # {}
  BY <1>1, <1>3, MinChosen DEF Desired
<1> QED BY <1>2, <1>3

(* The stock update hides a window that is not available and empties its    *)
(* slot if it was shown there.                                              *)
LEMMA StockHides ==
    ASSUME NEW u, BarOK(u), NEW a \in Abilities
    PROVE  /\ BarOK(StockUpdate(u, a, FALSE))
           /\ \A s \in BarSlots : StockUpdate(u, a, FALSE).shown[s] =
                  IF u.shown[s] = a THEN None ELSE u.shown[s]
           /\ StockUpdate(u, a, FALSE).visible = u.visible \ {a}
<1> DEFINE v == StockUpdate(u, a, FALSE)
<1>1. SlotOf[a] \in BarSlots
  BY SlotKnown
<1>2. v = [u EXCEPT !.shown[SlotOf[a]] = IF u.shown[SlotOf[a]] = a THEN None ELSE @,
                    !.visible = @ \ {a}]
  BY DEF StockUpdate
<1>3. \A s \in BarSlots : u.shown[s] = a => s = SlotOf[a]
  BY NoneIsApart DEF BarOK, Of
<1>4. /\ v.visible = u.visible \ {a} /\ v.clash = u.clash
      /\ v.shown = [u.shown EXCEPT ![SlotOf[a]] = IF u.shown[SlotOf[a]] = a THEN None ELSE @]
  BY <1>2 DEF BarOK
<1>5. \A s \in BarSlots : v.shown[s] = IF u.shown[s] = a THEN None ELSE u.shown[s]
  BY <1>1, <1>3, <1>4 DEF BarOK
<1>6. v \in [shown : [BarSlots -> Abilities \cup {None}], visible : SUBSET Abilities,
              clash : BOOLEAN]
  <2>1. /\ DOMAIN v = DOMAIN u
        /\ v = [shown |-> v.shown, visible |-> v.visible, clash |-> v.clash]
    BY <1>2 DEF BarOK
  <2>2. v.shown \in [BarSlots -> Abilities \cup {None}] /\ v.visible \in SUBSET Abilities
    BY <1>1, <1>4 DEF BarOK
  <2> HIDE DEF v
  <2> QED BY <1>4, <2>1, <2>2 DEF BarOK
<1>7. BarOK(v)
  BY <1>4, <1>5, <1>6 DEF BarOK
<1> QED BY <1>4, <1>5, <1>7

(* The stock update shows an available ability whose slot is free for it.   *)
LEMMA StockShows ==
    ASSUME NEW u, BarOK(u), NEW a \in Abilities, u.shown[SlotOf[a]] \in {None, a}
    PROVE  /\ BarOK(StockUpdate(u, a, TRUE))
           /\ \A s \in BarSlots : StockUpdate(u, a, TRUE).shown[s] =
                  IF s = SlotOf[a] THEN a ELSE u.shown[s]
           /\ StockUpdate(u, a, TRUE).visible = u.visible \cup {a}
<1> DEFINE v == StockUpdate(u, a, TRUE)
<1>1. SlotOf[a] \in BarSlots
  BY SlotKnown
<1>2. v = [u EXCEPT !.shown[SlotOf[a]] = a, !.visible = @ \cup {a}]
  BY DEF StockUpdate
<1>4. /\ v.visible = u.visible \cup {a} /\ v.clash = u.clash
      /\ v.shown = [u.shown EXCEPT ![SlotOf[a]] = a]
  BY <1>2 DEF BarOK
<1>5. \A s \in BarSlots : v.shown[s] = IF s = SlotOf[a] THEN a ELSE u.shown[s]
  BY <1>1, <1>4 DEF BarOK
<1>6. v \in [shown : [BarSlots -> Abilities \cup {None}], visible : SUBSET Abilities,
              clash : BOOLEAN]
  <2>1. /\ DOMAIN v = DOMAIN u
        /\ v = [shown |-> v.shown, visible |-> v.visible, clash |-> v.clash]
    BY <1>2 DEF BarOK
  <2>2. v.shown \in [BarSlots -> Abilities \cup {None}] /\ v.visible \in SUBSET Abilities
    BY <1>1, <1>4 DEF BarOK
  <2> HIDE DEF v
  <2> QED BY <1>4, <2>1, <2>2 DEF BarOK
<1>7. \A s \in BarSlots : v.shown[s] \in Of(s, Abilities) \cup {None}
  BY <1>5 DEF BarOK, Of
<1>8. BarOK(v)
  BY <1>4, <1>5, <1>6, <1>7 DEF BarOK
<1> QED BY <1>4, <1>5, <1>8

(* What serving one ability does to the bar: its slot shows it if it is the *)
(* one wanted, and nothing but its slot and what was shown there changes.   *)
ServedBar(u, v, a, w, squads) ==
    /\ BarOK(v)
    /\ \A s \in BarSlots : s # SlotOf[a] => v.shown[s] = u.shown[s]
    /\ v.visible \subseteq u.visible \cup {a}
    /\ a \in v.visible => v.shown[SlotOf[a]] = a
    /\ \A b \in v.visible \ {a} : u.shown[SlotOf[b]] = b => v.shown[SlotOf[b]] = b
    /\ a \in squads /\ w = a => v.shown[SlotOf[a]] = a
    /\ a \notin squads \/ w \notin {None, a} =>
           v.shown[SlotOf[a]] = IF u.shown[SlotOf[a]] = a THEN None ELSE u.shown[SlotOf[a]]

(* The stock bar is never asked to show an ability while another one of the *)
(* slot is shown.                                                           *)
LEMMA Served ==
    ASSUME NEW u, BarOK(u), NEW a \in Abilities, NEW set \in SUBSET Abilities,
           NEW pick \in Abilities \cup {None}, NEW squads \in SUBSET Abilities
    PROVE  ServedBar(u, Serve(u, set, pick, a, a \in squads), a, Desired(set, pick), squads)
<1> DEFINE s  == SlotOf[a]
           v  == Serve(u, set, pick, a, a \in squads)
           w  == Desired(set, pick)
           c  == u.shown[s]
<1>1. s \in BarSlots /\ a # None /\ w \in Abilities \cup {None}
  BY SlotKnown, NoneIsApart, DesiredChosen
<1>2. c \in Abilities \cup {None} /\ (c # None => SlotOf[c] = s /\ c \in u.visible)
  BY <1>1 DEF BarOK, Of
<1>3. \A b \in u.visible : SlotOf[b] \in BarSlots
  BY SlotKnown DEF BarOK
<1>7. \/ v = StockUpdate(u, a, FALSE) /\ ~(a \in squads /\ w = a)
      \/ v = StockUpdate(u, a, TRUE) /\ c \in {None, a} /\ a \in squads /\ w \in {None, a}
      \/ v = StockUpdate(StockUpdate(u, c, FALSE), a, TRUE) /\ c \notin {None, a}
         /\ a \in squads /\ w = a
  BY <1>1 DEF Serve
<1> HIDE DEF v, w
<1> SUFFICES ServedBar(u, v, a, w, squads)
  BY DEF v, w
<1>4. CASE v = StockUpdate(u, a, FALSE) /\ ~(a \in squads /\ w = a)
  <2>1. /\ BarOK(v) /\ v.visible = u.visible \ {a}
        /\ \A t \in BarSlots : v.shown[t] = IF u.shown[t] = a THEN None ELSE u.shown[t]
    <3>1. /\ BarOK(StockUpdate(u, a, FALSE))
          /\ \A t \in BarSlots : StockUpdate(u, a, FALSE).shown[t] =
                 IF u.shown[t] = a THEN None ELSE u.shown[t]
          /\ StockUpdate(u, a, FALSE).visible = u.visible \ {a}
      BY StockHides
    <3> QED BY <1>4, <3>1
  <2>2. \A t \in BarSlots : u.shown[t] = a => t = s
    BY <1>1 DEF BarOK, Of
  <2>3. \A b \in v.visible \ {a} : u.shown[SlotOf[b]] = b => v.shown[SlotOf[b]] = b
    BY <1>3, <2>1
  <2> QED BY <1>1, <1>4, <2>1, <2>2, <2>3 DEF ServedBar
<1>5. CASE v = StockUpdate(u, a, TRUE) /\ c \in {None, a} /\ a \in squads /\ w \in {None, a}
  <2>1. /\ BarOK(v) /\ v.visible = u.visible \cup {a}
        /\ \A t \in BarSlots : v.shown[t] = IF t = s THEN a ELSE u.shown[t]
    <3>1. /\ BarOK(StockUpdate(u, a, TRUE))
          /\ \A t \in BarSlots : StockUpdate(u, a, TRUE).shown[t] =
                 IF t = s THEN a ELSE u.shown[t]
          /\ StockUpdate(u, a, TRUE).visible = u.visible \cup {a}
      BY <1>5, StockShows
    <3> QED BY <1>5, <3>1
  <2>2. ASSUME NEW b \in v.visible \ {a}, u.shown[SlotOf[b]] = b
        PROVE  v.shown[SlotOf[b]] = b
    <3>1. b \in u.visible /\ SlotOf[b] \in BarSlots
      BY <1>3, <2>1
    <3>2. b # None
      BY <3>1, NoneIsApart DEF BarOK
    <3>3. SlotOf[b] # s
      BY <1>5, <2>2, <3>2
    <3> QED BY <2>1, <2>2, <3>1, <3>3
  <2> QED BY <1>1, <1>5, <2>1, <2>2 DEF ServedBar
<1>6. CASE v = StockUpdate(StockUpdate(u, c, FALSE), a, TRUE) /\ c \notin {None, a}
           /\ a \in squads /\ w = a
  <2> DEFINE m == StockUpdate(u, c, FALSE)
  <2>1. c \in Abilities
    BY <1>2, <1>6
  <2>2. /\ BarOK(m) /\ m.visible = u.visible \ {c}
        /\ \A t \in BarSlots : m.shown[t] = IF u.shown[t] = c THEN None ELSE u.shown[t]
    BY <2>1, StockHides
  <2>3. m.shown[s] = None /\ v = StockUpdate(m, a, TRUE)
    BY <1>1, <1>6, <2>2
  <2> HIDE DEF m
  <2>4. /\ BarOK(v) /\ v.visible = m.visible \cup {a}
        /\ \A t \in BarSlots : v.shown[t] = IF t = s THEN a ELSE m.shown[t]
    <3>1. /\ BarOK(StockUpdate(m, a, TRUE))
          /\ \A t \in BarSlots : StockUpdate(m, a, TRUE).shown[t] =
                 IF t = s THEN a ELSE m.shown[t]
          /\ StockUpdate(m, a, TRUE).visible = m.visible \cup {a}
      BY <2>2, <2>3, StockShows
    <3> QED BY <2>3, <3>1
  <2>5. \A t \in BarSlots : u.shown[t] = c => t = s
    BY <1>2, <1>6 DEF BarOK, Of
  <2>6. \A t \in BarSlots : t # s => v.shown[t] = u.shown[t]
    BY <2>2, <2>4, <2>5
  <2>7. ASSUME NEW b \in v.visible \ {a}, u.shown[SlotOf[b]] = b
        PROVE  v.shown[SlotOf[b]] = b
    <3>1. b \in u.visible /\ b # c /\ SlotOf[b] \in BarSlots
      BY <1>3, <2>2, <2>4
    <3>2. SlotOf[b] # s
      BY <2>7, <3>1
    <3> QED BY <2>6, <2>7, <3>1, <3>2
  <2> QED BY <1>1, <1>6, <2>2, <2>4, <2>6, <2>7 DEF ServedBar
<1> QED BY <1>4, <1>5, <1>6, <1>7
-----------------------------------------------------------------------------
(* Windows in their slots or moved by the open row only; its labels go with *)
(* it.                                                                      *)
WindowsPlaced ==
    /\ \A a \in Abilities :
           shift[a] = IF openRow # None /\ a \in InRow(openRow) THEN 1 ELSE 0
    /\ openRow = None => labels = {}

(* A row is of abilities that share its slot. *)
RowOK(r) == r \in Rows /\ r.available \subseteq Of(r.slot, Abilities)

LEMMA GroupFacts ==
    ASSUME GroupInv
    PROVE  /\ GroupsTypeOK /\ BarOK(ui) /\ WindowsPlaced /\ DeferredIsThePick
           /\ RowStands /\ PickWaits
           /\ openRow # None => RowOK(openRow)
BY DEF GroupInv, AbilityRowSound, GroupsTypeOK, BarOK, WindowsComeHome, WindowsPlaced,
       NoSlotConflict, RowOK

(* Right after a change nothing is settled yet: what remains to be shown.   *)
LEMMA Unsettled ==
    ASSUME cursor' = 0, quiet' = 0, GroupsTypeOK', BarOK(ui'), WindowsPlaced',
           DeferredIsThePick', RowStands', PickWaits'
    PROVE  GroupInv'
<1>1. WindowsComeHome'
  BY DEF WindowsComeHome, WindowsPlaced, BarOK
<1>2. NoSlotConflict' /\ SlotShowsItsAbility' /\ RowIsCurrent'
  BY DEF NoSlotConflict, BarOK, SlotShowsItsAbility, RowIsCurrent
<1>3. FrameRecorded' /\ VisibleServed' /\ SlotsServed'
  BY DEF FrameRecorded, VisibleServed, SlotsServed
<1> QED BY <1>1, <1>2, <1>3 DEF GroupInv, AbilityRowSound

(* Closing a row hides its windows but the one its slot shows. *)
LEMMA ClosedBar ==
    ASSUME NEW u, BarOK(u), NEW r, RowOK(r), InRow(r) \subseteq u.visible,
           NEW pick \in InRow(r) \cup {None}
    PROVE  /\ BarOK(ClosedUi(u, r, pick))
           /\ \A s \in BarSlots : ClosedUi(u, r, pick).shown[s] =
                  IF s = r.slot /\ pick # None THEN pick ELSE u.shown[s]
<1> DEFINE v == ClosedUi(u, r, pick)
           leader == IF pick = None THEN u.shown[r.slot] ELSE pick
<1>1. r.slot \in BarSlots /\ InRow(r) \subseteq Of(r.slot, Abilities)
  BY DEF RowOK, Rows, InRow
<1>2. v = [u EXCEPT !.shown[r.slot] = leader, !.visible = @ \ (InRow(r) \ {leader})]
  BY DEF ClosedUi
<1>3. /\ v = [shown |-> v.shown, visible |-> v.visible, clash |-> v.clash]
      /\ v.clash = u.clash /\ v.visible = u.visible \ (InRow(r) \ {leader})
      /\ v.shown = [u.shown EXCEPT ![r.slot] = leader]
  BY <1>2 DEF BarOK
<1> HIDE DEF v
<1>4. \A s \in BarSlots : v.shown[s] = IF s = r.slot THEN leader ELSE u.shown[s]
  BY <1>1, <1>3 DEF BarOK
<1>5. leader \in Of(r.slot, Abilities) \cup {None} /\ (leader # None => leader \in u.visible)
  BY <1>1 DEF BarOK
<1>6. v.shown \in [BarSlots -> Abilities \cup {None}] /\ v.visible \in SUBSET Abilities
  BY <1>1, <1>3, <1>5 DEF BarOK, Of
<1>7. \A s \in BarSlots : v.shown[s] \in Of(s, Abilities) \cup {None}
  BY <1>4, <1>5 DEF BarOK
<1>8. ASSUME NEW s \in BarSlots, v.shown[s] # None PROVE v.shown[s] \in v.visible
  <2>1. CASE s = r.slot
    BY <1>3, <1>4, <1>5, <1>8, <2>1
  <2>2. CASE s # r.slot
    <3>1. v.shown[s] = u.shown[s] /\ u.shown[s] \in u.visible
      BY <1>4, <1>8, <2>2 DEF BarOK
    <3>2. u.shown[s] \notin InRow(r)
      BY <1>1, <1>8, <2>2, <3>1 DEF BarOK, Of
    <3> QED BY <1>3, <3>1, <3>2
  <2> QED BY <2>1, <2>2
<1>9. BarOK(v)
  BY <1>3, <1>6, <1>7, <1>8 DEF BarOK
<1> QED BY <1>1, <1>4, <1>9 DEF v

(* What an open row moved comes back when it closes. *)
LEMMA RestoredHome ==
    ASSUME GroupInv, openRow # None
    PROVE  Restored(openRow) = [a \in Abilities |-> 0]
BY GroupFacts DEF WindowsPlaced, Restored

LEMMA RowCloses ==
    ASSUME GroupInv, openRow # None, NEW pick \in InRow(openRow) \cup {None},
           NEW isOpen \in BOOLEAN, Close(pick, isOpen)
    PROVE  /\ openRow' = None /\ submenu' \in BOOLEAN /\ BarOK(ui')
           /\ shift' \in [Abilities -> Int] /\ WindowsPlaced'
           /\ picked' \in [BarSlots -> Abilities \cup {None}]
           /\ \A s \in BarSlots : ui.shown[s] # None => ui'.shown[s] # None
           /\ pick # None => ui'.shown[openRow.slot] = pick
<1>1. RowOK(openRow) /\ BarOK(ui) /\ InRow(openRow) \subseteq ui.visible
  BY GroupFacts DEF RowStands
<1>2. ui' = ClosedUi(ui, openRow, pick) /\ openRow' = None /\ submenu' = isOpen
      /\ shift' = [a \in Abilities |-> 0] /\ labels' = {}
  BY RestoredHome DEF Close
<1>3. BarOK(ui') /\ \A s \in BarSlots :
          ui'.shown[s] = IF s = openRow.slot /\ pick # None THEN pick ELSE ui.shown[s]
  BY <1>1, <1>2, ClosedBar
<1>4. openRow.slot \in BarSlots /\ pick \in Abilities \cup {None}
  BY <1>1 DEF RowOK, Rows, InRow
<1>5. picked' \in [BarSlots -> Abilities \cup {None}]
  BY <1>4, GroupFacts DEF Close, GroupsTypeOK
<1> QED BY <1>2, <1>3, <1>4, <1>5 DEF WindowsPlaced

LEMMA RowOpens ==
    ASSUME GroupInv, openRow = None, cursor = 0, NEW s \in BarSlots, Open(s)
    PROVE  /\ openRow' # None => RowOK(openRow') /\ InRow(openRow') \subseteq ui'.visible
           /\ submenu' \in BOOLEAN /\ BarOK(ui')
           /\ shift' \in [Abilities -> Int] /\ WindowsPlaced'
           /\ ui'.shown = ui.shown
<1>1. CASE ui.shown[s] = None
  BY <1>1, GroupFacts DEF Open, GroupsTypeOK, WindowsPlaced
<1>2. CASE ui.shown[s] # None
  <2> DEFINE new == [slot |-> s, available |-> lastSeen[s], pressed |-> {}]
  <2>1. RowOK(new) /\ new # None
    BY GroupFacts, NoneIsApart DEF GroupsTypeOK, RowOK, Rows
  <2>2. InRow(new) \subseteq Abilities
    BY <2>1 DEF RowOK, Rows, InRow
  <2>3. /\ openRow' = new /\ submenu' = TRUE
        /\ ui' = [ui EXCEPT !.visible = @ \cup InRow(new)]
        /\ shift' = [a \in Abilities |-> IF a \in InRow(new) THEN shift[a] + 1 ELSE shift[a]]
    BY <1>2 DEF Open
  <2> HIDE DEF new
  <2>4. ui'.shown = ui.shown /\ ui'.visible = ui.visible \cup InRow(new) /\ BarOK(ui')
    BY <2>2, <2>3, GroupFacts DEF BarOK
  <2>5. shift' = [a \in Abilities |-> IF a \in InRow(new) THEN 1 ELSE 0]
    BY <2>3, GroupFacts DEF WindowsPlaced
  <2> QED BY <2>1, <2>3, <2>4, <2>5 DEF WindowsPlaced
<1> QED BY <1>1, <1>2
-----------------------------------------------------------------------------
(* Between two frames. *)

(* What closes or opens a row, or leaves it alone, between two frames.      *)
LEMMA RowSettles ==
    ASSUME GroupInv, cursor = 0, quiet' = 0,
           UNCHANGED <<avail, cursor, now, lastSeen, deferred>>,
           submenu' \in BOOLEAN, BarOK(ui'), shift' \in [Abilities -> Int], WindowsPlaced',
           picked' \in [BarSlots -> Abilities \cup {None}],
           openRow' # None => RowOK(openRow') /\ InRow(openRow') \subseteq ui'.visible,
           activate' \in BarSlots \cup {None},
           activate' # None => ui'.shown[activate'] # None
    PROVE  GroupInv'
<1>1. GroupsTypeOK'
  BY GroupFacts DEF GroupsTypeOK, BarOK, RowOK
<1>2. DeferredIsThePick' /\ RowStands' /\ PickWaits'
  BY GroupFacts DEF DeferredIsThePick, RowStands, PickWaits
<1> QED BY <1>1, <1>2, Unsettled

LEMMA Waiting ==
    ASSUME GroupInv
    PROVE  /\ activate \in BarSlots \cup {None}
           /\ activate # None => ui.shown[activate] # None
BY GroupFacts DEF GroupsTypeOK, PickWaits

LEMMA KeySettles ==
    ASSUME GroupInv, NEW s \in BarSlots, Key(s)
    PROVE  GroupInv'
<1>1. /\ cursor = 0 /\ quiet' = 0
      /\ UNCHANGED <<avail, cursor, now, lastSeen, activate, deferred>>
  BY DEF Key, Counted
<1>2. CASE openRow # None
  <2> DEFINE isOpen == openRow.slot # s /\ ui.shown[s] # None /\ Activated(FALSE, ui.shown[s])
  <2>1. Close(None, isOpen) /\ isOpen \in BOOLEAN
    BY <1>2 DEF Key, Activated
  <2>2. None \in InRow(openRow) \cup {None}
    OBVIOUS
  <2> HIDE DEF isOpen
  <2>3. /\ openRow' = None /\ submenu' \in BOOLEAN /\ BarOK(ui')
        /\ shift' \in [Abilities -> Int] /\ WindowsPlaced'
        /\ picked' \in [BarSlots -> Abilities \cup {None}]
        /\ \A t \in BarSlots : ui.shown[t] # None => ui'.shown[t] # None
    BY <1>2, <2>1, <2>2, RowCloses
  <2> QED BY <1>1, <2>3, Waiting, RowSettles
<1>3. CASE openRow = None /\ Group(s)
  <2>1. Open(s) /\ picked' = picked
    BY <1>3 DEF Key
  <2> QED BY <1>1, <1>3, <2>1, RowOpens, GroupFacts, Waiting, RowSettles DEF GroupsTypeOK
<1>4. CASE openRow = None /\ ~Group(s)
  <2>1. UNCHANGED <<shift, labels, picked, openRow, ui>> /\ submenu' \in BOOLEAN
    BY <1>4, GroupFacts DEF Key, NoRowChange, Activated, GroupsTypeOK
  <2>2. shift' \in [Abilities -> Int] /\ picked' \in [BarSlots -> Abilities \cup {None}]
        /\ WindowsPlaced' /\ BarOK(ui')
    BY <2>1, GroupFacts DEF GroupsTypeOK, WindowsPlaced
  <2> QED BY <1>1, <1>4, <2>1, <2>2, Waiting, RowSettles
<1> QED BY <1>2, <1>3, <1>4

LEMMA ClickSettlesRow ==
    ASSUME GroupInv, NEW b \in Abilities \cup {None}, ClickEntry(b)
    PROVE  GroupInv'
<1>1. /\ cursor = 0 /\ quiet' = 0
      /\ UNCHANGED <<avail, cursor, now, lastSeen, activate, deferred>>
  BY DEF ClickEntry, Counted
<1>2. CASE openRow # None
  <2> DEFINE isOpen == b # None /\ Activated(FALSE, b)
             pick == IF b \in InRow(openRow) THEN b ELSE None
  <2>1. Close(pick, isOpen) /\ isOpen \in BOOLEAN /\ pick \in InRow(openRow) \cup {None}
    BY <1>2 DEF ClickEntry, Activated
  <2> HIDE DEF isOpen, pick
  <2>2. /\ openRow' = None /\ submenu' \in BOOLEAN /\ BarOK(ui')
        /\ shift' \in [Abilities -> Int] /\ WindowsPlaced'
        /\ picked' \in [BarSlots -> Abilities \cup {None}]
        /\ \A t \in BarSlots : ui.shown[t] # None => ui'.shown[t] # None
    BY <1>2, <2>1, RowCloses
  <2> QED BY <1>1, <2>2, Waiting, RowSettles
<1> DEFINE opens == b # None /\ ui.shown[SlotOf[b]] = b /\ Group(SlotOf[b])
<1>3. CASE openRow = None /\ opens
  <2>1. Open(SlotOf[b]) /\ picked' = picked /\ SlotOf[b] \in BarSlots
    BY <1>3, SlotKnown DEF ClickEntry
  <2> QED BY <1>1, <1>3, <2>1, RowOpens, GroupFacts, Waiting, RowSettles DEF GroupsTypeOK
<1>4. CASE openRow = None /\ ~opens
  <2>1. UNCHANGED <<shift, labels, picked, openRow, ui>> /\ submenu' \in BOOLEAN
    BY <1>4, GroupFacts DEF ClickEntry, NoRowChange, Activated, GroupsTypeOK
  <2>2. shift' \in [Abilities -> Int] /\ picked' \in [BarSlots -> Abilities \cup {None}]
        /\ WindowsPlaced' /\ BarOK(ui')
    BY <2>1, GroupFacts DEF GroupsTypeOK, WindowsPlaced
  <2> QED BY <1>1, <1>4, <2>1, <2>2, Waiting, RowSettles
<1> QED BY <1>2, <1>3, <1>4

LEMMA OrderPressKeeps ==
    ASSUME GroupInv, NEW c \in RowCells, OrderPress(c)
    PROVE  GroupInv'
<1>1. /\ openRow # None /\ cursor = 0 /\ RowOK(openRow)
      /\ openRow' = [openRow EXCEPT !.pressed = @ \cup {c}]
      /\ UNCHANGED <<avail, cursor, ui, shift, submenu, labels, now, lastSeen, picked, activate,
                     deferred, quiet>>
  BY GroupFacts DEF OrderPress
<1>2. RowOK(openRow') /\ openRow'.slot = openRow.slot /\ openRow'.available = openRow.available
  BY <1>1 DEF RowOK, Rows
<1>3. openRow' # None /\ InRow(openRow') = InRow(openRow)
  BY <1>2, NoneIsApart DEF RowOK, InRow
<1>4. GroupsTypeOK'
  BY <1>1, <1>2, GroupFacts DEF GroupsTypeOK, RowOK
<1>5. WindowsComeHome' /\ NoSlotConflict' /\ SlotShowsItsAbility' /\ DeferredIsThePick'
  BY <1>1, <1>3 DEF GroupInv, AbilityRowSound, WindowsComeHome, NoSlotConflict,
                    SlotShowsItsAbility, DeferredIsThePick
<1>6. RowIsCurrent'
  BY <1>1, <1>2, <1>3 DEF GroupInv, AbilityRowSound, RowIsCurrent
<1>7. FrameRecorded' /\ RowStands' /\ PickWaits' /\ VisibleServed' /\ SlotsServed'
  BY <1>1, <1>3 DEF GroupInv, FrameRecorded, RowStands, PickWaits, VisibleServed, SlotsServed
<1> QED BY <1>4, <1>5, <1>6, <1>7 DEF GroupInv, AbilityRowSound

LEMMA OrderReleaseSettles ==
    ASSUME GroupInv, NEW c \in RowCells, OrderRelease(c)
    PROVE  GroupInv'
<1>1. PICK a \in EntryAt(c) : Close(a, FALSE)
  BY DEF OrderRelease
<1>2. /\ openRow # None /\ cursor = 0 /\ quiet' = 0 /\ activate' = openRow.slot
      /\ UNCHANGED <<avail, cursor, now, lastSeen, deferred>>
  BY DEF OrderRelease, Counted
<1>3. a \in InRow(openRow) /\ a # None /\ openRow.slot \in BarSlots
  BY <1>2, GroupFacts, NoneIsApart DEF EntryAt, RowOK, Rows, InRow
<1>4. /\ openRow' = None /\ submenu' \in BOOLEAN /\ BarOK(ui')
      /\ shift' \in [Abilities -> Int] /\ WindowsPlaced'
      /\ picked' \in [BarSlots -> Abilities \cup {None}]
      /\ ui'.shown[openRow.slot] = a
  BY <1>1, <1>2, <1>3, RowCloses
<1> QED BY <1>2, <1>3, <1>4, RowSettles

LEMMA GameClearsKeeps ==
    ASSUME GroupInv, GameClears
    PROVE  GroupInv'
<1>1. cursor = 0 /\ submenu' = FALSE
      /\ UNCHANGED <<avail, cursor, ui, shift, labels, now, lastSeen, picked, openRow, activate,
                     deferred, quiet>>
  BY DEF GameClears, pluginVars
<1>2. AbilityRowSound'
  BY <1>1 DEF GroupInv, AbilityRowSound, GroupsTypeOK, WindowsComeHome, NoSlotConflict,
              SlotShowsItsAbility, DeferredIsThePick, RowIsCurrent
<1>3. FrameRecorded' /\ RowStands' /\ PickWaits' /\ VisibleServed' /\ SlotsServed'
  BY <1>1, AbilitiesGiven DEF GroupInv, FrameRecorded, RowStands, PickWaits, VisibleServed,
              SlotsServed
<1> QED BY <1>2, <1>3 DEF GroupInv

LEMMA AbilitiesChangeUnsettles ==
    ASSUME GroupInv, AbilitiesChange
    PROVE  GroupInv'
<1>1. cursor = 0 /\ quiet' = 0 /\ avail' \in SUBSET Abilities
      /\ UNCHANGED <<cursor, ui, shift, submenu, labels, now, lastSeen, picked, openRow,
                     activate, deferred>>
  BY DEF AbilitiesChange, pluginVars
<1>2. GroupsTypeOK' /\ BarOK(ui') /\ WindowsPlaced' /\ DeferredIsThePick' /\ PickWaits'
  BY <1>1, GroupFacts DEF GroupsTypeOK, WindowsPlaced, DeferredIsThePick, PickWaits
<1>3. RowStands'
  BY <1>1, GroupFacts, AbilitiesGiven DEF RowStands
<1> QED BY <1>1, <1>2, <1>3, Unsettled

(* A selection change or a new bar: nothing is shown, nothing visible.      *)
LEMMA ResetBar ==
    ASSUME NEW u, BarOK(u)
    PROVE  BarOK(StockReset(u))
<1> DEFINE v == StockReset(u)
<1>0. v = [u EXCEPT !.shown = [s \in BarSlots |-> None], !.visible = {}]
  BY DEF StockReset
<1> HIDE DEF v
<1>1. /\ v = [shown |-> v.shown, visible |-> v.visible, clash |-> v.clash]
      /\ v.shown = [s \in BarSlots |-> None] /\ v.visible = {} /\ v.clash = u.clash
  BY <1>0 DEF BarOK
<1>2. v.shown \in [BarSlots -> Abilities \cup {None}] /\ v.visible \in SUBSET Abilities
  BY <1>1
<1>3. v \in [shown : [BarSlots -> Abilities \cup {None}], visible : SUBSET Abilities,
              clash : BOOLEAN]
  BY <1>1, <1>2 DEF BarOK
<1> QED BY <1>1, <1>3 DEF BarOK, v

LEMMA ResetSettles ==
    ASSUME GroupInv, Reset
    PROVE  GroupInv'
<1>1. /\ cursor = 0 /\ quiet' = 0 /\ avail' \in SUBSET Abilities /\ activate' = None
      /\ openRow' = None /\ labels' = {} /\ BarOK(ui')
      /\ UNCHANGED <<cursor, now, lastSeen, picked, deferred>>
  BY GroupFacts, ResetBar DEF Reset, Forgotten
<1>2. shift' = [a \in Abilities |-> 0]
  <2>1. CASE openRow = None
    BY <2>1, GroupFacts DEF Reset, WindowsPlaced, GroupsTypeOK
  <2>2. CASE openRow # None
    BY <2>2, RestoredHome DEF Reset
  <2> QED BY <2>1, <2>2
<1>3. submenu' \in BOOLEAN
  BY GroupFacts DEF Reset, GroupsTypeOK
<1>4. GroupsTypeOK'
  BY <1>1, <1>2, <1>3, GroupFacts DEF GroupsTypeOK, BarOK
<1>5. WindowsPlaced' /\ DeferredIsThePick' /\ RowStands' /\ PickWaits'
  BY <1>1, <1>2, GroupFacts DEF WindowsPlaced, DeferredIsThePick, RowStands, PickWaits
<1> QED BY <1>1, <1>4, <1>5, Unsettled

LEMMA DestroySettles ==
    ASSUME GroupInv, Destroy
    PROVE  GroupInv'
<1>1. /\ cursor = 0 /\ quiet' = 0 /\ avail' = {} /\ activate' = None
      /\ openRow' = None /\ labels' = {} /\ BarOK(ui') /\ submenu' = FALSE
      /\ shift' = [a \in Abilities |-> 0] /\ now' = [s \in BarSlots |-> {}]
      /\ lastSeen' = [s \in BarSlots |-> {}] /\ picked' = [s \in BarSlots |-> None]
      /\ UNCHANGED <<cursor, deferred>>
  BY GroupFacts, ResetBar DEF Destroy
<1>2. GroupsTypeOK'
  <2>1. /\ now' \in [BarSlots -> SUBSET Abilities] /\ lastSeen' \in [BarSlots -> SUBSET Abilities]
        /\ \A s \in BarSlots : now'[s] = {} /\ lastSeen'[s] = {}
        /\ picked' \in [BarSlots -> Abilities \cup {None}] /\ shift' \in [Abilities -> Int]
    BY <1>1
  <2>2. cursor' \in Abilities /\ avail' \subseteq Abilities /\ quiet' \in 0..2
    BY <1>1, GroupFacts DEF GroupsTypeOK
  <2> QED BY <1>1, <2>1, <2>2 DEF GroupsTypeOK, BarOK
<1>3. WindowsPlaced' /\ DeferredIsThePick' /\ RowStands' /\ PickWaits'
  BY <1>1, GroupFacts DEF WindowsPlaced, DeferredIsThePick, RowStands, PickWaits
<1> QED BY <1>1, <1>2, <1>3, Unsettled
-----------------------------------------------------------------------------
(* A frame: each ability's update. *)

(* The submenu as an update finds it, after a pick waiting for the frame.   *)
OpenAtUpdate ==
    IF Pending(cursor) THEN Activated(submenu, ui.shown[activate]) ELSE submenu

RecordOK(f) ==
    /\ f \in [BarSlots -> SUBSET Abilities]
    /\ \A s \in BarSlots : f[s] \subseteq Of(s, Abilities)

(* The frame's record is of the abilities that had their turn, and when the *)
(* frame is over of all the squads have.                                    *)
LEMMA FrameNoted ==
    ASSUME GroupInv
    PROVE  LET n == Noted(cursor, now)
           IN  /\ RecordOK(n)
               /\ \A s \in BarSlots : n[s] = {b \in Of(s, avail) : b < cursor + 1}
               /\ cursor = AbilityCount - 1 => \A s \in BarSlots : n[s] = Of(s, avail)
               /\ cursor = 0 => Noted(cursor, n) = n
<1> DEFINE m == IF cursor = 0 THEN [s \in BarSlots |-> {}] ELSE now
           n == Noted(cursor, now)
<1>1. cursor \in Abilities /\ avail \subseteq Abilities /\ RecordOK(now) /\ AbilityCount \in Nat
  BY GroupFacts, AbilitiesGiven DEF GroupsTypeOK, RecordOK
<1>2. SlotOf[cursor] \in BarSlots /\ cursor \in Int /\ cursor >= 0
  BY <1>1, SlotKnown DEF Abilities
<1>3. RecordOK(m) /\ \A s \in BarSlots : m[s] = {b \in Of(s, avail) : b < cursor}
  <2>1. CASE cursor = 0
    <3>1. \A b \in Abilities : ~(b < cursor)
      BY <2>1, AbilitiesGiven DEF Abilities
    <3>2. \A s \in BarSlots : {b \in Of(s, avail) : b < cursor} = {}
      BY <1>1, <3>1 DEF Of
    <3>3. \A s \in BarSlots : m[s] = {}
      BY <2>1
    <3> QED BY <2>1, <3>2, <3>3 DEF RecordOK
  <2>2. CASE cursor > 0
    BY <1>1, <2>2 DEF GroupInv, FrameRecorded
  <2> QED BY <1>2, <2>1, <2>2
<1>4. n = IF cursor \in avail THEN [m EXCEPT ![SlotOf[cursor]] = @ \cup {cursor}] ELSE m
  BY DEF Noted
<1> HIDE DEF m, n
<1>5. \A s \in BarSlots :
         n[s] = IF cursor \in avail /\ s = SlotOf[cursor] THEN m[s] \cup {cursor} ELSE m[s]
  BY <1>2, <1>3, <1>4 DEF RecordOK
<1>6. n \in [BarSlots -> SUBSET Abilities]
  BY <1>1, <1>2, <1>3, <1>4 DEF RecordOK
<1>7. ASSUME NEW s \in BarSlots PROVE n[s] = {b \in Of(s, avail) : b < cursor + 1}
  <2>1. \A b \in Abilities : b < cursor + 1 <=> b < cursor \/ b = cursor
    BY <1>1, <1>2 DEF Abilities
  <2>2. Of(s, avail) \subseteq Abilities
    BY <1>1 DEF Of
  <2> QED BY <1>1, <1>3, <1>5, <2>1, <2>2 DEF Of
<1>8. RecordOK(n)
  BY <1>1, <1>6, <1>7 DEF RecordOK, Of
<1>9. cursor = AbilityCount - 1 => \A s \in BarSlots : n[s] = Of(s, avail)
  <2>1. ASSUME cursor = AbilityCount - 1, NEW b \in Abilities PROVE b < cursor + 1
    BY <1>1, <2>1 DEF Abilities
  <2> QED BY <1>1, <1>7, <2>1 DEF Of
<1>10. cursor = 0 => Noted(cursor, n) = n
  BY DEF Noted, n
<1> QED BY <1>7, <1>8, <1>9, <1>10 DEF n

(* The last frame's record is of all the squads have, once a frame passed   *)
(* without a change.                                                        *)
LEMMA LastTurned ==
    ASSUME GroupInv
    PROVE  LET l == Turned(cursor, now, lastSeen)
           IN  /\ RecordOK(l)
               /\ quiet > 0 => \A s \in BarSlots : l[s] = Of(s, avail)
<1>1. cursor \in Abilities /\ RecordOK(now) /\ RecordOK(lastSeen)
  BY GroupFacts DEF GroupsTypeOK, RecordOK
<1>2. CASE cursor = 0
  BY <1>1, <1>2 DEF Turned, GroupInv, FrameRecorded
<1>3. CASE cursor > 0
  BY <1>1, <1>3 DEF Turned, GroupInv, FrameRecorded
<1> QED BY <1>1, <1>2, <1>3 DEF Abilities

(* What every update does: the pick waiting is activated, and the next      *)
(* ability's turn comes.                                                    *)
LEMMA UpdateBegins ==
    ASSUME GroupInv, NEW left \in BOOLEAN, RowUpdate(left)
    PROVE  /\ activate' = None /\ DeferredIsThePick' /\ PickWaits'
           /\ cursor \in Abilities /\ cursor' \in Abilities
           /\ cursor' = IF cursor = AbilityCount - 1 THEN 0 ELSE cursor + 1
           /\ cursor \in Int /\ cursor >= 0 /\ AbilityCount - 1 > 0
           /\ avail' = avail /\ OpenAtUpdate \in BOOLEAN
           /\ openRow # None /\ cursor > 0 => OpenAtUpdate
           /\ quiet' = IF openRow # None /\ openRow' = None THEN 0
                       ELSE IF cursor' = 0 /\ quiet < 2 THEN quiet + 1 ELSE quiet
           /\ quiet \in 0..2 /\ quiet' \in 0..2
<1>1. cursor \in Abilities /\ quiet \in 0..2 /\ submenu \in BOOLEAN
  BY GroupFacts DEF GroupsTypeOK
<1>2. /\ cursor' = IF cursor = AbilityCount - 1 THEN 0 ELSE cursor + 1
      /\ cursor' \in Abilities /\ cursor \in Int /\ cursor >= 0 /\ AbilityCount - 1 > 0
  <2>1. cursor' = (cursor + 1) % AbilityCount
    BY DEF RowUpdate
  <2> QED BY <1>1, <2>1, NextTurn, AbilitiesGiven DEF Abilities
<1>3. /\ activate' = IF Pending(cursor) THEN None ELSE activate
      /\ deferred' = IF Pending(cursor)
                     THEN [slot |-> activate, ability |-> ui.shown[activate]] ELSE deferred
      /\ avail' = avail
      /\ quiet' = IF openRow # None /\ openRow' = None THEN 0
                  ELSE IF cursor' = 0 /\ quiet < 2 THEN quiet + 1 ELSE quiet
  BY DEF RowUpdate
<1>4. activate' = None /\ DeferredIsThePick' /\ PickWaits'
  BY <1>3, GroupFacts DEF Pending, DeferredIsThePick, PickWaits
<1>5. OpenAtUpdate \in BOOLEAN
  BY <1>1 DEF OpenAtUpdate, Activated
<1>6. openRow # None /\ cursor > 0 => OpenAtUpdate
  <2> SUFFICES ASSUME openRow # None, cursor > 0 PROVE OpenAtUpdate
    OBVIOUS
  <2>1. submenu
    BY GroupFacts DEF RowStands
  <2>2. ~Pending(cursor)
    BY <1>2 DEF Pending
  <2> QED BY <2>1, <2>2 DEF OpenAtUpdate
<1>7. quiet' \in 0..2
  BY <1>1, <1>3
<1> QED BY <1>1, <1>2, <1>3, <1>4, <1>5, <1>6, <1>7

(* The frame's record after an update, whatever it did to the row.          *)
LEMMA RecordKept ==
    ASSUME GroupInv, NEW left \in BOOLEAN, RowUpdate(left), now' = Noted(cursor, now),
           quiet' > 0 /\ cursor' > 0 => lastSeen' = Turned(cursor, now, lastSeen)
    PROVE  /\ FrameRecorded' /\ RecordOK(now')
           /\ cursor' = 0 => \A s \in BarSlots : now'[s] = Of(s, avail)
<1>1. RecordOK(now') /\ (\A s \in BarSlots : now'[s] = {b \in Of(s, avail) : b < cursor + 1})
      /\ (cursor = AbilityCount - 1 => \A s \in BarSlots : now'[s] = Of(s, avail))
  BY FrameNoted
<1>2. cursor' = 0 => \A s \in BarSlots : now'[s] = Of(s, avail)
  BY <1>1, UpdateBegins
<1>3. cursor' > 0 => cursor' = cursor + 1
  BY UpdateBegins
<1>4. cursor' > 0 /\ quiet' > 0 => \A s \in BarSlots : lastSeen'[s] = Of(s, avail)
  <2>1. cursor' > 0 /\ quiet' > 0 => quiet > 0
    BY UpdateBegins
  <2> QED BY <2>1, LastTurned
<1> QED BY <1>1, <1>2, <1>3, <1>4, UpdateBegins DEF FrameRecorded

(* Without a row the update serves one ability. *)
LEMMA ServedUpdate ==
    ASSUME GroupInv, NEW left \in BOOLEAN, RowUpdate(left), openRow = None
    PROVE  GroupInv'
<1> DEFINE a == cursor
           l == Turned(cursor, now, lastSeen)
           w == Desired(l[SlotOf[a]], picked[SlotOf[a]])
<1>1. /\ ui' = Serve(ui, l[SlotOf[a]], picked[SlotOf[a]], a, a \in avail)
      /\ submenu' = OpenAtUpdate /\ lastSeen' = l /\ now' = Noted(cursor, now)
      /\ UNCHANGED <<shift, labels, picked, openRow>>
  BY DEF RowUpdate, OpenAtUpdate
<1>2. /\ FrameRecorded' /\ RecordOK(now')
  BY <1>1, RecordKept
<1>3. RecordOK(l) /\ (quiet > 0 => \A s \in BarSlots : l[s] = Of(s, avail))
  BY LastTurned
<1> HIDE DEF l
<1>4. a \in Abilities /\ SlotOf[a] \in BarSlots /\ picked[SlotOf[a]] \in Abilities \cup {None}
      /\ l[SlotOf[a]] \in SUBSET Abilities /\ a # None
  BY <1>3, UpdateBegins, SlotKnown, GroupFacts, NoneIsApart DEF GroupsTypeOK, RecordOK
<1>5. ServedBar(ui, ui', a, w, avail)
  <2>1. avail \in SUBSET Abilities
    BY GroupFacts DEF GroupsTypeOK
  <2> QED BY <1>1, <1>4, <2>1, GroupFacts, Served
<1>6. BarOK(ui')
  BY <1>5 DEF ServedBar
<1>7. GroupsTypeOK'
  BY <1>1, <1>2, <1>3, <1>6, UpdateBegins, GroupFacts DEF GroupsTypeOK, BarOK, RecordOK
<1>8. VisibleServed'
  <2> SUFFICES ASSUME NEW b \in ui'.visible, cursor' = 0 \/ b < cursor'
               PROVE  ui'.shown[SlotOf[b]] = b
    BY DEF VisibleServed
  <2>1. b \in Abilities /\ (b = a \/ b \in ui.visible)
    BY <1>5 DEF ServedBar, BarOK
  <2>2. CASE b = a
    BY <1>5, <2>2 DEF ServedBar
  <2>3. CASE b # a
    <3>1. b < cursor /\ cursor > 0
      BY <2>1, <2>3, UpdateBegins DEF Abilities
    <3>2. ui.shown[SlotOf[b]] = b
      BY <1>1, <2>1, <2>3, <3>1 DEF GroupInv, VisibleServed
    <3> QED BY <1>5, <2>3, <3>2 DEF ServedBar
  <2> QED BY <2>2, <2>3
<1>9. ASSUME quiet > 0, NEW b \in Abilities, b <= cursor
      PROVE  ui'.shown[SlotOf[b]] = b <=> Wanted(SlotOf[b]) = b
  <2>1. w = Wanted(SlotOf[a]) /\ Of(SlotOf[a], avail) \in SUBSET Abilities
    BY <1>3, <1>4, <1>9 DEF Wanted, RecordOK
  <2>2. w \in Of(SlotOf[a], avail) \cup {None} /\ (w = None <=> Of(SlotOf[a], avail) = {})
    BY <1>4, <2>1, DesiredChosen DEF Wanted
  <2>3. w # a => a \notin avail \/ w \notin {None, a}
    BY <2>2 DEF Of
  <2>4. w = a => a \in avail
    BY <1>4, <2>2 DEF Of
  <2>5. ui'.shown[SlotOf[a]] = a <=> w = a
    BY <1>4, <1>5, <2>3, <2>4 DEF ServedBar
  <2>6. CASE b = a
    BY <2>1, <2>5, <2>6
  <2>7. CASE b # a
    <3>1. b < cursor /\ cursor > 0 /\ SlotOf[b] \in BarSlots /\ b # None
      BY <1>9, <2>7, UpdateBegins, SlotKnown, NoneIsApart DEF Abilities
    <3>2. ui.shown[SlotOf[b]] = b <=> Wanted(SlotOf[b]) = b
      BY <1>1, <1>9, <3>1 DEF GroupInv, SlotsServed
    <3>3. CASE SlotOf[b] # SlotOf[a]
      BY <1>5, <3>1, <3>2, <3>3 DEF ServedBar
    <3>4. CASE SlotOf[b] = SlotOf[a] /\ w = a
      BY <2>1, <2>5, <2>7, <3>4
    <3>5. CASE SlotOf[b] = SlotOf[a] /\ w # a
      <4>1. ui'.shown[SlotOf[a]] = IF ui.shown[SlotOf[a]] = a THEN None
                                   ELSE ui.shown[SlotOf[a]]
        BY <1>5, <2>3, <3>5 DEF ServedBar
      <4> QED BY <2>7, <3>1, <3>2, <3>5, <4>1
    <3> QED BY <3>3, <3>4, <3>5
  <2> QED BY <2>6, <2>7
<1>10. avail' = avail /\ picked' = picked /\ \A s : Wanted(s)' = Wanted(s)
  BY <1>1, UpdateBegins DEF Wanted
<1>11. SlotsServed'
  <2> SUFFICES ASSUME cursor' > 0, quiet' > 0, NEW b \in Abilities, b < cursor'
               PROVE  ui'.shown[SlotOf[b]] = b <=> Wanted(SlotOf[b]) = b
    BY <1>10 DEF SlotsServed
  <2>1. quiet > 0 /\ b <= cursor
    BY UpdateBegins DEF Abilities
  <2> QED BY <1>9, <2>1
<1>12. SlotShowsItsAbility'
  <2> SUFFICES ASSUME cursor' = 0, quiet' = 2, NEW s \in BarSlots
               PROVE  ui'.shown[s] = Wanted(s)
    BY <1>10 DEF SlotShowsItsAbility, Wanted
  <2>1. quiet > 0 /\ \A b \in Abilities : b <= cursor
    BY <1>1, UpdateBegins DEF Abilities
  <2>2. \A b \in Abilities : ui'.shown[SlotOf[b]] = b <=> Wanted(SlotOf[b]) = b
    BY <1>9, <2>1
  <2>3. ui'.shown[s] \in Of(s, Abilities) \cup {None}
    BY <1>6 DEF BarOK
  <2>4. Wanted(s) \in Of(s, Abilities) \cup {None}
    <3>1. Of(s, avail) \in SUBSET Abilities /\ picked[s] \in Abilities \cup {None}
      BY GroupFacts DEF GroupsTypeOK, Of
    <3>2. Wanted(s) \in Of(s, avail) \cup {None}
      BY <3>1, DesiredChosen DEF Wanted
    <3> QED BY <3>1, <3>2 DEF Of
  <2> QED BY <2>2, <2>3, <2>4 DEF Of
<1>13. WindowsComeHome' /\ NoSlotConflict' /\ RowIsCurrent' /\ RowStands'
  <2>1. WindowsPlaced'
    BY <1>1, GroupFacts DEF WindowsPlaced
  <2> QED BY <1>1, <1>6, <1>8, <2>1 DEF WindowsComeHome, WindowsPlaced, BarOK, VisibleServed,
                   NoSlotConflict, RowIsCurrent, RowStands
<1> QED BY <1>2, <1>7, <1>8, <1>11, <1>12, <1>13, UpdateBegins DEF GroupInv, AbilityRowSound

(* The game cleared the submenu: only the first ability's update of a frame *)
(* can find that, which closes the row and is served.                       *)
LEMMA ClearedUpdate ==
    ASSUME GroupInv, NEW left \in BOOLEAN, RowUpdate(left), openRow # None,
           ~OpenAtUpdate, ~left
    PROVE  GroupInv'
<1> DEFINE n == Noted(cursor, now)
           u == ClosedUi(ui, openRow, None)
<1>1. cursor = 0 /\ cursor' = 1
  BY UpdateBegins
<1>2. UpdateServed(cursor, n, Turned(cursor, now, lastSeen))
  BY DEF RowUpdate, OpenAtUpdate
<1>3. /\ openRow' = None /\ shift' = [a \in Abilities |-> 0] /\ labels' = {}
      /\ submenu' = FALSE /\ now' = Noted(cursor, n) /\ lastSeen' = n /\ picked' = picked
      /\ ui' = Serve(u, lastSeen'[SlotOf[cursor]], picked[SlotOf[cursor]], cursor,
                     cursor \in avail)
  BY <1>1, <1>2, RestoredHome DEF UpdateServed, Turned
<1>4. quiet' = 0 /\ now' = n /\ RecordOK(n)
  BY <1>1, <1>3, UpdateBegins, FrameNoted
<1>5. FrameRecorded' /\ RecordOK(now') /\ RecordOK(lastSeen')
  BY <1>3, <1>4, RecordKept
<1>6. BarOK(u)
  <2>1. RowOK(openRow) /\ BarOK(ui) /\ InRow(openRow) \subseteq ui.visible
    BY GroupFacts DEF RowStands
  <2> QED BY <2>1, ClosedBar
<1> HIDE DEF n, u
<1>7. /\ cursor \in Abilities /\ picked[SlotOf[cursor]] \in Abilities \cup {None}
      /\ lastSeen'[SlotOf[cursor]] \in SUBSET Abilities
  BY <1>5, UpdateBegins, SlotKnown, GroupFacts DEF GroupsTypeOK, RecordOK
<1>8. ServedBar(u, ui', cursor, Desired(lastSeen'[SlotOf[cursor]], picked[SlotOf[cursor]]),
                avail)
  <2>1. avail \in SUBSET Abilities
    BY GroupFacts DEF GroupsTypeOK
  <2> QED BY <1>3, <1>6, <1>7, <2>1, Served
<1>9. BarOK(ui') /\ (0 \in ui'.visible => ui'.shown[SlotOf[0]] = 0)
  BY <1>1, <1>8 DEF ServedBar
<1>10. GroupsTypeOK'
  <2>1. shift' \in [Abilities -> Int]
    <3>1. shift' = [a \in Abilities |-> 0]
      BY <1>3
    <3> QED BY <3>1
  <2>3. submenu' \in BOOLEAN
    <3>1. submenu' = FALSE
      BY <1>3
    <3> QED BY <3>1
  <2>2. picked' \in [BarSlots -> Abilities \cup {None}] /\ avail' \subseteq Abilities
    BY <1>3, UpdateBegins, GroupFacts DEF GroupsTypeOK
  <2> QED BY <1>3, <1>5, <1>9, <2>1, <2>2, <2>3, UpdateBegins DEF GroupsTypeOK, BarOK, RecordOK
<1>11. VisibleServed'
  <2>1. \A b \in Abilities : b < 1 => b = 0
    BY AbilitiesGiven DEF Abilities
  <2> QED BY <1>1, <1>9, <2>1 DEF VisibleServed, BarOK
<1>12. WindowsComeHome' /\ NoSlotConflict' /\ SlotShowsItsAbility' /\ RowIsCurrent'
       /\ RowStands' /\ SlotsServed'
  BY <1>1, <1>3, <1>4, <1>9 DEF WindowsComeHome, BarOK, NoSlotConflict, SlotShowsItsAbility,
     RowIsCurrent, RowStands, SlotsServed
<1> QED BY <1>5, <1>10, <1>11, <1>12, UpdateBegins DEF GroupInv, AbilityRowSound

(* A row that stays open holds the submenu open to the frame's end, and     *)
(* then offers what the squads have; the last ability's update closes it    *)
(* otherwise.                                                               *)
LEMMA HeldUpdate ==
    ASSUME GroupInv, NEW left \in BOOLEAN, RowUpdate(left), openRow # None,
           OpenAtUpdate \/ left
    PROVE  GroupInv'
<1> DEFINE n == Noted(cursor, now)
           l == Turned(cursor, now, lastSeen)
<1>1. UpdateRow(cursor, n, l, OpenAtUpdate, left)
  BY DEF RowUpdate, OpenAtUpdate
<1>2. now' = n /\ lastSeen' = l
  BY <1>1 DEF UpdateRow
<1>3. FrameRecorded' /\ RecordOK(now') /\ RecordOK(lastSeen')
      /\ (cursor' = 0 => \A s \in BarSlots : n[s] = Of(s, avail))
  BY <1>2, RecordKept, LastTurned
<1> HIDE DEF n, l
<1>4. CASE OpenAtUpdate /\ RowChanged(cursor, n)
  <2>1. Close(None, FALSE) /\ cursor' = 0
    BY <1>1, <1>4, UpdateBegins DEF UpdateRow, RowChanged
  <2>2. None \in InRow(openRow) \cup {None} /\ FALSE \in BOOLEAN
    OBVIOUS
  <2>3. /\ openRow' = None /\ submenu' \in BOOLEAN /\ BarOK(ui')
        /\ shift' \in [Abilities -> Int] /\ WindowsPlaced'
        /\ picked' \in [BarSlots -> Abilities \cup {None}]
    BY <2>1, <2>2, RowCloses
  <2>4. quiet' = 0 /\ RowStands'
    BY <2>3, UpdateBegins DEF RowStands
  <2>5. GroupsTypeOK'
    BY <1>3, <2>3, UpdateBegins, GroupFacts DEF GroupsTypeOK, BarOK, RecordOK
  <2> QED BY <2>1, <2>3, <2>4, <2>5, UpdateBegins, Unsettled
<1>5. CASE ~(OpenAtUpdate /\ RowChanged(cursor, n))
  <2>1. submenu' = TRUE /\ UNCHANGED <<ui, shift, labels, picked, openRow>>
    BY <1>1, <1>5, UpdateBegins DEF UpdateRow
  <2>2. GroupsTypeOK'
    BY <1>3, <2>1, UpdateBegins, GroupFacts DEF GroupsTypeOK, RecordOK
  <2>3. BarOK(ui') /\ WindowsPlaced' /\ RowStands'
    BY <2>1, GroupFacts DEF WindowsPlaced, RowStands
  <2>4. RowIsCurrent'
    <3> SUFFICES ASSUME cursor' = 0 PROVE openRow.available = Of(openRow.slot, avail)
      BY <2>1, UpdateBegins DEF RowIsCurrent
    <3>1. cursor = AbilityCount - 1 /\ OpenAtUpdate
      BY UpdateBegins
    <3>2. openRow.slot \in BarSlots
      BY GroupFacts DEF RowOK, Rows
    <3> QED BY <1>3, <1>5, <3>1, <3>2 DEF RowChanged
  <2>5. WindowsComeHome' /\ NoSlotConflict' /\ SlotShowsItsAbility' /\ VisibleServed'
        /\ SlotsServed'
    BY <2>1, <2>3 DEF WindowsComeHome, WindowsPlaced, BarOK, NoSlotConflict,
       SlotShowsItsAbility, VisibleServed, SlotsServed
  <2> QED BY <1>3, <2>2, <2>3, <2>4, <2>5, UpdateBegins DEF GroupInv, AbilityRowSound
<1> QED BY <1>4, <1>5
-----------------------------------------------------------------------------
LEMMA GroupStarts ==
    ASSUME GroupInit
    PROVE  GroupInv
<1>1. /\ avail = {} /\ cursor = 0 /\ quiet = 0 /\ labels = {} /\ openRow = None
      /\ ui = [shown |-> [s \in BarSlots |-> None], visible |-> {}, clash |-> FALSE]
      /\ shift = [a \in Abilities |-> 0] /\ submenu = FALSE
      /\ now = [s \in BarSlots |-> {}] /\ lastSeen = [s \in BarSlots |-> {}]
      /\ picked = [s \in BarSlots |-> None] /\ activate = None /\ deferred = None
  BY DEF GroupInit
<1>2. GroupsTypeOK
  <2>1. /\ now \in [BarSlots -> SUBSET Abilities] /\ lastSeen \in [BarSlots -> SUBSET Abilities]
        /\ \A s \in BarSlots : now[s] = {} /\ lastSeen[s] = {} /\ ui.shown[s] = None
        /\ picked \in [BarSlots -> Abilities \cup {None}] /\ shift \in [Abilities -> Int]
        /\ cursor \in Abilities /\ quiet \in 0..2
    BY <1>1, AbilitiesGiven DEF Abilities
  <2>2. ui \in [shown : [BarSlots -> Abilities \cup {None}], visible : SUBSET Abilities,
                clash : BOOLEAN]
    BY <1>1
  <2> QED BY <1>1, <2>1, <2>2 DEF GroupsTypeOK
<1>3. WindowsComeHome /\ NoSlotConflict /\ SlotShowsItsAbility /\ DeferredIsThePick
      /\ RowIsCurrent
  BY <1>1 DEF WindowsComeHome, NoSlotConflict, SlotShowsItsAbility, DeferredIsThePick,
              RowIsCurrent
<1>4. FrameRecorded /\ RowStands /\ PickWaits /\ VisibleServed /\ SlotsServed
  BY <1>1 DEF FrameRecorded, RowStands, PickWaits, VisibleServed, SlotsServed
<1> QED BY <1>2, <1>3, <1>4 DEF GroupInv, AbilityRowSound

LEMMA GroupSteps ==
    ASSUME GroupInv, GroupNext
    PROVE  GroupInv'
<1>1. ASSUME NEW left \in BOOLEAN, RowUpdate(left) PROVE GroupInv'
  BY <1>1, ServedUpdate, ClearedUpdate, HeldUpdate
<1>2. ASSUME NEW s \in BarSlots, Key(s) PROVE GroupInv'
  BY <1>2, KeySettles
<1>3. ASSUME NEW b \in Abilities \cup {None}, ClickEntry(b) PROVE GroupInv'
  BY <1>3, ClickSettlesRow
<1>4. ASSUME NEW c \in RowCells, OrderPress(c) \/ OrderRelease(c) PROVE GroupInv'
  BY <1>4, OrderPressKeeps, OrderReleaseSettles
<1>5. CASE GameClears \/ AbilitiesChange \/ Reset \/ Destroy
  BY <1>5, GameClearsKeeps, AbilitiesChangeUnsettles, ResetSettles, DestroySettles
<1> QED BY <1>1, <1>2, <1>3, <1>4, <1>5 DEF GroupNext

LEMMA GroupStutters ==
    ASSUME GroupInv, UNCHANGED groupVars
    PROVE  GroupInv'
<1>1. UNCHANGED <<avail, cursor, ui, shift, submenu, labels, now, lastSeen, picked, openRow,
                  activate, deferred, quiet>>
  BY DEF groupVars
<1>2. AbilityRowSound'
  BY <1>1 DEF GroupInv, AbilityRowSound, GroupsTypeOK, WindowsComeHome, NoSlotConflict,
              SlotShowsItsAbility, DeferredIsThePick, RowIsCurrent
<1>3. FrameRecorded' /\ RowStands' /\ PickWaits' /\ VisibleServed' /\ SlotsServed'
  BY <1>1 DEF GroupInv, FrameRecorded, RowStands, PickWaits, VisibleServed, SlotsServed, Wanted
<1> QED BY <1>2, <1>3 DEF GroupInv

(* The ability row is the selection's own, for any abilities, slots and     *)
(* cells and however keys, clicks, selections and the game's own clearing   *)
(* of submenus fall between frames (update, key, click, order_key, reset).  *)
THEOREM AbilityRowIsSound == GroupSpec => []AbilityRowSound
<1>1. GroupInit => GroupInv
  BY GroupStarts
<1>2. GroupInv /\ [GroupNext]_groupVars => GroupInv'
  BY GroupSteps, GroupStutters
<1>3. GroupInv => AbilityRowSound
  BY DEF GroupInv
<1> QED BY <1>1, <1>2, <1>3, PTL DEF GroupSpec
-----------------------------------------------------------------------------
(* Experience levels. *)

(* A bounded set of numbers has its largest one. *)
LEMMA MaxExists ==
    ASSUME NEW set \in SUBSET Nat, set # {}, NEW bound \in Nat, \A k \in set : k <= bound
    PROVE  \E m \in set : \A k \in set : k <= m
<1> DEFINE Bounds == {n \in Nat : \A k \in set : k <= n}
<1>1. Bounds \in SUBSET Nat /\ Bounds # {}
  OBVIOUS
<1> HIDE DEF Bounds
<1>3. PICK m \in Bounds : \A n \in Bounds : m <= n
  BY <1>1, LeastExists
<1>4. m \in Nat /\ \A k \in set : k <= m
  BY DEF Bounds
<1>5. m \in set
  <2> SUFFICES ASSUME m \notin set PROVE FALSE
    OBVIOUS
  <2>1. \A k \in set : k < m
    BY <1>4
  <2>2. m > 0
    <3>1. PICK k \in set : TRUE
      OBVIOUS
    <3>2. k \in Nat /\ k < m
      BY <2>1
    <3> QED BY <1>4, <3>2
  <2>3. m - 1 \in Nat /\ \A k \in set : k <= m - 1
    BY <1>4, <2>1, <2>2
  <2>4. m - 1 \in Bounds
    BY <2>3 DEF Bounds
  <2>5. m <= m - 1
    BY <1>3, <2>4
  <2> QED BY <1>4, <2>5
<1> QED BY <1>4, <1>5

LEMMA MaxChosen ==
    ASSUME NEW set \in SUBSET Nat, set # {}, NEW bound \in Nat, \A k \in set : k <= bound
    PROVE  Max(set) \in set /\ \A k \in set : k <= Max(set)
<1>1. \E m \in set : \A k \in set : m >= k
  BY MaxExists
<1> QED BY <1>1 DEF Max

-----------------------------------------------------------------------------
Given(cells, k) == {j \in 1..k : cells[j] \notin {Blank, Empty}}

(* What a cell is parsed to: the last value given so far.                   *)
LEMMA ValueGiven ==
    ASSUME NEW cells, NEW k \in Nat
    PROVE  /\ Given(cells, k) # {} => /\ Max(Given(cells, k)) \in Given(cells, k)
                                      /\ \A j \in Given(cells, k) : j <= Max(Given(cells, k))
           /\ ValueAt(cells, k) = IF Given(cells, k) = {} THEN Default
                                  ELSE cells[Max(Given(cells, k))]
<1>1. Given(cells, k) \in SUBSET Nat /\ \A j \in Given(cells, k) : j <= k
  BY DEF Given
<1> QED BY <1>1, MaxChosen DEF ValueAt, Given

LEMMA ValueIsText ==
    ASSUME NEW cells \in Seq(Texts), NEW k \in 0..Len(cells)
    PROVE  ValueAt(cells, k) \in Texts
<1>1. k \in Nat /\ Given(cells, k) \subseteq 1..Len(cells)
  BY DEF Given
<1>2. CASE Given(cells, k) = {}
  <2>1. ValueAt(cells, k) = Default
    BY <1>1, <1>2, ValueGiven
  <2> QED BY <2>1 DEF Texts
<1>3. CASE Given(cells, k) # {}
  <2> DEFINE m == Max(Given(cells, k))
  <2>1. m \in 1..Len(cells) /\ ValueAt(cells, k) = cells[m]
    BY <1>1, <1>3, ValueGiven
  <2> HIDE DEF m
  <2>2. cells[m] \in Texts
    BY <2>1, ElementOfSeq
  <2> QED BY <2>1, <2>2
<1> QED BY <1>2, <1>3

(* It depends on the cells up to it only. *)
LEMMA ValueOfPrefix ==
    ASSUME NEW c, NEW d, NEW k \in Nat, \A j \in 1..k : c[j] = d[j]
    PROVE  ValueAt(c, k) = ValueAt(d, k)
<1>1. Given(c, k) = Given(d, k)
  BY DEF Given
<1>2. CASE Given(c, k) = {}
  BY <1>1, <1>2, ValueGiven
<1>3. CASE Given(c, k) # {}
  <2>1. Max(Given(c, k)) \in 1..k
    BY <1>3, ValueGiven DEF Given
  <2> QED BY <1>1, <1>3, <2>1, ValueGiven
<1> QED BY <1>2, <1>3

(* A window of cells that ends at a level shows the level's value if any    *)
(* cell of it has one.                                                      *)
LEMMA ValueInWindow ==
    ASSUME NEW row \in Seq(Texts), NEW level \in Stock..Len(row),
           \E j \in (level + 1 - Stock)..level : row[j] \notin {Blank, Empty}
    PROVE  LET window == SubSeq(row, WindowStart(level), level)
           IN  /\ window \in Seq(Texts) /\ Len(window) = Stock
               /\ ValueAt(window, Stock) = ValueAt(row, level)
<1> DEFINE window == SubSeq(row, WindowStart(level), level)
           offset == level - Stock
<1>1. Stock \in Nat /\ Stock > 0 /\ level \in Nat /\ offset \in Nat /\ level = offset + Stock
      /\ level <= Len(row) /\ WindowStart(level) = offset + 1
  BY LevelsAreBounded DEF WindowStart
<1> HIDE DEF offset
<1>2. \A i \in (offset + 1)..level : row[i] \in Texts
  BY <1>1, ElementOfSeq
<1>3. /\ window \in Seq(Texts) /\ Len(window) = Stock
      /\ \A i \in 1..Stock : window[i] = row[offset + i]
  <2>1. offset + 1 \in Int /\ level \in Int /\ offset + 1 <= level
    BY <1>1
  <2>2. /\ SubSeq(row, offset + 1, level) \in Seq(Texts)
        /\ Len(SubSeq(row, offset + 1, level)) = level - (offset + 1) + 1
        /\ \A i \in 1..(level - (offset + 1) + 1) :
              SubSeq(row, offset + 1, level)[i] = row[offset + 1 + i - 1]
    BY <1>2, <2>1, SubSeqProperties
  <2>3. level - (offset + 1) + 1 = Stock /\ \A i \in 1..Stock : offset + 1 + i - 1 = offset + i
    BY <1>1
  <2> QED BY <1>1, <2>2, <2>3
<1> HIDE DEF window
<1>4. PICK j \in (offset + 1)..level : row[j] \notin {Blank, Empty}
  <2>1. level + 1 - Stock = offset + 1
    BY <1>1
  <2> QED BY <2>1
<1>5. j - offset \in Given(window, Stock) /\ j \in Given(row, level)
  <2>1. j - offset \in 1..Stock /\ j \in 1..level /\ offset + (j - offset) = j
    BY <1>1
  <2> QED BY <1>3, <1>4, <2>1 DEF Given
<1> DEFINE m == Max(Given(window, Stock))
           n == Max(Given(row, level))
<1>6. m \in Given(window, Stock) /\ \A i \in Given(window, Stock) : i <= m
  BY <1>1, <1>5, ValueGiven
<1>7. n \in Given(row, level) /\ \A i \in Given(row, level) : i <= n
  BY <1>1, <1>5, ValueGiven
<1> HIDE DEF m, n
<1>8. m \in 1..Stock /\ n \in 1..level
  BY <1>6, <1>7 DEF Given
<1>9. offset + m \in Given(row, level)
  BY <1>1, <1>3, <1>6, <1>8 DEF Given
<1>10. n > offset /\ n - offset \in Given(window, Stock)
  <2>1. n >= j /\ n > offset
    BY <1>1, <1>5, <1>7, <1>8
  <2>2. n - offset \in 1..Stock /\ offset + (n - offset) = n
    BY <1>1, <1>8, <2>1
  <2> QED BY <1>3, <1>7, <2>1, <2>2 DEF Given
<1>11. n = offset + m
  <2>1. offset + m <= n /\ n - offset <= m
    BY <1>6, <1>7, <1>9, <1>10
  <2> QED BY <1>1, <1>8, <2>1
<1>12. window[m] = row[n]
  BY <1>3, <1>8, <1>11
<1>13. ValueAt(window, Stock) = window[m] /\ ValueAt(row, level) = row[n]
  BY <1>1, <1>5, ValueGiven DEF m, n
<1> QED BY <1>3, <1>12, <1>13 DEF window
-----------------------------------------------------------------------------
(* One adapter run: as many values as the stock levels, or one less when it *)
(* misbehaves, or none of a row that is not the stock one.                  *)
LEMMA Parsed ==
    ASSUME NEW cells \in Seq(Texts)
    PROVE  /\ Parse(cells) \in Seq(Texts)
           /\ Len(Parse(cells)) = IF Len(cells) = Stock THEN Stock ELSE 0
           /\ Len(cells) = Stock => \A k \in 1..Stock : Parse(cells)[k] = ValueAt(cells, k)
<1>1. CASE Len(cells) # Stock
  BY <1>1 DEF Parse
<1>2. CASE Len(cells) = Stock
  <2>1. Parse(cells) = [k \in 1..Stock |-> ValueAt(cells, k)] /\ Stock \in Nat
    BY <1>2, LevelsAreBounded DEF Parse
  <2>2. \A k \in 1..Stock : ValueAt(cells, k) \in Texts
    BY <1>2, <2>1, ValueIsText
  <2> QED BY <1>2, <2>1, <2>2
<1> QED BY <1>1, <1>2

LEMMA AppendedRun ==
    ASSUME NEW cells \in Seq(Texts), NEW odd \in BOOLEAN
    PROVE  LET added == Appended(cells, odd)
           IN  /\ added \in Seq(Texts)
               /\ Len(cells) # Stock => Len(added) = 0
               /\ Len(cells) = Stock =>
                      /\ Len(added) = IF odd THEN Stock - 1 ELSE Stock
                      /\ \A k \in 1..Len(added) : added[k] = ValueAt(cells, k)
<1> DEFINE added == Appended(cells, odd)
<1>1. CASE ~(odd /\ Len(cells) = Stock)
  <2>1. added = Parse(cells)
    BY <1>1 DEF Appended
  <2> QED BY <1>1, <2>1, Parsed
<1>2. CASE odd /\ Len(cells) = Stock
  <2> DEFINE p == Parse(cells)
  <2>1. /\ p \in Seq(Texts) /\ Len(p) = Stock /\ \A k \in 1..Stock : p[k] = ValueAt(cells, k)
        /\ Stock \in Nat /\ Stock > 0
    BY <1>2, Parsed, LevelsAreBounded
  <2>2. added = SubSeq(p, 1, Len(p) - 1)
    BY <1>2 DEF Appended, Front
  <2> HIDE DEF p, added
  <2>3. \A i \in 1..(Len(p) - 1) : p[i] \in Texts
    BY <2>1, ElementOfSeq
  <2>4. /\ added \in Seq(Texts) /\ Len(added) = Stock - 1
        /\ \A i \in 1..(Stock - 1) : added[i] = p[i]
    <3>1. 1 \in Int /\ Len(p) - 1 \in Int /\ Len(p) - 1 - 1 + 1 = Stock - 1
          /\ \A i \in 1..(Stock - 1) : 1 + i - 1 = i
      BY <2>1
    <3>2. /\ SubSeq(p, 1, Len(p) - 1) \in Seq(Texts)
          /\ Len(SubSeq(p, 1, Len(p) - 1)) =
                 IF 1 <= Len(p) - 1 THEN Len(p) - 1 - 1 + 1 ELSE 0
          /\ \A i \in 1..(Len(p) - 1 - 1 + 1) :
                SubSeq(p, 1, Len(p) - 1)[i] = p[1 + i - 1]
      BY <2>3, <3>1, SubSeqProperties
    <3> QED BY <2>1, <2>2, <3>1, <3>2
  <2>5. \A k \in 1..Len(added) : added[k] = ValueAt(cells, k)
    BY <2>1, <2>4
  <2> QED BY <1>2, <2>4, <2>5 DEF added
<1> QED BY <1>1, <1>2
-----------------------------------------------------------------------------
(* read_row *)

LEMMA FileTexts ==
    ASSUME NEW f \in Files
    PROVE  f.cells \in Seq(Texts) /\ f.columns \in Seq(Texts)
BY FilesAreText

(* The columns taken are the first ones, without a gap, up to the maximum.  *)
LEMMA PresentColumns ==
    ASSUME NEW columns \in Seq(Texts)
    PROVE  LET n == Cardinality(Present(columns))
           IN  /\ n \in Nat /\ n <= Len(columns)
               /\ \A k \in 1..n : columns[k] # Empty
               /\ n > 0 => Stock + n <= MaxLevels
<1> DEFINE set == Present(columns)
<1>1. set \in SUBSET Nat /\ Len(columns) \in Nat /\ \A k \in set : k <= Len(columns)
  BY DEF Present
<1>2. CASE set = {}
  BY <1>1, <1>2, FS_EmptySet
<1>3. CASE set # {}
  <2>1. PICK m \in set : \A k \in set : k <= m
    BY <1>1, <1>3, MaxExists
  <2>2. m \in 1..Len(columns) /\ \A j \in 1..m : columns[j] # Empty /\ Stock + j <= MaxLevels
    BY DEF Present
  <2>3. set = 1..m
    BY <1>1, <2>1, <2>2 DEF Present
  <2>4. Cardinality(set) = m
    <3>1. 1 \in Int /\ m \in Int /\ m >= 1
      BY <2>2
    <3>2. Cardinality(1..m) = IF 1 > m THEN 0 ELSE m - 1 + 1
      BY <3>1, FS_Interval
    <3> QED BY <2>3, <3>1, <3>2
  <2> QED BY <1>1, <2>2, <2>4
<1> QED BY <1>2, <1>3

RowOf(own, row) ==
    row # None =>
        /\ row \in Seq(Texts) /\ Len(row) \in (Stock + 1)..MaxLevels
        /\ own \in Seq(Texts) /\ Len(own) = Stock
        /\ \A k \in 1..Stock : row[k] = own[k]
        /\ \A k \in (Stock + 1)..Len(row) : row[k] # Empty

LEMMA ExtraLevelsRow ==
    ASSUME NEW f \in Files
    PROVE  RowOf(f.cells, ExtraLevels(f.cells, f.columns))
<1> DEFINE n == Cardinality(Present(f.columns))
           row == ExtraLevels(f.cells, f.columns)
<1>1. f.cells \in Seq(Texts) /\ f.columns \in Seq(Texts) /\ Stock \in Nat /\ MaxLevels \in Nat
  BY FileTexts, LevelsAreBounded
<1>2. /\ n \in Nat /\ n <= Len(f.columns) /\ \A k \in 1..n : f.columns[k] # Empty
      /\ n > 0 => Stock + n <= MaxLevels
  BY <1>1, PresentColumns
<1>3. CASE Len(f.cells) # Stock \/ n = 0
  BY <1>3 DEF ExtraLevels, RowOf
<1>4. CASE Len(f.cells) = Stock /\ n # 0
  <2> DEFINE taken == SubSeq(f.columns, 1, n)
  <2>1. row = f.cells \o taken
    BY <1>4 DEF ExtraLevels
  <2> HIDE DEF n, row
  <2>2. n > 0
    BY <1>2, <1>4
  <2>3. taken \in Seq(Texts) /\ Len(taken) = n /\ \A k \in 1..n : taken[k] = f.columns[k]
    <3>1. \A k \in 1..n : f.columns[k] \in Texts
      BY <1>1, <1>2, ElementOfSeq
    <3>2. 1 \in Int /\ n \in Int /\ 1 <= n /\ n - 1 + 1 = n /\ \A k \in 1..n : 1 + k - 1 = k
      BY <1>2, <2>2
    <3> QED BY <3>1, <3>2, SubSeqProperties
  <2> HIDE DEF taken
  <2>4. /\ row \in Seq(Texts) /\ Len(row) = Stock + n
        /\ \A i \in 1..(Stock + n) :
              row[i] = IF i <= Stock THEN f.cells[i] ELSE taken[i - Stock]
    <3>1. /\ f.cells \o taken \in Seq(Texts)
          /\ Len(f.cells \o taken) = Len(f.cells) + Len(taken)
          /\ \A i \in 1..(Len(f.cells) + Len(taken)) :
                (f.cells \o taken)[i] = IF i <= Len(f.cells) THEN f.cells[i]
                                        ELSE taken[i - Len(f.cells)]
      BY <1>1, <2>3, ConcatProperties
    <3>2. Len(f.cells) = Stock /\ Len(taken) = n
      BY <1>4, <2>3
    <3> QED BY <2>1, <3>1, <3>2
  <2>5. \A k \in 1..Stock : row[k] = f.cells[k]
    BY <1>1, <1>2, <2>4
  <2>6. ASSUME NEW k \in (Stock + 1)..Len(row) PROVE row[k] # Empty
    <3>1. k \in 1..(Stock + n) /\ ~(k <= Stock) /\ k - Stock \in 1..n
      BY <1>1, <1>2, <2>4
    <3> QED BY <1>2, <2>3, <2>4, <3>1
  <2>7. Len(row) \in (Stock + 1)..MaxLevels
    BY <1>1, <1>2, <2>2, <2>4
  <2> QED BY <1>1, <1>4, <2>4, <2>5, <2>6, <2>7 DEF RowOf, row
<1> QED BY <1>2, <1>3, <1>4
-----------------------------------------------------------------------------
(* s is the beginning of t. *)
Begins(s, t) == Len(s) <= Len(t) /\ \A i \in 1..Len(s) : s[i] = t[i]

LEMMA BeginsIsPrefix ==
    ASSUME NEW s \in Seq(Texts), NEW t \in Seq(Texts), Begins(s, t)
    PROVE  IsPrefix(s, t) /\ (Len(s) = Len(t) => s = t)
<1>1. SubSeq(s, 1, Len(s)) = s
  BY SubSeqFull
<1>2. Len(s) \in Nat /\ Len(t) \in Nat /\ Len(s) <= Len(t) /\ \A i \in 1..Len(s) : s[i] = t[i]
  BY DEF Begins
<1>3. \A i \in 1..Len(s) : t[i] \in Texts
  BY <1>2, ElementOfSeq
<1>4. /\ SubSeq(t, 1, Len(s)) \in Seq(Texts)
      /\ Len(SubSeq(t, 1, Len(s))) = IF 1 <= Len(s) THEN Len(s) - 1 + 1 ELSE 0
      /\ \A i \in 1..(Len(s) - 1 + 1) : SubSeq(t, 1, Len(s))[i] = t[1 + i - 1]
  BY <1>2, <1>3, SubSeqProperties
<1>5. Len(SubSeq(t, 1, Len(s))) = Len(s) /\ \A i \in 1..Len(s) : SubSeq(t, 1, Len(s))[i] = s[i]
  BY <1>2, <1>4
<1>6. SubSeq(t, 1, Len(s)) = s
  BY <1>4, <1>5, SeqEqual
<1>7. Len(s) = Len(t) => s = t
  BY <1>2, SeqEqual
<1> QED BY <1>1, <1>2, <1>6, <1>7 DEF IsPrefix

LEMMA WholeParsed ==
    ASSUME NEW before \in Seq(Texts), NEW cells \in Seq(Texts)
    PROVE  LET all == before \o WholeParse(cells)
           IN  /\ all \in Seq(Texts) /\ Len(all) = Len(before) + Len(cells)
               /\ \A i \in 1..Len(before) : all[i] = before[i]
               /\ \A k \in 1..Len(cells) : all[Len(before) + k] = ValueAt(cells, k)
<1> DEFINE whole == WholeParse(cells)
           all == before \o whole
<1>1. whole = [k \in 1..Len(cells) |-> ValueAt(cells, k)] /\ Len(cells) \in Nat
      /\ Len(before) \in Nat
  BY DEF WholeParse
<1>2. \A k \in 1..Len(cells) : ValueAt(cells, k) \in Texts
  BY <1>1, ValueIsText
<1> HIDE DEF whole
<1>3. whole \in Seq(Texts) /\ Len(whole) = Len(cells)
      /\ \A k \in 1..Len(cells) : whole[k] = ValueAt(cells, k)
  BY <1>1, <1>2
<1>4. /\ all \in Seq(Texts) /\ Len(all) = Len(before) + Len(whole)
      /\ \A i \in 1..(Len(before) + Len(whole)) :
            all[i] = IF i <= Len(before) THEN before[i] ELSE whole[i - Len(before)]
  BY <1>3, ConcatProperties
<1> HIDE DEF all
<1>5. \A i \in 1..Len(before) : all[i] = before[i]
  BY <1>1, <1>3, <1>4
<1>6. ASSUME NEW k \in 1..Len(cells) PROVE all[Len(before) + k] = ValueAt(cells, k)
  <2>1. Len(before) + k \in 1..(Len(before) + Len(whole)) /\ ~(Len(before) + k <= Len(before))
        /\ Len(before) + k - Len(before) = k
    BY <1>1, <1>3
  <2> QED BY <1>3, <1>4, <2>1
<1> QED BY <1>3, <1>4, <1>5, <1>6 DEF all, whole
-----------------------------------------------------------------------------
Calls == [target : Objects, object : Objects, row : Seq(Texts) \cup {None}, level : Nat,
          before : Seq(Texts), kept : Nat, growth : Nat, tidy : BOOLEAN]

All(o, before) == before \o WholeParse(AllCells(o))
Expected(o) == Len(ownLevels[o]) = Stock /\ WindowsSeeAValue(AllCells(o))

(* Between two runs of a call: which row it is about, how far it came, and  *)
(* that what it has is the beginning of what the whole row is parsed to.    *)
CallFacts ==
    /\ hookCall \in Calls
    /\ hookCall.row = rows[hookCall.object]
    /\ ownLevels[hookCall.target] \in Seq(Texts)
    /\ hookCall.level >= Stock + 1
    /\ hookCall.kept = Len(parsedOut)
    /\ hookCall.tidy => hookCall.target = hookCall.object
    /\ hookCall.growth # 0 => Len(ownLevels[hookCall.target]) = Stock
                              /\ hookCall.growth \in {Stock - 1, Stock}
    /\ hookCall.tidy /\ Len(ownLevels[hookCall.target]) = Stock => hookCall.growth = Stock

CallWindow ==
    \A o \in Objects : viewOf[o] # 0 =>
        /\ o = hookCall.object /\ o = hookCall.target
        /\ viewOf[o] = WindowStart(hookCall.level) /\ HasWindows

CallOutput ==
    Expected(hookCall.target) =>
        /\ Begins(parsedOut, All(hookCall.target, hookCall.before))
        /\ hookCall.growth = Stock =>
              /\ Len(parsedOut) = Len(hookCall.before) + hookCall.level - 1
              /\ hookCall.target = hookCall.object =>
                    hookCall.level <= Len(AllCells(hookCall.target)) + 1

LevelsInv ==
    /\ LevelsTypeOK /\ CellsComeHome /\ LevelsParsed
    /\ \A o \in Objects : RowOf(ownLevels[o], rows[o])
    /\ parsedOut \in Seq(Texts)
    /\ hookCall # None => CallFacts /\ CallWindow /\ CallOutput

LEMMA CellsTyped ==
    ASSUME LevelsInv, NEW o \in Objects, ownLevels[o] # None
    PROVE  ownLevels[o] \in Seq(Texts) /\ AllCells(o) \in Seq(Texts)
           /\ (Len(ownLevels[o]) = Stock => Len(AllCells(o)) >= Stock)
           /\ (rows[o] = None => AllCells(o) = ownLevels[o])
           /\ (rows[o] # None => AllCells(o) = rows[o] /\ Len(ownLevels[o]) = Stock)
           /\ \A k \in 1..Stock : Len(ownLevels[o]) = Stock => AllCells(o)[k] = ownLevels[o][k]
<1>1. PICK f \in Files : ownLevels[o] = f.cells
  BY DEF LevelsInv, LevelsTypeOK
<1>2. ownLevels[o] \in Seq(Texts)
  BY <1>1, FileTexts
<1>3. RowOf(ownLevels[o], rows[o]) /\ Stock \in Nat
  BY LevelsAreBounded DEF LevelsInv
<1> QED BY <1>2, <1>3 DEF AllCells, RowOf

(* Growth by the stock levels is the only kind that windows follow.         *)
LEMMA WindowsMeanStock ==
    ASSUME CallFacts, HasWindows
    PROVE  hookCall.growth = Stock /\ Len(ownLevels[hookCall.target]) = Stock
<1>1. hookCall.growth # 0 /\ hookCall.growth % Stock = 0 /\ Stock \in Nat /\ Stock > 0
      /\ hookCall.growth \in {Stock - 1, Stock}
      /\ Len(ownLevels[hookCall.target]) = Stock
  BY LevelsAreBounded DEF CallFacts, HasWindows
<1>2. hookCall.growth # Stock - 1
  <2> SUFFICES ASSUME hookCall.growth = Stock - 1 PROVE FALSE
    OBVIOUS
  <2>1. (Stock - 1) % Stock = Stock - 1
    BY <1>1
  <2> QED BY <1>1, <2>1
<1> QED BY <1>1, <1>2
-----------------------------------------------------------------------------
(* A call that ends with what it has: the whole of it when it is tidy.      *)
LEMMA EndsParsed ==
    ASSUME LevelsInv, hookCall # None, NEW isTidy \in BOOLEAN,
           isTidy => hookCall.tidy /\ ~HasWindows,
           EndWith(parsedOut, isTidy), UNCHANGED <<ownLevels, rows>>
    PROVE  LevelsParsed' /\ hookCall' = None
<1>0. PICK o, before : o = hookCall.target /\ before = hookCall.before
  OBVIOUS
<1> DEFINE all == All(o, before)
<1>1. /\ CallFacts /\ CallOutput /\ o \in Objects /\ before \in Seq(Texts)
      /\ parsedOut \in Seq(Texts) /\ hookCall.object \in Objects /\ hookCall.level \in Nat
  BY <1>0 DEF LevelsInv, CallFacts, Calls
<1>2. /\ ended' = [object |-> o, before |-> before, out |-> parsedOut, tidy |-> isTidy]
      /\ hookCall' = None
  BY <1>0 DEF EndWith
<1>4. ASSUME Expected(o)
      PROVE  IF isTidy THEN parsedOut = all ELSE IsPrefix(parsedOut, all)
  <2>1. ownLevels[o] \in Seq(Texts) /\ Len(ownLevels[o]) = Stock
    BY <1>0, <1>1, <1>4 DEF CallFacts, Expected
  <2>2. AllCells(o) \in Seq(Texts) /\ (rows[o] = None => AllCells(o) = ownLevels[o])
        /\ (rows[o] # None => AllCells(o) = rows[o])
    <3>1. RowOf(ownLevels[o], rows[o])
      BY <1>1 DEF LevelsInv
    <3> QED BY <2>1, <3>1 DEF RowOf, AllCells
  <2>3. all \in Seq(Texts) /\ Len(all) = Len(before) + Len(AllCells(o))
    BY <1>1, <2>2, WholeParsed DEF All
  <2>4. Begins(parsedOut, all)
    BY <1>0, <1>1, <1>4 DEF CallOutput
  <2>5. IsPrefix(parsedOut, all) /\ (Len(parsedOut) = Len(all) => parsedOut = all)
    BY <1>1, <2>3, <2>4, BeginsIsPrefix
  <2>6. CASE isTidy
    <3>1. hookCall.growth = Stock /\ hookCall.object = o /\ hookCall.row = rows[o]
      BY <1>0, <1>1, <2>1, <2>6 DEF CallFacts
    <3>2. hookCall.growth # 0 /\ hookCall.growth % Stock = 0
      <4>1. Stock \in Nat /\ Stock > 0
        BY LevelsAreBounded
      <4>2. Stock % Stock = 0
        BY <4>1
      <4> QED BY <3>1, <4>1, <4>2
    <3>3. rows[o] = None \/ ~(hookCall.level <= Len(rows[o]))
      BY <2>6, <3>1, <3>2 DEF HasWindows
    <3>4. /\ Len(parsedOut) = Len(before) + hookCall.level - 1
          /\ hookCall.level <= Len(AllCells(o)) + 1 /\ hookCall.level >= Stock + 1
      BY <1>0, <1>1, <1>4, <3>1 DEF CallOutput, CallFacts
    <3>5. hookCall.level = Len(AllCells(o)) + 1
      <4>1. Stock \in Nat /\ Len(AllCells(o)) \in Nat
        BY <2>2, LevelsAreBounded
      <4>2. CASE rows[o] = None
        BY <1>1, <2>1, <2>2, <3>4, <4>1, <4>2
      <4>3. CASE rows[o] # None
        BY <1>1, <2>2, <3>3, <3>4, <4>1, <4>3
      <4> QED BY <4>2, <4>3
    <3>6. Len(parsedOut) = Len(all)
      <4>1. Len(AllCells(o)) \in Nat /\ Len(before) \in Nat
        BY <1>1, <2>2
      <4> QED BY <1>1, <2>3, <3>4, <3>5, <4>1
    <3> QED BY <2>5, <2>6, <3>6
  <2>7. CASE ~isTidy
    BY <2>5, <2>7
  <2> QED BY <2>6, <2>7
<1>5. ended'.object = o /\ ended'.before = before /\ ended'.out = parsedOut
      /\ ended'.tidy = isTidy
  BY <1>2
<1>6. AllCells(ended.object)' = AllCells(o) /\ ownLevels' = ownLevels
  BY <1>5 DEF AllCells
<1>7. LevelsParsed'
  <2> SUFFICES ASSUME Len(ownLevels'[ended'.object]) = Stock,
                      WindowsSeeAValue(AllCells(ended.object)')
               PROVE  LET whole == ended'.before \o WholeParse(AllCells(ended.object)')
                      IN  IF ended'.tidy THEN ended'.out = whole ELSE IsPrefix(ended'.out, whole)
    BY DEF LevelsParsed, WindowsSeeAValue, WholeParse
  <2>1. Expected(o)
    BY <1>5, <1>6 DEF Expected
  <2>2. ended'.before \o WholeParse(AllCells(ended.object)') = all
    BY <1>5, <1>6 DEF All
  <2> QED BY <1>4, <1>5, <2>1, <2>2
<1> QED BY <1>2, <1>7

LEMMA ReadRowKeeps ==
    ASSUME LevelsInv, NEW o \in Objects, NEW f \in Files, ReadRow(o, f.cells, f.columns)
    PROVE  LevelsInv'
<1> DEFINE row == ExtraLevels(f.cells, f.columns)
<1>1. /\ hookCall = None /\ hookCall' = None /\ ended' = None /\ parsedOut' = <<>>
      /\ ownLevels' = [ownLevels EXCEPT ![o] = f.cells] /\ rows' = [rows EXCEPT ![o] = row]
      /\ viewOf' = [viewOf EXCEPT ![o] = 0]
  BY DEF ReadRow, Recorded
<1>2. RowOf(f.cells, row)
  BY ExtraLevelsRow
<1>3. row \in Seq(Texts) \cup {None}
  BY <1>2 DEF RowOf
<1> HIDE DEF row
<1>4. viewOf' = [p \in Objects |-> 0]
  BY <1>1 DEF LevelsInv, CellsComeHome
<1>5. LevelsTypeOK'
  <2>1. ownLevels' \in [Objects -> {g.cells : g \in Files} \cup {None}]
    BY <1>1 DEF LevelsInv, LevelsTypeOK
  <2>2. rows' \in [Objects -> Seq(Texts) \cup {None}]
    BY <1>1, <1>3 DEF LevelsInv, LevelsTypeOK
  <2>3. \A p \in Objects : rows'[p] # None => Len(rows'[p]) \in (Stock + 1)..MaxLevels
    BY <1>1, <1>2 DEF LevelsInv, LevelsTypeOK, RowOf
  <2>4. viewOf' \in [Objects -> 0..MaxLevels]
    BY <1>4, LevelsAreBounded
  <2> QED BY <2>1, <2>2, <2>3, <2>4 DEF LevelsTypeOK
<1>6. \A p \in Objects : RowOf(ownLevels'[p], rows'[p])
  BY <1>1, <1>2 DEF LevelsInv, LevelsTypeOK
<1>7. parsedOut' \in Seq(Texts)
  BY <1>1
<1>8. CellsComeHome' /\ LevelsParsed'
  BY <1>1, <1>4 DEF CellsComeHome, LevelsParsed
<1> QED BY <1>1, <1>5, <1>6, <1>7, <1>8 DEF LevelsInv
-----------------------------------------------------------------------------
(* A call that is over, its cells put back. *)
LEMMA HomeKeeps ==
    ASSUME LevelsInv, UNCHANGED <<ownLevels, rows, parsedOut>>, viewOf' = Restore,
           hookCall' = None, LevelsParsed'
    PROVE  LevelsInv'
<1>1. viewOf' = [o \in Objects |-> 0] /\ viewOf' \in [Objects -> 0..MaxLevels]
  BY LevelsAreBounded DEF Restore
<1>2. LevelsTypeOK' /\ CellsComeHome'
  BY <1>1 DEF LevelsInv, LevelsTypeOK, CellsComeHome
<1>3. \A o \in Objects : RowOf(ownLevels'[o], rows'[o])
  BY DEF LevelsInv
<1>4. parsedOut' \in Seq(Texts)
  BY DEF LevelsInv
<1> QED BY <1>2, <1>3, <1>4 DEF LevelsInv

LEMMA UnwindKeeps ==
    ASSUME LevelsInv, Unwind
    PROVE  LevelsInv'
<1>1. LevelsParsed'
  BY DEF Unwind, LevelsParsed
<1> QED BY <1>1, HomeKeeps DEF Unwind, Unwound

LEMMA EndCallKeeps ==
    ASSUME LevelsInv, EndCall
    PROVE  LevelsInv'
<1>1. hookCall # None /\ ~HasWindows /\ EndWith(parsedOut, hookCall.tidy)
      /\ viewOf' = Restore /\ UNCHANGED <<ownLevels, rows, parsedOut>>
  BY DEF EndCall
<1>2. PICK isTidy \in BOOLEAN : isTidy = hookCall.tidy
  BY <1>1 DEF LevelsInv, CallFacts, Calls
<1>3. EndWith(parsedOut, isTidy)
  BY <1>1, <1>2
<1>4. LevelsParsed' /\ hookCall' = None
  BY <1>1, <1>2, <1>3, EndsParsed
<1> QED BY <1>1, <1>4, HomeKeeps

(* The stock run: what the adapter appended is the beginning of the whole.  *)
LEMMA StockRunKeeps ==
    ASSUME LevelsInv, NEW o \in Objects, NEW nested \in Objects \cup {None},
           NEW odd \in BOOLEAN, NEW before \in {<<>>, <<Default>>},
           StockRun(o, nested, odd, before)
    PROVE  LevelsInv'
<1>0. PICK seen \in Objects : seen = IF nested = None THEN o ELSE nested
  OBVIOUS
<1>1. PICK cells : cells = ownLevels[o]
  OBVIOUS
<1>2. PICK row : row = rows[seen]
  OBVIOUS
<1> DEFINE added == Appended(cells, odd)
           tidy == nested = None /\ ~odd
<1>3. /\ hookCall = None /\ cells # None /\ ended' = None /\ parsedOut' = before \o added
      /\ hookCall' = [target |-> o, object |-> seen, row |-> row, level |-> Stock + 1,
                      before |-> before, kept |-> Len(before) + Len(added),
                      growth |-> Len(added), tidy |-> tidy]
      /\ UNCHANGED <<ownLevels, viewOf, rows>>
  BY <1>0, <1>1, <1>2 DEF StockRun
<1>4. before \in Seq(Texts) /\ Stock \in Nat /\ Stock > 0
  <2>1. Default \in Texts
    BY DEF Texts
  <2>2. before = <<>> \/ before = <<Default>>
    OBVIOUS
  <2>3. before \in Seq(Texts)
    <3>1. <<>> \in Seq(Texts)
      OBVIOUS
    <3>2. <<Default>> \in Seq(Texts)
      BY <2>1
    <3> QED BY <2>2, <3>1, <3>2
  <2> QED BY <2>3, LevelsAreBounded
<1>5. /\ cells \in Seq(Texts) /\ AllCells(o) \in Seq(Texts)
      /\ Len(cells) = Stock => /\ Len(AllCells(o)) >= Stock
                               /\ \A k \in 1..Stock : AllCells(o)[k] = cells[k]
  BY <1>1, <1>3, CellsTyped
<1>6. /\ added \in Seq(Texts) /\ (Len(cells) # Stock => Len(added) = 0)
      /\ Len(cells) = Stock =>
             /\ Len(added) = IF odd THEN Stock - 1 ELSE Stock
             /\ \A k \in 1..Len(added) : added[k] = ValueAt(cells, k)
  BY <1>5, AppendedRun
<1>7. /\ viewOf = [p \in Objects |-> 0] /\ row \in Seq(Texts) \cup {None}
      /\ tidy \in BOOLEAN /\ (tidy => seen = o /\ ~odd)
  BY <1>0, <1>2, <1>3 DEF LevelsInv, CellsComeHome, LevelsTypeOK
<1> HIDE DEF added, tidy
<1>8. /\ parsedOut' \in Seq(Texts) /\ Len(parsedOut') = Len(before) + Len(added)
      /\ \A i \in 1..(Len(before) + Len(added)) :
            parsedOut'[i] = IF i <= Len(before) THEN before[i] ELSE added[i - Len(before)]
  BY <1>3, <1>4, <1>6, ConcatProperties
<1>9. /\ hookCall'.target = o /\ hookCall'.object = seen /\ hookCall'.row = row
      /\ hookCall'.level = Stock + 1 /\ hookCall'.before = before
      /\ hookCall'.kept = Len(before) + Len(added) /\ hookCall'.growth = Len(added)
      /\ hookCall'.tidy = tidy
  BY <1>3
<1>10. hookCall' \in Calls
  <2>1. Len(added) \in Nat /\ Len(before) \in Nat
    BY <1>4, <1>6
  <2>2. Len(before) + Len(added) \in Nat /\ Stock + 1 \in Nat
    BY <1>4, <2>1
  <2> QED BY <1>3, <1>4, <1>7, <2>1, <2>2 DEF Calls
<1>11. CallFacts'
  <2>1. hookCall'.row = rows'[hookCall'.object]
    BY <1>2, <1>3, <1>9
  <2>2. ownLevels'[hookCall'.target] = cells
    BY <1>1, <1>3, <1>9
  <2>3. hookCall'.level >= Stock + 1 /\ hookCall'.kept = Len(parsedOut')
    BY <1>4, <1>8, <1>9
  <2>4. hookCall'.tidy => hookCall'.target = hookCall'.object
    BY <1>7, <1>9
  <2>5. hookCall'.growth # 0 => Len(cells) = Stock /\ hookCall'.growth \in {Stock - 1, Stock}
    BY <1>6, <1>9
  <2>6. hookCall'.tidy /\ Len(cells) = Stock => hookCall'.growth = Stock
    BY <1>6, <1>7, <1>9
  <2> QED BY <1>5, <1>10, <2>1, <2>2, <2>3, <2>4, <2>5, <2>6 DEF CallFacts
<1>12. CallWindow'
  <2>1. \A p \in Objects : viewOf'[p] = 0
    BY <1>3, <1>7
  <2> QED BY <2>1 DEF CallWindow
<1>13. ASSUME Expected(o)
       PROVE  /\ Begins(parsedOut', All(o, before))
              /\ Len(added) = Stock =>
                    /\ Len(parsedOut') = Len(before) + (Stock + 1) - 1
                    /\ Stock + 1 <= Len(AllCells(o)) + 1
  <2> DEFINE all == All(o, before)
  <2>1. Len(cells) = Stock /\ Len(added) <= Stock /\ Len(added) \in Nat /\ Len(before) \in Nat
        /\ Len(AllCells(o)) \in Nat /\ Len(AllCells(o)) >= Stock
    BY <1>1, <1>4, <1>5, <1>6, <1>13 DEF Expected
  <2>2. /\ Len(all) = Len(before) + Len(AllCells(o))
        /\ \A i \in 1..Len(before) : all[i] = before[i]
        /\ \A k \in 1..Len(AllCells(o)) : all[Len(before) + k] = ValueAt(AllCells(o), k)
    BY <1>4, <1>5, WholeParsed DEF All
  <2> HIDE DEF all
  <2>3. ASSUME NEW k \in 1..Len(added)
        PROVE  added[k] = all[Len(before) + k]
    <3>1. k \in Nat /\ k \in 1..Stock /\ k \in 1..Len(AllCells(o))
      BY <1>4, <2>1
    <3>2. \A j \in 1..k : cells[j] = AllCells(o)[j]
      <4>1. \A j \in 1..k : j \in 1..Stock
        BY <1>4, <3>1
      <4> QED BY <1>5, <2>1, <4>1
    <3>3. ValueAt(cells, k) = ValueAt(AllCells(o), k)
      BY <3>1, <3>2, ValueOfPrefix
    <3> QED BY <1>6, <2>1, <2>2, <3>1, <3>3
  <2>4. ASSUME NEW i \in 1..Len(parsedOut') PROVE parsedOut'[i] = all[i]
    <3>1. CASE i <= Len(before)
      <4>1. i \in 1..Len(before) /\ i \in 1..(Len(before) + Len(added))
        BY <1>8, <2>1, <3>1
      <4> QED BY <1>8, <2>2, <3>1, <4>1
    <3>2. CASE ~(i <= Len(before))
      <4>1. i - Len(before) \in 1..Len(added) /\ i \in 1..(Len(before) + Len(added))
            /\ Len(before) + (i - Len(before)) = i
        BY <1>8, <2>1, <3>2
      <4>2. added[i - Len(before)] = all[Len(before) + (i - Len(before))]
        BY <2>3, <4>1
      <4> QED BY <1>8, <3>2, <4>1, <4>2
    <3> QED BY <3>1, <3>2
  <2>5. Len(parsedOut') <= Len(all)
    BY <1>8, <2>1, <2>2
  <2>6. Begins(parsedOut', all)
    BY <2>4, <2>5 DEF Begins
  <2>7. Len(added) = Stock => /\ Len(parsedOut') = Len(before) + (Stock + 1) - 1
                              /\ Stock + 1 <= Len(AllCells(o)) + 1
    BY <1>4, <1>8, <2>1
  <2> QED BY <2>6, <2>7 DEF all
<1>14. AllCells(o)' = AllCells(o) /\ ownLevels' = ownLevels
  BY <1>3 DEF AllCells
<1>15. CallOutput'
  <2>1. /\ AllCells(hookCall.target)' = AllCells(o)
        /\ Expected(hookCall.target)' <=> Expected(o)
        /\ All(hookCall.target, hookCall.before)' = All(o, before)
    BY <1>9, <1>14 DEF All, Expected, AllCells
  <2> QED BY <1>9, <1>13, <2>1 DEF CallOutput
<1>16. LevelsTypeOK' /\ CellsComeHome' /\ LevelsParsed'
  BY <1>3, <1>7 DEF LevelsInv, LevelsTypeOK, CellsComeHome, LevelsParsed
<1>17. \A p \in Objects : RowOf(ownLevels'[p], rows'[p])
  BY <1>3 DEF LevelsInv
<1> QED BY <1>8, <1>11, <1>12, <1>15, <1>16, <1>17 DEF LevelsInv

(* What the call is at: a level of the row of the object it resolved.       *)
LEMMA WindowOfRow ==
    ASSUME LevelsInv, hookCall # None, HasWindows
    PROVE  /\ hookCall.target \in Objects /\ hookCall.object \in Objects
           /\ hookCall.row = rows[hookCall.object] /\ hookCall.row \in Seq(Texts)
           /\ Len(hookCall.row) <= MaxLevels
           /\ hookCall.level \in (Stock + 1)..Len(hookCall.row)
           /\ Stock \in Nat /\ Stock > 0 /\ MaxLevels \in Nat
<1>1. /\ hookCall.target \in Objects /\ hookCall.object \in Objects
      /\ hookCall.row = rows[hookCall.object] /\ hookCall.row # None
      /\ hookCall.level \in Nat /\ hookCall.level >= Stock + 1
      /\ hookCall.level <= Len(hookCall.row)
  BY DEF LevelsInv, CallFacts, Calls, HasWindows
<1>2. RowOf(ownLevels[hookCall.object], rows[hookCall.object])
  BY <1>1 DEF LevelsInv
<1>3. hookCall.row \in Seq(Texts) /\ Len(hookCall.row) \in (Stock + 1)..MaxLevels
  BY <1>1, <1>2 DEF RowOf
<1> QED BY <1>1, <1>3, LevelsAreBounded

LEMMA ShowWindowKeeps ==
    ASSUME LevelsInv, ShowWindow
    PROVE  LevelsInv'
<1>1. PICK o : o = hookCall.object
  OBVIOUS
<1>2. PICK start : start = WindowStart(hookCall.level)
  OBVIOUS
<1>3. /\ hookCall # None /\ HasWindows /\ hookCall.target = o
      /\ \A p \in Objects : viewOf[p] = 0
      /\ viewOf' = [viewOf EXCEPT ![o] = start]
      /\ UNCHANGED <<ownLevels, rows, hookCall, parsedOut, ended>>
  BY <1>1, <1>2 DEF ShowWindow, Shown
<1>4. o \in Objects /\ start \in 0..MaxLevels
  <2>1. /\ hookCall.level \in (Stock + 1)..Len(hookCall.row) /\ o \in Objects
        /\ hookCall.row \in Seq(Texts) /\ Len(hookCall.row) <= MaxLevels
        /\ Stock \in Nat /\ MaxLevels \in Nat /\ Stock > 0
    BY <1>1, <1>3, WindowOfRow
  <2> QED BY <1>2, <2>1 DEF WindowStart
<1>5. viewOf \in [Objects -> 0..MaxLevels]
  BY DEF LevelsInv, LevelsTypeOK
<1>6. LevelsTypeOK'
  <2>1. viewOf' \in [Objects -> 0..MaxLevels]
    BY <1>3, <1>4, <1>5
  <2> QED BY <1>3, <2>1 DEF LevelsInv, LevelsTypeOK
<1>7. CellsComeHome'
  BY <1>3 DEF CellsComeHome
<1>8. LevelsParsed'
  BY <1>3 DEF LevelsInv, LevelsParsed, AllCells, WindowsSeeAValue, WholeParse
<1>9. parsedOut' \in Seq(Texts) /\ \A p \in Objects : RowOf(ownLevels'[p], rows'[p])
  BY <1>3 DEF LevelsInv
<1>10. CallFacts'
  BY <1>3 DEF LevelsInv, CallFacts
<1>11. CallWindow'
  <2>1. HasWindows'
    BY <1>3 DEF HasWindows
  <2>2. \A p \in Objects : viewOf'[p] # 0 => p = o /\ viewOf'[p] = start
    BY <1>3, <1>4, <1>5
  <2> QED BY <1>1, <1>2, <1>3, <2>1, <2>2 DEF CallWindow, WindowStart
<1>12. CallOutput'
  <2>1. CallOutput
    BY <1>3 DEF LevelsInv
  <2> QED BY <1>3, <2>1 DEF CallOutput, Expected, All, AllCells
<1> QED BY <1>6, <1>7, <1>8, <1>9, <1>10, <1>11, <1>12 DEF LevelsInv

(* A window's run adds the level's value: the row's, or, in a row that has  *)
(* a window of nothing, whatever the adapter makes of it.                   *)
LEMMA LevelOfWindow ==
    ASSUME LevelsInv, hookCall # None, HasWindows, Shown, NEW odd \in BOOLEAN,
           Len(Appended(CellsShown(hookCall.target), odd)) = hookCall.growth
    PROVE  LET value == LastOf(Appended(CellsShown(hookCall.target), odd))
           IN  /\ hookCall.target = hookCall.object /\ value \in Texts
               /\ Expected(hookCall.target) =>
                      value = ValueAt(hookCall.row, hookCall.level)
<1>1. PICK o, row, level : o = hookCall.target /\ row = hookCall.row /\ level = hookCall.level
  OBVIOUS
<1>2. /\ o \in Objects /\ row \in Seq(Texts) /\ level \in (Stock + 1)..Len(row)
      /\ Stock \in Nat /\ Stock > 0 /\ row = rows[hookCall.object] /\ Len(row) \in Nat
  BY <1>1, WindowOfRow
<1>3. hookCall.object = o /\ viewOf[o] = WindowStart(level) /\ viewOf[o] # 0
  BY <1>1 DEF LevelsInv, CallWindow, Shown
<1>4. hookCall.growth = Stock
  BY WindowsMeanStock DEF LevelsInv
<1> DEFINE window == SubSeq(row, WindowStart(level), level)
           added == Appended(window, odd)
<1>5. CellsShown(o) = window
  <2>1. WindowStart(level) + Stock - 1 = level
    BY <1>2 DEF WindowStart
  <2> QED BY <1>1, <1>3, <2>1 DEF CellsShown
<1>6. window \in Seq(Texts) /\ Len(window) = Stock
  <2>1. level \in Int /\ level <= Len(row) /\ WindowStart(level) \in Int
        /\ WindowStart(level) >= 1 /\ WindowStart(level) <= level
        /\ level - WindowStart(level) + 1 = Stock
    BY <1>2 DEF WindowStart
  <2>2. \A i \in WindowStart(level)..level : row[i] \in Texts
    <3>1. \A i \in WindowStart(level)..level : i \in 1..Len(row)
      BY <1>2, <2>1
    <3> QED BY <1>2, <3>1, ElementOfSeq
  <2> QED BY <2>1, <2>2, SubSeqProperties
<1> HIDE DEF window
<1>7. /\ added \in Seq(Texts) /\ Len(added) = Stock
      /\ \A k \in 1..Len(added) : added[k] = ValueAt(window, k)
  <2>1. Len(added) = Stock
    BY <1>1, <1>4, <1>5
  <2> QED BY <1>6, <2>1, AppendedRun
<1>8. LastOf(added) = ValueAt(window, Stock) /\ LastOf(added) \in Texts
  <2>1. Stock \in 1..Stock /\ Stock \in 0..Len(window)
    BY <1>2, <1>6
  <2>2. LastOf(added) = ValueAt(window, Stock)
    BY <1>7, <2>1 DEF LastOf
  <2> QED BY <1>6, <2>1, <2>2, ValueIsText
<1>9. ASSUME Expected(o) PROVE ValueAt(window, Stock) = ValueAt(row, level)
  <2>1. AllCells(o) = row
    <3>1. row # None
      BY <1>1 DEF HasWindows
    <3> QED BY <1>2, <1>3, <3>1 DEF AllCells
  <2>2. level \in Stock..Len(row)
    BY <1>2
  <2>3. \E j \in (level + 1 - Stock)..level : row[j] \notin {Blank, Empty}
    BY <1>9, <2>1, <2>2 DEF Expected, WindowsSeeAValue
  <2> QED BY <1>2, <2>2, <2>3, ValueInWindow DEF window
<1> QED BY <1>1, <1>3, <1>5, <1>8, <1>9

(* One more value of what is expected, at its place. *)
LEMMA BeginsWithNext ==
    ASSUME NEW s \in Seq(Texts), NEW t \in Seq(Texts), NEW value \in Texts,
           Begins(s, t), Len(s) < Len(t), value = t[Len(s) + 1]
    PROVE  Begins(Append(s, value), t)
<1> DEFINE next == Append(s, value)
<1>1. /\ next \in Seq(Texts) /\ Len(next) = Len(s) + 1
      /\ \A i \in 1..Len(s) : next[i] = s[i]
      /\ next[Len(s) + 1] = value
  BY AppendProperties
<1> HIDE DEF next
<1>2. Len(s) \in Nat /\ Len(t) \in Nat
  OBVIOUS
<1>3. ASSUME NEW i \in 1..Len(next) PROVE next[i] = t[i]
  <2>1. CASE i = Len(s) + 1
    BY <1>1, <2>1
  <2>2. CASE i # Len(s) + 1
    <3>1. i \in 1..Len(s)
      BY <1>1, <1>2, <2>2
    <3> QED BY <1>1, <3>1 DEF Begins
  <2> QED BY <2>1, <2>2
<1>4. Len(next) <= Len(t)
  BY <1>1, <1>2
<1> QED BY <1>3, <1>4 DEF Begins, next

(* A run that adds anything unexpected ends the call with what it had.      *)
LEMMA OddRunKeeps ==
    ASSUME LevelsInv, NEW odd \in BOOLEAN, RunWindow(odd),
           ~Shown \/ Len(Appended(CellsShown(hookCall.target), odd)) # hookCall.growth
    PROVE  LevelsInv'
<1>1. /\ hookCall # None /\ viewOf' = Restore /\ UNCHANGED <<ownLevels, rows>>
      /\ parsedOut' = SubSeq(parsedOut, 1, hookCall.kept) /\ EndWith(parsedOut', FALSE)
  BY DEF RunWindow
<1>2. parsedOut' = parsedOut
  <2>1. hookCall.kept = Len(parsedOut) /\ parsedOut \in Seq(Texts)
    BY <1>1 DEF LevelsInv, CallFacts
  <2> QED BY <1>1, <2>1, SubSeqFull
<1>3. EndWith(parsedOut, FALSE)
  BY <1>1, <1>2
<1>4. LevelsParsed' /\ hookCall' = None
  BY <1>1, <1>3, EndsParsed
<1> QED BY <1>1, <1>2, <1>4, HomeKeeps

(* A run that adds what the stock run did keeps its last value.             *)
LEMMA LevelRunKeeps ==
    ASSUME LevelsInv, NEW odd \in BOOLEAN, RunWindow(odd),
           Shown, Len(Appended(CellsShown(hookCall.target), odd)) = hookCall.growth
    PROVE  LevelsInv'
<1>1. PICK o, row, level, before, kept, target, object, growth, tidy :
          /\ o = hookCall.target /\ row = hookCall.row /\ level = hookCall.level
          /\ before = hookCall.before /\ kept = hookCall.kept /\ target = hookCall.target
          /\ object = hookCall.object /\ growth = hookCall.growth /\ tidy = hookCall.tidy
  OBVIOUS
<1>2. PICK value : value = LastOf(Appended(CellsShown(hookCall.target), odd))
  OBVIOUS
<1>3. /\ hookCall # None /\ HasWindows /\ viewOf' = Restore
      /\ parsedOut' = Append(parsedOut, value)
      /\ hookCall' = [hookCall EXCEPT !.kept = @ + 1, !.level = @ + 1]
      /\ UNCHANGED <<ended, ownLevels, rows>>
  BY <1>2 DEF RunWindow
<1>4. /\ object = o /\ value \in Texts /\ (Expected(o) => value = ValueAt(row, level))
  BY <1>1, <1>2, <1>3, LevelOfWindow
<1>5. /\ o \in Objects /\ row = rows[o] /\ row \in Seq(Texts) /\ Len(row) \in Nat
      /\ level \in (Stock + 1)..Len(row) /\ Stock \in Nat /\ Stock > 0
  <2>1. /\ hookCall.target \in Objects /\ hookCall.row = rows[hookCall.object]
        /\ hookCall.row \in Seq(Texts) /\ hookCall.level \in (Stock + 1)..Len(hookCall.row)
        /\ Stock \in Nat /\ Stock > 0
    BY <1>3, WindowOfRow
  <2>2. hookCall.object = o /\ hookCall.target = o /\ hookCall.row = row
        /\ hookCall.level = level
    BY <1>1, <1>4
  <2>3. row \in Seq(Texts) /\ level \in (Stock + 1)..Len(row)
    BY <2>1, <2>2
  <2>4. o \in Objects /\ row = rows[o]
    BY <2>1, <2>2
  <2> QED BY <2>1, <2>3, <2>4
<1>6. growth = Stock /\ Len(ownLevels[o]) = Stock
  BY <1>1, <1>3, WindowsMeanStock DEF LevelsInv
<1>7. /\ before \in Seq(Texts) /\ kept \in Nat /\ kept = Len(parsedOut) /\ level \in Nat
      /\ tidy \in BOOLEAN /\ ownLevels[o] \in Seq(Texts) /\ parsedOut \in Seq(Texts)
      /\ hookCall = [target |-> o, object |-> o, row |-> row, level |-> level,
                     before |-> before, kept |-> kept, growth |-> growth, tidy |-> tidy]
  BY <1>1, <1>3, <1>4 DEF LevelsInv, CallFacts, Calls
<1>8. hookCall' = [target |-> o, object |-> o, row |-> row, level |-> level + 1,
                   before |-> before, kept |-> kept + 1, growth |-> growth, tidy |-> tidy]
  BY <1>3, <1>7
<1>9. parsedOut' \in Seq(Texts) /\ Len(parsedOut') = kept + 1
  BY <1>3, <1>4, <1>7, AppendProperties
<1>10. CallFacts'
  <2>1. hookCall' \in Calls
    BY <1>5, <1>6, <1>7, <1>8 DEF Calls
  <2>2. hookCall'.target = o /\ hookCall'.object = o /\ hookCall'.row = row
        /\ hookCall'.level = level + 1 /\ hookCall'.kept = kept + 1
        /\ hookCall'.growth = growth /\ hookCall'.tidy = tidy
    BY <1>8
  <2>3. ownLevels' = ownLevels /\ rows' = rows
    BY <1>3
  <2>4. level + 1 >= Stock + 1
    BY <1>5
  <2> QED BY <1>5, <1>6, <1>7, <1>9, <2>1, <2>2, <2>3, <2>4 DEF CallFacts
<1>11. CallWindow' /\ viewOf' = [p \in Objects |-> 0] /\ viewOf' \in [Objects -> 0..MaxLevels]
  BY <1>3, LevelsAreBounded DEF CallWindow, Restore
<1>12. ASSUME Expected(o)
       PROVE  /\ Begins(parsedOut', All(o, before))
              /\ Len(parsedOut') = Len(before) + (level + 1) - 1
              /\ level + 1 <= Len(AllCells(o)) + 1
  <2> DEFINE all == All(o, before)
  <2>1. AllCells(o) = row
    BY <1>3, <1>1, <1>5 DEF AllCells, HasWindows
  <2>2. /\ all \in Seq(Texts) /\ Len(all) = Len(before) + Len(row)
        /\ \A k \in 1..Len(row) : all[Len(before) + k] = ValueAt(row, k)
    <3>1. all = before \o WholeParse(row)
      BY <2>1 DEF All
    <3> HIDE DEF all
    <3> QED BY <1>5, <1>7, <3>1, WholeParsed
  <2>3. Begins(parsedOut, all) /\ Len(parsedOut) = Len(before) + level - 1
    BY <1>1, <1>3, <1>6, <1>12 DEF LevelsInv, CallOutput
  <2> HIDE DEF all
  <2>4. /\ level \in 1..Len(row) /\ Len(parsedOut) + 1 = Len(before) + level
        /\ Len(parsedOut) < Len(all) /\ Len(before) \in Nat
    BY <1>5, <1>7, <2>2, <2>3
  <2>5. value = all[Len(parsedOut) + 1]
    BY <1>4, <1>12, <2>2, <2>4
  <2>6. Begins(parsedOut', all)
    BY <1>3, <1>4, <1>7, <2>2, <2>3, <2>4, <2>5, BeginsWithNext
  <2>7. Len(parsedOut') = Len(before) + (level + 1) - 1 /\ level + 1 <= Len(row) + 1
    BY <1>5, <1>7, <1>9, <2>3, <2>4
  <2> QED BY <2>1, <2>6, <2>7 DEF all
<1>13. CallOutput'
  <2>0. ownLevels' = ownLevels /\ rows' = rows
    BY <1>3
  <2>1. hookCall'.target = o /\ hookCall'.before = before /\ hookCall'.level = level + 1
        /\ hookCall'.growth = growth /\ hookCall'.object = o
    BY <1>8
  <2>2. /\ AllCells(hookCall.target)' = AllCells(o)
        /\ Expected(hookCall.target)' <=> Expected(o)
        /\ All(hookCall.target, hookCall.before)' = All(o, before)
    BY <2>0, <2>1 DEF All, Expected, AllCells
  <2> QED BY <1>12, <2>1, <2>2 DEF CallOutput
<1>14. LevelsTypeOK' /\ CellsComeHome'
  BY <1>3, <1>11 DEF LevelsInv, LevelsTypeOK, CellsComeHome
<1>15. LevelsParsed' /\ \A p \in Objects : RowOf(ownLevels'[p], rows'[p])
  BY <1>3 DEF LevelsInv, LevelsParsed, AllCells, WindowsSeeAValue, WholeParse
<1> QED BY <1>9, <1>10, <1>11, <1>13, <1>14, <1>15 DEF LevelsInv

LEMMA RunWindowKeeps ==
    ASSUME LevelsInv, NEW odd \in BOOLEAN, RunWindow(odd)
    PROVE  LevelsInv'
BY OddRunKeeps, LevelRunKeeps

LEMMA LevelsInitially ==
    ASSUME LevelsInit
    PROVE  LevelsInv
<1>1. LevelsTypeOK
  BY LevelsAreBounded DEF LevelsInit, LevelsTypeOK
<1>2. CellsComeHome /\ LevelsParsed
  BY DEF LevelsInit, CellsComeHome, LevelsParsed
<1>3. \A o \in Objects : RowOf(ownLevels[o], rows[o])
  BY DEF LevelsInit, RowOf
<1>4. parsedOut \in Seq(Texts) /\ hookCall = None
  BY DEF LevelsInit
<1> QED BY <1>1, <1>2, <1>3, <1>4 DEF LevelsInv

LEMMA LevelsKept ==
    ASSUME LevelsInv, [LevelsNext]_levelVars
    PROVE  LevelsInv'
<1>1. ASSUME NEW o \in Objects, NEW f \in Files, ReadRow(o, f.cells, f.columns)
      PROVE  LevelsInv'
  BY <1>1, ReadRowKeeps
<1>2. ASSUME NEW o \in Objects, NEW nested \in Objects \cup {None}, NEW odd \in BOOLEAN,
             NEW before \in {<<>>, <<Default>>}, StockRun(o, nested, odd, before)
      PROVE  LevelsInv'
  BY <1>2, StockRunKeeps
<1>3. CASE ShowWindow
  BY <1>3, ShowWindowKeeps
<1>4. ASSUME NEW odd \in BOOLEAN, RunWindow(odd) PROVE LevelsInv'
  BY <1>4, RunWindowKeeps
<1>5. CASE EndCall
  BY <1>5, EndCallKeeps
<1>6. CASE Unwind
  BY <1>6, UnwindKeeps
<1>7. CASE UNCHANGED levelVars
  <2>1. UNCHANGED <<ownLevels, viewOf, rows, hookCall, parsedOut, ended>>
    BY <1>7 DEF levelVars
  <2>2. LevelsTypeOK' /\ CellsComeHome'
    BY <2>1 DEF LevelsInv, LevelsTypeOK, CellsComeHome
  <2>3. LevelsParsed' /\ \A o \in Objects : RowOf(ownLevels'[o], rows'[o])
    BY <2>1 DEF LevelsInv, LevelsParsed, AllCells, WindowsSeeAValue, WholeParse
  <2>4. hookCall' # None => CallFacts' /\ CallWindow' /\ CallOutput'
    BY <2>1 DEF LevelsInv, CallFacts, CallWindow, CallOutput, HasWindows, WindowStart,
                Expected, All, AllCells, WindowsSeeAValue, WholeParse
  <2>5. parsedOut' \in Seq(Texts)
    BY <2>1 DEF LevelsInv
  <2> QED BY <2>2, <2>3, <2>4, <2>5 DEF LevelsInv
<1> QED BY <1>1, <1>2, <1>3, <1>4, <1>5, <1>6, <1>7 DEF LevelsNext

(* The row of an object begins with its own cells. *)
LEMMA RowsFollow ==
    ASSUME LevelsInv
    PROVE  RowsAreTheirObjects
<1> SUFFICES ASSUME NEW o \in Objects, rows[o] # None
             PROVE  /\ ownLevels[o] = SubSeq(rows[o], 1, Stock)
                    /\ \A k \in (Stock + 1)..Len(rows[o]) : rows[o][k] # Empty
  BY DEF RowsAreTheirObjects
<1>1. PICK own, row : own = ownLevels[o] /\ row = rows[o]
  OBVIOUS
<1>2. /\ row \in Seq(Texts) /\ Len(row) \in (Stock + 1)..MaxLevels
      /\ own \in Seq(Texts) /\ Len(own) = Stock /\ \A k \in 1..Stock : row[k] = own[k]
      /\ \A k \in (Stock + 1)..Len(row) : row[k] # Empty
      /\ Stock \in Nat /\ Stock > 0
  <2>1. RowOf(own, row) /\ row # None
    BY <1>1 DEF LevelsInv
  <2> QED BY <2>1, LevelsAreBounded DEF RowOf
<1>3. Begins(own, row)
  BY <1>2 DEF Begins
<1>4. own = SubSeq(row, 1, Stock)
  BY <1>2, <1>3, BeginsIsPrefix DEF IsPrefix
<1> QED BY <1>1, <1>2, <1>4
-----------------------------------------------------------------------------
(* The experience meter. *)

LEMMA Quotient ==
    ASSUME NEW n \in Nat, NEW d \in Nat \ {0}
    PROVE  LET q == n \div d
           IN  q \in Nat /\ q * d <= n /\ n < q * d + d
OBVIOUS

LEMMA TimesKeepsOrder ==
    ASSUME NEW a \in Nat, NEW b \in Nat, NEW d \in Nat, a <= b
    PROVE  a * d <= b * d
OBVIOUS

(* A boundary is on the nearest pixel, and after the one before it.         *)
LEMMA Nearest ==
    ASSUME NEW levels \in Nat, levels >= 3, NEW k \in Nat
    PROVE  LET segments == levels - 1
           IN  /\ Centre(levels, k) \in Nat
               /\ 2 * Centre(levels, k) * segments <= 2 * MeterWidth * k + segments
               /\ 2 * Centre(levels, k) * segments + segments >= 2 * MeterWidth * k
<1> DEFINE s == levels - 1
           n == MeterWidth * k * 2 + s
           q == Centre(levels, k)
<1>1. s \in Nat /\ s >= 2 /\ MeterWidth \in Nat
  BY MeterIsDrawn
<1>2. n \in Nat /\ 2 * s \in Nat \ {0}
  BY <1>1
<1>3. q = n \div (2 * s)
  BY DEF Centre
<1>4. q \in Nat /\ q * (2 * s) <= n /\ n < q * (2 * s) + 2 * s
  <2> HIDE DEF n, s, q
  <2> QED BY <1>2, <1>3, Quotient
<1> HIDE DEF s, q
<1>5. q * (2 * s) = 2 * q * s /\ MeterWidth * k * 2 = 2 * MeterWidth * k
  BY <1>1, <1>4
<1>6. 2 * q * s \in Nat /\ 2 * MeterWidth * k \in Nat
  BY <1>1, <1>4
<1> QED BY <1>1, <1>4, <1>5, <1>6 DEF s, q

LEMMA InOrder ==
    ASSUME NEW levels \in Nat, levels >= 3, NEW k \in Nat, k > 1, MeterWidth >= levels - 1
    PROVE  Centre(levels, k - 1) < Centre(levels, k)
<1> DEFINE s == levels - 1
           p == Centre(levels, k - 1)
           q == Centre(levels, k)
<1>1. s \in Nat /\ s >= 2 /\ MeterWidth \in Nat /\ k - 1 \in Nat /\ MeterWidth >= s
  BY MeterIsDrawn
<1>2. p \in Nat /\ 2 * p * s <= 2 * MeterWidth * (k - 1) + s
  BY <1>1, Nearest
<1> DEFINE n == MeterWidth * k * 2 + s
           m == MeterWidth * (k - 1) * 2 + s
           d == 2 * s
<1>3. n \in Nat /\ m \in Nat /\ d \in Nat \ {0} /\ n = m + 2 * MeterWidth /\ n >= m + d
  BY <1>1
<1>4. q = n \div d /\ p = m \div d
  BY DEF Centre
<1> HIDE DEF n, m, d, p, q, s
<1>5. /\ q \in Nat /\ q * d <= n /\ n < q * d + d
      /\ p \in Nat /\ p * d <= m /\ m < p * d + d
  BY <1>3, <1>4, Quotient
<1>6. ~(q <= p)
  <2> SUFFICES ASSUME q <= p PROVE FALSE
    OBVIOUS
  <2>1. q * d <= p * d
    BY <1>3, <1>5, TimesKeepsOrder
  <2>2. q * d \in Nat /\ p * d \in Nat
    BY <1>3, <1>5
  <2> QED BY <1>3, <1>5, <2>1, <2>2
<1>7. p < q
  BY <1>5, <1>6
<1> QED BY <1>7 DEF p, q

MostMade == IF Needed(MostLevels) > StockMarks THEN Needed(MostLevels) - StockMarks ELSE 0

(* A meter laid out says for which levels it is. *)
LaidFor(m, levels, hidden) ==
    /\ m.laid = [levels |-> levels, hidden |-> hidden]
    /\ m.visible = IF hidden THEN {} ELSE 1..Needed(levels)
    /\ \A k \in 1..Needed(levels) : m.at[k] = Centre(levels, k)

MeterStands(m) ==
    /\ m = [made |-> m.made, at |-> m.at, visible |-> m.visible, laid |-> m.laid]
    /\ m.made \in Nat /\ m.made <= MostMade
    /\ m.laid # NotLaid =>
           \E levels \in 1..MostLevels, hidden \in BOOLEAN : LaidFor(m, levels, hidden)

(* No more separators are needed than for the most levels.                  *)
LEMMA NeededBounds ==
    /\ MostMade \in Nat /\ StockMarks \in Nat /\ MostLevels \in Nat /\ MeterWidth \in Nat
    /\ \A levels \in 1..MostLevels :
           /\ Needed(levels) \in Nat
           /\ Needed(levels) <= StockMarks + MostMade
           /\ (Needed(levels) # 0 => levels >= 3 /\ Needed(levels) = levels - 2)
<1>1. StockMarks \in Nat /\ MostLevels \in Nat /\ MeterWidth \in Nat
  BY MeterIsDrawn
<1> QED BY <1>1 DEF MostMade, Needed

LEMMA MeterUpdated ==
    ASSUME NEW m, MeterStands(m), NEW hidden \in BOOLEAN
    PROVE  /\ MeterStands(StockDrawn(m, hidden)) /\ StockDrawn(m, hidden).made = m.made
           /\ MeterStands([m EXCEPT !.laid = NotLaid])
<1>1. PICK made, at, visible, laid :
          m = [made |-> made, at |-> at, visible |-> visible, laid |-> laid]
  BY DEF MeterStands
<1>2. m.made = made /\ made \in Nat /\ made <= MostMade
  BY <1>1 DEF MeterStands
<1> DEFINE seen == (visible \ (1..StockMarks)) \cup (IF hidden THEN {} ELSE 1..StockMarks)
<1>3. StockDrawn(m, hidden) = [made |-> made, at |-> at, visible |-> seen, laid |-> NotLaid]
  <2>1. m.visible = visible
    BY <1>1
  <2>2. StockDrawn(m, hidden) = [m EXCEPT !.visible = seen, !.laid = NotLaid]
    BY <2>1 DEF StockDrawn
  <2> HIDE DEF seen
  <2> QED BY <1>1, <2>2
<1>4. [m EXCEPT !.laid = NotLaid] =
          [made |-> made, at |-> at, visible |-> visible, laid |-> NotLaid]
  BY <1>1
<1> HIDE DEF seen
<1> QED BY <1>2, <1>3, <1>4 DEF MeterStands

LEMMA LaidOut ==
    ASSUME NEW m, MeterStands(m), NEW levels \in 1..MostLevels, NEW hidden \in BOOLEAN,
           NEW fails \in Nat
    PROVE  MeterStands(LayOut(m, levels, hidden, fails))
<1> DEFINE needed  == Needed(levels)
           found   == Found(m)
           missing == IF needed > found THEN needed - found ELSE 0
           all     == m.made + Make(missing, fails)
           places  == [k \in 1..(StockMarks + all) |->
                          IF k <= needed THEN Centre(levels, k)
                          ELSE IF k \in DOMAIN m.at THEN m.at[k] ELSE 0]
           seen    == IF hidden THEN {} ELSE 1..needed
           next    == LayOut(m, levels, hidden, fails)
<1>1. PICK made, at, visible, laid :
          m = [made |-> made, at |-> at, visible |-> visible, laid |-> laid]
  BY DEF MeterStands
<1>2. m.made = made /\ made \in Nat /\ made <= MostMade
  BY <1>1 DEF MeterStands
<1>3. /\ needed \in Nat /\ needed <= StockMarks + MostMade
      /\ StockMarks \in Nat /\ MostMade \in Nat
  BY NeededBounds
<1>4. /\ missing \in Nat /\ all \in Nat /\ all <= MostMade
      /\ (~(fails < missing) => needed <= StockMarks + all)
  <2> HIDE DEF needed
  <2>1. found = StockMarks + made
    BY <1>2 DEF Found
  <2> QED BY <1>2, <1>3, <2>1 DEF Make
<1>5. next = IF fails < missing
             THEN [m EXCEPT !.made = all, !.visible = {}, !.laid = NotLaid]
             ELSE [m EXCEPT !.made = all, !.at = places, !.visible = seen,
                            !.laid = [levels |-> levels, hidden |-> hidden]]
  BY DEF LayOut
<1>6. \A k \in 1..needed : needed <= StockMarks + all => places[k] = Centre(levels, k)
  <2> HIDE DEF needed, all
  <2> QED BY <1>3, <1>4
<1> HIDE DEF needed, found, missing, all, places, seen, next
<1>7. CASE fails < missing
  <2>1. next = [made |-> all, at |-> at, visible |-> {}, laid |-> NotLaid]
    BY <1>1, <1>5, <1>7
  <2> QED BY <1>4, <2>1 DEF MeterStands, next
<1>8. CASE ~(fails < missing)
  <2>1. next = [made |-> all, at |-> places, visible |-> seen,
                laid |-> [levels |-> levels, hidden |-> hidden]]
    BY <1>1, <1>5, <1>8
  <2>2. /\ next.made = all /\ next.at = places /\ next.visible = seen
        /\ next.laid = [levels |-> levels, hidden |-> hidden]
    BY <2>1
  <2>3. LaidFor(next, levels, hidden)
    BY <1>4, <1>6, <1>8, <2>2 DEF LaidFor, needed, seen
  <2>4. next = [made |-> next.made, at |-> next.at, visible |-> next.visible, laid |-> next.laid]
    BY <2>1, <2>2
  <2> QED BY <1>4, <2>2, <2>3, <2>4 DEF MeterStands, next
<1> QED BY <1>7, <1>8

LEMMA MeterInitially ==
    ASSUME MeterInit
    PROVE  MeterStands(meter)
<1>1. meter = [made |-> 0, at |-> [k \in 1..StockMarks |-> 0], visible |-> {}, laid |-> NotLaid]
  BY DEF MeterInit, NewMeter
<1> QED BY <1>1, NeededBounds DEF MeterStands

LEMMA MeterKept ==
    ASSUME MeterStands(meter), [MeterNext]_meter
    PROVE  MeterStands(meter)'
<1>1. ASSUME NEW levels \in 0..(MostLevels + 1), NEW hidden \in BOOLEAN, NEW busy \in BOOLEAN,
             NEW fails \in 0..MostLevels, MeterRefresh(levels, hidden, busy, fails)
      PROVE  MeterStands(meter')
  <2> DEFINE m == IF busy THEN [meter EXCEPT !.laid = NotLaid] ELSE StockDrawn(meter, hidden)
  <2>1. MeterStands(m)
    BY MeterUpdated
  <2>2. meter' = IF busy \/ levels \notin 1..MostLevels THEN m
                 ELSE LayOut(m, levels, hidden, fails)
    BY <1>1 DEF MeterRefresh
  <2>3. fails \in Nat
    OBVIOUS
  <2> HIDE DEF m
  <2> QED BY <2>1, <2>2, <2>3, LaidOut
<1>2. CASE NewPanel
  <2>1. meter' = [made |-> 0, at |-> [k \in 1..StockMarks |-> 0], visible |-> {},
                  laid |-> NotLaid]
    BY <1>2 DEF NewPanel, NewMeter
  <2> QED BY <2>1, NeededBounds DEF MeterStands
<1>3. CASE UNCHANGED meter
  BY <1>3 DEF MeterStands, LaidFor
<1> QED BY <1>1, <1>2, <1>3 DEF MeterNext, MeterStands, LaidFor

LEMMA MeterFollows ==
    ASSUME MeterStands(meter)
    PROVE  MeterIsLaidOut
<1>1. meter.made <= IF Needed(MostLevels) > StockMarks
                    THEN Needed(MostLevels) - StockMarks ELSE 0
  BY DEF MeterStands, MostMade
<1>2. ASSUME meter.laid # NotLaid
      PROVE  LET needed   == Needed(meter.laid.levels)
                 segments == meter.laid.levels - 1
             IN  /\ meter.visible = IF meter.laid.hidden THEN {} ELSE 1..needed
                 /\ \A k \in 1..needed :
                        /\ 2 * meter.at[k] * segments <= 2 * MeterWidth * k + segments
                        /\ 2 * meter.at[k] * segments + segments >= 2 * MeterWidth * k
                        /\ MeterWidth >= segments /\ k > 1 => meter.at[k - 1] < meter.at[k]
  <2>1. PICK levels \in 1..MostLevels, hidden \in BOOLEAN : LaidFor(meter, levels, hidden)
    BY <1>2 DEF MeterStands
  <2>2. meter.laid.levels = levels /\ meter.laid.hidden = hidden
    BY <2>1 DEF LaidFor
  <2>3. meter.visible = IF hidden THEN {} ELSE 1..Needed(levels)
    BY <2>1 DEF LaidFor
  <2>4. ASSUME NEW k \in 1..Needed(levels)
        PROVE  /\ 2 * meter.at[k] * (levels - 1) <= 2 * MeterWidth * k + (levels - 1)
               /\ 2 * meter.at[k] * (levels - 1) + (levels - 1) >= 2 * MeterWidth * k
               /\ MeterWidth >= levels - 1 /\ k > 1 => meter.at[k - 1] < meter.at[k]
    <3>1. levels \in Nat /\ levels >= 3 /\ k \in Nat
      <4>1. Needed(levels) \in Nat
            /\ (Needed(levels) # 0 => levels >= 3 /\ Needed(levels) = levels - 2)
        BY NeededBounds
      <4>2. levels \in Nat /\ k \in Nat /\ 1 <= k /\ k <= Needed(levels)
        BY <4>1, NeededBounds
      <4> QED BY <4>1, <4>2
    <3>2. meter.at[k] = Centre(levels, k)
      BY <2>1 DEF LaidFor
    <3>3. MeterWidth >= levels - 1 /\ k > 1 => meter.at[k - 1] = Centre(levels, k - 1)
      <4>1. k > 1 => k - 1 \in 1..Needed(levels)
        BY <3>1, NeededBounds
      <4> QED BY <2>1, <4>1 DEF LaidFor
    <3>4. /\ 2 * Centre(levels, k) * (levels - 1) <= 2 * MeterWidth * k + (levels - 1)
          /\ 2 * Centre(levels, k) * (levels - 1) + (levels - 1) >= 2 * MeterWidth * k
      BY <3>1, Nearest
    <3>5. MeterWidth >= levels - 1 /\ k > 1 => Centre(levels, k - 1) < Centre(levels, k)
      BY <3>1, InOrder
    <3> QED BY <3>2, <3>3, <3>4, <3>5
  <2> QED BY <2>2, <2>3, <2>4
<1> QED BY <1>1, <1>2 DEF MeterIsLaidOut
-----------------------------------------------------------------------------
(* Extra levels are parsed as written and an object shows its own cells     *)
(* outside a call, whatever the adapter does (hooks.rs), for any rows and   *)
(* any maximum; the meter shows one separator per boundary at the nearest   *)
(* pixel, for any width and any number of levels (meter.rs).                *)
THEOREM LevelsAreSound == LevelsSpec /\ MeterSpec => []LevelsSound
<1>1. LevelsInit => LevelsInv
  BY LevelsInitially
<1>2. LevelsInv /\ [LevelsNext]_levelVars => LevelsInv'
  BY LevelsKept
<1>3. MeterInit => MeterStands(meter)
  BY MeterInitially
<1>4. MeterStands(meter) /\ [MeterNext]_meter => MeterStands(meter)'
  BY MeterKept
<1>5. LevelsInv /\ MeterStands(meter) => LevelsSound
  BY RowsFollow, MeterFollows DEF LevelsInv, LevelsSound
<1> QED BY <1>1, <1>2, <1>3, <1>4, <1>5, PTL DEF LevelsSpec, MeterSpec
=============================================================================
