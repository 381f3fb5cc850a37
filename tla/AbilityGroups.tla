--------------------------- MODULE AbilityGroups ---------------------------
(***************************************************************************)
(* The ability-groups plugin: a slot of the ability bar that two or more   *)
(* available abilities share shows one of them, and its key or button      *)
(* opens a row from which another can be picked.                           *)
(*                                                                         *)
(* The game calls update once per ability and frame, in enum order; keys,  *)
(* clicks, selection changes and the submenu being cleared come between    *)
(* two frames.  Every hook runs on the game's main thread and is one       *)
(* action.  The stock functions it calls are external.                     *)
(***************************************************************************)
EXTENDS Integers, FiniteSets, FiniteSetsExt, Sequences, NoValue

CONSTANTS
    AbilityCount,          \* the abilities are 0..Count-1, in enum order (15)
    SlotOf,                \* the slot of each ability's window
    Cells,                 \* the order cells of the row, left to right (0, 2, 3, 5)
    Submenus               \* the abilities whose activation opens a stock submenu (Mine)

Abilities == 0..(AbilityCount - 1)
BarSlots == {SlotOf[a] : a \in Abilities}
Of(s, set) == {a \in set : SlotOf[a] = s}

RowCells == {Cells[k] : k \in DOMAIN Cells}

(* A row: its slot, the abilities it was opened for, and the cells whose    *)
(* key went down while it was open.                                         *)
Rows == [slot : BarSlots, available : SUBSET Abilities, pressed : SUBSET RowCells]

ASSUME AbilitiesGiven == AbilityCount \in Nat /\ AbilityCount >= 2
ASSUME SlotsGiven == SlotOf \in [Abilities -> Nat]
ASSUME CellsGiven == Cells \in Seq(Nat)
ASSUME NoneIsApart == None \notin Abilities /\ None \notin BarSlots /\ None \notin Rows

VARIABLES
    avail,      \* the abilities the selected squads have
    cursor,     \* the ability the frame's next update is for
    ui,         \* the bar: [shown, visible, clash]; clash: stock emptied a slot
    shift,      \* how far each window is from its slot
    submenu,    \* a submenu is open
    labels,     \* the order cells whose key label the row shows
    now, lastSeen,  \* each slot's available abilities this frame and last frame
    picked,     \* the ability last picked for each slot
    openRow,    \* the open row, or None
    activate,   \* a slot picked by key, activated at the next frame
    deferred,   \* the last such activation: [slot, ability]
    quiet       \* frames since the abilities changed or a row closed

pluginVars == <<now, lastSeen, picked, openRow, activate>>
groupVars == <<avail, cursor, ui, shift, submenu, labels, now, lastSeen, picked, openRow,
               activate, deferred, quiet>>

-----------------------------------------------------------------------------
(* External: the stock update shows an available ability in its slot, and  *)
(* empties the slot when another one is shown there already; it hides the  *)
(* window of one that is not available.                                    *)
StockUpdate(u, a, isAvailable) ==
    LET s == SlotOf[a]
        old == u.shown[s]
    IN  IF ~isAvailable
        THEN [u EXCEPT !.shown[s] = IF old = a THEN None ELSE @, !.visible = @ \ {a}]
        ELSE IF old \in {None, a}
        THEN [u EXCEPT !.shown[s] = a, !.visible = @ \cup {a}]
        ELSE [u EXCEPT !.shown[s] = None, !.visible = @ \ {old}, !.clash = TRUE]

(* External: the stock reset hides every window and empties the slots.     *)
StockReset(u) == [u EXCEPT !.shown = [s \in BarSlots |-> None], !.visible = {}]

(* External: what a slot shows is activated; Mine opens its submenu.       *)
Activated(isOpen, a) == isOpen \/ a \in Submenus

-----------------------------------------------------------------------------
(* The ability a slot should show: the one picked last while it lasts.     *)
Desired(available, pick) ==
    IF pick \in available THEN pick ELSE IF available = {} THEN None ELSE Min(available)

(* The row's abilities: in enum order, one per cell while there are cells.  *)
Rank(a, available) == Cardinality({b \in available : b < a})
InRow(r) == {a \in r.available : Rank(a, r.available) < Len(Cells)}
CellOf(a, r) == Cells[Rank(a, r.available) + 1]

Group(s) == Cardinality(lastSeen[s]) >= 2

-----------------------------------------------------------------------------
(* open: the group's windows are shown and moved to the order cells.       *)
Open(s) ==
    IF ui.shown[s] = None
    THEN UNCHANGED <<ui, shift, submenu, labels, openRow>>
    ELSE LET new == [slot |-> s, available |-> lastSeen[s], pressed |-> {}]
         IN  /\ openRow' = new
             /\ submenu' = TRUE
             /\ ui' = [ui EXCEPT !.visible = @ \cup InRow(new)]
             /\ shift' = [a \in Abilities |-> IF a \in InRow(new) THEN shift[a] + 1 ELSE shift[a]]
             /\ labels' = {CellOf(a, new) : a \in InRow(new)}

(* Mutant: the windows of the row stay where the row had them. *)
RestoredNot(r) == shift

(* restore: every window back by what it was moved.                        *)
Restored(r) == [a \in Abilities |-> IF a \in InRow(r) THEN shift[a] - 1 ELSE shift[a]]

(* close: all of the row but the slot's ability are hidden again.          *)
ClosedUi(u, r, pick) ==
    LET leader == IF pick = None THEN u.shown[r.slot] ELSE pick
    IN  [u EXCEPT !.shown[r.slot] = leader, !.visible = @ \ (InRow(r) \ {leader})]

Close(pick, isOpen) ==
    /\ openRow' = None
    /\ shift' = Restored(openRow)
    /\ ui' = ClosedUi(ui, openRow, pick)
    /\ labels' = {}
    /\ submenu' = isOpen
    /\ picked' = IF pick = None THEN picked ELSE [picked EXCEPT ![openRow.slot] = pick]

-----------------------------------------------------------------------------
(* update *)

(* Without a row: pass the ability on as available only when it is the one *)
(* the slot should show, after taking away another one shown there.        *)
Serve(u, available, pick, a, isAvailable) ==
    LET current == u.shown[SlotOf[a]]
        wanted  == Desired(available, pick)
    IN  IF ~isAvailable THEN StockUpdate(u, a, FALSE)
        ELSE IF wanted = None THEN StockUpdate(u, a, current = None)
        ELSE IF wanted # a THEN StockUpdate(u, a, FALSE)
        ELSE IF current \in {None, a} THEN StockUpdate(u, a, TRUE)
        ELSE StockUpdate(StockUpdate(u, current, FALSE), a, TRUE)

(* The first ability of a frame turns the frame's record into the last one. *)
Turned(a, n, l) == IF a = 0 THEN n ELSE l

Noted(a, n) ==
    LET m == IF a = 0 THEN [s \in BarSlots |-> {}] ELSE n
    IN  IF a \in avail THEN [m EXCEPT ![SlotOf[a]] = @ \cup {a}] ELSE m

(* A slot picked by key is activated when the next frame begins. *)
Pending(a) == a = 0 /\ activate # None

RowChanged(a, n) == a = AbilityCount - 1 /\ n[openRow.slot] # openRow.available

UpdateRow(a, n, l, isOpen, left) ==
    \/ /\ ~isOpen /\ left                       \* Hold: may be a click on an entry
       /\ submenu' = TRUE
       /\ lastSeen' = l /\ now' = n
       /\ UNCHANGED <<ui, shift, labels, picked, openRow>>
    \/ /\ isOpen /\ RowChanged(a, n)               \* Close
       /\ Close(None, FALSE)
       /\ lastSeen' = l /\ now' = n
    \/ /\ isOpen /\ ~RowChanged(a, n)              \* Skip
       /\ submenu' = isOpen
       /\ lastSeen' = l /\ now' = n
       /\ UNCHANGED <<ui, shift, labels, picked, openRow>>

(* Cleared: the row is closed and the ability's update runs again, so that *)
(* for the first ability the frame's record turns twice.                   *)
UpdateServed(a, n, l) ==
    LET s == SlotOf[a]
    IN  /\ openRow' = None
        /\ shift' = Restored(openRow)
        /\ labels' = {}
        /\ submenu' = FALSE
        /\ lastSeen' = Turned(a, n, l)
        /\ now' = Noted(a, n)
        /\ ui' = Serve(ClosedUi(ui, openRow, None), lastSeen'[s], picked[s], a, a \in avail)
        /\ UNCHANGED picked

RowUpdate(left) ==
    LET a == cursor
        n == Noted(a, now)
        l == Turned(a, now, lastSeen)
        s == SlotOf[a]
        isOpen == IF Pending(a) THEN Activated(submenu, ui.shown[activate]) ELSE submenu
    IN  /\ activate' = IF Pending(a) THEN None ELSE activate
        /\ deferred' = IF Pending(a) THEN [slot |-> activate, ability |-> ui.shown[activate]]
                       ELSE deferred
        /\ cursor' = (cursor + 1) % AbilityCount
        /\ IF openRow = None
           THEN /\ ui' = Serve(ui, l[s], picked[s], a, a \in avail)
                /\ submenu' = isOpen /\ lastSeen' = l /\ now' = n
                /\ UNCHANGED <<shift, labels, picked, openRow>>
           ELSE IF ~isOpen /\ ~left THEN UpdateServed(a, n, l)
           ELSE UpdateRow(a, n, l, isOpen, left)
        /\ quiet' = IF openRow # None /\ openRow' = None THEN 0
                    ELSE IF cursor' = 0 /\ quiet < 2 THEN quiet + 1 ELSE quiet
        /\ UNCHANGED avail

-----------------------------------------------------------------------------
(* Between two frames.                                                     *)

Counted == quiet' = 0

NoRowChange == UNCHANGED <<shift, labels, picked, openRow>>

(* key, on release: the press is swallowed or stock.                       *)
Key(s) ==
    /\ cursor = 0
    /\ IF openRow # None
       THEN LET isOpen == openRow.slot # s /\ ui.shown[s] # None /\ Activated(FALSE, ui.shown[s])
            IN  Close(None, isOpen)
       ELSE IF Group(s) THEN Open(s) /\ UNCHANGED picked
       ELSE /\ submenu' = (submenu \/ (ui.shown[s] # None /\ Activated(FALSE, ui.shown[s])))
            /\ NoRowChange /\ UNCHANGED ui
    /\ Counted
    /\ UNCHANGED <<avail, cursor, now, lastSeen, activate, deferred>>

(* click: on an entry it picks, on a group's button it opens, on any other *)
(* button it closes the row.  b is a visible ability's button or None.     *)
ClickEntry(b) ==
    /\ cursor = 0
    /\ b # None => b \in ui.visible
    /\ IF openRow # None
       THEN Close(IF b \in InRow(openRow) THEN b ELSE None, b # None /\ Activated(FALSE, b))
       ELSE IF b # None /\ ui.shown[SlotOf[b]] = b /\ Group(SlotOf[b])
       THEN Open(SlotOf[b]) /\ UNCHANGED picked
       ELSE /\ submenu' = (submenu \/ (b # None /\ Activated(FALSE, b)))
            /\ NoRowChange /\ UNCHANGED ui
    /\ Counted
    /\ UNCHANGED <<avail, cursor, now, lastSeen, activate, deferred>>

EntryAt(c) == {a \in InRow(openRow) : CellOf(a, openRow) = c}

OrderPress(c) ==
    /\ cursor = 0
    /\ openRow # None /\ EntryAt(c) # {}
    /\ openRow' = [openRow EXCEPT !.pressed = @ \cup {c}]
    /\ UNCHANGED <<avail, cursor, ui, shift, submenu, labels, now, lastSeen, picked, activate,
                   deferred, quiet>>

(* order_key, on release: acts once for a key pressed while the row is open. *)
OrderRelease(c) ==
    /\ cursor = 0
    /\ openRow # None /\ EntryAt(c) # {} /\ c \in openRow.pressed
    /\ \E a \in EntryAt(c) : Close(a, FALSE)
    /\ activate' = openRow.slot
    /\ Counted
    /\ UNCHANGED <<avail, cursor, now, lastSeen, deferred>>

(* The game clears a submenu itself: a right click, Escape, a left press.  *)
GameClears ==
    /\ cursor = 0 /\ submenu
    /\ submenu' = FALSE
    /\ UNCHANGED <<avail, cursor, ui, shift, labels, pluginVars, deferred, quiet>>

(* Squads gain or lose abilities without a selection change. *)
AbilitiesChange ==
    /\ cursor = 0
    /\ avail' \in (SUBSET Abilities) \ {avail}
    /\ quiet' = 0
    /\ UNCHANGED <<cursor, ui, shift, submenu, labels, pluginVars, deferred>>

Forgotten == None

(* reset: a selection change.                                              *)
Reset ==
    /\ cursor = 0
    /\ avail' \in SUBSET Abilities
    /\ activate' = Forgotten
    /\ openRow' = None
    /\ shift' = IF openRow = None THEN shift ELSE Restored(openRow)
    /\ labels' = {}
    /\ ui' = StockReset(ui)
    /\ submenu' \in {FALSE, submenu}
    /\ quiet' = 0
    /\ UNCHANGED <<cursor, now, lastSeen, picked, deferred>>

GroupInit ==
    /\ avail = {}
    /\ cursor = 0
    /\ ui = [shown |-> [s \in BarSlots |-> None], visible |-> {}, clash |-> FALSE]
    /\ shift = [a \in Abilities |-> 0]
    /\ submenu = FALSE
    /\ labels = {}
    /\ now = [s \in BarSlots |-> {}] /\ lastSeen = now
    /\ picked = [s \in BarSlots |-> None]
    /\ openRow = None
    /\ activate = None
    /\ deferred = None
    /\ quiet = 0

(* bar_destroy: the next bar starts from nothing. *)
Destroy ==
    /\ cursor = 0
    /\ avail' = {}
    /\ shift' = [a \in Abilities |-> 0]
    /\ ui' = StockReset(ui)
    /\ submenu' = FALSE /\ labels' = {}
    /\ now' = [s \in BarSlots |-> {}] /\ lastSeen' = now'
    /\ picked' = [s \in BarSlots |-> None]
    /\ openRow' = None /\ activate' = None
    /\ quiet' = 0
    /\ UNCHANGED <<cursor, deferred>>

GroupNext ==
    \/ \E left \in BOOLEAN : RowUpdate(left)
    \/ \E s \in BarSlots : Key(s)
    \/ \E b \in Abilities \cup {None} : ClickEntry(b)
    \/ \E c \in RowCells : OrderPress(c) \/ OrderRelease(c)
    \/ GameClears \/ AbilitiesChange \/ Reset \/ Destroy

GroupSpec == GroupInit /\ [][GroupNext]_groupVars

-----------------------------------------------------------------------------
GroupsTypeOK ==
    /\ avail \subseteq Abilities /\ cursor \in Abilities
    /\ ui \in [shown : [BarSlots -> Abilities \cup {None}], visible : SUBSET Abilities,
              clash : BOOLEAN]
    /\ \A s \in BarSlots : ui.shown[s] \in Of(s, Abilities) \cup {None}
    /\ shift \in [Abilities -> Int] /\ submenu \in BOOLEAN
    /\ now \in [BarSlots -> SUBSET Abilities] /\ lastSeen \in [BarSlots -> SUBSET Abilities]
    /\ \A s \in BarSlots : now[s] \subseteq Of(s, Abilities) /\ lastSeen[s] \subseteq Of(s, Abilities)
    /\ picked \in [BarSlots -> Abilities \cup {None}]
    /\ openRow # None => openRow \in Rows /\ openRow.available \subseteq Of(openRow.slot, Abilities)
    /\ activate \in BarSlots \cup {None}
    /\ quiet \in 0..2

(***************************************************************************)
(* No window is lost: whatever closed the row (a key, a click, a pick, the *)
(* game clearing the submenu, abilities changing under it, a selection     *)
(* change), every window stands in its slot again, no label of the row is  *)
(* left, and a frame later only what the slots show is visible.            *)
(***************************************************************************)
WindowsComeHome ==
    /\ \A a \in Abilities :
           shift[a] = IF openRow # None /\ a \in InRow(openRow) THEN 1 ELSE 0
    /\ openRow = None => labels = {}
    /\ (openRow = None /\ cursor = 0 /\ quiet > 0) =>
           \A a \in ui.visible : ui.shown[SlotOf[a]] = a
    /\ \A s \in BarSlots : ui.shown[s] # None => ui.shown[s] \in ui.visible

(***************************************************************************)
(* The stock bar never empties a slot for a conflict: "update never lets   *)
(* that happen", through rows opened, abilities coming and going, picks.   *)
(***************************************************************************)
NoSlotConflict == ~ui.clash

(***************************************************************************)
(* Two frames after the last change, with no row open, each slot shows the *)
(* ability picked last if the squads have it, else the first they have.    *)
(***************************************************************************)
SlotShowsItsAbility ==
    (cursor = 0 /\ openRow = None /\ quiet = 2) =>
        \A s \in BarSlots : ui.shown[s] = Desired(Of(s, avail), picked[s])

(***************************************************************************)
(* A pick by key is activated at the next frame, and is the pick: whatever *)
(* came in between, a deferred activation never hits an empty slot or an   *)
(* ability of another selection (order_key, update, reset).                *)
(***************************************************************************)
DeferredIsThePick ==
    deferred # None => deferred.ability # None

(***************************************************************************)
(* An open row offers what the squads have: a whole frame with changed     *)
(* abilities closes it (update's Close), even one in which a press held it *)
(* open while the game had cleared the submenu.                            *)
(***************************************************************************)
RowIsCurrent ==
    (openRow # None /\ cursor = 0 /\ quiet > 0) => openRow.available = Of(openRow.slot, avail)

(* The ability row is the selection's own: its windows come home, no slot   *)
(* is asked for twice, and each shows, and defers, the ability picked.      *)
AbilityRowSound ==
    /\ GroupsTypeOK /\ WindowsComeHome /\ NoSlotConflict /\ SlotShowsItsAbility
    /\ DeferredIsThePick /\ RowIsCurrent
=============================================================================
