----------------------------- MODULE CoverMarkers -----------------------------
(***************************************************************************)
(* The cover-markers plugin (plugins/cover-markers): arrows drawn through  *)
(* spare move cursors of the game, which borrow the tactical scene, and    *)
(* the bookkeeping of which ordered soldier each arrow waits for.          *)
(*                                                                         *)
(* Everything runs on the game thread, inside hooks; what varies is the    *)
(* order in which the game calls them. Positions and times appear only as  *)
(* what they decide: which soldier an arrow is matched with at an arrival  *)
(* check and how long it has held still. A dead soldier's position cannot  *)
(* be read any more, so he never matches.                                  *)
(***************************************************************************)
EXTENDS Integers, Sequences, FiniteSets, SequencesExt, FiniteSetsExt

CONSTANTS
    Soldiers,    \* the soldiers with a position track
    MaxMarkers,  \* MAX_MARKERS
    Settle,      \* arrival checks an arrow's soldier has to hold still
    MaxOrders,   \* bound on the orders given
    MaxScenes,   \* bound on the missions played
    Coordinates  \* of the points the assignment is checked on

ASSUME CoverAssumption == MaxMarkers \in Nat \ {0} /\ Settle \in Nat \ {0}

VARIABLES
    scene,      \* the live tactical scene, or 0
    cursor,     \* is there a move cursor (a drag)?
    preview,    \* [fresh, tracks]: preview_at is recent; preview_tracks
    visual,     \* the preview, candidate and vehicle visuals: [live, source, scene]
    drawn,      \* order visuals: order ID -> the scene they were made in
    latestOrder, retained,  \* the latest order, and those before it
    boarding,   \* BOARDING_PENDING
    hovering, orders, scenes

coverVars == <<scene, cursor, preview, visual, drawn, latestOrder, retained, boarding,
               hovering, orders, scenes>>

NoOrder == [id |-> 0, scene |-> 0, tracks |-> {}, marks |-> <<>>, owned |-> FALSE]
NoVisual == [live |-> FALSE, source |-> FALSE, scene |-> 0]
NewMark == [owner |-> {}, who |-> {}, held |-> 0, by |-> {}]

CoverInit ==
    /\ scene = 0 /\ cursor = FALSE /\ preview = [fresh |-> FALSE, tracks |-> {}]
    /\ visual = [v \in {"preview", "candidate", "vehicle"} |-> NoVisual]
    /\ drawn = <<>> /\ latestOrder = NoOrder /\ retained = <<>> /\ boarding = {}
    /\ hovering = FALSE /\ orders = 0 /\ scenes = 0

----------------------------------------------------------------------------
(* minimum_distance_assignment: the Hungarian method, one row at a time.    *)
(* rows[r] goes to columns[result[r]]; potentials u and v, and the          *)
(* alternating path back from the free column that ends a row's search.     *)
Squared(a, b) == (a - b) * (a - b)

SearchStep(rows, columns, st) ==
    LET used == st.used \cup {st.col}
        row == st.owner[st.col]
        reduced(c) == Squared(rows[row], columns[c]) - st.u[row] - st.v[c]
        free == DOMAIN columns \ used
        closer == {c \in free : st.best[c] < 0 \/ reduced(c) < st.best[c]}
        best == [c \in DOMAIN columns |-> IF c \in closer THEN reduced(c) ELSE st.best[c]]
        from == [c \in DOMAIN columns |-> IF c \in closer THEN st.col ELSE st.from[c]]
        next == CHOOSE c \in free : \A d \in free : best[c] < best[d] \/ (best[c] = best[d] /\ c <= d)
        step == best[next]
    IN [st EXCEPT
           !.used = used, !.from = from, !.col = next,
           !.u = [r \in DOMAIN rows |->
                    IF \E c \in used : st.owner[c] = r THEN @[r] + step ELSE @[r]],
           !.v = [c \in DOMAIN @ |-> IF c \in used THEN @[c] - step ELSE @[c]],
           !.best = [c \in DOMAIN columns |-> IF c \in free THEN best[c] - step ELSE best[c]]]

(* Until a column is free: a column that is not is searched once.           *)
SearchColumn(rows, columns, start) ==
    FoldLeft(LAMBDA st, k : IF st.owner[st.col] = 0 THEN st ELSE SearchStep(rows, columns, st),
             start, columns)

(* Back to column 0, along a path that meets no column twice.               *)
Augment(found, columns) ==
    FoldLeft(LAMBDA st, k : IF st.col = 0 THEN st
                            ELSE [st EXCEPT !.owner[st.col] = st.owner[st.from[st.col]],
                                            !.col = st.from[st.col]],
             found, columns)

(* Costs are at least 0 in every search, so -1 stands for infinity. *)
MinimumDistanceAssignment(rows, columns) ==
    LET start == [owner |-> [c \in 0..Len(columns) |-> 0], u |-> [r \in DOMAIN rows |-> 0],
                  v |-> [c \in 0..Len(columns) |-> 0]]
        add(st, r) ==
            LET found == SearchColumn(rows, columns,
                            [owner |-> [st.owner EXCEPT ![0] = r], u |-> st.u, v |-> st.v,
                             col |-> 0, used |-> {},
                             best |-> [c \in DOMAIN columns |-> -1],
                             from |-> [c \in DOMAIN columns |-> 0]])
                done == Augment(found, columns)
            IN [owner |-> done.owner, u |-> done.u, v |-> done.v]
        final == FoldLeft(add, start, [r \in DOMAIN rows |-> r])
    IN [r \in DOMAIN rows |-> CHOOSE c \in DOMAIN columns : final.owner[c] = r]

----------------------------------------------------------------------------
Open(mark) == mark.by = {}

(* retain_unordered: without the soldiers S, the arrows that reached their  *)
(* soldier, and all but the first arrow of each owner.                      *)
RetainUnordered(order, S) ==
    LET stays(k) == LET m == order.marks[k]
                    IN /\ Open(m) /\ m.owner \cap S = {}
                       /\ ~\E j \in 1..(k - 1) : /\ m.owner # {} /\ order.marks[j].owner = m.owner
                                                 /\ Open(order.marks[j])
        kept == SelectSeq([k \in DOMAIN order.marks |-> k], stays)
        tracks == order.tracks \ S
    IN [order EXCEPT
           !.tracks = tracks, !.owned = TRUE,
           !.marks = IF tracks = {} THEN <<>>
                     ELSE [k \in DOMAIN kept |->
                              [order.marks[kept[k]] EXCEPT !.who = {}, !.held = 0]]]

HasMarks(order) == order.marks # <<>>
ShownMarks(order) == Cardinality({k \in DOMAIN order.marks : Open(order.marks[k])})
Total(seq) == FoldLeft(LAMBDA n, o : n + Len(o.marks), 0, seq)

(* retire_tracks *)
RetireTracks(S) ==
    IF S = {} THEN UNCHANGED <<latestOrder, retained>>
    ELSE LET c == RetainUnordered(latestOrder, S)
         IN /\ retained' = SelectSeq([k \in DOMAIN retained |-> RetainUnordered(retained[k], S)],
                                     HasMarks)
            /\ latestOrder' = IF HasMarks(c) THEN c ELSE NoOrder

(* From the oldest on, no more of them than make room.                      *)
DropOldest(seq) ==
    LET rest(n) == SubSeq(seq, n + 1, Len(seq))
    IN rest(Min({n \in 0..Len(seq) : Total(rest(n)) < MaxMarkers}))

(* start_order, record_move_point: the previous order keeps the arrows of   *)
(* soldiers who are not ordered now; with no tracks it is dropped.          *)
StartOrder(S, n) ==
    LET others == SelectSeq([k \in DOMAIN retained |-> RetainUnordered(retained[k], S)], HasMarks)
        previous == RetainUnordered(latestOrder, S)
        kept == IF HasMarks(latestOrder) /\ S # {} /\ HasMarks(previous)
                THEN Append(others, previous) ELSE others
    IN /\ latestOrder' = [id |-> orders + 1, scene |-> visual["preview"].scene, tracks |-> S,
                      marks |-> [k \in 1..n |-> NewMark], owned |-> FALSE]
       /\ retained' = DropOldest(kept)

----------------------------------------------------------------------------
MissionBegins ==
    /\ scene = 0 /\ scenes < MaxScenes
    /\ scenes' = scenes + 1 /\ scene' = scenes + 1
    /\ UNCHANGED <<cursor, preview, visual, drawn, latestOrder, retained, boarding, hovering, orders>>

Drawn(source) == [live |-> TRUE, source |-> source, scene |-> scene]

(* cursor_update, preview: a drag with soldiers S selected; {} when one of  *)
(* them has no position to track.                                           *)
CursorUpdate(S) ==
    /\ scene # 0
    /\ cursor' = TRUE /\ hovering' = FALSE
    /\ preview' = [fresh |-> TRUE, tracks |-> S]
    /\ visual' = [visual EXCEPT !["preview"] = Drawn(TRUE), !["candidate"] = NoVisual]
    /\ UNCHANGED <<scene, drawn, latestOrder, retained, boarding, orders, scenes>>

(* cursor_update with an active move-preview handler, which places both. *)
CursorHandled ==
    /\ scene # 0
    /\ cursor' = TRUE /\ hovering' = FALSE
    /\ preview' = [fresh |-> FALSE, tracks |-> {}]
    /\ visual' = [visual EXCEPT !["preview"] = Drawn(TRUE), !["candidate"] = Drawn(TRUE)]
    /\ UNCHANGED <<scene, drawn, latestOrder, retained, boarding, orders, scenes>>

(* facet_update, hover: without a drag the handler's markers follow the     *)
(* hovered command, which dies next frame: no source is kept.               *)
Hover ==
    /\ scene # 0 /\ ~cursor
    /\ hovering' = TRUE
    /\ visual' = [visual EXCEPT !["preview"] = Drawn(FALSE), !["candidate"] = Drawn(FALSE)]
    /\ UNCHANGED <<scene, cursor, preview, drawn, latestOrder, retained, boarding, orders, scenes>>

EndHover ==
    /\ scene # 0 /\ hovering /\ hovering' = FALSE
    /\ visual' = [visual EXCEPT !["preview"] = NoVisual, !["candidate"] = NoVisual]
    /\ UNCHANGED <<scene, cursor, preview, drawn, latestOrder, retained, boarding, orders, scenes>>

(* issue_order, move_point: n points of one order, at most MAX_MARKERS of   *)
(* them kept. Vehicles in the selection get their own markers at once.      *)
IssueOrder(n, vehicles) ==
    /\ cursor /\ preview.fresh /\ orders < MaxOrders
    /\ StartOrder(preview.tracks, IF n > MaxMarkers THEN MaxMarkers ELSE n)
    /\ orders' = orders + 1
    /\ visual' = IF vehicles THEN [visual EXCEPT !["vehicle"] = Drawn(FALSE)] ELSE visual
    /\ UNCHANGED <<scene, cursor, preview, drawn, boarding, hovering, scenes>>

(* handled_order: the handler gives the order; the stock one is skipped. *)
OrderHandled ==
    /\ cursor
    /\ visual' = [visual EXCEPT !["preview"] = NoVisual, !["candidate"] = NoVisual]
    /\ UNCHANGED <<scene, cursor, preview, drawn, latestOrder, retained, boarding, hovering,
                   orders, scenes>>

(* match_owners: arrows and soldiers are paired off by distance; arrows     *)
(* beyond the soldiers go to the nearest, so an owner may have several.     *)
MatchOwners(order) ==
    {o \in [DOMAIN order.marks -> {{s} : s \in order.tracks}] :
        IF Len(order.marks) <= Cardinality(order.tracks) THEN IsInjective(o)
        ELSE UNION Range(o) = order.tracks}

Owned(order, o) ==
    [order EXCEPT !.owned = TRUE,
                  !.marks = [k \in DOMAIN @ |-> [@[k] EXCEPT !.owner = o[k]]]]

(* cursor_destructor *)
CursorDestroyed ==
    /\ cursor /\ cursor' = FALSE
    /\ preview' = [preview EXCEPT !.fresh = FALSE]
    /\ IF HasMarks(latestOrder) /\ ~latestOrder.owned /\ latestOrder.tracks # {}
       THEN \E o \in MatchOwners(latestOrder) : latestOrder' = Owned(latestOrder, o)
       ELSE UNCHANGED latestOrder
    /\ visual' = [v \in DOMAIN visual |->
                     IF v # "vehicle" /\ visual[v].source THEN NoVisual ELSE visual[v]]
    /\ UNCHANGED <<scene, drawn, retained, boarding, hovering, orders, scenes>>

(* squad_order (Stop) and garrison_handoff act at once. *)
StoppedOrGarrisoned(S) ==
    /\ scene # 0
    /\ RetireTracks(S)
    /\ UNCHANGED <<scene, cursor, preview, visual, drawn, boarding, hovering, orders, scenes>>

(* boarding_handoff waits for the frame, after the order call has ended. *)
BoardingHandoff(s) ==
    /\ scene # 0
    /\ boarding' = boarding \cup {s}
    /\ UNCHANGED <<scene, cursor, preview, visual, drawn, latestOrder, retained, hovering, orders, scenes>>

----------------------------------------------------------------------------
(* arrived: each open arrow is matched with at most one soldier near it,    *)
(* its owner if it has one, who has moved and has cleared no other arrow of *)
(* the order; it counts while he holds still.                               *)
Matchings(order) ==
    LET busy == UNION {order.marks[k].by : k \in DOMAIN order.marks}
        fits(k) == IF ~Open(order.marks[k]) THEN {{}}
                   ELSE {{}} \cup {{s} : s \in {t \in order.tracks \ busy :
                                                  order.marks[k].owner \in {{}, {t}}}}
    IN {m \in [DOMAIN order.marks -> {{}} \cup {{s} : s \in order.tracks}] :
          /\ \A k \in DOMAIN m : m[k] \in fits(k)
          /\ \A j, k \in DOMAIN m : j # k /\ m[j] # {} => m[j] # m[k]}

(* Still: the arrows whose soldier held still since the last check. *)
Checked(order, match, still) ==
    [order EXCEPT !.marks = [k \in DOMAIN @ |->
        IF ~Open(@[k]) THEN @[k]
        ELSE IF match[k] = {} THEN [@[k] EXCEPT !.who = {}, !.held = 0]
        ELSE IF match[k] # @[k].who \/ k \notin still
        THEN [@[k] EXCEPT !.who = match[k], !.held = 0]
        ELSE IF @[k].held >= Settle THEN [@[k] EXCEPT !.by = match[k]]
        ELSE [@[k] EXCEPT !.held = @ + 1]]]

AllArrived(order) == \A k \in DOMAIN order.marks : ~Open(order.marks[k])

(* visible_orders: in the order of the list, as far as MAX_MARKERS reaches. *)
Displays(c, r) ==
    LET all == <<c>> \o r
        before(k) == FoldLeft(LAMBDA n, j : n + ShownMarks(all[j]), 0, [i \in 1..(k - 1) |-> i])
    IN {all[k] : k \in {i \in DOMAIN all : /\ all[i].id # 0 /\ all[i].scene # 0
                                           /\ ShownMarks(all[i]) > 0 /\ before(i) < MaxMarkers}}

(* update_order_visuals *)
UpdateOrderVisuals(displays) ==
    [i \in {o.id : o \in displays} |->
        IF i \in DOMAIN drawn THEN drawn[i] ELSE (CHOOSE o \in displays : o.id = i).scene]

(* mission_frame: boarded soldiers leave, arrivals are checked, the order   *)
(* visuals follow. (The vehicles' cache is the same with one order.)        *)
MissionFrame ==
    /\ scene # 0
    /\ boarding' = {}
    /\ LET c0 == IF boarding = {} THEN latestOrder
                 ELSE LET c == RetainUnordered(latestOrder, boarding)
                      IN IF HasMarks(c) THEN c ELSE NoOrder
           r0 == IF boarding = {} THEN retained
                 ELSE SelectSeq([k \in DOMAIN retained |-> RetainUnordered(retained[k], boarding)],
                                HasMarks)
       IN \E m \in Matchings(c0) : \E still \in SUBSET {k \in DOMAIN m : m[k] # {}} :
             LET c1 == Checked(c0, m, still)
             IN /\ latestOrder' = IF HasMarks(c1) /\ AllArrived(c1) THEN NoOrder ELSE c1
                /\ retained' \in {r0, SelectSeq(r0, LAMBDA o : o # Head(r0))}
                /\ r0 = <<>> => retained' = <<>>
                /\ drawn' = UpdateOrderVisuals(Displays(latestOrder', retained'))
    /\ \E done \in {FALSE, visual["vehicle"].live} : visual' = IF done THEN [visual EXCEPT !["vehicle"] = NoVisual] ELSE visual
    /\ UNCHANGED <<scene, cursor, preview, hovering, orders, scenes>>

(* Mutant: the order visuals are forgotten. *)
MissionEndsKeeping ==
    /\ scene # 0 /\ scene' = 0 /\ cursor' = FALSE
    /\ visual' = [v \in DOMAIN visual |-> NoVisual] /\ UNCHANGED drawn
    /\ boarding' = {} /\ latestOrder' = NoOrder /\ retained' = <<>>
    /\ preview' = [fresh |-> FALSE, tracks |-> {}]
    /\ UNCHANGED <<hovering, orders, scenes>>

(* mission_deleting_destructor: every visual goes while the scene it        *)
(* borrows still lives.                                                     *)
MissionEnds ==
    /\ scene # 0 /\ scene' = 0 /\ cursor' = FALSE
    /\ visual' = [v \in DOMAIN visual |-> NoVisual] /\ drawn' = <<>>
    /\ boarding' = {} /\ latestOrder' = NoOrder /\ retained' = <<>>
    /\ preview' = [fresh |-> FALSE, tracks |-> {}]
    /\ UNCHANGED <<hovering, orders, scenes>>

CoverNext ==
    \/ MissionBegins \/ MissionEnds \/ MissionFrame
    \/ \E S \in SUBSET Soldiers : CursorUpdate(S)
    \/ CursorHandled \/ Hover \/ EndHover \/ OrderHandled \/ CursorDestroyed
    \/ \E n \in 1..(Cardinality(Soldiers) + 1), v \in BOOLEAN : IssueOrder(n, v)
    \/ \E S \in SUBSET Soldiers : StoppedOrGarrisoned(S)
    \/ \E s \in Soldiers : BoardingHandoff(s)

CoverSpec == CoverInit /\ [][CoverNext]_coverVars

----------------------------------------------------------------------------
(* A spare cursor borrows the scene it was built in: none outlives it, so   *)
(* no draw of a later frame or mission touches a scene that was deleted,    *)
(* and one that refreshes from the stock cursor goes with that cursor.      *)
NoVisualOutlivesItsScene ==
    /\ \A v \in DOMAIN visual : visual[v].live => visual[v].scene = scene /\ scene # 0
    /\ \A v \in {"preview", "candidate"} : visual[v].source => cursor
    /\ \A i \in DOMAIN drawn : drawn[i] = scene

(* A soldier belongs to one order: whatever the sequence of orders, stops,  *)
(* boardings and arrivals, the latest order he is part of is the only one   *)
(* with an arrow that waits for him.                                        *)
OneOrderPerSoldier ==
    LET all == <<latestOrder>> \o retained
    IN \A j, k \in DOMAIN all : j # k => all[j].tracks \cap all[k].tracks = {}

(* Every arrow that knows its owner waits for a soldier of its own order,   *)
(* so an arrival, a stop or a handoff can still clear it.                   *)
OwnersAreOrdered ==
    LET all == <<latestOrder>> \o retained
    IN \A j \in DOMAIN all : \A k \in DOMAIN all[j].marks :
          Open(all[j].marks[k]) => all[j].marks[k].owner \subseteq all[j].tracks

Rows(S) == UNION {[1..n -> S] : n \in 1..3}
Cost(rows, columns, a) ==
    FoldLeft(LAMBDA n, r : n + Squared(rows[r], columns[a[r]]), 0, [r \in DOMAIN rows |-> r])

(* The assignment of arrows to soldiers has the least total distance.       *)
AssignmentIsOptimal ==
    \A rows \in Rows(Coordinates), columns \in Rows(Coordinates) :
        Len(rows) <= Len(columns) =>
            LET a == MinimumDistanceAssignment(rows, columns)
            IN /\ IsInjective(a)
               /\ \A b \in [DOMAIN rows -> DOMAIN columns] :
                     IsInjective(b) => Cost(rows, columns, a) <= Cost(rows, columns, b)

(* The markers shown are those of the orders that stand, and no others.     *)
MarkersSound ==
    NoVisualOutlivesItsScene /\ OneOrderPerSoldier /\ OwnersAreOrdered /\ AssignmentIsOptimal
=============================================================================
