-------------------------- MODULE ExperienceLevels --------------------------
(***************************************************************************)
(* The experience-levels plugin: rows of exp_levels.txt with more than the *)
(* stock number of levels.                                                 *)
(*                                                                         *)
(* A levels object keeps its stock cells; the extra ones are in a side     *)
(* table by the object's address.  An adapter that parses the cells of an  *)
(* object is run once for the stock levels and once per extra level, with  *)
(* the object showing a window of cells that ends at that level.  What the *)
(* game's adapters and resolvers do is external.                           *)
(***************************************************************************)
EXTENDS Naturals, FiniteSets, FiniteSetsExt, Sequences, SequencesExt, NoValue

CONSTANTS
    Objects,        \* addresses of levels objects
    Files,          \* the rows read: [cells, columns], stock cells and extra columns
    Stock,          \* STOCK_LEVELS (6)
    MaxLevels      \* the setting max_levels

Blank == "blank"        \* a cell with text that parses to nothing
Empty == "empty"        \* a cell without text
Default == "default"    \* the adapter's fourth argument

ASSUME LevelsAreBounded == Stock \in Nat \ {0} /\ MaxLevels \in Nat
(* What a cell holds, or an element of the vector an adapter appends to.    *)
Texts == STRING \cup {Default}

ASSUME FilesAreText ==
    \A f \in Files : f.cells \in Seq(Texts) /\ f.columns \in Seq(Texts)

VARIABLES
    ownLevels,        \* each object's cells, None before it is read
    viewOf,       \* the first cell an object shows, 0 for its own cells
    rows,       \* ROWS: all cells of the objects with extra levels
    hookCall,       \* CALL and adapt's locals, or None
    parsedOut,        \* the vector the adapter appends to
    ended       \* the last completed call: [object, before, out, tidy], or None

levelVars == <<ownLevels, viewOf, rows, hookCall, parsedOut, ended>>

-----------------------------------------------------------------------------
(* read_row *)

Present(columns) ==
    {k \in 1..Len(columns) : \A j \in 1..k : columns[j] # Empty /\ Stock + j <= MaxLevels}

(* extra_levels: up to the maximum or the first missing or empty column.   *)
ExtraLevels(cells, columns) ==
    LET n == Cardinality(Present(columns))
    IN  IF Len(cells) # Stock \/ n = 0 THEN None ELSE cells \o SubSeq(columns, 1, n)

Recorded(o, row) == [rows EXCEPT ![o] = row]

(* The object may be a new one at an old one's address.                    *)
ReadRow(o, cells, columns) ==
    /\ hookCall = None
    /\ ownLevels' = [ownLevels EXCEPT ![o] = cells]
    /\ viewOf' = [viewOf EXCEPT ![o] = 0]
    /\ rows' = Recorded(o, ExtraLevels(cells, columns))
    /\ ended' = None
    /\ parsedOut' = <<>>
    /\ UNCHANGED hookCall

-----------------------------------------------------------------------------
(* External: an adapter parses each cell, one that parses to nothing       *)
(* taking the value of the cell before it.                                 *)
ValueAt(cells, k) ==
    LET given == {j \in 1..k : cells[j] \notin {Blank, Empty}}
    IN  IF given = {} THEN Default ELSE cells[Max(given)]

Parse(cells) ==
    IF Len(cells) # Stock THEN <<>> ELSE [k \in 1..Stock |-> ValueAt(cells, k)]

(* External: an adapter that does not add one element per cell. *)
Appended(cells, odd) ==
    IF odd /\ Len(cells) = Stock THEN Front(Parse(cells)) ELSE Parse(cells)

(* The cells an object shows: its own, or a window of its row. *)
CellsShown(o) ==
    IF viewOf[o] = 0 THEN ownLevels[o] ELSE SubSeq(hookCall.row, viewOf[o], viewOf[o] + Stock - 1)

(* restore: the object's own cells again.                                  *)
Restore == [o \in Objects |-> 0]

(* adapt: the stock run, which records the object it resolves and its row. *)
(* A nested adapter resolves another object within the same call.          *)
StockRun(o, nested, odd, before) ==
    LET seen  == IF nested = None THEN o ELSE nested
        added == Appended(ownLevels[o], odd)
    IN  /\ hookCall = None
        /\ ownLevels[o] # None
        /\ nested # None => ownLevels[nested] # None
        /\ parsedOut' = before \o added
        /\ ended' = None
        /\ hookCall' = [target |-> o, object |-> seen, row |-> rows[seen], level |-> Stock + 1,
                    before |-> before, kept |-> Len(before) + Len(added),
                    growth |-> Len(added), tidy |-> nested = None /\ ~odd]
        /\ UNCHANGED <<ownLevels, viewOf, rows>>

(* Growth that is no multiple of the stock levels: the extra are skipped.  *)
HasWindows ==
    /\ hookCall.row # None
    /\ hookCall.growth # 0 /\ hookCall.growth % Stock = 0
    /\ hookCall.level <= Len(hookCall.row)

Shown == \E o \in Objects : viewOf[o] # 0

(* The window of six cells ends at the level.                              *)
WindowStart(level) == level + 1 - Stock

(* resolved, in a window run: only the object of the stock run is shown    *)
(* its window.                                                             *)
ShowWindow ==
    /\ hookCall # None /\ HasWindows /\ ~Shown
    /\ hookCall.target = hookCall.object
    /\ viewOf' = [viewOf EXCEPT ![hookCall.object] = WindowStart(hookCall.level)]
    /\ UNCHANGED <<ownLevels, rows, hookCall, parsedOut, ended>>

(* Mutant: the first element of the window's run is kept. *)
LastOfFirst(added) == added[1]

LastOf(added) == added[Len(added)]

EndWith(v, isTidy) ==
    /\ ended' = [object |-> hookCall.target, before |-> hookCall.before, out |-> v, tidy |-> isTidy]
    /\ hookCall' = None

(* The window's run, its cells put back, and its last element kept; a run  *)
(* that added anything else ends the levels.                               *)
RunWindow(odd) ==
    LET added == Appended(CellsShown(hookCall.target), odd)
    IN  /\ hookCall # None /\ HasWindows
        /\ Shown \/ hookCall.target # hookCall.object
        /\ viewOf' = Restore
        /\ IF ~Shown \/ Len(added) # hookCall.growth
           THEN /\ parsedOut' = SubSeq(parsedOut, 1, hookCall.kept)
                /\ EndWith(parsedOut', FALSE)
           ELSE /\ parsedOut' = Append(parsedOut, LastOf(added))
                /\ hookCall' = [hookCall EXCEPT !.kept = @ + 1, !.level = @ + 1]
                /\ UNCHANGED ended
        /\ UNCHANGED <<ownLevels, rows>>

EndCall ==
    /\ hookCall # None /\ ~HasWindows
    /\ EndWith(parsedOut, hookCall.tidy)
    /\ viewOf' = Restore
    /\ UNCHANGED <<ownLevels, rows, parsedOut>>

Unwound == Restore

(* The adapter unwinds: EndCall's drop restores and clears the call.       *)
Unwind ==
    /\ hookCall # None
    /\ hookCall' = None
    /\ viewOf' = Unwound
    /\ ended' = None
    /\ UNCHANGED <<ownLevels, rows, parsedOut>>

-----------------------------------------------------------------------------
LevelsInit ==
    /\ ownLevels = [o \in Objects |-> None]
    /\ viewOf = [o \in Objects |-> 0]
    /\ rows = [o \in Objects |-> None]
    /\ hookCall = None
    /\ parsedOut = <<>>
    /\ ended = None

LevelsNext ==
    \/ \E o \in Objects, f \in Files : ReadRow(o, f.cells, f.columns)
    \/ \E o \in Objects, nested \in Objects \cup {None}, odd \in BOOLEAN,
          before \in {<<>>, <<Default>>} : StockRun(o, nested, odd, before)
    \/ ShowWindow
    \/ \E odd \in BOOLEAN : RunWindow(odd)
    \/ EndCall
    \/ Unwind

LevelsSpec == LevelsInit /\ [][LevelsNext]_levelVars

-----------------------------------------------------------------------------
LevelsTypeOK ==
    /\ ownLevels \in [Objects -> {f.cells : f \in Files} \cup {None}]
    /\ rows \in [Objects -> Seq(Texts) \cup {None}]
    /\ \A o \in Objects : rows[o] # None => Len(rows[o]) \in (Stock + 1)..MaxLevels
    /\ viewOf \in [Objects -> 0..MaxLevels]

(***************************************************************************)
(* Outside an adapter call every object shows its own cells, so that the   *)
(* game's own checks of six cells hold: whatever ended the call, a run     *)
(* that added something unexpected or an unwinding one included (restore,  *)
(* EndCall).                                                               *)
(***************************************************************************)
CellsComeHome == hookCall = None => viewOf = [o \in Objects |-> 0]

(* The levels a whole row would be parsed to. *)
WholeParse(cells) == [k \in 1..Len(cells) |-> ValueAt(cells, k)]

AllCells(o) == IF rows[o] = None THEN ownLevels[o] ELSE rows[o]

(* No stock-long run of cells that parse to nothing. *)
WindowsSeeAValue(cells) ==
    \A k \in Stock..Len(cells) : \E j \in (k + 1 - Stock)..k : cells[j] \notin {Blank, Empty}

(***************************************************************************)
(* An adapter's result is what one parse of the whole row would give, all  *)
(* of it when the adapter behaves and a prefix of it when not; the side    *)
(* table's row is that of the object now at the address.  Said of the rows *)
(* in which every window has a cell with a value.                          *)
(***************************************************************************)
LevelsParsed ==
    (/\ ended # None
     /\ Len(ownLevels[ended.object]) = Stock
     /\ WindowsSeeAValue(AllCells(ended.object))) =>
        LET all == ended.before \o WholeParse(AllCells(ended.object))
        IN  IF ended.tidy THEN ended.out = all ELSE IsPrefix(ended.out, all)

(***************************************************************************)
(* The row the side table keeps is the object's own cells and the columns  *)
(* after them without a gap, at any sequence of reads at an address.       *)
(***************************************************************************)
RowsAreTheirObjects ==
    \A o \in Objects : rows[o] # None =>
        /\ ownLevels[o] = SubSeq(rows[o], 1, Stock)
        /\ \A k \in (Stock + 1)..Len(rows[o]) : rows[o][k] # Empty

-----------------------------------------------------------------------------
(***************************************************************************)
(* The experience meter of the info panel, laid out after each update of   *)
(* the panel for the level count of the squad it shows.  The game's        *)
(* widgets and its own update of the panel are external.                   *)
(***************************************************************************)
CONSTANTS
    StockMarks,     \* the separators of the stock meter (4)
    MostLevels,     \* MOST_LEVELS (65)
    MeterWidth,     \* the meter's width, in pixels
    NotLaid         \* "not laid out"

ASSUME MeterIsDrawn == {StockMarks, MeterWidth} \subseteq Nat \ {0} /\ MostLevels \in Nat

VARIABLE
    meter       \* [made: copies, at: positions, visible, laid: what for]

(* Separators 1..StockMarks are stock, later ones are copies made.         *)
Needed(levels) == IF levels < 3 THEN 0 ELSE levels - 2

(* The k-th boundary between the segments, rounded to the nearest pixel.   *)
Centre(levels, k) ==
    LET segments == levels - 1
    IN  (MeterWidth * k * 2 + segments) \div (2 * segments)

(* The separators: the stock ones and the copies among the parent's children. *)
Found(m) == StockMarks + m.made

(* make: copies up to what is needed; fails of them before one fails.      *)
Make(missing, fails) == IF fails < missing THEN fails ELSE missing

(* lay_out, after the stock update set the stock separators.  A copy that  *)
(* the factory or the parent refuses: the meter shows none.                *)
LayOut(m, levels, hidden, fails) ==
    LET needed  == Needed(levels)
        found   == Found(m)
        missing == IF needed > found THEN needed - found ELSE 0
        all     == m.made + Make(missing, fails)
    IN  IF fails < missing
        THEN [m EXCEPT !.made = all, !.visible = {}, !.laid = NotLaid]
        ELSE [m EXCEPT !.made = all,
                       !.at = [k \in 1..(StockMarks + all) |->
                                  IF k <= needed THEN Centre(levels, k)
                                  ELSE IF k \in DOMAIN m.at THEN m.at[k] ELSE 0],
                       !.visible = IF hidden THEN {} ELSE 1..needed,
                       !.laid = [levels |-> levels, hidden |-> hidden]]

(* External: the stock update shows the stock separators, unless busy. *)
StockDrawn(m, hidden) ==
    [m EXCEPT !.visible = (@ \ (1..StockMarks)) \cup (IF hidden THEN {} ELSE 1..StockMarks),
              !.laid = NotLaid]

(* panel_refresh: nothing is laid out while the panel is busy or for a     *)
(* count that is no level vector.                                          *)
MeterRefresh(levels, hidden, busy, fails) ==
    meter' = LET m == IF busy THEN [meter EXCEPT !.laid = NotLaid] ELSE StockDrawn(meter, hidden)
             IN  IF busy \/ levels \notin 1..MostLevels THEN m
                 ELSE LayOut(m, levels, hidden, fails)

NewMeter == [made |-> 0, at |-> [k \in 1..StockMarks |-> 0], visible |-> {}, laid |-> NotLaid]

(* The game frees the copies with their parent.                            *)
NewPanel == meter' = NewMeter

MeterNext ==
    \/ \E levels \in 0..(MostLevels + 1), hidden, busy \in BOOLEAN, fails \in 0..MostLevels :
           MeterRefresh(levels, hidden, busy, fails)
    \/ NewPanel

MeterInit == meter = NewMeter

MeterSpec == MeterInit /\ [][MeterNext]_meter

(***************************************************************************)
(* A meter that was laid out shows one separator per boundary between two  *)
(* segments, in order and on the nearest pixel, whatever squads with other *)
(* level counts, failed copies or busy updates came before; and the copies *)
(* made are never more than the largest squad needs (lay_out finds them    *)
(* again).                                                                 *)
(***************************************************************************)
MeterIsLaidOut ==
    /\ meter.made <= IF Needed(MostLevels) > StockMarks THEN Needed(MostLevels) - StockMarks ELSE 0
    /\ meter.laid # NotLaid =>
        LET needed   == Needed(meter.laid.levels)
            segments == meter.laid.levels - 1
        IN  /\ meter.visible = IF meter.laid.hidden THEN {} ELSE 1..needed
            /\ \A k \in 1..needed :
                   /\ 2 * meter.at[k] * segments <= 2 * MeterWidth * k + segments
                   /\ 2 * meter.at[k] * segments + segments >= 2 * MeterWidth * k
                   /\ MeterWidth >= segments /\ k > 1 => meter.at[k - 1] < meter.at[k]

(* Extra levels are parsed as written, an object's own cells come back      *)
(* after each call, the side table is of live objects, and the meter shows  *)
(* one separator per boundary.                                              *)
LevelsSound ==
    LevelsTypeOK /\ CellsComeHome /\ LevelsParsed /\ RowsAreTheirObjects /\ MeterIsLaidOut
=============================================================================
