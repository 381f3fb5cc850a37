---------------------------- MODULE RenderSorts ----------------------------
(***************************************************************************)
(* The two sorts the performance plugin runs in place of the game's own    *)
(* (plugins/performance/src): the grass renderer's (grass.rs), a port of   *)
(* MSVC's introsort over keys computed once, and the main view's           *)
(* (view_sort.rs), a stable sort over keys read once.  The game's          *)
(* comparisons are kept as the reference.                                  *)
(*                                                                         *)
(* An item is its key; its identity is its place in the list as given.     *)
(* A distance is a small number, or NotNumber, of which every comparison   *)
(* is false.  The port's thresholds are parameters, so that short lists    *)
(* reach every branch.                                                     *)
(***************************************************************************)
EXTENDS Naturals, Sequences, FiniteSets, NoValue

CONSTANTS GrassLists,   \* the lists of distances the grass sort is given
          Budgets,      \* the partition budgets it is called with
          IsortMax,     \* ISORT_MAX: a range this short is insertion-sorted
          NintherAbove, \* a range longer than this guesses with nine items
          ViewLists,    \* the lists of objects the main view sorts
          ByDistance,   \* the type ordered by distance
          NotNumber    \* a distance that is not a number

VARIABLES
    sortList,       \* the list to sort: its keys by place
    budget,     \* the grass sort's budget, or None for the main view's
    sorted      \* the places in their new order, or None before the sort

sortVars == <<sortList, budget, sorted>>

RECURSIVE SortRange(_, _, _, _), Insert(_, _, _), Partition(_), Sink(_, _, _, _),
          Rise(_, _, _, _, _), MakeHeap(_, _, _, _), SortHeap(_, _, _),
          SkipBelow(_, _), SkipAbove(_, _), GrowDown(_, _), GrowUp(_, _),
          InsertSort(_, _, _, _)

SortInit ==
    /\ sorted = None
    /\ \/ sortList \in GrassLists /\ budget \in Budgets
       \/ sortList \in ViewLists /\ budget = None

-----------------------------------------------------------------------------
(* The grass sort.  A vector is a function of 0..n-1 to places of the list. *)

(* Far to near: a before b when a's distance is greater. *)
Lt(a, b) ==
    /\ sortList[a] # NotNumber
    /\ sortList[b] # NotNumber
    /\ sortList[a] > sortList[b]

Swap(v, i, j) == [v EXCEPT ![i] = v[j], ![j] = v[i]]

(* The hole's way down to where val belongs. *)
Insert(v, hole, val) ==
    IF Lt(val, v[hole - 1]) THEN Insert([v EXCEPT ![hole] = v[hole - 1]], hole - 1, val)
                            ELSE [v EXCEPT ![hole] = val]

(* insertion_sort from mid on. *)
InsertSort(v, first, last, mid) ==
    IF mid >= last THEN v
    ELSE InsertSort(
           IF Lt(v[mid], v[first])
           THEN [i \in DOMAIN v |-> IF i = first THEN v[mid]
                                    ELSE IF i > first /\ i <= mid THEN v[i - 1] ELSE v[i]]
           ELSE Insert(v, mid, v[mid]),
           first, last, mid + 1)

Med3(v, first, mid, last) ==
    LET a == IF Lt(v[mid], v[first]) THEN Swap(v, mid, first) ELSE v
        b == Swap(a, last, mid)
    IN IF Lt(a[last], a[mid])
       THEN IF Lt(b[mid], b[first]) THEN Swap(b, mid, first) ELSE b
       ELSE a

(* guess_median, last inclusive. *)
GuessMedian(v, first, mid, last) ==
    LET count == last - first
        s     == (count + 1) \div 8
    IN IF count > NintherAbove
       THEN Med3(Med3(Med3(Med3(v, first, first + s, first + 2 * s),
                           mid - s, mid, mid + s),
                      last - 2 * s, last - s, last),
                 first + s, mid, last - s)
       ELSE Med3(v, first, mid, last)

Ties(v, i, j) == ~Lt(v[i], v[j]) /\ ~Lt(v[j], v[i])

(* The items equal to the pivot on either side of it. *)
GrowDown(s, first) ==
    IF first < s.pfirst /\ Ties(s.v, s.pfirst - 1, s.pfirst)
    THEN GrowDown([s EXCEPT !.pfirst = @ - 1], first) ELSE s

GrowUp(s, last) ==
    IF s.plast < last /\ Ties(s.v, s.plast, s.pfirst)
    THEN GrowUp([s EXCEPT !.plast = @ + 1], last) ELSE s

(* The scan to the right, past what follows the pivot. *)
SkipAbove(s, last) ==
    IF s.gfirst = last \/ Lt(s.v[s.gfirst], s.v[s.pfirst]) THEN s
    ELSE IF Lt(s.v[s.pfirst], s.v[s.gfirst])
    THEN SkipAbove([s EXCEPT !.gfirst = @ + 1], last)
    ELSE SkipAbove([s EXCEPT !.v = Swap(s.v, s.plast, s.gfirst),
                             !.plast = @ + 1, !.gfirst = @ + 1], last)

(* The scan to the left, past what precedes it. *)
SkipBelow(s, first) ==
    IF s.glast = first \/ Lt(s.v[s.pfirst], s.v[s.glast - 1]) THEN s
    ELSE IF Lt(s.v[s.glast - 1], s.v[s.pfirst])
    THEN SkipBelow([s EXCEPT !.glast = @ - 1], first)
    ELSE SkipBelow([s EXCEPT !.v = Swap(s.v, s.pfirst - 1, s.glast - 1),
                             !.pfirst = @ - 1, !.glast = @ - 1], first)

(* One exchange after both scans have stopped. *)
RotateRight(s) ==
    LET w == IF s.plast # s.gfirst THEN Swap(s.v, s.pfirst, s.plast) ELSE s.v
    IN [s EXCEPT !.v = Swap(w, s.pfirst, s.gfirst), !.plast = @ + 1,
                 !.pfirst = @ + 1, !.gfirst = @ + 1]

RotateLeft(s) ==
    LET w == Swap(s.v, s.glast - 1, s.pfirst - 1)
    IN [s EXCEPT !.v = Swap(w, s.pfirst - 1, s.plast - 1), !.glast = @ - 1,
                 !.pfirst = @ - 1, !.plast = @ - 1]

Exchange(s) ==
    [s EXCEPT !.v = Swap(s.v, s.gfirst, s.glast - 1), !.glast = @ - 1, !.gfirst = @ + 1]

(* partition_by_median_guess's loop: the range equal to the pivot. *)
Partition(s) ==
    LET t == SkipBelow(SkipAbove(s, s.last), s.first)
    IN CASE t.glast = t.first /\ t.gfirst = t.last -> t
         [] t.glast = t.first /\ t.gfirst # t.last -> Partition(RotateRight(t))
         [] t.glast # t.first /\ t.gfirst = t.last -> Partition(RotateLeft(t))
         [] OTHER -> Partition(Exchange(t))

PartitionByMedian(v, first, last) ==
    LET mid == first + (last - first) \div 2
        s   == GrowUp(GrowDown([v |-> GuessMedian(v, first, mid, last - 1),
                                first |-> first, last |-> last,
                                pfirst |-> mid, plast |-> mid + 1,
                                gfirst |-> 0, glast |-> 0], first), last)
    IN Partition([s EXCEPT !.gfirst = s.plast, !.glast = s.pfirst])

(* pop_heap_hole's way down and up again. *)
Rise(v, base, top, hole, val) ==
    IF top < hole /\ Lt(v[base + (hole - 1) \div 2], val)
    THEN Rise([v EXCEPT ![base + hole] = v[base + (hole - 1) \div 2]],
              base, top, (hole - 1) \div 2, val)
    ELSE [v EXCEPT ![base + hole] = val]

Sink(v, base, hole, bottom) ==
    LET right == 2 * hole + 2
        idx   == IF Lt(v[base + right], v[base + right - 1]) THEN right - 1 ELSE right
    IN IF hole < (bottom - 1) \div 2
       THEN Sink([v EXCEPT ![base + hole] = v[base + idx]], base, idx, bottom)
       ELSE IF hole = (bottom - 1) \div 2 /\ bottom % 2 = 0
       THEN [v |-> [v EXCEPT ![base + hole] = v[base + bottom - 1]], hole |-> bottom - 1]
       ELSE [v |-> v, hole |-> hole]

PopHeapHole(v, base, hole, bottom, val) ==
    LET s == Sink(v, base, hole, bottom)
    IN Rise(s.v, base, hole, s.hole, val)

MakeHeap(v, first, last, hole) ==
    IF hole = 0 THEN v
    ELSE MakeHeap(PopHeapHole(v, first, hole - 1, last - first, v[first + hole - 1]),
                  first, last, hole - 1)

SortHeap(v, first, last) ==
    IF last - first < 2 THEN v
    ELSE SortHeap(PopHeapHole([v EXCEPT ![last - 1] = v[first]], first, 0,
                              last - 1 - first, v[last - 1]), first, last - 1)

(* sort_range: the shorter part by recursion, the longer by the loop. *)
SortRange(v, first, last, ideal) ==
    LET p    == PartitionByMedian(v, first, last)
        left == ideal \div 2 + ideal \div 4
    IN IF last - first <= IsortMax THEN InsertSort(v, first, last, first + 1)
       ELSE IF ideal = 0
       THEN SortHeap(MakeHeap(v, first, last, (last - first) \div 2), first, last)
       ELSE IF p.pfirst - first < last - p.plast
       THEN SortRange(SortRange(p.v, first, p.pfirst, left), p.plast, last, left)
       ELSE SortRange(SortRange(p.v, p.plast, last, left), first, p.pfirst, left)

(* sort_indices: the places, sorted over their keys. *)
SortIndices ==
    LET n == Len(sortList)
        v == SortRange([i \in 0..n - 1 |-> i + 1], 0, n, budget)
    IN [i \in 1..n |-> v[i - 1]]

SortGrass ==
    /\ sorted = None
    /\ budget # None
    /\ sorted' = SortIndices
    /\ UNCHANGED <<sortList, budget>>

-----------------------------------------------------------------------------
(* The main view's sort. *)

(* total_cmp of two distances: one that is not a number is the greatest. *)
Nearer(d, e) ==
    /\ d # NotNumber
    /\ e = NotNumber \/ d < e

(* order: by type, then far to near or by the flag. *)
Before(a, b) ==
    IF sortList[a].kind # sortList[b].kind THEN sortList[a].kind < sortList[b].kind
    ELSE IF sortList[a].kind = ByDistance THEN Nearer(sortList[b].distance, sortList[a].distance)
    ELSE sortList[a].flag < sortList[b].flag

(* sort_by: the objects that go before an object, the earlier of equals too. *)
Ahead(i) == {j \in 1..Len(sortList) : Before(j, i) \/ (~Before(i, j) /\ j < i)}

StableSort ==
    [k \in 1..Len(sortList) |-> CHOOSE i \in 1..Len(sortList) : Cardinality(Ahead(i)) = k - 1]

(* sort_objects's refusal: a distance that is not a number. *)
Refuses == \E i \in 1..Len(sortList) : sortList[i].distance = NotNumber

(* The game's comparison, and its insertion of one more object. *)
Less(a, b) ==
    IF sortList[a].kind # sortList[b].kind THEN sortList[a].kind < sortList[b].kind
    ELSE IF sortList[a].kind = ByDistance
    THEN /\ sortList[a].distance # NotNumber
         /\ sortList[b].distance # NotNumber
         /\ sortList[a].distance > sortList[b].distance
    ELSE sortList[a].flag < sortList[b].flag

Inserted(s, x) ==
    LET stop == {i \in 1..Len(s) : ~Less(x, s[i])}
        at   == IF Less(x, s[1]) THEN 0 ELSE CHOOSE i \in stop : \A j \in stop : j <= i
    IN SubSeq(s, 1, at) \o <<x>> \o SubSeq(s, at + 1, Len(s))

(* The game's sort, which runs when the plugin's refuses. *)
GameSort ==
    LET upTo[n \in 1..Len(sortList)] == IF n = 1 THEN <<1>> ELSE Inserted(upTo[n - 1], n)
    IN upTo[Len(sortList)]

SortView ==
    /\ sorted = None
    /\ budget = None
    /\ sorted' = IF Refuses THEN GameSort ELSE StableSort
    /\ UNCHANGED <<sortList, budget>>

SortNext == SortGrass \/ SortView

SortSpec == SortInit /\ [][SortNext]_sortVars

-----------------------------------------------------------------------------
SortTypeOK == sorted = None \/ DOMAIN sorted = 1..Len(sortList)

(* The grass sort draws every item once, distances that are not numbers
   included, and with every distance a number far to near, whichever of its
   three algorithms a range falls to and however the median guess divides
   it. *)
GrassSorted ==
    budget # None /\ sorted # None =>
      /\ {sorted[i] : i \in 1..Len(sortList)} = 1..Len(sortList)
      /\ \/ \E i \in 1..Len(sortList) : sortList[i] = NotNumber
         \/ \A i, j \in 1..Len(sortList) : i < j => ~Lt(sorted[j], sorted[i])

(* The order of the main view's objects, ties included, is the one the
   game's own sort gives, also with a distance that is not a number. *)
ViewSortIsTheGames == budget = None /\ sorted # None => sorted = GameSort
=============================================================================
