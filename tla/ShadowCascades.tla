---------------------------- MODULE ShadowCascades ----------------------------
(***************************************************************************)
(* The performance plugin's rotation of shadow cascades                    *)
(* (plugins/performance/src/shadow.rs): a frame's shadow pass redraws only *)
(* the layers that are due, and holds the others while the camera's band   *)
(* for them stays within the slice they were drawn for.                    *)
(*                                                                         *)
(* Passes run one after another on the render thread. A slice of the       *)
(* camera frustum is an interval: the camera's place decides every band,   *)
(* the farther ones sweeping further. What each layer of a map really      *)
(* holds is the variable content; the plugin only sees addresses, counts   *)
(* and bands.                                                              *)
(*                                                                         *)
(* Left out: the wrap of the frame counter after 2^32 passes, D3D objects  *)
(* (of which only the answer of layer_views_ready is kept; after it said   *)
(* yes, clear_layers finds the same views in the same pass), the slack of  *)
(* a comparison of floats, and the profiling and toggling that only        *)
(* diagnostic builds have.                                                 *)
(***************************************************************************)
EXTENDS Integers, Sequences, FiniteSets, FiniteSetsExt

CONSTANTS
    Views,
    Counts,          \* cascade counts a view may have
    MaxHoldable,     \* Held::CASCADES
    Capacity,        \* views that Rotations, Coverage and Held remember
    Places,          \* of a camera
    Margins,         \* shadow_margin: how far a held band is padded
    MaxMaps,         \* bound on the shadow maps the game makes
    Moving           \* the views whose camera moves or fails and whose shadows switch

ASSUME ShadowAssumption == Capacity \in Nat \ {0} /\ Counts \subseteq Nat \ {0}

VARIABLES
    mode, margin,    \* what install could do of the settings
    seenNow,            \* the game's view: [map, count, on, place]
    content,         \* layers of each map: the slice drawn into it, or Nothing
    rotations,       \* ROTATIONS: <<view, frame, what was seen>>, recent first
    coverage,        \* COVERAGE: <<view, slices>>
    heldViews,       \* HELD: <<view, what was seen, layers with a matrix>>
    waiting,         \* history: passes since a layer was drawn
    shownView        \* history: the view whose pass just ended, or NoView

shadowVars == <<mode, margin, seenNow, content, rotations, coverage, heldViews, waiting, shownView>>

Modes == {"all", "rotate", "near", "far_half"}
NoView == "none"
Nothing == <<1, 0>>    \* a slice that covers no band
NoBands == {-1}        \* the view has no camera to ask
MostLayers == Max(Counts)
Layers == 0..(MostLayers - 1)

(* install: mode "all" stands for a pass left alone, or one whose loop could *)
(* not be hooked (ROTATING is false); no margin, for a loop without the     *)
(* site that pads.                                                          *)
ShadowInit ==
    /\ mode \in Modes /\ margin \in Margins
    /\ seenNow = [v \in Views |-> [map |-> 0, count |-> MostLayers, on |-> TRUE,
                                place |-> Min(Places)]]
    /\ content = <<>>
    /\ rotations = <<>> /\ coverage = <<>> /\ heldViews = <<>>
    /\ waiting = [v \in Views |-> [i \in Layers |-> 0]] /\ shownView = NoView

(* Cascades::due *)
DueLayers(m, frame, n) ==
    IF n <= 1 THEN 0..(n - 1)
    ELSE CASE m = "rotate" -> {frame % n}
           [] m = "near" -> {0, 1 + (frame % (n - 1))}
           [] m = "far_half" -> LET k == frame % (2 * n - 1)
                                IN IF k = 2 * n - 2 THEN {n - 1} ELSE {k % (n - 1)}

Period(m, n) == CASE m = "rotate" -> n [] m = "near" -> n - 1 [] m = "far_half" -> 2 * n - 1

(* Only the frame modulo the periods of the counts there are matters. *)
FrameWrap == ProductSet({Period(mode, n) : n \in Counts \ {1}})

EntryOf(list, v) == {list[k] : k \in {j \in DOMAIN list : list[j][1] = v}}
Recent(list, e) ==
    LET others == SelectSeq(list, LAMBDA o : o[1] # e[1])
    IN SubSeq(<<e>> \o others, 1, IF Len(others) + 1 > Capacity THEN Capacity ELSE Len(others) + 1)

(* Seen *)
Look(v) == <<seenNow[v].map, seenNow[v].count, seenNow[v].on>>

(* Rotations::due: is the view's map what it was, with its shadows on? *)
Unchanged(v) == \E e \in EntryOf(rotations, v) : e[3] = Look(v) /\ seenNow[v].on

NextFrame(v) == IF EntryOf(rotations, v) = {} THEN 0
                ELSE ((CHOOSE e \in EntryOf(rotations, v) : TRUE)[2] + 1) % FrameWrap

Band(place, i) == <<place * (i + 1), place * (i + 1) + 1>>
Padded(slice, m) == <<slice[1] - m, slice[2] + m>>
Covers(drawn, slice) == drawn[1] <= slice[1] /\ slice[2] <= drawn[2]

Slices(v) == IF EntryOf(coverage, v) = {} THEN [i \in Layers |-> Nothing]
             ELSE (CHOOSE e \in EntryOf(coverage, v) : TRUE)[2]
Matrices(v) == UNION {e[3] : e \in {f \in EntryOf(heldViews, v) : f[2] = Look(v)}}

(* Mutant: a held layer's band is not checked. *)
StaleNone(v, mask, bands) == {}

(* stale: held layers whose band is unknown or has left the slice drawn. *)
Stale(v, mask, bands) ==
    {i \in 0..(seenNow[v].count - 1) \ mask :
        i \notin bands \/ ~Covers(Slices(v)[i], Band(seenNow[v].place, i))}

Holdable(v) == seenNow[v].on /\ seenNow[v].count <= MaxHoldable

(* The layers whose turn it is, or all of them where a held layer's matrix  *)
(* is unknown.                                                              *)
TurnOf(v) ==
    LET all == 0..(seenNow[v].count - 1)
        turn == IF Unchanged(v) THEN DueLayers(mode, NextFrame(v), seenNow[v].count) ELSE all
    IN IF Holdable(v) /\ (all \ turn) \subseteq Matrices(v) THEN turn ELSE all

(* The bands are asked for before the game's pass when layers may be held.  *)
Checked(v) == Holdable(v) /\ TurnOf(v) # 0..(seenNow[v].count - 1)

DrawMask(v, bands) ==
    IF ~Checked(v) \/ bands = NoBands THEN 0..(seenNow[v].count - 1)
    ELSE TurnOf(v) \cup Stale(v, TurnOf(v), bands)

(* The layers that are drawn every frame are not padded. *)
Always(v) == {i \in 0..(seenNow[v].count - 1) :
                 \A f \in 0..(2 * seenNow[v].count - 1) : i \in DueLayers(mode, f, seenNow[v].count)}

(* The slice a drawn layer is recorded with: the padded one where the      *)
(* loop's band was grown, else the camera's; none when the bands are not    *)
(* known, even of a padded layer.                                           *)
RecordedSlice(v, i, pads, bands) ==
    CASE bands = NoBands -> Nothing
      [] bands # NoBands /\ i \in pads -> Padded(Band(seenNow[v].place, i), margin)
      [] bands # NoBands /\ i \in bands \ pads -> Band(seenNow[v].place, i)
      [] OTHER -> Nothing

(* layer_views_ready: without one-layer views of its map a view draws all. *)
EffectiveMask(v, bands, ready) == IF ready THEN DrawMask(v, bands) ELSE 0..(seenNow[v].count - 1)

(* pad_band: the bands grown in the loop, of those asked for. *)
PadBand(v, growable, mask) ==
    IF Holdable(v) /\ margin # 0 THEN (growable \ Always(v)) \cap mask ELSE {}

(* cascade_due and clear_layers: the loop clears and draws the layers in    *)
(* the mask and leaves the others as they are. The game's pass returns at   *)
(* once while the view's shadows are off.                                   *)
DrawLayers(v, mask, pads) ==
    IF ~seenNow[v].on THEN content
    ELSE [content EXCEPT ![seenNow[v].map] =
             [i \in Layers |->
                 CASE i \notin mask -> @[i]
                   [] i \in mask \cap pads -> Padded(Band(seenNow[v].place, i), margin)
                   [] OTHER -> Band(seenNow[v].place, i)]]

(* History: how long each layer of a moving view has been held. *)
Waited(v, mask) ==
    [waiting EXCEPT ![v] =
        [i \in Layers |->
            IF v \in Moving /\ seenNow[v].on /\ i \in 0..(seenNow[v].count - 1) \ mask
            THEN Min({@[i] + 1, 2 * MostLayers + 1}) ELSE 0]]

ShownAfter(v) == IF seenNow[v].on THEN v ELSE NoView

(* pass. The game's part in it: the bands a camera answers with before and  *)
(* after the game's own pass (before if layers may be held, and after if    *)
(* there is no answer yet), whether the layer views exist or can be made (ready) *)
(* and the layers whose band could be grown in the loop (growable).         *)
Pass(v, before, after, ready, growable) ==
    LET mask == EffectiveMask(v, before, ready)
        pads == PadBand(v, growable, mask)
    IN /\ mode # "all" /\ seenNow[v].map # 0
       /\ rotations' = Recent(rotations, <<v, NextFrame(v), Look(v)>>)
       /\ IF Holdable(v)
          THEN /\ heldViews' = Recent(heldViews, <<v, Look(v), Matrices(v) \cup mask>>)
               /\ coverage' = Recent(coverage,
                      <<v, [i \in Layers |->
                              IF i \in mask THEN RecordedSlice(v, i, pads, after)
                              ELSE Slices(v)[i]]>>)
          ELSE UNCHANGED <<heldViews, coverage>>
       /\ content' = DrawLayers(v, mask, pads)
       /\ waiting' = Waited(v, mask) /\ shownView' = ShownAfter(v)
       /\ UNCHANGED <<mode, margin, seenNow>>

(* pass, while nothing rotates: the game's own, of every layer. *)
PassAlone(v) ==
    LET all == 0..(seenNow[v].count - 1)
    IN /\ mode = "all" /\ seenNow[v].map # 0
       /\ content' = DrawLayers(v, all, {})
       /\ waiting' = Waited(v, all) /\ shownView' = ShownAfter(v)
       /\ UNCHANGED <<mode, margin, seenNow, rotations, coverage, heldViews>>

----------------------------------------------------------------------------
(* What the game does between passes (external). *)
CameraMoves(v) ==
    /\ v \in Moving
    /\ \E p \in Places \ {seenNow[v].place} : seenNow' = [seenNow EXCEPT ![v].place = p]
    /\ shownView' = NoView
    /\ UNCHANGED <<mode, margin, content, rotations, coverage, heldViews, waiting>>

ShadowsSwitch(v) ==
    /\ v \in Moving
    /\ seenNow' = [seenNow EXCEPT ![v].on = ~@]
    /\ shownView' = NoView
    /\ UNCHANGED <<mode, margin, content, rotations, coverage, heldViews, waiting>>

(* A new map, of another size or count: its layers hold nothing yet. *)
NewMap(v, n) ==
    /\ Len(content) < MaxMaps
    /\ content' = Append(content, [i \in Layers |-> Nothing])
    /\ seenNow' = [seenNow EXCEPT ![v].map = Len(content) + 1, ![v].count = n]
    /\ shownView' = NoView
    /\ waiting' = [waiting EXCEPT ![v] = [i \in Layers |-> 0]]
    /\ UNCHANGED <<mode, margin, rotations, coverage, heldViews>>

(* What a camera may answer, where pass asks it: nothing, every band, or    *)
(* every band but one; a camera that stays answers with every band.         *)
Answers(v) ==
    LET all == 0..(seenNow[v].count - 1)
    IN IF v \in Moving THEN {NoBands, all} \cup {all \ {i} : i \in all} ELSE {all}
AskedFirst(v) == IF Checked(v) THEN Answers(v) ELSE {NoBands}
AskedLater(v, before) == IF before # NoBands THEN {before} ELSE Answers(v)

ShadowNext ==
    \E v \in Views :
        \/ \E before \in AskedFirst(v) : \E after \in AskedLater(v, before), ready \in BOOLEAN,
               growable \in {{}, 0..(seenNow[v].count - 1)} :
              Pass(v, before, after, ready, growable)
        \/ PassAlone(v)
        \/ CameraMoves(v) \/ ShadowsSwitch(v)
        \/ \E n \in Counts : NewMap(v, n)

ShadowSpec == ShadowInit /\ [][ShadowNext]_shadowVars

----------------------------------------------------------------------------
(* No layer is left stale: when a view's pass has drawn, every layer lit    *)
(* surfaces will read was drawn for a slice that still holds the camera's   *)
(* band, whatever maps, counts, switches, forgotten views and camera moves  *)
(* came before.                                                             *)
LayersCoverTheirBands ==
    shownView # NoView =>
        \A i \in 0..(seenNow[shownView].count - 1) :
            Covers(content[seenNow[shownView].map][i], Band(seenNow[shownView].place, i))

(* Casters move too, so no layer waits longer than its mode promises: one   *)
(* turn of the rotation, or, with far_half, two for the farthest.           *)
LayersTakeTurns ==
    \A v \in Views : \A i \in 0..(seenNow[v].count - 1) :
        waiting[v][i] <= (IF mode = "far_half" THEN 2 * seenNow[v].count - 2 ELSE seenNow[v].count - 1)

(* What the plugin takes a layer to cover, it covers: COVERAGE never claims *)
(* more for the view's present map than the layer holds.                    *)
CoverageIsHonest ==
    shownView # NoView =>
        \A i \in Matrices(shownView) :
            Slices(shownView)[i] # Nothing =>
                Covers(content[seenNow[shownView].map][i], Slices(shownView)[i])
=============================================================================
