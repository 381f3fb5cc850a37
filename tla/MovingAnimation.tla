--------------------------- MODULE MovingAnimation ---------------------------
(***************************************************************************)
(* The lower-body overlay of plugins/moving-actions-animation: while the   *)
(* game updates a soldier's animation, the samples of his leg tracks are   *)
(* replaced by those of a moving clip, blended by the direction he really  *)
(* travels in.                                                             *)
(*                                                                         *)
(* Positions are points of a line, times are ticks.  One thread updates;   *)
(* an update may run another one inside, of a soldier or of something that *)
(* is none.  The game may change a soldier while his update runs.          *)
(***************************************************************************)
EXTENDS Integers, Sequences, FiniteSets, SequencesExt

CONSTANTS
    Chassis,        \* addresses of human chassis
    Window,         \* the 250 ms a motion sample stays good for, in ticks
    Far,            \* a displacement no walk explains
    MaxTick, MaxDepth, MaxLives

VARIABLES
    composite,      \* how each track of the moving clip differs from the stock's
    assets,          \* "off", "on" or "refused"
    clock,
    man,            \* what the soldier with each chassis is
    path,           \* where he was at each tick of his life
    history,        \* MOTION
    frames,         \* FRAME: the updates that run, innermost last
    sampled          \* the sample a native sampler is returning, or none

animVars == <<composite, assets, clock, man, path, history, frames, sampled>>

Legs == {"thigh", "calf"}
Tracks == Legs \cup {"arm"}
Differences == {"same", "position", "rotation", "both"}
NoSample == [of |-> "none", overlaid |-> FALSE]
NoMotion == [known |-> FALSE, way |-> 0]
NewMan(life) == [life |-> life, action |-> "none", standing |-> TRUE, moving |-> FALSE,
                 clip |-> "other", at |-> 0]
Nowhere == [t \in 0..MaxTick |-> 99]

AnimInit ==
    /\ composite \in [Tracks -> Differences]
    /\ assets = "off" /\ clock = 0
    /\ man = [c \in Chassis |-> NewMan(1)]
    /\ path = [c \in Chassis |-> [Nowhere EXCEPT ![0] = 0]]
    /\ history = [c \in Chassis |-> [known |-> FALSE]]
    /\ frames = <<>> /\ sampled = NoSample
-----------------------------------------------------------------------------
(* Assets                                                                   *)

Changed == {t \in Tracks : composite[t] # "same"}

(* pair: the leg tracks and no other, each in both channels.                *)
Pairs == Changed = Legs /\ \A t \in Changed : composite[t] = "both"

Install ==
    /\ assets = "off"
    /\ assets' = IF Pairs THEN "on" ELSE "refused"
    /\ UNCHANGED <<composite, clock, man, path, history, frames, sampled>>
-----------------------------------------------------------------------------
(* The game                                                                 *)

Live == assets = "on" /\ sampled = NoSample /\ UNCHANGED sampled

(* Time passes; a soldier walks a step or stands, or is put somewhere else  *)
(* (a save is loaded).                                                      *)
Tick(by) ==
    /\ Live /\ frames = <<>> /\ clock < MaxTick
    /\ \A c \in Chassis : /\ by[c] \in {-1, 1} => man[c].moving
                          /\ man[c].at + by[c] \in -1..(Far + 1)
    /\ clock' = clock + 1
    /\ man' = [c \in Chassis |-> [man[c] EXCEPT !.at = @ + by[c]]]
    /\ path' = [c \in Chassis |-> [path[c] EXCEPT ![clock + 1] = man'[c].at]]
    /\ UNCHANGED <<composite, assets, history, frames>>

(* His action, the clip it plays or his route changes, perhaps in the       *)
(* middle of his own update.                                                *)
Acts(c, action, clip, moving) ==
    /\ Live
    /\ <<action, clip, moving>> # <<man[c].action, man[c].clip, man[c].moving>>
    /\ man' = [man EXCEPT ![c].action = action, ![c].clip = clip, ![c].moving = moving]
    /\ UNCHANGED <<composite, assets, clock, path, history, frames>>

(* He is gone and another has his chassis' address.                         *)
Respawns(c) ==
    /\ Live /\ frames = <<>> /\ man[c].life < MaxLives
    /\ man' = [man EXCEPT ![c] = NewMan(@.life + 1)]
    /\ path' = [path EXCEPT ![c] = [Nowhere EXCEPT ![clock] = 0]]
    /\ UNCHANGED <<composite, assets, clock, history, frames>>
-----------------------------------------------------------------------------
(* The motion history                                                       *)

Sign(n) == IF n < 0 THEN -1 ELSE 1
Size(n) == n * Sign(n)

(* observed_motion: of this soldier, and no older than the window.          *)
Usable(c) ==
    IF history[c].known THEN history[c].life = man[c].life /\ clock - history[c].time <= Window
    ELSE FALSE

Held(c) == IF history[c].direction.known THEN clock - history[c].direction.time <= Window ELSE FALSE

(* A displacement gives the direction; none holds the last one; one too     *)
(* large for a walk gives nothing.                                          *)
Direction(c) ==
    IF ~Usable(c) THEN NoMotion
    ELSE LET moved == man[c].at - history[c].at
         IN  IF moved = 0 THEN (IF Held(c) THEN history[c].direction ELSE NoMotion)
             ELSE IF Size(moved) < Far THEN [known |-> TRUE, way |-> Sign(moved), time |-> clock]
             ELSE NoMotion

Throwing(c) == man[c].action = "throw" /\ man[c].moving

ObservedMotion(c) == IF Throwing(c) THEN Direction(c) ELSE NoMotion
RecordedStep(c) ==
    IF Throwing(c) THEN [known |-> TRUE, life |-> man[c].life, at |-> man[c].at, time |-> clock,
                         direction |-> Direction(c)]
    ELSE [known |-> FALSE]
-----------------------------------------------------------------------------
(* The hooks                                                                *)

(* update: a context for a soldier; none for anything else ("thing").       *)
UpdateBegins(of) ==
    /\ Live /\ Len(frames) < MaxDepth
    /\ \A i \in 1..Len(frames) : frames[i].of # of
    /\ frames' = Append(frames, [of |-> of, soldier |-> of \in Chassis, clip |-> [known |-> FALSE],
                                 motion |-> IF of \in Chassis THEN ObservedMotion(of) ELSE NoMotion])
    /\ history' = IF of \in Chassis THEN [history EXCEPT ![of] = RecordedStep(of)] ELSE history
    /\ UNCHANGED <<composite, assets, clock, man, path>>

UpdateEnds ==
    /\ Live /\ frames # <<>>
    /\ frames' = Front(frames)
    /\ UNCHANGED <<composite, assets, clock, man, path, history>>

(* current_clip: the cached match holds for the action and the animation    *)
(* it was made for.                                                         *)
Cached(context, c) ==
    IF context.clip.known
    THEN context.clip.action = man[c].action /\ context.clip.animation = man[c].clip
    ELSE FALSE

(* runtime_clip_matches: the animation that plays is the action's stock     *)
(* clip, key by key.                                                        *)
Matched(c) == [known |-> TRUE, action |-> man[c].action, animation |-> man[c].clip,
               valid |-> man[c].clip = man[c].action]

CurrentClip(context, c) == IF Cached(context, c) THEN context.clip ELSE Matched(c)

(* augment_position, augment_rotation: only the innermost update's.         *)
Context == IF frames # <<>> /\ Last(frames).soldier THEN Len(frames) ELSE 0

MayOverlay(c) == man[c].action \in {"throw", "switch"} /\ man[c].standing /\ man[c].moving

(* bracket: the binary search for the two keys around a time.               *)
After(keys, time) ==
    LET search[low \in 1..Len(keys) + 1, high \in 1..Len(keys) + 1] ==
            IF low >= high THEN low
            ELSE LET mid == low + (high - low) \div 2
                 IN  IF keys[mid] <= time THEN search[mid + 1, high] ELSE search[low, mid]
    IN  search[1, Len(keys) + 1]
Bracket(keys, time) ==
    IF Len(keys) = 1 \/ time <= keys[1] THEN <<1, 1>>
    ELSE IF time >= Last(keys) THEN <<Len(keys), Len(keys)>>
    ELSE <<After(keys, time) - 1, After(keys, time)>>

(* Times of keys, and a time between, on or outside them.                   *)
Keyed == {<< <<0>>, 2>>, << <<1, 2, 4>>, 0>>, << <<1, 2, 4>>, 3>>, << <<0, 1, 3, 4>>, 1>>,
          << <<0, 1, 3, 4>>, 2>>, << <<0, 3>>, 4>>}

(* overlay: a native sampler of the innermost update returns, and its       *)
(* output is replaced if the track is a changed one of the clip that plays. *)
Samples(track, keys, time) ==
    /\ assets = "on" /\ sampled = NoSample /\ frames # <<>>
    /\ LET c == frames[Context].of
           clip == CurrentClip(frames[Context], c)
       IN  IF Context = 0
           THEN sampled' = [NoSample EXCEPT !.of = Last(frames).of] /\ UNCHANGED frames
           ELSE IF ~MayOverlay(c)
           THEN sampled' = [NoSample EXCEPT !.of = Last(frames).of] /\ UNCHANGED frames
           ELSE /\ frames' = [frames EXCEPT ![Context].clip = clip]
                /\ sampled' = IF clip.valid /\ track \in Changed
                             THEN [of |-> Last(frames).of, overlaid |-> TRUE, by |-> c, track |-> track,
                                   from |-> clip.action, keys |-> keys, time |-> time,
                                   between |-> Bracket(keys, time),
                                   motion |-> IF clip.action = "throw" THEN frames[Context].motion
                                              ELSE NoMotion]
                             ELSE [NoSample EXCEPT !.of = Last(frames).of]
    /\ UNCHANGED <<composite, assets, clock, man, path, history>>

(* The native evaluator goes on with the sample.                            *)
Returns ==
    /\ sampled # NoSample /\ sampled' = NoSample
    /\ UNCHANGED <<composite, assets, clock, man, path, history, frames>>

AnimNext ==
    \/ Install \/ UpdateEnds \/ Returns
    \/ \E by \in [Chassis -> {-1, 0, 1, Far}] : Tick(by)
    \/ \E of \in Chassis \cup {"thing"} : UpdateBegins(of)
    \/ \E c \in Chassis : \/ \E a \in {"none", "throw", "switch"}, k \in {"throw", "other"},
                                m \in BOOLEAN : Acts(c, a, k, m)
                          \/ Respawns(c)
    \/ \E t \in {"thigh", "arm"}, k \in Keyed : Samples(t, k[1], k[2])

AnimSpec == AnimInit /\ [][AnimNext]_animVars
-----------------------------------------------------------------------------
AnimTypeOK ==
    /\ assets \in {"off", "on", "refused"} /\ Len(frames) <= MaxDepth
    /\ \A c \in Chassis : man[c].life \in 1..MaxLives

(* overlay, current_clip: a sample that is replaced is a leg's, of the unit *)
(* that is being updated, while he acts on the move, and comes from the     *)
(* moving form of the very clip the game plays for him now.                 *)
OverlayFits ==
    sampled.overlaid =>
        /\ sampled.by = sampled.of /\ sampled.track \in Legs
        /\ MayOverlay(sampled.by)
        /\ sampled.from = man[sampled.by].action /\ man[sampled.by].clip = sampled.from

(* observed_motion: the direction legs are blended by is one this soldier,  *)
(* and no earlier one at his address, really went, a moment ago, on foot.   *)
TravelIsHis ==
    sampled.overlaid => (sampled.motion.known =>
        \E s, t \in 0..clock :
            /\ s < t /\ clock - s <= 2 * Window /\ t - s <= Window
            /\ path[sampled.by][s] # 99
            /\ LET moved == path[sampled.by][t] - path[sampled.by][s]
               IN  moved # 0 /\ Size(moved) < Far /\ Sign(moved) = sampled.motion.way)

(* sample_position, sample_rotation: the sample lies between the two keys   *)
(* nearest to its time, and on the first or last one outside them.          *)
KeysEnclose ==
    sampled.overlaid =>
        LET k == sampled.keys
            l == sampled.between[1]
            r == sampled.between[2]
        IN  \/ l = r /\ (k[l] = sampled.time \/ (l = 1 /\ sampled.time <= k[1])
                                   \/ (l = Len(k) /\ sampled.time >= Last(k)))
            \/ r = l + 1 /\ k[l] <= sampled.time /\ sampled.time <= k[r]
=============================================================================
