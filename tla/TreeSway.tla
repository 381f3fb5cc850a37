------------------------------ MODULE TreeSway ------------------------------
(***************************************************************************)
(* The performance plugin's reduced sampling of living-tree sway           *)
(* (plugins/performance/src/tree_sway.rs).  A tree manager's update calls  *)
(* the facet of every tree in view, and a facet in mode zero hands its     *)
(* time step to the tree's sway.  In the half modes the hooks omit every   *)
(* other sway of a manager; under a schedule each tree waits the rate of   *)
(* its distance between two samples.  Everything is thread-local to the    *)
(* thread that updates the managers.                                       *)
(*                                                                         *)
(* Time steps are small numbers.  A distance is the member of Distances    *)
(* whose band it falls in, or None without a camera or a position; the     *)
(* distance read at a sample is any of them.  A facet in mode one          *)
(* completes and releases its state.                                       *)
(*                                                                         *)
(* Left out: managers and facets that reuse the address of a freed one     *)
(* (their first sample may be early or its step too long, as the code      *)
(* says), steps of zero, and the rates and counters of diagnostic builds.  *)
(***************************************************************************)
EXTENDS Naturals, Sequences, FiniteSets, NoValue

CONSTANTS Managers,     \* the tree managers
          Trees,        \* the tree facets
          ManagerOf,    \* the manager each tree is called by
          Distances,    \* the schedule's bands and what is beyond them
          BandRate,     \* each band's rate
          Nearest,      \* the first band
          Stagger,      \* a tree's hash, by which trees are spread
          TickLimit,    \* a bound on the manager updates
          StepLimit,    \* a bound on one time step
          MaxManagers,  \* how many managers MANAGER_TICKS keeps
          SweepEvery   \* after how many ticks FACET_TICKS is swept

ASSUME ScheduleIsRates ==
    /\ Nearest \in Distances
    /\ BandRate \in [Distances -> Nat \ {0}]
    /\ ManagerOf \in [Trees -> Managers]
    /\ Stagger \in [Trees -> Nat]

VARIABLES
    sway,       \* the mode the setting chose
    tick,       \* TICK
    facets,     \* FACET_TICKS: each tree's place in its schedule, or None
    managers,   \* MANAGER_TICKS: each manager's phase and summed step, or None
    step,       \* CURRENT_STEP: None, or the due time (0 for an omitted tick)
    updates,    \* the manager updates running with the tick each began on,
                \* the innermost last
    spent,      \* each manager's time since its last due tick
    waited,     \* each tree's steps and their time since its last sample
    sample,     \* what each tree's last sway was given, and what it was owed
    withheld    \* the trees whose completion did not reach the engine

treeVars == <<sway, tick, facets, managers, step, updates, spent, waited, sample,
              withheld>>

Steps == 1..StepLimit
HalfModes == {"half", "half_facet"}
Waiting == [steps : Nat, time : Nat, broken : BOOLEAN]
NoWait == [steps |-> 0, time |-> 0, broken |-> FALSE]

TreeTypeOK ==
    /\ sway \in HalfModes \cup {"rates"}
    /\ tick \in 0..TickLimit
    /\ facets \in [Trees -> {None} \cup
         [last : 0..TickLimit, count : Nat, elapsed : Nat, rate : Nat]]
    /\ managers \in [Managers -> {None} \cup [phase : 0..1, elapsed : Nat]]
    /\ step \in {None} \cup Nat
    /\ \A i \in 1..Len(updates) : updates[i].manager \in Managers
    /\ spent \in [Managers -> Nat]
    /\ waited \in [Trees -> Waiting]

TreeInit ==
    /\ sway \in HalfModes \cup {"rates"}
    /\ tick = 0
    /\ facets = [t \in Trees |-> None]
    /\ managers = [m \in Managers |-> None]
    /\ step = None
    /\ updates = <<>>
    /\ spent = [m \in Managers |-> 0]
    /\ waited = [t \in Trees |-> NoWait]
    /\ sample = [t \in Trees |-> None]
    /\ withheld = {}

-----------------------------------------------------------------------------
(* Schedule::rate. *)
RateOf(d) == BandRate[IF d = None THEN Nearest ELSE d]

(* stagger. *)
StaggerOf(t, rate) == Stagger[t] % rate

(* A manager's entry when its update begins: MANAGER_TICKS is emptied when
   it holds more than its limit, and a new entry starts at phase zero. *)
Entries ==
    IF Cardinality({m \in Managers : managers[m] # None}) > MaxManagers
    THEN [m \in Managers |-> None] ELSE managers

Entry(m) == IF Entries[m] = None THEN [phase |-> 0, elapsed |-> 0] ELSE Entries[m]

(* Whether the tick is the manager's due one. *)
Due(e) == e.phase + 1 >= 2

(* The entry after the tick: a due tick takes the summed step. *)
AfterTick(e, dt) ==
    IF Due(e) THEN [phase |-> 0, elapsed |-> 0]
              ELSE [phase |-> e.phase + 1, elapsed |-> e.elapsed + dt]

(* Another manager's update comes between two calls of a tree. *)
Interrupted(m) ==
    [t \in Trees |-> [waited[t] EXCEPT !.broken = @ \/ ManagerOf[t] # m]]

(* manager_update up to its call of the original. *)
BeginUpdate(m, dt) ==
    LET call(prior) == [manager |-> m, dt |-> dt, prior |-> prior, called |-> {},
                        tick |-> tick + 1]
    IN
    /\ tick < TickLimit
    /\ Len(updates) < 2
    /\ \A i \in 1..Len(updates) : updates[i].manager # m
    /\ tick' = tick + 1
    /\ updates' = Append(updates, call(step))
    /\ spent' = [spent EXCEPT ![m] = @ + dt]
    /\ waited' = Interrupted(m)
    /\ IF sway = "rates"
       THEN UNCHANGED <<managers, step>>
       ELSE /\ managers' = [Entries EXCEPT ![m] = AfterTick(Entry(m), dt)]
            /\ step' = IF Due(Entry(m)) THEN Entry(m).elapsed + dt ELSE 0
    /\ UNCHANGED <<sway, facets, sample, withheld>>

(* The innermost running update, and one of its trees it has not called. *)
Running == updates[Len(updates)]

MayCall(t) ==
    /\ updates # <<>>
    /\ ManagerOf[t] = Running.manager
    /\ t \notin Running.called

Called(t) == [updates EXCEPT ![Len(updates)].called = @ \cup {t}]

(* A sway that reaches the engine with the time `given'. *)
Swayed(t, given, owed) ==
    /\ sample' = [sample EXCEPT ![t] = [given |-> given, owed |-> owed]]
    /\ waited' = [waited EXCEPT ![t] = NoWait]

(* sway_update within or outside a manager's update. *)
SwayUpdate(t, dt, owed) ==
    CASE step = None -> Swayed(t, dt, owed)
      [] step = 0    -> UNCHANGED <<sample, waited>>
      [] OTHER       -> Swayed(t, step, owed)

(* Whether facet_update leaves a facet's call out: half_facet does on an
   omitted tick, for a facet in mode zero. *)
Omits(completing) == sway = "half_facet" /\ step = 0 /\ ~completing

(* A facet's work, with the trees whose completion was withheld. *)
Worked(t, completing, reached) ==
    withheld' = IF completing /\ ~reached THEN withheld \cup {t} ELSE withheld

(* facet_update in the half modes. *)
HalfFacet(t, completing) ==
    /\ sway \in HalfModes
    /\ MayCall(t)
    /\ updates' = Called(t)
    /\ Worked(t, completing, ~Omits(completing))
    /\ IF Omits(completing) \/ completing THEN UNCHANGED <<sample, waited>>
       ELSE SwayUpdate(t, Running.dt, spent[Running.manager])
    /\ UNCHANGED <<sway, tick, facets, managers, step, spent>>

(* A sway asked for outside every manager's update. *)
SwayAlone(t, dt) ==
    /\ updates = <<>>
    /\ sway \in HalfModes
    /\ SwayUpdate(t, dt, dt)
    /\ UNCHANGED <<sway, tick, facets, managers, step, updates, spent, withheld>>

(* A tree's entry when it is called: a tree that was not called on the
   previous tick starts anew and is due at once. *)
IsFresh(t) ==
    \/ facets[t] = None
    \/ facets[t].last + 1 # tick

Place(t) ==
    IF IsFresh(t) THEN [last |-> tick, count |-> 0, elapsed |-> 0, rate |-> 1]
                  ELSE [facets[t] EXCEPT !.last = tick]

(* What a sampled tree's count begins at. *)
FirstCount(t, rate) == IF IsFresh(t) THEN StaggerOf(t, rate) ELSE 0

(* Whether a tree waits on: its count has not reached its rate. *)
Waits(place) == place.count < place.rate

(* scheduled_update: a facet in mode one always reaches the engine. *)
ScheduledCompletion(t) ==
    /\ sway = "rates"
    /\ MayCall(t)
    /\ updates' = Called(t)
    /\ Worked(t, TRUE, TRUE)
    /\ waited' = [waited EXCEPT ![t].broken = TRUE]
    /\ UNCHANGED <<sway, tick, facets, managers, step, spent, sample>>

(* scheduled_update: in mode zero it samples when its count is up, with the
   steps since its last sample, and takes the rate of its distance d. *)
ScheduledUpdate(t, d) ==
    LET dt    == Running.dt
        place == [Place(t) EXCEPT !.count = @ + 1, !.elapsed = @ + dt]
        wait  == [waited[t] EXCEPT !.steps = @ + 1, !.time = @ + dt]
        rate  == RateOf(d)
    IN
    /\ sway = "rates"
    /\ MayCall(t)
    /\ updates' = Called(t)
    /\ IF Waits(place)
       THEN /\ facets' = [facets EXCEPT ![t] = place]
            /\ waited' = [waited EXCEPT ![t] = wait]
            /\ UNCHANGED sample
       ELSE /\ facets' = [facets EXCEPT ![t] =
                 [last |-> tick, count |-> FirstCount(t, rate), elapsed |-> 0,
                  rate |-> rate]]
            /\ Swayed(t, place.elapsed, IF wait.broken THEN dt ELSE wait.time)
    /\ UNCHANGED <<sway, tick, managers, step, spent, withheld>>

(* FACET_TICKS's sweep, after the update that began on every SweepEvery-th
   tick, whatever updates ran within it. *)
Swept(at) ==
    [t \in Trees |-> IF /\ at % SweepEvery = 0
                        /\ facets[t] # None
                        /\ facets[t].last + 1 < at
                     THEN None ELSE facets[t]]

(* manager_update after its call of the original: the trees it did not call
   were out of view. *)
EndUpdate ==
    LET m == Running.manager
    IN
    /\ updates # <<>>
    /\ updates' = SubSeq(updates, 1, Len(updates) - 1)
    /\ facets' = IF sway = "rates" THEN Swept(Running.tick) ELSE facets
    /\ step' = IF sway = "rates" THEN step ELSE Running.prior
    /\ spent' = [spent EXCEPT ![m] = IF sway \in HalfModes /\ step # 0 THEN 0 ELSE @]
    /\ waited' = [t \in Trees |->
         IF ManagerOf[t] = m /\ t \notin Running.called
         THEN [NoWait EXCEPT !.broken = TRUE] ELSE waited[t]]
    /\ UNCHANGED <<sway, tick, managers, sample, withheld>>

TreeNext ==
    \/ \E m \in Managers, dt \in Steps : BeginUpdate(m, dt)
    \/ \E t \in Trees, completing \in BOOLEAN : HalfFacet(t, completing)
    \/ \E t \in Trees, dt \in Steps : SwayAlone(t, dt)
    \/ \E t \in Trees : ScheduledCompletion(t)
    \/ \E t \in Trees, d \in Distances \cup {None} : ScheduledUpdate(t, d)
    \/ EndUpdate

TreeSpec == TreeInit /\ [][TreeNext]_treeVars

-----------------------------------------------------------------------------
(* Half and scheduled sampling slow no tree down: a sway that reaches the
   engine is given exactly the time since the tree's last one - its
   manager's two steps in the half modes, whatever other manager's update
   runs within or between; every step in between under a schedule, or its own
   step alone when it comes back into view or another manager's update came
   between two of its calls; and outside a manager's update the game's own
   step. *)
SwayKeepsTime ==
    \A t \in Trees : sample[t] # None => sample[t].given = sample[t].owed

(* No tree waits longer than the slowest rate of the schedule between two
   samples while it stays in view. *)
SampledInTime ==
    sway = "rates" =>
      \A t \in Trees : \E d \in Distances : waited[t].steps < BandRate[d]

(* A facet that completes and releases its state always reaches the engine,
   on an omitted tick too. *)
CompletionsRun == withheld = {}
=============================================================================
