----------------------------- MODULE PluginPlan -----------------------------
(***************************************************************************)
(* The startup planner (plan.rs) over the scan of the plugin directory     *)
(* (manifest.rs: catalog): which plugins are initialized, and in which     *)
(* order. One action per pass; what the passes together compute is         *)
(* compared with its declarative meaning at the end.                       *)
(*                                                                         *)
(* A file is [dll, id, sidecar, depends, min, conflicts, safe, enabled,    *)
(* version]; sidecar is "none" (a legacy plugin unless the DLL is the      *)
(* built-in Core's), "bad" (missing fields, wrong DLL, an unreadable file) *)
(* or "ok". The manifest's text and its JSON are left out.                 *)
(***************************************************************************)
EXTENDS Integers, Sequences, FiniteSets, SequencesExt

CONSTANTS
    Directories,   \* the directories a scan may find: sequences of files
    RunningSets,   \* the loaded versions a plan may be given: [ID -> version]
    CoreName       \* defiance.core

VARIABLES pass, foundFiles, running, decision, order

planVars == <<pass, foundFiles, running, decision, order>>

PlanInit ==
    pass = "scan" /\ foundFiles = <<>> /\ running = <<>> /\ decision = <<>> /\ order = <<>>

Decisions == {"initialize", "disabled", "blocked"}

PlanTypeOK ==
    /\ pass \in {"scan", "duplicates", "conflicts", "dependencies", "cycles",
                 "order", "done"}
    /\ decision \in [DOMAIN foundFiles -> Decisions]
    /\ order \in Seq(DOMAIN foundFiles)

----------------------------------------------------------------------------
Builtin(f) == f.dll = CoreName
(* Entry::is_legacy: no sidecar, and not Core's, for which that is an error. *)
IsLegacy(f) == f.sidecar = "none" /\ ~Builtin(f)
HasManifest(f) == f.sidecar = "ok"
PluginId(f) == IF HasManifest(f) THEN f.id ELSE f.dll
Requires(f) == IF HasManifest(f) THEN f.depends ELSE {}
MultiplayerSafe(f) == HasManifest(f) /\ f.safe

(* check_builtin: Core's manifest has to agree with what the loader knows. *)
CheckBuiltin(f) ==
    f.id = CoreName /\ f.depends = {} /\ f.safe

(* initial_decision *)
InitialDecision(f) ==
    IF \/ f.sidecar = "bad"
       \/ f.sidecar = "none" /\ Builtin(f)
       \/ HasManifest(f) /\ Builtin(f) /\ ~CheckBuiltin(f)
    THEN "blocked"
    ELSE IF Builtin(f) \/ ~HasManifest(f) \/ f.enabled THEN "initialize"
    ELSE "disabled"

Scan(dir, run) ==
    /\ pass = "scan"
    /\ foundFiles' = dir /\ running' = run
    /\ decision' = [i \in DOMAIN dir |-> InitialDecision(dir[i])]
    /\ pass' = "duplicates" /\ UNCHANGED order

ById(id) == {i \in DOMAIN foundFiles : PluginId(foundFiles[i]) = id}
(* Where several files claim an ID, the planner looks at the first. *)
First(id) == CHOOSE i \in ById(id) : \A j \in ById(id) : i <= j
Block(S) == decision' = [i \in DOMAIN foundFiles |-> IF i \in S THEN "blocked" ELSE decision[i]]

Duplicates ==
    /\ pass = "duplicates"
    /\ Block({i \in DOMAIN foundFiles : Cardinality(ById(PluginId(foundFiles[i]))) > 1})
    /\ pass' = "conflicts" /\ UNCHANGED <<foundFiles, running, order>>

(* conflict_pairs: declared on either side, both enabled. *)
ConflictPairs ==
    {ij \in (DOMAIN foundFiles) \X (DOMAIN foundFiles) :
        LET i == ij[1] j == ij[2]
        IN /\ decision[i] = "initialize" /\ HasManifest(foundFiles[i])
           /\ \E id \in foundFiles[i].conflicts :
                 ById(id) # {} /\ j = First(id) /\ j # i /\ decision[j] = "initialize"}

Conflicts ==
    /\ pass = "conflicts"
    /\ Block({ij[1] : ij \in ConflictPairs} \cup {ij[2] : ij \in ConflictPairs})
    /\ pass' = "dependencies" /\ UNCHANGED <<foundFiles, running, order>>

(* version_ok: a running provider answers with the version that runs. *)
VersionOk(i, j) ==
    \/ foundFiles[i].min = 0
    \/ LET id == PluginId(foundFiles[j])
           v == IF id \in DOMAIN running THEN running[id]
                ELSE IF HasManifest(foundFiles[j]) THEN foundFiles[j].version ELSE 0
       IN v >= foundFiles[i].min

Met(i, id, d) == ById(id) # {} /\ d[First(id)] = "initialize" /\ VersionOk(i, First(id))

(* propagate_dependencies: until nothing changes, which is after no more    *)
(* rounds than there are files, since each of them blocks one.              *)
OneRound(d) ==
    LET unmet == {i \in DOMAIN foundFiles : d[i] = "initialize" /\
                     \E id \in Requires(foundFiles[i]) : ~Met(i, id, d)}
    IN [i \in DOMAIN foundFiles |-> IF i \in unmet THEN "blocked" ELSE d[i]]

Propagate(d) ==
    LET round[n \in Nat] == IF n = 0 THEN d ELSE OneRound(round[n - 1])
    IN round[Len(foundFiles)]

Dependencies ==
    /\ pass = "dependencies"
    /\ decision' = Propagate(decision)
    /\ pass' = "cycles" /\ UNCHANGED <<foundFiles, running, order>>

(* find_cycles: a depth-first search; only an edge to a file on the stack   *)
(* closes a cycle.                                                          *)
Searches == LET D == DOMAIN foundFiles
            IN [grey : SUBSET D, black : SUBSET D, stack : Seq(D), cyclic : SUBSET D]

Visit[i \in DOMAIN foundFiles, s \in Searches] ==
    LET targets == SetToSortSeq({First(id) : id \in {x \in Requires(foundFiles[i]) : ById(x) # {}}}, <)
        step(t, j) ==
            IF decision[j] # "initialize" THEN t
            ELSE IF j \notin t.grey \cup t.black THEN Visit[j, t]
            ELSE IF j \in t.grey
            THEN [t EXCEPT !.cyclic = @ \cup
                     {t.stack[k] : k \in {m \in 1..Len(t.stack) :
                         \E n \in 1..m : t.stack[n] = j}}]
            ELSE t
        down == FoldLeft(step, [s EXCEPT !.grey = @ \cup {i}, !.stack = Append(@, i)],
                         targets)
    IN [down EXCEPT !.grey = @ \ {i}, !.black = @ \cup {i}, !.stack = Front(@)]

Cyclic ==
    LET go(s, i) == IF i \in s.black \/ decision[i] # "initialize" THEN s ELSE Visit[i, s]
    IN FoldLeft(go, [grey |-> {}, black |-> {}, stack |-> <<>>, cyclic |-> {}],
                [k \in DOMAIN foundFiles |-> k]).cyclic

(* The members of a cycle, then everything that needs one. *)
Cycles ==
    /\ pass = "cycles"
    /\ decision' = Propagate([i \in DOMAIN foundFiles |->
                                IF i \in Cyclic THEN "blocked" ELSE decision[i]])
    /\ pass' = "order" /\ UNCHANGED <<foundFiles, running, order>>

Started == {i \in DOMAIN foundFiles : decision[i] = "initialize"}

(* order_ranked: what i comes after. *)
Needs(i) ==
    {j \in Started : /\ j # i
                     /\ \/ \E id \in Requires(foundFiles[i]) : ById(id) # {} /\ First(id) = j
                        \/ ~MultiplayerSafe(foundFiles[i]) /\ PluginId(foundFiles[j]) = CoreName}

(* Managed before legacy, then by ID; the directory is sorted by name, so   *)
(* positions stand for IDs.                                                 *)
Before(i, j) == \/ ~IsLegacy(foundFiles[i]) /\ IsLegacy(foundFiles[j])
                \/ IsLegacy(foundFiles[i]) = IsLegacy(foundFiles[j]) /\ i <= j

(* order_ranked: one at a time, as long as one is ready.                    *)
OneMore(out) ==
    LET left == Started \ Range(out)
        ready == {i \in left : Needs(i) \cap left = {}}
    IN IF ready = {} THEN out
       ELSE Append(out, CHOOSE i \in ready : \A j \in ready : Before(i, j))

Ordered ==
    LET grow[n \in Nat] == IF n = 0 THEN <<>> ELSE OneMore(grow[n - 1])
    IN grow[Cardinality(Started)]

OrderActive ==
    /\ pass = "order"
    /\ order' = Ordered
    /\ pass' = "done" /\ UNCHANGED <<foundFiles, running, decision>>

PlanNext ==
    \/ pass = "scan" /\ \E dir \in Directories, run \in RunningSets : Scan(dir, run)
    \/ Duplicates \/ Conflicts \/ Dependencies \/ Cycles \/ OrderActive

PlanSpec == PlanInit /\ [][PlanNext]_planVars

----------------------------------------------------------------------------
(* The passes compute what hot reload also takes a plan to be: the smallest *)
(* set of the plugins that are enabled, alone in their ID and in no         *)
(* conflict, that has each of them once it has all it depends on. A cycle,  *)
(* however entangled, has no member in it.                                  *)
PlanIsWellFounded ==
    pass = "done" =>
        LET alone == {i \in DOMAIN foundFiles :
                        /\ InitialDecision(foundFiles[i]) = "initialize"
                        /\ Cardinality(ById(PluginId(foundFiles[i]))) = 1}
            fights(i) == \E j \in alone \ {i} :
                             \/ HasManifest(foundFiles[i]) /\ PluginId(foundFiles[j]) \in foundFiles[i].conflicts
                             \/ HasManifest(foundFiles[j]) /\ PluginId(foundFiles[i]) \in foundFiles[j].conflicts
            supplied(i, S) == \A id \in Requires(foundFiles[i]) :
                                  \E j \in S : PluginId(foundFiles[j]) = id /\ VersionOk(i, j)
            closed(S) == \A i \in alone : ~fights(i) /\ supplied(i, S) => i \in S
        IN Started = {i \in alone : \A S \in SUBSET alone : closed(S) => i \in S}

(* Every plugin to be initialized has its place in the order, after all it  *)
(* depends on; one that is not multiplayer-safe comes after Core, so the    *)
(* guard it waits for has had its chance.                                   *)
OrderSound ==
    pass = "done" =>
        /\ Range(order) = Started /\ IsInjective(order)
        /\ \A k \in DOMAIN order :
              LET before == {PluginId(foundFiles[order[m]]) : m \in 1..(k - 1)}
              IN /\ Requires(foundFiles[order[k]]) \subseteq before
                 /\ \/ MultiplayerSafe(foundFiles[order[k]])
                    \/ \A i \in Started : PluginId(foundFiles[i]) # CoreName
                    \/ CoreName \in before
=============================================================================
