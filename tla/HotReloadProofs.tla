-------------------------- MODULE HotReloadProofs --------------------------
(* Proofs about HotReload. *)
EXTENDS HotReload, FiniteSetTheorems, SequenceTheorems, TLAPS

(* The first invariant, behind NoDanglingTable and BlockersCover.           *)

Startable == phase = "start" =>
    /\ queue # <<>>
    /\ Head(queue) \in Planned(plan)
    /\ plan[Head(queue)].safe \/ Head(queue) \in blockers

InitRuns ==
    /\ starting # {} => phase = "init"
    /\ phase = "init" => queue # <<>>

(* Nothing is taken apart or started once an incomplete rollback is on      *)
(* record.                                                                  *)
NotHalted == phase \in {"unload", "init"} => halt = {}

(* A span is live in an active copy, or in the one whose rollback failed.   *)
HookedKnown == \A o \in hooked :
    o \in loaded \/ [id |-> Id(o), safe |-> copy[o].safe] \in halt

Fresh ==
    /\ \A o \in loaded \cup retained \cup starting : o[2] < next
    /\ starting \cap (loaded \cup retained) = {}

(* The use records tell of every table a recorded copy has, and of another  *)
(* plugin's only.                                                           *)
UsesComplete == \A o \in loaded \cup retained \cup starting :
    \A t \in holds[o] : <<o, Id(t)>> \in uses /\ Id(t) # Id(o)

(* While a group is unloaded, what may be freed is held by such copies only.*)
HeldByGroup == phase = "unload" =>
    /\ todo \subseteq loaded
    /\ \A m \in todo \ keep : \A o \in Running :
           m \in holds[o] => o \in todo \ keep

IInv ==
    /\ TypeOK /\ Startable /\ InitRuns /\ NotHalted /\ HookedKnown /\ Fresh
    /\ UsesComplete /\ HeldByGroup
    /\ tables \subseteq loaded
    /\ NoDanglingTable
    /\ BlockersCover

----------------------------------------------------------------------------
(* Facts about the operators.                                               *)

(* A planned plugin has files, and does not depend on itself. *)
LEMMA PlannedFacts ==
    ASSUME NEW files, NEW i \in Planned(files)
    PROVE  i \in Ids /\ files[i] # Off /\ i \notin files[i].depends
<1> DEFINE S == Ids \ {i}
<1>1. i \in Ids
      BY DEF Planned
<1>2. ASSUME files[i] = Off \/ i \in files[i].depends PROVE FALSE
  <2>1. \A j \in Ids : files[j] # Off /\ files[j].depends \subseteq S => j \in S
        BY <1>2
  <2>2. S \in SUBSET Ids
        OBVIOUS
  <2>3. i \in S
        BY <2>1, <2>2 DEF Planned
  <2> QED BY <2>3
<1> QED BY <1>1, <1>2

(* dependants leaves out no loaded holder of what it lists. *)
LEMMA DependantsClosed ==
    ASSUME NEW i PROVE HoldersIncluded(Dependants(i), i)
<1> SUFFICES ASSUME NEW p \in loaded,
                    \/ Id(p) # i /\ p \in Consumers(i)
                    \/ \E d \in Dependants(i) :
                          Id(p) # Id(d) /\ p \in Consumers(Id(d)),
                    NEW D \in SUBSET loaded, HoldersIncluded(D, i)
             PROVE  p \in D
    BY DEF HoldersIncluded, Dependants
<1>1. Dependants(i) \subseteq D
      BY DEF Dependants
<1> QED BY <1>1 DEF HoldersIncluded

(* retained_closure keeps every member that a holder or a kept one needs.   *)
LEMMA KeepClosed ==
    ASSUME NEW group, NEW holders
    PROVE  KeptIncluded(RetainedClosure(group, holders), group, holders)
<1> SUFFICES ASSUME NEW m \in group,
                    Consumers(Id(m)) \cap
                        (holders \cup RetainedClosure(group, holders)) # {},
                    NEW K \in SUBSET group, KeptIncluded(K, group, holders)
             PROVE  m \in K
    BY DEF KeptIncluded, RetainedClosure
<1>1. RetainedClosure(group, holders) \subseteq K
      BY DEF RetainedClosure
<1> QED BY <1>1 DEF KeptIncluded

(* The fields of a manifest. *)
LEMMA ManifestFields ==
    ASSUME NEW m \in Manifests
    PROVE  m.safe \in BOOLEAN /\ m.depends \subseteq Ids /\ m.schema \in Nat
<1>1. CASE m = Legacy
      BY <1>1 DEF Legacy
<1>2. CASE m \in [kind : {"hot", "startup"}, safe : BOOLEAN,
                  depends : SUBSET Ids, schema : Nat]
      BY <1>2
<1> QED BY <1>1, <1>2 DEF Manifests

(* What is in the plan has a manifest. *)
LEMMA PlanFields ==
    ASSUME NEW files \in [Ids -> Manifests \cup {Off}], NEW i \in Planned(files)
    PROVE  /\ i \in Ids /\ files[i] \in Manifests /\ files[i].safe \in BOOLEAN
           /\ files[i].depends \subseteq Ids /\ files[i].schema \in Nat
           /\ i \notin files[i].depends
BY PlannedFacts, ManifestFields

----------------------------------------------------------------------------
(* The invariant holds when startup is over. *)
LEMMA InitIInv == Init => IInv
<1> SUFFICES ASSUME Init PROVE IInv
    OBVIOUS
<1> PICK active \in SUBSET Planned(disk) :
        /\ \A i \in active : disk[i].depends \subseteq active
        /\ loaded = active \X {0}
        /\ startupFailed \in SUBSET {i \in Planned(disk) \ active :
                                        disk[i].kind = "hot"}
        /\ copy = [o \in Owners |->
                     IF o \in loaded
                     THEN [reloadable |-> disk[Id(o)].kind = "hot",
                           safe |-> disk[Id(o)].safe,
                           schema |-> disk[Id(o)].schema]
                     ELSE NoCopy]
        /\ uses \in SUBSET UNION {{o} \X disk[Id(o)].depends : o \in loaded}
        /\ holds = [o \in Owners |->
                      {<<u[2], 0>> : u \in {v \in uses : v[1] = o}}]
        /\ everLoaded = active
    BY DEF Init
<1>1. disk \in [Ids -> Manifests \cup {Off}] /\ plan \in [Ids -> Manifests \cup {Off}]
      BY BuildsAssumption DEF Init, NoPlan
<1>2. \A i \in active : /\ i \in Ids /\ disk[i].safe \in BOOLEAN
                        /\ disk[i].depends \subseteq Ids /\ disk[i].schema \in Nat
                        /\ i \notin disk[i].depends
      BY <1>1, PlanFields
<1>3. loaded \subseteq Owners /\ \A o \in loaded : Id(o) \in active
      BY <1>2, MaxCopiesAssumption DEF Owners, Id
<1>4. copy \in [Owners -> Copies]
  <2>1. \A o \in loaded : [reloadable |-> disk[Id(o)].kind = "hot",
                           safe |-> disk[Id(o)].safe,
                           schema |-> disk[Id(o)].schema] \in Copies
        BY <1>2, <1>3 DEF Copies
  <2>2. NoCopy \in Copies
        BY DEF NoCopy, Copies
  <2> QED BY <2>1, <2>2
<1>5. \A u \in uses : /\ u[1] \in loaded /\ u[2] \in disk[Id(u[1])].depends
                      /\ u = <<u[1], u[2]>>
      OBVIOUS
<1>6. uses \subseteq Owners \X Ids
      BY <1>2, <1>3, <1>5
<1>7. \A o \in Owners : \A t \in holds[o] :
        o \in loaded /\ t \in loaded /\ <<o, Id(t)>> \in uses /\ Id(t) # Id(o)
  <2> SUFFICES ASSUME NEW o \in Owners, NEW t \in holds[o]
               PROVE  o \in loaded /\ t \in loaded /\ <<o, Id(t)>> \in uses
                      /\ Id(t) # Id(o)
      OBVIOUS
  <2> PICK u \in uses : u[1] = o /\ t = <<u[2], 0>>
      OBVIOUS
  <2>1. Id(t) = u[2]
        BY DEF Id
  <2>2. u[2] \in active
        BY <1>3, <1>5
  <2>3. o \in loaded /\ <<o, Id(t)>> \in uses
        BY <1>5, <2>1
  <2>4. t \in loaded
        BY <2>2
  <2>5. Id(t) # Id(o)
        BY <1>2, <1>3, <1>5, <2>1, <2>3
  <2> QED BY <2>3, <2>4, <2>5
<1>8. holds \in [Owners -> SUBSET Owners]
      BY <1>3, <1>7
<1>9. TypeOK
  <2>1. NoTarget \in Ids
        BY IdsAssumption DEF NoTarget
  <2>2. blockers \subseteq Ids
        BY <1>2, <1>3 DEF Init, Blocking
  <2>3. startupFailed \subseteq Ids /\ everLoaded \subseteq Ids
        BY <1>2 DEF Planned
  <2>4. guarded \in BOOLEAN /\ next \in 1..(MaxCopies + 1)
        BY MaxCopiesAssumption DEF Init
  <2>5. /\ retained = {} /\ hooked = loaded /\ tables \subseteq loaded /\ halt = {}
        /\ starting = {} /\ phase = "idle" /\ kind = "none" /\ target = NoTarget
        /\ todo = {} /\ keep = {} /\ queue = <<>> /\ rest = <<>> /\ before = {}
        BY DEF Init
  <2> QED BY <1>1, <1>3, <1>4, <1>6, <1>8, <2>1, <2>2, <2>3, <2>4, <2>5 DEF TypeOK
<1>10. Startable /\ InitRuns /\ NotHalted /\ HookedKnown /\ HeldByGroup
       BY DEF Init, Startable, InitRuns, NotHalted, HookedKnown, HeldByGroup
<1>11. Fresh
       BY DEF Init, Fresh
<1>12. UsesComplete
       BY <1>3, <1>7 DEF Init, UsesComplete
<1>13. tables \subseteq loaded /\ NoDanglingTable
  <2>1. Running = loaded /\ tables \subseteq loaded
        BY DEF Init, Running
  <2> QED BY <1>3, <1>7, <2>1 DEF NoDanglingTable
<1>14. BlockersCover
       BY DEF Init, BlockersCover, Running, Blocking
<1> QED BY <1>9, <1>10, <1>11, <1>12, <1>13, <1>14 DEF IInv

----------------------------------------------------------------------------
(* Steps that change no copy, no blocker and no halt. *)
LEMMA QuietStep ==
    ASSUME IInv, TypeOK', phase # "init",
           UNCHANGED <<copyVars, blockers, halt, next, starting>>,
           phase' \notin {"unload", "start", "init"}
    PROVE  IInv'
<1> USE DEF IInv, copyVars
<1>1. Startable' /\ NotHalted' /\ HeldByGroup'
      BY DEF Startable, NotHalted, HeldByGroup
<1>2. InitRuns'
      BY DEF InitRuns
<1>3. HookedKnown' /\ Fresh' /\ UsesComplete'
      BY DEF HookedKnown, Fresh, UsesComplete
<1>4. (tables \subseteq loaded)' /\ NoDanglingTable' /\ BlockersCover'
      BY DEF NoDanglingTable, BlockersCover, Running
<1> QED BY <1>1, <1>2, <1>3, <1>4

LEMMA EditStep ==
    ASSUME IInv, NEW i \in Ids, Edit(i) PROVE IInv'
<1> USE DEF IInv, Edit, copyVars, opVars, historyVars
<1>1. TypeOK'
  <2>1. disk' \in [Ids -> Manifests \cup {Off}]
        BY BuildsAssumption DEF TypeOK
  <2> QED BY <2>1 DEF TypeOK
<1>2. Startable' /\ InitRuns' /\ NotHalted'
      BY DEF Startable, InitRuns, NotHalted
<1>3. HookedKnown' /\ Fresh' /\ UsesComplete'
      BY DEF HookedKnown, Fresh, UsesComplete
<1>4. HeldByGroup'
      BY DEF HeldByGroup, Running
<1>5. (tables \subseteq loaded)' /\ NoDanglingTable' /\ BlockersCover'
      BY DEF NoDanglingTable, BlockersCover, Running
<1> QED BY <1>1, <1>2, <1>3, <1>4, <1>5

(* A holder of a copy that may be freed goes with it: `keep' has all that   *)
(* a copy which stays, or is kept, may call.                                *)
LEMMA GroupCloses ==
    ASSUME IInv, NEW i \in Ids, starting = {}, halt = {},
           NEW m \in Group(i) \ Keep(i), NEW o \in Running, m \in holds[o]
    PROVE  o \in Group(i) \ Keep(i)
<1>1. o \in loaded \cup retained
      BY DEF IInv, HookedKnown, Running
<1>2. o \in Owners /\ o \in Consumers(Id(m)) /\ Id(m) # Id(o)
      BY <1>1 DEF IInv, TypeOK, UsesComplete, Consumers
<1>3. KeptIncluded(Keep(i), Group(i), Staying(i))
      BY KeepClosed DEF Keep
<1>4. o \notin Staying(i) \cup Keep(i)
      BY <1>2, <1>3 DEF KeptIncluded
<1>5. o \in loaded
      BY <1>1, <1>4 DEF Staying
<1>6. o \in Dependants(i) \/ Id(o) = i
  <2>1. CASE Id(m) = i
        BY <1>2, <1>5, <2>1, DependantsClosed DEF HoldersIncluded
  <2>2. CASE m \in Dependants(i)
        BY <1>2, <1>5, <2>2, DependantsClosed DEF HoldersIncluded
  <2> QED BY <2>1, <2>2 DEF Group, LoadedCopies
<1>7. o \in Group(i)
      BY <1>4, <1>5, <1>6 DEF Group, LoadedCopies, Staying
<1> QED BY <1>4, <1>7

LEMMA UnloadGroupStep ==
    ASSUME IInv, NEW i \in Ids, NEW what \in {"reload", "remove"},
           UnloadGroup(i, what), plan' \in {disk, plan}
    PROVE  IInv'
<1> USE DEF IInv, UnloadGroup, Ready, copyVars, historyVars
<1>1. Group(i) \subseteq loaded /\ Keep(i) \subseteq loaded
      BY DEF Group, LoadedCopies, Dependants, Keep, RetainedClosure
<1>2. TypeOK'
  <2>1. todo' \subseteq Owners /\ keep' \subseteq Owners
        BY <1>1 DEF TypeOK
  <2>2. queue' \in Seq(Ids)
        OBVIOUS
  <2>3. before' \subseteq Ids
        BY DEF TypeOK, IdsOf, Id, Owners
  <2> QED BY <2>1, <2>2, <2>3 DEF TypeOK
<1>3. starting = {}
      BY DEF InitRuns
<1>4. Startable' /\ InitRuns' /\ NotHalted'
      BY <1>3 DEF Startable, InitRuns, NotHalted
<1>5. HookedKnown' /\ Fresh' /\ UsesComplete'
      BY DEF HookedKnown, Fresh, UsesComplete
<1>6. HeldByGroup'
  <2>1. Running' = Running
        BY DEF Running
  <2> QED BY <1>1, <1>3, <2>1, GroupCloses DEF HeldByGroup
<1>7. (tables \subseteq loaded)' /\ NoDanglingTable' /\ BlockersCover'
      BY DEF NoDanglingTable, BlockersCover, Running
<1> QED BY <1>2, <1>4, <1>5, <1>6, <1>7

LEMMA AddStep ==
    ASSUME IInv, NEW i \in Ids, NEW what, Add(i, what) PROVE IInv'
<1> USE DEF IInv, Add, Ready, copyVars, historyVars
<1>1. TypeOK'
  <2>1. queue' \in Seq(Ids)
        OBVIOUS
  <2>2. before' \subseteq Ids
        BY DEF TypeOK, IdsOf, Id, Owners
  <2> QED BY <2>1, <2>2 DEF TypeOK
<1> QED BY <1>1, QuietStep

----------------------------------------------------------------------------
(* Unloading a copy. *)

(* The types, whatever the outcome. *)
LEMMA UnloadTypes ==
    ASSUME IInv, NEW o \in Owners, Unload(o) PROVE TypeOK'
<1> USE DEF IInv, Unload, copyVars, historyVars
<1>1. loaded' \subseteq Owners /\ retained' \subseteq Owners
      /\ hooked' \subseteq Owners /\ tables' \subseteq Owners
      /\ uses' \subseteq Owners \X Ids
      BY DEF TypeOK, UnloadRefused, UnloadDegraded, UnloadKept, UnloadFreed,
             UnloadBusy, RetainMapped, Free
<1>2. copy' \in [Owners -> Copies] /\ holds' \in [Owners -> SUBSET Owners]
  <2>1. NoCopy \in Copies
        BY DEF NoCopy, Copies
  <2>2. UNCHANGED <<copy, holds>> \/ Free(o)
        BY DEF UnloadRefused, UnloadDegraded, UnloadKept, UnloadFreed,
               UnloadBusy, RetainMapped
  <2>3. copy \in [Owners -> Copies] /\ holds \in [Owners -> SUBSET Owners]
        BY DEF TypeOK
  <2>4. ASSUME Free(o) PROVE copy' \in [Owners -> Copies]
                             /\ holds' \in [Owners -> SUBSET Owners]
        BY <2>1, <2>3, <2>4 DEF Free
  <2> QED BY <2>2, <2>3, <2>4
<1>3. halt' \subseteq [id : Ids, safe : BOOLEAN]
  <2>1. [id |-> Id(o), safe |-> copy[o].safe] \in [id : Ids, safe : BOOLEAN]
        BY DEF TypeOK, Copies, Id, Owners
  <2> QED BY <2>1 DEF TypeOK, UnloadRefused, UnloadDegraded, UnloadKept,
                 UnloadFreed, UnloadBusy, Halt
<1>4. /\ todo' \subseteq Owners /\ plan' \in [Ids -> Manifests \cup {Off}]
      /\ phase' \in {"finish", "load", "unload"}
      BY DEF TypeOK, UnloadRefused, UnloadDegraded, UnloadKept, UnloadFreed,
             UnloadBusy, Failed, Unloaded
<1>5. queue' \in Seq(Ids)
  <2>1. Id(o) \in Ids
        BY DEF Id, Owners
  <2>2. <<Id(o)>> \o queue \in Seq(Ids)
        BY <2>1 DEF TypeOK
  <2> QED BY <2>2 DEF TypeOK, UnloadRefused, UnloadDegraded, UnloadKept,
                 UnloadFreed, UnloadBusy, Failed, Unloaded
<1> QED BY <1>1, <1>2, <1>3, <1>4, <1>5 DEF TypeOK

(* No copy that can run has a table of the copy that is freed. *)
LEMMA FreedUnheld ==
    ASSUME IInv, NEW o \in Owners, Unload(o), o \notin keep,
           NEW p \in Running, p # o
    PROVE  o \notin holds[p]
<1> SUFFICES ASSUME o \in holds[p] PROVE FALSE
    OBVIOUS
<1>1. p \in todo /\ p \in loaded
      BY DEF IInv, HeldByGroup, Unload
<1>2. p \in Consumers(Id(o))
      BY <1>1 DEF IInv, TypeOK, UsesComplete, Consumers
<1> QED BY <1>1, <1>2 DEF Unload, Deepest

LEMMA UnloadStep ==
    ASSUME IInv, NEW o \in Owners, Unload(o) PROVE IInv'
<1> USE DEF Unload, copyVars, historyVars
<1>1. TypeOK' /\ TypeOK
      BY UnloadTypes DEF IInv
<1>2. halt = {} /\ starting = {} /\ hooked \subseteq loaded
      BY DEF IInv, NotHalted, InitRuns, HookedKnown
<1>3. CASE UnloadRefused(o) \/ UnloadDegraded(o)
  <2>1. /\ UNCHANGED copyVars /\ phase' = "finish"
        BY <1>3 DEF UnloadRefused, UnloadDegraded, Failed
  <2>2. Startable' /\ InitRuns' /\ NotHalted' /\ HeldByGroup'
        BY <1>2, <2>1 DEF Startable, InitRuns, NotHalted, HeldByGroup
  <2>3. HookedKnown' /\ Fresh' /\ UsesComplete'
        BY <1>2, <2>1 DEF IInv, HookedKnown, Fresh, UsesComplete
  <2>4. (tables \subseteq loaded)' /\ NoDanglingTable' /\ BlockersCover'
        BY <2>1 DEF IInv, NoDanglingTable, BlockersCover, Running
  <2> QED BY <1>1, <2>2, <2>3, <2>4 DEF IInv
<1>4. CASE UnloadKept(o) \/ UnloadBusy(o)
  <2>1. /\ RetainMapped(o) /\ UNCHANGED halt
        /\ \/ phase' = "finish"
           \/ phase' \in {"load", "unload"} /\ todo' = todo \ {o} /\ o \in keep
        BY <1>4 DEF UnloadKept, UnloadBusy, Failed, Unloaded
  <2>2. Startable' /\ InitRuns' /\ NotHalted'
        BY <1>2, <2>1 DEF Startable, InitRuns, NotHalted
  <2>3. HookedKnown' /\ Fresh' /\ UsesComplete'
        BY <1>2, <2>1 DEF IInv, HeldByGroup, HookedKnown, Fresh, UsesComplete,
                          RetainMapped
  <2>4. Running' \subseteq Running /\ loaded' \cup retained' = loaded \cup retained
        BY <1>2, <2>1 DEF IInv, HeldByGroup, RetainMapped, Running
  <2>5. HeldByGroup'
        BY <2>1, <2>4 DEF IInv, HeldByGroup, RetainMapped
  <2>6. (tables \subseteq loaded)' /\ NoDanglingTable' /\ BlockersCover'
        BY <2>1, <2>4 DEF IInv, NoDanglingTable, BlockersCover, RetainMapped
  <2> QED BY <1>1, <2>2, <2>3, <2>5, <2>6 DEF IInv
<1>5. CASE UnloadFreed(o)
  <2>1. /\ Free(o) /\ UNCHANGED halt /\ o \notin keep
        /\ phase' \in {"load", "unload"} /\ todo' = todo \ {o}
        BY <1>5 DEF UnloadFreed, Unloaded
  <2>2. Startable' /\ InitRuns' /\ NotHalted'
        BY <1>2, <2>1 DEF Startable, InitRuns, NotHalted
  <2>3. /\ Running' \subseteq Running /\ holds'[o] = {} /\ copy'[o].safe = TRUE
        /\ \A p \in Running' \ {o} : holds'[p] = holds[p] /\ copy'[p] = copy[p]
    <3>1. Running' \subseteq Running /\ Running \subseteq Owners
          BY <1>1, <1>2, <2>1 DEF Free, Running, TypeOK
    <3> QED BY <1>1, <2>1, <3>1 DEF Free, TypeOK, NoCopy
  <2>4. HookedKnown' /\ Fresh'
        BY <1>2, <2>1 DEF IInv, HookedKnown, Fresh, Free
  <2>5. UsesComplete'
    <3>1. \A p \in loaded' \cup retained' \cup starting' : p \in Running'
          BY DEF Running
    <3> QED BY <2>1, <2>3, <3>1 DEF IInv, UsesComplete, Free
  <2>6. \A p \in Running' : o \notin holds'[p]
        BY <2>1, <2>3, FreedUnheld
  <2>7. HeldByGroup'
        BY <2>1, <2>3 DEF IInv, HeldByGroup, Free
  <2>8. (tables \subseteq loaded)' /\ NoDanglingTable'
        BY <2>1, <2>3, <2>6 DEF IInv, NoDanglingTable, Free
  <2>9. BlockersCover'
        BY <2>1, <2>3 DEF IInv, BlockersCover
  <2> QED BY <1>1, <2>2, <2>4, <2>5, <2>7, <2>8, <2>9 DEF IInv
<1> QED BY <1>3, <1>4, <1>5

----------------------------------------------------------------------------
(* Loading a copy. *)

(* `Loaded' leaves the queue well-formed and no init running. *)
LEMMA LoadedFacts ==
    ASSUME TypeOK, queue # <<>>, NEW ok \in BOOLEAN, Loaded(ok)
    PROVE  /\ queue' \in Seq(Ids)
           /\ phase' \in {"load", "restore", "replan", "finish"}
<1>1. queue' \in Seq(Ids)
      BY DEF TypeOK, Loaded
<1>2. phase' \in {"load", "restore", "replan", "finish"}
      BY DEF Loaded
<1> QED BY <1>1, <1>2

LEMMA SkipStep == ASSUME IInv, Skip PROVE IInv'
<1> USE DEF Skip, copyVars, historyVars
<1>1. queue' \in Seq(Ids) /\ phase' \in {"load", "restore", "replan", "finish"}
      BY LoadedFacts DEF IInv
<1>2. TypeOK'
      BY <1>1 DEF IInv, TypeOK
<1> QED BY <1>1, <1>2, QuietStep

LEMMA StartRefusedStep == ASSUME IInv, StartRefused PROVE IInv'
<1> USE DEF StartRefused, copyVars, historyVars
<1>1. queue' \in Seq(Ids) /\ phase' \in {"load", "restore", "replan", "finish"}
      BY LoadedFacts DEF IInv, Startable
<1>2. TypeOK'
      BY <1>1 DEF IInv, TypeOK
<1> QED BY <1>1, <1>2, QuietStep

LEMMA UnguardedStep == ASSUME IInv, Unguarded PROVE IInv'
<1> USE DEF Unguarded, copyVars, historyVars
<1>1. TypeOK'
      BY DEF IInv, TypeOK
<1> QED BY <1>1, QuietStep

LEMMA BlockStep == ASSUME IInv, Block PROVE IInv'
<1> USE DEF IInv, Block, copyVars, historyVars
<1>1. Head(queue) \in Ids
      BY PlannedFacts
<1>2. TypeOK'
  <2>1. blockers' \subseteq Ids
        BY <1>1 DEF TypeOK
  <2> QED BY <2>1 DEF TypeOK
<1>3. Startable'
  <2>1. Planned(plan)' = Planned(plan)
        BY DEF Planned
  <2> QED BY <2>1 DEF Startable
<1>4. InitRuns' /\ NotHalted' /\ HeldByGroup'
      BY DEF InitRuns, NotHalted, HeldByGroup
<1>5. HookedKnown' /\ Fresh' /\ UsesComplete'
      BY DEF HookedKnown, Fresh, UsesComplete
<1>6. (tables \subseteq loaded)' /\ NoDanglingTable' /\ BlockersCover'
      BY DEF NoDanglingTable, BlockersCover, Running
<1> QED BY <1>2, <1>3, <1>4, <1>5, <1>6

LEMMA StartStep == ASSUME IInv, Start PROVE IInv'
<1> DEFINE i == Head(queue)
           o == <<i, next>>
<1>1. /\ phase = "start" /\ halt = {} /\ next <= MaxCopies
      /\ next' = next + 1 /\ starting' = {o} /\ phase' = "init"
      /\ UNCHANGED <<disk, plan, loaded, retained, hooked, tables, blockers,
                     guarded, halt, historyVars, kind, target, todo, keep,
                     queue, rest, before>>
      BY DEF Start
<1>2. PICK got \in SUBSET {t \in tables : Id(t) \in plan[i].depends} :
          /\ holds' = [holds EXCEPT ![o] = got]
          /\ uses' = uses \cup ({o} \X IdsOf(got))
      BY DEF Start, Queryable
<1>3. PICK shadowed \in BOOLEAN :
          copy' = [copy EXCEPT ![o] =
                     [reloadable |-> plan[i].kind = "hot" /\ shadowed,
                      safe |-> plan[i].safe, schema |-> plan[i].schema]]
      BY DEF Start
<1>4. TypeOK /\ next \in Nat /\ 0 < next
      BY MaxCopiesAssumption DEF IInv, TypeOK
<1>5. /\ queue # <<>> /\ i \in Ids /\ plan[i].safe \in BOOLEAN
      /\ plan[i].schema \in Nat /\ i \notin plan[i].depends
      /\ plan[i].safe \/ i \in blockers
      BY <1>1, <1>4, PlanFields DEF IInv, Startable, TypeOK
<1>6. o \in Owners /\ Id(o) = i
      BY <1>1, <1>4, <1>5, MaxCopiesAssumption DEF Owners, Id
<1>7. got \subseteq loaded /\ got \subseteq Owners
      BY DEF IInv, TypeOK
<1>8. TypeOK'
  <2>1. [reloadable |-> plan[i].kind = "hot" /\ shadowed,
         safe |-> plan[i].safe, schema |-> plan[i].schema] \in Copies
        BY <1>5 DEF Copies
  <2>2. copy' \in [Owners -> Copies]
        BY <1>3, <1>4, <2>1 DEF TypeOK
  <2>3. holds' \in [Owners -> SUBSET Owners]
        BY <1>2, <1>4, <1>7 DEF TypeOK
  <2>4. uses' \subseteq Owners \X Ids
        BY <1>2, <1>4, <1>6, <1>7 DEF TypeOK, IdsOf, Id, Owners
  <2>5. next' \in 1..(MaxCopies + 1) /\ starting' \subseteq Owners
        BY <1>1, <1>4, <1>6, MaxCopiesAssumption
  <2> QED BY <1>1, <1>4, <2>2, <2>3, <2>4, <2>5 DEF TypeOK, historyVars
<1>9. starting = {} /\ o \notin loaded \cup retained
      BY <1>1, <1>4 DEF IInv, InitRuns, Fresh
<1>10. Startable' /\ InitRuns' /\ NotHalted' /\ HeldByGroup'
       BY <1>1, <1>5 DEF Startable, InitRuns, NotHalted, HeldByGroup
<1>11. HookedKnown'
       BY <1>1 DEF IInv, HookedKnown
<1>12. Fresh'
  <2>1. \A p \in loaded \cup retained : p[2] < next /\ p[2] \in Nat
        BY <1>4 DEF IInv, Fresh, TypeOK, Owners
  <2>2. o[2] = next
        OBVIOUS
  <2> QED BY <1>1, <1>4, <1>9, <2>1, <2>2 DEF Fresh
<1>13. /\ holds'[o] = got /\ copy'[o].safe = plan[i].safe
       /\ \A p \in Owners \ {o} : holds'[p] = holds[p] /\ copy'[p] = copy[p]
       BY <1>2, <1>3, <1>4, <1>6 DEF TypeOK
<1>14. loaded \cup retained \subseteq Owners \ {o} /\ hooked \subseteq loaded
       BY <1>1, <1>4, <1>9 DEF IInv, TypeOK, HookedKnown
<1>15. UsesComplete'
  <2>1. \A t \in got : <<o, Id(t)>> \in uses' /\ Id(t) # Id(o)
        BY <1>2, <1>5, <1>6 DEF IdsOf
  <2>2. \A p \in loaded \cup retained : \A t \in holds'[p] :
           <<p, Id(t)>> \in uses' /\ Id(t) # Id(p)
        BY <1>2, <1>13, <1>14 DEF IInv, UsesComplete
  <2> QED BY <1>1, <1>13, <2>1, <2>2 DEF UsesComplete
<1>16. Running' = loaded \cup retained \cup {o}
       BY <1>1, <1>14 DEF Running
<1>17. (tables \subseteq loaded)' /\ NoDanglingTable'
       BY <1>1, <1>7, <1>13, <1>14, <1>16 DEF IInv, NoDanglingTable, Running
<1>18. BlockersCover'
       BY <1>1, <1>5, <1>6, <1>13, <1>14, <1>16 DEF IInv, BlockersCover, Running
<1> QED BY <1>8, <1>10, <1>11, <1>12, <1>15, <1>17, <1>18 DEF IInv

(* The types, whatever became of the copy. *)
LEMMA EndInitTypes ==
    ASSUME IInv, NEW o \in Owners, EndInit(o) PROVE TypeOK'
<1> DEFINE Outcomes == InitFailed(o) \/ InitDegraded(o) \/ InitCommitted(o)
              \/ InitPartial(o) \/ InitDiscardedKept(o)
              \/ InitDiscardedBusy(o) \/ InitDiscarded(o)
<1> USE DEF InitFailed, InitDegraded, InitCommitted, InitPartial,
            InitDiscardedKept, InitDiscardedBusy, InitDiscarded
<1>1. TypeOK /\ queue # <<>> /\ Outcomes
      BY DEF IInv, EndInit, InitRuns
<1>2. queue' \in Seq(Ids) /\ phase' \in {"load", "restore", "replan", "finish"}
      BY <1>1, LoadedFacts
<1>3. halt' \subseteq [id : Ids, safe : BOOLEAN]
  <2>1. [id |-> Id(o), safe |-> copy[o].safe] \in [id : Ids, safe : BOOLEAN]
        BY <1>1 DEF TypeOK, Copies, Id, Owners
  <2> QED BY <1>1, <2>1 DEF TypeOK, Halt
<1>4. /\ loaded' \subseteq Owners /\ retained' \subseteq Owners
      /\ hooked' \subseteq Owners /\ tables' \subseteq Owners
      /\ uses' \subseteq Owners \X Ids
      BY <1>1 DEF TypeOK, Drop, Commit, KeepDiscarded
<1>5. copy' \in [Owners -> Copies] /\ holds' \in [Owners -> SUBSET Owners]
  <2>1. NoCopy \in Copies
        BY DEF NoCopy, Copies
  <2>2. UNCHANGED <<copy, holds>> \/ Drop(o)
        BY <1>1 DEF Commit, KeepDiscarded
  <2>3. copy \in [Owners -> Copies] /\ holds \in [Owners -> SUBSET Owners]
        BY <1>1 DEF TypeOK
  <2>4. ASSUME Drop(o) PROVE copy' \in [Owners -> Copies]
                             /\ holds' \in [Owners -> SUBSET Owners]
        BY <2>1, <2>3, <2>4 DEF Drop
  <2> QED BY <2>2, <2>3, <2>4
<1>6. /\ starting' = {}
      /\ UNCHANGED <<disk, plan, blockers, guarded, historyVars, next, kind,
                     target, todo, keep, rest, before>>
      BY DEF EndInit
<1> QED BY <1>1, <1>2, <1>3, <1>4, <1>5, <1>6 DEF TypeOK, historyVars

LEMMA EndInitStep ==
    ASSUME IInv, NEW o \in Owners, EndInit(o) PROVE IInv'
<1>1. TypeOK /\ TypeOK' /\ queue # <<>>
      BY EndInitTypes DEF IInv, InitRuns, EndInit
<1>2. /\ halt = {} /\ hooked \subseteq loaded
      /\ o \notin loaded \cup retained /\ o[2] < next
      BY DEF IInv, EndInit, NotHalted, HookedKnown, Fresh
<1>3. /\ o \in starting /\ starting' = {} /\ UNCHANGED <<blockers, next, plan>>
      BY DEF EndInit
<1>4. ASSUME phase' \in {"load", "restore", "replan", "finish"}
      PROVE  Startable' /\ InitRuns' /\ NotHalted' /\ HeldByGroup'
      BY <1>3, <1>4 DEF Startable, InitRuns, NotHalted, HeldByGroup
<1>5. CASE Drop(o) /\ UNCHANGED halt
           /\ phase' \in {"load", "restore", "replan", "finish"}
  <2>1. /\ Running' \subseteq Running \ {o}
        /\ \A p \in Running' : holds'[p] = holds[p] /\ copy'[p] = copy[p]
    <3>1. Running' \subseteq Running \ {o}
          BY <1>2, <1>3, <1>5 DEF Drop, Running
    <3>2. Running \subseteq Owners
          BY <1>1 DEF Running, TypeOK
    <3> QED BY <1>1, <1>5, <3>1, <3>2 DEF Drop, TypeOK
  <2>2. HookedKnown' /\ Fresh'
        BY <1>2, <1>3, <1>5 DEF IInv, HookedKnown, Fresh, Drop
  <2>3. UsesComplete'
    <3>1. \A p \in loaded' \cup retained' \cup starting' : p \in Running' /\ p # o
          BY <2>1 DEF Running
    <3> QED BY <1>3, <1>5, <2>1, <3>1 DEF IInv, UsesComplete, Drop
  <2>4. (tables \subseteq loaded)' /\ NoDanglingTable' /\ BlockersCover'
        BY <1>3, <1>5, <2>1 DEF IInv, NoDanglingTable, BlockersCover, Drop
  <2> QED BY <1>1, <1>4, <1>5, <2>2, <2>3, <2>4 DEF IInv
<1>6. CASE InitDegraded(o) /\ phase' \in {"load", "restore", "replan", "finish"}
  <2>1. Running' \subseteq Running
        BY <1>3, <1>6 DEF InitDegraded, Running
  <2>2. HookedKnown'
        BY <1>2, <1>6 DEF InitDegraded, HookedKnown, Halt
  <2>3. Fresh' /\ UsesComplete'
        BY <1>2, <1>3, <1>6 DEF IInv, Fresh, UsesComplete, InitDegraded
  <2>4. (tables \subseteq loaded)' /\ NoDanglingTable' /\ BlockersCover'
        BY <1>3, <1>6, <2>1 DEF IInv, NoDanglingTable, BlockersCover, InitDegraded
  <2> QED BY <1>1, <1>4, <1>6, <2>2, <2>3, <2>4 DEF IInv
<1>7. CASE /\ Commit(o) /\ (UNCHANGED halt \/ Halt(o))
           /\ phase' \in {"load", "restore", "replan", "finish"}
  <2>1. Running' \subseteq Running /\ loaded' = loaded \cup {o}
        BY <1>2, <1>3, <1>7 DEF Commit, Running
  <2>2. HookedKnown' /\ Fresh'
        BY <1>2, <1>3, <1>7 DEF IInv, HookedKnown, Fresh, Commit
  <2>3. UsesComplete'
        BY <1>3, <1>7 DEF IInv, UsesComplete, Commit
  <2>4. (tables \subseteq loaded)' /\ NoDanglingTable' /\ BlockersCover'
        BY <1>3, <1>7, <2>1 DEF IInv, NoDanglingTable, BlockersCover, Commit
  <2> QED BY <1>1, <1>4, <1>7, <2>2, <2>3, <2>4 DEF IInv
<1>8. CASE /\ KeepDiscarded(o) /\ (UNCHANGED halt \/ Halt(o))
           /\ phase' \in {"load", "restore", "replan", "finish"}
  <2>1. Running' \subseteq Running /\ retained' = retained \cup {o}
        BY <1>2, <1>3, <1>8 DEF KeepDiscarded, Running
  <2>2. HookedKnown' /\ Fresh'
        BY <1>2, <1>3, <1>8 DEF IInv, HookedKnown, Fresh, KeepDiscarded
  <2>3. UsesComplete'
        BY <1>3, <1>8 DEF IInv, UsesComplete, KeepDiscarded
  <2>4. (tables \subseteq loaded)' /\ NoDanglingTable' /\ BlockersCover'
        BY <1>3, <1>8, <2>1 DEF IInv, NoDanglingTable, BlockersCover, KeepDiscarded
  <2> QED BY <1>1, <1>4, <1>8, <2>2, <2>3, <2>4 DEF IInv
<1>9. \E ok \in BOOLEAN : Loaded(ok)
      BY DEF EndInit, InitFailed, InitDegraded, InitCommitted, InitPartial,
             InitDiscardedKept, InitDiscardedBusy, InitDiscarded
<1>10. phase' \in {"load", "restore", "replan", "finish"}
       BY <1>1, <1>9, LoadedFacts
<1> QED BY <1>5, <1>6, <1>7, <1>8, <1>10
        DEF EndInit, InitFailed, InitCommitted, InitPartial, InitDiscardedKept,
            InitDiscardedBusy, InitDiscarded

----------------------------------------------------------------------------
(* Restoring dependants, and the end of an operation. *)

LEMMA PlanRestoreStep == ASSUME IInv, PlanRestore PROVE IInv'
<1> USE DEF PlanRestore, copyVars, historyVars
<1> DEFINE R == NeedTarget(disk) \cap everLoaded
<1>1. PICK s \in Orders(R, disk) :
        rest' = [k \in DOMAIN s |-> [id |-> s[k], depends |-> disk[s[k]].depends]]
      OBVIOUS
<1>2. R \subseteq Planned(disk) /\ R \subseteq Ids
      BY DEF NeedTarget, Planned
<1>3. Cardinality(R) \in Nat
      BY <1>2, IdsAssumption, FS_Subset, FS_CardinalityType
<1>4. s \in [1..Cardinality(R) -> R]
      BY DEF Orders
<1>5. \A k \in 1..Cardinality(R) :
        [id |-> s[k], depends |-> disk[s[k]].depends] \in
            [id : Ids, depends : SUBSET Ids]
  <2> SUFFICES ASSUME NEW k \in 1..Cardinality(R)
               PROVE  s[k] \in Ids /\ disk[s[k]].depends \subseteq Ids
      OBVIOUS
  <2>1. s[k] \in Planned(disk)
        BY <1>2, <1>4
  <2> QED BY <2>1, PlanFields DEF IInv, TypeOK
<1>6. rest' \in Seq([id : Ids, depends : SUBSET Ids])
  <2>1. rest' \in [1..Cardinality(R) -> [id : Ids, depends : SUBSET Ids]]
        BY <1>1, <1>4, <1>5
  <2>2. \A T : \A n \in Nat : [1..n -> T] \subseteq Seq(T)
        BY SeqDef, Zenon
  <2> QED BY <1>3, <2>1, <2>2, Zenon
<1>7. TypeOK'
      BY <1>6 DEF IInv, TypeOK
<1>8. phase = "replan" /\ phase' = "restore"
      OBVIOUS
<1> QED BY <1>7, <1>8, QuietStep

LEMMA RestoreStep == ASSUME IInv, Restore PROVE IInv'
<1> USE DEF Restore, copyVars, historyVars
<1> DEFINE Dependant == [id : Ids, depends : SUBSET Ids]
<1>1. TypeOK /\ rest \in Seq(Dependant) /\ rest # <<>> /\ phase = "restore"
      BY DEF IInv, TypeOK
<1>2. rest' \in Seq(Dependant) /\ Head(rest) \in Dependant
  <2> HIDE DEF Dependant
  <2> QED BY <1>1
<1>3. Head(rest).id \in Ids
      BY <1>2
<1>4. /\ queue' = queue \/ queue' = <<Head(rest).id>>
      /\ phase' \in {"load", "restore"} /\ plan' \in {disk, plan}
      BY <1>1
<1>5. queue' \in Seq(Ids)
  <2> HIDE DEF Restore
  <2>1. queue \in Seq(Ids) /\ <<Head(rest).id>> \in Seq(Ids)
        BY <1>1, <1>3 DEF TypeOK
  <2> QED BY <1>4, <2>1
<1>6. TypeOK'
      BY <1>1, <1>2, <1>4, <1>5 DEF TypeOK
<1> QED BY <1>1, <1>4, <1>6, QuietStep

LEMMA FinishStep == ASSUME IInv, Finish PROVE IInv'
<1> USE DEF Finish, copyVars
<1>1. TypeOK'
  <2>1. NoTarget \in Ids /\ NoPlan \in [Ids -> Manifests \cup {Off}]
        BY IdsAssumption DEF NoTarget, NoPlan
  <2>2. Blocking \subseteq Ids /\ IdsOf(loaded) \subseteq Ids
        BY DEF IInv, TypeOK, Blocking, IdsOf, Id, Owners
  <2> QED BY <2>1, <2>2 DEF IInv, TypeOK
<1>2. starting = {}
      BY DEF IInv, InitRuns
<1>3. BlockersCover'
  <2> SUFFICES ASSUME NEW o \in Running, ~copy[o].safe PROVE Id(o) \in Blocking
      BY DEF BlockersCover, Running
  <2>1. CASE o \in loaded \cup retained
        BY <2>1 DEF Blocking
  <2>2. CASE o \in hooked \ loaded
    <3>1. [id |-> Id(o), safe |-> copy[o].safe] \in halt
          BY <2>2 DEF IInv, HookedKnown
    <3> QED BY <3>1 DEF Blocking
  <2> QED BY <1>2, <2>1, <2>2 DEF Running
<1>4. Startable' /\ InitRuns' /\ NotHalted' /\ HeldByGroup'
      BY <1>2 DEF Startable, InitRuns, NotHalted, HeldByGroup
<1>5. HookedKnown' /\ Fresh' /\ UsesComplete'
      BY DEF IInv, HookedKnown, Fresh, UsesComplete
<1>6. (tables \subseteq loaded)' /\ NoDanglingTable'
      BY DEF IInv, NoDanglingTable, Running
<1> QED BY <1>1, <1>3, <1>4, <1>5, <1>6 DEF IInv

LEMMA StutterStep == ASSUME IInv, UNCHANGED vars PROVE IInv'
<1> USE DEF vars, copyVars, historyVars, opVars, IInv
<1>1. TypeOK'
      BY DEF TypeOK
<1>2. Startable' /\ InitRuns' /\ NotHalted'
  <2>1. Planned(plan)' = Planned(plan)
        BY DEF Planned
  <2> QED BY <2>1 DEF Startable, InitRuns, NotHalted
<1>3. HookedKnown' /\ Fresh' /\ UsesComplete' /\ HeldByGroup'
      BY DEF HookedKnown, Fresh, UsesComplete, HeldByGroup, Running
<1>4. (tables \subseteq loaded)' /\ NoDanglingTable' /\ BlockersCover'
      BY DEF NoDanglingTable, BlockersCover, Running
<1> QED BY <1>1, <1>2, <1>3, <1>4

----------------------------------------------------------------------------
(* Every step of the specification keeps the invariant. *)
LEMMA Invariance == Spec => []IInv
<1>1. IInv /\ [Next]_vars => IInv'
  <2> SUFFICES ASSUME IInv, [Next]_vars PROVE IInv'
      OBVIOUS
  <2>1. ASSUME NEW i \in Ids, Edit(i) PROVE IInv'
        BY <2>1, EditStep
  <2>2. ASSUME NEW i \in Ids, Reload(i) PROVE IInv'
        BY <2>2, UnloadGroupStep DEF Reload
  <2>3. ASSUME NEW i \in Ids, Remove(i) PROVE IInv'
        BY <2>3, UnloadGroupStep DEF Remove
  <2>4. ASSUME NEW i \in Ids, NEW what \in {"add", "enable", "retry"}, Add(i, what)
        PROVE  IInv'
        BY <2>4, AddStep
  <2>5. ASSUME NEW o \in Owners, Unload(o) \/ EndInit(o) PROVE IInv'
        BY <2>5, UnloadStep, EndInitStep
  <2>6. CASE Skip \/ Unguarded \/ Block \/ StartRefused \/ Start
        BY <2>6, SkipStep, UnguardedStep, BlockStep, StartRefusedStep, StartStep
  <2>7. CASE PlanRestore \/ Restore \/ Finish
        BY <2>7, PlanRestoreStep, RestoreStep, FinishStep
  <2>8. CASE UNCHANGED vars
        BY <2>8, StutterStep
  <2> QED BY <2>1, <2>2, <2>3, <2>4, <2>5, <2>6, <2>7, <2>8 DEF Next, Step
<1> QED BY <1>1, InitIInv, PTL DEF Spec

(* The variables keep their types, for any plugins and any number of copies.*)
THEOREM TypeCorrect == Spec => []TypeOK
BY Invariance, PTL DEF IInv

(* No copy that can run ever has a service table of an unmapped copy, for   *)
(* any service graph and any failures of unload and init.                   *)
THEOREM NoTableDangles == Spec => []NoDanglingTable
BY Invariance, PTL DEF IInv

(* Core's lobby guard always sees every unsafe copy that can run. *)
THEOREM GuardSeesUnsafeCopies == Spec => []BlockersCover
BY Invariance, PTL DEF IInv

(* After an incomplete rollback no step unloads, starts or commits a copy.  *)
THEOREM HaltStopsChanges == Spec => HaltFreezes
<1>1. IInv /\ [Next]_vars => [halt # {} => UNCHANGED <<copyVars, starting, halt>>]_vars
  <2> SUFFICES ASSUME IInv, [Next]_vars, halt # {}
               PROVE  UNCHANGED <<copyVars, starting, halt>>
      OBVIOUS
  <2>1. phase \notin {"unload", "init"}
        BY DEF IInv, NotHalted
  <2>2. \A o \in Owners : ~Unload(o) /\ ~EndInit(o)
        BY <2>1 DEF Unload, EndInit
  <2>3. ~Start
        BY DEF Start
  <2>4. \A i \in Ids : /\ ~Reload(i) /\ ~Remove(i)
                       /\ \A what \in {"add", "enable", "retry"} : ~Add(i, what)
        BY DEF Reload, Remove, UnloadGroup, Add, Ready
  <2>5. CASE \E i \in Ids : Edit(i)
        BY <2>5 DEF Edit
  <2>6. CASE Skip \/ Unguarded \/ Block \/ StartRefused
        BY <2>6 DEF Skip, Unguarded, Block, StartRefused
  <2>7. CASE PlanRestore \/ Restore \/ Finish
        BY <2>7 DEF PlanRestore, Restore, Finish
  <2>8. CASE UNCHANGED vars
        BY <2>8 DEF vars
  <2> QED BY <2>2, <2>3, <2>4, <2>5, <2>6, <2>7, <2>8 DEF Next, Step
<1> QED BY <1>1, Invariance, PTL DEF Spec, HaltFreezes
----------------------------------------------------------------------------
(* The second invariant: who is active, and who waits to be loaded again.   *)

Items(q) == {q[k] : k \in 1..Len(q)}
Distinct(q) == \A j, k \in 1..Len(q) : q[j] = q[k] => j = k

Loading == phase \in {"unload", "load", "start", "init"}

OnePerId == \A o, p \in loaded \cup starting : Id(o) = Id(p) => o = p

(* What waits in the queue is not active, and waits once. *)
QueueInactive == Loading => /\ Distinct(queue)
                            /\ Items(queue) \cap IdsOf(loaded) = {}

StartingIsHead == \A o \in starting : Id(o) = Head(queue)

(* A reload under way owes no plugin: it is active or in the queue. *)
ReloadOwes ==
    kind = "reload" /\ Loading => before = IdsOf(loaded) \cup Items(queue)

RestoresEnable == phase \in {"replan", "restore"} => kind = "enable"

ActiveInv ==
    /\ OnePerId /\ QueueInactive /\ StartingIsHead /\ ReloadOwes
    /\ RestoresEnable

(* Taking the head off a queue, and putting an ID before it. *)
LEMMA TailFacts ==
    ASSUME NEW q \in Seq(Ids), q # <<>>
    PROVE  /\ Tail(q) \in Seq(Ids)
           /\ Items(q) = {Head(q)} \cup Items(Tail(q))
           /\ Distinct(q) => Distinct(Tail(q)) /\ Head(q) \notin Items(Tail(q))
<1>1. /\ Tail(q) \in Seq(Ids) /\ Len(q) \in Nat /\ Len(q) > 0
      /\ Len(Tail(q)) = Len(q) - 1 /\ Head(q) = q[1]
      /\ \A k \in 1..Len(Tail(q)) : Tail(q)[k] = q[k + 1]
      OBVIOUS
<1>2. ASSUME NEW x PROVE x \in Items(q) <=> x = Head(q) \/ x \in Items(Tail(q))
  <2>1. ASSUME x \in Items(q) PROVE x = Head(q) \/ x \in Items(Tail(q))
    <3> PICK k \in 1..Len(q) : x = q[k]
        BY <2>1 DEF Items
    <3>1. CASE k = 1
          BY <1>1, <3>1
    <3>2. CASE k # 1
      <4>1. k - 1 \in 1..Len(Tail(q)) /\ (k - 1) + 1 = k
            BY <1>1, <3>2
      <4>2. x = Tail(q)[k - 1]
            BY <1>1, <4>1
      <4> QED BY <4>1, <4>2 DEF Items
    <3> QED BY <3>1, <3>2
  <2>2. Head(q) \in Items(q)
        BY <1>1 DEF Items
  <2>3. ASSUME x \in Items(Tail(q)) PROVE x \in Items(q)
    <3> PICK k \in 1..Len(Tail(q)) : x = Tail(q)[k]
        BY <2>3 DEF Items
    <3>1. k + 1 \in 1..Len(q) /\ x = q[k + 1]
          BY <1>1
    <3> QED BY <3>1 DEF Items
  <2> QED BY <2>1, <2>2, <2>3
<1>3. ASSUME Distinct(q) PROVE Distinct(Tail(q)) /\ Head(q) \notin Items(Tail(q))
  <2>1. \A j, k \in 1..Len(q) : q[j] = q[k] => j = k
        BY <1>3 DEF Distinct
  <2>2. ASSUME NEW j \in 1..Len(Tail(q)), NEW k \in 1..Len(Tail(q)),
               Tail(q)[j] = Tail(q)[k]
        PROVE  j = k
    <3>1. j + 1 \in 1..Len(q) /\ k + 1 \in 1..Len(q) /\ q[j + 1] = q[k + 1]
          BY <1>1, <2>2
    <3>2. j + 1 = k + 1
          BY <2>1, <3>1
    <3> QED BY <3>2
  <2>3. ASSUME NEW k \in 1..Len(Tail(q)), Head(q) = Tail(q)[k] PROVE FALSE
    <3>1. 1 \in 1..Len(q) /\ k + 1 \in 1..Len(q) /\ q[1] = q[k + 1]
          BY <1>1, <2>3
    <3>2. 1 = k + 1
          BY <2>1, <3>1
    <3> QED BY <3>2
  <2> QED BY <2>2, <2>3 DEF Distinct, Items
<1> QED BY <1>1, <1>2, <1>3

LEMMA PushFacts ==
    ASSUME NEW q \in Seq(Ids), NEW i \in Ids
    PROVE  /\ Items(<<i>> \o q) = {i} \cup Items(q)
           /\ Distinct(q) /\ i \notin Items(q) => Distinct(<<i>> \o q)
<1> DEFINE r == <<i>> \o q
<1>1. /\ r \in Seq(Ids) /\ Len(q) \in Nat /\ Len(r) = Len(q) + 1 /\ r[1] = i
      /\ \A k \in 1..Len(q) : r[k + 1] = q[k]
      OBVIOUS
<1>2. r # <<>> /\ Head(r) = i
      BY <1>1
<1>3. Tail(r) = q
  <2>1. Tail(r) \in Seq(Ids) /\ Len(Tail(r)) = Len(q)
        BY <1>1
  <2>2. \A k \in 1..Len(q) : Tail(r)[k] = q[k]
        BY <1>1, <2>1
  <2> QED BY <2>1, <2>2, SeqEqual
<1> HIDE DEF r
<1>4. Items(r) = {i} \cup Items(q)
      BY <1>1, <1>2, <1>3, TailFacts
<1>5. ASSUME Distinct(q), i \notin Items(q),
             NEW j \in 1..Len(r), NEW k \in 1..Len(r), r[j] = r[k]
      PROVE  j = k
  <2>1. \A n \in 1..Len(r) : n # 1 => n - 1 \in 1..Len(q) /\ r[n] = q[n - 1]
    <3> TAKE n \in 1..Len(r)
    <3> HAVE n # 1
    <3>1. n - 1 \in 1..Len(q) /\ (n - 1) + 1 = n
          BY <1>1
    <3> QED BY <1>1, <3>1
  <2>2. \A n \in 1..Len(r) : n # 1 => r[n] # i
        BY <1>5, <2>1 DEF Items
  <2>3. CASE j = 1 \/ k = 1
        BY <1>1, <1>5, <2>2, <2>3
  <2>4. CASE j # 1 /\ k # 1
    <3>1. q[j - 1] = q[k - 1] /\ j - 1 \in 1..Len(q) /\ k - 1 \in 1..Len(q)
          BY <1>5, <2>1, <2>4
    <3>2. j - 1 = k - 1
          BY <1>5, <3>1 DEF Distinct
    <3> QED BY <3>2
  <2> QED BY <2>3, <2>4
<1> QED BY <1>4, <1>5 DEF Distinct, r

LEMMA InitActive == Init => ActiveInv
BY DEF Init, ActiveInv, OnePerId, QueueInactive, StartingIsHead, ReloadOwes,
       RestoresEnable, Loading, Id

(* A step that ends an operation, or fails it. *)
LEMMA ActiveEnds ==
    ASSUME ActiveInv, loaded' \subseteq loaded, starting' = {},
           phase' \in {"finish", "idle"}
    PROVE  ActiveInv'
BY DEF ActiveInv, OnePerId, QueueInactive, StartingIsHead, ReloadOwes,
       RestoresEnable, Loading

(* A step that leaves the active copies and the queue alone. *)
LEMMA ActiveSame ==
    ASSUME ActiveInv, UNCHANGED <<loaded, starting, queue, kind, before>>,
           Loading' => Loading, phase' \in {"replan", "restore"} => kind = "enable"
    PROVE  ActiveInv'
<1>1. IdsOf(loaded') = IdsOf(loaded) /\ Items(queue') = Items(queue)
      /\ Distinct(queue') = Distinct(queue)
      OBVIOUS
<1> QED BY <1>1 DEF ActiveInv, OnePerId, QueueInactive, StartingIsHead,
              ReloadOwes, RestoresEnable

LEMMA UnloadGroupActive ==
    ASSUME IInv, ActiveInv, NEW i \in Ids, NEW what \in {"reload", "remove"},
           UnloadGroup(i, what)
    PROVE  ActiveInv'
<1>1. /\ starting = {} /\ phase' = "unload" /\ queue' = <<>>
      /\ before' = IdsOf(loaded) /\ UNCHANGED <<loaded, starting>>
      BY DEF UnloadGroup, Ready, copyVars, IInv, InitRuns
<1>2. Items(queue') = {} /\ Distinct(queue')
      BY <1>1 DEF Items, Distinct
<1>3. IdsOf(loaded') = IdsOf(loaded)
      BY <1>1
<1> QED BY <1>1, <1>2, <1>3 DEF ActiveInv, OnePerId, QueueInactive,
              StartingIsHead, ReloadOwes, RestoresEnable

(* One inactive plugin is queued. *)
LEMMA QueueOne ==
    ASSUME IInv, ActiveInv, phase \in {"idle", "restore"}, NEW i \in Ids,
           LoadedCopies(i) = {}, queue' = <<i>>, phase' = "load",
           kind' # "reload", UNCHANGED <<loaded, starting>>
    PROVE  ActiveInv'
<1>1. starting = {}
      BY DEF IInv, InitRuns
<1>2. Items(queue') = {i} /\ Distinct(queue')
      BY DEF Items, Distinct
<1>3. i \notin IdsOf(loaded')
      BY DEF LoadedCopies, IdsOf
<1> QED BY <1>1, <1>2, <1>3 DEF ActiveInv, OnePerId, QueueInactive,
              StartingIsHead, ReloadOwes, RestoresEnable

LEMMA UnloadActive ==
    ASSUME IInv, ActiveInv, NEW o \in Owners, Unload(o) PROVE ActiveInv'
<1>1. /\ phase = "unload" /\ starting = {} /\ starting' = {} /\ o \in loaded
      /\ UNCHANGED <<kind, before>> /\ queue \in Seq(Ids) /\ Id(o) \in Ids
      BY DEF Unload, IInv, InitRuns, HeldByGroup, TypeOK, Owners, Id
<1>2. CASE phase' = "finish" /\ loaded' \subseteq loaded
      BY <1>1, <1>2, ActiveEnds
<1>3. CASE Unloaded(o) /\ loaded' = loaded \ {o}
  <2>1. /\ Distinct(queue) /\ Items(queue) \cap IdsOf(loaded) = {}
        /\ \A p \in loaded : Id(p) = Id(o) => p = o
        BY <1>1 DEF ActiveInv, QueueInactive, OnePerId, Loading
  <2>2. /\ Id(o) \in IdsOf(loaded) /\ Id(o) \notin IdsOf(loaded')
        /\ IdsOf(loaded) = IdsOf(loaded') \cup {Id(o)}
        BY <1>1, <1>3, <2>1 DEF IdsOf
  <2>3. phase' \in {"load", "unload"}
        BY <1>3 DEF Unloaded
  <2>4. /\ \/ queue' = queue /\ kind = "remove"
           \/ queue' = <<Id(o)>> \o queue
        BY <1>3 DEF Unloaded
  <2>5. /\ Items(<<Id(o)>> \o queue) = {Id(o)} \cup Items(queue)
        /\ Distinct(<<Id(o)>> \o queue)
        BY <1>1, <2>1, <2>2, PushFacts
  <2>6. QueueInactive'
        BY <2>1, <2>2, <2>4, <2>5 DEF QueueInactive
  <2>7. ReloadOwes'
    <3> SUFFICES ASSUME kind = "reload" PROVE before = IdsOf(loaded') \cup Items(queue')
        BY <1>1 DEF ReloadOwes
    <3>1. before = IdsOf(loaded) \cup Items(queue)
          BY <1>1 DEF ActiveInv, ReloadOwes, Loading
    <3>2. queue' = <<Id(o)>> \o queue
          BY <2>4
    <3> QED BY <2>2, <2>5, <3>1, <3>2
  <2>8. OnePerId' /\ StartingIsHead' /\ RestoresEnable'
        BY <1>1, <1>3, <2>3 DEF ActiveInv, OnePerId, StartingIsHead, RestoresEnable
  <2> QED BY <2>6, <2>7, <2>8 DEF ActiveInv
<1> QED BY <1>2, <1>3 DEF Unload, UnloadRefused, UnloadDegraded, UnloadKept,
              UnloadFreed, UnloadBusy, Failed, RetainMapped, Free, copyVars

(* After the head of the queue was loaded, or was not. *)
LEMMA LoadedActive ==
    ASSUME IInv, ActiveInv, Loading, queue # <<>>, NEW ok \in BOOLEAN, Loaded(ok),
           starting' = {}, UNCHANGED <<kind, before>>,
           \/ loaded' = loaded /\ ~ok
           \/ \E o \in Owners : Id(o) = Head(queue) /\ loaded' = loaded \cup {o}
    PROVE  ActiveInv'
<1>1. queue \in Seq(Ids) /\ queue' = Tail(queue)
      BY DEF IInv, TypeOK, Loaded
<1>2. /\ Items(queue) = {Head(queue)} \cup Items(queue')
      /\ Distinct(queue') /\ Head(queue) \notin Items(queue')
      /\ Items(queue) \cap IdsOf(loaded) = {}
      BY <1>1, TailFacts DEF ActiveInv, QueueInactive
<1>3. \/ loaded' = loaded /\ IdsOf(loaded') = IdsOf(loaded) /\ ~ok
      \/ IdsOf(loaded') = IdsOf(loaded) \cup {Head(queue)}
      BY DEF IdsOf
<1>4. QueueInactive'
      BY <1>2, <1>3 DEF QueueInactive
<1>5. OnePerId'
  <2> SUFFICES ASSUME NEW o \in loaded', NEW p \in loaded', Id(o) = Id(p)
               PROVE  o = p
      BY DEF OnePerId
  <2>1. \A q \in loaded : Id(q) # Head(queue)
        BY <1>2 DEF IdsOf
  <2> QED BY <2>1 DEF ActiveInv, OnePerId
<1>6. ReloadOwes'
  <2> SUFFICES ASSUME kind = "reload", Loading'
               PROVE  before = IdsOf(loaded') \cup Items(queue')
      BY DEF ReloadOwes
  <2>1. ok
        BY DEF Loaded, Loading
  <2>2. before = IdsOf(loaded) \cup Items(queue)
        BY DEF ActiveInv, ReloadOwes
  <2> QED BY <1>2, <1>3, <2>1, <2>2
<1>7. StartingIsHead' /\ RestoresEnable'
      BY DEF StartingIsHead, RestoresEnable, Loaded
<1> QED BY <1>4, <1>5, <1>6, <1>7 DEF ActiveInv

LEMMA EndInitActive ==
    ASSUME IInv, ActiveInv, NEW o \in Owners, EndInit(o) PROVE ActiveInv'
<1>1. /\ phase = "init" /\ queue # <<>> /\ starting' = {}
      /\ UNCHANGED <<kind, before>> /\ Id(o) = Head(queue)
      BY DEF EndInit, IInv, InitRuns, ActiveInv, StartingIsHead
<1>2. Loading
      BY <1>1 DEF Loading
<1>3. \/ Loaded(FALSE) /\ (loaded' = loaded \/ loaded' = loaded \cup {o})
      \/ Loaded(TRUE) /\ loaded' = loaded \cup {o}
      BY DEF EndInit, InitFailed, InitDegraded, InitCommitted, InitPartial,
             InitDiscardedKept, InitDiscardedBusy, InitDiscarded, Drop, Commit,
             KeepDiscarded
<1>4. CASE Loaded(FALSE) /\ loaded' = loaded
      BY <1>1, <1>2, <1>4, LoadedActive
<1>5. ASSUME NEW ok \in BOOLEAN, Loaded(ok), loaded' = loaded \cup {o} PROVE ActiveInv'
      BY <1>1, <1>2, <1>5, LoadedActive
<1> QED BY <1>3, <1>4, <1>5

LEMMA StartActive == ASSUME IInv, ActiveInv, Start PROVE ActiveInv'
<1> DEFINE o == <<Head(queue), next>>
<1>1. /\ phase = "start" /\ phase' = "init" /\ starting' = {o}
      /\ UNCHANGED <<loaded, queue, kind, before>>
      BY DEF Start
<1>2. queue # <<>> /\ queue \in Seq(Ids) /\ Id(o) = Head(queue)
      BY <1>1 DEF IInv, Startable, TypeOK, Id
<1>3. Head(queue) \in Items(queue)
      BY <1>2, TailFacts
<1>4. \A p \in loaded : Id(p) # Head(queue)
      BY <1>1, <1>3 DEF ActiveInv, QueueInactive, Loading, IdsOf
<1> HIDE DEF o
<1>5. OnePerId' /\ StartingIsHead'
      BY <1>1, <1>2, <1>4 DEF ActiveInv, OnePerId, StartingIsHead
<1>6. IdsOf(loaded') = IdsOf(loaded) /\ Items(queue') = Items(queue)
      /\ Distinct(queue') = Distinct(queue)
      BY <1>1
<1>7. QueueInactive' /\ ReloadOwes' /\ RestoresEnable'
      BY <1>1, <1>6 DEF ActiveInv, QueueInactive, ReloadOwes, RestoresEnable, Loading
<1> QED BY <1>5, <1>7 DEF ActiveInv

LEMMA RestoreActive == ASSUME IInv, ActiveInv, Restore PROVE ActiveInv'
<1>1. /\ phase = "restore" /\ rest # <<>> /\ kind = "enable"
      /\ UNCHANGED <<loaded, starting, kind, before>>
      BY DEF Restore, ActiveInv, RestoresEnable, copyVars
<1>2. CASE UNCHANGED <<phase, queue, plan>>
      BY <1>1, <1>2, ActiveSame DEF Loading
<1>3. CASE /\ phase' = "load" /\ queue' = <<Head(rest).id>>
           /\ Addable(Head(rest).id, "add")
  <2>1. Head(rest).id \in Ids
        BY <1>3 DEF Addable, Planned
  <2> QED BY <1>1, <1>3, <2>1, QueueOne DEF Addable
<1> QED BY <1>2, <1>3 DEF Restore

LEMMA Activity == Spec => []ActiveInv
<1>1. IInv /\ ActiveInv /\ [Next]_vars => ActiveInv'
  <2> SUFFICES ASSUME IInv, ActiveInv, [Next]_vars PROVE ActiveInv'
      OBVIOUS
  <2>1. ASSUME NEW i \in Ids, Edit(i) PROVE ActiveInv'
        BY <2>1, ActiveSame DEF Edit, copyVars, opVars, ActiveInv, RestoresEnable,
                                Loading
  <2>2. ASSUME NEW i \in Ids, Reload(i) \/ Remove(i) PROVE ActiveInv'
        BY <2>2, UnloadGroupActive DEF Reload, Remove
  <2>3. ASSUME NEW i \in Ids, NEW what \in {"add", "enable", "retry"}, Add(i, what)
        PROVE  ActiveInv'
        BY <2>3, QueueOne DEF Add, Ready, Addable, copyVars
  <2>4. ASSUME NEW o \in Owners, Unload(o) \/ EndInit(o) PROVE ActiveInv'
        BY <2>4, UnloadActive, EndInitActive
  <2>5. CASE Skip \/ StartRefused
    <3>1. /\ queue # <<>> /\ phase \in {"load", "start"} /\ Loaded(FALSE)
          /\ UNCHANGED <<kind, before, loaded, starting>>
          BY <2>5 DEF Skip, StartRefused, IInv, Startable, copyVars
    <3>2. starting' = {}
          BY <3>1 DEF IInv, InitRuns
    <3> QED BY <3>1, <3>2, LoadedActive DEF Loading
  <2>6. CASE Unguarded \/ Finish
    <3>1. starting' = {} /\ loaded' = loaded /\ phase' \in {"finish", "idle"}
          BY <2>6 DEF Unguarded, Finish, copyVars, IInv, InitRuns
    <3> QED BY <3>1, ActiveEnds
  <2>7. CASE Block
        BY <2>7, ActiveSame DEF Block, copyVars, Loading
  <2>8. CASE PlanRestore
        BY <2>8, ActiveSame DEF PlanRestore, copyVars, Loading, ActiveInv,
                                RestoresEnable
  <2>9. CASE UNCHANGED vars
        BY <2>9, ActiveSame DEF vars, copyVars, opVars, ActiveInv, RestoresEnable,
                                Loading
  <2> QED BY <2>1, <2>2, <2>3, <2>4, <2>5, <2>6, <2>7, <2>8, <2>9, StartActive,
             RestoreActive DEF Next, Step
<1> QED BY <1>1, Invariance, InitActive, PTL DEF Spec

(* At most one copy of a plugin is active or starting, and only active ones *)
(* answer service queries, whatever operations run and however they fail.   *)
THEOREM OneCopyIsActive == Spec => []OneActiveCopy
<1>1. IInv /\ ActiveInv => OneActiveCopy
      BY DEF IInv, ActiveInv, OnePerId, OneActiveCopy
<1> QED BY <1>1, Invariance, Activity, PTL

(* A reload that runs to its end leaves the plugins active that were.       *)
THEOREM ReloadLosesNothing == Spec => []ReloadRestores
<1>1. ActiveInv => ReloadRestores
  <2> SUFFICES ASSUME ActiveInv, kind = "reload", phase = "load", queue = <<>>
               PROVE  IdsOf(loaded) = before
      BY DEF ReloadRestores
  <2>1. before = IdsOf(loaded) \cup Items(queue)
        BY DEF ActiveInv, ReloadOwes, Loading
  <2>2. Items(queue) = {}
        BY DEF Items
  <2> QED BY <2>1, <2>2
<1> QED BY <1>1, Activity, PTL

----------------------------------------------------------------------------
(* The third: every use of a service is one some build of its user declares.*)

FromBuilds ==
    /\ \A i \in Ids : /\ disk[i] = Off \/ disk[i] \in Builds[i]
                      /\ plan[i] = Off \/ plan[i] \in Builds[i]
    /\ \A u \in uses : \E m \in Builds[Id(u[1])] : u[2] \in m.depends

LEMMA InitBuilds == Init => FromBuilds
<1> SUFFICES ASSUME Init PROVE FromBuilds
    OBVIOUS
<1>1. \A i \in Ids : /\ disk[i] = Off \/ disk[i] \in Builds[i]
                     /\ plan[i] = Off \/ plan[i] \in Builds[i]
      BY DEF Init, NoPlan
<1>2. PICK active \in SUBSET Planned(disk) :
        /\ loaded = active \X {0}
        /\ uses \in SUBSET UNION {{o} \X disk[Id(o)].depends : o \in loaded}
      BY DEF Init
<1>3. ASSUME NEW u \in uses PROVE \E m \in Builds[Id(u[1])] : u[2] \in m.depends
  <2>1. u[1] \in loaded /\ u[2] \in disk[Id(u[1])].depends
        BY <1>2, <1>3
  <2>2. Id(u[1]) \in Planned(disk)
        BY <1>2, <2>1 DEF Id
  <2>3. Id(u[1]) \in Ids /\ disk[Id(u[1])] # Off
        BY <2>2, PlannedFacts
  <2> QED BY <1>1, <2>1, <2>3
<1> QED BY <1>1, <1>3 DEF FromBuilds

LEMMA Declared == Spec => []FromBuilds
<1>1. IInv /\ FromBuilds /\ [Next]_vars => FromBuilds'
  <2> SUFFICES ASSUME IInv, FromBuilds, [Next]_vars PROVE FromBuilds'
      OBVIOUS
  <2>1. CASE uses' \subseteq uses /\ UNCHANGED disk
             /\ plan' \in {plan, disk, NoPlan}
        BY <2>1 DEF FromBuilds, NoPlan
  <2>2. ASSUME NEW i \in Ids, Edit(i) PROVE FromBuilds'
    <3>1. /\ UNCHANGED <<plan, uses>>
          /\ \E m \in Builds[i] \cup {Off} : disk' = [disk EXCEPT ![i] = m]
          BY <2>2 DEF Edit, copyVars
    <3>2. \A j \in Ids : disk'[j] = Off \/ disk'[j] \in Builds[j]
          BY <3>1 DEF FromBuilds, IInv, TypeOK
    <3> QED BY <3>1, <3>2 DEF FromBuilds
  <2>3. CASE Start
    <3> DEFINE i == Head(queue)
               o == <<i, next>>
    <3>1. /\ UNCHANGED <<disk, plan>> /\ phase = "start"
          /\ \E got \in SUBSET Queryable(i) : uses' = uses \cup ({o} \X IdsOf(got))
          BY <2>3 DEF Start
    <3>2. i \in Planned(plan)
          BY <3>1 DEF IInv, Startable
    <3>3. i \in Ids /\ plan[i] # Off
          BY <3>2, PlannedFacts
    <3>4. plan[i] \in Builds[i]
          BY <3>3 DEF FromBuilds
    <3>5. Id(o) = i
          BY DEF Id
    <3> HIDE DEF i, o
    <3>6. \A u \in uses' : u \in uses \/ (u[1] = o /\ u[2] \in plan[i].depends)
      <4> PICK got \in SUBSET Queryable(i) : uses' = uses \cup ({o} \X IdsOf(got))
          BY <3>1
      <4>1. IdsOf(got) \subseteq plan[i].depends
            BY DEF Queryable, IdsOf
      <4>2. \A u \in {o} \X IdsOf(got) : u[1] = o /\ u[2] \in IdsOf(got)
            OBVIOUS
      <4> QED BY <4>1, <4>2
    <3>7. \A u \in uses' : \E m \in Builds[Id(u[1])] : u[2] \in m.depends
          BY <3>4, <3>5, <3>6 DEF FromBuilds
    <3> QED BY <3>1, <3>7 DEF FromBuilds
  <2>4. ASSUME NEW i \in Ids, Reload(i) \/ Remove(i)
               \/ \E what \in {"add", "enable", "retry"} : Add(i, what)
        PROVE  FromBuilds'
        BY <2>1, <2>4 DEF Reload, Remove, UnloadGroup, Add, copyVars
  <2>5. ASSUME NEW o \in Owners, Unload(o) PROVE FromBuilds'
        BY <2>1, <2>5 DEF Unload, UnloadRefused, UnloadDegraded, UnloadKept,
             UnloadFreed, UnloadBusy, Failed, Unloaded, RetainMapped, Free, copyVars
  <2>6. ASSUME NEW o \in Owners, EndInit(o) PROVE FromBuilds'
        BY <2>1, <2>6 DEF EndInit, InitFailed, InitDegraded, InitCommitted,
             InitPartial, InitDiscardedKept, InitDiscardedBusy, InitDiscarded,
             Drop, Commit, KeepDiscarded
  <2>7. CASE Skip \/ StartRefused \/ Unguarded \/ Block \/ PlanRestore \/ Restore
             \/ Finish
        BY <2>1, <2>7 DEF Skip, StartRefused, Unguarded, Block, PlanRestore,
             Restore, Finish, copyVars
  <2>8. CASE UNCHANGED vars
        BY <2>1, <2>8 DEF vars, copyVars
  <2> QED BY <2>2, <2>3, <2>4, <2>5, <2>6, <2>7, <2>8 DEF Next, Step
<1> QED BY <1>1, Invariance, InitBuilds, PTL DEF Spec

(* When what the plugins' builds depend on agrees with one order, the       *)
(* active copies can always be put in an order in which none holds a table  *)
(* of a later one. Without the hypothesis the run on inverted dependencies  *)
(* refutes it.                                                              *)
THEOREM HoldersCanBeOrdered ==
    ASSUME DependenciesAgree(Builds)
    PROVE  Spec => []HoldersOrdered
<1>1. IInv /\ FromBuilds => HoldersOrdered
  <2> SUFFICES ASSUME IInv, FromBuilds, NEW S \in SUBSET IdsOf(loaded), S # {}
               PROVE  \E i \in S : \A p \in loaded :
                         Id(p) \in S \ {i} => p \notin Consumers(i)
      BY DEF HoldersOrdered
  <2>1. S \in SUBSET DOMAIN Builds
        BY BuildsAssumption DEF IInv, TypeOK, IdsOf, Id, Owners
  <2>2. PICK i \in S : \A j \in S \ {i} : \A m \in Builds[j] : i \notin m.depends
        BY <2>1 DEF DependenciesAgree
  <2>3. ASSUME NEW p \in loaded, Id(p) \in S \ {i}, p \in Consumers(i) PROVE FALSE
    <3>1. <<p, i>> \in uses
          BY <2>3 DEF Consumers
    <3>2. \E m \in Builds[Id(p)] : i \in m.depends
          BY <3>1 DEF FromBuilds
    <3> QED BY <2>2, <2>3, <3>2
  <2> QED BY <2>3
<1> QED BY <1>1, Invariance, Declared, PTL
=============================================================================
