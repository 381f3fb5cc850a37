---------------------------- MODULE LoaderProofs ----------------------------
EXTENDS MCLoader, FiniteSetTheorems, SequenceTheorems, NaturalsInduction, WellFoundedInduction, TLAPS

(* A write holds INSTALLED: nothing is installed or removed beside it, and  *)
(* the loader's thread waits for its own. What is left to write is all of   *)
(* it until the threads are frozen, and again once it is undone.            *)
JobShape ==
    /\ job.op = "plan" <=> loader.at = "plan"
    /\ job.op = "install" <=> loader.at = "install"
    /\ job # NoJob =>
          /\ job.left \subseteq job.hooks
          /\ job.phase = "protect" => job.left = job.hooks
          /\ job.phase \in {"protect", "write"} => job.result = "ok"
          /\ job.phase = "undo" => job.op = "plan"
          /\ job.phase = "restore" /\ job.result = "before" => job.left = job.hooks
          /\ job.op = "remove" => job.hooks \subseteq installed

(* The hooks a write is about to add. *)
Coming == IF job.op \in {"plan", "install"} THEN job.hooks ELSE {}
Owners == installed \cup Coming

Disjoint(g, h) == Span(g.req) \cap Span(h.req) = {}
OwnersDisjoint == \A g, h \in Owners : g # h => Disjoint(g, h)

(* No plugin's byte is in a hook's original, where a hook is still to be    *)
(* written, or where one was taken out.                                     *)
Free(h) == \A a \in Span(h.req) : codeBytes[a] \notin Plugins
OriginalsClean ==
    ~stray => \A h \in Owners \cup staged : \A a \in Span(h.req) : h.original[a] \notin Plugins
LeftIsFree == ~stray /\ job # NoJob /\ job.op # "remove" => \A h \in job.left : Free(h)
RemovedIsFree == ~stray /\ job.op = "remove" => \A h \in job.hooks \ job.left : Free(h)

BytesOwned ==
    ~stray => \A a \in Code : codeBytes[a] \in Plugins =>
        \E h \in Owners : h.owner = codeBytes[a] /\ a \in Span(h.req)

(* Requests have numbers of their own. *)
StagedNumbered == \A s, t \in staged : s.storage = t.storage => s = t

(* A page that is writable is so since the write in progress, which puts it *)
(* back when it comes to the first of the page's entries.                   *)
Saved == IF job = NoJob THEN <<>> ELSE job.regions
PagesTracked ==
    ~broken =>
        /\ \A g \in writable : \E k \in DOMAIN Saved : Saved[k].page = g
        /\ \A k \in DOMAIN Saved :
              Saved[k].was => \E j \in 1..(k - 1) : Saved[j].page = Saved[k].page

(* Each list that was read is covered; hooks only move to later ones.       *)
ReadsCover ==
    loader.at = "read" =>
        /\ StorageOf(Owned(installed)) \subseteq loader.found
        /\ loader.next # "staged" => StorageOf(Owned(staged)) \subseteq loader.found
        /\ loader.next = "done" =>
              \A x \in retired : x[1] = loader.owner => x[2] \in loader.found

HooksInv ==
    /\ HooksTypeOK /\ JobShape /\ OwnersDisjoint /\ OriginalsClean /\ LeftIsFree
    /\ RemovedIsFree /\ BytesOwned /\ StagedNumbered /\ HandedStorageMapped
    /\ PagesTracked /\ ReadsCover
-----------------------------------------------------------------------------
(* What the records hold.                                                   *)

LEMMA HookFields ==
    ASSUME NEW h \in HookSet
    PROVE  /\ h.owner \in Plugins /\ h.req \in Requests /\ h.storage \in 1..requestsMade
           /\ h.original \in [Span(h.req) -> CodeContents]
  BY DEF HookSet

(* Numbers that were given out stay so. *)
LEMMA HookSetGrows ==
    ASSUME requestsMade \in Nat, requestsMade' \in Nat, requestsMade <= requestsMade'
    PROVE  HookSet \subseteq HookSet' /\ 1..requestsMade \subseteq 1..requestsMade'
<1>1. 1..requestsMade \subseteq 1..requestsMade'
      OBVIOUS
<1>2. HookSet \subseteq HookSet'
      BY <1>1 DEF HookSet
<1> QED BY <1>1, <1>2

LEMMA JobTyped ==
    ASSUME NEW op \in {"plan", "install", "remove"}, NEW hs \in SUBSET HookSet
    PROVE  Job(op, hs) \in Jobs
<1>1. <<>> \in Seq([page : Pages, was : BOOLEAN])
      OBVIOUS
<1>2. {x \in hs \X Pages : x[2] \in PagesOf(x[1].req)} \subseteq HookSet \X Pages
      OBVIOUS
<1> QED BY <1>1, <1>2 DEF Job, Jobs

LEMMA JobFields ==
    ASSUME job \in Jobs \cup {NoJob}
    PROVE  /\ job = NoJob <=> job.op = "none"
           /\ job.op \in {"none", "plan", "install", "remove"}
           /\ job # NoJob => job \in Jobs
  BY DEF Jobs, NoJob

(* Where the loader's thread is says what it knows. *)
LEMMA LoaderFields ==
    ASSUME loader \in LoaderSteps
    PROVE  /\ loader.at \in {"init", "install", "call", "unload", "read"} =>
                  loader.owner \in Plugins
           /\ loader.at = "call" => /\ loader.req \in Requests
                                    /\ loader.bytes \in [Span(loader.req) -> CodeContents]
           /\ loader.at = "unload" => loader.todo \subseteq Code
           /\ loader.at = "read" => /\ loader.next \in {"staged", "retired", "done"}
                                    /\ loader.found \subseteq 1..requestsMade
  BY DEF LoaderSteps

LEMMA StorageTyped ==
    ASSUME NEW hs \in SUBSET HookSet
    PROVE  /\ StorageOf(hs) \subseteq 1..requestsMade
           /\ retired \subseteq Plugins \X (1..requestsMade)
                  => Retire(hs) \subseteq Plugins \X (1..requestsMade)
  BY HookFields DEF StorageOf, Retire

(* The three ways in which the loader's lists stay typed: the counters do   *)
(* not move, and what else moves stays in its set.                          *)
LEMMA TypesKept ==
    ASSUME HooksTypeOK, UNCHANGED <<requestsMade, foreign>>,
           codeBytes' \in [Code -> CodeContents], writable' \subseteq Pages,
           installed' \subseteq HookSet, staged' \subseteq HookSet,
           retired' \subseteq Plugins \X (1..requestsMade),
           handed' \cup freed' \subseteq 1..requestsMade,
           loader' \in LoaderSteps, job' \in Jobs \cup {NoJob},
           broken' \in BOOLEAN, stray' \in BOOLEAN
    PROVE  HooksTypeOK'
<1>1. HookSet' = HookSet /\ Jobs' = Jobs /\ LoaderSteps' = LoaderSteps
      BY DEF HookSet, Jobs, LoaderSteps
<1> QED BY <1>1 DEF HooksTypeOK

(* A stack without its top, and with one more entry.                        *)
LEMMA StackFacts ==
    ASSUME NEW T, NEW s \in Seq(T)
    PROVE  /\ Len(s) \in Nat /\ DOMAIN s = 1..Len(s) /\ \A k \in 1..Len(s) : s[k] \in T
           /\ s # <<>> => /\ Len(s) >= 1 /\ Last(s) = s[Len(s)] /\ Last(s) \in T
                          /\ Front(s) \in Seq(T) /\ DOMAIN Front(s) = 1..(Len(s) - 1)
                          /\ \A k \in 1..(Len(s) - 1) : Front(s)[k] = s[k]
           /\ \A e \in T : /\ Append(s, e) \in Seq(T)
                           /\ DOMAIN Append(s, e) = 1..(Len(s) + 1)
                           /\ Append(s, e)[Len(s) + 1] = e
                           /\ \A k \in 1..Len(s) : Append(s, e)[k] = s[k]
  BY DEF Front, Last

(* Spans and pages of requests are code, and nonempty. *)
LEMMA RequestPlaces ==
    ASSUME NEW r \in Requests
    PROVE  r.at \in Span(r) /\ Span(r) \subseteq Code /\ PagesOf(r) \subseteq Pages
  BY HookRequestsAssumption DEF Span, Code, Pages

(* Writing a hook's bytes, or those it found, leaves the rest of the code.  *)
LEMMA PutFacts ==
    ASSUME HooksTypeOK, NEW r \in Requests, NEW new \in [Span(r) -> CodeContents], Put(new)
    PROVE  /\ codeBytes' \in [Code -> CodeContents]
           /\ \A a \in Span(r) : codeBytes'[a] = new[a]
           /\ \A a \in Code \ Span(r) : codeBytes'[a] = codeBytes[a]
  BY RequestPlaces DEF Put, HooksTypeOK

LEMMA TargetTyped ==
    ASSUME NEW h \in HookSet
    PROVE  Target(h) \in [Span(h.req) -> CodeContents]
  BY HookFields DEF Target, After, CodeContents

LEMMA InitTypes == HooksInit => HooksTypeOK
<1> SUFFICES ASSUME HooksInit PROVE HooksTypeOK
    OBVIOUS
<1>1. codeBytes \in [Code -> CodeContents]
      BY DEF HooksInit, CodeContents
<1>2. loader \in LoaderSteps
      BY DEF HooksInit, LoaderSteps, Idle
<1>3. requestsMade \in 0..MaxAllocations /\ foreign \in 0..MaxForeign
      BY HookBoundsAssumption DEF HooksInit
<1> QED BY <1>1, <1>2, <1>3 DEF HooksInit, HooksTypeOK

(* A request: one more number, and a hook with it.                          *)
LEMMA RequestTypes ==
    ASSUME HooksTypeOK, NEW o \in Plugins, NEW r \in Requests,
           NEW bytes \in [Span(r) -> CodeContents], Request(o, r, bytes),
           handed' \subseteq 1..(requestsMade + 1), stray' \in BOOLEAN
    PROVE  /\ HooksTypeOK' /\ HookSet \subseteq HookSet'
           /\ Hook(o, r, requestsMade + 1, bytes) \in HookSet'
<1> DEFINE n == requestsMade + 1
           h == Hook(o, r, n, bytes)
<1>1. /\ requestsMade \in Nat /\ requestsMade' = n /\ n \in Nat /\ n \in 0..MaxAllocations
      BY HookBoundsAssumption DEF HooksTypeOK, Request, Allowed
<1>2. HookSet \subseteq HookSet' /\ 1..requestsMade \subseteq 1..n
      BY <1>1, HookSetGrows
<1>3. h \in HookSet'
      BY <1>1 DEF HookSet, Hook
<1>4. job' \in Jobs' \cup {NoJob}
  <2>1. CASE job' = Job("install", {h})
    <3>1. {x \in {h} \X Pages : x[2] \in PagesOf(x[1].req)} \subseteq HookSet' \X Pages
          BY <1>3
    <3> QED BY <2>1, <3>1, <1>3 DEF Job, Jobs
  <2>2. CASE UNCHANGED job
        BY <2>2 DEF Request
  <2> QED BY <2>1, <2>2 DEF Request
<1>5. loader' \in LoaderSteps'
      BY DEF Request, LoaderSteps
<1>6. installed' \subseteq HookSet' /\ staged' \subseteq HookSet'
      BY <1>2, <1>3 DEF Request, HooksTypeOK
<1>7. retired' \subseteq Plugins \X (1..requestsMade') /\ freed' \subseteq 1..requestsMade'
      BY <1>1, <1>2 DEF Request, HooksTypeOK
<1> QED BY <1>1, <1>2, <1>3, <1>4, <1>5, <1>6, <1>7 DEF Request, HooksTypeOK

LEMMA TypesStep == ASSUME HooksTypeOK, JobShape, HooksNext PROVE HooksTypeOK'
<1>1. /\ job \in Jobs \cup {NoJob} /\ loader \in LoaderSteps
      /\ installed \subseteq HookSet /\ staged \subseteq HookSet
      /\ \A o \in Plugins : [at |-> "init", owner |-> o] \in LoaderSteps
      /\ Idle \in LoaderSteps
      BY DEF HooksTypeOK, LoaderSteps, Idle
<1>2. NoJob \in Jobs \cup {NoJob}
      OBVIOUS
<1> USE DEF codeVars, storageVars
<1>3. ASSUME NEW o \in Plugins, BeginPlugin(o) PROVE HooksTypeOK'
      BY <1>1, <1>3, TypesKept DEF BeginPlugin, HooksTypeOK
<1>4. CASE EndPlugin
      BY <1>1, <1>4, TypesKept DEF EndPlugin, HooksTypeOK
<1>5. \A r \in Requests : Bytes(r) \in [Span(r) -> CodeContents]
      BY RequestPlaces DEF Bytes, HooksTypeOK
<1>6. ASSUME NEW r \in Requests, InstallEntry(r) PROVE HooksTypeOK'
  <2>1. loader.owner \in Plugins
        BY <1>1, <1>6, LoaderFields DEF InstallEntry
  <2>2. handed' \subseteq 1..(requestsMade + 1) /\ stray' \in BOOLEAN
        BY <1>6, HookBoundsAssumption DEF InstallEntry, HooksTypeOK
  <2> QED BY <2>1, <2>2, <1>5, <1>6, RequestTypes DEF InstallEntry
<1>7. ASSUME NEW r \in Requests, PatchBytes(r) PROVE HooksTypeOK'
  <2>1. loader.owner \in Plugins
        BY <1>1, <1>7, LoaderFields DEF PatchBytes
  <2>2. handed' \subseteq 1..(requestsMade + 1) /\ stray' \in BOOLEAN
        BY <1>7, HookBoundsAssumption DEF PatchBytes, HooksTypeOK
  <2> QED BY <2>1, <2>2, <1>5, <1>7, RequestTypes DEF PatchBytes
<1>8. ASSUME NEW r \in Requests, ReadCallSite(r) PROVE HooksTypeOK'
  <2>1. loader.owner \in Plugins
        BY <1>1, <1>8, LoaderFields DEF ReadCallSite
  <2>2. loader' \in LoaderSteps
        BY <2>1, <1>5, <1>8 DEF ReadCallSite, LoaderSteps
  <2> QED BY <2>2, <1>1, <1>8, TypesKept DEF ReadCallSite, HooksTypeOK
<1>9. CASE InstallCallOut
  <2>1. /\ loader.owner \in Plugins /\ loader.req \in Requests
        /\ loader.bytes \in [Span(loader.req) -> CodeContents]
        BY <1>1, <1>9, LoaderFields DEF InstallCallOut
  <2>2. CASE Request(loader.owner, loader.req, loader.bytes) /\ UNCHANGED handed
             /\ stray' \in BOOLEAN
    <3>1. handed' \subseteq 1..(requestsMade + 1)
          BY <2>2, HookBoundsAssumption DEF HooksTypeOK
    <3> QED BY <2>1, <2>2, <3>1, RequestTypes
  <2>3. CASE /\ loader' = [at |-> "init", owner |-> loader.owner]
             /\ UNCHANGED <<codeVars, installed, staged, storageVars, foreign, job>>
        BY <2>1, <2>3, <1>1, TypesKept DEF HooksTypeOK
  <2> QED BY <2>2, <2>3, <1>9 DEF InstallCallOut, HooksTypeOK
<1>10. CASE Protect
  <2> PICK x \in job.pages :
        \/ /\ job' = [job EXCEPT
                 !.pages = @ \ {x},
                 !.regions = Append(@, [page |-> x[2], was |-> x[2] \in writable])]
           /\ writable' = writable \cup {x[2]}
        \/ /\ job' = [job EXCEPT !.phase = "restore", !.result = "before"]
           /\ UNCHANGED writable
      BY <1>10 DEF Protect
  <2>1. job \in Jobs
        BY <1>1, <1>10, JobFields DEF Protect, Writing
  <2>2. x[2] \in Pages /\ [page |-> x[2], was |-> x[2] \in writable]
                             \in [page : Pages, was : BOOLEAN]
        BY <2>1 DEF Jobs
  <2>3. Append(job.regions, [page |-> x[2], was |-> x[2] \in writable])
            \in Seq([page : Pages, was : BOOLEAN])
        BY <2>1, <2>2, StackFacts DEF Jobs
  <2>4. job' \in Jobs
    <3>1. CASE job' = [job EXCEPT !.phase = "restore", !.result = "before"]
          BY <2>1, <3>1 DEF Jobs
    <3>2. CASE job' = [job EXCEPT
                 !.pages = @ \ {x},
                 !.regions = Append(@, [page |-> x[2], was |-> x[2] \in writable])]
          BY <2>1, <2>3, <3>2 DEF Jobs
    <3> QED BY <3>1, <3>2
  <2> QED BY <2>2, <2>4, <1>1, <1>10, TypesKept DEF Protect, HooksTypeOK
<1>11. CASE Freeze
  <2>1. job \in Jobs
        BY <1>1, <1>11, JobFields DEF Freeze, Writing
  <2>2. job' \in Jobs
        BY <2>1, <1>11 DEF Freeze, Jobs
  <2> QED BY <2>2, <1>1, <1>11, TypesKept DEF Freeze, HooksTypeOK
<1>12. CASE WriteCode
  <2>1. job \in Jobs
        BY <1>1, <1>12, JobFields DEF WriteCode, Writing
  <2>2. PICK h \in job.left : Put(Target(h))
        BY <1>12 DEF WriteCode
  <2>3. codeBytes' \in [Code -> CodeContents]
    <3>1. h \in HookSet
          BY <2>1 DEF Jobs
    <3> QED BY <3>1, <2>2, HookFields, TargetTyped, PutFacts
  <2>4. job' \in Jobs
    <3> PICK g \in job.left :
              \/ job' = [job EXCEPT !.left = @ \ {g},
                                   !.phase = IF job.left = {g} THEN "restore" ELSE @]
              \/ job' = [job EXCEPT !.left = @ \ {g}, !.phase = "undo", !.result = "before"]
              \/ job' = [job EXCEPT !.left = @ \ {g}, !.phase = "restore",
                                   !.result = "after"]
          BY <1>12 DEF WriteCode
    <3>1. job.left \ {g} \in SUBSET HookSet
          BY <2>1 DEF Jobs
    <3>2. (IF job.left = {g} THEN "restore" ELSE job.phase)
              \in {"protect", "write", "undo", "restore"}
          BY <2>1 DEF Jobs
    <3>3. CASE job' = [job EXCEPT !.left = @ \ {g},
                                   !.phase = IF job.left = {g} THEN "restore" ELSE @]
          BY <2>1, <3>1, <3>2, <3>3 DEF Jobs
    <3>4. CASE job' = [job EXCEPT !.left = @ \ {g}, !.phase = "undo", !.result = "before"]
          BY <2>1, <3>1, <3>4 DEF Jobs
    <3>5. CASE job' = [job EXCEPT !.left = @ \ {g}, !.phase = "restore", !.result = "after"]
          BY <2>1, <3>1, <3>5 DEF Jobs
    <3> QED BY <3>3, <3>4, <3>5
  <2> QED BY <2>3, <2>4, <1>1, <1>12, TypesKept DEF WriteCode, HooksTypeOK
<1>13. CASE UndoWrite
  <2>1. job \in Jobs
        BY <1>1, <1>13, JobFields DEF UndoWrite, Writing
  <2>2. PICK h \in job.hooks, flushed \in BOOLEAN :
            /\ Put(h.original)
            /\ job' = [job EXCEPT
                     !.left = @ \cup {h},
                     !.phase = IF job.left \cup {h} = job.hooks THEN "restore" ELSE @,
                     !.result = IF flushed THEN @ ELSE "after"]
        BY <1>13 DEF UndoWrite
  <2>3. codeBytes' \in [Code -> CodeContents]
    <3>1. h \in HookSet
          BY <2>1 DEF Jobs
    <3> QED BY <3>1, <2>2, HookFields, PutFacts
  <2>4. job' \in Jobs
        BY <2>1, <2>2 DEF Jobs
  <2> QED BY <2>3, <2>4, <1>1, <1>13, TypesKept DEF UndoWrite, HooksTypeOK
<1>14. CASE Restore
  <2>1. job \in Jobs
        BY <1>1, <1>14, JobFields DEF Restore, Writing
  <2>2. /\ Last(job.regions) \in [page : Pages, was : BOOLEAN]
        /\ Front(job.regions) \in Seq([page : Pages, was : BOOLEAN])
        BY <2>1, <1>14, StackFacts DEF Restore, Jobs
  <2>3. job' \in Jobs
        BY <2>1, <2>2, <1>14 DEF Restore, Jobs
  <2>4. writable' \subseteq Pages
        BY <2>2, <1>14 DEF Restore, HooksTypeOK
  <2> QED BY <2>3, <2>4, <1>1, <1>14, TypesKept DEF Restore, HooksTypeOK
<1>15. CASE PlanEnds
  <2>1. job.hooks \subseteq HookSet
        BY <1>1, <1>15, JobFields DEF PlanEnds, Ends, Jobs
  <2> QED BY <2>1, <1>1, <1>2, <1>15, TypesKept DEF PlanEnds, HooksTypeOK
<1>16. CASE InstallEnds
  <2>1. job.hooks \subseteq HookSet
        BY <1>1, <1>16, JobFields DEF InstallEnds, Ends, Jobs
  <2>2. loader.owner \in Plugins
        BY <1>1, <1>16, LoaderFields DEF InstallEnds, Ends, JobShape
  <2> QED BY <2>1, <2>2, <1>1, <1>2, <1>16, TypesKept, StorageTyped DEF InstallEnds, HooksTypeOK
<1>17. CASE RemoveEnds
  <2>1. job.hooks \subseteq HookSet
        BY <1>1, <1>17, JobFields DEF RemoveEnds, Ends, Jobs
  <2> QED BY <2>1, <1>1, <1>2, <1>17, TypesKept, StorageTyped DEF RemoveEnds, HooksTypeOK
<1>18. ASSUME NEW os \in SUBSET Plugins, CommitStaged(os) PROVE HooksTypeOK'
  <2>1. job' \in Jobs
        BY <1>1, <1>18, JobTyped DEF CommitStaged, Selected
  <2>2. loader' \in LoaderSteps
        BY <1>18 DEF CommitStaged, LoaderSteps
  <2> QED BY <2>1, <2>2, <1>1, <1>18, TypesKept DEF CommitStaged, HooksTypeOK
<1>19. ASSUME NEW os \in SUBSET Plugins, DiscardStaged(os) PROVE HooksTypeOK'
      BY <1>1, <1>19, TypesKept, StorageTyped
      DEF DiscardStaged, RetireStaged, Selected, HooksTypeOK
<1>20. ASSUME NEW t \in Code, RemoveStaged(t)
       PROVE  /\ staged' \subseteq HookSet /\ retired' \subseteq Plugins \X (1..requestsMade)
              /\ UNCHANGED <<handed, freed, requestsMade, job>>
      BY <1>1, <1>20, StorageTyped DEF RemoveStaged, RetireStaged, HooksTypeOK
<1>21. ASSUME NEW t \in Code, RemoveInstalled(t)
       PROVE  job' \in Jobs /\ UNCHANGED <<staged, storageVars>>
      BY <1>1, <1>21, JobTyped DEF RemoveInstalled
<1>22. ASSUME NEW r \in Requests, Unhook(r.at) PROVE HooksTypeOK'
  <2>1. r.at \in Code
        BY RequestPlaces
  <2>2. CASE RemoveStaged(r.at)
        BY <2>1, <2>2, <1>1, <1>20, <1>22, TypesKept DEF Unhook, HooksTypeOK
  <2>3. CASE RemoveInstalled(r.at)
        BY <2>1, <2>3, <1>1, <1>21, <1>22, TypesKept DEF Unhook, HooksTypeOK
  <2> QED BY <2>2, <2>3, <1>22 DEF Unhook
<1>23. ASSUME NEW o \in Plugins, RemoveOwned(o) PROVE HooksTypeOK'
  <2>1. loader' \in LoaderSteps
    <3>1. {h.req.at : h \in {g \in installed : g.owner = o}} \subseteq Code
          BY <1>1, HookFields, RequestPlaces
    <3> QED BY <3>1, <1>23 DEF RemoveOwned, LoaderSteps
  <2> QED BY <2>1, <1>1, <1>23, TypesKept, StorageTyped
          DEF RemoveOwned, RetireStaged, Selected, HooksTypeOK
<1>24. CASE RemoveNext
  <2>1. loader.owner \in Plugins /\ loader.todo \subseteq Code
        BY <1>1, <1>24, LoaderFields DEF RemoveNext
  <2>2. PICK t \in loader.todo :
            /\ loader' = [at |-> "unload", owner |-> loader.owner, todo |-> loader.todo \ {t}]
            /\ RemoveStaged(t) \/ RemoveInstalled(t) \/ NothingHooked(t)
        BY <1>24 DEF RemoveNext
  <2>3. loader' \in LoaderSteps
        BY <2>1, <2>2 DEF LoaderSteps
  <2>4. CASE RemoveStaged(t)
        BY <2>1, <2>3, <2>4, <1>1, <1>20, <1>24, TypesKept DEF RemoveNext, HooksTypeOK
  <2>5. CASE RemoveInstalled(t)
        BY <2>1, <2>3, <2>5, <1>1, <1>21, <1>24, TypesKept DEF RemoveNext, HooksTypeOK
  <2>6. CASE NothingHooked(t)
        BY <2>3, <2>6, <1>1, <1>24, TypesKept DEF RemoveNext, NothingHooked, HooksTypeOK
  <2> QED BY <2>2, <2>4, <2>5, <2>6
<1>25. CASE ReadInstalled \/ ReadStaged \/ ReadRetired \/ OwnedCodeRead
  <2>1. loader' \in LoaderSteps
    <3>1. CASE OwnedCodeRead
          BY <3>1, <1>1 DEF OwnedCodeRead
    <3>2. ASSUME NEW next \in {"staged", "retired", "done"}, NEW found,
                 Reading(next, found), found \subseteq 1..requestsMade, loader.owner \in Plugins
          PROVE  loader' \in LoaderSteps
          BY <3>2 DEF Reading, LoaderSteps
    <3>3. CASE ReadInstalled
          BY <3>2, <3>3, <1>1, LoaderFields, StorageTyped DEF ReadInstalled, Owned
    <3>4. CASE ReadStaged
          BY <3>2, <3>4, <1>1, LoaderFields, StorageTyped DEF ReadStaged, Owned
    <3>5. CASE ReadRetired
      <4>1. {x[2] : x \in {y \in retired : y[1] = loader.owner}} \subseteq 1..requestsMade
            BY DEF HooksTypeOK
      <4> QED BY <4>1, <3>2, <3>5, <1>1, LoaderFields DEF ReadRetired
    <3> QED BY <3>1, <3>3, <3>4, <3>5, <1>25
  <2>2. UNCHANGED <<codeVars, installed, staged, storageVars, foreign, job>>
        BY <1>25 DEF ReadInstalled, ReadStaged, ReadRetired, OwnedCodeRead
  <2> QED BY <2>1, <2>2, <1>1, TypesKept DEF HooksTypeOK
<1>26. ASSUME NEW a \in Code, ForeignWrite(a) PROVE HooksTypeOK'
  <2>1. codeBytes' \in [Code -> CodeContents] /\ foreign' \in 0..MaxForeign
        BY <1>26, HookBoundsAssumption DEF ForeignWrite, HooksTypeOK, CodeContents
  <2>2. HookSet' = HookSet /\ Jobs' = Jobs /\ LoaderSteps' = LoaderSteps
        BY <1>26 DEF ForeignWrite, HookSet, Jobs, LoaderSteps
  <2> QED BY <2>1, <2>2, <1>1, <1>26 DEF ForeignWrite, HooksTypeOK
<1> QED BY <1>3, <1>4, <1>6, <1>7, <1>8, <1>9, <1>10, <1>11, <1>12, <1>13, <1>14, <1>15, <1>16,
           <1>17, <1>18, <1>19, <1>22, <1>23, <1>24, <1>25, <1>26 DEF HooksNext

-----------------------------------------------------------------------------
(* One write at a time.                                                     *)

(* A job that begins has everything left to write.                          *)
LEMMA JobBegins ==
    ASSUME NEW op \in {"plan", "install", "remove"}, NEW hs
    PROVE  /\ Job(op, hs).op = op /\ Job(op, hs).hooks = hs /\ Job(op, hs).left = hs
           /\ Job(op, hs).phase = "protect" /\ Job(op, hs).result = "ok"
           /\ Job(op, hs).regions = <<>> /\ Job(op, hs) # NoJob
  BY DEF Job, NoJob

(* While another thread writes, the loader's goes on between its own writes.*)
LEMMA ShapeKept ==
    ASSUME JobShape, job' = job, loader.at \notin {"plan", "install"},
           loader'.at \notin {"plan", "install"}, installed' = installed
    PROVE  JobShape'
  BY DEF JobShape

LEMMA ShapeStep == ASSUME HooksTypeOK, JobShape, HooksNext PROVE JobShape'
<1> USE DEF codeVars, storageVars
<1>1. job \in Jobs \cup {NoJob} /\ loader \in LoaderSteps
      BY DEF HooksTypeOK
<1>2. ASSUME NEW o \in Plugins, BeginPlugin(o) PROVE JobShape'
      BY <1>2, ShapeKept DEF BeginPlugin, Idle
<1>3. CASE EndPlugin
      BY <1>3, ShapeKept DEF EndPlugin, Idle
<1>4. ASSUME NEW o, NEW r, NEW bytes, Request(o, r, bytes), loader.at \in {"init", "call"}
      PROVE  JobShape'
  <2> DEFINE h == Hook(o, r, requestsMade + 1, bytes)
  <2>1. CASE job' = Job("install", {h}) /\ loader' = [at |-> "install", owner |-> o]
    <3>1. job'.op = "install" /\ job'.left = job'.hooks /\ job'.phase = "protect"
          /\ job'.result = "ok"
          BY <2>1, JobBegins
    <3> QED BY <2>1, <3>1 DEF JobShape
  <2>2. CASE job' = job /\ loader' = [at |-> "init", owner |-> o]
        BY <2>2, <1>4, ShapeKept DEF Request
  <2> QED BY <2>1, <2>2, <1>4 DEF Request
<1>5. ASSUME NEW r \in Requests, InstallEntry(r) PROVE JobShape'
      BY <1>4, <1>5 DEF InstallEntry
<1>6. ASSUME NEW r \in Requests, PatchBytes(r) PROVE JobShape'
      BY <1>4, <1>6 DEF PatchBytes
<1>7. ASSUME NEW r \in Requests, ReadCallSite(r) PROVE JobShape'
      BY <1>7, ShapeKept DEF ReadCallSite
<1>8. CASE InstallCallOut
  <2>1. CASE Request(loader.owner, loader.req, loader.bytes)
        BY <2>1, <1>4, <1>8 DEF InstallCallOut
  <2>2. CASE /\ loader' = [at |-> "init", owner |-> loader.owner]
             /\ UNCHANGED <<codeVars, installed, staged, storageVars, foreign, job>>
        BY <2>2, <1>8, ShapeKept DEF InstallCallOut
  <2> QED BY <2>1, <2>2, <1>8 DEF InstallCallOut
<1>9. CASE Protect \/ Freeze
  <2>1. job \in Jobs
        BY <1>1, <1>9, JobFields DEF Protect, Freeze, Writing
  <2>2. /\ job'.op = job.op /\ job'.hooks = job.hooks /\ job'.left = job.left
        /\ \/ job'.phase = "protect" /\ job'.result = job.result
           \/ job'.phase = "write" /\ job'.result = job.result
           \/ job'.phase = "restore" /\ job'.result = "before"
        BY <2>1, <1>9 DEF Protect, Freeze, Writing, Jobs
  <2>3. /\ job # NoJob /\ job.phase = "protect" /\ loader' = loader
        /\ installed' = installed
    <3>1. CASE Protect
          BY <3>1 DEF Protect, Writing, NoJob
    <3>2. CASE Freeze
          BY <3>2 DEF Freeze, Writing, NoJob
    <3> QED BY <3>1, <3>2, <1>9
  <2> QED BY <2>2, <2>3 DEF JobShape
<1>10. CASE WriteCode
  <2>1. job \in Jobs
        BY <1>1, <1>10, JobFields DEF WriteCode, Writing
  <2>2. PICK h \in job.left :
            \/ job' = [job EXCEPT !.left = @ \ {h},
                                  !.phase = IF job.left = {h} THEN "restore" ELSE @]
            \/ /\ job.op = "plan"
               /\ job' = [job EXCEPT !.left = @ \ {h}, !.phase = "undo",
                                     !.result = "before"]
            \/ job' = [job EXCEPT !.left = @ \ {h}, !.phase = "restore",
                                  !.result = "after"]
        BY <1>10 DEF WriteCode
  <2>3. /\ job'.op = job.op /\ job'.hooks = job.hooks /\ job'.left = job.left \ {h}
        /\ \/ job'.phase \in {"write", "restore"} /\ job'.result = job.result
           \/ job.op = "plan" /\ job'.phase = "undo" /\ job'.result = "before"
           \/ job'.phase = "restore" /\ job'.result = "after"
    <3>1. job.phase = "write"
          BY <1>10 DEF WriteCode, Writing
    <3>2. CASE job' = [job EXCEPT !.left = @ \ {h},
                                  !.phase = IF job.left = {h} THEN "restore" ELSE @]
          BY <2>1, <3>1, <3>2 DEF Jobs
    <3>3. CASE /\ job.op = "plan"
               /\ job' = [job EXCEPT !.left = @ \ {h}, !.phase = "undo", !.result = "before"]
          BY <2>1, <3>3 DEF Jobs
    <3>4. CASE job' = [job EXCEPT !.left = @ \ {h}, !.phase = "restore", !.result = "after"]
          BY <2>1, <3>4 DEF Jobs
    <3> QED BY <2>2, <3>2, <3>3, <3>4
  <2> QED BY <2>3, <1>10 DEF WriteCode, Writing, JobShape, NoJob
<1>11. CASE UndoWrite
  <2>1. job \in Jobs
        BY <1>1, <1>11, JobFields DEF UndoWrite, Writing
  <2>2. PICK h \in job.hooks, flushed \in BOOLEAN :
            job' = [job EXCEPT
                     !.left = @ \cup {h},
                     !.phase = IF job.left \cup {h} = job.hooks THEN "restore" ELSE @,
                     !.result = IF flushed THEN @ ELSE "after"]
        BY <1>11 DEF UndoWrite
  <2>3. /\ job'.op = job.op /\ job'.hooks = job.hooks /\ job'.left = job.left \cup {h}
        /\ \/ job'.phase = "undo"
           \/ job'.phase = "restore" /\ job'.left = job.hooks
        BY <2>1, <2>2, <1>11 DEF UndoWrite, Writing, Jobs
  <2> QED BY <2>3, <1>11 DEF UndoWrite, Writing, JobShape, NoJob
<1>12. CASE Restore
  <2>1. job \in Jobs
        BY <1>1, <1>12, JobFields DEF Restore, Writing
  <2>2. /\ job'.op = job.op /\ job'.hooks = job.hooks /\ job'.left = job.left
        /\ job'.phase = job.phase /\ job'.result \in {job.result, "after"}
        BY <2>1, <1>12 DEF Restore, Jobs
  <2> QED BY <2>2, <1>12 DEF Restore, Writing, JobShape, NoJob
<1>13. CASE PlanEnds \/ InstallEnds \/ RemoveEnds
      BY <1>13 DEF PlanEnds, InstallEnds, RemoveEnds, Ends, JobShape, NoJob, Idle
<1>14. ASSUME NEW os \in SUBSET Plugins, CommitStaged(os) PROVE JobShape'
  <2>1. /\ job'.op = "plan" /\ job'.left = job'.hooks /\ job'.phase = "protect"
        /\ job'.result = "ok" /\ loader'.at = "plan"
        BY <1>14, JobBegins DEF CommitStaged
  <2> QED BY <2>1 DEF JobShape
<1>15. ASSUME NEW os \in SUBSET Plugins, DiscardStaged(os) PROVE JobShape'
      BY <1>15, ShapeKept DEF DiscardStaged, Idle
<1>16. ASSUME NEW t, RemoveInstalled(t), installed' = installed, loader'.at = loader.at
       PROVE  JobShape'
  <2>1. PICK h \in installed : job' = Job("remove", {h})
        BY <1>16 DEF RemoveInstalled
  <2>2. /\ job'.op = "remove" /\ job'.hooks = {h} /\ job'.left = job'.hooks
        /\ job'.phase = "protect" /\ job'.result = "ok"
        BY <2>1, JobBegins
  <2> QED BY <2>1, <2>2, <1>16 DEF RemoveInstalled, JobShape, NoJob
<1>17. ASSUME NEW r \in Requests, Unhook(r.at) PROVE JobShape'
  <2>1. CASE RemoveStaged(r.at)
        BY <2>1, <1>17 DEF Unhook, RemoveStaged, JobShape
  <2>2. CASE RemoveInstalled(r.at)
        BY <2>2, <1>16, <1>17 DEF Unhook
  <2> QED BY <2>1, <2>2, <1>17 DEF Unhook
<1>18. ASSUME NEW o \in Plugins, RemoveOwned(o) PROVE JobShape'
      BY <1>18, ShapeKept DEF RemoveOwned, Idle
<1>19. CASE RemoveNext
  <2>1. PICK t \in loader.todo : RemoveStaged(t) \/ RemoveInstalled(t) \/ NothingHooked(t)
        BY <1>19 DEF RemoveNext
  <2>2. CASE RemoveInstalled(t)
        BY <2>2, <1>16, <1>19 DEF RemoveNext
  <2>3. CASE RemoveStaged(t) \/ NothingHooked(t)
        BY <2>3, <1>19, ShapeKept DEF RemoveNext, RemoveStaged, NothingHooked
  <2> QED BY <2>1, <2>2, <2>3
<1>20. CASE ReadInstalled \/ ReadStaged \/ ReadRetired \/ OwnedCodeRead
      BY <1>20, ShapeKept DEF ReadInstalled, ReadStaged, ReadRetired, OwnedCodeRead, Reading, Idle
<1>21. ASSUME NEW a \in Code, ForeignWrite(a) PROVE JobShape'
      BY <1>21 DEF ForeignWrite, JobShape
<1> QED BY <1>2, <1>3, <1>5, <1>6, <1>7, <1>8, <1>9, <1>10, <1>11, <1>12, <1>13, <1>14, <1>15,
           <1>17, <1>18, <1>19, <1>20, <1>21 DEF HooksNext

-----------------------------------------------------------------------------
(* Who owns the bytes.                                                      *)

CodeInv == OwnersDisjoint /\ OriginalsClean /\ LeftIsFree /\ RemovedIsFree /\ BytesOwned

(* The loader's own steps, and those that only retire what was staged, or   *)
(* move a write on without touching the code, disturb none of it.           *)
LEMMA CodeKept ==
    ASSUME CodeInv, codeBytes' = codeBytes, stray' = stray, installed' = installed,
           staged' \subseteq staged, job' = NoJob <=> job = NoJob, job'.op = job.op,
           job # NoJob => job'.left = job.left /\ job'.hooks = job.hooks, job = NoJob => job' = job
    PROVE  CodeInv'
<1>1. Coming' = Coming /\ Owners' = Owners
      BY DEF Coming, Owners, NoJob
<1>2. OwnersDisjoint'
      BY <1>1 DEF CodeInv, OwnersDisjoint, Disjoint
<1>3. OriginalsClean'
      BY <1>1 DEF CodeInv, OriginalsClean
<1>4. LeftIsFree'
      BY DEF CodeInv, LeftIsFree, Free
<1>5. RemovedIsFree'
      BY DEF CodeInv, RemovedIsFree, Free, NoJob
<1>6. BytesOwned'
      BY <1>1 DEF CodeInv, BytesOwned
<1> QED BY <1>2, <1>3, <1>4, <1>5, <1>6 DEF CodeInv

(* Where nothing is installed and nothing is being written, the code is no  *)
(* plugin's.                                                                *)
LEMMA UnhookedIsFree ==
    ASSUME HooksTypeOK, BytesOwned, ~stray, job = NoJob, NEW r \in Requests,
           ~\E h \in installed : Overlaps(h, r)
    PROVE  \A a \in Span(r) : codeBytes[a] \notin Plugins
<1>1. Owners = installed
      BY DEF Owners, Coming, NoJob
<1> QED BY <1>1, RequestPlaces DEF BytesOwned, Overlaps

(* A request: allowed over nothing that is installed, so over free code.    *)
LEMMA CodeRequest ==
    ASSUME HooksTypeOK, HooksTypeOK', CodeInv, NEW o \in Plugins, NEW r \in Requests,
           NEW bytes \in [Span(r) -> CodeContents], Request(o, r, bytes),
           stray => stray',
           ~stray' => \A a \in Span(r) : bytes[a] \notin Plugins
    PROVE  CodeInv'
<1> DEFINE h == Hook(o, r, requestsMade + 1, bytes)
<1>1. /\ job = NoJob /\ codeBytes' = codeBytes /\ installed' = installed
      /\ \A g \in installed : ~Overlaps(g, r)
      BY DEF Request, Allowed
<1>2. h.req = r /\ h.original = bytes
      BY DEF Hook
<1>3. Coming = {} /\ Owners = installed
      BY <1>1 DEF Coming, Owners, NoJob
<1>4. ~stray => \A a \in Span(r) : codeBytes[a] \notin Plugins
      BY <1>1, UnhookedIsFree DEF CodeInv
<1>5. \/ job' = Job("install", {h}) /\ staged' = staged
      \/ job' = job /\ staged' = staged \cup {h}
      BY DEF Request
<1>6. Owners' \subseteq installed \cup {h} /\ Owners \subseteq Owners'
      /\ staged' \subseteq staged \cup {h}
      BY <1>1, <1>3, <1>5, JobBegins DEF Coming, Owners, NoJob
<1>7. OwnersDisjoint'
  <2>1. \A g \in installed : Disjoint(g, h) /\ Disjoint(h, g)
        BY <1>1, <1>2 DEF Overlaps, Disjoint
  <2>2. \A f, g \in installed : f # g => Disjoint(f, g)
        BY <1>3 DEF CodeInv, OwnersDisjoint
  <2> QED BY <1>6, <2>1, <2>2 DEF OwnersDisjoint, Disjoint
<1>8. OriginalsClean'
      BY <1>2, <1>3, <1>6 DEF CodeInv, OriginalsClean
<1>9. LeftIsFree' /\ RemovedIsFree'
  <2>1. CASE job' = job
        BY <2>1, <1>1 DEF LeftIsFree, RemovedIsFree, NoJob
  <2>2. CASE job' = Job("install", {h})
    <3>1. job'.op = "install" /\ job'.left = {h}
          BY <2>2, JobBegins
    <3> QED BY <3>1, <1>1, <1>2, <1>4 DEF LeftIsFree, RemovedIsFree, Free
  <2> QED BY <1>5, <2>1, <2>2
<1>10. BytesOwned'
      BY <1>1, <1>6 DEF CodeInv, BytesOwned
<1> QED BY <1>7, <1>8, <1>9, <1>10 DEF CodeInv

(* Putting bytes where a hook is: the other owners' code is as it was.      *)
LEMMA PutBesideOwners ==
    ASSUME HooksTypeOK, OwnersDisjoint, Owners \subseteq HookSet, NEW h \in Owners,
           NEW new \in [Span(h.req) -> CodeContents], Put(new)
    PROVE  /\ \A a \in Span(h.req) : codeBytes'[a] = new[a]
           /\ \A a \in Code \ Span(h.req) : codeBytes'[a] = codeBytes[a]
           /\ \A g \in Owners \ {h} : \A a \in Span(g.req) : codeBytes'[a] = codeBytes[a]
<1>1. h.req \in Requests
      BY HookFields
<1>2. /\ \A a \in Span(h.req) : codeBytes'[a] = new[a]
      /\ \A a \in Code \ Span(h.req) : codeBytes'[a] = codeBytes[a]
      BY <1>1, PutFacts
<1>3. ASSUME NEW g \in Owners \ {h}, NEW a \in Span(g.req) PROVE codeBytes'[a] = codeBytes[a]
  <2>1. g.req \in Requests
        BY HookFields
  <2>2. a \in Code \ Span(h.req)
        BY <2>1, RequestPlaces DEF OwnersDisjoint, Disjoint
  <2> QED BY <2>2, <1>2
<1> QED BY <1>2, <1>3

LEMMA OwnersTyped ==
    ASSUME HooksTypeOK
    PROVE  Owners \subseteq HookSet /\ staged \subseteq HookSet
<1>1. Coming \subseteq HookSet
      BY JobFields DEF HooksTypeOK, Coming, Jobs
<1> QED BY <1>1 DEF Owners, HooksTypeOK

(* One write: a plan's or an install's bytes have an owner, a removal's are *)
(* nobody's.                                                                *)
LEMMA CodeWritten ==
    ASSUME HooksTypeOK, JobShape, CodeInv, WriteCode
    PROVE  CodeInv'
<1>1. job \in Jobs /\ job # NoJob
      BY JobFields DEF HooksTypeOK, WriteCode, Writing, NoJob
<1>2. PICK h \in job.left :
          /\ Put(Target(h))
          /\ job'.op = job.op /\ job'.hooks = job.hooks /\ job'.left = job.left \ {h}
          /\ job' # NoJob
  <2> PICK h \in job.left :
          /\ Put(Target(h))
          /\ \/ job' = [job EXCEPT !.left = @ \ {h},
                                  !.phase = IF job.left = {h} THEN "restore" ELSE @]
             \/ job' = [job EXCEPT !.left = @ \ {h}, !.phase = "undo", !.result = "before"]
             \/ job' = [job EXCEPT !.left = @ \ {h}, !.phase = "restore", !.result = "after"]
      BY DEF WriteCode
  <2>1. job'.op = job.op /\ job'.hooks = job.hooks /\ job'.left = job.left \ {h}
        BY <1>1 DEF Jobs
  <2> QED BY <2>1, <1>1, JobFields DEF Jobs, NoJob
<1>3. installed' = installed /\ staged' = staged /\ stray' = stray
      BY DEF WriteCode
<1>4. Owners' = Owners
      BY <1>2, <1>3 DEF Owners, Coming
<1>5. h \in job.hooks /\ h \in Owners
      BY <1>1, <1>2 DEF JobShape, Owners, Coming, Jobs
<1>6. h \in HookSet /\ Target(h) \in [Span(h.req) -> CodeContents]
      BY <1>5, OwnersTyped, TargetTyped
<1>7. /\ \A a \in Span(h.req) : codeBytes'[a] = Target(h)[a]
      /\ \A a \in Code \ Span(h.req) : codeBytes'[a] = codeBytes[a]
      /\ \A g \in Owners \ {h} : \A a \in Span(g.req) : codeBytes'[a] = codeBytes[a]
      BY <1>2, <1>5, <1>6, OwnersTyped, PutBesideOwners DEF CodeInv
<1>8. OwnersDisjoint' /\ OriginalsClean'
      BY <1>3, <1>4 DEF CodeInv, OwnersDisjoint, Disjoint, OriginalsClean
<1>9. LeftIsFree'
  <2>1. job.op # "remove" => job.left \subseteq Owners
        BY <1>1 DEF JobShape, Owners, Coming, Jobs
  <2> QED BY <2>1, <1>1, <1>2, <1>3, <1>7 DEF CodeInv, LeftIsFree, Free
<1>10. ASSUME ~stray, job.op = "remove"
       PROVE  \A a \in Span(h.req) : codeBytes'[a] \notin Plugins
      BY <1>5, <1>7, <1>10 DEF CodeInv, OriginalsClean, Target
<1>11. RemovedIsFree'
  <2>1. job.op = "remove" => job.hooks \subseteq Owners
        BY <1>1 DEF JobShape, Owners
  <2> QED BY <2>1, <1>2, <1>3, <1>7, <1>10 DEF CodeInv, RemovedIsFree, Free
<1>12. ASSUME ~stray, NEW a \in Code, codeBytes'[a] \in Plugins
       PROVE  \E g \in Owners : g.owner = codeBytes'[a] /\ a \in Span(g.req)
  <2>1. CASE a \in Span(h.req)
    <3>1. job.op # "remove"
          BY <2>1, <1>10, <1>12
    <3>2. codeBytes'[a] = h.owner
          BY <2>1, <3>1, <1>7 DEF Target, After
    <3> QED BY <2>1, <3>2, <1>5
  <2>2. CASE a \notin Span(h.req)
        BY <2>2, <1>7, <1>12 DEF CodeInv, BytesOwned
  <2> QED BY <2>1, <2>2
<1>13. BytesOwned'
  <2>1. CASE stray
        BY <2>1, <1>3 DEF BytesOwned
  <2>2. CASE ~stray
        BY <2>2, <1>4, <1>12 DEF BytesOwned
  <2> QED BY <2>1, <2>2
<1> QED BY <1>8, <1>9, <1>11, <1>13 DEF CodeInv

(* One write of a plan undone: nobody's bytes again.                        *)
LEMMA CodeUndone ==
    ASSUME HooksTypeOK, JobShape, CodeInv, UndoWrite
    PROVE  CodeInv'
<1>1. job \in Jobs /\ job # NoJob /\ job.op = "plan"
      BY JobFields DEF HooksTypeOK, UndoWrite, Writing, NoJob, JobShape
<1>2. PICK h \in job.hooks :
          /\ Put(h.original)
          /\ job'.op = job.op /\ job'.hooks = job.hooks /\ job'.left = job.left \cup {h}
          /\ job' # NoJob
  <2> PICK h \in job.hooks, flushed \in BOOLEAN :
          /\ Put(h.original)
          /\ job' = [job EXCEPT
                     !.left = @ \cup {h},
                     !.phase = IF job.left \cup {h} = job.hooks THEN "restore" ELSE @,
                     !.result = IF flushed THEN @ ELSE "after"]
      BY DEF UndoWrite
  <2>1. job'.op = job.op /\ job'.hooks = job.hooks /\ job'.left = job.left \cup {h}
        BY <1>1 DEF Jobs
  <2> QED BY <2>1, <1>1 DEF NoJob
<1>3. installed' = installed /\ staged' = staged /\ stray' = stray
      BY DEF UndoWrite
<1>4. Owners' = Owners /\ job.hooks \subseteq Owners
      BY <1>1, <1>2, <1>3 DEF Owners, Coming
<1>5. h \in HookSet /\ h.original \in [Span(h.req) -> CodeContents]
      BY <1>2, <1>4, OwnersTyped, HookFields
<1>6. /\ \A a \in Span(h.req) : codeBytes'[a] = h.original[a]
      /\ \A a \in Code \ Span(h.req) : codeBytes'[a] = codeBytes[a]
      /\ \A g \in Owners \ {h} : \A a \in Span(g.req) : codeBytes'[a] = codeBytes[a]
      BY <1>2, <1>4, <1>5, OwnersTyped, PutBesideOwners DEF CodeInv
<1>7. ~stray => \A a \in Span(h.req) : codeBytes'[a] \notin Plugins
      BY <1>2, <1>4, <1>6 DEF CodeInv, OriginalsClean
<1>8. OwnersDisjoint' /\ OriginalsClean'
      BY <1>3, <1>4 DEF CodeInv, OwnersDisjoint, Disjoint, OriginalsClean
<1>9. LeftIsFree' /\ RemovedIsFree'
  <2>1. job.left \subseteq Owners
        BY <1>1, <1>4 DEF JobShape
  <2> QED BY <2>1, <1>1, <1>2, <1>3, <1>6, <1>7 DEF CodeInv, LeftIsFree, RemovedIsFree, Free
<1>10. BytesOwned'
      BY <1>3, <1>4, <1>6, <1>7 DEF CodeInv, BytesOwned
<1> QED BY <1>8, <1>9, <1>10 DEF CodeInv

(* The end of a plan or an install: committed, its hooks are installed;     *)
(* not committed, none of their bytes are in the code.                      *)
LEMMA CodeAdded ==
    ASSUME HooksTypeOK, JobShape, CodeInv, PlanEnds \/ InstallEnds
    PROVE  CodeInv'
<1>1. /\ job.op \in {"plan", "install"} /\ job # NoJob /\ job.phase = "restore"
      /\ job' = NoJob /\ codeBytes' = codeBytes /\ stray' = stray /\ staged' \subseteq staged
      /\ \/ Committed /\ installed' = installed \cup job.hooks
         \/ ~Committed /\ installed' = installed
  <2>1. CASE PlanEnds
        BY <2>1 DEF PlanEnds, Ends, NoJob, codeVars
  <2>2. CASE InstallEnds
        BY <2>2 DEF InstallEnds, Ends, NoJob, codeVars
  <2> QED BY <2>1, <2>2
<1>2. Coming = job.hooks /\ Owners' = installed'
      BY <1>1 DEF Coming, Owners, NoJob
<1>3. LeftIsFree' /\ RemovedIsFree'
      BY <1>1 DEF LeftIsFree, RemovedIsFree, NoJob
<1>4. Owners' \subseteq Owners
      BY <1>1, <1>2 DEF Owners
<1>5. OwnersDisjoint' /\ OriginalsClean'
      BY <1>1, <1>4 DEF CodeInv, OwnersDisjoint, Disjoint, OriginalsClean
<1>6. CASE Committed
  <2>1. Owners' = Owners
        BY <1>1, <1>2, <1>6 DEF Owners
  <2> QED BY <2>1, <1>1, <1>3, <1>5 DEF CodeInv, BytesOwned
<1>7. CASE ~Committed
  <2>1. ~stray => \A h \in job.hooks : Free(h)
        BY <1>1, <1>7 DEF CodeInv, LeftIsFree, JobShape, Committed
  <2>2. BytesOwned'
        BY <2>1, <1>1, <1>2, <1>7 DEF CodeInv, BytesOwned, Owners, Free
  <2> QED BY <2>2, <1>3, <1>5 DEF CodeInv
<1> QED BY <1>6, <1>7

(* The end of a removal: a hook that is dropped left nothing, or a stray.   *)
LEMMA CodeRemoved ==
    ASSUME HooksTypeOK, JobShape, CodeInv, RemoveEnds
    PROVE  CodeInv'
<1>1. /\ job.op = "remove" /\ job # NoJob /\ job' = NoJob /\ codeBytes' = codeBytes
      /\ staged' = staged
      BY DEF RemoveEnds, Ends, NoJob
<1>2. Owners = installed /\ Owners' = installed' /\ installed' \subseteq installed
      BY <1>1 DEF Coming, Owners, NoJob, RemoveEnds
<1>3. \/ installed' = installed /\ stray' = stray
      \/ installed' = installed \ job.hooks /\ stray' = (stray \/ job.left # {})
      BY DEF RemoveEnds
<1>4. LeftIsFree' /\ RemovedIsFree'
      BY <1>1 DEF LeftIsFree, RemovedIsFree, NoJob
<1>5. OwnersDisjoint' /\ OriginalsClean'
      BY <1>1, <1>2, <1>3 DEF CodeInv, OwnersDisjoint, Disjoint, OriginalsClean
<1>6. BytesOwned'
  <2>1. CASE installed' = installed /\ stray' = stray
        BY <2>1, <1>1, <1>2 DEF CodeInv, BytesOwned
  <2>2. CASE installed' = installed \ job.hooks /\ stray' = (stray \/ job.left # {})
    <3>1. ~stray' => \A h \in job.hooks : Free(h)
          BY <2>2, <1>1 DEF CodeInv, RemovedIsFree
    <3> QED BY <2>2, <3>1, <1>1, <1>2 DEF CodeInv, BytesOwned, Free
  <2> QED BY <2>1, <2>2, <1>3
<1> QED BY <1>4, <1>5, <1>6 DEF CodeInv

(* A plan begins over free code, its hooks apart from one another.          *)
LEMMA CodePlanned ==
    ASSUME HooksTypeOK, CodeInv, NEW os, CommitStaged(os)
    PROVE  CodeInv'
<1> DEFINE hs == Selected(os)
<1>1. /\ job = NoJob /\ job' = Job("plan", hs) /\ NoOverlap(os) /\ hs \subseteq staged
      /\ codeBytes' = codeBytes /\ stray' = stray /\ installed' = installed /\ staged' = staged
      BY DEF CommitStaged, Selected, codeVars
<1>2. job'.op = "plan" /\ job'.hooks = hs /\ job'.left = hs
      BY <1>1, JobBegins
<1>3. Owners = installed /\ Owners' = installed \cup hs
      BY <1>1, <1>2 DEF Coming, Owners, NoJob
<1>4. ASSUME NEW s \in hs
      PROVE  /\ \A h \in installed : Disjoint(h, s) /\ Disjoint(s, h)
             /\ \A t \in hs : s # t => Disjoint(s, t)
             /\ ~stray => Free(s)
  <2>1. s.req \in Requests
        BY <1>1, OwnersTyped, HookFields
  <2>2. ~\E h \in installed : Overlaps(h, s.req)
        BY <1>1 DEF NoOverlap
  <2>3. \A t \in hs : s # t => ~Overlaps(s, t.req)
        BY <1>1 DEF NoOverlap
  <2>4. ~stray => Free(s)
        BY <2>1, <2>2, <1>1, UnhookedIsFree DEF CodeInv, Free
  <2> QED BY <2>2, <2>3, <2>4 DEF Overlaps, Disjoint
<1>5. OwnersDisjoint'
      BY <1>3, <1>4 DEF CodeInv, OwnersDisjoint, Disjoint
<1>6. OriginalsClean'
      BY <1>1, <1>3 DEF CodeInv, OriginalsClean
<1>7. LeftIsFree' /\ RemovedIsFree'
      BY <1>1, <1>2, <1>4 DEF LeftIsFree, RemovedIsFree, Free
<1>8. BytesOwned'
      BY <1>1, <1>3 DEF CodeInv, BytesOwned
<1> QED BY <1>5, <1>6, <1>7, <1>8 DEF CodeInv

(* A removal begins with everything to take out.                            *)
LEMMA CodeTaken ==
    ASSUME CodeInv, job = NoJob, NEW h, job' = Job("remove", {h}), codeBytes' = codeBytes,
           stray' = stray, installed' = installed, staged' = staged
    PROVE  CodeInv'
<1>1. job'.op = "remove" /\ job'.hooks = {h} /\ job'.left = {h}
      BY JobBegins
<1>2. Owners' = Owners
      BY <1>1 DEF Coming, Owners, NoJob
<1>3. LeftIsFree' /\ RemovedIsFree'
      BY <1>1 DEF LeftIsFree, RemovedIsFree
<1> QED BY <1>2, <1>3 DEF CodeInv, OwnersDisjoint, Disjoint, OriginalsClean, BytesOwned

(* Code written past the loader is no plugin's.                             *)
LEMMA CodeForeign ==
    ASSUME HooksTypeOK, CodeInv, NEW a \in Code, ForeignWrite(a)
    PROVE  CodeInv'
<1>1. /\ job' = job /\ stray' = stray /\ installed' = installed /\ staged' = staged
      /\ codeBytes' = [codeBytes EXCEPT ![a] = "foreign"]
      BY DEF ForeignWrite
<1>2. \A b \in Code : codeBytes'[b] \in Plugins => codeBytes[b] = codeBytes'[b]
      BY <1>1, HookPluginsAssumption DEF HooksTypeOK
<1>3. Owners' = Owners /\ Owners \subseteq HookSet
      BY <1>1, OwnersTyped DEF Coming, Owners
<1>4. \A h \in HookSet : Free(h) => Free(h)'
  <2> SUFFICES ASSUME NEW h \in HookSet, Free(h), NEW b \in Span(h.req),
                      codeBytes'[b] \in Plugins
               PROVE  FALSE
      BY DEF Free
  <2>1. b \in Code
        BY HookFields, RequestPlaces
  <2> QED BY <2>1, <1>2 DEF Free
<1>5. job # NoJob => job.left \subseteq HookSet /\ job.hooks \subseteq HookSet
      BY JobFields DEF HooksTypeOK, Jobs
<1>6. OwnersDisjoint' /\ OriginalsClean'
      BY <1>1, <1>3 DEF CodeInv, OwnersDisjoint, Disjoint, OriginalsClean
<1>7. LeftIsFree'
      BY <1>1, <1>4, <1>5 DEF CodeInv, LeftIsFree
<1>8. RemovedIsFree'
      BY <1>1, <1>4, <1>5 DEF CodeInv, RemovedIsFree, NoJob
<1>9. BytesOwned'
      BY <1>1, <1>2, <1>3 DEF CodeInv, BytesOwned
<1> QED BY <1>6, <1>7, <1>8, <1>9 DEF CodeInv
LEMMA CodeStep == ASSUME HooksTypeOK, HooksTypeOK', JobShape, CodeInv, HooksNext PROVE CodeInv'
<1> USE DEF codeVars, storageVars
<1>1. job \in Jobs \cup {NoJob} /\ loader \in LoaderSteps
      BY DEF HooksTypeOK
<1>2. ASSUME job' = job, codeBytes' = codeBytes, stray' = stray, installed' = installed,
             staged' \subseteq staged
      PROVE  CodeInv'
      BY <1>2, CodeKept
<1>3. ASSUME NEW o \in Plugins, BeginPlugin(o) \/ RemoveOwned(o) PROVE CodeInv'
      BY <1>2, <1>3 DEF BeginPlugin, RemoveOwned, RetireStaged
<1>4. CASE EndPlugin
      BY <1>2, <1>4 DEF EndPlugin
<1>5. \A r \in Requests : Bytes(r) \in [Span(r) -> CodeContents]
      BY RequestPlaces DEF Bytes, HooksTypeOK
<1>6. ASSUME NEW r \in Requests, InstallEntry(r) PROVE CodeInv'
  <2>1. loader.owner \in Plugins
        BY <1>1, <1>6, LoaderFields DEF InstallEntry
  <2>2. job = NoJob /\ ~\E h \in installed : Overlaps(h, r)
        BY <1>6 DEF InstallEntry, Request, Allowed
  <2>3. ~stray => \A a \in Span(r) : Bytes(r)[a] \notin Plugins
        BY <2>2, UnhookedIsFree DEF CodeInv, Bytes
  <2> QED BY <2>1, <2>3, <1>5, <1>6, CodeRequest DEF InstallEntry
<1>7. ASSUME NEW r \in Requests, PatchBytes(r) PROVE CodeInv'
  <2>1. loader.owner \in Plugins
        BY <1>1, <1>7, LoaderFields DEF PatchBytes
  <2>2. \A a \in Span(r) : Bytes(r)[a] \notin Plugins
        BY <1>7, HookPluginsAssumption DEF PatchBytes, Bytes
  <2> QED BY <2>1, <2>2, <1>5, <1>7, CodeRequest DEF PatchBytes
<1>8. ASSUME NEW r \in Requests, ReadCallSite(r) PROVE CodeInv'
      BY <1>2, <1>8 DEF ReadCallSite
<1>9. CASE InstallCallOut
  <2>1. /\ loader.owner \in Plugins /\ loader.req \in Requests
        /\ loader.bytes \in [Span(loader.req) -> CodeContents]
        BY <1>1, <1>9, LoaderFields DEF InstallCallOut
  <2>2. CASE /\ Request(loader.owner, loader.req, loader.bytes)
             /\ stray' = (stray \/ \E a \in Span(loader.req) : loader.bytes[a] \in Plugins)
        BY <2>1, <2>2, CodeRequest DEF HooksTypeOK
  <2>3. CASE UNCHANGED <<codeVars, installed, staged, storageVars, foreign, job>>
        BY <2>3, <1>2
  <2> QED BY <2>2, <2>3, <1>9 DEF InstallCallOut
<1>10. CASE Protect \/ Freeze \/ Restore
  <2>1. job \in Jobs /\ job # NoJob
        BY <1>1, <1>10, JobFields DEF Protect, Freeze, Restore, Writing
  <2>2. job'.op = job.op /\ job'.hooks = job.hooks /\ job'.left = job.left
        BY <2>1, <1>10 DEF Protect, Freeze, Restore, Jobs
  <2>3. job' # NoJob
        BY <2>1, <2>2 DEF Jobs, NoJob
  <2>4. codeBytes' = codeBytes /\ stray' = stray /\ installed' = installed /\ staged' = staged
        BY <1>10 DEF Protect, Freeze, Restore
  <2> QED BY <2>1, <2>2, <2>3, <2>4, CodeKept
<1>11. CASE WriteCode \/ UndoWrite
       BY <1>11, CodeWritten, CodeUndone
<1>12. CASE PlanEnds \/ InstallEnds \/ RemoveEnds
       BY <1>12, CodeAdded, CodeRemoved
<1>13. ASSUME NEW os, CommitStaged(os) \/ DiscardStaged(os) PROVE CodeInv'
       BY <1>2, <1>13, CodePlanned DEF DiscardStaged, RetireStaged
<1>14. ASSUME NEW t, RemoveInstalled(t), UNCHANGED <<codeBytes, stray, installed>>
       PROVE  CodeInv'
       BY <1>14, CodeTaken DEF RemoveInstalled
<1>15. ASSUME NEW t, RemoveStaged(t) \/ NothingHooked(t), UNCHANGED <<codeBytes, stray, installed>>
       PROVE  CodeInv'
       BY <1>2, <1>15 DEF RemoveStaged, RetireStaged, NothingHooked
<1>16. ASSUME NEW r \in Requests, Unhook(r.at) PROVE CodeInv'
       BY <1>14, <1>15, <1>16 DEF Unhook
<1>17. CASE RemoveNext
       BY <1>14, <1>15, <1>17 DEF RemoveNext
<1>18. CASE ReadInstalled \/ ReadStaged \/ ReadRetired \/ OwnedCodeRead
       BY <1>2, <1>18 DEF ReadInstalled, ReadStaged, ReadRetired, OwnedCodeRead
<1>19. ASSUME NEW a \in Code, ForeignWrite(a) PROVE CodeInv'
       BY <1>19, CodeForeign
<1> QED BY <1>3, <1>4, <1>6, <1>7, <1>8, <1>9, <1>10, <1>11, <1>12, <1>13, <1>16, <1>17, <1>18,
           <1>19 DEF HooksNext

-----------------------------------------------------------------------------
(* The lists and the storage.                                               *)

ListsInv == StagedNumbered /\ HandedStorageMapped /\ ReadsCover

(* What the loader's thread is not reading may only shrink.                 *)
LEMMA ListsKept ==
    ASSUME ListsInv, staged' \subseteq staged, handed' \cap freed' = {}, loader'.at # "read"
    PROVE  ListsInv'
  BY DEF ListsInv, StagedNumbered, HandedStorageMapped, ReadsCover

LEMMA ListsRequest ==
    ASSUME HooksTypeOK, ListsInv, NEW o, NEW r, NEW bytes, Request(o, r, bytes),
           handed' \subseteq handed \cup {requestsMade + 1}
    PROVE  ListsInv'
<1> DEFINE h == Hook(o, r, requestsMade + 1, bytes)
<1>1. /\ loader'.at # "read" /\ freed' = freed
      /\ staged' \subseteq staged \cup {h}
      BY DEF Request
<1>2. h.storage = requestsMade + 1 /\ requestsMade \in Nat
      BY HookBoundsAssumption DEF Hook, HooksTypeOK
<1>3. \A s \in staged : s.storage \in 1..requestsMade
      BY HookFields DEF HooksTypeOK
<1>4. StagedNumbered'
      BY <1>1, <1>2, <1>3 DEF ListsInv, StagedNumbered
<1>5. HandedStorageMapped'
      BY <1>1, <1>2 DEF ListsInv, HandedStorageMapped, HooksTypeOK
<1> QED BY <1>1, <1>4, <1>5 DEF ListsInv, ReadsCover

(* A hook that is retired was in a list that covers it, so it is found when *)
(* the last list is read before, and covered by it after.                   *)
LEMMA RetiredCovered ==
    ASSUME ReadsCover, loader.at = "read", loader' = loader, NEW hs,
           \/ hs \subseteq staged /\ installed' = installed /\ staged' = staged \ hs
           \/ hs \subseteq installed /\ installed' = installed \ hs /\ staged' = staged,
           retired' = Retire(hs)
    PROVE  ReadsCover'
<1>1. StorageOf(Owned(installed))' \subseteq StorageOf(Owned(installed))
      BY DEF StorageOf, Owned
<1>2. StorageOf(Owned(staged))' \subseteq StorageOf(Owned(staged))
      BY DEF StorageOf, Owned
<1>3. ASSUME loader.next = "done", NEW x \in retired', x[1] = loader.owner
      PROVE  x[2] \in loader.found
  <2>1. CASE x \in retired
        BY <2>1, <1>3 DEF ReadsCover
  <2>2. CASE x \notin retired
    <3>1. PICK h \in hs : NeedsCode(h) /\ x = <<h.owner, h.storage>>
          BY <2>2, <1>3 DEF Retire
    <3>2. h.storage \in StorageOf(Owned(installed)) \cup StorageOf(Owned(staged))
          BY <3>1, <1>3 DEF StorageOf, Owned
    <3> QED BY <3>1, <3>2, <1>3 DEF ReadsCover
  <2> QED BY <2>1, <2>2
<1> QED BY <1>1, <1>2, <1>3 DEF ReadsCover

LEMMA ListsStep == ASSUME HooksTypeOK, JobShape, ListsInv, HooksNext PROVE ListsInv'
<1> USE DEF codeVars, storageVars
<1>0. handed \cap freed = {}
      BY DEF ListsInv, HandedStorageMapped
<1>1. ASSUME UNCHANGED <<installed, staged, retired, handed, freed, loader>> PROVE ListsInv'
      BY <1>1 DEF ListsInv, StagedNumbered, HandedStorageMapped, ReadsCover, StorageOf, Owned
<1>2. ASSUME NEW hs, hs \subseteq staged, staged' = staged \ hs, retired' = Retire(hs),
             UNCHANGED <<installed, handed, freed>>, loader' = loader \/ loader'.at # "read"
      PROVE  ListsInv'
  <2>1. CASE loader' = loader /\ loader.at = "read"
    <3>1. ReadsCover'
          BY <2>1, <1>2, RetiredCovered DEF ListsInv
    <3> QED BY <3>1, <1>2 DEF ListsInv, StagedNumbered, HandedStorageMapped
  <2>2. CASE loader'.at # "read"
        BY <2>2, <1>0, <1>2, ListsKept
  <2> QED BY <2>1, <2>2, <1>2
<1>3. ASSUME NEW o \in Plugins, BeginPlugin(o) PROVE ListsInv'
      BY <1>0, <1>3, ListsKept DEF BeginPlugin
<1>4. CASE EndPlugin
      BY <1>0, <1>4, ListsKept DEF EndPlugin, Idle
<1>5. ASSUME NEW r \in Requests, InstallEntry(r) \/ PatchBytes(r) PROVE ListsInv'
  <2>1. CASE InstallEntry(r)
        BY <2>1, ListsRequest DEF InstallEntry
  <2>2. CASE PatchBytes(r)
        BY <2>2, ListsRequest DEF PatchBytes
  <2> QED BY <2>1, <2>2, <1>5
<1>6. ASSUME NEW r \in Requests, ReadCallSite(r) PROVE ListsInv'
      BY <1>0, <1>6, ListsKept DEF ReadCallSite
<1>7. CASE InstallCallOut
  <2>1. CASE Request(loader.owner, loader.req, loader.bytes) /\ UNCHANGED handed
        BY <2>1, ListsRequest
  <2>2. CASE /\ loader' = [at |-> "init", owner |-> loader.owner]
             /\ UNCHANGED <<codeVars, installed, staged, storageVars, foreign, job>>
        BY <2>2, <1>0, ListsKept
  <2> QED BY <2>1, <2>2, <1>7 DEF InstallCallOut
<1>8. CASE Protect \/ Freeze \/ WriteCode \/ UndoWrite \/ Restore
      BY <1>1, <1>8 DEF Protect, Freeze, WriteCode, UndoWrite, Restore
<1>9. CASE PlanEnds
      BY <1>0, <1>9, ListsKept DEF PlanEnds, Idle
<1>10. CASE InstallEnds
  <2>1. handed' \cap freed' = {} /\ staged' = staged /\ loader'.at # "read"
        BY <1>0, <1>10 DEF InstallEnds
  <2> QED BY <2>1, ListsKept
<1>11. CASE RemoveEnds
  <2>1. UNCHANGED <<staged, handed, freed, loader>>
        BY <1>11 DEF RemoveEnds
  <2>2. CASE UNCHANGED <<installed, retired>>
        BY <2>1, <2>2, <1>1
  <2>3. CASE installed' = installed \ job.hooks /\ retired' = Retire(job.hooks)
    <3>1. job.hooks \subseteq installed
          BY <1>11 DEF RemoveEnds, Ends, JobShape, NoJob
    <3>2. ReadsCover'
      <4>1. CASE loader.at = "read"
            BY <4>1, <3>1, <2>1, <2>3, RetiredCovered DEF ListsInv
      <4>2. CASE loader.at # "read"
            BY <4>2, <2>1 DEF ReadsCover
      <4> QED BY <4>1, <4>2
    <3> QED BY <3>2, <2>1 DEF ListsInv, StagedNumbered, HandedStorageMapped
  <2> QED BY <2>2, <2>3, <1>11 DEF RemoveEnds
<1>12. ASSUME NEW os, CommitStaged(os) PROVE ListsInv'
      BY <1>0, <1>12, ListsKept DEF CommitStaged
<1>13. ASSUME NEW os, DiscardStaged(os) PROVE ListsInv'
      BY <1>2, <1>13 DEF DiscardStaged, RetireStaged, Selected
<1>14. ASSUME NEW t, RemoveStaged(t), installed' = installed,
              loader' = loader \/ loader'.at # "read"
       PROVE  ListsInv'
      BY <1>2, <1>14 DEF RemoveStaged, RetireStaged
<1>15. ASSUME NEW t, RemoveInstalled(t) \/ NothingHooked(t), installed' = installed,
              loader' = loader \/ loader'.at # "read"
       PROVE  ListsInv'
      BY <1>0, <1>1, <1>15, ListsKept DEF RemoveInstalled, NothingHooked
<1>16. ASSUME NEW r \in Requests, Unhook(r.at) PROVE ListsInv'
      BY <1>14, <1>15, <1>16 DEF Unhook
<1>17. ASSUME NEW o \in Plugins, RemoveOwned(o) PROVE ListsInv'
      BY <1>2, <1>17 DEF RemoveOwned, RetireStaged, Selected
<1>18. CASE RemoveNext
  <2>1. loader'.at # "read" /\ installed' = installed
        BY <1>18 DEF RemoveNext
  <2> QED BY <2>1, <1>14, <1>15, <1>18 DEF RemoveNext
<1>19. CASE ReadInstalled \/ ReadStaged \/ ReadRetired \/ OwnedCodeRead
  <2>1. UNCHANGED <<installed, staged, retired, handed, freed>>
        BY <1>19 DEF ReadInstalled, ReadStaged, ReadRetired, OwnedCodeRead
  <2>2. ReadsCover'
    <3>1. CASE ReadInstalled
          BY <3>1 DEF ReadInstalled, Reading, ReadsCover, StorageOf, Owned
    <3>2. CASE ReadStaged
          BY <3>2 DEF ReadStaged, Reading, ListsInv, ReadsCover, StorageOf, Owned
    <3>3. CASE ReadRetired
          BY <3>3 DEF ReadRetired, Reading, ListsInv, ReadsCover, StorageOf, Owned
    <3>4. CASE OwnedCodeRead
          BY <3>4 DEF OwnedCodeRead, Idle, ReadsCover
    <3> QED BY <3>1, <3>2, <3>3, <3>4, <1>19
  <2> QED BY <2>1, <2>2 DEF ListsInv, StagedNumbered, HandedStorageMapped
<1>20. ASSUME NEW a \in Code, ForeignWrite(a) PROVE ListsInv'
      BY <1>1, <1>20 DEF ForeignWrite
<1> QED BY <1>3, <1>4, <1>5, <1>6, <1>7, <1>8, <1>9, <1>10, <1>11, <1>12, <1>13, <1>16, <1>17,
           <1>18, <1>19, <1>20 DEF HooksNext

-----------------------------------------------------------------------------
(* The protections.                                                         *)

(* What neither takes a protection nor puts one back.                       *)
LEMMA PagesKept ==
    ASSUME PagesTracked, writable' = writable, broken' = broken, Saved' = Saved
    PROVE  PagesTracked'
  BY DEF PagesTracked

LEMMA PagesStep == ASSUME HooksTypeOK, PagesTracked, HooksNext PROVE PagesTracked'
<1> USE DEF codeVars, storageVars
<1>1. job \in Jobs \cup {NoJob}
      BY DEF HooksTypeOK
<1>2. ASSUME UNCHANGED <<writable, broken, job>> PROVE PagesTracked'
      BY <1>2, PagesKept DEF Saved
<1>3. ASSUME job = NoJob, NEW op, NEW hs, job' = Job(op, hs), UNCHANGED <<writable, broken>>
      PROVE  PagesTracked'
  <2>1. job' # NoJob /\ job'.regions = <<>>
        BY <1>3 DEF Job, NoJob
  <2> QED BY <2>1, <1>3, PagesKept DEF Saved
<1>4. ASSUME NEW o \in Plugins, BeginPlugin(o) \/ RemoveOwned(o) PROVE PagesTracked'
      BY <1>2, <1>4 DEF BeginPlugin, RemoveOwned
<1>5. CASE EndPlugin
      BY <1>2, <1>5 DEF EndPlugin
<1>6. ASSUME NEW o, NEW r, NEW bytes, Request(o, r, bytes) PROVE PagesTracked'
      BY <1>2, <1>3, <1>6 DEF Request
<1>7. ASSUME NEW r, InstallEntry(r) \/ PatchBytes(r) \/ ReadCallSite(r) PROVE PagesTracked'
      BY <1>2, <1>6, <1>7 DEF InstallEntry, PatchBytes, ReadCallSite
<1>8. CASE InstallCallOut
      BY <1>2, <1>6, <1>8 DEF InstallCallOut
<1>9. CASE Protect
  <2>1. job \in Jobs /\ job # NoJob
        BY <1>1, <1>9, JobFields DEF Protect, Writing
  <2>2. PICK x \in job.pages :
        \/ /\ job' = [job EXCEPT
                 !.pages = @ \ {x},
                 !.regions = Append(@, [page |-> x[2], was |-> x[2] \in writable])]
           /\ writable' = writable \cup {x[2]}
        \/ /\ job' = [job EXCEPT !.phase = "restore", !.result = "before"]
           /\ UNCHANGED writable
        BY <1>9 DEF Protect
  <2>3. job'.op = job.op /\ job' # NoJob
        BY <2>1, <2>2 DEF Jobs, NoJob
  <2>4. broken' = broken
        BY <1>9 DEF Protect
  <2>5. CASE job' = [job EXCEPT !.phase = "restore", !.result = "before"] /\ UNCHANGED writable
    <3>1. job'.regions = job.regions
          BY <2>1, <2>5 DEF Jobs
    <3> QED BY <3>1, <2>1, <2>3, <2>4, <2>5, PagesKept DEF Saved
  <2>6. CASE /\ job' = [job EXCEPT
                  !.pages = @ \ {x},
                  !.regions = Append(@, [page |-> x[2], was |-> x[2] \in writable])]
             /\ writable' = writable \cup {x[2]}
    <3> DEFINE s == job.regions
               e == [page |-> x[2], was |-> x[2] \in writable]
               n == Len(s)
    <3>1. s \in Seq([page : Pages, was : BOOLEAN]) /\ e \in [page : Pages, was : BOOLEAN]
          BY <2>1 DEF Jobs
    <3>2. job'.regions = Append(s, e)
          BY <2>1, <2>6 DEF Jobs
    <3> HIDE DEF e
    <3>3. /\ n \in Nat /\ DOMAIN s = 1..n
          /\ DOMAIN Append(s, e) = 1..(n + 1) /\ Append(s, e)[n + 1] = e
          /\ \A k \in 1..n : Append(s, e)[k] = s[k]
          BY <3>1, StackFacts
    <3>4. Saved = s /\ Saved' = Append(s, e)
          BY <2>1, <2>3, <3>2 DEF Saved
    <3> HIDE DEF s
    <3>5. SUFFICES ASSUME ~broken
                   PROVE  /\ \A g \in writable' : \E k \in 1..(n + 1) : Append(s, e)[k].page = g
                          /\ \A k \in 1..(n + 1) : Append(s, e)[k].was =>
                                \E j \in 1..(k - 1) : Append(s, e)[j].page = Append(s, e)[k].page
          BY <2>4, <3>3, <3>4 DEF PagesTracked
    <3>6. /\ \A g \in writable : \E k \in 1..n : s[k].page = g
          /\ \A k \in 1..n : s[k].was => \E j \in 1..(k - 1) : s[j].page = s[k].page
          BY <3>3, <3>4, <3>5 DEF PagesTracked
    <3>7. e.page = x[2] /\ e.was = (x[2] \in writable)
          BY DEF e
    <3>8. ASSUME NEW g \in writable'
          PROVE  \E k \in 1..(n + 1) : Append(s, e)[k].page = g
      <4>1. CASE g = x[2]
            BY <4>1, <3>3, <3>7
      <4>2. CASE g \in writable
        <5> PICK k \in 1..n : s[k].page = g
            BY <4>2, <3>6
        <5> QED BY <3>3
      <4> QED BY <4>1, <4>2, <2>6
    <3>9. ASSUME NEW k \in 1..(n + 1), Append(s, e)[k].was
          PROVE  \E j \in 1..(k - 1) : Append(s, e)[j].page = Append(s, e)[k].page
      <4>1. CASE k = n + 1
        <5>1. PICK j \in 1..n : s[j].page = x[2]
              BY <4>1, <3>3, <3>6, <3>7, <3>9
        <5> QED BY <5>1, <4>1, <3>3, <3>7
      <4>2. CASE k \in 1..n
        <5>1. PICK j \in 1..(k - 1) : s[j].page = s[k].page
              BY <4>2, <3>3, <3>6, <3>9
        <5>2. j \in 1..n
              BY <4>2, <3>3
        <5> QED BY <5>1, <5>2, <4>2, <3>3
      <4> QED BY <4>1, <4>2, <3>3
    <3> QED BY <3>8, <3>9
  <2> QED BY <2>2, <2>5, <2>6
<1>10. CASE Freeze \/ WriteCode \/ UndoWrite
  <2>1. job \in Jobs /\ job # NoJob
        BY <1>1, <1>10, JobFields DEF Freeze, WriteCode, UndoWrite, Writing
  <2>2. job'.op = job.op /\ job'.regions = job.regions
        BY <2>1, <1>10 DEF Freeze, WriteCode, UndoWrite, Jobs
  <2>3. job' # NoJob
        BY <2>1, <2>2 DEF Jobs, NoJob
  <2>4. writable' = writable /\ broken' = broken
        BY <1>10 DEF Freeze, WriteCode, UndoWrite
  <2> QED BY <2>1, <2>2, <2>3, <2>4, PagesKept DEF Saved
<1>11. CASE Restore
  <2> DEFINE s == job.regions
             n == Len(s)
             r == Last(s)
  <2>1. job \in Jobs /\ job # NoJob /\ s # <<>>
        BY <1>1, <1>11, JobFields DEF Restore, Writing
  <2>2. s \in Seq([page : Pages, was : BOOLEAN])
        BY <2>1 DEF Jobs
  <2> HIDE DEF s
  <2>3. /\ n \in Nat /\ n >= 1 /\ DOMAIN s = 1..n /\ r = s[n] /\ r \in [page : Pages, was : BOOLEAN]
        /\ DOMAIN Front(s) = 1..(n - 1) /\ \A k \in 1..(n - 1) : Front(s)[k] = s[k]
        BY <2>1, <2>2, StackFacts
  <2>4. job'.op = job.op /\ job'.regions = Front(s)
        BY <2>1, <1>11 DEF Restore, Jobs, s
  <2>5. job' # NoJob
        BY <2>1, <2>4 DEF Jobs, NoJob
  <2>6. Saved = s /\ Saved' = Front(s)
        BY <2>1, <2>4, <2>5 DEF Saved, s
  <2>7. CASE broken'
        BY <2>7 DEF PagesTracked
  <2>8. CASE ~broken'
    <3>1. ~broken /\ writable' = IF r.was THEN writable \cup {r.page} ELSE writable \ {r.page}
          BY <2>8, <1>11 DEF Restore, s
    <3> HIDE DEF r
    <3>2. /\ \A g \in writable : \E k \in 1..n : s[k].page = g
          /\ \A k \in 1..n : s[k].was => \E j \in 1..(k - 1) : s[j].page = s[k].page
          BY <2>3, <2>6, <3>1 DEF PagesTracked
    <3>3. r.was => \E j \in 1..(n - 1) : s[j].page = r.page
          BY <2>3, <3>2
    <3>4. ASSUME NEW g \in writable' PROVE \E k \in 1..(n - 1) : Front(s)[k].page = g
      <4>1. CASE g = r.page
            BY <4>1, <2>3, <3>1, <3>3, <3>4
      <4>2. CASE g # r.page
        <5>1. PICK k \in 1..n : s[k].page = g
              BY <4>2, <3>1, <3>2, <3>4
        <5>2. k \in 1..(n - 1)
              BY <5>1, <4>2, <2>3
        <5> QED BY <5>1, <5>2, <2>3
      <4> QED BY <4>1, <4>2
    <3>5. ASSUME NEW k \in 1..(n - 1), Front(s)[k].was
          PROVE  \E j \in 1..(k - 1) : Front(s)[j].page = Front(s)[k].page
      <4>1. k \in 1..n /\ s[k].was
            BY <2>3, <3>5
      <4>2. PICK j \in 1..(k - 1) : s[j].page = s[k].page
            BY <4>1, <3>2
      <4>3. j \in 1..(n - 1)
            BY <2>3, <4>1
      <4> QED BY <4>2, <4>3, <2>3
    <3>6. DOMAIN Saved' = 1..(n - 1) /\ Saved' = Front(s)
          BY <2>3, <2>6
    <3> HIDE DEF n
    <3>7. \A g \in writable' : \E k \in DOMAIN Saved' : Saved'[k].page = g
          BY <3>4, <3>6
    <3>8. \A k \in DOMAIN Saved' :
              Saved'[k].was => \E j \in 1..(k - 1) : Saved'[j].page = Saved'[k].page
          BY <3>5, <3>6
    <3> QED BY <3>7, <3>8 DEF PagesTracked
  <2> QED BY <2>7, <2>8
<1>12. CASE PlanEnds \/ InstallEnds \/ RemoveEnds
  <2>1. job' = NoJob /\ Saved = <<>> /\ UNCHANGED <<writable, broken>>
        BY <1>12 DEF PlanEnds, InstallEnds, RemoveEnds, Ends, Saved
  <2> QED BY <2>1, PagesKept DEF Saved
<1>13. ASSUME NEW os, CommitStaged(os) \/ DiscardStaged(os) PROVE PagesTracked'
      BY <1>2, <1>3, <1>13 DEF CommitStaged, DiscardStaged
<1>14. ASSUME NEW t, RemoveStaged(t) \/ RemoveInstalled(t) \/ NothingHooked(t),
              UNCHANGED <<writable, broken>>
       PROVE  PagesTracked'
      BY <1>2, <1>3, <1>14 DEF RemoveStaged, RemoveInstalled, NothingHooked
<1>15. ASSUME NEW r \in Requests, Unhook(r.at) PROVE PagesTracked'
      BY <1>14, <1>15 DEF Unhook
<1>16. CASE RemoveNext
      BY <1>14, <1>16 DEF RemoveNext
<1>17. CASE ReadInstalled \/ ReadStaged \/ ReadRetired \/ OwnedCodeRead
      BY <1>2, <1>17 DEF ReadInstalled, ReadStaged, ReadRetired, OwnedCodeRead
<1>18. ASSUME NEW a \in Code, ForeignWrite(a) PROVE PagesTracked'
      BY <1>2, <1>18 DEF ForeignWrite
<1> QED BY <1>4, <1>5, <1>7, <1>8, <1>9, <1>10, <1>11, <1>12, <1>13, <1>15, <1>16, <1>17, <1>18
        DEF HooksNext

-----------------------------------------------------------------------------
(* What follows.                                                            *)

LEMMA HooksInvInitially == HooksInit => HooksInv
<1> SUFFICES ASSUME HooksInit PROVE HooksInv
    OBVIOUS
<1>1. HooksTypeOK
      BY InitTypes
<1>2. Owners = {} /\ Saved = <<>>
      BY DEF HooksInit, Owners, Coming, Saved, NoJob
<1>3. \A a \in Code : codeBytes[a] \notin Plugins
      BY HookPluginsAssumption DEF HooksInit
<1>4. JobShape /\ LeftIsFree /\ RemovedIsFree
      BY DEF HooksInit, JobShape, NoJob, Idle, LeftIsFree, RemovedIsFree
<1>5. OwnersDisjoint /\ OriginalsClean /\ BytesOwned
      BY <1>2, <1>3 DEF HooksInit, OwnersDisjoint, OriginalsClean, BytesOwned
<1>6. StagedNumbered /\ HandedStorageMapped /\ ReadsCover
      BY DEF HooksInit, StagedNumbered, HandedStorageMapped, ReadsCover, Idle
<1>7. PagesTracked
      BY <1>2 DEF HooksInit, PagesTracked
<1> QED BY <1>1, <1>4, <1>5, <1>6, <1>7 DEF HooksInv

LEMMA HooksInvKept == HooksInv /\ [HooksNext]_hooksVars => HooksInv'
<1> SUFFICES ASSUME HooksInv, [HooksNext]_hooksVars PROVE HooksInv'
    OBVIOUS
<1>1. CASE HooksNext
  <2>1. HooksTypeOK' /\ JobShape'
        BY <1>1, TypesStep, ShapeStep DEF HooksInv
  <2>2. CodeInv'
        BY <2>1, <1>1, CodeStep DEF HooksInv, CodeInv
  <2>3. ListsInv'
        BY <1>1, ListsStep DEF HooksInv, ListsInv
  <2>4. PagesTracked'
        BY <1>1, PagesStep DEF HooksInv
  <2> QED BY <2>1, <2>2, <2>3, <2>4 DEF HooksInv, CodeInv, ListsInv
<1>2. CASE UNCHANGED hooksVars
  <2>1. HooksTypeOK'
        BY <1>2, TypesKept DEF hooksVars, registryVars, HooksInv, HooksTypeOK
  <2>2. JobShape' /\ PagesTracked'
        BY <1>2 DEF hooksVars, registryVars, HooksInv, JobShape, PagesTracked, Saved
  <2>3. CodeInv'
        BY <1>2, CodeKept DEF hooksVars, registryVars, HooksInv, CodeInv
  <2>4. ListsInv'
        BY <1>2 DEF hooksVars, registryVars, HooksInv, ListsInv, StagedNumbered,
                    HandedStorageMapped, ReadsCover, StorageOf, Owned
  <2> QED BY <2>1, <2>2, <2>3, <2>4 DEF HooksInv, CodeInv, ListsInv
<1> QED BY <1>1, <1>2

(* What is unhooked by name is original::read's: with no write in progress, *)
(* a byte is an owner's or no plugin's.                                     *)
LEMMA OriginalsSeen ==
    ASSUME HooksInv
    PROVE  OriginalViewClean
<1> SUFFICES ASSUME job = NoJob, ~stray, NEW a \in Code
             PROVE  Original(a) \notin Plugins
    BY DEF OriginalViewClean
<1> DEFINE over == {h \in installed : a \in Span(h.req)}
<1>1. Owners = installed
      BY DEF Owners, Coming, NoJob
<1>2. CASE over = {}
  <2>1. codeBytes[a] \notin Plugins
        BY <1>1, <1>2 DEF HooksInv, BytesOwned
  <2> QED BY <2>1, <1>2 DEF Original
<1>3. CASE over # {}
  <2>1. (CHOOSE h \in over : TRUE) \in over
        BY <1>3
  <2>2. \A h \in over : h.original[a] \notin Plugins
        BY <1>1 DEF HooksInv, OriginalsClean
  <2> QED BY <2>1, <2>2, <1>3 DEF Original
<1> QED BY <1>2, <1>3

(* Of two staged hooks that overlap, one was asked for before the other.    *)
LEMMA RefusalsSeen ==
    ASSUME HooksTypeOK, StagedNumbered
    PROVE  RefusalExplained
<1> SUFFICES ASSUME NEW os \in SUBSET Plugins, ~NoOverlap(os)
             PROVE  \E c \in StagedConflicts : c[2].owner \in os
    BY DEF RefusalExplained
<1>1. CASE \E s \in Selected(os), h \in installed : Overlaps(h, s.req)
  <2> PICK s \in Selected(os), h \in installed : Overlaps(h, s.req)
      BY <1>1
  <2>1. s \in staged /\ s.owner \in os
        BY DEF Selected
  <2>2. <<h, s>> \in StagedConflicts
        BY <2>1 DEF StagedConflicts
  <2> QED BY <2>1, <2>2
<1>2. CASE \E s, t \in Selected(os) : s # t /\ Overlaps(s, t.req)
  <2> PICK s \in Selected(os), t \in Selected(os) : s # t /\ Overlaps(s, t.req)
      BY <1>2
  <2>1. /\ s \in staged /\ t \in staged /\ s.owner \in os /\ t.owner \in os
        /\ s \in HookSet /\ t \in HookSet
        BY DEF Selected, HooksTypeOK
  <2>2. s.storage \in Nat /\ t.storage \in Nat /\ s.storage # t.storage
        BY <2>1, HookFields DEF StagedNumbered
  <2>3. Overlaps(t, s.req)
        BY DEF Overlaps
  <2>4. CASE s.storage < t.storage
    <3>1. <<s, t>> \in StagedConflicts
          BY <2>1, <2>4 DEF StagedConflicts
    <3> QED BY <3>1, <2>1
  <2>5. CASE t.storage < s.storage
    <3>1. <<t, s>> \in StagedConflicts
          BY <2>1, <2>3, <2>5 DEF StagedConflicts
    <3> QED BY <3>1, <2>1
  <2> QED BY <2>2, <2>4, <2>5
<1> QED BY <1>1, <1>2 DEF NoOverlap

LEMMA HooksInvSuffices == HooksInv => HooksSound
<1> SUFFICES ASSUME HooksInv PROVE HooksSound
    OBVIOUS
<1>1. HooksTypeOK /\ HandedStorageMapped
      BY DEF HooksInv
<1>2. job = NoJob => Owners = installed
      BY DEF Owners, Coming, NoJob
<1>3. PatchesOwned
      BY <1>2 DEF HooksInv, BytesOwned, PatchesOwned, OwnershipRetained
<1>4. OneOwnerPerByte
      BY DEF HooksInv, OwnersDisjoint, Owners, Disjoint, OneOwnerPerByte
<1>5. UncommittedLeavesNothing
  <2> SUFFICES ASSUME ~stray, job.op \in {"plan", "install"}, job.phase = "restore",
                      job.result = "before", NEW h \in job.hooks, NEW a \in Span(h.req)
               PROVE  codeBytes[a] # h.owner
      BY DEF UncommittedLeavesNothing
  <2>1. job # NoJob /\ h \in HookSet
        BY <1>1, JobFields DEF HooksTypeOK, Jobs, NoJob
  <2>2. h \in job.left
        BY <2>1 DEF HooksInv, JobShape
  <2>3. codeBytes[a] \notin Plugins
        BY <2>1, <2>2 DEF HooksInv, LeftIsFree, Free
  <2> QED BY <2>1, <2>3, HookFields
<1>6. ProtectionRestored
      BY DEF HooksInv, PagesTracked, Saved, ProtectionRestored
<1>7. OwnedCodeComplete
      BY DEF HooksInv, ReadsCover, OwnedCodeComplete, StorageOf, Owned
<1> QED BY <1>1, <1>3, <1>4, <1>5, <1>6, <1>7, OriginalsSeen, RefusalsSeen
        DEF HooksInv, HooksSound

(* Whatever is requested, staged, committed, discarded or unhooked, in      *)
(* whatever order, and wherever a write fails: a plugin's bytes in the code *)
(* have an owner who can take them out, unless one of the two ways to a     *)
(* stray byte was taken; no byte has two owners; what reports "not          *)
(* committed" left nothing; the protections are back unless putting one     *)
(* back failed; a storage whose address a plugin holds is mapped, and       *)
(* owned_code finds it; and original::read shows no plugin's bytes.         *)
THEOREM HooksAreSound == HooksSpec => []HooksSound
<1>1. HooksInit => HooksInv
      BY HooksInvInitially
<1>2. HooksInv /\ [HooksNext]_hooksVars => HooksInv'
      BY HooksInvKept
<1>3. HooksInv => HooksSound
      BY HooksInvSuffices
<1> QED BY <1>1, <1>2, <1>3, PTL DEF HooksSpec

-----------------------------------------------------------------------------
(* What was handed out is still taken, and for a place that reaches it. *)
NearInv ==
    /\ NearTypeOK /\ GivenReachable /\ HeldReachable /\ GivenOnce

LEMMA NearTypes ==
    /\ SlotSize \in Nat /\ SlotSize > 0 /\ Reach \in Nat /\ Reach > 0
    /\ AddressSpace \subseteq Int /\ Reach * SlotSize \in Int
    /\ (Reach - 1) * SlotSize = Reach * SlotSize - SlotSize
  <1>1. SlotSize \in Nat /\ SlotSize > 0 /\ Reach \in Nat /\ Reach > 0
    BY NearAssumption
  <1>2. \A s \in 1..Top : s * SlotSize \in Int
    BY <1>1, NearAssumption
  <1>3. \A a, b \in Int : a * b \in Int /\ (a - 1) * b = a * b - b
    OBVIOUS
  <1> QED BY <1>1, <1>2, <1>3 DEF AddressSpace

(* The nearest multiples of a slot on both sides of an address. *)
LEMMA SlotBounds ==
    ASSUME NEW m, m.base \in Nat, m.size \in Nat
    PROVE  /\ Start(m) \in Int /\ Start(m) <= m.base
           /\ End(m) \in Int /\ End(m) >= m.base + m.size
  <1> USE NearTypes
  <1>1. \A e \in Int : e % SlotSize \in Int /\ 0 <= e % SlotSize /\ e % SlotSize < SlotSize
    OBVIOUS
  <1>2. m.base \in Int /\ m.base + m.size \in Int
    OBVIOUS
  <1>3. (m.base + m.size) % SlotSize \in Int /\ m.base % SlotSize \in Int
    BY <1>1, <1>2
  <1>4. SlotSize - ((m.base + m.size) % SlotSize) \in Int
    BY <1>3
  <1> QED BY <1>1, <1>2, <1>3, <1>4 DEF Start, End

(* Two addresses of slots less than so many slots apart. *)
LEMMA SlotsApart ==
    ASSUME NEW s \in Int, NEW k \in Int, s * SlotSize - k * SlotSize < Reach * SlotSize
    PROVE  s * SlotSize - k * SlotSize <= Reach * SlotSize - SlotSize
  <1> USE NearTypes
  <1>1. s - k < Reach
    <2>1. SUFFICES ASSUME s - k >= Reach PROVE FALSE
      OBVIOUS
    <2>2. \A x, y, z \in Int : x >= y /\ z > 0 => x * z >= y * z
      OBVIOUS
    <2>3. (s - k) * SlotSize = s * SlotSize - k * SlotSize
      OBVIOUS
    <2> QED BY <2>1, <2>2, <2>3
  <1>2. s - k <= Reach - 1
    BY <1>1
  <1>3. \A x, y, z \in Int : x <= y /\ z > 0 => x * z <= y * z
    OBVIOUS
  <1>4. (s - k) * SlotSize = s * SlotSize - k * SlotSize
    OBVIOUS
  <1> QED BY <1>2, <1>3, <1>4

LEMMA HeldNear ==
    ASSUME NEW m \in Modules, NEW at \in Held(m)
    PROVE  /\ at \in AddressSpace \ used
           /\ at + SlotSize - m.base <= Reach * SlotSize
           /\ m.base + m.size - at <= Reach * SlotSize
  <1> USE NearTypes
  <1>1. at \in Reservable(m)
    BY DEF Held
  <1>2. at \in AddressSpace \ used /\ at \in Int
    BY <1>1 DEF Reservable
  <1>3. PICK i \in 0..Reach : at \in Above(m, i) \cup Below(m, i)
    BY <1>1 DEF Reservable
  <1>4. m.base \in Nat /\ m.size \in Nat
    BY NearAssumption
  <1>5. /\ Start(m) \in Int /\ Start(m) <= m.base
        /\ End(m) \in Int /\ End(m) >= m.base + m.size
    BY <1>4, SlotBounds
  <1>6. i * SlotSize \in Int /\ i * SlotSize >= 0
    BY <1>3
  <1>7. (i + 1) * SlotSize = i * SlotSize + SlotSize
    BY <1>3
  <1>8. CASE at \in Above(m, i)
    <2>1. at = End(m) + i * SlotSize /\ at + SlotSize - m.base <= (Reach - 1) * SlotSize
      BY <1>8 DEF Above
    <2> QED BY <2>1, <1>2, <1>4, <1>5, <1>6
  <1>9. CASE at \in Below(m, i)
    <2>1. at = Start(m) - (i + 1) * SlotSize /\ m.base + m.size - at <= (Reach - 1) * SlotSize
      BY <1>9 DEF Below
    <2> QED BY <2>1, <1>2, <1>4, <1>5, <1>6, <1>7
  <1> QED BY <1>3, <1>8, <1>9

LEMMA NearInitially == NearInit => NearInv
  BY DEF NearInit, NearInv, NearTypeOK, GivenReachable, HeldReachable, GivenOnce

LEMMA GameTakes ==
    ASSUME NearInv, NEW s \in AddressSpace, GameAllocates(s)
    PROVE  NearInv'
  BY DEF GameAllocates, NearInv, NearTypeOK, GivenReachable, HeldReachable, GivenOnce

LEMMA ModuleLoads ==
    ASSUME NearInv, NEW m \in Modules, LoadModule(m)
    PROVE  NearInv'
  <1>1. \A at \in Held(m) : /\ at \in AddressSpace \ used
                            /\ at + SlotSize - m.base <= Reach * SlotSize
                            /\ m.base + m.size - at <= Reach * SlotSize
    BY HeldNear
  <1>2. NearTypeOK'
    BY <1>1 DEF LoadModule, NearInv, NearTypeOK, ModuleSlots
  <1>3. GivenReachable'
    BY DEF LoadModule, NearInv, GivenReachable
  <1>4. HeldReachable'
    BY <1>1 DEF LoadModule, NearInv, HeldReachable
  <1>5. GivenOnce'
    BY <1>1 DEF LoadModule, NearInv, NearTypeOK, GivenOnce
  <1> QED BY <1>2, <1>3, <1>4, <1>5 DEF NearInv

LEMMA HintTyped ==
    ASSUME NEW m \in Modules, NEW hint \in {m.base, m.base + m.size - 1}
    PROVE  hint \in Int
  BY NearAssumption

LEMMA SlotTaken ==
    ASSUME NearInv, NEW hint \in Int, NEW size \in Sizes, Take(hint, size)
    PROVE  NearInv'
  <1> USE NearTypes
  <1>1. size \in 1..SlotSize
    BY DEF Take
  <1>2. PICK at \in Nearest(hint) :
          /\ free' = Remaining(at)
          /\ \/ given' = given \cup {<<hint, at, size>>} /\ UNCHANGED <<used, spoiled>>
             \/ /\ ~spoiled
                /\ used' = used \ {at} /\ spoiled' = TRUE
                /\ UNCHANGED given
    BY DEF Take
  <1>3. heldSlots' = heldSlots
    BY DEF Take
  <1>4. at \in free /\ Reaches(hint, at)
    BY DEF Nearest
  <1>5. at \in used /\ at \in Int
    BY <1>4 DEF NearInv, NearTypeOK
  <1>6. at + size - hint <= Reach * SlotSize /\ hint - at < Reach * SlotSize
    <2>1. CASE at >= hint
      BY <2>1, <1>1, <1>4, <1>5 DEF Reaches
    <2>2. CASE ~(at >= hint)
      BY <2>2, <1>1, <1>4, <1>5 DEF Reaches
    <2> QED BY <2>1, <2>2
  <1>7. free' = free \ {at}
    BY <1>2 DEF Remaining
  <1>8. HeldReachable'
    BY <1>3, <1>7 DEF NearInv, HeldReachable
  <1>9. CASE given' = given \cup {<<hint, at, size>>} /\ UNCHANGED <<used, spoiled>>
    <2>1. NearTypeOK'
      BY <1>3, <1>5, <1>7, <1>9 DEF NearInv, NearTypeOK
    <2>2. GivenReachable'
      BY <1>6, <1>9 DEF NearInv, GivenReachable
    <2>3. GivenOnce'
      BY <1>4, <1>7, <1>9 DEF NearInv, GivenOnce
    <2> QED BY <2>1, <2>2, <2>3, <1>8 DEF NearInv
  <1>10. CASE used' = used \ {at} /\ UNCHANGED given
    <2>1. NearTypeOK'
      BY <1>3, <1>4, <1>7, <1>10 DEF NearInv, NearTypeOK, GivenOnce
    <2>2. GivenReachable'
      BY <1>10 DEF NearInv, GivenReachable
    <2>3. GivenOnce'
      BY <1>7, <1>10 DEF NearInv, GivenOnce
    <2> QED BY <2>1, <2>2, <2>3, <1>8 DEF NearInv
  <1> QED BY <1>2, <1>9, <1>10

LEMMA FarFromModules ==
    ASSUME NearInv, NEW hint \in Int, NEW size \in Sizes, AllocNear(hint, size)
    PROVE  NearInv'
  <1> USE NearTypes
  <1> DEFINE base == hint - (hint % SlotSize)
             pieces(at) == {at + k * SlotSize : k \in 0..((size - 1) \div SlotSize)}
  <1>1. size \in Nat /\ size >= 1
    BY NearAssumption
  <1>2. PICK at \in AddressSpace :
          /\ Distance(at, base) < Reach * SlotSize
          /\ \A k \in 0..((size - 1) \div SlotSize) : at + k * SlotSize \in AddressSpace \ used
          /\ given' = given \cup {<<hint, at, size>>}
          /\ used' = used \cup pieces(at)
    BY DEF AllocNear
  <1>3. heldSlots' = heldSlots /\ free' = free
    BY DEF AllocNear
  <1>4. at \in Int
    BY <1>2
  <1>5. 0 \in 0..((size - 1) \div SlotSize) /\ at + 0 * SlotSize = at
    <2>1. (size - 1) \div SlotSize >= 0 /\ (size - 1) \div SlotSize \in Int
      BY <1>1
    <2> QED BY <2>1, <1>4
  <1>6. at \in AddressSpace \ used /\ at \in pieces(at) /\ pieces(at) \subseteq AddressSpace \ used
    BY <1>2, <1>5
  <1>7. PICK s \in Int : at = s * SlotSize
    <2>1. PICK s \in 1..Top : at = s * SlotSize
      BY DEF AddressSpace
    <2>2. s \in Int
      BY NearAssumption
    <2> QED BY <2>1, <2>2
  <1>8. PICK k \in Int : base = k * SlotSize /\ base <= hint /\ hint < base + SlotSize
    <2>1. /\ hint = (hint \div SlotSize) * SlotSize + (hint % SlotSize) /\ hint \div SlotSize \in Int
          /\ hint % SlotSize \in Int /\ 0 <= hint % SlotSize /\ hint % SlotSize < SlotSize
      OBVIOUS
    <2>2. (hint \div SlotSize) * SlotSize \in Int
      BY <2>1
    <2>3. base = (hint \div SlotSize) * SlotSize
      BY <2>1, <2>2
    <2>4. base <= hint /\ hint < base + SlotSize
      BY <2>1
    <2> HIDE DEF base
    <2> QED BY <2>1, <2>3, <2>4, Zenon
  <1>9. /\ k * SlotSize \in Int /\ s * SlotSize \in Int
        /\ s * SlotSize - k * SlotSize < Reach * SlotSize
        /\ k * SlotSize - s * SlotSize < Reach * SlotSize
    <2>1. k * SlotSize \in Int /\ s * SlotSize \in Int
      OBVIOUS
    <2> QED BY <2>1, <1>2, <1>7, <1>8 DEF Distance
  <1>10. /\ s * SlotSize - k * SlotSize <= Reach * SlotSize - SlotSize
         /\ k * SlotSize - s * SlotSize <= Reach * SlotSize - SlotSize
    BY <1>9, SlotsApart
  <1>11. size <= SlotSize => at + size - hint <= Reach * SlotSize /\ hint - at < Reach * SlotSize
    <2> HIDE DEF base
    <2> QED BY <1>1, <1>7, <1>8, <1>9, <1>10
  <1> HIDE DEF base, pieces
  <1>12. NearTypeOK'
    <2>1. used' \subseteq AddressSpace /\ heldSlots' \subseteq Modules /\ free' \subseteq used'
      BY <1>2, <1>3, <1>6 DEF NearInv, NearTypeOK
    <2>2. ASSUME NEW g \in given' PROVE g[2] \in used'
      BY <2>2, <1>2, <1>6 DEF NearInv, NearTypeOK
    <2> QED BY <2>1, <2>2 DEF NearTypeOK
  <1>13. GivenReachable'
    BY <1>2, <1>11 DEF NearInv, GivenReachable
  <1>14. HeldReachable'
    BY <1>3 DEF NearInv, HeldReachable
  <1>15. GivenOnce'
    BY <1>2, <1>3, <1>6 DEF NearInv, NearTypeOK, GivenOnce
  <1> QED BY <1>12, <1>13, <1>14, <1>15 DEF NearInv

LEMMA NearKept == NearInv /\ [NearNext]_nearVars => NearInv'
  <1> SUFFICES ASSUME NearInv, [NearNext]_nearVars PROVE NearInv'
    OBVIOUS
  <1>1. CASE UNCHANGED nearVars
    BY <1>1 DEF nearVars, NearInv, NearTypeOK, GivenReachable, HeldReachable, GivenOnce
  <1>2. CASE \E s \in AddressSpace : GameAllocates(s)
    BY <1>2, GameTakes
  <1>3. CASE \E m \in Modules : LoadModule(m)
    BY <1>3, ModuleLoads
  <1>4. ASSUME NEW m \in Modules, NEW hint \in {m.base, m.base + m.size - 1}, NEW size \in Sizes,
               Take(hint, size) \/ AllocNear(hint, size)
        PROVE  NearInv'
    BY <1>4, HintTyped, SlotTaken, FarFromModules
  <1> QED BY <1>1, <1>2, <1>3, <1>4 DEF NearNext

THEOREM NearIsSound == NearSpec => [](NearTypeOK /\ GivenReachable /\ HeldReachable /\ GivenOnce)
  <1>1. NearInv => NearTypeOK /\ GivenReachable /\ HeldReachable /\ GivenOnce
    BY DEF NearInv
  <1> QED BY <1>1, NearInitially, NearKept, PTL DEF NearSpec

-----------------------------------------------------------------------------
Copies == [module : UnitModules, content : Contents \cup {"ring"}, at : Nat, bytes : {UnitBytes}, entry : Int]

UnitFields ==
    /\ hash \in [UnitModules -> Hashes]
    /\ \A m \in UnitModules : truth[m] \in TruthsOf(hash[m])
    /\ coreState \in {"off", "ready", "refused"} /\ build \in {"none", "variant", "reference"}
    /\ linked \in [UnitModules -> Nat] /\ stagedCopy \in [UnitModules -> Nat]
    /\ DOMAIN version = UnitModules
    /\ copies \in Seq(Copies)

(* The build was chosen for both modules, and its own units fit them. *)
BuildChosen ==
    coreState = "ready" =>
        /\ Choose(hash["logic"], hash["game"]) # "none"
        /\ build = BuildFor(Choose(hash["logic"], hash["game"]))
        /\ \A m \in UnitModules : Ready(m, build)

(* A copy that was moved for the module it is in. *)
FitCopy(m, i) ==
    /\ coreState = "ready" /\ i \in 1..Len(copies)
    /\ copies[i].module = m /\ copies[i].entry = EntryAt(m)
    /\ NeedsRelocation(m, build) => Relocates(m, build, "feature")

CopiesFit ==
    \A m \in UnitModules :
        /\ linked[m] # 0 => FitCopy(m, linked[m])
        /\ stagedCopy[m] # 0 => FitCopy(m, stagedCopy[m])

NothingEarly == coreState # "ready" => copies = <<>>

UnitsInv ==
    /\ UnitFields /\ BuildChosen /\ CopiesFit /\ NothingEarly /\ CopiesDisjoint /\ StagesItsVersion

-----------------------------------------------------------------------------
LEMMA PlainTruth ==
    ASSUME NEW l, NEW v
    PROVE  /\ As(l, v).layout = l /\ As(l, v).moved = v
           /\ ~As(l, v).apart /\ ~As(l, v).torn
  BY DEF As

(* A supported build is one of a few layouts, in one piece. *)
LEMMA SupportedTruth ==
    ASSUME NEW h \in Hashes \ {"other"}, NEW t \in TruthsOf(h)
    PROVE  /\ t.layout = (IF h = "variant" THEN "new" ELSE "old")
           /\ t.moved \in {0, 50}
           /\ ~t.apart /\ ~t.torn
  <1>1. CASE h = "reference"
    <2>1. t = As("old", 0)
      BY <1>1 DEF TruthsOf
    <2> QED BY <1>1, <2>1, PlainTruth
  <1>2. CASE h = "verified"
    <2>1. t = As("old", 50)
      BY <1>2 DEF TruthsOf
    <2> QED BY <1>2, <2>1, PlainTruth
  <1>3. CASE h = "variant"
    <2>1. t = As("new", 0)
      BY <1>3 DEF TruthsOf
    <2> QED BY <1>3, <2>1, PlainTruth
  <1> QED BY <1>1, <1>2, <1>3 DEF Hashes

LEMMA TruthFields ==
    ASSUME NEW h \in Hashes, NEW t \in TruthsOf(h)
    PROVE  t.moved \in {0, 50}
  <1>1. CASE h # "other"
    BY <1>1, SupportedTruth
  <1>2. CASE h = "other"
    <2>1. t \in Anything
      BY <1>2 DEF TruthsOf
    <2>2. CASE t = As("old", 0) \/ t = As("new", 50)
      BY <2>2, PlainTruth
    <2>3. CASE t = [As("new", 0) EXCEPT !.gone = {"anchor"}]
      BY <2>3 DEF As
    <2>4. CASE t \in [layout : {"old"}, moved : {50}, apart : BOOLEAN, torn : BOOLEAN,
                      gone : {{}, {"call"}}, twice : {{}, {"entry"}}]
      BY <2>4
    <2> QED BY <2>1, <2>2, <2>3, <2>4 DEF Anything
  <1> QED BY <1>1, <1>2

LEMMA UniqueMatch ==
    ASSUME NEW m \in UnitModules, NEW b, NEW site \in {"entry", "call"}, Unique(Matches(m, Signature(b, site)))
    PROVE  truth[m].layout = Layout(b) /\ Delta(m, b, site) = Place(m, site) - SiteStart(site)
  <1>1. Signature(b, site)[1] = site /\ Signature(b, site)[2] = Layout(b) /\ Layout(b) # "any"
    BY DEF Signature, Layout
  <1>2. Matches(m, Signature(b, site)) # {}
    BY FS_EmptySet DEF Unique
  <1>3. /\ truth[m].layout = Layout(b)
        /\ Place(m, site) \in Matches(m, Signature(b, site))
    BY <1>1, <1>2 DEF Matches
  <1>4. \E x : Matches(m, Signature(b, site)) = {x}
    <2>1. IsFiniteSet({Place(m, site)} \cup {90}) /\ IsFiniteSet({Place(m, site)} \cup {})
      BY FS_Singleton, FS_AddElement
    <2>2. IsFiniteSet(Matches(m, Signature(b, site)))
      BY <1>1, <2>1, FS_EmptySet DEF Matches
    <2> QED BY <2>2, FS_Singleton DEF Unique
  <1>5. (CHOOSE p \in Matches(m, Signature(b, site)) : TRUE) = Place(m, site)
    BY <1>3, <1>4
  <1> QED BY <1>3, <1>5 DEF Delta

LEMMA MovedUnitFits ==
    ASSUME UnitFields, NEW m \in UnitModules, NEW b, Relocates(m, b, "feature")
    PROVE  /\ truth[m].layout = Layout(b) /\ ~truth[m].apart /\ ~truth[m].torn
           /\ At(m, b, "feature", 20) = Place(m, "entry")
  <1>1. truth[m].moved \in Int
    <2>1. hash[m] \in Hashes /\ truth[m] \in TruthsOf(hash[m])
      BY DEF UnitFields
    <2> QED BY <2>1, TruthFields
  <1>2. UnitSites("feature") = {"entry", "call"}
    BY DEF UnitSites
  <1>3. /\ Unique(Matches(m, Signature(b, "entry"))) /\ Unique(Matches(m, Signature(b, "call")))
        /\ Delta(m, b, "entry") = Delta(m, b, "call")
    BY <1>2 DEF Relocates, Found, Group
  <1>4. truth[m].layout = Layout(b) /\ Delta(m, b, "entry") = Place(m, "entry") - SiteStart("entry")
    BY <1>3, UniqueMatch
  <1>5. Delta(m, b, "call") = Place(m, "call") - SiteStart("call")
    BY <1>3, UniqueMatch
  <1>6. Holders("feature", 20) = {"entry"}
    BY <1>2 DEF Holders, SiteStart, Length
  <1>7. At(m, b, "feature", 20) = Place(m, "entry")
    BY <1>1, <1>4, <1>6 DEF At, SiteStart, Place
  <1>8. ~truth[m].apart
    BY <1>1, <1>3, <1>4, <1>5 DEF Place, SiteStart
  <1> QED BY <1>4, <1>7, <1>8 DEF Relocates

(* A module that is not moved is of the build itself. *)
LEMMA UnmovedFits ==
    ASSUME UnitFields, BuildChosen, coreState = "ready", NEW m \in UnitModules, ~NeedsRelocation(m, build)
    PROVE  /\ truth[m].layout = Layout(build) /\ ~truth[m].apart /\ ~truth[m].torn
           /\ Place(m, "entry") = 20
  <1> DEFINE choice == Choose(hash["logic"], hash["game"])
  <1>1. hash["logic"] \in Hashes /\ hash["game"] \in Hashes /\ hash[m] \in Hashes /\ m \in {"logic", "game"}
    BY DEF UnitFields, UnitModules
  <1>2. truth[m].layout = Layout(build) /\ truth[m].moved = 0
    BY DEF BuildChosen, Ready
  <1>3. hash[m] # "other"
    <2>1. SUFFICES ASSUME hash[m] = "other" PROVE FALSE
      OBVIOUS
    <2>2. choice # "none"
      BY DEF BuildChosen
    <2>3. unknown /\ build \in {"variant", "reference"}
      BY <1>1, <2>1, <2>2 DEF Choose, Paired, MayGuess, BuildChosen, BuildFor
    <2> QED BY <2>1, <2>3 DEF NeedsRelocation
  <1>4. ~truth[m].apart /\ ~truth[m].torn
    <2>1. truth[m] \in TruthsOf(hash[m])
      BY DEF UnitFields
    <2> QED BY <1>1, <1>3, <2>1, SupportedTruth
  <1> QED BY <1>2, <1>4 DEF Place, SiteStart

LEMMA FitCopyIsMeant ==
    ASSUME UnitFields, BuildChosen, NEW m \in UnitModules, NEW i, FitCopy(m, i)
    PROVE  /\ truth[m].layout = Layout(build) /\ copies[i].entry = Place(m, "entry")
           /\ ~truth[m].apart /\ ~truth[m].torn
  <1>1. CASE NeedsRelocation(m, build)
    BY <1>1, MovedUnitFits DEF FitCopy, EntryAt
  <1>2. CASE ~NeedsRelocation(m, build)
    BY <1>2, UnmovedFits DEF FitCopy, EntryAt
  <1> QED BY <1>1, <1>2

LEMMA UnitsSuffice ==
    ASSUME UnitsInv
    PROVE  UnitsTypeOK /\ RecognizedStaysPaired /\ StagedWhereMeant /\ CopiesDisjoint /\ StagesItsVersion
  <1> USE DEF UnitsInv
  <1>1. UnitsTypeOK
    <2>1. ASSUME NEW m \in UnitModules PROVE linked[m] \in 0..Len(copies) /\ stagedCopy[m] \in 0..Len(copies)
      BY DEF CopiesFit, FitCopy, UnitFields
    <2> QED BY <2>1 DEF UnitFields, UnitsTypeOK
  <1>2. RecognizedStaysPaired
    BY DEF RecognizedStaysPaired, BuildChosen, Choose, Paired, MayGuess
  <1>3. StagedWhereMeant
    BY FitCopyIsMeant DEF StagedWhereMeant, CopiesFit
  <1> QED BY <1>1, <1>2, <1>3
-----------------------------------------------------------------------------
LEMMA UnitsInitially == UnitsInit => UnitsInv
  <1> SUFFICES ASSUME UnitsInit PROVE UnitsInv
    OBVIOUS
  <1>1. \A m \in UnitModules : linked[m] = 0 /\ stagedCopy[m] = 0
    BY DEF UnitsInit
  <1>2. copies = <<>> /\ Len(copies) = 0 /\ coreState = "off"
    BY DEF UnitsInit
  <1>3. UnitFields
    BY <1>2 DEF UnitsInit, UnitFields
  <1> QED BY <1>1, <1>2, <1>3 DEF UnitsInv, BuildChosen, CopiesFit, NothingEarly, CopiesDisjoint, StagesItsVersion

(* What the modules are never changes, nor does the build once chosen. *)
LEMMA CodeConstant ==
    ASSUME UNCHANGED <<hash, truth, unknown, build>>
    PROVE  /\ \A m \in UnitModules : EntryAt(m)' = EntryAt(m)
           /\ \A m \in UnitModules : NeedsRelocation(m, build)' <=> NeedsRelocation(m, build)
           /\ \A m \in UnitModules : Relocates(m, build, "feature")' <=> Relocates(m, build, "feature")
  BY DEF EntryAt, At, Delta, Matches, Place, NeedsRelocation, Relocates, Found, Placeable, Holders

LEMMA ChoiceConstant ==
    ASSUME UNCHANGED <<hash, truth, unknown, build, coreState>>, BuildChosen
    PROVE  BuildChosen'
  <1>1. \A m, signature : Matches(m, signature)' = Matches(m, signature)
    BY DEF Matches, Place
  <1>2. \A m, b, site : Delta(m, b, site)' = Delta(m, b, site)
    BY <1>1 DEF Delta
  <1>3. \A m, b, unit : Found(m, b, unit)' <=> Found(m, b, unit)
    BY <1>1, <1>2 DEF Found
  <1>4. \A m, b : Relocates(m, b, "core")' <=> Relocates(m, b, "core")
    BY <1>3 DEF Relocates
  <1>5. \A b : Like(b)' <=> Like(b)
    BY <1>3 DEF Like
  <1>6. \A m : Ready(m, build)' <=> Ready(m, build)
    BY <1>4 DEF Ready, NeedsRelocation
  <1>7. Choose(hash["logic"], hash["game"])' = Choose(hash["logic"], hash["game"])
    BY DEF Choose, MayGuess
  <1>8. \A choice : BuildFor(choice)' = BuildFor(choice)
    BY <1>5 DEF BuildFor
  <1> QED BY <1>6, <1>7, <1>8 DEF BuildChosen

-----------------------------------------------------------------------------
LEMMA SmallestExists ==
    ASSUME NEW set \in SUBSET Nat, set # {}
    PROVE  \E m \in set : \A k \in set : m <= k
  <1> DEFINE Less == {ij \in Nat \X Nat : ij[1] < ij[2]}
  <1>1. OpToRel(<, Nat) = Less
    BY Zenon DEF OpToRel
  <1> HIDE DEF Less
  <1>2. PICK m \in set : \A k \in set : ~(<<k, m>> \in Less)
    BY <1>1, WFMin, NatLessThanWellFounded
  <1>3. ASSUME NEW k \in set PROVE m <= k
    <2>1. ~(k < m)
      BY <1>2 DEF Less
    <2> QED BY <2>1
  <1> QED BY <1>3

LEMMA LargestExists ==
    ASSUME NEW n \in Nat, NEW set \in SUBSET (1..n), set # {}
    PROVE  \E m \in set : \A k \in set : k <= m
  <1> DEFINE mirror == {n - k : k \in set}
  <1>1. mirror \in SUBSET Nat /\ mirror # {}
    <2>1. \A k \in set : k \in 1..n /\ n - k \in Nat
      OBVIOUS
    <2> QED BY <2>1
  <1>2. PICK m \in mirror : \A k \in mirror : m <= k
    BY <1>1, SmallestExists
  <1>3. PICK i \in set : m = n - i
    BY <1>2
  <1>4. \A k \in set : n - i <= n - k
    BY <1>2, <1>3
  <1>5. \A k \in set : k <= i
    BY <1>4
  <1> QED BY <1>5

LEMMA CopyTyped ==
    ASSUME UnitFields, NEW i \in 1..Len(copies)
    PROVE  copies[i].module \in UnitModules /\ copies[i].at \in Nat /\ copies[i].bytes = UnitBytes
  <1>1. copies[i] \in Copies
    BY DEF UnitFields
  <1> QED BY <1>1 DEF Copies

LEMMA RoundedUp ==
    ASSUME NEW x \in Nat
    PROVE  /\ ((x + Align - 1) \div Align) * Align \in Nat
           /\ ((x + Align - 1) \div Align) * Align >= x
  <1> DEFINE y == x + Align - 1
  <1>1. y \in Nat /\ Align \in Nat /\ Align > 0 /\ y - (Align - 1) = x
    BY UnitsAssumption
  <1> HIDE DEF y
  <1>2. /\ y = (y \div Align) * Align + (y % Align)
        /\ y % Align \in Int /\ y % Align < Align /\ y \div Align \in Nat
    BY <1>1
  <1>3. (y \div Align) * Align \in Nat
    BY <1>1, <1>2
  <1> QED BY <1>1, <1>2, <1>3 DEF y

(* The last piece of a pool ends before the next one. *)
LEMMA NextPiece ==
    ASSUME UnitFields, CopiesDisjoint, NEW m \in UnitModules
    PROVE  /\ TakePiece(m) \in Nat
           /\ \A i \in 1..Len(copies) : copies[i].module = m =>
                  copies[i].at + copies[i].bytes <= TakePiece(m)
  <1>1. Len(copies) \in Nat /\ UnitBytes \in Nat
    BY UnitsAssumption DEF UnitFields
  <1>2. CASE Pieces(m) = {}
    <2>1. Used(m) = 0
      BY <1>2 DEF Used
    <2>2. TakePiece(m) \in Nat
      BY <2>1, RoundedUp DEF TakePiece
    <2> QED BY <1>2, <2>2 DEF Pieces
  <1>3. CASE Pieces(m) # {}
    <2>1. Pieces(m) \subseteq 1..Len(copies)
      BY DEF Pieces
    <2>2. \E i \in Pieces(m) : \A j \in Pieces(m) : j <= i
      BY <1>1, <1>3, <2>1, LargestExists
    <2> DEFINE i == CHOOSE i \in Pieces(m) : \A j \in Pieces(m) : j <= i
    <2>3. i \in Pieces(m) /\ \A j \in Pieces(m) : j <= i
      BY <2>2
    <2>4. Used(m) = copies[i].at + copies[i].bytes
      BY <1>3 DEF Used
    <2> HIDE DEF i
    <2>5. i \in 1..Len(copies) /\ copies[i].module = m
      BY <2>3 DEF Pieces
    <2>6. Used(m) \in Nat
      BY <1>1, <2>4, <2>5, CopyTyped
    <2>7. TakePiece(m) \in Nat /\ TakePiece(m) >= Used(m)
      BY <2>6, RoundedUp DEF TakePiece
    <2>8. ASSUME NEW j \in 1..Len(copies), copies[j].module = m
          PROVE  copies[j].at + copies[j].bytes <= TakePiece(m)
      <3>1. j \in Pieces(m) /\ j <= i
        BY <2>3, <2>8 DEF Pieces
      <3>2. copies[j].at \in Nat /\ copies[j].bytes = UnitBytes /\ copies[i].at \in Nat /\ copies[i].bytes = UnitBytes
        BY <2>5, CopyTyped
      <3>3. CASE j = i
        BY <3>3, <2>4, <2>6, <2>7
      <3>4. CASE j < i
        <4>1. copies[j].at + copies[j].bytes <= copies[i].at
          BY <3>4, <2>5, <2>8 DEF CopiesDisjoint
        <4> QED BY <4>1, <3>2, <1>1, <2>4, <2>7
      <3> QED BY <3>1, <3>3, <3>4, <2>5
    <2> QED BY <2>7, <2>8
  <1> QED BY <1>2, <1>3

(* A piece more: what was linked is still there, and fits. *)
LEMMA PieceAdded ==
    ASSUME UnitsInv, NEW m \in UnitModules, NEW content \in Contents, Piece(m, content),
           UNCHANGED <<hash, truth, unknown, coreState, build>>
    PROVE  /\ copies' \in Seq(Copies) /\ Len(copies') = Len(copies) + 1
           /\ \A i \in 1..Len(copies) : copies'[i] = copies[i]
           /\ FitCopy(m, Len(copies))' /\ copies'[Len(copies')].content = content
           /\ \A n \in UnitModules, i \in 1..Len(copies) : FitCopy(n, i) => FitCopy(n, i)'
           /\ CopiesDisjoint'
  <1> DEFINE new == [module |-> m, content |-> content, at |-> TakePiece(m),
                     bytes |-> UnitBytes, entry |-> EntryAt(m)]
  <1>1. UnitFields /\ CopiesDisjoint /\ coreState = "ready"
    BY DEF UnitsInv, Piece
  <1>2. copies \in Seq(Copies) /\ Len(copies) \in Nat
    BY <1>1 DEF UnitFields
  <1>3. /\ copies' = Append(copies, new) /\ TakePiece(m) + UnitBytes <= PoolBytes
        /\ NeedsRelocation(m, build) => Relocates(m, build, "feature")
    BY DEF Piece
  <1>4. /\ TakePiece(m) \in Nat
        /\ \A i \in 1..Len(copies) : copies[i].module = m =>
                  copies[i].at + copies[i].bytes <= TakePiece(m)
    BY <1>1, NextPiece
  <1>5. /\ \A n \in UnitModules : EntryAt(n)' = EntryAt(n)
        /\ \A n \in UnitModules : NeedsRelocation(n, build)' <=> NeedsRelocation(n, build)
        /\ \A n \in UnitModules : Relocates(n, build, "feature")' <=> Relocates(n, build, "feature")
    BY CodeConstant
  <1>6. EntryAt(m) \in Int
    <2>1. CASE NeedsRelocation(m, build)
      <3>1. EntryAt(m) = Place(m, "entry")
        BY <2>1, <1>1, <1>3, MovedUnitFits DEF EntryAt
      <3>2. truth[m].moved \in Int
        BY <1>1, TruthFields DEF UnitFields
      <3> QED BY <3>1, <3>2 DEF Place, SiteStart
    <2>2. CASE ~NeedsRelocation(m, build)
      BY <2>2 DEF EntryAt
    <2> QED BY <2>1, <2>2
  <1>7. new \in Copies
    BY <1>4, <1>6 DEF Copies
  <1>8. /\ new.module = m /\ new.entry = EntryAt(m) /\ new.content = content
        /\ new.at = TakePiece(m) /\ new.bytes = UnitBytes
    OBVIOUS
  <1> HIDE DEF new
  <1>9. /\ copies' \in Seq(Copies) /\ Len(copies') = Len(copies) + 1
        /\ \A i \in 1..Len(copies) : copies'[i] = copies[i]
        /\ copies'[Len(copies')] = new /\ Len(copies') \in 1..Len(copies')
    BY <1>2, <1>3, <1>7
  <1>10. FitCopy(m, Len(copies))'
    BY <1>1, <1>3, <1>5, <1>8, <1>9 DEF FitCopy
  <1>11. ASSUME NEW n \in UnitModules, NEW i \in 1..Len(copies), FitCopy(n, i)
         PROVE  FitCopy(n, i)'
    BY <1>1, <1>2, <1>5, <1>9, <1>11 DEF FitCopy
  <1>12. CopiesDisjoint'
    <2>1. ASSUME NEW i \in 1..Len(copies'), NEW j \in 1..Len(copies')
          PROVE  /\ copies'[i].at + copies'[i].bytes <= PoolBytes
                 /\ i < j /\ copies'[i].module = copies'[j].module =>
                        copies'[i].at + copies'[i].bytes <= copies'[j].at
      <3>1. copies'[i].at + copies'[i].bytes <= PoolBytes
        BY <1>1, <1>2, <1>3, <1>8, <1>9 DEF CopiesDisjoint
      <3>2. CASE j \in 1..Len(copies)
        BY <3>1, <3>2, <1>1, <1>2, <1>9 DEF CopiesDisjoint
      <3>3. CASE j \notin 1..Len(copies)
        <4>1. j = Len(copies') /\ (i < j => i \in 1..Len(copies))
          BY <3>3, <1>2, <1>9
        <4> QED BY <4>1, <3>1, <1>4, <1>8, <1>9
      <3> QED BY <3>2, <3>3
    <2> QED BY <2>1 DEF CopiesDisjoint
  <1> QED BY <1>8, <1>9, <1>10, <1>11, <1>12
-----------------------------------------------------------------------------
LEMMA CoreInitialized == ASSUME UnitsInv, InitCore PROVE UnitsInv'
  <1> DEFINE choice == Choose(hash["logic"], hash["game"])
  <1>1. /\ coreState = "off" /\ copies = <<>>
        /\ \A m \in UnitModules : linked[m] = 0 /\ stagedCopy[m] = 0
    BY DEF UnitsInv, InitCore, NothingEarly, CopiesFit, FitCopy, UnitFields
  <1>2. UNCHANGED <<hash, truth, unknown, linked, stagedCopy, version>>
    BY DEF InitCore
  <1>3. CASE coreState' = "refused" /\ UNCHANGED <<build, copies>>
    <2>2. UnitFields'
      BY <1>2, <1>3 DEF UnitsInv, UnitFields
    <2>3. BuildChosen' /\ CopiesFit' /\ NothingEarly' /\ CopiesDisjoint' /\ StagesItsVersion'
      BY <1>1, <1>2, <1>3 DEF BuildChosen, CopiesFit, NothingEarly, CopiesDisjoint, StagesItsVersion
    <2> QED BY <2>2, <2>3 DEF UnitsInv
  <1>4. CASE /\ choice # "none" /\ \A m \in UnitModules : Ready(m, BuildFor(choice))
             /\ coreState' = "ready" /\ build' = BuildFor(choice)
             /\ copies' = <<[module |-> "logic", content |-> "ring", at |-> 0, bytes |-> UnitBytes, entry |-> 0]>>
    <2>1. copies'[1] = [module |-> "logic", content |-> "ring", at |-> 0, bytes |-> UnitBytes, entry |-> 0]
          /\ Len(copies') = 1
      BY <1>4
    <2>2. copies' \in Seq(Copies)
      BY <1>4 DEF Copies, UnitModules
    <2>3. build' \in {"variant", "reference"}
      BY <1>4 DEF BuildFor, Choose
    <2>4. UnitFields'
      BY <1>2, <1>4, <2>2, <2>3 DEF UnitsInv, UnitFields
    <2>5. BuildChosen'
      <3>1. choice' = choice /\ BuildFor(choice)' = BuildFor(choice)
        BY <1>2 DEF Choose, MayGuess, BuildFor, Like, Found, Delta, Matches, Place
      <3>2. ASSUME NEW m \in UnitModules, NEW b, Ready(m, b) PROVE Ready(m, b)'
        BY <3>2, <1>2 DEF Ready, NeedsRelocation, Relocates, Found, Delta, Matches, Place
      <3> QED BY <3>1, <3>2, <1>4 DEF BuildChosen
    <2>6. CopiesFit' /\ NothingEarly' /\ StagesItsVersion'
      BY <1>1, <1>2, <1>4 DEF CopiesFit, NothingEarly, StagesItsVersion
    <2>7. CopiesDisjoint'
      BY <2>1, UnitsAssumption DEF CopiesDisjoint
    <2> QED BY <2>4, <2>5, <2>6, <2>7 DEF UnitsInv
  <1> QED BY <1>3, <1>4 DEF InitCore

LEMMA LinkFailed ==
    ASSUME UnitsInv, NEW m \in UnitModules, NEW content \in Contents, LinkFails(m, content)
    PROVE  UnitsInv'
  <1>1. Piece(m, content) /\ UNCHANGED <<hash, truth, unknown, coreState, build, linked, stagedCopy, version>>
    BY DEF LinkFails
  <1>2. /\ copies' \in Seq(Copies) /\ Len(copies') = Len(copies) + 1
        /\ \A i \in 1..Len(copies) : copies'[i] = copies[i]
        /\ \A n \in UnitModules, i \in 1..Len(copies) : FitCopy(n, i) => FitCopy(n, i)'
        /\ CopiesDisjoint'
    BY <1>1, PieceAdded
  <1>3. UnitFields'
    BY <1>1, <1>2 DEF UnitsInv, UnitFields
  <1>4. BuildChosen'
    BY <1>1, ChoiceConstant DEF UnitsInv
  <1>5. CopiesFit' /\ NothingEarly' /\ StagesItsVersion'
    BY <1>1, <1>2 DEF UnitsInv, CopiesFit, FitCopy, NothingEarly, StagesItsVersion, Piece
  <1> QED BY <1>2, <1>3, <1>4, <1>5 DEF UnitsInv

LEMMA Prepared ==
    ASSUME UnitsInv, NEW m \in UnitModules, NEW content \in Contents, Prepare(m, content)
    PROVE  UnitsInv'
  <1>1. /\ UNCHANGED <<hash, truth, unknown, coreState, build>> /\ coreState = "ready"
        /\ stagedCopy[m] = 0 /\ Linked(m, content)
    BY DEF Prepare
  <1>2. UnitFields /\ Len(copies) \in Nat
    BY DEF UnitsInv, UnitFields
  <1>3. /\ copies' \in Seq(Copies) /\ Len(copies') \in Nat /\ Len(copies') >= Len(copies)
        /\ \A i \in 1..Len(copies) : copies'[i] = copies[i]
        /\ \A n \in UnitModules, i \in 1..Len(copies) : FitCopy(n, i) => FitCopy(n, i)'
        /\ CopiesDisjoint' /\ linked' \in [UnitModules -> Nat]
        /\ linked'[m] # 0 /\ FitCopy(m, linked[m])' /\ copies'[linked'[m]].content = content
        /\ \A n \in UnitModules : n # m => linked'[n] = linked[n]
    <2>1. CASE Kept(m, content) /\ UNCHANGED <<copies, linked>>
      <3>1. linked[m] # 0 /\ copies[linked[m]].content = content
        BY <2>1 DEF Kept, Same
      <3>2. \A n \in UnitModules, i \in 1..Len(copies) : FitCopy(n, i) => FitCopy(n, i)'
        BY <2>1, <1>1, CodeConstant DEF FitCopy
      <3>3. FitCopy(m, linked[m]) /\ linked[m] \in 1..Len(copies)
        BY <3>1 DEF UnitsInv, CopiesFit, FitCopy
      <3>4. CopiesDisjoint'
        BY <2>1 DEF UnitsInv, CopiesDisjoint
      <3> QED BY <2>1, <1>2, <3>1, <3>2, <3>3, <3>4 DEF UnitFields
    <2>2. CASE Piece(m, content) /\ linked' = [linked EXCEPT ![m] = Len(copies')]
      <3>1. /\ copies' \in Seq(Copies) /\ Len(copies') = Len(copies) + 1
            /\ \A i \in 1..Len(copies) : copies'[i] = copies[i]
            /\ FitCopy(m, Len(copies))' /\ copies'[Len(copies')].content = content
            /\ \A n \in UnitModules, i \in 1..Len(copies) : FitCopy(n, i) => FitCopy(n, i)'
            /\ CopiesDisjoint'
        BY <2>2, <1>1, PieceAdded
      <3>2. linked' \in [UnitModules -> Nat] /\ linked'[m] = Len(copies')
            /\ \A n \in UnitModules : n # m => linked'[n] = linked[n]
        BY <2>2, <1>2, <3>1 DEF UnitFields
      <3> QED BY <3>1, <3>2, <1>2
    <2> QED BY <2>1, <2>2, <1>1 DEF Linked
  <1>4. \/ stagedCopy' = [stagedCopy EXCEPT ![m] = linked'[m]] /\ version' = [version EXCEPT ![m] = content]
        \/ UNCHANGED <<stagedCopy, version>>
    BY DEF Prepare
  <1>5. /\ stagedCopy' \in [UnitModules -> Nat] /\ DOMAIN version' = UnitModules
        /\ \A n \in UnitModules : n # m => stagedCopy'[n] = stagedCopy[n] /\ version'[n] = version[n]
        /\ stagedCopy'[m] # 0 => stagedCopy'[m] = linked'[m] /\ version'[m] = content
    BY <1>1, <1>2, <1>3, <1>4 DEF UnitFields
  <1>6. UnitFields'
    BY <1>1, <1>2, <1>3, <1>5 DEF UnitFields
  <1>7. BuildChosen'
    BY <1>1, ChoiceConstant DEF UnitsInv
  <1>8. ASSUME NEW n \in UnitModules
        PROVE  /\ linked'[n] # 0 => FitCopy(n, linked[n])'
               /\ stagedCopy'[n] # 0 => /\ FitCopy(n, stagedCopy[n])'
                                         /\ copies'[stagedCopy'[n]].content = version'[n]
    <2>1. CASE n = m
      BY <2>1, <1>3, <1>5
    <2>2. CASE n # m
      <3>1. /\ linked[n] # 0 => FitCopy(n, linked[n]) /\ linked[n] \in 1..Len(copies)
            /\ stagedCopy[n] # 0 => /\ FitCopy(n, stagedCopy[n]) /\ stagedCopy[n] \in 1..Len(copies)
                                     /\ copies[stagedCopy[n]].content = version[n]
        BY DEF UnitsInv, CopiesFit, FitCopy, StagesItsVersion
      <3> QED BY <2>2, <3>1, <1>3, <1>5
    <2> QED BY <2>1, <2>2
  <1>9. CopiesFit' /\ NothingEarly' /\ StagesItsVersion'
    BY <1>1, <1>8 DEF CopiesFit, NothingEarly, StagesItsVersion
  <1> QED BY <1>3, <1>6, <1>7, <1>9 DEF UnitsInv

LEMMA StagingOnly ==
    ASSUME UnitsInv, stagedCopy' \in [UnitModules -> Nat],
           \A n \in UnitModules : stagedCopy'[n] \in {0, stagedCopy[n]},
           UNCHANGED <<hash, truth, unknown, coreState, build, copies, linked, version>>
    PROVE  UnitsInv'
  <1>2. UnitFields'
    BY DEF UnitsInv, UnitFields
  <1>3. \A n \in UnitModules : \A i : FitCopy(n, i) => FitCopy(n, i)'
    BY CodeConstant DEF FitCopy
  <1>4. CopiesFit' /\ StagesItsVersion'
    BY <1>3 DEF UnitsInv, CopiesFit, StagesItsVersion
  <1>5. BuildChosen'
    BY ChoiceConstant DEF UnitsInv
  <1>6. NothingEarly' /\ CopiesDisjoint'
    BY DEF UnitsInv, NothingEarly, CopiesDisjoint
  <1> QED BY <1>2, <1>4, <1>5, <1>6 DEF UnitsInv

LEMMA UnitsKept == UnitsInv /\ [UnitsNext]_unitVars => UnitsInv'
  <1> SUFFICES ASSUME UnitsInv, [UnitsNext]_unitVars PROVE UnitsInv'
    OBVIOUS
  <1>1. stagedCopy \in [UnitModules -> Nat]
    BY DEF UnitsInv, UnitFields
  <1>2. CASE UNCHANGED unitVars
    BY <1>1, <1>2, StagingOnly DEF unitVars
  <1>3. CASE InitCore
    BY <1>3, CoreInitialized
  <1>4. ASSUME NEW m \in UnitModules, NEW c \in Contents, Prepare(m, c) \/ LinkFails(m, c)
        PROVE  UnitsInv'
    BY <1>4, Prepared, LinkFailed
  <1>5. ASSUME NEW m \in UnitModules, Unload(m) PROVE UnitsInv'
    BY <1>1, <1>5, StagingOnly DEF Unload
  <1>6. ASSUME NEW m \in UnitModules, NEW site, OthersHook(m, site) PROVE UnitsInv'
    BY <1>1, <1>6, StagingOnly DEF OthersHook
  <1> QED BY <1>2, <1>3, <1>4, <1>5, <1>6 DEF UnitsNext

THEOREM UnitsAreSound ==
    UnitsSpec => [](UnitsTypeOK /\ RecognizedStaysPaired /\ StagedWhereMeant /\ CopiesDisjoint /\ StagesItsVersion)
  <1> QED BY UnitsInitially, UnitsKept, UnitsSuffice, PTL DEF UnitsSpec

-----------------------------------------------------------------------------
SiteBytes == [is : {"stock", "foreign", "torn", "edited", "branch"}, block : {0} \cup BlockIds]
BlockStates == {"free", "reserved", "written"}
Phases == {"idle", "preflight", "reserve", "hook", "undo",
           "logic", "logic block", "logic write", "game", "game block", "game write"}

InjectFields ==
    /\ path \in {"units", "descriptor", "refused"} /\ runStep \in Phases
    /\ siteCode \in [AllSites -> SiteBytes] /\ asFound.code \in [AllSites -> SiteBytes]
    /\ blocks \in [BlockIds -> BlockStates] /\ asFound.blocks \in [BlockIds -> BlockStates]
    /\ fresh \in [PatchedModules -> {0} \cup BlockIds]
    /\ wantedModules \in {<< >>, <<"logic">>, <<"logic", "game">>}
    /\ todo \in Seq(AllSites) /\ changedSites \in Seq(AllSites)

PathsKept ==
    /\ runStep \in {"preflight", "reserve", "hook", "undo"} => path = "units"
    /\ runStep \in {"logic", "logic block", "logic write", "game", "game block", "game write"} => path = "descriptor"

(* Every branch leads to whole code. *)
Landing(bytes, memory) ==
    \A s \in AllSites : bytes[s].is = "branch" => bytes[s].block \in BlockIds /\ memory[bytes[s].block] = "written"

BranchesLand == Landing(siteCode, blocks) /\ Landing(asFound.code, asFound.blocks)

(* But for the blocks it reserved, a run of units left the memory alone. *)
FreshOnly(state) ==
    /\ \A m \in PatchedModules : fresh[m] # 0 => blocks[fresh[m]] = state /\ asFound.blocks[fresh[m]] = "free"
    /\ \A b \in BlockIds \ FreshBlocks : blocks[b] = asFound.blocks[b]

Wanted == ToSet(wantedModules)

Untouched ==
    /\ runStep \in {"preflight", "reserve"} => siteCode = asFound.code /\ changedSites = << >> /\ whole
    /\ runStep = "preflight" => blocks = asFound.blocks /\ fresh = NoBlocks

Reserving ==
    runStep = "reserve" =>
        /\ FreshOnly("reserved")
        /\ \A m \in Wanted : Sound(m)
        /\ \A m \in PatchedModules : fresh[m] # 0 => m \in Wanted /\ InstalledBlock(m) = 0
        /\ ToSet(todo) = {s \in AllSites : ModuleOf(s) \in Wanted /\ InstalledBlock(ModuleOf(s)) = 0}

(* A site that is written was stock, and every other one is as it was met. *)
Changing ==
    /\ runStep \in {"hook", "undo"} =>
          /\ FreshOnly("written")
          /\ \A s \in ToSet(todo) \cup ToSet(changedSites) : asFound.code[s] = Stock
          /\ whole => \A s \in AllSites \ ToSet(changedSites) : siteCode[s] = asFound.code[s]
    /\ runStep = "hook" =>
          /\ whole /\ \A s \in ToSet(todo) : fresh[ModuleOf(s)] # 0
          /\ \A m \in Wanted : \E b \in BlockIds :
                /\ blocks[b] = "written" /\ fresh[m] \in {0, b}
                /\ \A s \in ToSet(SitesOf(m)) \ ToSet(todo) : siteCode[s] = Placed(s, b)

(* The descriptor's branches lead to the block placed for their module. *)
Placing ==
    \A m \in PatchedModules :
        runStep = (IF m = "logic" THEN "logic write" ELSE "game write") =>
            \A s \in ToSet(todo) : IsBranch(s) => fresh[m] # 0 /\ blocks[fresh[m]] = "written"

InjectInv ==
    /\ InjectFields /\ PathsKept /\ BranchesLand /\ Untouched /\ Reserving /\ Changing /\ Placing
    /\ UnitReportsAreTrue /\ FailuresUndone

-----------------------------------------------------------------------------
LEMMA HeadAndTail ==
    ASSUME NEW S, NEW s \in Seq(S), s # << >>
    PROVE  /\ Head(s) \in S /\ Tail(s) \in Seq(S)
           /\ Head(s) \in ToSet(s) /\ ToSet(s) = {Head(s)} \cup ToSet(Tail(s))
  <1>1. Len(s) \in Nat /\ Len(s) > 0 /\ DOMAIN s = 1..Len(s) /\ Head(s) = s[1]
    BY HeadTailProperties, LenProperties
  <1>2. /\ Tail(s) \in Seq(S) /\ DOMAIN Tail(s) = 1..(Len(s) - 1)
        /\ \A i \in 1..(Len(s) - 1) : Tail(s)[i] = s[i + 1]
    BY HeadTailProperties, LenProperties
  <1>3. ASSUME NEW i \in 1..Len(s) PROVE i = 1 \/ i - 1 \in 1..(Len(s) - 1)
    BY <1>1
  <1>4. ASSUME NEW i \in 1..(Len(s) - 1) PROVE i + 1 \in 1..Len(s)
    BY <1>1
  <1>5. ToSet(s) \subseteq {Head(s)} \cup ToSet(Tail(s))
    <2>1. ASSUME NEW i \in 1..Len(s), i # 1 PROVE s[i] \in ToSet(Tail(s))
      <3>1. i - 1 \in 1..(Len(s) - 1) /\ (i - 1) + 1 = i
        BY <1>1, <2>1
      <3>2. Tail(s)[i - 1] = s[i]
        BY <1>2, <3>1
      <3> QED BY <3>1, <3>2, <1>2 DEF ToSet
    <2> QED BY <2>1, <1>1 DEF ToSet
  <1>6. {Head(s)} \cup ToSet(Tail(s)) \subseteq ToSet(s)
    BY <1>1, <1>2, <1>4 DEF ToSet
  <1> QED BY <1>1, <1>2, <1>5, <1>6

LEMMA AppendedSet ==
    ASSUME NEW S, NEW s \in Seq(S), NEW x \in S
    PROVE  Append(s, x) \in Seq(S) /\ ToSet(Append(s, x)) = ToSet(s) \cup {x}
  <1>1. /\ Append(s, x) \in Seq(S) /\ Len(s) \in Nat
        /\ DOMAIN Append(s, x) = 1..(Len(s) + 1) /\ DOMAIN s = 1..Len(s)
        /\ \A i \in 1..Len(s) : Append(s, x)[i] = s[i]
        /\ Append(s, x)[Len(s) + 1] = x
    BY AppendProperties, LenProperties
  <1>2. 1..(Len(s) + 1) = (1..Len(s)) \cup {Len(s) + 1}
    BY <1>1
  <1> QED BY <1>1, <1>2 DEF ToSet

LEMMA FrontAndLast ==
    ASSUME NEW S, NEW s \in Seq(S), s # << >>
    PROVE  /\ Last(s) \in S /\ Front(s) \in Seq(S)
           /\ Last(s) \in ToSet(s) /\ ToSet(s) = {Last(s)} \cup ToSet(Front(s))
  <1>1. Len(s) \in Nat /\ Len(s) > 0 /\ DOMAIN s = 1..Len(s)
    BY LenProperties, EmptySeq
  <1>2. /\ Front(s) \in Seq(S) /\ DOMAIN Front(s) = 1..(Len(s) - 1)
        /\ \A i \in 1..(Len(s) - 1) : Front(s)[i] = s[i]
    <2>1. /\ Front(s) \in Seq(S) /\ Len(Front(s)) = Len(s) - 1
          /\ \A i \in 1..(Len(s) - 1) : Front(s)[i] = s[i]
      BY <1>1 DEF Front
    <2> QED BY <2>1, LenProperties
  <1>3. 1..Len(s) = (1..(Len(s) - 1)) \cup {Len(s)} /\ Len(s) \in 1..Len(s)
    BY <1>1
  <1>4. s[Len(s)] \in S
    BY <1>3
  <1> QED BY <1>1, <1>2, <1>3, <1>4 DEF ToSet, Last

LEMMA JoinedSet ==
    ASSUME NEW S, NEW s \in Seq(S), NEW t \in Seq(S)
    PROVE  s \o t \in Seq(S) /\ ToSet(s \o t) = ToSet(s) \cup ToSet(t)
  <1>1. s \o t \in Seq(S)
    BY ConcatProperties
  <1>2. ToSet(s \o t) = Range(s \o t) /\ ToSet(s) = Range(s) /\ ToSet(t) = Range(t)
    BY DEF ToSet, Range
  <1> QED BY <1>1, <1>2, RangeConcatenation

LEMMA EmptySet == ToSet(<< >>) = {} /\ \A S : << >> \in Seq(S)
  BY EmptySeq DEF ToSet

LEMMA SequenceOfItsSet ==
    ASSUME NEW S, NEW s \in Seq(S)
    PROVE  ToSet(s) \subseteq S
  BY LenProperties, ElementOfSeq DEF ToSet

LEMMA ModuleSites ==
    ASSUME NEW m \in PatchedModules
    PROVE  /\ SitesOf(m) \in Seq(AllSites) /\ Branches[m] \in Seq(AllSites) /\ Edits[m] \in Seq(AllSites)
           /\ ToSet(SitesOf(m)) \subseteq AllSites
           /\ ToSet(SitesOf(m)) = ToSet(Branches[m]) \cup ToSet(Edits[m])
           /\ \A s \in ToSet(SitesOf(m)) : ModuleOf(s) = m
  <1> DEFINE B == ToSet(Branches[m])
             E == ToSet(Edits[m])
  <1>1. Branches[m] \in Seq(B \cup E) /\ Edits[m] \in Seq(B \cup E)
    <2>1. Branches[m] \in Seq(B) /\ Edits[m] \in Seq(E)
      BY SitesAreListed
    <2> HIDE DEF B, E
    <2> QED BY <2>1, SeqMonotonic
  <1>2. ToSet(SitesOf(m)) = B \cup E /\ SitesOf(m) \in Seq(B \cup E)
    BY <1>1, JoinedSet DEF SitesOf
  <1>3. ToSet(SitesOf(m)) \subseteq AllSites
    BY DEF AllSites
  <1>4. /\ SitesOf(m) \in Seq(AllSites) /\ Branches[m] \in Seq(AllSites) /\ Edits[m] \in Seq(AllSites)
    <2> HIDE DEF B, E
    <2> QED BY <1>1, <1>2, <1>3, SeqMonotonic
  <1>5. ASSUME NEW s \in ToSet(SitesOf(m)) PROVE ModuleOf(s) = m
    <2>1. \A n \in PatchedModules : s \in ToSet(SitesOf(n)) => n = m
      <3>1. ToSet(SitesOf("logic")) \cap ToSet(SitesOf("game")) = {}
        BY SitesAreListed DEF SitesOf
      <3> QED BY <3>1 DEF PatchedModules
    <2> QED BY <2>1 DEF ModuleOf
  <1> QED BY <1>2, <1>3, <1>4, <1>5

LEMMA SiteModule ==
    ASSUME NEW s \in AllSites
    PROVE  ModuleOf(s) \in PatchedModules /\ s \in ToSet(SitesOf(ModuleOf(s)))
  <1>1. \E m \in PatchedModules : s \in ToSet(SitesOf(m))
    BY DEF AllSites
  <1> QED BY <1>1, Zenon DEF ModuleOf

LEMMA BlocksAreNumbers == BlockIds \subseteq Nat \ {0}
  BY SitesAreListed DEF BlockIds

LEMMA PlacedTyped ==
    ASSUME NEW s, NEW b \in {0} \cup BlockIds
    PROVE  /\ Placed(s, b) \in SiteBytes
           /\ Placed(s, b).is = "branch" => IsBranch(s) /\ Placed(s, b).block = b
           /\ Placed(s, b).is = (IF IsBranch(s) THEN "branch" ELSE "edited")
  BY DEF Placed, Branch, Edited, SiteBytes

LEMMA PlainBytes ==
    /\ Stock \in SiteBytes /\ Torn \in SiteBytes /\ Other \in SiteBytes
    /\ Stock.is = "stock" /\ Torn.is = "torn" /\ Other.is = "foreign"
  BY DEF Stock, Torn, Other, SiteBytes

(* A module is stock, or patched whole by a block that is written. *)
LEMMA SoundModule ==
    ASSUME InjectFields, NEW m \in PatchedModules, Sound(m)
    PROVE  /\ InstalledBlock(m) = 0 => \A s \in ToSet(SitesOf(m)) : siteCode[s] = Stock
           /\ InstalledBlock(m) # 0 => InstalledBlock(m) \in BlockIds /\ Agrees(m, InstalledBlock(m))
  <1>1. CASE FirstTaken(m) = 0
    BY <1>1 DEF Sound, InstalledBlock
  <1>2. CASE FirstTaken(m) # 0
    <2> DEFINE taken == {i \in 1..Len(Branches[m]) : siteCode[Branches[m][i]] # Stock}
    <2>1. taken # {} /\ FirstTaken(m) = Min(taken)
      BY <1>2 DEF FirstTaken, SelectInSeq
    <2>2. taken \in SUBSET Nat
      BY ModuleSites, LenProperties
    <2>3. FirstTaken(m) \in taken
      <3> HIDE DEF taken
      <3> QED BY <2>1, <2>2, SmallestExists DEF Min
    <2>4. Branches[m][FirstTaken(m)] \in AllSites
      BY <2>3, ModuleSites, ElementOfSeq
    <2>5. InstalledBlock(m) \in {0} \cup BlockIds
      BY <1>2, <2>4 DEF InstalledBlock, InjectFields, SiteBytes
    <2> QED BY <1>2, <2>5 DEF Sound
  <1> QED BY <1>1, <1>2

LEMMA WantedModules ==
    ASSUME InjectFields
    PROVE  Wanted \subseteq PatchedModules
  <1>1. ToSet(<<"logic">>) = {"logic"} /\ ToSet(<<"logic", "game">>) = {"logic", "game"}
    BY DEF ToSet
  <1> QED BY <1>1, EmptySet DEF InjectFields, Wanted, PatchedModules

LEMMA InjectSuffices ==
    ASSUME InjectInv
    PROVE  InjectTypeOK /\ LiveBranchesLand /\ UnitReportsAreTrue /\ FailuresUndone
  <1>1. InjectTypeOK
    <2>1. ToSet(todo) \subseteq AllSites /\ ToSet(changedSites) \subseteq AllSites
      BY SequenceOfItsSet DEF InjectInv, InjectFields
    <2>2. ToSet(wantedModules) \subseteq PatchedModules
      BY WantedModules DEF InjectInv, Wanted
    <2>3. \A s \in AllSites : siteCode[s].is \in {"stock", "foreign", "torn", "edited", "branch"}
      BY DEF InjectInv, InjectFields, SiteBytes
    <2> QED BY <2>1, <2>2, <2>3 DEF InjectInv, InjectFields, InjectTypeOK, BlockStates
  <1>2. LiveBranchesLand
    BY DEF InjectInv, BranchesLand, Landing, LiveBranchesLand
  <1> QED BY <1>1, <1>2 DEF InjectInv

-----------------------------------------------------------------------------
LEMMA InjectInitially == InjectInit => InjectInv
  <1> SUFFICES ASSUME InjectInit PROVE InjectInv
    OBVIOUS
  <1>1. /\ runStep = "idle" /\ runResult = "none" /\ fresh = NoBlocks
        /\ blocks = [b \in BlockIds |-> "free"] /\ asFound.code = siteCode /\ asFound.blocks = blocks
        /\ wantedModules = << >> /\ todo = << >> /\ changedSites = << >>
    BY DEF InjectInit
  <1>2. PICK held \in SUBSET Foreign : siteCode = [s \in AllSites |-> IF s \in held THEN Other ELSE Stock]
    BY DEF InjectInit
  <1>3. siteCode \in [AllSites -> SiteBytes] /\ \A s \in AllSites : siteCode[s].is # "branch"
    BY <1>2, PlainBytes
  <1>4. path \in {"units", "descriptor", "refused"}
    BY DEF InjectInit, Select
  <1>5. InjectFields
    BY <1>1, <1>3, <1>4, EmptySet DEF InjectFields, NoBlocks, Phases, BlockStates
  <1>6. BranchesLand
    BY <1>1, <1>3 DEF BranchesLand, Landing
  <1> QED BY <1>1, <1>5, <1>6 DEF InjectInv, PathsKept, Untouched, Reserving, Changing, Placing,
             UnitReportsAreTrue, FailuresUndone

LEMMA NowIdle ==
    ASSUME InjectFields', runStep' = "idle", BranchesLand', UnitReportsAreTrue', FailuresUndone'
    PROVE  InjectInv'
  BY DEF InjectInv, PathsKept, Untouched, Reserving, Changing, Placing

(* The run's own account is of an idle one only. *)
LEMMA StillRunning ==
    ASSUME runStep' # "idle"
    PROVE  UnitReportsAreTrue' /\ FailuresUndone'
  BY DEF UnitReportsAreTrue, FailuresUndone

LEMMA InstalledSame ==
    ASSUME siteCode' = siteCode, NEW m \in PatchedModules
    PROVE  InstalledBlock(m)' = InstalledBlock(m) /\ FirstTaken(m)' = FirstTaken(m)
  <1>1. FirstTaken(m)' = FirstTaken(m)
    BY DEF FirstTaken, SelectInSeq
  <1> QED BY <1>1 DEF InstalledBlock

LEMMA RunStarts ==
    ASSUME InjectInv, NEW withGame \in BOOLEAN, Run(withGame)
    PROVE  InjectInv'
  <1>1. /\ asFound'.code = siteCode /\ asFound'.blocks = blocks
        /\ wantedModules' \in {<<"logic">>, <<"logic", "game">>}
        /\ fresh' = NoBlocks /\ todo' = << >> /\ changedSites' = << >> /\ whole' = TRUE
        /\ UNCHANGED <<path, siteCode, blocks>>
    BY DEF Run
  <1>2. \/ path = "refused" /\ runStep' = "idle" /\ runResult' = "refused"
        \/ path = "units" /\ runStep' = "preflight"
        \/ path = "descriptor" /\ runStep' = "logic"
    BY DEF Run, InjectInv, InjectFields
  <1>3. InjectFields'
    BY <1>1, <1>2, EmptySet DEF InjectInv, InjectFields, NoBlocks, Phases
  <1>4. BranchesLand'
    BY <1>1 DEF InjectInv, BranchesLand, Landing
  <1>5. UnitReportsAreTrue' /\ FailuresUndone'
    BY <1>1, <1>2 DEF UnitReportsAreTrue, FailuresUndone
  <1>6. PathsKept' /\ Untouched' /\ Reserving' /\ Changing' /\ Placing'
    BY <1>1, <1>2 DEF PathsKept, Untouched, Reserving, Changing, Placing
  <1> QED BY <1>3, <1>4, <1>5, <1>6 DEF InjectInv

LEMMA Closed == ASSUME InjectInv, Close PROVE InjectInv'
  <1>1. InjectFields'
    BY DEF Close, runVars, InjectInv, InjectFields, Phases
  <1>2. BranchesLand'
    BY DEF Close, runVars, InjectInv, BranchesLand, Landing
  <1>3. UnitReportsAreTrue' /\ FailuresUndone'
    BY DEF Close, UnitReportsAreTrue, FailuresUndone
  <1> QED BY <1>1, <1>2, <1>3, NowIdle DEF Close

LEMMA Preflown == ASSUME InjectInv, Preflight PROVE InjectInv'
  <1>1. /\ runStep = "preflight" /\ path = "units" /\ siteCode = asFound.code /\ blocks = asFound.blocks
        /\ fresh = NoBlocks /\ changedSites = << >> /\ whole
    BY DEF Preflight, InjectInv, PathsKept, Untouched
  <1>2. UNCHANGED <<path, siteCode, blocks, wantedModules, fresh, changedSites, whole, asFound>>
    BY DEF Preflight
  <1>3. BranchesLand'
    BY <1>2 DEF InjectInv, BranchesLand, Landing
  <1>4. CASE RunEnds("refused") /\ UNCHANGED todo
    <2>1. InjectFields'
      BY <1>2, <1>4 DEF InjectInv, InjectFields, RunEnds, Phases
    <2>2. UnitReportsAreTrue' /\ FailuresUndone'
      BY <1>1, <1>2, <1>4 DEF UnitReportsAreTrue, FailuresUndone, RunEnds
    <2> QED BY <1>3, <1>4, <2>1, <2>2, NowIdle DEF RunEnds
  <1>5. CASE /\ \A m \in Wanted : Sound(m)
             /\ runStep' = "reserve"
             /\ todo' = SitesMissing("logic") \o SitesMissing("game")
    <2>1. ASSUME NEW m \in PatchedModules
          PROVE  /\ SitesMissing(m) \in Seq(AllSites)
                 /\ ToSet(SitesMissing(m)) =
                       {s \in AllSites : ModuleOf(s) = m /\ m \in Wanted /\ InstalledBlock(m) = 0}
      <3>1. CASE m \in Wanted /\ InstalledBlock(m) = 0
        <4>1. SitesMissing(m) = SitesOf(m)
          BY <3>1 DEF SitesMissing, Wanted
        <4> QED BY <3>1, <4>1, ModuleSites, SiteModule
      <3>2. CASE ~(m \in Wanted /\ InstalledBlock(m) = 0)
        <4>1. SitesMissing(m) = << >>
          BY <3>2 DEF SitesMissing, Wanted
        <4> QED BY <3>2, <4>1, EmptySet
      <3> QED BY <3>1, <3>2
    <2>2. /\ todo' \in Seq(AllSites)
          /\ ToSet(todo') = {s \in AllSites : ModuleOf(s) \in Wanted /\ InstalledBlock(ModuleOf(s)) = 0}
      <3>1. "logic" \in PatchedModules /\ "game" \in PatchedModules /\ PatchedModules = {"logic", "game"}
        BY DEF PatchedModules
      <3>2. /\ todo' \in Seq(AllSites)
            /\ ToSet(todo') = ToSet(SitesMissing("logic")) \cup ToSet(SitesMissing("game"))
        BY <1>5, <2>1, <3>1, JoinedSet
      <3> QED BY <2>1, <3>1, <3>2, SiteModule
    <2>3. InjectFields'
      BY <1>2, <1>5, <2>2 DEF InjectInv, InjectFields, Phases
    <2>4. \A m \in PatchedModules : InstalledBlock(m)' = InstalledBlock(m) /\ Sound(m)' = Sound(m)
      BY <1>2, InstalledSame DEF Sound, Agrees
    <2>5. Wanted' = Wanted /\ Wanted \subseteq PatchedModules
      BY <1>2, WantedModules DEF Wanted, InjectInv
    <2>6. FreshOnly("reserved")'
      <3>1. \A m \in PatchedModules : fresh'[m] = 0
        BY <1>1, <1>2 DEF NoBlocks
      <3> QED BY <1>1, <1>2, <3>1 DEF FreshOnly, FreshBlocks
    <2>7. Reserving'
      <3>1. \A m \in Wanted : Sound(m)'
        BY <1>5, <2>4, <2>5
      <3>2. \A m \in PatchedModules : fresh'[m] = 0
        BY <1>1, <1>2 DEF NoBlocks
      <3>3. ToSet(todo)' = {s \in AllSites : ModuleOf(s) \in Wanted' /\ InstalledBlock(ModuleOf(s))' = 0}
        BY <2>2, <2>4, <2>5, SiteModule DEF ToSet
      <3> QED BY <2>5, <2>6, <3>1, <3>2, <3>3 DEF Reserving
    <2>8. PathsKept' /\ Untouched' /\ Changing' /\ Placing'
      BY <1>1, <1>2, <1>5 DEF PathsKept, Untouched, Changing, Placing
    <2>9. UnitReportsAreTrue' /\ FailuresUndone'
      BY <1>5, StillRunning
    <2> QED BY <1>3, <2>3, <2>7, <2>8, <2>9 DEF InjectInv
  <1> QED BY <1>4, <1>5 DEF Preflight, Wanted

(* The blocks of a run that fails before its first hook are given back. *)
LEMMA Released ==
    ASSUME InjectInv, NEW state, FreshOnly(state), path = "units", siteCode = asFound.code,
           Release(FreshBlocks), RunEnds("failed"), UNCHANGED <<path, siteCode, fresh, runVars>>
    PROVE  InjectInv'
  <1>1. blocks' = asFound.blocks
    <2>1. blocks' = [b \in BlockIds |-> IF b \in FreshBlocks THEN "free" ELSE blocks[b]]
      BY DEF Release
    <2>2. \A b \in BlockIds : blocks'[b] = asFound.blocks[b]
      BY <2>1 DEF FreshOnly, FreshBlocks
    <2>3. asFound.blocks \in [BlockIds -> BlockStates]
      BY DEF InjectInv, InjectFields
    <2> QED BY <2>1, <2>2, <2>3
  <1>2. InjectFields'
    BY <1>1 DEF InjectInv, InjectFields, RunEnds, runVars, Phases
  <1>3. BranchesLand'
    BY <1>1 DEF InjectInv, BranchesLand, Landing, runVars
  <1>4. UnitReportsAreTrue' /\ FailuresUndone'
    BY <1>1 DEF UnitReportsAreTrue, FailuresUndone, RunEnds, runVars
  <1> QED BY <1>2, <1>3, <1>4, NowIdle DEF RunEnds

LEMMA Reserved == ASSUME InjectInv, Reserve PROVE InjectInv'
  <1>1. /\ runStep = "reserve" /\ path = "units" /\ siteCode = asFound.code /\ changedSites = << >> /\ whole
        /\ FreshOnly("reserved")
    BY DEF Reserve, InjectInv, PathsKept, Untouched, Reserving
  <1>2. UNCHANGED <<path, siteCode, runVars>> /\ NeedsBlock # {}
    BY DEF Reserve
  <1>3. CASE Release(Registered) /\ RunEnds("failed") /\ UNCHANGED fresh
    BY <1>1, <1>2, <1>3, Released DEF Registered
  <1>4. ASSUME NEW m \in NeedsBlock, NEW b \in FreeBlocks,
               blocks' = [blocks EXCEPT ![b] = "reserved"], fresh' = [fresh EXCEPT ![m] = b],
               UNCHANGED <<runStep, runResult>>
        PROVE  InjectInv'
    <2>1. m \in PatchedModules /\ m \in Wanted /\ InstalledBlock(m) = 0 /\ fresh[m] = 0
      BY WantedModules DEF NeedsBlock, Wanted, InjectInv
    <2>2. b \in BlockIds /\ blocks[b] = "free" /\ b # 0
      BY BlocksAreNumbers DEF FreeBlocks
    <2>3. InjectFields'
      BY <1>2, <1>4, <2>1, <2>2 DEF InjectInv, InjectFields, runVars, BlockStates
    <2>4. /\ fresh'[m] = b /\ \A n \in PatchedModules : n # m => fresh'[n] = fresh[n]
          /\ blocks'[b] = "reserved" /\ \A c \in BlockIds : c # b => blocks'[c] = blocks[c]
      BY <1>4, <2>1, <2>2 DEF InjectInv, InjectFields
    <2>5. asFound.blocks[b] = "free"
      BY <1>1, <2>2 DEF FreshOnly, FreshBlocks
    <2>6. FreshOnly("reserved")'
      <3>1. ASSUME NEW n \in PatchedModules, fresh'[n] # 0
            PROVE  blocks'[fresh'[n]] = "reserved" /\ asFound'.blocks[fresh'[n]] = "free"
        <4>1. fresh[n] \in {0} \cup BlockIds
          BY DEF InjectInv, InjectFields
        <4> QED BY <1>1, <1>2, <2>2, <2>4, <2>5, <3>1, <4>1 DEF FreshOnly, runVars
      <3>2. ASSUME NEW c \in BlockIds, c \notin FreshBlocks'
            PROVE  blocks'[c] = asFound'.blocks[c]
        <4>1. c # b
          BY <2>1, <2>2, <2>4, <3>2 DEF FreshBlocks
        <4>2. c \notin FreshBlocks
          BY <2>1, <2>4, <3>2 DEF FreshBlocks
        <4> QED BY <1>1, <1>2, <2>4, <4>1, <4>2 DEF FreshOnly, runVars
      <3> QED BY <3>1, <3>2 DEF FreshOnly
    <2>7. BranchesLand'
      BY <1>2, <2>2, <2>4 DEF InjectInv, BranchesLand, Landing, runVars
    <2>8. Wanted' = Wanted /\ Wanted \subseteq PatchedModules
      BY <1>2, WantedModules DEF Wanted, InjectInv, runVars
    <2>9. \A n \in PatchedModules : InstalledBlock(n)' = InstalledBlock(n) /\ FirstTaken(n)' = FirstTaken(n)
      BY <1>2, InstalledSame
    <2>10. \A n \in Wanted : Sound(n)'
      <3>1. ASSUME NEW n \in Wanted PROVE Sound(n)'
        <4>1. Sound(n) /\ n \in PatchedModules
          BY <1>1, <2>8 DEF InjectInv, Reserving
        <4>2. CASE FirstTaken(n) = 0
          BY <1>2, <2>9, <4>1, <4>2 DEF Sound
        <4>3. CASE FirstTaken(n) # 0
          <5>1. InstalledBlock(n) # 0 /\ Agrees(n, InstalledBlock(n)) /\ InstalledBlock(n) \in BlockIds
            BY <4>1, <4>3, SoundModule DEF Sound, InjectInv
          <5>2. blocks'[InstalledBlock(n)] = "written"
            BY <2>2, <2>4, <5>1 DEF Agrees
          <5> QED BY <1>2, <2>9, <4>1, <4>3, <5>1, <5>2 DEF Sound, Agrees
        <4> QED BY <4>2, <4>3
      <3> QED BY <3>1
    <2>11. Reserving'
      <3>1. \A n \in PatchedModules : fresh'[n] # 0 => n \in Wanted' /\ InstalledBlock(n)' = 0
        BY <1>1, <2>1, <2>4, <2>8, <2>9 DEF InjectInv, Reserving
      <3>2. ToSet(todo)' = {s \in AllSites : ModuleOf(s) \in Wanted' /\ InstalledBlock(ModuleOf(s))' = 0}
        BY <1>1, <1>2, <2>8, <2>9, SiteModule DEF InjectInv, Reserving, runVars
      <3> QED BY <2>6, <2>8, <2>10, <3>1, <3>2 DEF Reserving
    <2>12. PathsKept' /\ Untouched' /\ Changing' /\ Placing'
      BY <1>1, <1>2, <1>4 DEF PathsKept, Untouched, Changing, Placing, runVars
    <2>13. UnitReportsAreTrue' /\ FailuresUndone'
      BY <1>1, <1>4, StillRunning
    <2> QED BY <2>3, <2>7, <2>11, <2>12, <2>13 DEF InjectInv
  <1>5. NeedsBlock \subseteq {"logic", "game"}
    BY WantedModules DEF NeedsBlock, PatchedModules, Wanted, InjectInv
  <1>6. (IF "logic" \in NeedsBlock THEN "logic" ELSE "game") \in NeedsBlock
    BY <1>2, <1>5
  <1>7. FreeBlocks # {} => (CHOOSE b \in FreeBlocks : \A c \in FreeBlocks : b <= c) \in FreeBlocks
    BY BlocksAreNumbers, SmallestExists DEF FreeBlocks
  <1> QED BY <1>3, <1>4, <1>6, <1>7 DEF Reserve

LEMMA PayloadsWritten == ASSUME InjectInv, WritePayloads PROVE InjectInv'
  <1>1. /\ runStep = "reserve" /\ path = "units" /\ siteCode = asFound.code /\ changedSites = << >> /\ whole
        /\ FreshOnly("reserved")
    BY DEF WritePayloads, InjectInv, PathsKept, Untouched, Reserving
  <1>2. UNCHANGED <<path, siteCode, fresh, runVars>> /\ NeedsBlock = {}
    BY DEF WritePayloads
  <1>3. CASE Release(FreshBlocks) /\ RunEnds("failed")
    BY <1>1, <1>2, <1>3, Released
  <1>4. CASE /\ blocks' = [b \in BlockIds |-> IF b \in FreshBlocks THEN "written" ELSE blocks[b]]
             /\ runStep' = "hook"
    <2>1. InjectFields'
      BY <1>2, <1>4 DEF InjectInv, InjectFields, runVars, BlockStates, Phases
    <2>2. FreshBlocks' = FreshBlocks /\ \A m \in PatchedModules : fresh[m] # 0 => fresh[m] \in FreshBlocks \cap BlockIds
      BY <1>2 DEF FreshBlocks, InjectInv, InjectFields
    <2>3. FreshOnly("written")'
      <3>1. \A m \in PatchedModules : fresh'[m] # 0 =>
                blocks'[fresh'[m]] = "written" /\ asFound'.blocks[fresh'[m]] = "free"
        BY <1>1, <1>2, <1>4, <2>2 DEF FreshOnly, runVars
      <3>2. \A b \in BlockIds \ FreshBlocks' : blocks'[b] = asFound'.blocks[b]
        BY <1>1, <1>2, <1>4, <2>2 DEF FreshOnly, runVars
      <3> QED BY <3>1, <3>2 DEF FreshOnly
    <2>4. \A b \in BlockIds : blocks[b] = "written" => blocks'[b] = "written"
      BY <1>4
    <2>5. BranchesLand'
      BY <1>2, <2>4 DEF InjectInv, BranchesLand, Landing, runVars
    <2>6. Wanted' = Wanted /\ Wanted \subseteq PatchedModules
      BY <1>2, WantedModules DEF Wanted, InjectInv, runVars
    <2>7. /\ \A m \in Wanted : Sound(m) /\ (InstalledBlock(m) = 0 => fresh[m] # 0)
          /\ \A m \in PatchedModules : fresh[m] # 0 => m \in Wanted /\ InstalledBlock(m) = 0
          /\ ToSet(todo) = {s \in AllSites : ModuleOf(s) \in Wanted /\ InstalledBlock(ModuleOf(s)) = 0}
      BY <1>1, <1>2 DEF InjectInv, Reserving, NeedsBlock, Wanted
    <2>8. \A s \in ToSet(todo) : fresh[ModuleOf(s)] # 0 /\ asFound.code[s] = Stock
      <3>1. ASSUME NEW s \in ToSet(todo) PROVE fresh[ModuleOf(s)] # 0 /\ asFound.code[s] = Stock
        <4>1. /\ s \in AllSites /\ ModuleOf(s) \in Wanted /\ InstalledBlock(ModuleOf(s)) = 0
              /\ ModuleOf(s) \in PatchedModules /\ s \in ToSet(SitesOf(ModuleOf(s)))
          BY <2>7, <3>1, SiteModule
        <4> QED BY <1>1, <2>7, <4>1, SoundModule DEF InjectInv
      <3> QED BY <3>1
    <2>9. ASSUME NEW m \in Wanted
          PROVE  \E b \in BlockIds :
                    /\ blocks'[b] = "written" /\ fresh[m] \in {0, b}
                    /\ \A s \in ToSet(SitesOf(m)) \ ToSet(todo) : siteCode[s] = Placed(s, b)
      <3>1. m \in PatchedModules /\ Sound(m)
        BY <2>6, <2>7
      <3>2. CASE InstalledBlock(m) = 0
        <4>1. fresh[m] # 0 /\ fresh[m] \in BlockIds /\ blocks'[fresh[m]] = "written"
          BY <2>2, <2>7, <3>1, <3>2, <1>4
        <4>2. ToSet(SitesOf(m)) \subseteq ToSet(todo)
          BY <2>7, <3>1, <3>2, ModuleSites
        <4> QED BY <4>1, <4>2
      <3>3. CASE InstalledBlock(m) # 0
        <4>1. InstalledBlock(m) \in BlockIds /\ Agrees(m, InstalledBlock(m)) /\ fresh[m] = 0
          BY <2>7, <3>1, <3>3, SoundModule DEF InjectInv
        <4> QED BY <2>4, <4>1 DEF Agrees
      <3> QED BY <3>2, <3>3
    <2>10. Changing'
      <3>1. \A s \in ToSet(todo)' \cup ToSet(changedSites)' : asFound'.code[s] = Stock
        BY <1>1, <1>2, <2>8, EmptySet DEF runVars
      <3>2. whole' /\ \A s \in AllSites : siteCode'[s] = asFound'.code[s]
        BY <1>1, <1>2 DEF runVars
      <3>3. \A s \in ToSet(todo)' : fresh'[ModuleOf(s)] # 0
        BY <1>2, <2>8 DEF runVars
      <3>4. \A m \in Wanted' : \E b \in BlockIds :
                /\ blocks'[b] = "written" /\ fresh'[m] \in {0, b}
                /\ \A s \in ToSet(SitesOf(m)) \ ToSet(todo)' : siteCode'[s] = Placed(s, b)
        BY <1>2, <2>6, <2>9 DEF runVars
      <3> QED BY <2>3, <3>1, <3>2, <3>3, <3>4 DEF Changing
    <2>11. PathsKept' /\ Untouched' /\ Reserving' /\ Placing'
      BY <1>1, <1>2, <1>4 DEF PathsKept, Untouched, Reserving, Placing
    <2>12. UnitReportsAreTrue' /\ FailuresUndone'
      BY <1>4, StillRunning
    <2> QED BY <2>1, <2>5, <2>10, <2>11, <2>12 DEF InjectInv
  <1> QED BY <1>3, <1>4 DEF WritePayloads

(* A site that a write may have changed. *)
LEMMA SiteWritten ==
    ASSUME InjectInv, NEW s \in AllSites, NEW now \in SiteBytes,
           NEW bytes \in {siteCode[s], Torn, now}, siteCode' = [siteCode EXCEPT ![s] = bytes],
           now.is = "branch" => now.block \in BlockIds /\ blocks[now.block] = "written",
           UNCHANGED <<blocks, asFound>>
    PROVE  siteCode' \in [AllSites -> SiteBytes] /\ BranchesLand'
  <1>1. siteCode \in [AllSites -> SiteBytes] /\ bytes \in SiteBytes
    BY PlainBytes DEF InjectInv, InjectFields
  <1>2. bytes.is = "branch" => bytes.block \in BlockIds /\ blocks[bytes.block] = "written"
    BY PlainBytes DEF InjectInv, BranchesLand, Landing
  <1>3. siteCode'[s] = bytes /\ \A t \in AllSites : t # s => siteCode'[t] = siteCode[t]
    BY <1>1
  <1>4. siteCode' \in [AllSites -> SiteBytes]
    BY <1>1
  <1>5. BranchesLand'
    BY <1>2, <1>3 DEF InjectInv, BranchesLand, Landing
  <1> QED BY <1>4, <1>5

LEMMA FreshSame ==
    ASSUME FreshOnly("written"), UNCHANGED <<blocks, fresh, asFound>>
    PROVE  FreshOnly("written")'
  BY DEF FreshOnly, FreshBlocks

LEMMA HookWritten == ASSUME InjectInv, WriteHook PROVE InjectInv'
  <1> DEFINE s == Head(todo)
             now == Placed(s, fresh[ModuleOf(s)])
  <1>1. /\ runStep = "hook" /\ path = "units" /\ whole /\ FreshOnly("written")
        /\ \A t \in ToSet(todo) \cup ToSet(changedSites) : asFound.code[t] = Stock
        /\ \A t \in AllSites \ ToSet(changedSites) : siteCode[t] = asFound.code[t]
        /\ \A t \in ToSet(todo) : fresh[ModuleOf(t)] # 0
    BY DEF WriteHook, InjectInv, PathsKept, Changing
  <1>2. UNCHANGED <<path, blocks, fresh, wantedModules, whole, runResult, asFound>> /\ todo # << >>
    BY DEF WriteHook
  <1>3. /\ s \in AllSites /\ s \in ToSet(todo) /\ Tail(todo) \in Seq(AllSites)
        /\ ToSet(todo) = {s} \cup ToSet(Tail(todo))
    BY <1>2, HeadAndTail DEF InjectInv, InjectFields
  <1>4. changedSites' = Append(changedSites, s)
    BY DEF WriteHook
  <1>5. changedSites' \in Seq(AllSites) /\ ToSet(changedSites)' = ToSet(changedSites) \cup {s}
    <2>1. changedSites' \in Seq(AllSites) /\ ToSet(changedSites') = ToSet(changedSites) \cup {s}
      BY <1>3, <1>4, AppendedSet DEF InjectInv, InjectFields
    <2> QED BY <2>1
  <1>6. /\ ModuleOf(s) \in PatchedModules /\ fresh[ModuleOf(s)] \in BlockIds /\ fresh[ModuleOf(s)] # 0
        /\ blocks[fresh[ModuleOf(s)]] = "written"
    BY <1>1, <1>3, SiteModule DEF InjectInv, InjectFields, FreshOnly
  <1>7. now \in SiteBytes /\ (now.is = "branch" => now.block \in BlockIds /\ blocks[now.block] = "written")
    <2> DEFINE b == fresh[ModuleOf(s)]
    <2>1. b \in {0} \cup BlockIds
      BY <1>6
    <2>2. Placed(s, b) \in SiteBytes /\ (Placed(s, b).is = "branch" => Placed(s, b).block = b)
      <3> HIDE DEF b, s
      <3> QED BY <2>1, PlacedTyped
    <2> QED BY <1>6, <2>2
  <1>8. \/ /\ siteCode' = [siteCode EXCEPT ![s] = now] /\ todo' = Tail(todo) /\ UNCHANGED runStep
        \/ /\ \E bytes \in {siteCode[s], Torn, now} : siteCode' = [siteCode EXCEPT ![s] = bytes]
           /\ runStep' = "undo" /\ UNCHANGED todo
    BY DEF WriteHook, FailedWrite
  <1> HIDE DEF s, now
  <1>9. PICK bytes \in {siteCode[s], Torn, now} : siteCode' = [siteCode EXCEPT ![s] = bytes]
    BY <1>8
  <1>10. siteCode' \in [AllSites -> SiteBytes] /\ BranchesLand'
    BY <1>2, <1>3, <1>7, <1>9, SiteWritten
  <1>11. \A t \in AllSites : t # s => siteCode'[t] = siteCode[t]
    BY <1>9 DEF InjectInv, InjectFields
  <1>12. InjectFields'
    BY <1>2, <1>3, <1>5, <1>8, <1>10 DEF InjectInv, InjectFields, Phases
  <1>13. FreshOnly("written")'
    BY <1>1, <1>2, FreshSame
  <1>14. ToSet(todo)' \subseteq ToSet(todo)
    BY <1>3, <1>8
  <1>15. /\ \A t \in ToSet(todo)' \cup ToSet(changedSites)' : asFound'.code[t] = Stock
         /\ \A t \in AllSites \ ToSet(changedSites)' : siteCode'[t] = asFound'.code[t]
    BY <1>1, <1>2, <1>3, <1>5, <1>11, <1>14
  <1>16. Changing'
    <2>1. CASE runStep' = "undo"
      BY <2>1, <1>13, <1>15 DEF Changing
    <2>2. CASE siteCode' = [siteCode EXCEPT ![s] = now] /\ todo' = Tail(todo) /\ UNCHANGED runStep
      <3>1. \A t \in ToSet(todo)' : fresh'[ModuleOf(t)] # 0
        BY <1>1, <1>2, <1>14
      <3>2. Wanted' = Wanted /\ Wanted \subseteq PatchedModules
        BY <1>2, WantedModules DEF Wanted, InjectInv
      <3>3. ASSUME NEW m \in Wanted
            PROVE  \E b \in BlockIds :
                      /\ blocks'[b] = "written" /\ fresh'[m] \in {0, b}
                      /\ \A t \in ToSet(SitesOf(m)) \ ToSet(todo)' : siteCode'[t] = Placed(t, b)
        <4>1. PICK b \in BlockIds :
                /\ blocks[b] = "written" /\ fresh[m] \in {0, b}
                /\ \A t \in ToSet(SitesOf(m)) \ ToSet(todo) : siteCode[t] = Placed(t, b)
          BY <1>1 DEF InjectInv, Changing
        <4>2. ASSUME NEW t \in ToSet(SitesOf(m)), t \notin ToSet(todo)'
              PROVE  siteCode'[t] = Placed(t, b)
          <5>1. t \in AllSites /\ ModuleOf(t) = m
            BY <3>2, ModuleSites
          <5>2. CASE t = s
            <6>1. fresh[m] = b
              BY <4>1, <5>1, <5>2, <1>6
            <6>2. siteCode'[s] = now
              BY <2>2, <1>3 DEF InjectInv, InjectFields
            <6> QED BY <5>1, <5>2, <6>1, <6>2 DEF now
          <5>3. CASE t # s
            <6>1. t \notin ToSet(todo)
              BY <1>3, <2>2, <4>2, <5>3
            <6> QED BY <1>11, <4>1, <5>1, <5>3, <6>1
          <5> QED BY <5>2, <5>3
        <4> QED BY <1>2, <4>1, <4>2
      <3> QED BY <1>1, <1>2, <1>13, <1>15, <2>2, <3>1, <3>2, <3>3 DEF Changing
    <2> QED BY <1>8, <2>1, <2>2
  <1>17. PathsKept' /\ Untouched' /\ Reserving' /\ Placing'
    BY <1>1, <1>2, <1>8 DEF PathsKept, Untouched, Reserving, Placing
  <1>18. UnitReportsAreTrue' /\ FailuresUndone'
    BY <1>1, <1>8, StillRunning
  <1> QED BY <1>10, <1>12, <1>16, <1>17, <1>18 DEF InjectInv

LEMMA HookUndone == ASSUME InjectInv, UndoHook PROVE InjectInv'
  <1> DEFINE s == Last(changedSites)
  <1>1. /\ runStep = "undo" /\ path = "units" /\ FreshOnly("written")
        /\ \A t \in ToSet(todo) \cup ToSet(changedSites) : asFound.code[t] = Stock
        /\ whole => \A t \in AllSites \ ToSet(changedSites) : siteCode[t] = asFound.code[t]
    BY DEF UndoHook, InjectInv, PathsKept, Changing
  <1>2. /\ UNCHANGED <<path, blocks, runStep, fresh, wantedModules, todo, runResult, asFound>>
        /\ changedSites # << >> /\ changedSites' = Front(changedSites)
    BY DEF UndoHook
  <1>3. \/ siteCode' = [siteCode EXCEPT ![s] = Stock] /\ UNCHANGED whole
        \/ whole' = FALSE /\ UNCHANGED siteCode
    BY DEF UndoHook
  <1>4. /\ s \in AllSites /\ s \in ToSet(changedSites) /\ changedSites' \in Seq(AllSites)
        /\ ToSet(changedSites) = {s} \cup ToSet(changedSites)'
    <2>1. /\ s \in AllSites /\ s \in ToSet(changedSites) /\ Front(changedSites) \in Seq(AllSites)
          /\ ToSet(changedSites) = {s} \cup ToSet(Front(changedSites))
      BY <1>2, FrontAndLast DEF InjectInv, InjectFields
    <2> QED BY <1>2, <2>1
  <1> HIDE DEF s
  <1>5. siteCode' \in [AllSites -> SiteBytes] /\ BranchesLand'
    <2>1. CASE siteCode' = [siteCode EXCEPT ![s] = Stock]
      BY <1>2, <1>4, <2>1, PlainBytes, SiteWritten
    <2>2. CASE UNCHANGED siteCode
      BY <1>2, <2>2 DEF InjectInv, InjectFields, BranchesLand, Landing
    <2> QED BY <1>3, <2>1, <2>2
  <1>6. InjectFields'
    BY <1>2, <1>4, <1>5 DEF InjectInv, InjectFields
  <1>7. \A t \in ToSet(todo)' \cup ToSet(changedSites)' : asFound'.code[t] = Stock
    BY <1>1, <1>2, <1>4
  <1>8. whole' => \A t \in AllSites \ ToSet(changedSites)' : siteCode'[t] = asFound'.code[t]
    <2>1. CASE siteCode' = [siteCode EXCEPT ![s] = Stock] /\ UNCHANGED whole
      <3>1. siteCode'[s] = Stock /\ \A t \in AllSites : t # s => siteCode'[t] = siteCode[t]
        BY <1>4, <2>1 DEF InjectInv, InjectFields
      <3> QED BY <1>1, <1>2, <1>4, <2>1, <3>1
    <2> QED BY <1>3, <2>1
  <1>9. Changing'
    BY <1>1, <1>2, <1>7, <1>8, FreshSame DEF Changing
  <1>10. PathsKept' /\ Untouched' /\ Reserving' /\ Placing'
    BY <1>1, <1>2 DEF PathsKept, Untouched, Reserving, Placing
  <1>11. UnitReportsAreTrue' /\ FailuresUndone'
    BY <1>1, <1>2, StillRunning
  <1> QED BY <1>5, <1>6, <1>9, <1>10, <1>11 DEF InjectInv

LEMMA UndoEnded == ASSUME InjectInv, UndoEnds PROVE InjectInv'
  <1>1. /\ runStep = "undo" /\ path = "units" /\ FreshOnly("written") /\ changedSites = << >>
        /\ whole => \A t \in AllSites : siteCode[t] = asFound.code[t]
    BY EmptySet DEF UndoEnds, InjectInv, PathsKept, Changing
  <1>2. UNCHANGED <<path, siteCode, fresh, runVars>>
    BY DEF UndoEnds
  <1>3. CASE whole
    <2>1. siteCode = asFound.code
      BY <1>1, <1>3 DEF InjectInv, InjectFields
    <2> QED BY <1>1, <1>2, <1>3, <2>1, Released DEF UndoEnds, KeepsBlocks
  <1>4. CASE ~whole
    <2>1. blocks' = blocks /\ runStep' = "idle" /\ runResult' = "rollback failed"
      BY <1>4 DEF UndoEnds, KeepsBlocks, Release, RunEnds, InjectInv, InjectFields
    <2>2. InjectFields'
      BY <1>2, <2>1 DEF InjectInv, InjectFields, runVars, Phases
    <2>3. BranchesLand'
      BY <1>2, <2>1 DEF InjectInv, BranchesLand, Landing, runVars
    <2>4. UnitReportsAreTrue' /\ FailuresUndone'
      BY <2>1 DEF UnitReportsAreTrue, FailuresUndone
    <2> QED BY <2>1, <2>2, <2>3, <2>4, NowIdle
  <1> QED BY <1>3, <1>4

LEMMA UnitsPatched == ASSUME InjectInv, UnitsDone PROVE InjectInv'
  <1>1. /\ runStep = "hook" /\ todo = << >> /\ UNCHANGED <<path, siteCode, blocks, fresh, runVars>>
        /\ runStep' = "idle" /\ runResult' \in {"already patched", "patched"}
    BY DEF UnitsDone, RunEnds
  <1>2. InjectFields'
    BY <1>1 DEF InjectInv, InjectFields, runVars, Phases
  <1>3. BranchesLand'
    BY <1>1 DEF InjectInv, BranchesLand, Landing, runVars
  <1>4. PatchedWhole'
    <2>1. \A m \in Wanted : \E b \in BlockIds :
             blocks[b] = "written" /\ \A s \in ToSet(SitesOf(m)) : siteCode[s] = Placed(s, b)
      BY <1>1, EmptySet DEF InjectInv, Changing
    <2> QED BY <1>1, <2>1 DEF PatchedWhole, Wanted, runVars
  <1>5. UnitReportsAreTrue' /\ FailuresUndone'
    BY <1>1, <1>4 DEF UnitReportsAreTrue, FailuresUndone
  <1> QED BY <1>1, <1>2, <1>3, <1>5, NowIdle

-----------------------------------------------------------------------------
(* A step of the descriptor patch, whose own promise is that branches land. *)
LEMMA DescriptorKept ==
    ASSUME InjectInv, path = "descriptor", InjectFields',
           UNCHANGED <<path, asFound>>, Landing(siteCode', blocks'), Placing',
           runStep' \in {"idle", "logic", "logic block", "logic write", "game", "game block", "game write"}
    PROVE  InjectInv'
  <1>1. BranchesLand'
    BY DEF InjectInv, BranchesLand, Landing
  <1>2. PathsKept' /\ Untouched' /\ Reserving' /\ Changing'
    BY DEF PathsKept, Untouched, Reserving, Changing
  <1>3. UnitReportsAreTrue' /\ FailuresUndone'
    BY DEF UnitReportsAreTrue, FailuresUndone
  <1> QED BY <1>1, <1>2, <1>3 DEF InjectInv

LEMMA LogicChecked == ASSUME InjectInv, CheckLogic PROVE InjectInv'
  <1>1. path = "descriptor" /\ UNCHANGED <<path, siteCode, blocks, wantedModules, fresh, changedSites, whole, asFound>>
    BY DEF CheckLogic, InjectInv, PathsKept
  <1>2. \/ runStep' = "idle" /\ UNCHANGED todo
        \/ /\ runStep' = "logic block"
           /\ todo' = (IF BlockDone THEN << >> ELSE Branches["logic"]) \o Edits["logic"]
    BY DEF CheckLogic, RunEnds
  <1>3. todo' \in Seq(AllSites)
    <2>1. (IF BlockDone THEN << >> ELSE Branches["logic"]) \in Seq(AllSites) /\ Edits["logic"] \in Seq(AllSites)
      BY ModuleSites, EmptySet DEF PatchedModules
    <2>2. ((IF BlockDone THEN << >> ELSE Branches["logic"]) \o Edits["logic"]) \in Seq(AllSites)
      BY <2>1, JoinedSet
    <2> QED BY <1>2, <2>2 DEF InjectInv, InjectFields
  <1>4. InjectFields'
    BY <1>1, <1>2, <1>3 DEF InjectInv, InjectFields, Phases
  <1>5. Landing(siteCode', blocks') /\ Placing'
    BY <1>1, <1>2 DEF InjectInv, BranchesLand, Landing, Placing
  <1> QED BY <1>1, <1>2, <1>4, <1>5, DescriptorKept

LEMMA GameChecked == ASSUME InjectInv, CheckGame PROVE InjectInv'
  <1>1. path = "descriptor" /\ UNCHANGED <<path, siteCode, blocks, wantedModules, fresh, changedSites, whole, asFound>>
    BY DEF CheckGame, InjectInv, PathsKept
  <1>2. \/ runStep' = "idle" /\ UNCHANGED todo
        \/ runStep' = "game block" /\ todo' = Branches["game"]
    BY DEF CheckGame, RunEnds
  <1>3. todo' \in Seq(AllSites)
    BY <1>2, ModuleSites DEF InjectInv, InjectFields, PatchedModules
  <1>4. InjectFields'
    BY <1>1, <1>2, <1>3 DEF InjectInv, InjectFields, Phases
  <1>5. Landing(siteCode', blocks') /\ Placing'
    BY <1>1, <1>2 DEF InjectInv, BranchesLand, Landing, Placing
  <1> QED BY <1>1, <1>2, <1>4, <1>5, DescriptorKept

LEMMA BlockPlaced ==
    ASSUME InjectInv, NEW m \in PatchedModules,
           PlaceBlock(m, IF m = "logic" THEN "logic block" ELSE "game block",
                         IF m = "logic" THEN "logic write" ELSE "game write")
    PROVE  InjectInv'
  <1> DEFINE next == IF m = "logic" THEN "logic write" ELSE "game write"
  <1>1. path = "descriptor" /\ UNCHANGED <<path, siteCode, runVars>>
    BY DEF PlaceBlock, InjectInv, PathsKept
  <1>2. ASSUME NEW n \in PatchedModules, next = (IF n = "logic" THEN "logic write" ELSE "game write")
        PROVE  n = m
    <2>1. n \in {"logic", "game"} /\ m \in {"logic", "game"}
      BY DEF PatchedModules
    <2>2. CASE m = "logic"
      BY <1>2, <2>1, <2>2
    <2>3. CASE m = "game"
      BY <1>2, <2>1, <2>3
    <2> QED BY <2>1, <2>2, <2>3
  <1>3. CASE /\ \A s \in ToSet(todo) : ~IsBranch(s)
             /\ runStep' = next /\ UNCHANGED <<blocks, fresh>>
    <2>1. InjectFields'
      BY <1>1, <1>3 DEF InjectInv, InjectFields, runVars, Phases
    <2>2. Landing(siteCode', blocks')
      BY <1>1, <1>3 DEF InjectInv, BranchesLand, Landing
    <2>3. Placing'
      BY <1>1, <1>3 DEF Placing, runVars
    <2> QED BY <1>1, <1>3, <2>1, <2>2, <2>3, DescriptorKept DEF runVars
  <1>4. ASSUME NEW b \in FreeBlocks, NEW state \in {"written", "reserved"},
               blocks' = [blocks EXCEPT ![b] = state],
               \/ state = "written" /\ fresh' = [fresh EXCEPT ![m] = b] /\ runStep' = next
               \/ fresh' = fresh /\ runStep' = "idle"
        PROVE  InjectInv'
    <2>1. b \in BlockIds /\ blocks[b] = "free" /\ b # 0
      BY BlocksAreNumbers DEF FreeBlocks
    <2>2. blocks'[b] = state /\ \A c \in BlockIds : c # b => blocks'[c] = blocks[c]
      BY <1>4, <2>1 DEF InjectInv, InjectFields
    <2>3. InjectFields'
      BY <1>1, <1>4, <2>1 DEF InjectInv, InjectFields, runVars, Phases, BlockStates
    <2>4. Landing(siteCode', blocks')
      BY <1>1, <2>1, <2>2 DEF InjectInv, BranchesLand, Landing
    <2>5. Placing'
      <3>1. CASE state = "written" /\ fresh' = [fresh EXCEPT ![m] = b] /\ runStep' = next
        <4>1. fresh'[m] = b
          BY <3>1 DEF InjectInv, InjectFields
        <4>2. blocks'[fresh'[m]] = "written" /\ fresh'[m] # 0
          BY <2>1, <2>2, <3>1, <4>1
        <4> QED BY <1>2, <3>1, <4>2 DEF Placing
      <3>2. CASE runStep' = "idle"
        BY <3>2 DEF Placing
      <3> QED BY <1>4, <3>1, <3>2
    <2> QED BY <1>1, <1>4, <2>3, <2>4, <2>5, DescriptorKept DEF runVars
  <1>5. CASE runStep' = "idle" /\ UNCHANGED <<blocks, fresh>>
    <2>1. InjectFields'
      BY <1>1, <1>5 DEF InjectInv, InjectFields, runVars, Phases
    <2>2. Landing(siteCode', blocks') /\ Placing'
      BY <1>1, <1>5 DEF InjectInv, BranchesLand, Landing, Placing
    <2> QED BY <1>1, <1>5, <2>1, <2>2, DescriptorKept DEF runVars
  <1>6. FreeBlocks # {} => (CHOOSE b \in FreeBlocks : \A c \in FreeBlocks : b <= c) \in FreeBlocks
    BY BlocksAreNumbers, SmallestExists DEF FreeBlocks
  <1> QED BY <1>3, <1>4, <1>5, <1>6 DEF PlaceBlock, RunEnds

LEMMA SitePatched ==
    ASSUME InjectInv, NEW m \in PatchedModules,
           runStep = (IF m = "logic" THEN "logic write" ELSE "game write"), todo # << >>,
           LET s == Head(todo)
               now == Placed(s, fresh[m])
           IN \/ /\ siteCode' = (IF siteCode[s] = Edited THEN siteCode ELSE [siteCode EXCEPT ![s] = now])
                 /\ todo' = Tail(todo) /\ UNCHANGED <<runStep, runResult>>
              \/ /\ \E bytes \in FailedWrite(s, now) : siteCode' = [siteCode EXCEPT ![s] = bytes]
                 /\ RunEnds("failed") /\ UNCHANGED todo,
           UNCHANGED <<path, blocks, fresh, wantedModules, changedSites, whole, asFound>>
    PROVE  InjectInv'
  <1> DEFINE s == Head(todo)
             now == Placed(s, fresh[m])
  <1>1. path = "descriptor"
    BY DEF InjectInv, PathsKept
  <1>2. /\ s \in AllSites /\ s \in ToSet(todo) /\ Tail(todo) \in Seq(AllSites)
        /\ ToSet(todo) = {s} \cup ToSet(Tail(todo))
    BY HeadAndTail DEF InjectInv, InjectFields
  <1>3. now \in SiteBytes /\ (now.is = "branch" => now.block \in BlockIds /\ blocks[now.block] = "written")
    <2>1. fresh[m] \in {0} \cup BlockIds
      BY DEF InjectInv, InjectFields
    <2>2. IsBranch(s) => fresh[m] # 0 /\ blocks[fresh[m]] = "written"
      BY <1>2 DEF InjectInv, Placing
    <2> QED BY <2>1, <2>2, PlacedTyped
  <1>4. \/ siteCode' = siteCode
        \/ \E bytes \in {siteCode[s], Torn, now} : siteCode' = [siteCode EXCEPT ![s] = bytes]
    BY DEF FailedWrite
  <1>5. (todo' = Tail(todo) /\ runStep' = runStep) \/ (runStep' = "idle" /\ todo' = todo)
    BY DEF RunEnds
  <1> HIDE DEF s, now
  <1>6. siteCode' \in [AllSites -> SiteBytes] /\ BranchesLand'
    <2>1. CASE siteCode' = siteCode
      BY <2>1 DEF InjectInv, InjectFields, BranchesLand, Landing
    <2>2. ASSUME NEW bytes \in {siteCode[s], Torn, now}, siteCode' = [siteCode EXCEPT ![s] = bytes]
          PROVE  siteCode' \in [AllSites -> SiteBytes] /\ BranchesLand'
      BY <1>2, <1>3, <2>2, SiteWritten
    <2> QED BY <1>4, <2>1, <2>2
  <1>7. InjectFields'
    BY <1>2, <1>5, <1>6 DEF InjectInv, InjectFields, Phases
  <1>8. Placing'
    <2>1. ToSet(todo)' \subseteq ToSet(todo)
      BY <1>2, <1>5
    <2> QED BY <1>5, <2>1 DEF InjectInv, Placing
  <1>9. runStep' \in {"idle", "logic write", "game write"}
    BY <1>5
  <1>10. Landing(siteCode', blocks')
    BY <1>6 DEF BranchesLand, Landing
  <1> QED BY <1>1, <1>7, <1>8, <1>9, <1>10, DescriptorKept

LEMMA ModulePatched ==
    ASSUME InjectInv, path = "descriptor", runStep' \in {"idle", "game"},
           UNCHANGED <<path, siteCode, todo, blocks, fresh, wantedModules, changedSites, asFound>>
    PROVE  InjectInv'
  <1>1. InjectFields'
    BY DEF InjectInv, InjectFields, Phases
  <1>2. Landing(siteCode', blocks') /\ Placing'
    BY DEF InjectInv, BranchesLand, Landing, Placing
  <1> QED BY <1>1, <1>2, DescriptorKept

LEMMA SitesWritten ==
    ASSUME InjectInv,
           \/ WriteSite("logic", "logic write", LogicDone)
           \/ WriteSite("game", "game write", RunEnds("patched"))
    PROVE  InjectInv'
  <1>1. path = "descriptor"
    BY DEF InjectInv, PathsKept, WriteSite
  <1>2. CASE WriteSite("logic", "logic write", LogicDone) /\ todo = << >>
    BY <1>1, <1>2, ModulePatched DEF WriteSite, LogicDone, RunEnds
  <1>3. CASE WriteSite("game", "game write", RunEnds("patched")) /\ todo = << >>
    BY <1>1, <1>3, ModulePatched DEF WriteSite, RunEnds
  <1>4. CASE WriteSite("logic", "logic write", LogicDone) /\ todo # << >>
    BY <1>4, SitePatched DEF WriteSite, PatchedModules
  <1>5. CASE WriteSite("game", "game write", RunEnds("patched")) /\ todo # << >>
    BY <1>5, SitePatched DEF WriteSite, PatchedModules
  <1> QED BY <1>2, <1>3, <1>4, <1>5

LEMMA InjectStutters == ASSUME InjectInv, UNCHANGED injectVars PROVE InjectInv'
  <1>1. InjectFields' /\ PathsKept' /\ BranchesLand' /\ Untouched'
    BY DEF InjectInv, InjectFields, PathsKept, BranchesLand, Landing, Untouched, injectVars
  <1>2. Reserving'
    <2>1. \A m \in PatchedModules : InstalledBlock(m)' = InstalledBlock(m)
      BY InstalledSame DEF injectVars
    <2>2. \A m \in PatchedModules : Sound(m)' = Sound(m)
      BY InstalledSame DEF Sound, Agrees, injectVars
    <2>3. Wanted' = Wanted /\ Wanted \subseteq PatchedModules
      BY WantedModules DEF InjectInv, Wanted, injectVars
    <2>4. FreshOnly("reserved")' = FreshOnly("reserved")
      BY DEF FreshOnly, FreshBlocks, injectVars
    <2>5. CASE runStep = "reserve"
      <3>1. \A s \in AllSites : InstalledBlock(ModuleOf(s))' = InstalledBlock(ModuleOf(s))
        BY <2>1, SiteModule
      <3> QED BY <2>1, <2>2, <2>3, <2>4, <2>5, <3>1 DEF InjectInv, Reserving, injectVars
    <2> QED BY <2>5 DEF Reserving, injectVars
  <1>3. Changing' /\ Placing'
    <2>1. FreshOnly("written")' = FreshOnly("written") /\ Wanted' = Wanted
      BY DEF FreshOnly, FreshBlocks, Wanted, injectVars
    <2>2. Changing'
      BY <2>1 DEF InjectInv, Changing, injectVars
    <2> QED BY <2>2 DEF InjectInv, Placing, injectVars
  <1>4. UnitReportsAreTrue' /\ FailuresUndone'
    BY DEF InjectInv, UnitReportsAreTrue, PatchedWhole, FailuresUndone, injectVars
  <1> QED BY <1>1, <1>2, <1>3, <1>4 DEF InjectInv

LEMMA InjectKept == ASSUME InjectInv, [InjectNext]_injectVars PROVE InjectInv'
  <1>1. ASSUME NEW withGame \in BOOLEAN, Run(withGame) PROVE InjectInv'
    BY <1>1, RunStarts
  <1>2. CASE Close
    BY <1>2, Closed
  <1>3. CASE UnitStep
    BY <1>3, Preflown, Reserved, PayloadsWritten, HookWritten, HookUndone, UndoEnded, UnitsPatched DEF UnitStep
  <1>4. CASE DescriptorStep
    <2>1. CASE PlaceBlock("logic", "logic block", "logic write") \/ PlaceBlock("game", "game block", "game write")
      BY <2>1, BlockPlaced DEF PatchedModules
    <2> QED BY <1>4, <2>1, LogicChecked, GameChecked, SitesWritten DEF DescriptorStep
  <1>5. CASE UNCHANGED injectVars
    BY <1>5, InjectStutters
  <1> QED BY <1>1, <1>2, <1>3, <1>4, <1>5 DEF InjectNext

(* Whatever fails and wherever the run is closed, branches of the injector   *)
(* lead to whole code, a run of units reports the truth, and one that is     *)
(* refused or fails leaves the game's code and memory as it met them.        *)
THEOREM InjectorIsSound ==
    InjectSpec => [](InjectTypeOK /\ LiveBranchesLand /\ UnitReportsAreTrue /\ FailuresUndone)
  <1>1. InjectInit => InjectInv
    BY InjectInitially
  <1>2. InjectInv /\ [InjectNext]_injectVars => InjectInv'
    BY InjectKept
  <1>3. InjectInv => InjectTypeOK /\ LiveBranchesLand /\ UnitReportsAreTrue /\ FailuresUndone
    BY InjectSuffices
  <1> QED BY <1>1, <1>2, <1>3, PTL DEF InjectSpec

-----------------------------------------------------------------------------
(* Wherever the loader's parts are put together: memory near the game's code *)
(* is given once and reaches its hint; a branch of the injector leads to     *)
(* whole code, its reports are true and its failures undone; the copies of   *)
(* the units are apart, paired with their build, and of the version linked.  *)
THEOREM PatchingIsSound == Spec => []PatchingSound
  <1> DEFINE Inv == NearInv /\ InjectInv /\ UnitsInv
  <1>1. Init => Inv
    BY NearInitially, InjectInitially, UnitsInitially DEF Init
  <1>2. Inv /\ [Next]_vars => Inv'
    <2> SUFFICES ASSUME Inv, [Next]_vars PROVE Inv'
      OBVIOUS
    <2>1. [NearNext]_nearVars /\ [InjectNext]_injectVars /\ [UnitsNext]_unitVars
      BY DEF Next, vars, HooksPart, NearPart, PlanPart, ConfigPart, FeaturesPart, TracePart,
             InjectPart, LaunchPart, UnitsPart, CrashPart
    <2> QED BY <2>1, NearKept, InjectKept, UnitsKept
  <1>3. Inv => PatchingSound
    BY InjectSuffices, UnitsSuffice DEF NearInv, PatchingSound
  <1> QED BY <1>1, <1>2, <1>3, PTL DEF Spec
=============================================================================
