------------------------------- MODULE Hooks -------------------------------
(***************************************************************************)
(* The registry of hooks and byte patches (hooks.rs) over executable       *)
(* memory (code.rs). The loader's thread runs plugins' inits, commits or   *)
(* discards what they staged and takes a plugin's hooks out; another       *)
(* thread may unhook a target through the API at any time. The INSTALLED   *)
(* lock is held while code is written, so one write job runs at a time.    *)
(*                                                                         *)
(* A byte of code is "stock", a plugin (that plugin's replacement) or      *)
(* "foreign", written by code that does not go through the loader.         *)
(* Freezing the other threads is Threads' subject; here it succeeds,       *)
(* fails, or finds a thread inside the span.                               *)
(***************************************************************************)
EXTENDS Integers, Sequences, SequencesExt

CONSTANTS
    Plugins, Legacy,    \* plugins, and those whose hooks are not staged
    Requests,           \* [at, len, kind]: an entry, a call or plain bytes
    PageSize,           \* bytes of code with one protection
    MaxAllocations,     \* requests made in all (a bound of the model)
    MaxForeign          \* writes made without the loader (a bound)

ASSUME HookPluginsAssumption ==
    Legacy \subseteq Plugins /\ {"stock", "foreign"} \cap Plugins = {}
ASSUME HookRequestsAssumption ==
    \A r \in Requests : r.at \in Nat /\ r.len \in Nat \ {0}
                      /\ r.kind \in {"entry", "call", "bytes"}
ASSUME HookBoundsAssumption ==
    PageSize \in Nat \ {0} /\ MaxAllocations \in Nat /\ MaxForeign \in Nat

Span(r) == r.at .. (r.at + r.len - 1)
Code == UNION {Span(r) : r \in Requests}
PageOf(a) == a \div PageSize
PagesOf(r) == PageOf(r.at) .. PageOf(r.at + r.len - 1)
Pages == UNION {PagesOf(r) : r \in Requests}

(* One hook: Installed, with its storage named by the number of its request. *)
Hook(o, r, n, original) ==
    [owner |-> o, req |-> r, storage |-> n, original |-> original]

VARIABLES
    codeBytes,         \* the live code
    writable,      \* pages left or made writable
    installed,     \* INSTALLED
    staged,        \* STAGED, in the order of the storage numbers
    retired,       \* RETIRED: <<owner, storage>>
    handed,        \* storage whose address a plugin was given
    freed,         \* storage that was released
    requestsMade, foreign,    \* how many so far
    loader,        \* what the loader's thread does
    job,           \* the write in progress, under the INSTALLED lock
    broken,        \* history: restoring a protection failed
    stray          \* history: a hook was dropped with its bytes in the code, or
                   \* a plugin's bytes were recorded as original

registryVars == <<installed, staged, retired>>
storageVars == <<retired, handed, freed, requestsMade>>
codeVars == <<codeBytes, writable, broken, stray>>
hooksVars == <<codeBytes, writable, registryVars, handed, freed, requestsMade, foreign,
               loader, job, broken, stray>>

NoJob == [op |-> "none"]
Idle == [at |-> "idle"]

CodeContents == Plugins \cup {"stock", "foreign"}
HookSet ==
    UNION {[owner : Plugins, req : {r}, storage : 1..requestsMade,
            original : [Span(r) -> CodeContents]] : r \in Requests}
Jobs ==
    [op : {"plan", "install", "remove"}, hooks : SUBSET HookSet, left : SUBSET HookSet,
     pages : SUBSET (HookSet \X Pages), regions : Seq([page : Pages, was : BOOLEAN]),
     phase : {"protect", "write", "undo", "restore"},
     result : {"ok", "before", "after"}, strict : BOOLEAN]
LoaderSteps ==
    [at : {"idle", "plan"}] \cup [at : {"init", "install"}, owner : Plugins]
    \cup (UNION {[at : {"call"}, owner : Plugins, req : {r},
                 bytes : [Span(r) -> CodeContents]] : r \in Requests})
    \cup [at : {"unload"}, owner : Plugins, todo : SUBSET Code]
    \cup [at : {"read"}, owner : Plugins, next : {"staged", "retired", "done"},
          found : SUBSET (1..requestsMade)]

HooksTypeOK ==
    /\ codeBytes \in [Code -> CodeContents]
    /\ writable \subseteq Pages
    /\ installed \subseteq HookSet /\ staged \subseteq HookSet
    /\ retired \subseteq Plugins \X (1..requestsMade)
    /\ handed \cup freed \subseteq 1..requestsMade
    /\ requestsMade \in 0..MaxAllocations /\ foreign \in 0..MaxForeign
    /\ loader \in LoaderSteps /\ job \in Jobs \cup {NoJob}
    /\ broken \in BOOLEAN /\ stray \in BOOLEAN

HooksInit ==
    /\ codeBytes \in [Code -> {"stock"}]
    /\ writable = {}
    /\ installed = {} /\ staged = {} /\ retired = {}
    /\ handed = {} /\ freed = {}
    /\ requestsMade = 0 /\ foreign = 0
    /\ loader = Idle /\ job = NoJob /\ broken = FALSE /\ stray = FALSE

Overlaps(h, r) == Span(h.req) \cap Span(r) # {}

----------------------------------------------------------------------------
(* A plugin's init. *)

BeginPlugin(o) ==
    /\ loader = Idle
    /\ loader' = [at |-> "init", owner |-> o]
    /\ UNCHANGED <<codeVars, installed, staged, storageVars, foreign, job>>

EndPlugin ==
    /\ loader.at = "init"
    /\ loader' = Idle
    /\ UNCHANGED <<codeVars, installed, staged, storageVars, foreign, job>>

(* A write of hooks, by commit_span or publish_transaction: the pages to    *)
(* protect and the hooks to write, both in the order of the requests.       *)
Job(op, hs) ==
    [op |-> op, hooks |-> hs, left |-> hs, phase |-> "protect",
     pages |-> {x \in hs \X Pages : x[2] \in PagesOf(x[1].req)},
     regions |-> <<>>, result |-> "ok", strict |-> TRUE]

(* staged_overlap: a plugin that stages may overlap what another staged.    *)
StagedOverlap(o, r) ==
    \E s \in staged : Overlaps(s, r) /\ (o \in Legacy \/ s.owner = o)

(* What the three kinds of request have in common: refused over what is     *)
(* installed, recorded or staged, and written at once for a legacy plugin.  *)
(* Storage that cannot be had or flushed is released before anyone saw it,  *)
(* and changes nothing.                                                     *)
Allowed(o, r) ==
    /\ requestsMade < MaxAllocations
    /\ ~\E h \in installed : Overlaps(h, r)
    /\ ~StagedOverlap(o, r)

Request(o, r, bytes) ==
    /\ job = NoJob /\ Allowed(o, r)
    /\ requestsMade' = requestsMade + 1
    /\ LET h == Hook(o, r, requestsMade + 1, bytes)
       IN \/ /\ o \in Legacy
             /\ job' = Job("install", {h})
             /\ loader' = [at |-> "install", owner |-> o]
             /\ UNCHANGED staged
          \/ /\ o \notin Legacy
             /\ staged' = staged \cup {h}
             /\ loader' = [at |-> "init", owner |-> o]
             /\ UNCHANGED job
    /\ UNCHANGED <<codeBytes, writable, broken, installed, retired, freed, foreign>>

Bytes(r) == [a \in Span(r) |-> codeBytes[a]]

(* The address of the trampoline is stored for the plugin before the branch *)
(* can be seen.                                                             *)
InstallEntry(r) ==
    /\ loader.at = "init" /\ r.kind = "entry"
    /\ Request(loader.owner, r, Bytes(r))
    /\ handed' = handed \cup {requestsMade + 1}
    /\ UNCHANGED stray

(* A call site is read before INSTALLED is locked. What another plugin      *)
(* wrote there may be a call, too.                                          *)
ReadCallSite(r) ==
    /\ loader.at = "init" /\ r.kind = "call"
    /\ loader' = [at |-> "call", owner |-> loader.owner, req |-> r, bytes |-> Bytes(r)]
    /\ UNCHANGED <<codeVars, installed, staged, storageVars, foreign, job>>

InstallCallOut ==
    /\ loader.at = "call"
    /\ \/ /\ loader.bytes[loader.req.at] # "foreign"
          /\ Request(loader.owner, loader.req, loader.bytes)
          /\ stray' = (stray \/ \E a \in Span(loader.req) : loader.bytes[a] \in Plugins)
          /\ UNCHANGED handed
       \/ /\ job = NoJob
          /\ loader.bytes[loader.req.at] = "foreign" \/ ~Allowed(loader.owner, loader.req)
          /\ loader' = [at |-> "init", owner |-> loader.owner]
          /\ UNCHANGED <<codeVars, installed, staged, storageVars, foreign, job>>

(* A byte patch names the bytes it expects; here, the stock ones. *)
PatchBytes(r) ==
    /\ loader.at = "init" /\ r.kind = "bytes"
    /\ \A a \in Span(r) : codeBytes[a] = "stock"
    /\ Request(loader.owner, r, Bytes(r))
    /\ UNCHANGED <<handed, stray>>

----------------------------------------------------------------------------
(* Writing code: commit_span for one span, publish_transaction for a plan.  *)

After(h) == [a \in Span(h.req) |-> h.owner]
Target(h) == IF job.op = "remove" THEN h.original ELSE After(h)
Put(new) == codeBytes' = [a \in Code |-> IF a \in DOMAIN new THEN new[a] ELSE codeBytes[a]]

Writing(phase) == job.op # "none" /\ job.phase = phase
NextPage(x) ==
    /\ x \in job.pages
    /\ \A y \in job.pages :
          x[1].storage < y[1].storage \/ (x[1].storage = y[1].storage /\ x[2] <= y[2])
NextHook(h) == h \in job.left /\ \A g \in job.left : h.storage <= g.storage
LastWritten(h) ==
    h \in job.hooks \ job.left /\ \A g \in job.hooks \ job.left : g.storage <= h.storage

(* protect_span, one region with its own protection at a time. *)
Protect ==
    /\ Writing("protect")
    /\ \E x \in job.pages :
          /\ NextPage(x)
          /\ \/ /\ job' = [job EXCEPT
                       !.pages = @ \ {x},
                       !.regions = Append(@, [page |-> x[2], was |-> x[2] \in writable])]
                /\ writable' = writable \cup {x[2]}
             \/ /\ job' = [job EXCEPT !.phase = "restore", !.result = "before"]
                /\ UNCHANGED writable
    /\ UNCHANGED <<codeBytes, installed, staged, storageVars, foreign, loader, broken, stray>>

(* The other threads are suspended, or not; one may be inside a span. A     *)
(* plan checks every span again. A failed commit_span is reported as        *)
(* uncommitted even when its protections cannot be restored.                *)
Freeze ==
    /\ Writing("protect") /\ job.pages = {}
    /\ \/ /\ job.op = "plan" => \A h \in job.hooks : \A a \in Span(h.req) :
                                    codeBytes[a] = h.original[a]
          /\ job' = [job EXCEPT !.phase = "write"]
       \/ job' = [job EXCEPT !.phase = "restore", !.result = "before",
                             !.strict = job.op = "plan"]
    /\ UNCHANGED <<codeVars, installed, staged, storageVars, foreign, loader>>

(* Mutant: the write whose flush failed is not undone. *)
WriteNotUndone ==
    /\ Writing("write")
    /\ \E h \in job.left :
          /\ NextHook(h)
          /\ Put(Target(h))
          /\ \/ job' = [job EXCEPT !.left = @ \ {h},
                                   !.phase = IF job.left = {h} THEN "restore" ELSE @]
             \/ /\ job.op = "plan" /\ job.left # job.hooks
                /\ job' = [job EXCEPT !.phase = "undo", !.result = "before"]
    /\ UNCHANGED <<writable, broken, stray, installed, staged, storageVars, foreign, loader>>

(* One write and its flush. A plan whose flush fails is undone. *)
WriteCode ==
    /\ Writing("write")
    /\ \E h \in job.left :
          /\ NextHook(h)
          /\ Put(Target(h))
          /\ \/ job' = [job EXCEPT !.left = @ \ {h},
                                   !.phase = IF job.left = {h} THEN "restore" ELSE @]
             \/ /\ job.op = "plan"
                /\ job' = [job EXCEPT !.left = @ \ {h}, !.phase = "undo",
                                      !.result = "before"]
             \/ /\ job.op # "plan"
                /\ job' = [job EXCEPT !.left = @ \ {h}, !.phase = "restore",
                                      !.result = "after"]
    /\ UNCHANGED <<writable, broken, stray, installed, staged, storageVars, foreign, loader>>

UndoWrite ==
    /\ Writing("undo")
    /\ \E h \in job.hooks, flushed \in BOOLEAN :
          /\ LastWritten(h)
          /\ Put(h.original)
          /\ job' = [job EXCEPT
                     !.left = @ \cup {h},
                     !.phase = IF job.left \cup {h} = job.hooks THEN "restore" ELSE @,
                     !.result = IF flushed THEN @ ELSE "after"]
    /\ UNCHANGED <<writable, broken, stray, installed, staged, storageVars, foreign, loader>>

(* restore: the last protection taken is put back first. *)
Restore ==
    /\ Writing("restore") /\ job.regions # <<>>
    /\ LET r == Last(job.regions)
       IN \/ /\ writable' = IF r.was THEN writable \cup {r.page}
                            ELSE writable \ {r.page}
             /\ job' = [job EXCEPT !.regions = Front(@)]
             /\ UNCHANGED broken
          \/ /\ job' = [job EXCEPT !.regions = Front(@),
                            !.result = IF job.strict \/ @ # "before"
                                       THEN "after" ELSE @]
             /\ broken' = TRUE
             /\ UNCHANGED writable
    /\ UNCHANGED <<codeBytes, stray, installed, staged, storageVars, foreign, loader>>

----------------------------------------------------------------------------
(* What a finished write does to the registry. *)

Ends(op) == job.op = op /\ job.phase = "restore" /\ job.regions = <<>>

Committed == job.result # "before"
NeedsCode(h) == h.req.kind # "bytes"
StorageOf(hs) == {h.storage : h \in {g \in hs : NeedsCode(g)}}

Retire(hs) == retired \cup {<<h.owner, h.storage>> : h \in {g \in hs : NeedsCode(g)}}

(* The end of commit_staged: uncommitted requests stay staged. *)
PlanEnds ==
    /\ Ends("plan")
    /\ \/ /\ Committed
          /\ installed' = installed \cup job.hooks
          /\ staged' = staged \ job.hooks
       \/ /\ ~Committed
          /\ UNCHANGED <<installed, staged>>
    /\ job' = NoJob /\ loader' = Idle
    /\ UNCHANGED <<codeVars, storageVars, foreign>>

(* The end of an immediate install: uncommitted, the plugin's pointer is    *)
(* cleared and the storage released.                                        *)
InstallEnds ==
    /\ Ends("install")
    /\ \/ /\ Committed
          /\ installed' = installed \cup job.hooks
          /\ UNCHANGED <<handed, freed>>
       \/ /\ ~Committed
          /\ handed' = handed \ StorageOf(job.hooks)
          /\ freed' = freed \cup StorageOf(job.hooks)
          /\ UNCHANGED installed
    /\ job' = NoJob /\ loader' = [at |-> "init", owner |-> loader.owner]
    /\ UNCHANGED <<codeVars, staged, retired, requestsMade, foreign>>

(* remove takes any failure but "before write" for one after the write, the *)
(* failed recovery of a protection included.                                *)
RemoveEnds ==
    /\ Ends("remove")
    /\ \/ /\ Committed
          /\ installed' = installed \ job.hooks
          /\ retired' = Retire(job.hooks)
          /\ stray' = (stray \/ job.left # {})
       \/ /\ ~Committed
          /\ UNCHANGED <<installed, retired, stray>>
    /\ job' = NoJob
    /\ UNCHANGED <<codeBytes, writable, broken, staged, handed, freed, requestsMade,
                   foreign, loader>>

----------------------------------------------------------------------------
(* commit_staged, discard_staged, remove and remove_owned_report. *)

Selected(os) == {s \in staged : s.owner \in os}

(* staged_conflicts: what the host reports, and drops owners for, before it *)
(* commits.                                                                 *)
StagedConflicts ==
    {c \in installed \X staged : Overlaps(c[1], c[2].req)} \cup
    {c \in staged \X staged : c[1].storage < c[2].storage /\ Overlaps(c[1], c[2].req)}

NoOverlap(os) ==
    /\ \A s \in Selected(os) : ~\E h \in installed : Overlaps(h, s.req)
    /\ \A s, t \in Selected(os) : s # t => ~Overlaps(s, t.req)

CommitStaged(os) ==
    /\ loader = Idle /\ job = NoJob
    /\ Selected(os) # {} /\ NoOverlap(os)
    /\ loader' = [at |-> "plan"]
    /\ job' = Job("plan", Selected(os))
    /\ UNCHANGED <<codeVars, installed, staged, storageVars, foreign>>

(* retire_staged: the storage stays mapped, its owner's init may have used it. *)
RetireStaged(hs) ==
    /\ staged' = staged \ hs
    /\ retired' = Retire(hs)
    /\ UNCHANGED <<handed, freed, requestsMade>>

DiscardStaged(os) ==
    /\ loader = Idle
    /\ Selected(os) # {}
    /\ RetireStaged(Selected(os))
    /\ UNCHANGED <<codeVars, installed, foreign, loader, job>>

(* remove: the first request at the target goes, whoever made it; if there  *)
(* is none, the hook there is taken out, under the INSTALLED lock.          *)
RemoveStaged(target) ==
    /\ job.op # "plan"
    /\ \E h \in staged :
          /\ h.req.at = target
          /\ \A g \in staged : g.req.at = target => h.storage <= g.storage
          /\ RetireStaged({h})
    /\ UNCHANGED job
RemoveInstalled(target) ==
    /\ job = NoJob
    /\ ~\E s \in staged : s.req.at = target
    /\ \E h \in installed : h.req.at = target /\ job' = Job("remove", {h})
    /\ UNCHANGED <<staged, storageVars>>

Unhook(target) ==
    /\ RemoveStaged(target) \/ RemoveInstalled(target)
    /\ UNCHANGED <<codeVars, installed, foreign, loader>>

(* remove_owned_report: what is staged goes, then the hook at each target.  *)
RemoveOwned(o) ==
    /\ loader = Idle /\ job = NoJob
    /\ RetireStaged(Selected({o}))
    /\ loader' = [at |-> "unload", owner |-> o,
                  todo |-> {h.req.at : h \in {g \in installed : g.owner = o}}]
    /\ UNCHANGED <<codeVars, installed, foreign, job>>

NothingHooked(target) ==
    /\ ~\E h \in staged \cup installed : h.req.at = target
    /\ UNCHANGED <<staged, storageVars, job>>

RemoveNext ==
    /\ loader.at = "unload" /\ job = NoJob
    /\ \E target \in loader.todo :
          /\ loader' = [at |-> "unload", owner |-> loader.owner,
                        todo |-> loader.todo \ {target}]
          /\ RemoveStaged(target) \/ RemoveInstalled(target) \/ NothingHooked(target)
    /\ UNCHANGED <<codeVars, installed, foreign>>

(* owned_code, when the hooks are out: three reads, each under its lock.    *)
Owned(hs) == {h \in hs : h.owner = loader.owner}
Reading(next, found) ==
    loader' = [at |-> "read", owner |-> loader.owner, next |-> next, found |-> found]

ReadInstalled ==
    /\ loader.at = "unload" /\ loader.todo = {} /\ job = NoJob
    /\ Reading("staged", StorageOf(Owned(installed)))
    /\ UNCHANGED <<codeVars, installed, staged, storageVars, foreign, job>>

ReadStaged ==
    /\ loader.at = "read" /\ loader.next = "staged"
    /\ Reading("retired", loader.found \cup StorageOf(Owned(staged)))
    /\ UNCHANGED <<codeVars, installed, staged, storageVars, foreign, job>>

ReadRetired ==
    /\ loader.at = "read" /\ loader.next = "retired"
    /\ Reading("done", loader.found \cup {x[2] : x \in {y \in retired : y[1] = loader.owner}})
    /\ UNCHANGED <<codeVars, installed, staged, storageVars, foreign, job>>

OwnedCodeRead ==
    /\ loader.at = "read" /\ loader.next = "done"
    /\ loader' = Idle
    /\ UNCHANGED <<codeVars, installed, staged, storageVars, foreign, job>>

(* Code is written past the loader, where no plugin's patch is and while no *)
(* thread is suspended.                                                     *)
ForeignWrite(a) ==
    /\ foreign < MaxForeign /\ codeBytes[a] = "stock"
    /\ ~\E h \in installed : a \in Span(h.req)
    /\ job # NoJob => job.phase = "protect"
    /\ codeBytes' = [codeBytes EXCEPT ![a] = "foreign"]
    /\ foreign' = foreign + 1
    /\ UNCHANGED <<writable, broken, stray, installed, staged, storageVars, loader, job>>

(* put_back_originals: the code as it was before any plugin wrote to it.    *)
Original(a) ==
    LET over == {h \in installed : a \in Span(h.req)}
    IN IF over = {} THEN codeBytes[a] ELSE (CHOOSE h \in over : TRUE).original[a]

HooksNext ==
    \/ \E o \in Plugins : BeginPlugin(o) \/ RemoveOwned(o)
    \/ EndPlugin \/ InstallCallOut
    \/ \E r \in Requests :
          InstallEntry(r) \/ ReadCallSite(r) \/ PatchBytes(r) \/ Unhook(r.at)
    \/ Protect \/ Freeze \/ WriteCode \/ UndoWrite \/ Restore
    \/ PlanEnds \/ InstallEnds \/ RemoveEnds
    \/ \E os \in SUBSET Plugins : CommitStaged(os) \/ DiscardStaged(os)
    \/ RemoveNext \/ ReadInstalled \/ ReadStaged \/ ReadRetired \/ OwnedCodeRead
    \/ \E a \in Code : ForeignWrite(a)

HooksSpec == HooksInit /\ [][HooksNext]_hooksVars

----------------------------------------------------------------------------
(* Outside a write, a plugin's bytes in the code belong to a hook of that   *)
(* plugin in the registry, so that its unload can take them out: after      *)
(* every failure in commit_span and publish_transaction too.                *)
OwnershipRetained ==
    job = NoJob =>
        \A a \in Code : codeBytes[a] \in Plugins =>
            \E h \in installed : h.owner = codeBytes[a] /\ a \in Span(h.req)

(* That holds, but for two ways to a stray byte: a removal drops a hook it  *)
(* did not take out, when its second region cannot be protected nor its     *)
(* first restored; and a call site is unhooked between its reading and the  *)
(* lock, so that the other plugin's call is recorded as original.           *)
PatchesOwned == ~stray => OwnershipRetained

(* No byte of code has two owners, though requests of different plugins may *)
(* be staged over each other.                                               *)
OneOwnerPerByte ==
    \A g, h \in installed : g # h => Span(g.req) \cap Span(h.req) = {}

(* A write that reports "not committed" left none of its bytes behind.      *)
UncommittedLeavesNothing ==
    ~stray /\ job.op \in {"plan", "install"} /\ job.phase = "restore" /\ job.result = "before"
        => \A h \in job.hooks : \A a \in Span(h.req) : codeBytes[a] # h.owner

(* Storage whose address a plugin holds is never released. *)
HandedStorageMapped == handed \cap freed = {}

(* Outside a write, pages have their protection back unless restoring it    *)
(* failed: spans of one transaction may share a page.                       *)
ProtectionRestored == job = NoJob /\ ~broken => writable = {}

(* owned_code finds all storage through which the plugin's code may still   *)
(* be reached, although its hooks move between the lists meanwhile.         *)
OwnedCodeComplete ==
    loader.at = "read" /\ loader.next = "done"
        => /\ StorageOf(Owned(installed \cup staged)) \subseteq loader.found
           /\ \A x \in retired : x[1] = loader.owner => x[2] \in loader.found

(* Whatever was installed, undone or taken out before, original::read shows *)
(* a plugin code in which no other plugin's bytes appear, so that what it   *)
(* validates does not depend on who started first.                          *)
OriginalViewClean ==
    job = NoJob /\ ~stray => \A a \in Code : Original(a) \notin Plugins

(* A plan that commit_staged refuses for an overlap is one whose owners     *)
(* staged_conflicts names, so the host that drops them is left with a plan  *)
(* that can be committed.                                                   *)
RefusalExplained ==
    \A os \in SUBSET Plugins :
        NoOverlap(os) \/ \E c \in StagedConflicts : c[2].owner \in os

(* The patched code is owned, whole and accounted for.                      *)
HooksSound ==
    /\ HooksTypeOK /\ PatchesOwned /\ OneOwnerPerByte /\ UncommittedLeavesNothing
    /\ HandedStorageMapped /\ ProtectionRestored /\ OwnedCodeComplete /\ OriginalViewClean
    /\ RefusalExplained
=============================================================================
