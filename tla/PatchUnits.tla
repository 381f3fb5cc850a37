----------------------------- MODULE PatchUnits -----------------------------
(***************************************************************************)
(* Which patch units Core takes for the game's two modules, how a unit is  *)
(* moved to where its code is, and the copies of it that are linked        *)
(* (plugins/core/src/lib.rs, patch.rs; crates/core/src/scan.rs, unit.rs).  *)
(*                                                                         *)
(* A module is known by its hash.  What it really is, the layout of its    *)
(* classes and where its code went, is chosen here and seen by the code    *)
(* only through the places where a signature matches.  Core's own sites    *)
(* have one signature in every build; a feature's hold the offsets of a    *)
(* layout.  Each module has Core's unit and one feature's.                 *)
(***************************************************************************)
EXTENDS Integers, FiniteSets, Sequences

CONSTANTS
    Contents,       \* the versions of the feature's plugin that are loaded
    PoolBytes,      \* the size of a module's pool
    UnitBytes,      \* the size of a unit
    Align,          \* the alignment of a piece; 16
    MaxOtherHooks      \* bound: sites another plugin hooks

ASSUME UnitsAssumption ==
    /\ PoolBytes \in Nat /\ UnitBytes \in 1..PoolBytes /\ Align \in Nat \ {0}

VARIABLES
    hash,       \* the hash of each module's file
    truth,      \* what each module really is
    unknown,    \* allow_unknown_build
    coreState,       \* "off", "ready" or "refused"
    build,      \* the build whose units apply
    rosterSlot, \* the layout the shared game-access table is set to
    known,      \* whether the build names the modules
    copies,     \* every piece of a pool that was handed out, in order
    linked,     \* the copy each unit's name leads to
    stagedCopy,     \* the copy whose sites are staged in each module, or 0
    version,    \* the version of the feature's plugin that asked last
    hookedSites     \* the sites another plugin has hooked

unitVars == <<hash, truth, unknown, coreState, build, rosterSlot, known, copies, linked, stagedCopy, version,
              hookedSites>>

UnitModules == {"logic", "game"}

(* The sites: Core's own, and two of the feature's in one function.         *)
Sites == {"anchor", "entry", "call"}
UnitSites(unit) == IF unit = "core" THEN {"anchor"} ELSE {"entry", "call"}
SiteStart(site) == CASE site = "anchor" -> 10 [] site = "entry" -> 20 [] site = "call" -> 26
Length(site) == 4
Group(site) == IF site = "anchor" THEN 10 ELSE 20

(* The supported builds, newest variant first and the reference last.       *)
Candidates == <<"variant", "reference">>
Layout(b) == IF b = "variant" THEN "new" ELSE "old"
Signature(b, site) == <<site, IF site = "anchor" THEN "any" ELSE Layout(b)>>

Hashes == {"reference", "verified", "variant", "other"}
As(layout, moved) == [layout |-> layout, moved |-> moved, apart |-> FALSE, torn |-> FALSE,
                      gone |-> {}, twice |-> {}]
Anything ==
    {As("old", 0), As("new", 50), [As("new", 0) EXCEPT !.gone = {"anchor"}]}
        \cup [layout : {"old"}, moved : {50}, apart : BOOLEAN, torn : BOOLEAN,
              gone : {{}, {"call"}}, twice : {{}, {"entry"}}]
TruthsOf(h) == CASE h = "reference" -> {As("old", 0)} [] h = "verified" -> {As("old", 50)}
                 [] h = "variant" -> {As("new", 0)}   [] h = "other" -> Anything

UnitsInit ==
    /\ hash \in [UnitModules -> Hashes]
    /\ truth \in {t \in [UnitModules -> UNION {TruthsOf(h) : h \in Hashes}] :
                    \A m \in UnitModules : t[m] \in TruthsOf(hash[m])}
    /\ unknown \in BOOLEAN
    /\ coreState = "off" /\ build = "none" /\ rosterSlot = "old" /\ known = FALSE
    /\ copies = <<>> /\ linked = [m \in UnitModules |-> 0] /\ stagedCopy = [m \in UnitModules |-> 0]
    /\ version = [m \in UnitModules |-> "none"] /\ hookedSites = {}

(* Where a site's code is now; the two of one function may have been moved  *)
(* apart.                                                                   *)
Place(m, site) == SiteStart(site) + truth[m].moved + (IF site = "call" /\ truth[m].apart THEN 1 ELSE 0)

(* scan: a signature matches the code it was made from, unless that was     *)
(* changed, and a second copy of it.                                        *)
Matches(m, signature) ==
    LET site == signature[1]
    IN  IF site \in truth[m].gone \/ signature[2] \notin {"any", truth[m].layout} THEN {}
        ELSE {Place(m, site)} \cup (IF site \in truth[m].twice THEN {90} ELSE {})
-----------------------------------------------------------------------------
(* Moves (scan.rs)                                                          *)

Unique(found) == Cardinality(found) = 1

Delta(m, b, site) == (CHOOSE p \in Matches(m, Signature(b, site)) : TRUE) - SiteStart(site)

(* find_by: every signature once, and those of a function moved alike.      *)
Found(m, b, unit) ==
    /\ \A site \in UnitSites(unit) : Unique(Matches(m, Signature(b, site)))
    /\ \A s, t \in UnitSites(unit) : Group(s) = Group(t) => Delta(m, b, s) = Delta(m, b, t)

(* at: moved with the window that holds it, its end included.               *)
Holders(unit, rva) == {site \in UnitSites(unit) : SiteStart(site) <= rva /\ rva <= SiteStart(site) + Length(site)}
Placeable(m, b, unit, rva) ==
    /\ Holders(unit, rva) # {}
    /\ \A s, t \in Holders(unit, rva) : Delta(m, b, s) = Delta(m, b, t)
At(m, b, unit, rva) == rva + Delta(m, b, CHOOSE s \in Holders(unit, rva) : TRUE)

(* The addresses a feature's unit names: its two sites, the point behind    *)
(* the first one that its code returns to.                                  *)
Named == {20, 24, 26}

(* Unit::relocate; the calls that reached one function must still do so.    *)
Relocates(m, b, unit) ==
    /\ Found(m, b, unit)
    /\ unit = "feature" => /\ \A rva \in Named : Placeable(m, b, unit, rva)
                           /\ ~truth[m].torn
-----------------------------------------------------------------------------
(* Which build (lib.rs)                                                     *)

Verified == {"verified"}
Paired(l, g) == <<l, g>> \in {<<"reference", "reference">>, <<"verified", "verified">>}

(* The signature path is open only if neither module is a supported one.    *)
MayGuess(l, g) == unknown /\ l = "other" /\ g = "other"

Choose(l, g) ==
    IF l = "variant" /\ g = "variant" THEN "variant"
    ELSE IF Paired(l, g) THEN "reference"
    ELSE IF MayGuess(l, g) THEN "unknown" ELSE "none"

(* probe: the first candidate every one of whose units is found in both.    *)
Like(b) == \A m \in UnitModules, unit \in {"core", "feature"} : Found(m, b, unit)
BuildFor(choice) ==
    IF choice # "unknown" THEN choice
    ELSE IF Like("variant") THEN "variant" ELSE "reference"

(* needs_relocation                                                         *)
NeedsRelocation(m, b) == hash[m] # b /\ (hash[m] \in Verified \/ unknown)

Ready(m, b) ==
    /\ NeedsRelocation(m, b) => Relocates(m, b, "core")
    /\ ~NeedsRelocation(m, b) => Layout(b) = truth[m].layout /\ truth[m].moved = 0

(* Core's init: both modules resolved, anchors checked, pools taken, and    *)
(* the trace ring as the first piece of logic.dll's.                        *)
InitCore ==
    /\ coreState = "off"
    /\ LET choice == Choose(hash["logic"], hash["game"])
           b == BuildFor(choice)
       IN  IF choice # "none" /\ \A m \in UnitModules : Ready(m, b)
           THEN /\ coreState' = "ready" /\ build' = b /\ rosterSlot' = Layout(b)
                /\ known' = (choice # "unknown")
                /\ copies' = <<[module |-> "logic", content |-> "ring", at |-> 0, bytes |-> UnitBytes,
                                entry |-> 0]>>
           ELSE coreState' = "refused" /\ UNCHANGED <<build, rosterSlot, known, copies>>
    /\ UNCHANGED <<hash, truth, unknown, linked, stagedCopy, version, hookedSites>>
-----------------------------------------------------------------------------
(* The patch service (patch.rs)                                             *)

Pieces(m) == {i \in 1..Len(copies) : copies[i].module = m}
Used(m) == IF Pieces(m) = {} THEN 0
           ELSE LET last == copies[CHOOSE i \in Pieces(m) : \A j \in Pieces(m) : j <= i]
                IN  last.at + last.bytes

(* Pool::take                                                               *)
TakePiece(m) == ((Used(m) + Align - 1) \div Align) * Align

EntryAt(m) == IF NeedsRelocation(m, build) THEN At(m, build, "feature", 20) ELSE 20

Same(m, content) == copies[linked[m]].content = content
Kept(m, content) == IF linked[m] = 0 THEN FALSE ELSE Same(m, content)

(* link: moved if the build calls for it, and given a piece of the pool.    *)
Piece(m, content) ==
    /\ coreState = "ready" /\ stagedCopy[m] = 0 /\ ~Kept(m, content)
    /\ NeedsRelocation(m, build) => Relocates(m, build, "feature")
    /\ TakePiece(m) + UnitBytes <= PoolBytes
    /\ copies' = Append(copies, [module |-> m, content |-> content, at |-> TakePiece(m),
                                 bytes |-> UnitBytes, entry |-> EntryAt(m)])

(* A symbol the unit needs is missing: the piece stays taken.               *)
LinkFails(m, content) ==
    /\ Piece(m, content)
    /\ UNCHANGED <<hash, truth, unknown, coreState, build, rosterSlot, known, linked, stagedCopy, version, hookedSites>>

(* prepare: the copy linked last is used again if its content is the same.  *)
Linked(m, content) ==
    \/ Kept(m, content) /\ UNCHANGED <<copies, linked>>
    \/ Piece(m, content) /\ linked' = [linked EXCEPT ![m] = Len(copies')]

(* install: every site is checked before one is staged.                     *)
Intact(m) == ~\E site \in UnitSites("feature") : <<m, site>> \in hookedSites

Prepare(m, content) ==
    /\ coreState = "ready" /\ stagedCopy[m] = 0
    /\ Linked(m, content)
    /\ IF Intact(m)
       THEN /\ stagedCopy' = [stagedCopy EXCEPT ![m] = linked'[m]]
            /\ version' = [version EXCEPT ![m] = content]
       ELSE UNCHANGED <<stagedCopy, version>>
    /\ UNCHANGED <<hash, truth, unknown, coreState, build, rosterSlot, known, hookedSites>>

(* The feature is unloaded; its copy stays for the process's life.          *)
Unload(m) ==
    /\ stagedCopy[m] # 0
    /\ stagedCopy' = [stagedCopy EXCEPT ![m] = 0]
    /\ UNCHANGED <<hash, truth, unknown, coreState, build, rosterSlot, known, copies, linked, version, hookedSites>>

(* Another plugin hooks one of the sites, or lets it go.                    *)
OthersHook(m, site) ==
    /\ stagedCopy[m] = 0
    /\ \/ <<m, site>> \in hookedSites /\ hookedSites' = hookedSites \ {<<m, site>>}
       \/ <<m, site>> \notin hookedSites /\ Cardinality(hookedSites) < MaxOtherHooks
          /\ hookedSites' = hookedSites \cup {<<m, site>>}
    /\ UNCHANGED <<hash, truth, unknown, coreState, build, rosterSlot, known, copies, linked, stagedCopy,
                   version>>

UnitsNext ==
    \/ InitCore
    \/ \E m \in UnitModules : \/ \E c \in Contents : Prepare(m, c) \/ LinkFails(m, c)
                          \/ Unload(m) \/ \E site \in UnitSites("feature") : OthersHook(m, site)

UnitsSpec == UnitsInit /\ [][UnitsNext]_unitVars
-----------------------------------------------------------------------------
UnitsTypeOK ==
    /\ coreState \in {"off", "ready", "refused"} /\ build \in {"none", "variant", "reference"}
    /\ \A m \in UnitModules : linked[m] \in 0..Len(copies) /\ stagedCopy[m] \in 0..Len(copies)

(* choose: a module of a supported build is never patched beside a module   *)
(* of another one, whatever allow_unknown_build says.                       *)
RecognizedStaysPaired ==
    coreState = "ready" => hash["logic"] = hash["game"]

(* Unit::relocate, find_by: the sites staged for a feature are the code its *)
(* unit was written for, of that layout, with its function in one piece and *)
(* its calls reaching one function; a build guessed wrong is refused unit   *)
(* by unit.                                                                 *)
StagedWhereMeant ==
    \A m \in UnitModules : stagedCopy[m] # 0 =>
        /\ truth[m].layout = Layout(build)
        /\ copies[stagedCopy[m]].entry = Place(m, "entry")
        /\ ~truth[m].apart /\ ~truth[m].torn

(* Pool::take: no copy is ever put over another, since game code may still  *)
(* be returning through any of them; every one lies within its pool.        *)
CopiesDisjoint ==
    \A i, j \in 1..Len(copies) :
        /\ copies[i].at + copies[i].bytes <= PoolBytes
        /\ i < j /\ copies[i].module = copies[j].module =>
                copies[i].at + copies[i].bytes <= copies[j].at

(* What is staged is the version of the plugin that staged it: after a      *)
(* reload with other content the old copy is not entered.                   *)
StagesItsVersion ==
    \A m \in UnitModules : stagedCopy[m] # 0 => copies[stagedCopy[m]].content = version[m]

=============================================================================
