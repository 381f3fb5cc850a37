------------------------------ MODULE Injector ------------------------------
(***************************************************************************)
(* The injector's direct-patch mode: it writes assembled code into a game  *)
(* that is already running (injector/src/main.rs, builds.rs, and in        *)
(* crates/core unit_apply.rs, compat/apply.rs, compat/install.rs).         *)
(*                                                                         *)
(* Two installers share the mode.  A supported pair of DLLs gets units,    *)
(* installed by a transaction over both modules; any other gets the        *)
(* descriptor patch, one module after the other.  A run may be closed      *)
(* between two of its writes, a write may fail without effect, half way,   *)
(* or after its bytes are there (when the protection cannot be put back),  *)
(* and the user may run the injector again.                                *)
(***************************************************************************)
EXTENDS Naturals, Sequences, FiniteSets, SequencesExt

CONSTANTS
    Branches,   \* per module, the sites that get a branch into the block, in write order
    Edits,      \* per module, the sites edited in place, in write order
    Foreign,    \* the sites another patch may hold when the game is first met
    MaxRuns     \* bound: runs of the injector

PatchedModules == {"logic", "game"}

ASSUME SitesAreListed ==
    /\ MaxRuns \in Nat
    /\ \A m \in PatchedModules :
          Branches[m] \in Seq(ToSet(Branches[m])) /\ Edits[m] \in Seq(ToSet(Edits[m]))
    /\ \A m \in PatchedModules : IsInjective(Branches[m] \o Edits[m])
    /\ ToSet(Branches["logic"] \o Edits["logic"]) \cap ToSet(Branches["game"] \o Edits["game"]) = {}

SitesOf(m) == Branches[m] \o Edits[m]
AllSites == UNION {ToSet(SitesOf(m)) : m \in PatchedModules}
ModuleOf(s) == CHOOSE m \in PatchedModules : s \in ToSet(SitesOf(m))
IsBranch(s) == s \in ToSet(Branches[ModuleOf(s)])
BlockIds == 1..(2 * MaxRuns)

(* What a site holds: its own bytes, another patch's, a half-written one,   *)
(* the edited bytes, or a branch into one of the injector's blocks.         *)
Stock == [is |-> "stock", block |-> 0]
Other == [is |-> "foreign", block |-> 0]
Torn == [is |-> "torn", block |-> 0]
Edited == [is |-> "edited", block |-> 0]
Branch(b) == [is |-> "branch", block |-> b]
Placed(s, b) == IF IsBranch(s) THEN Branch(b) ELSE Edited

VARIABLES
    path,       \* the installer the DLL pair selects: "units" or "descriptor"
    siteCode,       \* what each site holds
    blocks,     \* each block: "free", "reserved" (mapped and zero) or "written"
    wantedModules,     \* the modules of this run, in order
    runStep,         \* where the run is
    fresh,      \* the block this run reserved for a module, or 0
    todo,       \* the sites still to write
    changedSites,    \* the sites written, newest last
    whole,      \* whether every restoration so far took
    runResult,     \* how the last run ended
    asFound,     \* ghost: code and blocks when the run began
    runs

injectVars == <<path, siteCode, blocks, wantedModules, runStep, fresh, todo, changedSites, whole, runResult, asFound, runs>>
runVars == <<wantedModules, todo, changedSites, whole, asFound, runs>>

NoBlocks == [m \in PatchedModules |-> 0]

(***************************************************************************)
(* builds::select: the pair of hashes.  A DLL is of a supported layout, of *)
(* the build the descriptor was written for or a verified one, or unknown. *)
(***************************************************************************)
Layouts == {"layout1", "layout2"}
Builds == Layouts \cup {"reference", "verified", "unknown"}
Select(logic, game) ==
    CASE logic = game /\ logic \in Layouts -> "units"
      [] logic = game /\ logic \notin Layouts -> "descriptor"
      [] OTHER -> "refused"

InjectInit ==
    /\ \E logic, game \in Builds : path = Select(logic, game)
    /\ \E held \in SUBSET Foreign : siteCode = [s \in AllSites |-> IF s \in held THEN Other ELSE Stock]
    /\ blocks = [b \in BlockIds |-> "free"]
    /\ wantedModules = << >> /\ runStep = "idle" /\ fresh = NoBlocks /\ todo = << >> /\ changedSites = << >>
    /\ whole = TRUE /\ runResult = "none" /\ asFound = [code |-> siteCode, blocks |-> blocks] /\ runs = 0

(* --no-game leaves the second module out.                                  *)
Run(withGame) ==
    /\ runStep = "idle" /\ runs < MaxRuns
    /\ runs' = runs + 1
    /\ asFound' = [code |-> siteCode, blocks |-> blocks]
    /\ wantedModules' = IF withGame THEN <<"logic", "game">> ELSE <<"logic">>
    /\ fresh' = NoBlocks /\ todo' = << >> /\ changedSites' = << >> /\ whole' = TRUE
    /\ IF path = "refused" THEN runStep' = "idle" /\ runResult' = "refused"
       ELSE runStep' = (IF path = "units" THEN "preflight" ELSE "logic") /\ runResult' = "running"
    /\ UNCHANGED <<path, siteCode, blocks>>

(* The console is closed, at any point: what is in the game stays there.    *)
Close ==
    /\ runStep # "idle"
    /\ runStep' = "idle" /\ runResult' = "closed"
    /\ UNCHANGED <<path, siteCode, blocks, fresh, runVars>>

RunEnds(outcome) == runStep' = "idle" /\ runResult' = outcome
Release(ids) == blocks' = [b \in BlockIds |-> IF b \in ids THEN "free" ELSE blocks[b]]
FreshBlocks == {fresh[m] : m \in PatchedModules} \ {0}
FreeBlocks == {b \in BlockIds : blocks[b] = "free"}

(***************************************************************************)
(* unit_apply::apply                                                       *)
(***************************************************************************)
(* installed_block: the first branch site that is not stock tells whether   *)
(* the hooks are this installer's, and all of them must then agree.         *)
FirstTaken(m) == SelectInSeq(Branches[m], LAMBDA s : siteCode[s] # Stock)

Agrees(m, b) == blocks[b] = "written" /\ \A s \in ToSet(SitesOf(m)) : siteCode[s] = Placed(s, b)

InstalledBlock(m) == IF FirstTaken(m) = 0 THEN 0 ELSE siteCode[Branches[m][FirstTaken(m)]].block

Sound(m) ==
    IF FirstTaken(m) = 0
    THEN \A s \in ToSet(SitesOf(m)) : siteCode[s] = Stock
    ELSE InstalledBlock(m) # 0 /\ Agrees(m, InstalledBlock(m))

SitesMissing(m) == IF m \in ToSet(wantedModules) /\ InstalledBlock(m) = 0 THEN SitesOf(m) ELSE << >>

Preflight ==
    /\ runStep = "preflight"
    /\ IF \A m \in ToSet(wantedModules) : Sound(m)
       THEN /\ runStep' = "reserve" /\ UNCHANGED runResult
            /\ todo' = SitesMissing("logic") \o SitesMissing("game")
       ELSE RunEnds("refused") /\ UNCHANGED todo
    /\ UNCHANGED <<path, siteCode, blocks, wantedModules, fresh, changedSites, whole, asFound, runs>>

(* Mutant: a block is registered for release only once it is linked. *)
RegisteredLate == {}
(* The blocks a failure before the first hook releases.                     *)
Registered == FreshBlocks

NeedsBlock == {m \in ToSet(wantedModules) : InstalledBlock(m) = 0 /\ fresh[m] = 0}

(* Near memory, then the exports and branches of the unit: either may fail. *)
Reserve ==
    /\ runStep = "reserve" /\ NeedsBlock # {}
    /\ LET m == IF "logic" \in NeedsBlock THEN "logic" ELSE "game"
       IN \/ /\ FreeBlocks # {}
             /\ LET b == CHOOSE b \in FreeBlocks : \A c \in FreeBlocks : b <= c
                IN blocks' = [blocks EXCEPT ![b] = "reserved"] /\ fresh' = [fresh EXCEPT ![m] = b]
             /\ UNCHANGED <<runStep, runResult>>
          \/ Release(Registered) /\ RunEnds("failed") /\ UNCHANGED fresh
    /\ UNCHANGED <<path, siteCode, runVars>>

WritePayloads ==
    /\ runStep = "reserve" /\ NeedsBlock = {}
    /\ \/ /\ blocks' = [b \in BlockIds |-> IF b \in FreshBlocks THEN "written" ELSE blocks[b]]
          /\ runStep' = "hook" /\ UNCHANGED runResult
       \/ Release(FreshBlocks) /\ RunEnds("failed")
    /\ UNCHANGED <<path, siteCode, fresh, runVars>>

(* A write that fails may have had no effect, half of it, or all of it.     *)
FailedWrite(s, now) == {siteCode[s], Torn, now}

WriteHook ==
    /\ runStep = "hook" /\ todo # << >>
    /\ LET s == Head(todo)
           now == Placed(s, fresh[ModuleOf(s)])
       IN \/ /\ siteCode' = [siteCode EXCEPT ![s] = now]
             /\ changedSites' = Append(changedSites, s) /\ todo' = Tail(todo) /\ UNCHANGED runStep
          \/ /\ \E bytes \in FailedWrite(s, now) : siteCode' = [siteCode EXCEPT ![s] = bytes]
             /\ changedSites' = Append(changedSites, s) /\ runStep' = "undo" /\ UNCHANGED todo
    /\ UNCHANGED <<path, blocks, fresh, wantedModules, whole, runResult, asFound, runs>>

(* The newest write first; a restoration that fails does not stop the rest. *)
UndoHook ==
    /\ runStep = "undo" /\ changedSites # << >>
    /\ \/ siteCode' = [siteCode EXCEPT ![Last(changedSites)] = Stock] /\ UNCHANGED whole
       \/ whole' = FALSE /\ UNCHANGED siteCode
    /\ changedSites' = Front(changedSites)
    /\ UNCHANGED <<path, blocks, runStep, fresh, wantedModules, todo, runResult, asFound, runs>>

KeepsBlocks == ~whole

UndoEnds ==
    /\ runStep = "undo" /\ changedSites = << >>
    /\ Release(IF KeepsBlocks THEN {} ELSE FreshBlocks)
    /\ RunEnds(IF whole THEN "failed" ELSE "rollback failed")
    /\ UNCHANGED <<path, siteCode, fresh, runVars>>

UnitsDone ==
    /\ runStep = "hook" /\ todo = << >>
    /\ RunEnds(IF FreshBlocks = {} THEN "already patched" ELSE "patched")
    /\ UNCHANGED <<path, siteCode, blocks, fresh, runVars>>

UnitStep == Preflight \/ Reserve \/ WritePayloads \/ WriteHook \/ UndoHook \/ UndoEnds \/ UnitsDone

(***************************************************************************)
(* compat::apply: logic.dll.  The first branch is the call of the chooser; *)
(* once it is anything but stock the block counts as installed.            *)
(***************************************************************************)
Chooser == Branches["logic"][1]
BlockDone == siteCode[Chooser] # Stock

EditsFit == \A s \in ToSet(Edits["logic"]) : siteCode[s] \in {Stock, Edited}
SitesFit(m) == \A s \in ToSet(Branches[m]) : siteCode[s] = Stock

CheckLogic ==
    /\ runStep = "logic"
    /\ IF EditsFit /\ (BlockDone \/ SitesFit("logic"))
       THEN /\ runStep' = "logic block" /\ UNCHANGED runResult
            /\ todo' = (IF BlockDone THEN << >> ELSE Branches["logic"]) \o Edits["logic"]
       ELSE RunEnds("refused") /\ UNCHANGED todo
    /\ UNCHANGED <<path, siteCode, blocks, wantedModules, fresh, changedSites, whole, asFound, runs>>

(* apply_game: every hook that is a jump counts as this patch's.            *)
CheckGame ==
    /\ runStep = "game"
    /\ CASE \A s \in ToSet(Branches["game"]) : siteCode[s] # Stock -> RunEnds("already patched") /\ UNCHANGED todo
         [] SitesFit("game") -> runStep' = "game block" /\ todo' = Branches["game"] /\ UNCHANGED runResult
         [] OTHER -> RunEnds("refused") /\ UNCHANGED todo
    /\ UNCHANGED <<path, siteCode, blocks, wantedModules, fresh, changedSites, whole, asFound, runs>>

PlaceBlock(m, at, next) ==
    /\ runStep = at
    /\ IF \A s \in ToSet(todo) : ~IsBranch(s)
       THEN runStep' = next /\ UNCHANGED <<blocks, fresh, runResult>>
       ELSE \/ /\ FreeBlocks # {}
               /\ LET b == CHOOSE b \in FreeBlocks : \A c \in FreeBlocks : b <= c
                  IN \/ /\ blocks' = [blocks EXCEPT ![b] = "written"] /\ fresh' = [fresh EXCEPT ![m] = b]
                        /\ runStep' = next /\ UNCHANGED runResult
                     \/ blocks' = [blocks EXCEPT ![b] = "reserved"] /\ RunEnds("failed") /\ UNCHANGED fresh
            \/ RunEnds("failed") /\ UNCHANGED <<blocks, fresh>>
    /\ UNCHANGED <<path, siteCode, runVars>>

(* One site after the other, an edit that is there already left out; the    *)
(* first that fails ends the run.                                           *)
WriteSite(m, at, next) ==
    /\ runStep = at
    /\ IF todo = << >> THEN next /\ UNCHANGED <<siteCode, todo>>
       ELSE LET s == Head(todo)
                now == Placed(s, fresh[m])
            IN \/ /\ siteCode' = (IF siteCode[s] = Edited THEN siteCode ELSE [siteCode EXCEPT ![s] = now])
                  /\ todo' = Tail(todo) /\ UNCHANGED <<runStep, runResult>>
               \/ /\ siteCode[s] # Edited
                  /\ \E bytes \in FailedWrite(s, now) : siteCode' = [siteCode EXCEPT ![s] = bytes]
                  /\ RunEnds("failed") /\ UNCHANGED todo
    /\ UNCHANGED <<path, blocks, fresh, wantedModules, changedSites, whole, asFound, runs>>

LogicDone ==
    IF Len(wantedModules) = 2 THEN runStep' = "game" /\ UNCHANGED runResult
    ELSE RunEnds(IF siteCode = asFound.code THEN "already patched" ELSE "patched")

DescriptorStep ==
    \/ CheckLogic \/ PlaceBlock("logic", "logic block", "logic write") \/ WriteSite("logic", "logic write", LogicDone)
    \/ CheckGame \/ PlaceBlock("game", "game block", "game write") \/ WriteSite("game", "game write", RunEnds("patched"))

InjectNext == (\E withGame \in BOOLEAN : Run(withGame)) \/ Close \/ UnitStep \/ DescriptorStep
InjectSpec == InjectInit /\ [][InjectNext]_injectVars
-----------------------------------------------------------------------------
InjectTypeOK ==
    /\ path \in {"units", "descriptor", "refused"}
    /\ \A s \in AllSites : siteCode[s].is \in {"stock", "foreign", "torn", "edited", "branch"}
    /\ blocks \in [BlockIds -> {"free", "reserved", "written"}]
    /\ ToSet(wantedModules) \subseteq PatchedModules /\ ToSet(todo) \cup ToSet(changedSites) \subseteq AllSites

(* unit_apply.rs: "payload allocations are retained if restoration fails,   *)
(* so live branches never point into freed memory": whatever failed and     *)
(* wherever the run was closed, a branch in the game leads to whole code.   *)
LiveBranchesLand == \A s \in AllSites : siteCode[s].is = "branch" => blocks[siteCode[s].block] = "written"

PatchedWhole == \A m \in ToSet(wantedModules) : \E b \in BlockIds :
                    blocks[b] = "written" /\ \A s \in ToSet(SitesOf(m)) : siteCode[s] = Placed(s, b)

(* "repeat runs verify the installed payloads and hooks": a run of units    *)
(* that reports success, also over what earlier, closed or failed runs and  *)
(* other patches left, finds every site of its modules in one block.        *)
UnitReportsAreTrue ==
    path = "units" /\ runStep = "idle" /\ runResult \in {"patched", "already patched"} => PatchedWhole

(* A run of units that is refused or fails, unless it says that its         *)
(* rollback failed, leaves the game's code and memory as it met them.       *)
FailuresUndone ==
    runStep = "idle" /\ path # "descriptor" /\ runResult \in {"refused", "failed"}
        => siteCode = asFound.code /\ blocks = asFound.blocks

=============================================================================
