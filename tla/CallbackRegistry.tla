--------------------------- MODULE CallbackRegistry ---------------------------
(***************************************************************************)
(* What the loader promises of every callback a plugin registers, whatever *)
(* the registry: threads of the game call it only while it is open, a      *)
(* closed one is not called again, and its owner's library is unmapped     *)
(* only when no thread is in the callback or bound to call it.             *)
(*                                                                         *)
(* The mission events (SessionGate) keep the promise with a lock held      *)
(* during the whole dispatch; the squad panel (SquadPanel) keeps it with a *)
(* gate and a count of the calls in flight, and no lock.                   *)
(***************************************************************************)
CONSTANTS
    Owners,     \* plugins with callbacks
    Callers     \* threads that call them

VARIABLES
    isMapped,   \* owners whose library is mapped
    isOpen,     \* owners whose callbacks may be called
    bound       \* per thread: the owners it calls or is bound to call

registryVars == <<isMapped, isOpen, bound>>

RegistryInit ==
    /\ isMapped \in SUBSET Owners /\ isOpen = isMapped
    /\ bound = [t \in Callers |-> {}]

Bound(o) == \E t \in Callers : o \in bound[t]

(* A library is mapped, and its callback may be opened with it. *)
MapOwner(o) ==
    /\ isMapped' = isMapped \cup {o}
    /\ isOpen' \in {isOpen, isOpen \cup {o}}
    /\ UNCHANGED bound

(* Callbacks close at any time; only libraries out of reach are unmapped. *)
CloseOwners ==
    /\ isOpen' \in SUBSET isOpen
    /\ isMapped' \in SUBSET isMapped
    /\ \A o \in isMapped \ isMapped' : o \notin isOpen' /\ ~Bound(o)
    /\ UNCHANGED bound

Call(t) ==
    /\ bound[t] = {}
    /\ \E S \in SUBSET isOpen : bound' = [bound EXCEPT ![t] = S]
    /\ UNCHANGED <<isMapped, isOpen>>

Return(t, o) ==
    /\ o \in bound[t]
    /\ bound' = [bound EXCEPT ![t] = @ \ {o}]
    /\ UNCHANGED <<isMapped, isOpen>>

RegistryNext ==
    \/ \E o \in Owners : MapOwner(o)
    \/ CloseOwners
    \/ \E t \in Callers : Call(t) \/ \E o \in Owners : Return(t, o)

RegistrySpec == RegistryInit /\ [][RegistryNext]_registryVars
=============================================================================
