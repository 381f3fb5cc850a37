----------------------------- MODULE NearMemory -----------------------------
(***************************************************************************)
(* Executable memory within rel32 reach of the code that jumps to it       *)
(* (near.rs, and code.rs: alloc_near). Slots near the game's modules are   *)
(* reserved when a module loads, seen by the notification or by the first  *)
(* look; the game allocates around them.                                   *)
(*                                                                         *)
(* Addresses are scaled: a slot has SlotSize bytes and a rel32 spans       *)
(* Reach * SlotSize (0x10000 and 0x8000 in the code).                      *)
(***************************************************************************)
EXTENDS Integers, FiniteSets

CONSTANTS
    SlotSize, Reach,    \* see above
    SlotsHeld,          \* SLOTS: slots held per module
    Top,                \* the address space is 1..Top slots (a bound)
    Modules,            \* [base, size] of the watched modules
    Sizes,              \* sizes asked for
    MaxTakes,           \* requests (a bound)
    GameLimit           \* slots in use up to which the game takes more (a bound)

ASSUME NearAssumption ==
    /\ SlotSize \in Nat \ {0} /\ Reach \in Nat \ {0} /\ SlotsHeld \in Nat /\ Top \in Nat
    /\ Sizes \subseteq Nat \ {0}
    /\ \A m \in Modules : m.base \in Nat /\ m.size \in Nat

VARIABLES
    used,      \* slots of the address space that are not free
    heldSlots,      \* MODULES_HELD
    free,      \* FREE: reserved slots, by the address of their first byte
    given,     \* <<hint, address, size>> handed out
    spoiled    \* history: a slot was given back to the system

nearVars == <<used, heldSlots, free, given, spoiled>>

AddressSpace == {s * SlotSize : s \in 1..Top}
ModuleSlots(m) == {s \in AddressSpace : s + SlotSize > m.base /\ s < m.base + m.size}

NearTypeOK ==
    /\ used \subseteq AddressSpace /\ heldSlots \subseteq Modules
    /\ free \subseteq used
    /\ \A g \in given : g[2] \in used

NearInit ==
    /\ used = {} /\ heldSlots = {} /\ free = {} /\ given = {}
    /\ spoiled = FALSE

(* The game takes any free slot. *)
GameAllocates(s) ==
    /\ s \notin used /\ Cardinality(used) < GameLimit
    /\ used' = used \cup {s}
    /\ UNCHANGED <<heldSlots, free, given, spoiled>>

Start(m) == m.base - (m.base % SlotSize)
End(m) == LET e == m.base + m.size
          IN e + ((SlotSize - (e % SlotSize)) % SlotSize)

Above(m, i) ==
    LET at == End(m) + i * SlotSize
    IN IF at + SlotSize - m.base <= (Reach - 1) * SlotSize THEN {at} ELSE {}
Below(m, i) ==
    LET at == Start(m) - (i + 1) * SlotSize
    IN IF at > 0 /\ m.base + m.size - at <= (Reach - 1) * SlotSize THEN {at} ELSE {}

(* hold: outward from the module, the slot above before the one below, those *)
(* that can be reserved until SlotsHeld of them are.                         *)
Reservable(m) ==
    {at \in AddressSpace \ used : \E i \in 0..Reach : at \in Above(m, i) \cup Below(m, i)}
Rank(m, at) == IF at >= m.base THEN 2 * (at - End(m)) ELSE 2 * (Start(m) - SlotSize - at) + 1
Held(m) ==
    {at \in Reservable(m) :
        Cardinality({b \in Reservable(m) : Rank(m, b) < Rank(m, at)}) < SlotsHeld}

LoadModule(m) ==
    /\ m \notin heldSlots
    /\ ModuleSlots(m) \cap used = {}
    /\ heldSlots' = heldSlots \cup {m}
    /\ free' = free \cup Held(m)
    /\ used' = used \cup ModuleSlots(m) \cup Held(m)
    /\ UNCHANGED <<given, spoiled>>

Distance(a, b) == IF a >= b THEN a - b ELSE b - a

Reaches(hint, at) ==
    IF at >= hint THEN at + SlotSize - hint <= (Reach - 1) * SlotSize
    ELSE hint - at <= (Reach - 1) * SlotSize

(* take: the nearest held slot; one that cannot be committed is given back  *)
(* to the system and the next is tried.                                     *)
Nearest(hint) ==
    LET S == {at \in free : Reaches(hint, at)}
    IN {at \in S : \A b \in S : Distance(at, hint) <= Distance(b, hint)}

Remaining(at) == free \ {at}

Take(hint, size) ==
    /\ Cardinality(given) < MaxTakes
    /\ size \in 1..SlotSize
    /\ \E at \in Nearest(hint) :
          /\ free' = Remaining(at)
          /\ \/ given' = given \cup {<<hint, at, size>>} /\ UNCHANGED <<used, spoiled>>
             \/ /\ ~spoiled
                /\ used' = used \ {at} /\ spoiled' = TRUE
                /\ UNCHANGED given
    /\ UNCHANGED heldSlots

(* alloc_near, when no held slot serves: outward from the hint's own slot.  *)
AllocNear(hint, size) ==
    /\ Cardinality(given) < MaxTakes
    /\ size > SlotSize \/ Nearest(hint) = {}
    /\ LET base == hint - (hint % SlotSize)
           fits(at) == \A k \in 0..((size - 1) \div SlotSize) :
                          at + k * SlotSize \in AddressSpace \ used
           candidates == {at \in AddressSpace :
               /\ at # base /\ Distance(at, base) < Reach * SlotSize
               /\ fits(at)}
       IN \E at \in candidates :
             /\ \A b \in candidates :
                   \/ Distance(at, base) < Distance(b, base)
                   \/ Distance(at, base) = Distance(b, base) /\ at >= b
             /\ given' = given \cup {<<hint, at, size>>}
             /\ used' = used \cup {at + k * SlotSize : k \in 0..((size - 1) \div SlotSize)}
    /\ UNCHANGED <<heldSlots, free, spoiled>>

NearNext ==
    \/ \E s \in AddressSpace : GameAllocates(s)
    \/ \E m \in Modules :
          \/ LoadModule(m)
          \/ /\ m \in heldSlots
             /\ \E hint \in {m.base, m.base + m.size - 1}, size \in Sizes :
                   Take(hint, size) \/ AllocNear(hint, size)

NearSpec == NearInit /\ [][NearNext]_nearVars

----------------------------------------------------------------------------
(* Every byte of the memory that near::take and alloc_near hand out for a   *)
(* hook is within a rel32 of the code that jumps there, at either end.      *)
GivenReachable ==
    \A g \in given : g[3] <= SlotSize =>
        /\ g[2] + g[3] - g[1] <= Reach * SlotSize
        /\ g[1] - g[2] < Reach * SlotSize

(* A slot held when a module loads is within reach of every byte of some    *)
(* held module, so a hook anywhere in it can be served from there.          *)
HeldReachable ==
    \A at \in free : \E m \in heldSlots :
        /\ at + SlotSize - m.base <= Reach * SlotSize
        /\ m.base + m.size - at <= Reach * SlotSize

(* No memory is handed out twice, or while it is still held for another. *)
GivenOnce ==
    /\ \A g, h \in given : g[2] = h[2] => g = h
    /\ \A g \in given : g[2] \notin free
=============================================================================
