---------------------------- MODULE CombatProofs ----------------------------
(***************************************************************************)
(* Moving grenades, vehicle special fire and regroup.                      *)
(*                                                                         *)
(* Moving grenades: for any soldiers, orders and limits, and however hooks *)
(* nest, the plugin owns the references its maps hold, the maps stay       *)
(* within their limits, and a mark, a gate or a watch ends with its call.  *)
(*                                                                         *)
(* Vehicle special fire: for any mounts, guns, enemies and intervals,      *)
(* target handles balance, a Move is not held up by an older attack and no *)
(* gun is on two mounts.                                                   *)
(*                                                                         *)
(* And for the run's model as a whole: no step overrides an order that the *)
(* player gave (OrdersAreKept), regrouping included.                       *)
(***************************************************************************)
EXTENDS MCCombat, TLAPS, FiniteSetTheorems, SequenceTheorems,
        NaturalsInduction, WellFoundedInduction

(* moving-grenades, select and candidate. *)
Named == Guns \cup {"none"}
Watches == [gun : Named, eligible : -1..1, idle : -1..1]
Gates == [gun : Named, target : Int]
Truths == [Guns -> [eligible : -1..1, idle : -1..1]]
CallRecords ==
    [kind : {"select"}, gun : Named, was : Watches, seen : Truths, armed : Gates]
        \cup [kind : {"candidate"}, gun : Named, was : Gates, seen : Truths, armed : Gates]

(* No call of this kind among the first k. *)
NoneOf(kind, k) == \A j \in 1..k : calls[j].kind # kind

SelectTypeOK ==
    /\ selected \in Guns /\ walking \in BOOLEAN /\ aim \in Int
    /\ watch \in Watches /\ gate \in Gates /\ truth \in Truths
    /\ calls \in Seq(CallRecords)

(* The outermost call of a kind puts back that nothing was watched, and     *)
(* that no gate was armed.                                                  *)
OutermostRestores ==
    \A k \in 1..Len(calls) :
        /\ calls[k].kind = "select" /\ NoneOf("select", k - 1) => calls[k].was = NoWatch
        /\ calls[k].kind = "candidate" /\ NoneOf("candidate", k - 1) => calls[k].was = NoGate

SelectInv == SelectTypeOK /\ OutermostRestores /\ GatesAreScoped

LEMMA NothingTyped ==
    /\ NoWatch \in Watches /\ NoGate \in Gates /\ Unchecked \in Truths
    /\ Grenade \in Named /\ "none" \in Named /\ Guns \subseteq Named
BY SelectAssumption DEF NoWatch, NoGate, Unchecked, Watches, Gates, Truths, Named

(* A call begins inside the others. *)
LEMMA CallPushed ==
    ASSUME SelectInv, NEW call \in CallRecords, calls' = Append(calls, call),
           call.kind = "select" => call.was = watch /\ UNCHANGED gate,
           call.kind = "candidate" => call.was = gate /\ UNCHANGED watch
    PROVE  calls' \in Seq(CallRecords) /\ OutermostRestores' /\ GatesAreScoped'
<1>1. /\ calls \in Seq(CallRecords) /\ Len(calls) \in Nat
      /\ calls' \in Seq(CallRecords) /\ Len(calls') = Len(calls) + 1
      /\ \A k \in 1..Len(calls) : calls'[k] = calls[k]
      /\ calls'[Len(calls) + 1] = call
  BY AppendProperties DEF SelectInv, SelectTypeOK
<1>2. \A kind : NoneOf(kind, Len(calls)) =>
          (kind = "select" => watch = NoWatch) /\ (kind = "candidate" => gate = NoGate)
  BY <1>1 DEF SelectInv, GatesAreScoped, NoneOf
<1>3. ASSUME NEW k \in 1..Len(calls')
      PROVE  /\ calls'[k].kind = "select" /\ NoneOf("select", k - 1)' => calls'[k].was = NoWatch
             /\ calls'[k].kind = "candidate" /\ NoneOf("candidate", k - 1)'
                    => calls'[k].was = NoGate
  <2>1. \A kind : NoneOf(kind, k - 1)' => NoneOf(kind, k - 1)
    <3>1. \A j \in 1..(k - 1) : calls'[j] = calls[j]
      BY <1>1
    <3> QED BY <3>1 DEF NoneOf
  <2>2. CASE k \in 1..Len(calls)
    BY <1>1, <2>1, <2>2 DEF SelectInv, OutermostRestores
  <2>3. CASE k = Len(calls) + 1
    <3>1. calls'[k] = call /\ k - 1 = Len(calls)
      BY <1>1, <2>3
    <3> QED BY <1>2, <2>1, <3>1
  <2> QED BY <1>1, <2>2, <2>3
<1>4. GatesAreScoped'
  <2>1. call.kind \in {"select", "candidate"}
    BY DEF CallRecords
  <2>2. \A kind : (\A k \in DOMAIN calls' : calls'[k].kind # kind)
                      => call.kind # kind /\ \A k \in DOMAIN calls : calls[k].kind # kind
    <3>1. DOMAIN calls' = 1..(Len(calls) + 1) /\ DOMAIN calls = 1..Len(calls)
      BY <1>1
    <3> QED BY <1>1, <3>1
  <2> QED BY <2>1, <2>2 DEF SelectInv, GatesAreScoped
<1> QED BY <1>1, <1>3, <1>4 DEF OutermostRestores

(* The innermost call ends and puts back what it found. *)
LEMMA CallPopped ==
    ASSUME SelectInv, calls # <<>>, calls' = SubSeq(calls, 1, Len(calls) - 1),
           calls[Len(calls)].kind = "select" => watch' = calls[Len(calls)].was /\ UNCHANGED gate,
           calls[Len(calls)].kind = "candidate" => gate' = calls[Len(calls)].was /\ UNCHANGED watch
    PROVE  calls' \in Seq(CallRecords) /\ OutermostRestores' /\ GatesAreScoped'
<1>1. calls \in Seq(CallRecords) /\ Len(calls) \in Nat /\ Len(calls) > 0
  BY DEF SelectInv, SelectTypeOK
<1>2. PICK n, call : n = Len(calls) /\ call = calls[n]
  OBVIOUS
<1>3. /\ calls' \in Seq(CallRecords) /\ Len(calls') = n - 1
      /\ \A k \in 1..(n - 1) : calls'[k] = calls[k]
  <2>1. \A k \in 1..(n - 1) : calls[k] \in CallRecords
    BY <1>1, <1>2, ElementOfSeq
  <2>2. 1 \in Int /\ n - 1 \in Int /\ n - 1 - 1 + 1 = n - 1
        /\ (~(1 <= n - 1) => n - 1 = 0) /\ \A k \in 1..(n - 1) : 1 + k - 1 = k
    BY <1>1, <1>2
  <2>3. /\ SubSeq(calls, 1, n - 1) \in Seq(CallRecords)
        /\ Len(SubSeq(calls, 1, n - 1)) = IF 1 <= n - 1 THEN n - 1 - 1 + 1 ELSE 0
        /\ \A k \in 1..(n - 1 - 1 + 1) : SubSeq(calls, 1, n - 1)[k] = calls[1 + k - 1]
    BY <2>1, <2>2, SubSeqProperties
  <2> QED BY <1>2, <2>2, <2>3
<1>4. call \in CallRecords /\ call.kind \in {"select", "candidate"}
  <2>1. call \in CallRecords
    BY <1>1, <1>2, ElementOfSeq
  <2> QED BY <2>1 DEF CallRecords
<1>5. OutermostRestores'
  <2> SUFFICES ASSUME NEW k \in 1..(n - 1)
               PROVE  /\ calls'[k].kind = "select" /\ NoneOf("select", k - 1)'
                             => calls'[k].was = NoWatch
                      /\ calls'[k].kind = "candidate" /\ NoneOf("candidate", k - 1)'
                             => calls'[k].was = NoGate
    BY <1>3 DEF OutermostRestores
  <2>1. \A kind : NoneOf(kind, k - 1)' => NoneOf(kind, k - 1)
    <3>1. \A j \in 1..(k - 1) : calls'[j] = calls[j]
      BY <1>1, <1>2, <1>3
    <3> QED BY <3>1 DEF NoneOf
  <2>2. k \in 1..Len(calls)
    BY <1>1, <1>2
  <2> QED BY <1>3, <2>1, <2>2 DEF SelectInv, OutermostRestores
<1>6. \A kind : (\A k \in DOMAIN calls' : calls'[k].kind # kind) => NoneOf(kind, n - 1)
  <2>1. DOMAIN calls' = 1..(n - 1)
    BY <1>3
  <2> QED BY <1>3, <2>1 DEF NoneOf
<1>7. \A kind : NoneOf(kind, n - 1) /\ call.kind # kind =>
                    \A k \in DOMAIN calls : calls[k].kind # kind
  <2>1. \A k \in DOMAIN calls : k \in 1..(n - 1) \/ k = n
    BY <1>1, <1>2
  <2> QED BY <1>2, <2>1 DEF NoneOf
<1>8. n \in 1..Len(calls)
  BY <1>1, <1>2
<1>9. CASE call.kind = "select"
  <2>1. NoneOf("select", n - 1) => call.was = NoWatch
    BY <1>2, <1>8, <1>9 DEF SelectInv, OutermostRestores
  <2>2. watch' = call.was /\ gate' = gate
    BY <1>2, <1>9
  <2>3. NoneOf("candidate", n - 1) => gate = NoGate
    BY <1>7, <1>9 DEF SelectInv, GatesAreScoped
  <2> QED BY <1>3, <1>5, <1>6, <2>1, <2>2, <2>3 DEF GatesAreScoped
<1>10. CASE call.kind = "candidate"
  <2>1. NoneOf("candidate", n - 1) => call.was = NoGate
    BY <1>2, <1>8, <1>10 DEF SelectInv, OutermostRestores
  <2>2. gate' = call.was /\ watch' = watch
    BY <1>2, <1>10
  <2>3. NoneOf("select", n - 1) => watch = NoWatch
    BY <1>7, <1>10 DEF SelectInv, GatesAreScoped
  <2> QED BY <1>3, <1>5, <1>6, <2>1, <2>2, <2>3 DEF GatesAreScoped
<1> QED BY <1>4, <1>9, <1>10

LEMMA SelectInitially ==
    ASSUME SelectInit
    PROVE  SelectInv
<1>1. SelectTypeOK
  BY NothingTyped DEF SelectInit, SelectTypeOK
<1>2. OutermostRestores /\ GatesAreScoped
  BY DEF SelectInit, OutermostRestores, GatesAreScoped
<1> QED BY <1>1, <1>2 DEF SelectInv

LEMMA SelectKept ==
    ASSUME SelectInv, [SelectNext]_selectVars
    PROVE  SelectInv'
<1> USE DEF SelectInv, SelectTypeOK
<1>1. CASE SelectBegins
  <2> DEFINE gun == IF selected = Grenade THEN Grenade ELSE "none"
             call == [kind |-> "select", gun |-> gun, was |-> watch, seen |-> truth,
                      armed |-> NoGate]
  <2>1. /\ calls' = Append(calls, call) /\ watch' = [gun |-> gun, eligible |-> -1, idle |-> -1]
        /\ truth' = Unchecked /\ UNCHANGED <<selected, walking, gate, aim>>
    BY <1>1 DEF SelectBegins
  <2>2. gun \in Named
    BY NothingTyped
  <2> HIDE DEF gun
  <2>3. call \in CallRecords /\ call.kind = "select" /\ call.was = watch
    BY <2>2, NothingTyped DEF CallRecords
  <2>4. watch' \in Watches
    BY <2>1, <2>2 DEF Watches
  <2> HIDE DEF call
  <2>5. calls' \in Seq(CallRecords) /\ OutermostRestores' /\ GatesAreScoped'
    BY <2>1, <2>3, CallPushed
  <2> QED BY <2>1, <2>4, <2>5, NothingTyped
<1>2. ASSUME NEW native \in BOOLEAN, SelectEnds(native) PROVE SelectInv'
  <2>1. PICK call : call = calls[Len(calls)]
    OBVIOUS
  <2>2. /\ calls # <<>> /\ call.kind = "select" /\ watch' = call.was /\ truth' = call.seen
        /\ calls' = SubSeq(calls, 1, Len(calls) - 1)
        /\ UNCHANGED <<selected, walking, gate, aim>>
    BY <1>2, <2>1 DEF SelectEnds
  <2>3. call \in CallRecords
    BY <2>1, <2>2, ElementOfSeq
  <2>4. call.was \in Watches /\ call.seen \in Truths
    BY <2>2, <2>3 DEF CallRecords
  <2>5. calls' \in Seq(CallRecords) /\ OutermostRestores' /\ GatesAreScoped'
    BY <2>1, <2>2, CallPopped
  <2> QED BY <2>2, <2>4, <2>5
<1>3. ASSUME NEW gun \in Guns, NEW check \in {"eligible", "idle"}, NEW yes \in 0..1,
             WeaponCheck(gun, check, yes)
      PROVE  SelectInv'
  <2>1. PICK g, e, i : watch = [gun |-> g, eligible |-> e, idle |-> i] /\ g \in Named
                       /\ e \in -1..1 /\ i \in -1..1
    BY DEF Watches
  <2>2. watch' \in Watches
    <3>1. watch' = watch \/ watch' = [watch EXCEPT ![check] = yes]
      BY <1>3 DEF WeaponCheck
    <3>2. CASE watch' = [watch EXCEPT ![check] = yes]
      <4>1. CASE check = "eligible"
        <5>1. watch' = [gun |-> g, eligible |-> yes, idle |-> i]
          BY <2>1, <3>2, <4>1
        <5> QED BY <2>1, <5>1 DEF Watches
      <4>2. CASE check = "idle"
        <5>1. watch' = [gun |-> g, eligible |-> e, idle |-> yes]
          BY <2>1, <3>2, <4>2
        <5> QED BY <2>1, <5>1 DEF Watches
      <4> QED BY <4>1, <4>2
    <3> QED BY <3>1, <3>2
  <2>3. truth' \in Truths
    <3>1. PICK e1, i1 : truth[gun] = [eligible |-> e1, idle |-> i1]
                        /\ e1 \in -1..1 /\ i1 \in -1..1
      BY DEF Truths
    <3>2. [truth[gun] EXCEPT ![check] = yes] \in [eligible : -1..1, idle : -1..1]
      <4>1. CASE check = "eligible"
        <5>1. [truth[gun] EXCEPT ![check] = yes] = [eligible |-> yes, idle |-> i1]
          BY <3>1, <4>1
        <5> QED BY <3>1, <5>1
      <4>2. CASE check = "idle"
        <5>1. [truth[gun] EXCEPT ![check] = yes] = [eligible |-> e1, idle |-> yes]
          BY <3>1, <4>2
        <5> QED BY <3>1, <5>1
      <4> QED BY <4>1, <4>2
    <3>3. truth' = [truth EXCEPT ![gun] = [truth[gun] EXCEPT ![check] = yes]]
      BY <1>3 DEF WeaponCheck
    <3>4. PICK v : v = [truth[gun] EXCEPT ![check] = yes]
      OBVIOUS
    <3> QED BY <3>2, <3>3, <3>4 DEF Truths
  <2>4. calls # <<>> /\ calls[Len(calls)].kind = "select"
        /\ UNCHANGED <<selected, walking, gate, aim, calls>>
    BY <1>3 DEF WeaponCheck
  <2>5. GatesAreScoped'
    <3>1. Len(calls) \in DOMAIN calls
      BY <2>4
    <3> QED BY <2>4, <3>1 DEF GatesAreScoped
  <2>6. OutermostRestores'
    BY <2>4 DEF OutermostRestores, NoneOf
  <2> QED BY <2>2, <2>3, <2>4, <2>5, <2>6
<1>4. CASE GameChanges
  <2>1. UNCHANGED <<watch, gate, calls, truth>>
        /\ selected' \in Guns /\ aim' \in Int
    BY <1>4 DEF GameChanges
  <2>3. walking' \in BOOLEAN
    BY <1>4, Zenon DEF GameChanges
  <2>2. OutermostRestores' /\ GatesAreScoped'
    BY <2>1 DEF OutermostRestores, NoneOf, GatesAreScoped
  <2> QED BY <2>1, <2>2, <2>3
<1>5. ASSUME NEW gun \in Guns, CandidateBegins(gun) PROVE SelectInv'
  <2>1. PICK new : new = CandidateGate(gun)
    OBVIOUS
  <2> DEFINE call == [kind |-> "candidate", gun |-> gun, was |-> gate, seen |-> truth,
                      armed |-> new]
  <2>2. /\ calls' = Append(calls, call) /\ gate' = new
        /\ UNCHANGED <<selected, walking, watch, aim, truth>>
    BY <1>5, <2>1 DEF CandidateBegins
  <2>3. new \in Gates /\ gun \in Named
    BY <2>1, NothingTyped DEF CandidateGate, Gates
  <2>4. call \in CallRecords /\ call.kind = "candidate" /\ call.was = gate
    BY <2>3 DEF CallRecords
  <2> HIDE DEF call
  <2>5. calls' \in Seq(CallRecords) /\ OutermostRestores' /\ GatesAreScoped'
    BY <2>2, <2>4, CallPushed
  <2> QED BY <2>2, <2>3, <2>5
<1>6. CASE CandidateEnds
  <2>1. PICK call : call = calls[Len(calls)]
    OBVIOUS
  <2>2. /\ calls # <<>> /\ call.kind = "candidate" /\ gate' = call.was
        /\ calls' = SubSeq(calls, 1, Len(calls) - 1)
        /\ UNCHANGED <<selected, walking, watch, aim, truth>>
    BY <1>6, <2>1 DEF CandidateEnds
  <2>3. call \in CallRecords
    BY <2>1, <2>2, ElementOfSeq
  <2>4. call.was \in Gates
    BY <2>2, <2>3 DEF CallRecords
  <2>5. calls' \in Seq(CallRecords) /\ OutermostRestores' /\ GatesAreScoped'
    BY <2>1, <2>2, CallPopped
  <2> QED BY <2>2, <2>4, <2>5
<1>7. CASE ChassisCanMove \/ UNCHANGED selectVars
  <2>1. UNCHANGED <<selected, walking, watch, gate, aim, calls, truth>>
    BY <1>7 DEF ChassisCanMove, selectVars
  <2>2. OutermostRestores' /\ GatesAreScoped'
    BY <2>1 DEF OutermostRestores, NoneOf, GatesAreScoped
  <2> QED BY <2>1, <2>2
<1> QED BY <1>1, <1>2, <1>3, <1>4, <1>5, <1>6, <1>7 DEF SelectNext
-----------------------------------------------------------------------------
(* vehicle-special-fire, targeting. *)

LEMMA RefAt ==
    ASSUME NEW r \in [Enemies -> Int], NEW t \in Targets, NEW n \in Int
    PROVE  /\ Ref(r, t, n) \in [Enemies -> Int]
           /\ \A e \in Enemies : Ref(r, t, n)[e] = IF t = e THEN r[e] + n ELSE r[e]
<1>1. CASE t = NoTarget
  BY <1>1, TargetsAssumption DEF Ref
<1>2. CASE t # NoTarget
  <2>1. t \in Enemies /\ Ref(r, t, n) = [r EXCEPT ![t] = @ + n]
    BY <1>2 DEF Ref, Targets
  <2> QED BY <2>1
<1> QED BY <1>1, <1>2

Aiming(map, e) == {m \in Mounts : map[m] = e}

(* One gun aims at something else. *)
LEMMA AimMoved ==
    ASSUME NEW map \in [Mounts -> Targets], NEW m \in Mounts, NEW t \in Targets,
           NEW new \in [Mounts -> Targets], new[m] = t,
           \A n \in Mounts \ {m} : new[n] = map[n],
           NEW e \in Enemies
    PROVE  /\ Cardinality(Aiming(map, e)) \in Nat
           /\ Cardinality(Aiming(new, e)) =
                  Cardinality(Aiming(map, e)) + (IF t = e THEN 1 ELSE 0)
                                              - (IF map[m] = e THEN 1 ELSE 0)
<1> DEFINE A == Aiming(map, e)
           B == Aiming(new, e)
<1>1. IsFiniteSet(A) /\ IsFiniteSet(B)
  BY TargetsAssumption, FS_Subset DEF Aiming
<1>2. Cardinality(A) \in Nat
  BY <1>1, FS_CardinalityType
<1>3. CASE (t = e) = (map[m] = e)
  <2>1. A = B
    BY <1>3 DEF Aiming
  <2> HIDE DEF A, B
  <2> QED BY <1>2, <1>3, <2>1 DEF A, B
<1>4. CASE t = e /\ map[m] # e
  <2>1. B = A \cup {m} /\ m \notin A
    BY <1>4 DEF Aiming
  <2>2. Cardinality(B) = Cardinality(A) + 1
    BY <1>1, <2>1, FS_AddElement
  <2> HIDE DEF A, B
  <2> QED BY <1>2, <1>4, <2>2 DEF A, B
<1>5. CASE t # e /\ map[m] = e
  <2>1. B = A \ {m} /\ m \in A
    BY <1>5 DEF Aiming
  <2>2. Cardinality(B) = Cardinality(A) - 1
    BY <1>1, <2>1, FS_RemoveElement
  <2> HIDE DEF A, B
  <2> QED BY <1>2, <1>5, <2>2 DEF A, B
<1> QED BY <1>3, <1>4, <1>5

HandlesTyped ==
    /\ shared \in Targets /\ private \in [Mounts -> Targets]
    /\ handles \in [Enemies -> Int]

(* The record of an attack that the player ordered is of an order the AI    *)
(* has had, and of an earlier one than that of a Move that came after.      *)
RecordFits ==
    /\ ai \in [attacks : BOOLEAN, order : Nat, own : BOOLEAN, deferred : BOOLEAN,
               checked : BOOLEAN]
    /\ record \in {NoRecord} \cup [target : Targets, automatic : BOOLEAN, order : Nat]
    /\ ai.attacks => ai.order >= 1
    /\ record # NoRecord /\ ~record.automatic =>
           /\ record.order <= ai.order
           /\ ai.checked => record.order # 0
           /\ ai.deferred => record.order # 0 /\ record.order < ai.order /\ ai.own

TargetsInv == HandlesTyped /\ HandlesBalanced /\ RecordFits

(* A gun's target changes: it gives back the reference of the old one.      *)
LEMMA GunMoved ==
    ASSUME HandlesTyped, HandlesBalanced, NEW m \in Mounts, NEW t \in Targets,
           private' = [private EXCEPT ![m] = t], UNCHANGED shared,
           handles' = Assigned(Ref(handles, t, 1), m, t)
    PROVE  HandlesTyped' /\ HandlesBalanced'
<1>1. PICK old : old = private[m]
  OBVIOUS
<1>2. old \in Targets
  BY <1>1 DEF HandlesTyped
<1> DEFINE taken == Ref(handles, t, 1)
<1>3. /\ taken \in [Enemies -> Int]
      /\ \A e \in Enemies : taken[e] = IF t = e THEN handles[e] + 1 ELSE handles[e]
  BY RefAt DEF HandlesTyped
<1> HIDE DEF taken
<1>4. /\ handles' \in [Enemies -> Int]
      /\ \A e \in Enemies : handles'[e] = IF old = e THEN taken[e] + (-1) ELSE taken[e]
  <2>1. handles' = Ref(taken, old, -1)
    BY <1>1 DEF Assigned, taken
  <2> QED BY <1>2, <1>3, <2>1, RefAt
<1>5. ASSUME NEW e \in Enemies
      PROVE  handles'[e] = (IF shared' = e THEN 1 ELSE 0) + Cardinality(Aiming(private, e))'
  <2>1. /\ Cardinality(Aiming(private, e)) \in Nat
        /\ Cardinality(Aiming(private', e)) =
               Cardinality(Aiming(private, e)) + (IF t = e THEN 1 ELSE 0)
                                               - (IF old = e THEN 1 ELSE 0)
    <3>1. private \in [Mounts -> Targets]
      BY DEF HandlesTyped
    <3>2. PICK new : new = [private EXCEPT ![m] = t]
      OBVIOUS
    <3>3. new \in [Mounts -> Targets] /\ new[m] = t
          /\ \A n \in Mounts \ {m} : new[n] = private[n]
      BY <3>1, <3>2
    <3>4. /\ Cardinality(Aiming(private, e)) \in Nat
          /\ Cardinality(Aiming(new, e)) =
                 Cardinality(Aiming(private, e)) + (IF t = e THEN 1 ELSE 0)
                                                 - (IF private[m] = e THEN 1 ELSE 0)
      BY <3>1, <3>3, AimMoved
    <3>5. private' = new
      BY <3>2
    <3> QED BY <1>1, <3>4, <3>5
  <2>2. handles[e] = (IF shared = e THEN 1 ELSE 0) + Cardinality(Aiming(private, e))
    BY DEF HandlesBalanced, Aiming
  <2>3. handles'[e] = handles[e] + (IF t = e THEN 1 ELSE 0) - (IF old = e THEN 1 ELSE 0)
        /\ handles[e] \in Int
    BY <1>3, <1>4 DEF HandlesTyped
  <2>4. Cardinality(Aiming(private, e))' = Cardinality(Aiming(private', e))
    BY DEF Aiming
  <2> QED BY <2>1, <2>2, <2>3, <2>4
<1>6. HandlesTyped'
  BY <1>4 DEF HandlesTyped
<1> QED BY <1>5, <1>6 DEF HandlesBalanced, Aiming

(* The gunner's target changes. *)
LEMMA SharedMoved ==
    ASSUME HandlesTyped, HandlesBalanced, NEW t \in Targets, shared' = t, UNCHANGED private,
           handles' = Ref(Ref(handles, shared, -1), t, 1)
    PROVE  HandlesTyped' /\ HandlesBalanced'
<1>1. PICK old : old = shared
  OBVIOUS
<1>2. old \in Targets
  BY <1>1 DEF HandlesTyped
<1> DEFINE left == Ref(handles, old, -1)
<1>3. /\ left \in [Enemies -> Int]
      /\ \A e \in Enemies : left[e] = IF old = e THEN handles[e] + (-1) ELSE handles[e]
  BY <1>2, RefAt DEF HandlesTyped
<1> HIDE DEF left
<1>4. /\ handles' \in [Enemies -> Int]
      /\ \A e \in Enemies : handles'[e] = IF t = e THEN left[e] + 1 ELSE left[e]
  <2>1. handles' = Ref(left, t, 1)
    BY <1>1 DEF left
  <2> QED BY <1>3, <2>1, RefAt
<1>5. ASSUME NEW e \in Enemies
      PROVE  handles'[e] = (IF t = e THEN 1 ELSE 0) + Cardinality(Aiming(private, e))
  <2>1. handles[e] = (IF old = e THEN 1 ELSE 0) + Cardinality(Aiming(private, e))
        /\ handles[e] \in Int
    BY <1>1 DEF HandlesBalanced, Aiming, HandlesTyped
  <2>2. Cardinality(Aiming(private, e)) \in Nat
    BY TargetsAssumption, FS_Subset, FS_CardinalityType DEF Aiming
  <2> QED BY <1>3, <1>4, <2>1, <2>2
<1>6. HandlesTyped'
  BY <1>4 DEF HandlesTyped
<1> QED BY <1>5, <1>6 DEF HandlesBalanced, Aiming

LEMMA CheckedFits ==
    ASSUME RecordFits, record' = CheckedRecord \/ record' = record \/ record' = NoRecord,
           UNCHANGED ai
    PROVE  RecordFits'
<1>1. record' = record \/ record' = NoRecord
  BY DEF CheckedRecord
<1> QED BY <1>1 DEF RecordFits

LEMMA RouteKeeps ==
    ASSUME HandlesTyped, HandlesBalanced, RecordFits, NEW m \in Mounts, NEW t \in Targets,
           NEW explicit, Route(m, t, explicit), UNCHANGED <<shared, ai>>
    PROVE  HandlesTyped' /\ HandlesBalanced' /\ RecordFits'
<1>1. record' = CheckedRecord \/ record' = record
  BY DEF Route
<1>2. RecordFits'
  BY <1>1, CheckedFits
<1>3. \/ UNCHANGED <<private, handles>>
      \/ private' = [private EXCEPT ![m] = t] /\ handles' = Assigned(Ref(handles, t, 1), m, t)
  BY DEF Route
<1>4. CASE UNCHANGED <<private, handles>>
  BY <1>2, <1>4 DEF HandlesTyped, HandlesBalanced
<1>5. CASE private' = [private EXCEPT ![m] = t] /\ handles' = Assigned(Ref(handles, t, 1), m, t)
  BY <1>2, <1>5, GunMoved
<1> QED BY <1>3, <1>4, <1>5

LEMMA AcquireKeeps ==
    ASSUME TargetsInv, NEW m \in Mounts, Acquire(m)
    PROVE  TargetsInv'
<1>1. UNCHANGED <<shared, ai>> /\ (record' = CheckedRecord \/ record' = record)
  BY DEF Acquire
<1>2. RecordFits'
  BY <1>1, CheckedFits DEF TargetsInv
<1>3. CASE UNCHANGED <<private, handles>>
  BY <1>1, <1>2, <1>3 DEF TargetsInv, HandlesTyped, HandlesBalanced
<1>4. CASE Retarget(m)
  <2>1. PICK t \in Targets :
            /\ private' = [private EXCEPT ![m] = t]
            /\ handles' = IF t = private[m] THEN Ref(WithOwned(t, NoTarget), t, -1)
                          ELSE Assigned(WithOwned(t, NoTarget), m, t)
    <3>1. PICK seen \in SUBSET {e \in Enemies : lives[e]},
               hit \in SUBSET {e \in Enemies : lives[e]} :
               \E picked \in seen \cup {NoTarget} :
                  \E first \in (IF seen \cap hit = {} THEN {NoTarget} ELSE seen \cap hit) :
                     LET target == Choose(m, seen, hit, picked, first)
                     IN /\ private' = [private EXCEPT ![m] = target]
                        /\ handles' = IF target = private[m]
                                      THEN Ref(WithOwned(target, picked), target, -1)
                                      ELSE Assigned(WithOwned(target, picked), m, target)
      BY <1>4 DEF Retarget
    <3>2. PICK picked \in seen \cup {NoTarget},
               first \in (IF seen \cap hit = {} THEN {NoTarget} ELSE seen \cap hit) :
               LET target == Choose(m, seen, hit, picked, first)
               IN /\ private' = [private EXCEPT ![m] = target]
                  /\ handles' = IF target = private[m]
                                THEN Ref(WithOwned(target, picked), target, -1)
                                ELSE Assigned(WithOwned(target, picked), m, target)
      BY <3>1
    <3>3. PICK target : target = Choose(m, seen, hit, picked, first)
      OBVIOUS
    <3>4. target \in Targets
      BY <3>3 DEF Choose, TargetsInv, HandlesTyped, Targets
    <3> QED BY <3>2, <3>3, <3>4 DEF WithOwned
  <2>2. handles' = Assigned(Ref(handles, t, 1), m, t)
    BY <2>1 DEF WithOwned, Assigned
  <2> QED BY <1>1, <1>2, <2>1, <2>2, GunMoved DEF TargetsInv
<1> QED BY <1>3, <1>4 DEF Acquire

LEMMA CommandKeeps ==
    ASSUME TargetsInv, NEW t \in Targets, NEW explicit \in BOOLEAN, Command(t, explicit)
    PROVE  TargetsInv'
<1>1. PICK made : made = (PassengerAboard /\ t # NoTarget)
  OBVIOUS
<1>2. /\ record' = IF made THEN [target |-> t, automatic |-> ~explicit, order |-> 0]
                   ELSE NoRecord
      /\ ai' = [attacks |-> t # NoTarget, order |-> ai.order + 1, own |-> ~explicit,
                deferred |-> FALSE, checked |-> FALSE]
      /\ shared' = t /\ handles' = Ref(Ref(handles, shared, -1), t, 1) /\ UNCHANGED private
  BY <1>1, Zenon DEF Command
<1>3. HandlesTyped' /\ HandlesBalanced'
  BY <1>2, SharedMoved DEF TargetsInv
<1>4. ai.order \in Nat
  BY DEF TargetsInv, RecordFits
<1>5. PICK order : order = ai.order + 1
  OBVIOUS
<1>6. order \in Nat /\ order >= 1
  BY <1>4, <1>5
<1>7. /\ ai'.order = order /\ ~ai'.checked /\ ~ai'.deferred
      /\ ai' \in [attacks : BOOLEAN, order : Nat, own : BOOLEAN, deferred : BOOLEAN,
                  checked : BOOLEAN]
  BY <1>2, <1>5, <1>6
<1>8. record' = NoRecord \/ record' = [target |-> t, automatic |-> ~explicit, order |-> 0]
  BY <1>2
<1>9. /\ record' \in {NoRecord} \cup [target : Targets, automatic : BOOLEAN, order : Nat]
      /\ record' # NoRecord => record'.order = 0
  <2>1. PICK mode \in BOOLEAN : mode = ~explicit
    OBVIOUS
  <2>2. record' = NoRecord \/ record' = [target |-> t, automatic |-> mode, order |-> 0]
    BY <1>8, <2>1
  <2>3. [target |-> t, automatic |-> mode, order |-> 0]
            \in [target : Targets, automatic : BOOLEAN, order : Nat]
    BY <2>1
  <2> QED BY <2>2, <2>3
<1>10. RecordFits'
  <2>1. /\ ai'.attacks => ai'.order >= 1
        /\ ~ai'.checked /\ ~ai'.deferred
    BY <1>6, <1>7
  <2>2. record' # NoRecord /\ ~record'.automatic => record'.order <= ai'.order
    BY <1>6, <1>7, <1>9
  <2>3. ai'.attacks => ai'.order >= 1
    BY <2>1
  <2> QED BY <1>7, <1>9, <2>1, <2>2, <2>3 DEF RecordFits
<1> QED BY <1>3, <1>10 DEF TargetsInv

LEMMA CheckAttackKeeps ==
    ASSUME TargetsInv, CheckAttack
    PROVE  TargetsInv'
<1>1. PICK attacks, order, own, deferred, checked :
          /\ ai = [attacks |-> attacks, order |-> order, own |-> own, deferred |-> deferred,
                   checked |-> checked]
          /\ attacks \in BOOLEAN /\ order \in Nat /\ own \in BOOLEAN /\ deferred \in BOOLEAN
          /\ checked \in BOOLEAN
  BY DEF TargetsInv, RecordFits
<1>2. attacks /\ order >= 1
  BY <1>1 DEF CheckAttack, TargetsInv, RecordFits
<1>3. /\ ai' \in {LeavesAttack, [ai EXCEPT !.checked = TRUE]}
      /\ record' \in {NoRecord, Observed}
      /\ UNCHANGED <<shared, private, handles>>
  BY DEF CheckAttack
<1>4. HandlesTyped' /\ HandlesBalanced'
  BY <1>3 DEF TargetsInv, HandlesTyped, HandlesBalanced
<1>5. /\ ai' \in [attacks : BOOLEAN, order : Nat, own : BOOLEAN, deferred : BOOLEAN,
                  checked : BOOLEAN]
      /\ ai'.order = order /\ ai'.own = own /\ (ai'.deferred => deferred)
  <2>1. CASE ai' = LeavesAttack
    <3>1. ai' = [attacks |-> FALSE, order |-> order, own |-> own, deferred |-> FALSE,
                 checked |-> checked]
      BY <1>1, <2>1 DEF LeavesAttack
    <3> QED BY <1>1, <3>1
  <2>2. CASE ai' = [ai EXCEPT !.checked = TRUE]
    <3>1. ai' = [attacks |-> attacks, order |-> order, own |-> own, deferred |-> deferred,
                 checked |-> TRUE]
      BY <1>1, <2>2
    <3> QED BY <1>1, <3>1
  <2> QED BY <1>3, <2>1, <2>2
<1>6. CASE record' = NoRecord
  <2>1. RecordFits'
    BY <1>2, <1>5, <1>6 DEF RecordFits
  <2> QED BY <1>4, <2>1 DEF TargetsInv
<1>7. CASE record' = Observed /\ record = NoRecord
  <2>1. record' = NoRecord
    BY <1>7 DEF Observed
  <2> QED BY <1>6, <2>1
<1>8. CASE record' = Observed /\ record # NoRecord
  <2>1. PICK target \in Targets, automatic \in BOOLEAN, of \in Nat :
            record = [target |-> target, automatic |-> automatic, order |-> of]
    BY <1>8 DEF TargetsInv, RecordFits
  <2>2. ~automatic => /\ of <= order /\ (deferred => of # 0 /\ of < order /\ own)
    BY <1>1, <1>8, <2>1 DEF TargetsInv, RecordFits
  <2>3. Observed = IF automatic THEN record
                   ELSE IF of = 0 THEN [record EXCEPT !.order = order]
                   ELSE IF order # of /\ own THEN [record EXCEPT !.automatic = TRUE]
                   ELSE record
    BY <1>1, <1>2, <1>8, <2>1 DEF Observed
  <2>4. PICK isAutomatic \in BOOLEAN, new \in Nat :
            /\ record' = [target |-> target, automatic |-> isAutomatic, order |-> new]
            /\ ~isAutomatic => new <= order /\ new # 0 /\ ~deferred
    <3>1. CASE automatic
      BY <1>8, <2>1, <2>3, <3>1
    <3>2. CASE ~automatic /\ of = 0
      <4>1. record' = [target |-> target, automatic |-> FALSE, order |-> order]
        BY <1>8, <2>1, <2>3, <3>2
      <4>2. order # 0 /\ order <= order /\ order \in Nat
        BY <1>1, <1>2
      <4>3. ~deferred
        BY <2>2, <3>2
      <4> QED BY <4>1, <4>2, <4>3
    <3>3. CASE ~automatic /\ of # 0 /\ order # of /\ own
      <4>1. record' = [target |-> target, automatic |-> TRUE, order |-> of]
        BY <1>8, <2>1, <2>3, <3>3
      <4> QED BY <4>1
    <3>4. CASE ~automatic /\ of # 0 /\ ~(order # of /\ own)
      <4>1. record' = record
        BY <1>8, <2>3, <3>4
      <4>2. ~deferred
        BY <2>2, <3>4
      <4> QED BY <2>1, <2>2, <3>4, <4>1, <4>2
    <3> QED BY <1>1, <3>1, <3>2, <3>3, <3>4
  <2>5. /\ record' \in [target : Targets, automatic : BOOLEAN, order : Nat]
        /\ record'.automatic = isAutomatic /\ record'.order = new
    BY <2>4
  <2>6. RecordFits'
    BY <1>2, <1>5, <2>4, <2>5 DEF RecordFits
  <2> QED BY <1>4, <2>6 DEF TargetsInv
<1> QED BY <1>3, <1>6, <1>7, <1>8

LEMMA MoveGivenKeeps ==
    ASSUME ChecksFirst, TargetsInv, MoveGiven
    PROVE  TargetsInv'
<1>1. PICK attacks, order, own, deferred, checked :
          /\ ai = [attacks |-> attacks, order |-> order, own |-> own, deferred |-> deferred,
                   checked |-> checked]
          /\ attacks \in BOOLEAN /\ order \in Nat /\ own \in BOOLEAN /\ deferred \in BOOLEAN
          /\ checked \in BOOLEAN
  BY DEF TargetsInv, RecordFits
<1>2. checked /\ ai' = [ai EXCEPT !.order = @ + 1, !.own = TRUE, !.deferred = TRUE]
      /\ UNCHANGED <<shared, private, handles, record>>
  BY <1>1 DEF MoveGiven
<1>3. ai' = [attacks |-> attacks, order |-> order + 1, own |-> TRUE, deferred |-> TRUE,
             checked |-> checked]
  BY <1>1, <1>2
<1>4. /\ ai' \in [attacks : BOOLEAN, order : Nat, own : BOOLEAN, deferred : BOOLEAN,
                  checked : BOOLEAN]
      /\ ai'.order = order + 1 /\ ai'.own /\ ai'.order >= 1
  BY <1>1, <1>3
<1>5. record \in {NoRecord} \cup [target : Targets, automatic : BOOLEAN, order : Nat]
      /\ (record # NoRecord /\ ~record.automatic => record.order <= order /\ record.order # 0)
  BY <1>1, <1>2 DEF TargetsInv, RecordFits
<1>6. record # NoRecord => record.order \in Nat
  BY <1>5
<1>7. record # NoRecord /\ ~record.automatic =>
          record.order # 0 /\ record.order <= order + 1 /\ record.order < order + 1
  BY <1>1, <1>5, <1>6
<1>8. RecordFits'
  BY <1>2, <1>4, <1>5, <1>7 DEF RecordFits
<1> QED BY <1>2, <1>8 DEF TargetsInv, HandlesTyped, HandlesBalanced

LEMMA TargetsKept ==
    ASSUME ChecksFirst, TargetsInv, [TargetsNext]_targetVars
    PROVE  TargetsInv'
<1>1. CASE UNCHANGED <<shared, private, handles, record, ai>>
  BY <1>1 DEF TargetsInv, HandlesTyped, HandlesBalanced, RecordFits
<1>2. CASE Tick \/ NativeTicked \/ Acquired \/ BroadcastEnds \/ Suspend
           \/ UNCHANGED targetVars
  BY <1>1, <1>2 DEF Tick, NativeTicked, Acquired, BroadcastEnds, Suspend, targetVars
<1>3. ASSUME NEW m \in Mounts, Broadcast(m) PROVE TargetsInv'
  <2>1. UNCHANGED <<shared, ai>>
    BY <1>3 DEF Broadcast
  <2>2. PICK t, explicit : t \in {shared, NoTarget} /\ Route(m, t, explicit)
    BY <1>3 DEF Broadcast
  <2>3. t \in Targets
    BY <2>2 DEF TargetsInv, HandlesTyped, Targets
  <2> QED BY <2>1, <2>2, <2>3, RouteKeeps DEF TargetsInv
<1>4. ASSUME NEW m \in Mounts, ClearGun(m) PROVE TargetsInv'
  <2>1. UNCHANGED <<shared, ai>> /\ Route(m, NoTarget, FALSE) /\ NoTarget \in Targets
    BY <1>4 DEF ClearGun, Targets
  <2> QED BY <2>1, RouteKeeps DEF TargetsInv
<1>5. ASSUME NEW m \in Mounts, Board(m) PROVE TargetsInv'
  BY <1>1, <1>5 DEF Board
<1>6. ASSUME NEW t \in Targets, SharedRefresh(t) PROVE TargetsInv'
  <2>1. /\ shared' = t /\ handles' = Ref(Ref(handles, shared, -1), t, 1)
        /\ UNCHANGED <<private, record, ai>>
    BY <1>6 DEF SharedRefresh
  <2>2. HandlesTyped' /\ HandlesBalanced'
    BY <2>1, SharedMoved DEF TargetsInv
  <2> QED BY <2>1, <2>2 DEF TargetsInv, RecordFits
<1>7. ASSUME NEW e \in Enemies, Die(e) PROVE TargetsInv'
  BY <1>1, <1>7 DEF Die
<1> QED BY <1>2, <1>3, <1>4, <1>5, <1>6, <1>7, AcquireKeeps, CommandKeeps,
           CheckAttackKeeps, MoveGivenKeeps DEF TargetsNext

LEMMA TargetsInitially ==
    ASSUME TargetsInit
    PROVE  TargetsInv
<1>1. HandlesTyped
  BY DEF TargetsInit, HandlesTyped, Targets
<1>2. ASSUME NEW e \in Enemies
      PROVE  handles[e] = (IF shared = e THEN 1 ELSE 0)
                          + Cardinality({m \in Mounts : private[m] = e})
  <2>1. {m \in Mounts : private[m] = e} = {} /\ handles[e] = 0 /\ shared # e
    BY TargetsAssumption DEF TargetsInit
  <2>2. Cardinality({m \in Mounts : private[m] = e}) = 0
    BY <2>1, FS_EmptySet
  <2> QED BY <2>1, <2>2
<1>3. RecordFits
  BY DEF TargetsInit, RecordFits
<1> QED BY <1>1, <1>2, <1>3 DEF TargetsInv, HandlesBalanced

(* The Move in hand is of a later order than the attack on record.          *)
LEMMA MoveFollows ==
    ASSUME TargetsInv
    PROVE  MoveProceeds
<1> SUFFICES ASSUME ai.deferred, ai.attacks, Matches PROVE Observed.automatic
  BY DEF MoveProceeds
<1>1. record # NoRecord
  BY DEF Matches
<1>2. PICK target \in Targets, automatic \in BOOLEAN, of \in Nat :
          record = [target |-> target, automatic |-> automatic, order |-> of]
  BY <1>1 DEF TargetsInv, RecordFits
<1>3. ~automatic => of # 0 /\ of # ai.order /\ ai.own
  <2>1. ~automatic => of # 0 /\ of < ai.order /\ ai.own /\ ai.order \in Nat
    BY <1>1, <1>2 DEF TargetsInv, RecordFits
  <2> QED BY <1>2, <2>1
<1>4. Observed = IF automatic THEN record ELSE [record EXCEPT !.automatic = TRUE]
  BY <1>1, <1>2, <1>3 DEF Observed
<1>5. CASE automatic
  BY <1>2, <1>4, <1>5
<1>6. CASE ~automatic
  <2>1. Observed = [target |-> target, automatic |-> TRUE, order |-> of]
    BY <1>2, <1>4, <1>6
  <2> QED BY <2>1
<1> QED BY <1>5, <1>6

-----------------------------------------------------------------------------
(* vehicle-special-fire, rebind. *)

Ages == 0..Oldest \cup {Never}
Motions == [since : Ages, last : Ages, changed : Ages, moving : BOOLEAN,
            generation : 0..(Generations - 1)]
MountStates == [checked : Ages, rebound : Ages, seen : 0..(Generations - 1)]

RebindInv ==
    /\ RebindTypeOK /\ OneMountPerGun
    /\ update \in [left : Seq(Mount), forced : BOOLEAN]
    /\ forced \in BOOLEAN /\ recordlessSeen \in Seq(Gun)

LEMMA AgesGiven ==
    /\ Oldest \in Nat /\ Never \in Nat /\ Ages \subseteq Nat
    /\ 0 \in Ages /\ Never \in Ages /\ 1 \in Nat
    /\ \A age \in Ages : Older(age) \in Ages
<1>1. \E m \in Intervals : \A k \in Intervals : m >= k
  <2>1. StartDwell \in Nat /\ StopDwell \in Nat /\ MotionHold \in Nat /\ RebindDwell \in Nat
    BY RebindAssumption DEF Intervals
  <2> QED BY <2>1 DEF Intervals
<1>2. Oldest \in Intervals
  BY <1>1 DEF Oldest, Max
<1>3. Oldest \in Nat
  BY <1>2, RebindAssumption
<1> QED BY <1>3 DEF Ages, Never, Older

(* A nonempty set of numbers has its least one. *)
LEMMA SmallestExists ==
    ASSUME NEW set \in SUBSET Nat, set # {}
    PROVE  \E m \in set : \A k \in set : m <= k
<1> DEFINE Less == {p \in Nat \X Nat : p[1] < p[2]}
<1>1. OpToRel(<, Nat) = Less
  BY Zenon DEF OpToRel
<1> HIDE DEF Less
<1>2. PICK m \in set : \A k \in set : ~(<<k, m>> \in Less)
  BY <1>1, WFMin, NatLessThanWellFounded
<1>3. ASSUME NEW k \in set PROVE m <= k
  <2>1. ~(k < m)
    BY <1>2 DEF Less
  <2> QED BY <2>1
<1> QED BY <1>3

LEMMA LeastNumber ==
    ASSUME NEW set \in SUBSET Nat, set # {}
    PROVE  Min(set) \in set
BY SmallestExists DEF Min

(* choose returns the mount's own gun or one it may have. *)
LEMMA BestIsFree ==
    ASSUME NEW source \in Gun, NEW moving
    PROVE  Best(source, moving) \in {source} \cup (Candidates(source) \cap Gun)
<1> DEFINE usable == {k \in DOMAIN GunRoster : /\ GunRoster[k] \in Candidates(source)
                                               /\ Usable(GunRoster[k], moving)}
           best == {k \in usable : \A j \in usable :
                                      ~Better(GunRoster[j], GunRoster[k], source)}
<1>1. Best(source, moving) = IF best = {} THEN source ELSE GunRoster[Min(best)]
  BY DEF Best
<1>2. best \in SUBSET Nat
  BY RebindAssumption
<1>3. \A k \in best : GunRoster[k] \in Candidates(source) \cap Gun
  BY DEF Candidates
<1> HIDE DEF best
<1>4. CASE best # {}
  BY <1>1, <1>2, <1>3, <1>4, LeastNumber
<1> QED BY <1>1, <1>4

LEMMA SampleTyped ==
    ASSUME NEW mo \in Motions, NEW movingNow \in BOOLEAN
    PROVE  Sample(mo, movingNow) \in Motions
<1>1. ASSUME NEW m \in Motions PROVE Change(m) \in Motions
  <2>1. PICK s, l, c, v, g : /\ m = [since |-> s, last |-> l, changed |-> c, moving |-> v,
                                     generation |-> g]
                             /\ s \in Ages /\ l \in Ages /\ c \in Ages
                             /\ v \in BOOLEAN /\ g \in 0..(Generations - 1)
    BY <1>1 DEF Motions
  <2>2. m.moving = v /\ m.generation = g
    BY <2>1
  <2>3. (g + 1) % Generations \in 0..(Generations - 1)
    BY <2>1 DEF Generations
  <2>4. PICK next \in 0..(Generations - 1), other \in BOOLEAN :
            next = (g + 1) % Generations /\ other = ~v
    BY <2>1, <2>3
  <2>5. Change(m) = [since |-> s, last |-> l, changed |-> 0, moving |-> other,
                     generation |-> next]
    <3>1. Change(m) = [m EXCEPT !.moving = other, !.changed = 0, !.generation = next]
      BY <2>2, <2>4 DEF Change
    <3> QED BY <2>1, <3>1
  <2> QED BY <2>1, <2>5, AgesGiven DEF Motions
<1>2. ASSUME NEW m \in Motions PROVE [m EXCEPT !.since = Never] \in Motions
  BY <1>2, AgesGiven DEF Motions
<1>3. [mo EXCEPT !.since = IF @ = Never THEN 0 ELSE @, !.last = 0] \in Motions
  <2>1. PICK s, l, c, v, g : /\ mo = [since |-> s, last |-> l, changed |-> c, moving |-> v,
                                      generation |-> g]
                             /\ s \in Ages /\ l \in Ages /\ c \in Ages
                             /\ v \in BOOLEAN /\ g \in 0..(Generations - 1)
    BY DEF Motions
  <2>2. PICK new \in Ages : new = IF s = Never THEN 0 ELSE s
    <3>1. (IF s = Never THEN 0 ELSE s) \in Ages
      BY <2>1, AgesGiven
    <3> QED BY <3>1
  <2>3. [mo EXCEPT !.since = IF @ = Never THEN 0 ELSE @, !.last = 0] =
            [mo EXCEPT !.since = new, !.last = 0]
    <3>1. mo.since = s
      BY <2>1
    <3> QED BY <2>2, <3>1
  <2>4. [mo EXCEPT !.since = new, !.last = 0] \in Motions
    <3>1. PICK first : first = [mo EXCEPT !.since = new]
      OBVIOUS
    <3>2. first \in Motions
      BY <3>1 DEF Motions
    <3>3. [first EXCEPT !.last = 0] \in Motions
      BY <3>2, AgesGiven DEF Motions
    <3> QED BY <3>1, <3>3
  <2> QED BY <2>3, <2>4
<1>4. PICK run \in Motions :
          run = [mo EXCEPT !.since = IF @ = Never THEN 0 ELSE @, !.last = 0]
  BY <1>3
<1>5. Sample(mo, movingNow) \in {run, Change(run), [mo EXCEPT !.since = Never],
                                [Change(mo) EXCEPT !.since = Never], mo}
  BY <1>4 DEF Sample
<1>6. /\ Change(run) \in Motions /\ [mo EXCEPT !.since = Never] \in Motions
      /\ [Change(mo) EXCEPT !.since = Never] \in Motions
  BY <1>1, <1>2
<1> QED BY <1>5, <1>6

(* The list of guns without a record stays within its limit. *)
LEMMA RememberedFits ==
    ASSUME recordlessSeen \in Seq(Gun), Len(recordlessSeen) <= RecordlessLimit,
           NEW g \in Recordless, g \in Gun
    PROVE  /\ RememberRecordless(g) \in Seq(Gun)
           /\ Len(RememberRecordless(g)) <= RecordlessLimit
<1>1. RecordlessLimit \in Nat /\ RecordlessLimit >= 1
  <2>1. Cardinality(Recordless) \in Nat /\ Cardinality(Recordless) # 0
    BY RebindAssumption, FS_CardinalityType, FS_EmptySet
  <2> QED BY <2>1, RebindAssumption
<1> DEFINE kept == IF Len(recordlessSeen) = RecordlessLimit THEN Tail(recordlessSeen)
                   ELSE recordlessSeen
<1>2. kept \in Seq(Gun) /\ Len(kept) \in Nat /\ Len(kept) + 1 <= RecordlessLimit
  <2>1. CASE Len(recordlessSeen) = RecordlessLimit
    <3>1. recordlessSeen # <<>>
      BY <1>1, <2>1
    <3>2. Tail(recordlessSeen) \in Seq(Gun)
          /\ Len(Tail(recordlessSeen)) = Len(recordlessSeen) - 1
      BY <3>1, HeadTailProperties
    <3> QED BY <1>1, <2>1, <3>2
  <2>2. CASE Len(recordlessSeen) # RecordlessLimit
    BY <1>1, <2>2
  <2> QED BY <2>1, <2>2
<1> HIDE DEF kept
<1>3. Append(kept, g) \in Seq(Gun) /\ Len(Append(kept, g)) = Len(kept) + 1
  BY <1>2, AppendProperties
<1>4. RememberRecordless(g) = recordlessSeen \/ RememberRecordless(g) = Append(kept, g)
  BY DEF RememberRecordless, kept
<1> QED BY <1>2, <1>3, <1>4

(* What a mount gives up another may get, once.                              *)
LEMMA ExchangedApart ==
    ASSUME RebindTypeOK, OneMountPerGun, NEW m \in Mount, NEW gun \in Gun,
           \A x \in Mount \ {m} : bound[x] # gun,
           NEW new \in Exchanged(m, gun)
    PROVE  /\ new \in [Mount -> Gun \cup {NoGun}]
           /\ \A x, y \in Mount : x # y /\ new[x] # NoGun => new[x] # new[y]
<1>1. PICK n \in Free \cup {m} :
          new = [x \in Mount |-> IF x = n THEN gun ELSE IF x = m THEN NoGun ELSE bound[x]]
  BY DEF Exchanged
<1>2. bound \in [Mount -> Gun \cup {NoGun}]
  BY DEF RebindTypeOK
<1>3. new \in [Mount -> Gun \cup {NoGun}]
  BY <1>1, <1>2
<1>4. \A x \in Mount : new[x] \in {gun, NoGun, bound[x]}
  BY <1>1
<1>5. ASSUME NEW x \in Mount, NEW y \in Mount, x # y, new[x] # NoGun
      PROVE  new[x] # new[y]
  <2>1. CASE x = n \/ y = n
    BY <1>1, <1>5, <2>1, RebindAssumption
  <2>2. CASE x # n /\ y # n
    BY <1>1, <1>5, <2>2 DEF OneMountPerGun
  <2> QED BY <2>1, <2>2
<1> QED BY <1>3, <1>5

LEMMA ExchangeKeeps ==
    ASSUME RebindTypeOK, OneMountPerGun, NEW m \in Mount, NEW gun \in Gun,
           bound[m] # NoGun, ~Bound(gun), NEW new \in Exchange(m, bound[m], gun)
    PROVE  /\ new \in [Mount -> Gun \cup {NoGun}]
           /\ \A x, y \in Mount : x # y /\ new[x] # NoGun => new[x] # new[y]
<1>1. PICK old : old = bound[m]
  OBVIOUS
<1>2. old \in Gun /\ bound \in [Mount -> Gun \cup {NoGun}]
  BY <1>1 DEF RebindTypeOK
<1>3. \A x \in Mount \ {m} : bound[x] # old
  BY <1>1 DEF OneMountPerGun
<1>4. \A x \in Mount : bound[x] # gun
  BY DEF Bound
<1>5. new \in Exchanged(m, gun) \/ new \in Exchanged(m, old) \/ new = [bound EXCEPT ![m] = NoGun]
  BY <1>1 DEF Exchange
<1>6. CASE new \in Exchanged(m, gun)
  BY <1>4, <1>6, ExchangedApart
<1>7. CASE new \in Exchanged(m, old)
  BY <1>2, <1>3, <1>7, ExchangedApart
<1>8. CASE new = [bound EXCEPT ![m] = NoGun]
  <2>1. new \in [Mount -> Gun \cup {NoGun}]
    BY <1>2, <1>8
  <2>2. \A x \in Mount : new[x] = IF x = m THEN NoGun ELSE bound[x]
    BY <1>2, <1>8
  <2> QED BY <2>1, <2>2 DEF OneMountPerGun
<1> QED BY <1>5, <1>6, <1>7, <1>8

LEMMA UpdateMountKeeps ==
    ASSUME RebindInv, driving \in BOOLEAN, UpdateMount
    PROVE  RebindInv'
<1>1. PICK m, source, sampled : m = Head(update.left) /\ source = bound[m]
                                /\ sampled = Sample(motion, driving)
  OBVIOUS
<1>2. PICK left, byForce : update = [left |-> left, forced |-> byForce]
                           /\ left \in Seq(Mount) /\ byForce \in BOOLEAN
  BY DEF RebindInv
<1>3. left # <<>> /\ update' = [left |-> Tail(left), forced |-> byForce]
      /\ UNCHANGED <<driving, ordered, forced>>
  BY <1>2 DEF UpdateMount
<1>4. m \in Mount /\ Tail(left) \in Seq(Mount)
  BY <1>1, <1>2, <1>3, HeadTailProperties
<1>5. update' \in [left : Seq(Mount), forced : BOOLEAN]
  BY <1>2, <1>3, <1>4
<1>6. CASE source = NoGun
  <2>1. UNCHANGED <<bound, motion, states, recordlessSeen>>
    BY <1>1, <1>6 DEF UpdateMount
  <2> QED BY <1>3, <1>5, <2>1 DEF RebindInv, RebindTypeOK, OneMountPerGun
<1>7. CASE source # NoGun
  <2>1. bound \in [Mount -> Gun \cup {NoGun}] /\ motion \in Motions
        /\ states \in [Mount -> MountStates]
    BY DEF RebindInv, RebindTypeOK, Motions, MountStates, Ages
  <2>2. source \in Gun
    BY <1>1, <1>4, <1>7, <2>1
  <2>3. sampled \in Motions
    BY <1>1, <2>1, SampleTyped
  <2> DEFINE stuck == source \in Recordless
             changed == sampled.generation # states[m].seen
             due == update.forced \/ changed \/ states[m].checked >= 1
             state(age) == [checked |-> IF due THEN 0 ELSE states[m].checked,
                            rebound |-> age, seen |-> sampled.generation]
             best == Best(source, sampled.moving)
  <2>4. /\ motion' = sampled
        /\ recordlessSeen' = IF stuck THEN RememberRecordless(source) ELSE recordlessSeen
        /\ \/ /\ states' = [states EXCEPT ![m] = state(states[m].rebound)]
              /\ UNCHANGED bound
           \/ /\ best # source /\ bound' \in Exchange(m, source, best)
              /\ states' = [states EXCEPT ![m] = state(0)]
    BY <1>1, <1>7 DEF UpdateMount
  <2>5. \A age \in Ages : state(age) \in MountStates
    BY <1>4, <2>1, <2>3, AgesGiven DEF MountStates, Motions
  <2>6. states[m].rebound \in Ages
    BY <1>4, <2>1 DEF MountStates
  <2> HIDE DEF state
  <2>7. states' \in [Mount -> MountStates]
    <3>1. PICK age \in Ages : states' = [states EXCEPT ![m] = state(age)]
      BY <2>4, <2>6, AgesGiven
    <3>2. state(age) \in MountStates
      BY <2>5
    <3> QED BY <2>1, <3>1, <3>2
  <2>8. recordlessSeen' \in Seq(Gun) /\ Len(recordlessSeen') <= RecordlessLimit
    BY <2>2, <2>4, RememberedFits DEF RebindInv, RebindTypeOK
  <2>9. best \in {source} \cup (Candidates(source) \cap Gun)
    BY <2>2, BestIsFree
  <2> HIDE DEF best
  <2>10. bound' \in [Mount -> Gun \cup {NoGun}] /\ OneMountPerGun'
    <3>1. CASE UNCHANGED bound
      BY <3>1, <2>1 DEF RebindInv, OneMountPerGun
    <3>2. CASE best # source /\ bound' \in Exchange(m, source, best)
      <4>1. best \in Gun /\ ~Bound(best)
        BY <2>9, <3>2 DEF Candidates
      <4>2. bound' \in Exchange(m, bound[m], best) /\ bound[m] # NoGun
        BY <1>1, <1>7, <3>2
      <4>3. PICK new : new = bound'
        OBVIOUS
      <4>4. /\ new \in [Mount -> Gun \cup {NoGun}]
            /\ \A x, y \in Mount : x # y /\ new[x] # NoGun => new[x] # new[y]
        <5>1. new \in Exchange(m, bound[m], best)
          BY <4>2, <4>3
        <5> QED BY <1>4, <4>1, <4>2, <5>1, ExchangeKeeps DEF RebindInv
      <4> QED BY <4>3, <4>4 DEF OneMountPerGun
    <3> QED BY <2>4, <3>1, <3>2
  <2>11. RebindTypeOK'
    BY <1>3, <2>3, <2>4, <2>7, <2>8, <2>10
       DEF RebindInv, RebindTypeOK, Motions, MountStates, Ages
  <2> QED BY <1>3, <1>5, <2>8, <2>10, <2>11 DEF RebindInv
<1> QED BY <1>6, <1>7

LEMMA RebindTimeKeeps ==
    ASSUME RebindInv, Time
    PROVE  RebindInv'
<1>1. motion \in Motions /\ states \in [Mount -> MountStates]
  BY DEF RebindInv, RebindTypeOK, Motions, MountStates, Ages
<1>2. motion' \in Motions
  <2>1. PICK s, l, c, v, g : /\ motion = [since |-> s, last |-> l, changed |-> c,
                                          moving |-> v, generation |-> g]
                             /\ s \in Ages /\ l \in Ages /\ c \in Ages
                             /\ v \in BOOLEAN /\ g \in 0..(Generations - 1)
    BY <1>1 DEF Motions
  <2>2. motion' = [motion EXCEPT !.since = Older(@), !.last = Older(@), !.changed = Older(@)]
    BY DEF Time
  <2>3. motion' = [since |-> Older(s), last |-> Older(l), changed |-> Older(c),
                   moving |-> v, generation |-> g]
    BY <2>1, <2>2
  <2> QED BY <2>1, <2>3, AgesGiven DEF Motions
<1>3. states' \in [Mount -> MountStates]
  <2>1. states' = [m \in Mount |-> [states[m] EXCEPT !.checked = Older(@), !.rebound = Older(@)]]
    BY DEF Time
  <2>2. ASSUME NEW m \in Mount
        PROVE  [states[m] EXCEPT !.checked = Older(@), !.rebound = Older(@)] \in MountStates
    <3>1. PICK old \in MountStates : old = states[m]
      BY <1>1
    <3>2. PICK checked \in Ages, rebound \in Ages :
              checked = Older(old.checked) /\ rebound = Older(old.rebound)
      BY AgesGiven DEF MountStates
    <3>3. PICK first : first = [old EXCEPT !.checked = checked]
      OBVIOUS
    <3>4. first \in MountStates
      BY <3>3 DEF MountStates
    <3>5. [first EXCEPT !.rebound = rebound] \in MountStates
      BY <3>4 DEF MountStates
    <3>6. [old EXCEPT !.checked = checked, !.rebound = rebound] \in MountStates
      BY <3>3, <3>5
    <3> QED BY <3>1, <3>2, <3>6
  <2> QED BY <2>1, <2>2
<1>4. UNCHANGED <<bound, driving, ordered, forced, recordlessSeen, update>>
  BY DEF Time
<1> QED BY <1>2, <1>3, <1>4
        DEF RebindInv, RebindTypeOK, OneMountPerGun, Motions, MountStates, Ages

LEMMA RebindKept ==
    ASSUME RebindInv, driving \in BOOLEAN, [RebindNext]_rebindVars
    PROVE  RebindInv' /\ driving' \in BOOLEAN
<1>1. driving' \in BOOLEAN
  <2>1. driving' = driving \/ driving' = ~driving
    BY DEF RebindNext, UpdateMount, Update, OrderRange, Drive, Rebalance, Time, rebindVars
  <2> QED BY <2>1
<1>2. CASE UNCHANGED <<bound, motion, states, recordlessSeen>>
           /\ update' \in [left : Seq(Mount), forced : BOOLEAN]
           /\ forced' \in BOOLEAN /\ ordered' \in Ranges \cup {NoGun}
  BY <1>1, <1>2 DEF RebindInv, RebindTypeOK, OneMountPerGun
<1>3. CASE Update
  <2>1. update' = [left |-> MountOrder, forced |-> forced] /\ forced' = FALSE
        /\ UNCHANGED <<bound, ordered, motion, states, recordlessSeen>>
    BY <1>3 DEF Update
  <2>2. update' \in [left : Seq(Mount), forced : BOOLEAN]
    BY <2>1, RebindAssumption DEF RebindInv
  <2> QED BY <1>2, <2>1, <2>2 DEF RebindInv, RebindTypeOK
<1>4. ASSUME NEW d \in Ranges \cup {NoGun}, OrderRange(d) PROVE RebindInv'
  BY <1>2, <1>4 DEF OrderRange, RebindInv
<1>5. CASE Drive \/ UNCHANGED rebindVars
  BY <1>2, <1>5 DEF Drive, rebindVars, RebindInv, RebindTypeOK
<1>6. CASE Rebalance
  <2>1. PICK m \in Free, g \in Gun : ~Bound(g) /\ bound' = [bound EXCEPT ![m] = g]
    BY <1>6 DEF Rebalance
  <2>2. UNCHANGED <<driving, ordered, motion, states, forced, recordlessSeen, update>>
    BY <1>6 DEF Rebalance
  <2>3. bound \in [Mount -> Gun \cup {NoGun}] /\ m \in Mount
    BY DEF RebindInv, RebindTypeOK, Free
  <2>4. bound' \in [Mount -> Gun \cup {NoGun}]
    BY <2>1, <2>3
  <2>5. OneMountPerGun'
    <3>1. \A x \in Mount : bound'[x] = (IF x = m THEN g ELSE bound[x]) /\ bound[x] # g
      BY <2>1, <2>3 DEF Bound
    <3> QED BY <3>1 DEF RebindInv, OneMountPerGun
  <2> QED BY <2>2, <2>4, <2>5 DEF RebindInv, RebindTypeOK
<1> QED BY <1>1, <1>3, <1>4, <1>5, <1>6, UpdateMountKeeps, RebindTimeKeeps DEF RebindNext

LEMMA RebindInitially ==
    ASSUME RebindInit
    PROVE  RebindInv /\ driving \in BOOLEAN
<1>1. bound \in [Mount -> Gun] /\ \A m, n \in Mount : m # n => bound[m] # bound[n]
  BY DEF RebindInit
<1>2. driving = FALSE /\ ordered = NoGun /\ forced = FALSE /\ recordlessSeen = <<>>
      /\ update = NoUpdate
  BY DEF RebindInit
<1>3. motion \in Motions /\ states \in [Mount -> MountStates]
  BY AgesGiven DEF RebindInit, Motions, MountStates, Generations
<1>4. OneMountPerGun /\ update \in [left : Seq(Mount), forced : BOOLEAN]
  BY <1>1, <1>2 DEF OneMountPerGun, NoUpdate
<1>5. recordlessSeen \in Seq(Gun) /\ Len(recordlessSeen) <= RecordlessLimit
  BY <1>2, RebindAssumption
<1> QED BY <1>1, <1>2, <1>3, <1>4, <1>5
        DEF RebindInv, RebindTypeOK, Motions, MountStates, Ages

-----------------------------------------------------------------------------
(* moving-grenades, what is owned. *)

Kinds == {"move", "attackMove", "stop", "smoke", "throw"}
Moves == {"move", "attackMove"}
IssuedOrders == [s : Throwers, kind : Kinds, done : BOOLEAN]
Nobody == Throwers \cup {NoThrower}
EntryAges == 0..(MaxAge + 1)

(* What is kept when the game has made n orders. *)
Bodies(n) == [doing : Kinds \cup {"idle", "attack"}, order : 0..n, route : 0..n,
              moving : BOOLEAN, target : 0..n, queue : Seq(1..n)]
FlareEntries(n) == [order : 1..n, age : EntryAges, route : 0..n, target : 0..n,
                    resumed : BOOLEAN]
StopEntries(n) == [order : 1..n, age : EntryAges, route : 0..n, stop : 1..n,
                   finished : BOOLEAN]
HookFrames(n) == [kind : {"order", "submit", "stop"}, s : Throwers, order : 1..n,
                  stopped : BOOLEAN, replacing : Nobody, completing : Nobody]

IssuedTyped == issued \in Seq(IssuedOrders) /\ Len(issued) \in 0..MaxIssued

(* A soldier on the move has the order to.                                  *)
OrderedBodies(n) == {b \in Bodies(n) : b.doing \in Moves => b.order # 0}
BodyTyped == body \in [Throwers -> OrderedBodies(Len(issued))]

MapsTyped ==
    /\ flareOrders \in [Throwers -> {NoEntry} \cup FlareEntries(Len(issued))]
    /\ completion \in [Throwers -> {NoEntry} \cup StopEntries(Len(issued))]

FramesTyped ==
    /\ frames \in Seq(HookFrames(Len(issued)))
    /\ replacing \in Nobody /\ completing \in Nobody

MapsFit ==
    /\ Cardinality(Keeping(flareOrders)) <= MaxHeld
    /\ Cardinality(Keeping(completion)) <= MaxHeld

(* The outermost hook puts back that nothing is replaced or completed. *)
MarksRestored ==
    /\ frames = <<>> => replacing = NoThrower /\ completing = NoThrower
    /\ frames # <<>> => frames[1].replacing = NoThrower /\ frames[1].completing = NoThrower

OwnedInv == MapsTyped /\ ReferencesOwned /\ MapsFit
GrenadeInv == IssuedTyped /\ BodyTyped /\ FramesTyped /\ MarksRestored /\ OwnedInv

-----------------------------------------------------------------------------
(* Counting what the maps own. *)

Holding(map, o) == {t \in Throwers : map[t].order = o}
Stopping(map, o) == {t \in Throwers : map[t] # NoEntry /\ map[t].stop = o}
HeldBy(D, map, o) == {t \in D : map[t].order = o}
StoppedBy(D, map, o) == {t \in D : map[t] # NoEntry /\ map[t].stop = o}

LEMMA CountsAreNumbers ==
    \A set \in SUBSET Throwers : IsFiniteSet(set) /\ Cardinality(set) \in Nat
BY GrenadeAssumption, FS_Subset, FS_CardinalityType

LEMMA OwningCounts ==
    ASSUME NEW p, NEW c, NEW o \in 1..MaxIssued
    PROVE  Owning(p, c)[o] = Cardinality(Holding(p, o)) + Cardinality(Holding(c, o))
                             + Cardinality(Stopping(c, o))
BY DEF Owning, Holding, Stopping

LEMMA RefsCounted ==
    ASSUME ReferencesOwned, NEW o \in 1..MaxIssued
    PROVE  /\ refs[o] = Cardinality(Holding(flareOrders, o))
                        + Cardinality(Holding(completion, o))
                        + Cardinality(Stopping(completion, o))
           /\ Cardinality(Holding(flareOrders, o)) \in Nat
           /\ Cardinality(Holding(completion, o)) \in Nat
           /\ Cardinality(Stopping(completion, o)) \in Nat
           /\ refs[o] \in Nat
<1>1. refs[o] = Cardinality(Holding(flareOrders, o)) + Cardinality(Holding(completion, o))
                + Cardinality(Stopping(completion, o))
  BY OwningCounts DEF ReferencesOwned
<1>2. /\ Holding(flareOrders, o) \in SUBSET Throwers
      /\ Holding(completion, o) \in SUBSET Throwers
      /\ Stopping(completion, o) \in SUBSET Throwers
  BY DEF Holding, Stopping
<1> QED BY <1>1, <1>2, CountsAreNumbers

(* The entries of some soldiers go. *)
LEMMA EntriesGone ==
    ASSUME NEW old, NEW new, NEW D \in SUBSET Throwers, NEW o \in 1..MaxIssued,
           \A t \in Throwers \ D : new[t] = old[t], \A t \in D : new[t] = NoEntry
    PROVE  /\ Cardinality(Holding(new, o)) =
                  Cardinality(Holding(old, o)) - Cardinality(HeldBy(D, old, o))
           /\ Cardinality(Stopping(new, o)) =
                  Cardinality(Stopping(old, o))
                  - Cardinality(StoppedBy(D, old, o))
<1>1. ASSUME NEW A \in SUBSET Throwers, NEW B \in SUBSET A
      PROVE  Cardinality(A \ B) = Cardinality(A) - Cardinality(B)
  <2>1. A \cap B = B /\ IsFiniteSet(A)
    BY CountsAreNumbers
  <2>2. Cardinality(A \ B) = Cardinality(A) - Cardinality(A \cap B)
    BY <2>1, FS_Difference
  <2> QED BY <2>1, <2>2
<1>2. /\ Holding(new, o) = Holding(old, o) \ HeldBy(D, old, o)
      /\ HeldBy(D, old, o) \in SUBSET Holding(old, o)
  <2>1. NoEntry.order # o
    BY DEF NoEntry
  <2> QED BY <2>1 DEF Holding, HeldBy
<1>3. /\ Stopping(new, o) = Stopping(old, o) \ StoppedBy(D, old, o)
      /\ StoppedBy(D, old, o) \in SUBSET Stopping(old, o)
  BY DEF Stopping, StoppedBy
<1>4. Holding(old, o) \in SUBSET Throwers /\ Stopping(old, o) \in SUBSET Throwers
  BY DEF Holding, Stopping
<1>5. Cardinality(Holding(new, o)) =
          Cardinality(Holding(old, o)) - Cardinality(HeldBy(D, old, o))
  BY <1>1, <1>2, <1>4
<1>6. Cardinality(Stopping(new, o)) =
          Cardinality(Stopping(old, o))
          - Cardinality(StoppedBy(D, old, o))
  BY <1>1, <1>3, <1>4
<1> QED BY <1>5, <1>6

(* A soldier without an entry gets one. *)
LEMMA EntryPut ==
    ASSUME NEW old, NEW new, NEW s \in Throwers, NEW o \in 1..MaxIssued,
           \A t \in Throwers \ {s} : new[t] = old[t], old[s] = NoEntry, new[s] # NoEntry
    PROVE  /\ Cardinality(Holding(new, o)) =
                  Cardinality(Holding(old, o)) + (IF new[s].order = o THEN 1 ELSE 0)
           /\ Cardinality(Stopping(new, o)) =
                  Cardinality(Stopping(old, o)) + (IF new[s].stop = o THEN 1 ELSE 0)
<1>1. ASSUME NEW A \in SUBSET Throwers, s \notin A
      PROVE  Cardinality(A \cup {s}) = Cardinality(A) + 1
  <2>1. IsFiniteSet(A)
    BY CountsAreNumbers
  <2> QED BY <1>1, <2>1, FS_AddElement
<1>2. /\ s \notin Holding(old, o) /\ s \notin Stopping(old, o)
      /\ Holding(old, o) \in SUBSET Throwers /\ Stopping(old, o) \in SUBSET Throwers
      /\ Cardinality(Holding(old, o)) \in Nat /\ Cardinality(Stopping(old, o)) \in Nat
  <2>1. NoEntry.order # o
    BY DEF NoEntry
  <2> QED BY <2>1, CountsAreNumbers DEF Holding, Stopping
<1>3. Holding(new, o) = IF new[s].order = o THEN Holding(old, o) \cup {s} ELSE Holding(old, o)
  <2>1. NoEntry.order # o
    BY DEF NoEntry
  <2> QED BY <2>1 DEF Holding
<1>4. Stopping(new, o) = IF new[s].stop = o THEN Stopping(old, o) \cup {s}
                         ELSE Stopping(old, o)
  BY DEF Stopping
<1>5. Cardinality(Holding(new, o)) =
          Cardinality(Holding(old, o)) + (IF new[s].order = o THEN 1 ELSE 0)
  BY <1>1, <1>2, <1>3
<1>6. Cardinality(Stopping(new, o)) =
          Cardinality(Stopping(old, o)) + (IF new[s].stop = o THEN 1 ELSE 0)
  BY <1>1, <1>2, <1>4
<1> QED BY <1>5, <1>6

-----------------------------------------------------------------------------
(* The maps with some entries dropped. *)
Drops(new, old) == /\ new = [t \in Throwers |-> new[t]]
                   /\ \A t \in Throwers : new[t] = NoEntry \/ new[t] = old[t]

LEMMA DroppedDrops ==
    ASSUME NEW new, NEW old, Drops(new, old), NEW S
    PROVE  Drops(Dropped(new, S), old)
<1>1. PICK next : next = Dropped(new, S)
  OBVIOUS
<1>2. next = [t \in Throwers |-> IF t \in S THEN NoEntry ELSE new[t]]
  BY <1>1 DEF Dropped
<1>3. next = [t \in Throwers |-> next[t]]
  BY <1>2
<1>4. \A t \in Throwers : next[t] = NoEntry \/ next[t] = old[t]
  BY <1>2 DEF Drops
<1>5. Drops(next, old)
  BY <1>3, <1>4 DEF Drops
<1> QED BY <1>1, <1>5

LEMMA MapsDrop ==
    ASSUME MapsTyped
    PROVE  Drops(flareOrders, flareOrders) /\ Drops(completion, completion)
BY DEF MapsTyped, Drops

LEMMA SweptDrops ==
    ASSUME MapsTyped
    PROVE  Drops(Swept.p, flareOrders) /\ Drops(Swept.c, completion)
<1>1. CASE sweepDue
  <2>1. PICK P, C : /\ P = {s \in Keeping(flareOrders) : flareOrders[s].age > MaxAge}
                    /\ C = {s \in Keeping(completion) : completion[s].age > MaxAge}
    OBVIOUS
  <2>2. Swept = [p |-> Dropped(flareOrders, P), c |-> Dropped(completion, C)]
    BY <1>1, <2>1 DEF Swept, Sweep
  <2>3. Swept.p = Dropped(flareOrders, P) /\ Swept.c = Dropped(completion, C)
    BY <2>2
  <2> QED BY <2>3, MapsDrop, DroppedDrops
<1>2. CASE ~sweepDue
  <2>1. Swept.p = flareOrders /\ Swept.c = completion
    BY <1>2 DEF Swept
  <2> QED BY <2>1, MapsDrop
<1> QED BY <1>1, <1>2

LEMMA ForgottenDrops ==
    ASSUME MapsTyped, NEW s
    PROVE  Drops(RouteForgotten(s).p, flareOrders) /\ Drops(RouteForgotten(s).c, completion)
<1>1. /\ RouteForgotten(s).p = Dropped(flareOrders, {s})
      /\ RouteForgotten(s).c = IF completing = s THEN completion ELSE Dropped(completion, {s})
  BY DEF RouteForgotten
<1> QED BY <1>1, MapsDrop, DroppedDrops

LEMMA KeepingSubset ==
    ASSUME NEW old, NEW new, Drops(new, old), Cardinality(Keeping(old)) <= MaxHeld
    PROVE  Cardinality(Keeping(new)) <= MaxHeld
<1>1. Keeping(new) \subseteq Keeping(old) /\ Keeping(old) \in SUBSET Throwers
      /\ Keeping(new) \in SUBSET Throwers
  BY DEF Keeping, Drops
<1>2. IsFiniteSet(Keeping(old)) /\ Cardinality(Keeping(old)) \in Nat
      /\ Cardinality(Keeping(new)) \in Nat
  BY <1>1, CountsAreNumbers
<1>3. Cardinality(Keeping(new)) <= Cardinality(Keeping(old))
  BY <1>1, <1>2, FS_Subset
<1> QED BY <1>2, <1>3, GrenadeAssumption

LEMMA RecordsGrow ==
    ASSUME NEW m \in Nat, NEW n \in Nat, m <= n
    PROVE  /\ 1..m \subseteq 1..n /\ 0..m \subseteq 0..n /\ Seq(1..m) \subseteq Seq(1..n)
           /\ Bodies(m) \subseteq Bodies(n) /\ FlareEntries(m) \subseteq FlareEntries(n)
           /\ StopEntries(m) \subseteq StopEntries(n) /\ HookFrames(m) \subseteq HookFrames(n)
           /\ Seq(HookFrames(m)) \subseteq Seq(HookFrames(n))
<1>1. 1..m \subseteq 1..n /\ 0..m \subseteq 0..n
  OBVIOUS
<1>2. \A S, T : S \subseteq T => Seq(S) \subseteq Seq(T)
  OBVIOUS
<1>3. Seq(1..m) \subseteq Seq(1..n)
  BY <1>1, <1>2
<1>4. Bodies(m) \subseteq Bodies(n)
  BY <1>1, <1>3 DEF Bodies
<1>5. FlareEntries(m) \subseteq FlareEntries(n) /\ StopEntries(m) \subseteq StopEntries(n)
      /\ HookFrames(m) \subseteq HookFrames(n)
  BY <1>1 DEF FlareEntries, StopEntries, HookFrames
<1> QED BY <1>1, <1>2, <1>3, <1>4, <1>5

(* Keep gives back what the dropped entries owned, and no more. *)
LEMMA KeepKeeps ==
    ASSUME OwnedInv, IssuedTyped, IssuedTyped', Len(issued) <= Len(issued'), NEW p, NEW c,
           Drops(p, flareOrders), Drops(c, completion), Keep(p, c)
    PROVE  OwnedInv'
<1>1. flareOrders' = p /\ completion' = c
  BY DEF Keep
<1>2. PICK m \in Nat, n \in Nat : m = Len(issued) /\ n = Len(issued') /\ m <= n
  BY DEF IssuedTyped
<1>3. /\ p \in [Throwers -> {NoEntry} \cup FlareEntries(n)]
      /\ c \in [Throwers -> {NoEntry} \cup StopEntries(n)]
  BY <1>2, RecordsGrow DEF Drops, OwnedInv, MapsTyped
<1>4. MapsTyped'
  BY <1>1, <1>2, <1>3 DEF MapsTyped
<1>5. MapsFit'
  <2>1. Cardinality(Keeping(p)) <= MaxHeld /\ Cardinality(Keeping(c)) <= MaxHeld
    BY KeepingSubset DEF OwnedInv, MapsFit
  <2>2. Keeping(flareOrders)' = Keeping(p) /\ Keeping(completion)' = Keeping(c)
    BY <1>1 DEF Keeping
  <2> QED BY <2>1, <2>2 DEF MapsFit
<1>6. PICK P, C : P = {s \in Throwers : p[s] = NoEntry} /\ C = {s \in Throwers : c[s] = NoEntry}
  OBVIOUS
<1>7. refs' = GaveBack(P, C)
  BY <1>6 DEF Keep
<1>8. ASSUME NEW o \in 1..MaxIssued
      PROVE  GaveBack(P, C)[o] = Owning(p, c)[o]
  <2>1. /\ P \in SUBSET Throwers /\ \A t \in Throwers \ P : p[t] = flareOrders[t]
        /\ \A t \in P : p[t] = NoEntry
        /\ C \in SUBSET Throwers /\ \A t \in Throwers \ C : c[t] = completion[t]
        /\ \A t \in C : c[t] = NoEntry
    BY <1>6 DEF Drops
  <2>2. Cardinality(Holding(p, o)) = Cardinality(Holding(flareOrders, o))
                                     - Cardinality(HeldBy(P, flareOrders, o))
    BY <2>1, EntriesGone
  <2>3. /\ Cardinality(Holding(c, o)) =
               Cardinality(Holding(completion, o))
               - Cardinality(HeldBy(C, completion, o))
        /\ Cardinality(Stopping(c, o)) =
               Cardinality(Stopping(completion, o))
               - Cardinality(StoppedBy(C, completion, o))
    BY <2>1, EntriesGone
  <2>4. refs[o] = Cardinality(Holding(flareOrders, o)) + Cardinality(Holding(completion, o))
                  + Cardinality(Stopping(completion, o))
    BY OwningCounts DEF OwnedInv, ReferencesOwned
  <2>5. GaveBack(P, C)[o] =
            refs[o] - Cardinality(HeldBy(P, flareOrders, o))
                    - Cardinality(HeldBy(C, completion, o))
                    - Cardinality(StoppedBy(C, completion, o))
    BY DEF GaveBack, HeldBy, StoppedBy
  <2>6. PICK h, i, j, x, y, z :
            /\ h = Cardinality(Holding(flareOrders, o))
            /\ i = Cardinality(Holding(completion, o))
            /\ j = Cardinality(Stopping(completion, o))
            /\ x = Cardinality(HeldBy(P, flareOrders, o))
            /\ y = Cardinality(HeldBy(C, completion, o))
            /\ z = Cardinality(StoppedBy(C, completion, o))
    OBVIOUS
  <2>7. h \in Nat /\ i \in Nat /\ j \in Nat /\ x \in Nat /\ y \in Nat /\ z \in Nat
    <3>1. /\ Holding(flareOrders, o) \in SUBSET Throwers
          /\ Holding(completion, o) \in SUBSET Throwers
          /\ Stopping(completion, o) \in SUBSET Throwers
          /\ HeldBy(P, flareOrders, o) \in SUBSET Throwers
          /\ HeldBy(C, completion, o) \in SUBSET Throwers
          /\ StoppedBy(C, completion, o) \in SUBSET Throwers
      BY <2>1 DEF Holding, Stopping, HeldBy, StoppedBy
    <3> QED BY <2>6, <3>1, CountsAreNumbers
  <2>8. GaveBack(P, C)[o] = h + i + j - x - y - z
    <3>1. refs[o] = h + i + j
      BY <2>4, <2>6
    <3>2. GaveBack(P, C)[o] = refs[o] - x - y - z
      BY <2>5, <2>6
    <3> QED BY <2>7, <3>1, <3>2
  <2>9. Owning(p, c)[o] = (h - x) + (i - y) + (j - z)
    BY <2>2, <2>3, <2>6, OwningCounts
  <2> QED BY <2>7, <2>8, <2>9
<1>9. GaveBack(P, C) = Owning(p, c)
  <2>1. GaveBack(P, C) = [o \in 1..MaxIssued |-> GaveBack(P, C)[o]]
    BY DEF GaveBack
  <2>2. Owning(p, c) = [o \in 1..MaxIssued |-> Owning(p, c)[o]]
    BY DEF Owning
  <2> QED BY <1>8, <2>1, <2>2
<1>10. ReferencesOwned'
  <2>1. Owning(flareOrders, completion)' = Owning(p, c)
    BY <1>1 DEF Owning
  <2> QED BY <1>7, <1>9, <2>1 DEF ReferencesOwned
<1> QED BY <1>4, <1>5, <1>10 DEF OwnedInv

-----------------------------------------------------------------------------
(* Making room. *)
(* Some entry is the oldest.                                                *)
LEMMA OldestEntry ==
    ASSUME NEW map, \A t \in Keeping(map) : map[t].age \in EntryAges, Keeping(map) # {}
    PROVE  \E t \in Keeping(map) : \A u \in Keeping(map) : map[t].age >= map[u].age
<1> DEFINE Youth == {MaxAge + 1 - map[t].age : t \in Keeping(map)}
<1>1. Youth \in SUBSET Nat /\ Youth # {}
  BY GrenadeAssumption DEF EntryAges
<1>2. PICK t \in Keeping(map) : \A k \in Youth : MaxAge + 1 - map[t].age <= k
  <2>1. \E m \in Youth : \A k \in Youth : m <= k
    BY <1>1, SmallestExists
  <2> QED BY <2>1
<1>3. ASSUME NEW u \in Keeping(map) PROVE map[t].age >= map[u].age
  <2>1. MaxAge + 1 - map[t].age <= MaxAge + 1 - map[u].age
    BY <1>2
  <2>2. map[t].age \in Nat /\ map[u].age \in Nat
    BY GrenadeAssumption DEF EntryAges
  <2> QED BY <2>1, <2>2, GrenadeAssumption
<1> QED BY <1>3

LEMMA EvictedOne ==
    ASSUME NEW map, \A t \in Keeping(map) : map[t].age \in EntryAges, NEW s
    PROVE  \/ /\ Evicted(map, s) = {}
              /\ Cardinality(Keeping(map)) < MaxHeld \/ s \in Keeping(map)
           \/ /\ s \notin Keeping(map)
              /\ \E t \in Keeping(map) : Evicted(map, s) = {t}
<1>1. CASE Cardinality(Keeping(map)) < MaxHeld \/ s \in Keeping(map)
  BY <1>1 DEF Evicted
<1>2. CASE ~(Cardinality(Keeping(map)) < MaxHeld \/ s \in Keeping(map))
  <2>1. Keeping(map) # {}
    <3>1. Keeping(map) = {} => Cardinality(Keeping(map)) = 0
      BY FS_EmptySet
    <3> QED BY <1>2, <3>1, GrenadeAssumption
  <2>2. \E t \in Keeping(map) : \A u \in Keeping(map) : map[t].age >= map[u].age
    BY <2>1, OldestEntry
  <2>3. PICK t : t = CHOOSE x \in Keeping(map) : \A u \in Keeping(map) :
                                                     map[x].age >= map[u].age
    OBVIOUS
  <2>4. t \in Keeping(map)
    BY <2>2, <2>3
  <2>5. Evicted(map, s) = {t}
    BY <1>2, <2>3 DEF Evicted
  <2> QED BY <1>2, <2>4, <2>5
<1> QED BY <1>1, <1>2

LEMMA RoomMade ==
    ASSUME NEW map, \A t \in Keeping(map) : map[t].age \in EntryAges, NEW s \in Throwers,
           Cardinality(Keeping(map)) <= MaxHeld, NEW new,
           \A t \in Throwers \ {s} : new[t] = IF t \in Evicted(map, s) THEN NoEntry ELSE map[t]
    PROVE  /\ Evicted(map, s) \in SUBSET Throwers
           /\ Cardinality(Keeping(new)) <= MaxHeld
<1>1. /\ Keeping(map) \in SUBSET Throwers /\ IsFiniteSet(Keeping(map))
      /\ Cardinality(Keeping(map)) \in Nat
      /\ Keeping(new) \in SUBSET Throwers /\ Cardinality(Keeping(new)) \in Nat
  <2>1. Keeping(map) \in SUBSET Throwers /\ Keeping(new) \in SUBSET Throwers
    BY DEF Keeping
  <2> QED BY <2>1, CountsAreNumbers
<1>2. MaxHeld \in Nat
  BY GrenadeAssumption
<1>3. CASE Evicted(map, s) = {} /\ s \in Keeping(map)
  <2>1. Keeping(new) \subseteq Keeping(map)
    BY <1>3 DEF Keeping
  <2>2. Cardinality(Keeping(new)) <= Cardinality(Keeping(map))
    BY <1>1, <2>1, FS_Subset
  <2> QED BY <1>1, <1>2, <1>3, <2>2
<1>4. CASE Evicted(map, s) = {} /\ s \notin Keeping(map)
           /\ Cardinality(Keeping(map)) < MaxHeld
  <2>1. Keeping(new) \subseteq Keeping(map) \cup {s}
    BY <1>4 DEF Keeping
  <2>2. IsFiniteSet(Keeping(map) \cup {s})
        /\ Cardinality(Keeping(map) \cup {s}) = Cardinality(Keeping(map)) + 1
    BY <1>1, <1>4, FS_AddElement
  <2>3. Cardinality(Keeping(new)) <= Cardinality(Keeping(map) \cup {s})
    BY <2>1, <2>2, FS_Subset
  <2> QED BY <1>1, <1>2, <1>4, <2>2, <2>3
<1>5. CASE s \notin Keeping(map) /\ \E t \in Keeping(map) : Evicted(map, s) = {t}
  <2>1. PICK t \in Keeping(map) : Evicted(map, s) = {t}
    BY <1>5
  <2> DEFINE rest == Keeping(map) \ {t}
  <2>2. Keeping(new) \subseteq rest \cup {s} /\ s \notin rest
    BY <1>5, <2>1 DEF Keeping
  <2>3. IsFiniteSet(rest) /\ Cardinality(rest) = Cardinality(Keeping(map)) - 1
    BY <1>1, FS_RemoveElement
  <2> HIDE DEF rest
  <2>4. IsFiniteSet(rest \cup {s}) /\ Cardinality(rest \cup {s}) = Cardinality(rest) + 1
    BY <2>2, <2>3, FS_AddElement
  <2>5. Cardinality(Keeping(new)) <= Cardinality(rest \cup {s})
    BY <2>2, <2>4, FS_Subset
  <2> QED BY <1>1, <1>2, <2>1, <2>3, <2>4, <2>5
<1> QED BY <1>3, <1>4, <1>5, EvictedOne

LEMMA EntriesAge ==
    ASSUME MapsTyped, NEW map, Drops(map, flareOrders) \/ Drops(map, completion)
    PROVE  \A t \in Keeping(map) : map[t].age \in EntryAges
<1>1. \A t \in Throwers : map[t] # NoEntry => map[t] \in FlareEntries(Len(issued))
                                              \/ map[t] \in StopEntries(Len(issued))
  BY DEF MapsTyped, Drops
<1> QED BY <1>1 DEF Keeping, FlareEntries, StopEntries

(* An entry is told from none by its order.                                 *)
LEMMA EntriesDiffer ==
    ASSUME NEW n
    PROVE  /\ \A e \in FlareEntries(n) : e # NoEntry /\ e.order \in 1..n
           /\ \A e \in StopEntries(n) : e # NoEntry /\ e.order \in 1..n /\ e.stop \in 1..n
<1>1. NoEntry.order = 0
  BY DEF NoEntry
<1> QED BY <1>1 DEF FlareEntries, StopEntries

(* What a hook keeps of the movement order is owned once.                   *)
LEMMA RetainKeeps ==
    ASSUME OwnedInv, IssuedTyped, IssuedTyped', Len(issued) <= Len(issued'), BodyTyped,
           NEW s \in Throwers, body[s].doing \in Moves, NEW o \in 1..Len(issued'),
           RetainFlareOrder(s, o), UNCHANGED completion
    PROVE  OwnedInv'
<1>1. PICK m \in Nat, n \in 0..MaxIssued : m = Len(issued) /\ n = Len(issued') /\ m <= n
  BY DEF IssuedTyped
<1>2. PICK a, r : a = body[s].order /\ r = body[s].route
  OBVIOUS
<1>3. a \in 1..m /\ r \in 0..m
  BY <1>1, <1>2 DEF BodyTyped, OrderedBodies, Bodies
<1>4. PICK out : out = Evicted(flareOrders, s)
  OBVIOUS
<1> DEFINE entry == [order |-> a, age |-> 0, route |-> r, target |-> o, resumed |-> FALSE]
           D == out \cup {s}
           mid == Dropped(flareOrders, D)
<1>5. entry \in FlareEntries(n) /\ entry # NoEntry /\ entry.order = a
  <2>1. a \in 1..n /\ r \in 0..n /\ o \in 0..n /\ 0 \in EntryAges
    BY <1>1, <1>3, GrenadeAssumption DEF EntryAges
  <2>2. entry \in FlareEntries(n)
    BY <2>1 DEF FlareEntries
  <2> QED BY <2>2, EntriesDiffer
<1>6. /\ flareOrders' = [Dropped(flareOrders, out) EXCEPT ![s] = entry]
      /\ refs' = [GaveBack(D, {}) EXCEPT ![a] = @ + 1]
  BY <1>2, <1>4 DEF RetainFlareOrder
<1> HIDE DEF entry
<1>7. /\ flareOrders' = [t \in Throwers |-> flareOrders'[t]]
      /\ flareOrders'[s] = entry
      /\ \A t \in Throwers \ {s} : flareOrders'[t] = IF t \in out THEN NoEntry
                                                      ELSE flareOrders[t]
  BY <1>6 DEF Dropped
<1>8. \A t \in Keeping(flareOrders) : flareOrders[t].age \in EntryAges
  BY MapsDrop, EntriesAge DEF OwnedInv
<1>9. out \in SUBSET Throwers /\ Cardinality(Keeping(flareOrders')) <= MaxHeld
  BY <1>4, <1>7, <1>8, RoomMade DEF OwnedInv, MapsFit
<1>10. MapsFit'
  BY <1>9 DEF MapsFit, OwnedInv, Keeping
<1>11. MapsTyped'
  <2>1. flareOrders' \in [Throwers -> {NoEntry} \cup FlareEntries(n)]
    BY <1>1, <1>5, <1>7, RecordsGrow DEF OwnedInv, MapsTyped
  <2>2. completion' \in [Throwers -> {NoEntry} \cup StopEntries(n)]
    BY <1>1, RecordsGrow DEF OwnedInv, MapsTyped
  <2> QED BY <1>1, <2>1, <2>2 DEF MapsTyped
<1>12. ASSUME NEW x \in 1..MaxIssued
       PROVE  refs'[x] = Owning(flareOrders', completion)[x]
  <2>1. mid = [t \in Throwers |-> IF t \in D THEN NoEntry ELSE flareOrders[t]]
    BY DEF Dropped
  <2>2. Cardinality(Holding(mid, x)) =
            Cardinality(Holding(flareOrders, x)) - Cardinality(HeldBy(D, flareOrders, x))
    <3>1. D \in SUBSET Throwers
      BY <1>9
    <3>2. \A t \in Throwers \ D : mid[t] = flareOrders[t]
      BY <2>1
    <3>3. \A t \in D : mid[t] = NoEntry
      BY <2>1, <3>1
    <3> HIDE DEF mid, D
    <3> QED BY <3>1, <3>2, <3>3, EntriesGone
  <2>3. Cardinality(Holding(flareOrders', x)) =
            Cardinality(Holding(mid, x)) + (IF a = x THEN 1 ELSE 0)
    <3>1. \A t \in Throwers \ {s} : flareOrders'[t] = mid[t]
      BY <1>7, <2>1
    <3>2. mid[s] = NoEntry
      BY <2>1
    <3> HIDE DEF mid, D
    <3>3. PICK old, new : old = mid /\ new = flareOrders'
      OBVIOUS
    <3>4. /\ \A t \in Throwers \ {s} : new[t] = old[t]
          /\ old[s] = NoEntry /\ new[s] = entry /\ new[s] # NoEntry
      BY <1>5, <1>7, <3>1, <3>2, <3>3
    <3>5. Cardinality(Holding(new, x)) =
              Cardinality(Holding(old, x)) + (IF new[s].order = x THEN 1 ELSE 0)
      BY <3>4, EntryPut
    <3> QED BY <1>5, <3>3, <3>4, <3>5
  <2>4. GaveBack(D, {})[x] = refs[x] - Cardinality(HeldBy(D, flareOrders, x))
    <3>1. /\ {t \in {} : completion[t].order = x} = {}
          /\ {t \in {} : completion[t] # NoEntry /\ completion[t].stop = x} = {}
      OBVIOUS
    <3>2. GaveBack(D, {})[x] = refs[x] - Cardinality(HeldBy(D, flareOrders, x))
                                       - Cardinality({}) - Cardinality({})
      BY <3>1 DEF GaveBack, HeldBy
    <3>3. Cardinality(HeldBy(D, flareOrders, x)) \in Nat
      <4>1. HeldBy(D, flareOrders, x) \in SUBSET Throwers
        BY <1>9 DEF HeldBy
      <4> QED BY <4>1, CountsAreNumbers
    <3>4. refs[x] \in Int
      BY RefsCounted DEF OwnedInv
    <3> QED BY <3>2, <3>3, <3>4, FS_EmptySet
  <2>5. refs'[x] = GaveBack(D, {})[x] + (IF a = x THEN 1 ELSE 0)
    <3>1. PICK g : g = GaveBack(D, {})
      OBVIOUS
    <3>2. DOMAIN g = 1..MaxIssued /\ g[x] \in Int
      <4>1. refs[x] \in Int
        BY RefsCounted DEF OwnedInv
      <4>2. Cardinality(HeldBy(D, flareOrders, x)) \in Nat
        <5>1. HeldBy(D, flareOrders, x) \in SUBSET Throwers
          BY <1>9 DEF HeldBy
        <5> QED BY <5>1, CountsAreNumbers
      <4>3. DOMAIN g = 1..MaxIssued
        BY <3>1 DEF GaveBack
      <4> QED BY <2>4, <3>1, <4>1, <4>2, <4>3
    <3>3. refs' = [g EXCEPT ![a] = @ + 1]
      BY <1>6, <3>1
    <3>4. refs'[x] = g[x] + (IF a = x THEN 1 ELSE 0)
      <4>1. CASE a = x
        BY <3>2, <3>3, <4>1
      <4>2. CASE a # x
        <5>1. refs'[x] = g[x]
          BY <3>2, <3>3, <4>2
        <5> QED BY <3>2, <4>2, <5>1
      <4> QED BY <4>1, <4>2
    <3> QED BY <3>1, <3>4
  <2>6. refs[x] = Cardinality(Holding(flareOrders, x)) + Cardinality(Holding(completion, x))
                  + Cardinality(Stopping(completion, x))
    BY RefsCounted DEF OwnedInv
  <2>7. /\ Cardinality(Holding(flareOrders, x)) \in Nat
        /\ Cardinality(Holding(completion, x)) \in Nat
        /\ Cardinality(Stopping(completion, x)) \in Nat
        /\ Cardinality(HeldBy(D, flareOrders, x)) \in Nat
    <3>1. HeldBy(D, flareOrders, x) \in SUBSET Throwers
      BY <1>9 DEF HeldBy
    <3> QED BY <3>1, RefsCounted, CountsAreNumbers DEF OwnedInv
  <2>8. Owning(flareOrders', completion)[x] =
            Cardinality(Holding(flareOrders', x)) + Cardinality(Holding(completion, x))
            + Cardinality(Stopping(completion, x))
    BY OwningCounts
  <2> HIDE DEF mid, D
  <2> QED BY <2>2, <2>3, <2>4, <2>5, <2>6, <2>7, <2>8
<1>13. refs' = Owning(flareOrders', completion)
  <2>1. refs' = [x \in 1..MaxIssued |-> refs'[x]]
    BY <1>6 DEF GaveBack
  <2>2. Owning(flareOrders', completion) =
            [x \in 1..MaxIssued |-> Owning(flareOrders', completion)[x]]
    BY DEF Owning
  <2> QED BY <1>12, <2>1, <2>2
<1>14. ReferencesOwned'
  BY <1>13 DEF ReferencesOwned, Owning
<1> QED BY <1>10, <1>11, <1>14 DEF OwnedInv

(* A saved order becomes a completion, with the Stop that will end it.      *)
LEMMA TransferKeeps ==
    ASSUME OwnedInv, IssuedTyped, IssuedTyped', Len(issued') = Len(issued) + 1,
           NEW s \in Throwers, NEW p, NEW c, Drops(p, flareOrders), Drops(c, completion),
           p[s] # NoEntry, NEW out, out = Evicted(Dropped(c, {s}), s),
           flareOrders' = Dropped(p, {s}),
           completion' = [Dropped(c, out) EXCEPT
                            ![s] = [order |-> p[s].order, age |-> p[s].age,
                                    route |-> p[s].route, stop |-> NewOrder,
                                    finished |-> FALSE]],
           refs' = [GaveBack({t \in Throwers : p[t] = NoEntry},
                             {t \in Throwers : c[t] = NoEntry} \cup out \cup {s})
                       EXCEPT ![NewOrder] = @ + 1]
    PROVE  OwnedInv'
<1>1. PICK m \in Nat, n \in 1..MaxIssued : m = Len(issued) /\ n = Len(issued') /\ n = m + 1
  BY DEF IssuedTyped
<1>2. NewOrder = n
  BY <1>1 DEF NewOrder
<1>3. PICK a, age, r : a = p[s].order /\ age = p[s].age /\ r = p[s].route
  OBVIOUS
<1>4. a \in 1..m /\ age \in EntryAges /\ r \in 0..m
  <2>1. p[s] \in FlareEntries(m)
    BY <1>1 DEF OwnedInv, MapsTyped, Drops
  <2> QED BY <1>3, <2>1 DEF FlareEntries
<1> DEFINE entry == [order |-> a, age |-> age, route |-> r, stop |-> n, finished |-> FALSE]
<1>5. entry \in StopEntries(n) /\ entry # NoEntry /\ entry.order = a /\ entry.stop = n
  <2>1. a \in 1..n /\ r \in 0..n /\ n \in 1..n
    BY <1>1, <1>4
  <2>2. entry \in StopEntries(n)
    BY <1>4, <2>1 DEF StopEntries
  <2> QED BY <2>2, EntriesDiffer
<1>6. completion' = [Dropped(c, out) EXCEPT ![s] = entry]
  BY <1>2, <1>3
<1> HIDE DEF entry
<1>7. /\ completion' = [t \in Throwers |-> completion'[t]]
      /\ completion'[s] = entry
      /\ \A t \in Throwers \ {s} : completion'[t] = IF t \in out THEN NoEntry ELSE c[t]
  BY <1>6 DEF Dropped
<1>8. PICK others : others = Dropped(c, {s})
  OBVIOUS
<1>9. Drops(others, completion) /\ \A t \in Throwers \ {s} : others[t] = c[t]
  BY <1>8, DroppedDrops DEF Dropped
<1>10. Cardinality(Keeping(others)) <= MaxHeld
  BY <1>9, KeepingSubset DEF OwnedInv, MapsFit
<1>11. \A t \in Keeping(others) : others[t].age \in EntryAges
  BY <1>9, EntriesAge DEF OwnedInv
<1>12. out \in SUBSET Throwers /\ Cardinality(Keeping(completion')) <= MaxHeld
  <2>1. PICK new : new = completion'
    OBVIOUS
  <2>2. \A t \in Throwers \ {s} : new[t] = IF t \in Evicted(others, s) THEN NoEntry
                                         ELSE others[t]
    BY <1>7, <1>8, <1>9, <2>1
  <2>3. Evicted(others, s) \in SUBSET Throwers /\ Cardinality(Keeping(new)) <= MaxHeld
    BY <1>10, <1>11, <2>2, RoomMade
  <2> QED BY <1>8, <2>1, <2>3
<1>13. Drops(flareOrders', flareOrders)
  BY DroppedDrops
<1>14. MapsFit'
  <2>1. Cardinality(Keeping(flareOrders')) <= MaxHeld
    BY <1>13, KeepingSubset DEF OwnedInv, MapsFit
  <2> QED BY <1>12, <2>1 DEF MapsFit, Keeping
<1>15. MapsTyped'
  <2>1. flareOrders' \in [Throwers -> {NoEntry} \cup FlareEntries(n)]
    <3>1. PICK new : new = flareOrders'
      OBVIOUS
    <3>2. \A t \in Throwers : new[t] \in {NoEntry} \cup FlareEntries(n)
      <4>1. FlareEntries(m) \subseteq FlareEntries(n)
        BY <1>1, RecordsGrow
      <4>2. \A t \in Throwers : flareOrders[t] \in {NoEntry} \cup FlareEntries(m)
        BY <1>1 DEF OwnedInv, MapsTyped
      <4>3. \A t \in Throwers : new[t] = NoEntry \/ new[t] = flareOrders[t]
        BY <1>13, <3>1 DEF Drops
      <4> QED BY <4>1, <4>2, <4>3
    <3>3. new = [t \in Throwers |-> new[t]]
      BY <1>13, <3>1 DEF Drops
    <3> QED BY <3>1, <3>2, <3>3
  <2>2. \A t \in Throwers : c[t] \in {NoEntry} \cup StopEntries(n)
    BY <1>1, RecordsGrow DEF OwnedInv, MapsTyped, Drops
  <2>3. completion' \in [Throwers -> {NoEntry} \cup StopEntries(n)]
    BY <1>5, <1>7, <2>2
  <2> QED BY <1>1, <2>1, <2>3 DEF MapsTyped
<1>16. PICK P, C : /\ P = {t \in Throwers : p[t] = NoEntry}
                   /\ C = {t \in Throwers : c[t] = NoEntry} \cup out \cup {s}
  OBVIOUS
<1>17. P \in SUBSET Throwers /\ C \in SUBSET Throwers
  BY <1>12, <1>16
<1>18. refs' = [GaveBack(P, C) EXCEPT ![n] = @ + 1]
  BY <1>2, <1>16
<1>19. ASSUME NEW x \in 1..MaxIssued
       PROVE  refs'[x] = Owning(flareOrders', completion')[x]
  <2>1. Cardinality(Holding(p, x)) = Cardinality(Holding(flareOrders, x))
                                     - Cardinality(HeldBy(P, flareOrders, x))
    <3>1. /\ \A t \in Throwers \ P : p[t] = flareOrders[t]
          /\ \A t \in P : p[t] = NoEntry
      BY <1>16 DEF Drops
    <3> QED BY <1>17, <3>1, EntriesGone
  <2>2. Cardinality(Holding(p, x)) =
            Cardinality(Holding(flareOrders', x)) + (IF a = x THEN 1 ELSE 0)
    <3>1. PICK old : old = flareOrders'
      OBVIOUS
    <3>2. old[s] = NoEntry /\ \A t \in Throwers \ {s} : p[t] = old[t]
      BY <3>1 DEF Dropped
    <3>3. Cardinality(Holding(p, x)) =
              Cardinality(Holding(old, x)) + (IF p[s].order = x THEN 1 ELSE 0)
      BY <3>2, EntryPut
    <3> QED BY <1>3, <3>1, <3>3
  <2>3. PICK mid : mid = [t \in Throwers |-> IF t \in C THEN NoEntry ELSE completion[t]]
    OBVIOUS
  <2>4. /\ Cardinality(Holding(mid, x)) =
               Cardinality(Holding(completion, x)) - Cardinality(HeldBy(C, completion, x))
        /\ Cardinality(Stopping(mid, x)) =
               Cardinality(Stopping(completion, x)) - Cardinality(StoppedBy(C, completion, x))
    <3>1. /\ \A t \in Throwers \ C : mid[t] = completion[t]
          /\ \A t \in C : mid[t] = NoEntry
      BY <1>17, <2>3
    <3> QED BY <1>17, <3>1, EntriesGone
  <2>5. /\ Cardinality(Holding(completion', x)) =
               Cardinality(Holding(mid, x)) + (IF a = x THEN 1 ELSE 0)
        /\ Cardinality(Stopping(completion', x)) =
               Cardinality(Stopping(mid, x)) + (IF n = x THEN 1 ELSE 0)
    <3>1. PICK new : new = completion'
      OBVIOUS
    <3>2. ASSUME NEW t \in Throwers \ {s} PROVE new[t] = mid[t]
      <4>1. new[t] = IF t \in out THEN NoEntry ELSE c[t]
        BY <1>7, <3>1
      <4>2. c[t] = NoEntry \/ c[t] = completion[t]
        BY DEF Drops
      <4>3. mid[t] = IF t \in C THEN NoEntry ELSE completion[t]
        BY <2>3
      <4>4. t \in C <=> c[t] = NoEntry \/ t \in out
        BY <1>16
      <4> QED BY <4>1, <4>2, <4>3, <4>4
    <3>3. mid[s] = NoEntry /\ new[s] = entry /\ new[s] # NoEntry
      BY <1>5, <1>7, <1>16, <2>3, <3>1
    <3>4. /\ Cardinality(Holding(new, x)) =
                 Cardinality(Holding(mid, x)) + (IF new[s].order = x THEN 1 ELSE 0)
          /\ Cardinality(Stopping(new, x)) =
                 Cardinality(Stopping(mid, x)) + (IF new[s].stop = x THEN 1 ELSE 0)
      BY <3>2, <3>3, EntryPut
    <3> QED BY <1>5, <3>1, <3>3, <3>4
  <2>6. PICK h, i, j, u, v, w :
            /\ h = Cardinality(Holding(flareOrders, x))
            /\ i = Cardinality(Holding(completion, x))
            /\ j = Cardinality(Stopping(completion, x))
            /\ u = Cardinality(HeldBy(P, flareOrders, x))
            /\ v = Cardinality(HeldBy(C, completion, x))
            /\ w = Cardinality(StoppedBy(C, completion, x))
    OBVIOUS
  <2>7. h \in Nat /\ i \in Nat /\ j \in Nat /\ u \in Nat /\ v \in Nat /\ w \in Nat
        /\ Cardinality(Holding(flareOrders', x)) \in Nat
    <3>1. /\ Holding(flareOrders', x) \in SUBSET Throwers
          /\ HeldBy(P, flareOrders, x) \in SUBSET Throwers
          /\ HeldBy(C, completion, x) \in SUBSET Throwers
          /\ StoppedBy(C, completion, x) \in SUBSET Throwers
      BY <1>17 DEF Holding, HeldBy, StoppedBy
    <3> QED BY <2>6, <3>1, CountsAreNumbers, RefsCounted DEF OwnedInv
  <2>8. PICK g : g = GaveBack(P, C)
    OBVIOUS
  <2>9. DOMAIN g = 1..MaxIssued /\ g[x] = refs[x] - u - v - w
    BY <2>6, <2>8 DEF GaveBack, HeldBy, StoppedBy
  <2>10. refs[x] = h + i + j
    BY <2>6, RefsCounted DEF OwnedInv
  <2>11. g[x] \in Int /\ g[x] = h + i + j - u - v - w
    BY <2>7, <2>9, <2>10
  <2>12. refs'[x] = g[x] + (IF n = x THEN 1 ELSE 0)
    <3>1. refs' = [g EXCEPT ![n] = @ + 1]
      BY <1>18, <2>8
    <3>2. CASE n = x
      BY <2>9, <3>1, <3>2
    <3>3. CASE n # x
      <4>1. refs'[x] = g[x]
        BY <2>9, <3>1, <3>3
      <4> QED BY <2>11, <3>3, <4>1
    <3> QED BY <3>2, <3>3
  <2>13. Owning(flareOrders', completion')[x] =
             Cardinality(Holding(flareOrders', x)) + Cardinality(Holding(completion', x))
             + Cardinality(Stopping(completion', x))
    BY OwningCounts
  <2>14. Cardinality(Holding(flareOrders', x)) = h - u - (IF a = x THEN 1 ELSE 0)
    BY <2>1, <2>2, <2>6, <2>7
  <2>15. /\ Cardinality(Holding(completion', x)) = i - v + (IF a = x THEN 1 ELSE 0)
         /\ Cardinality(Stopping(completion', x)) = j - w + (IF n = x THEN 1 ELSE 0)
    BY <2>4, <2>5, <2>6, <2>7
  <2> QED BY <2>7, <2>11, <2>12, <2>13, <2>14, <2>15
<1>20. refs' = Owning(flareOrders', completion')
  <2>1. refs' = [x \in 1..MaxIssued |-> refs'[x]]
    BY <1>18 DEF GaveBack
  <2>2. Owning(flareOrders', completion') =
            [x \in 1..MaxIssued |-> Owning(flareOrders', completion')[x]]
    BY DEF Owning
  <2> QED BY <1>19, <2>1, <2>2
<1>21. ReferencesOwned'
  BY <1>20 DEF ReferencesOwned, Owning
<1> QED BY <1>14, <1>15, <1>21 DEF OwnedInv

(* An entry is marked or grows older; what it owns stays.                   *)
LEMMA MarkKeeps ==
    ASSUME OwnedInv, MapsTyped', UNCHANGED refs,
           \A t \in Throwers : /\ flareOrders'[t] = NoEntry <=> flareOrders[t] = NoEntry
                               /\ flareOrders'[t].order = flareOrders[t].order
                               /\ completion'[t] = NoEntry <=> completion[t] = NoEntry
                               /\ completion'[t].order = completion[t].order
                               /\ completion[t] # NoEntry =>
                                      completion'[t].stop = completion[t].stop
    PROVE  OwnedInv'
<1>1. /\ Keeping(flareOrders') = Keeping(flareOrders)
      /\ Keeping(completion') = Keeping(completion)
  BY DEF Keeping
<1>2. MapsFit'
  BY <1>1 DEF OwnedInv, MapsFit, Keeping
<1>3. ASSUME NEW o \in 1..MaxIssued
      PROVE  Owning(flareOrders', completion')[o] = Owning(flareOrders, completion)[o]
  <2>1. /\ Holding(flareOrders', o) = Holding(flareOrders, o)
        /\ Holding(completion', o) = Holding(completion, o)
        /\ Stopping(completion', o) = Stopping(completion, o)
    BY DEF Holding, Stopping
  <2>2. Owning(flareOrders', completion')[o] =
            Cardinality(Holding(flareOrders', o)) + Cardinality(Holding(completion', o))
            + Cardinality(Stopping(completion', o))
    BY OwningCounts
  <2>3. Owning(flareOrders, completion)[o] =
            Cardinality(Holding(flareOrders, o)) + Cardinality(Holding(completion, o))
            + Cardinality(Stopping(completion, o))
    BY OwningCounts
  <2> QED BY <2>1, <2>2, <2>3
<1>4. Owning(flareOrders', completion') = Owning(flareOrders, completion)
  <2>1. Owning(flareOrders', completion') =
            [x \in 1..MaxIssued |-> Owning(flareOrders', completion')[x]]
    BY DEF Owning
  <2>2. Owning(flareOrders, completion) =
            [x \in 1..MaxIssued |-> Owning(flareOrders, completion)[x]]
    BY DEF Owning
  <2> QED BY <1>3, <2>1, <2>2
<1>5. ReferencesOwned'
  BY <1>4 DEF OwnedInv, ReferencesOwned, Owning
<1> QED BY <1>2, <1>5 DEF OwnedInv

-----------------------------------------------------------------------------
(* Orders, soldiers and hooks.                                              *)
LEMMA ItemChanged ==
    ASSUME NEW T, NEW old \in Seq(T), NEW i \in 1..Len(old), NEW x \in T,
           NEW new, new = [old EXCEPT ![i] = x]
    PROVE  /\ new \in Seq(T) /\ Len(new) = Len(old) /\ new[i] = x
           /\ \A j \in 1..Len(old) : j # i => new[j] = old[j]
<1>1. Len(old) \in Nat /\ DOMAIN old = 1..Len(old)
  OBVIOUS
<1>2. old \in [1..Len(old) -> T]
  OBVIOUS
<1>3. new \in [1..Len(old) -> T]
  BY <1>2
<1>4. new \in Seq(T)
  BY <1>1, <1>3
<1>5. Len(new) = Len(old)
  BY <1>1, <1>3, <1>4
<1> QED BY <1>1, <1>4, <1>5

LEMMA OrderMade ==
    ASSUME IssuedTyped, CanMake, NEW s \in Throwers, NEW kind \in Kinds,
           issued' = Made(s, kind)
    PROVE  /\ IssuedTyped' /\ Len(issued') = Len(issued) + 1 /\ Len(issued) <= Len(issued')
           /\ NewOrder = Len(issued') /\ NewOrder \in 1..Len(issued')
<1>1. [s |-> s, kind |-> kind, done |-> FALSE] \in IssuedOrders
  BY DEF IssuedOrders
<1>2. issued \in Seq(IssuedOrders) /\ Len(issued) \in 0..MaxIssued /\ Len(issued) < MaxIssued
  BY DEF IssuedTyped, CanMake
<1>3. PICK new \in IssuedOrders : issued' = Append(issued, new)
  BY <1>1 DEF Made
<1>4. issued' \in Seq(IssuedOrders) /\ Len(issued') = Len(issued) + 1
  BY <1>2, <1>3, AppendProperties
<1>5. PICK n \in Nat : n = Len(issued) /\ n < MaxIssued
  BY <1>2
<1>6. Len(issued') = n + 1 /\ n + 1 \in 0..MaxIssued /\ n <= n + 1 /\ n + 1 \in 1..(n + 1)
  BY <1>4, <1>5, GrenadeAssumption
<1> QED BY <1>4, <1>5, <1>6 DEF IssuedTyped, NewOrder

LEMMA OrderMarked ==
    ASSUME IssuedTyped, NEW o, NEW done \in BOOLEAN, issued' = [issued EXCEPT ![o].done = done]
    PROVE  IssuedTyped' /\ Len(issued') = Len(issued) /\ Len(issued) <= Len(issued')
<1>1. issued \in Seq(IssuedOrders) /\ Len(issued) \in 0..MaxIssued
      /\ DOMAIN issued = 1..Len(issued)
  BY DEF IssuedTyped
<1>2. CASE o \in 1..Len(issued)
  <2>1. [issued[o] EXCEPT !.done = done] \in IssuedOrders
    <3>1. issued[o] \in IssuedOrders
      BY <1>1, <1>2
    <3> QED BY <3>1 DEF IssuedOrders
  <2>2. PICK new \in IssuedOrders : new = [issued[o] EXCEPT !.done = done]
    BY <2>1
  <2>3. issued' = [issued EXCEPT ![o] = new]
    BY <2>2
  <2>4. PICK next : next = issued'
    OBVIOUS
  <2>5. next \in Seq(IssuedOrders) /\ Len(next) = Len(issued)
    <3>1. next = [issued EXCEPT ![o] = new]
      BY <2>3, <2>4
    <3> QED BY <1>1, <1>2, <3>1, ItemChanged
  <2> QED BY <1>1, <2>4, <2>5 DEF IssuedTyped
<1>3. CASE o \notin 1..Len(issued)
  <2>1. issued' = issued
    BY <1>1, <1>3
  <2>2. PICK n : n = Len(issued)
    OBVIOUS
  <2>3. Len(issued') = n
    BY <2>1, <2>2
  <2>4. n \in 0..MaxIssued /\ n <= n
    BY <1>1, <2>2
  <2> QED BY <1>1, <2>1, <2>2, <2>3, <2>4 DEF IssuedTyped
<1> QED BY <1>2, <1>3

LEMMA OrdersSame ==
    ASSUME IssuedTyped, UNCHANGED issued
    PROVE  IssuedTyped' /\ Len(issued') = Len(issued) /\ Len(issued) <= Len(issued')
BY DEF IssuedTyped

Grows == IssuedTyped /\ IssuedTyped' /\ Len(issued) <= Len(issued')

LEMMA SoldierGrown ==
    ASSUME Grows, BodyTyped, NEW s \in Throwers
    PROVE  body[s] \in OrderedBodies(Len(issued'))
<1>1. PICK m \in Nat, n \in Nat : m = Len(issued) /\ n = Len(issued') /\ m <= n
  BY DEF Grows, IssuedTyped
<1>2. Bodies(m) \subseteq Bodies(n)
  BY <1>1, RecordsGrow
<1> QED BY <1>1, <1>2 DEF BodyTyped, OrderedBodies

LEMMA BodyChanged ==
    ASSUME Grows, BodyTyped, NEW s \in Throwers, NEW b \in OrderedBodies(Len(issued')),
           body' = [body EXCEPT ![s] = b]
    PROVE  BodyTyped'
<1>1. PICK old, new, bodies : /\ old = body /\ new = body'
                              /\ bodies = OrderedBodies(Len(issued'))
  OBVIOUS
<1>2. \A t \in Throwers : old[t] \in bodies
  BY <1>1, SoldierGrown
<1>3. old = [t \in Throwers |-> old[t]]
  BY <1>1 DEF BodyTyped
<1>4. b \in bodies /\ new = [old EXCEPT ![s] = b]
  BY <1>1
<1>5. new \in [Throwers -> bodies]
  <2>1. new = [t \in Throwers |-> IF t = s THEN b ELSE old[t]]
    BY <1>3, <1>4
  <2> QED BY <1>2, <1>4, <2>1
<1>6. OrderedBodies(Len(issued))' = bodies
  BY <1>1 DEF OrderedBodies, Bodies
<1> QED BY <1>1, <1>5, <1>6 DEF BodyTyped

LEMMA BodySame ==
    ASSUME Grows, BodyTyped, UNCHANGED body
    PROVE  BodyTyped'
<1>1. \A t \in Throwers : body[t] \in OrderedBodies(Len(issued'))
  BY SoldierGrown
<1>2. body = [t \in Throwers |-> body[t]]
  BY DEF BodyTyped
<1> QED BY <1>1, <1>2 DEF BodyTyped

LEMMA FramesSame ==
    ASSUME Grows, FramesTyped, MarksRestored, UNCHANGED <<frames, replacing, completing>>
    PROVE  FramesTyped' /\ MarksRestored'
<1>1. PICK m \in Nat, n \in Nat : m = Len(issued) /\ n = Len(issued') /\ m <= n
  BY DEF Grows, IssuedTyped
<1>2. Seq(HookFrames(m)) \subseteq Seq(HookFrames(n))
  BY <1>1, RecordsGrow
<1> QED BY <1>1, <1>2 DEF FramesTyped, MarksRestored

LEMMA FramePushed ==
    ASSUME Grows, FramesTyped, MarksRestored, NEW kind \in {"order", "submit", "stop"},
           NEW s \in Throwers, NEW o \in 1..Len(issued'),
           frames' = Append(frames, HookFrame(kind, s, o)),
           replacing' \in Nobody, completing' \in Nobody
    PROVE  FramesTyped' /\ MarksRestored'
<1>1. PICK m \in Nat, n \in Nat : m = Len(issued) /\ n = Len(issued') /\ m <= n
  BY DEF Grows, IssuedTyped
<1>2. frames \in Seq(HookFrames(n))
  BY <1>1, RecordsGrow DEF FramesTyped
<1>3. PICK new : new = HookFrame(kind, s, o)
  OBVIOUS
<1>4. new \in HookFrames(n) /\ new.replacing = replacing /\ new.completing = completing
  BY <1>1, <1>3 DEF HookFrame, HookFrames, FramesTyped
<1>5. /\ frames' \in Seq(HookFrames(n)) /\ Len(frames') = Len(frames) + 1
      /\ Len(frames) \in Nat
      /\ \A i \in 1..Len(frames) : frames'[i] = frames[i]
      /\ frames'[Len(frames) + 1] = new
  BY <1>2, <1>3, <1>4, AppendProperties
<1>6. frames' # <<>>
  BY <1>5
<1>7. frames'[1].replacing = NoThrower /\ frames'[1].completing = NoThrower
  <2>1. CASE frames = <<>>
    <3>1. frames'[1] = new
      BY <1>5, <2>1
    <3> QED BY <1>4, <2>1, <3>1 DEF MarksRestored
  <2>2. CASE frames # <<>>
    <3>1. frames'[1] = frames[1]
      BY <1>2, <1>5, <2>2
    <3> QED BY <2>2, <3>1 DEF MarksRestored
  <2> QED BY <2>1, <2>2
<1> QED BY <1>1, <1>5, <1>6, <1>7 DEF FramesTyped, MarksRestored

LEMMA FramePopped ==
    ASSUME Grows, FramesTyped, MarksRestored, frames # <<>>, Pop
    PROVE  FramesTyped' /\ MarksRestored'
<1>1. PICK m \in Nat, n \in Nat : m = Len(issued) /\ n = Len(issued') /\ m <= n
  BY DEF Grows, IssuedTyped
<1>2. frames \in Seq(HookFrames(n))
  BY <1>1, RecordsGrow DEF FramesTyped
<1>3. PICK k : k = Len(frames)
  OBVIOUS
<1>4. k \in Nat /\ k >= 1
  BY <1>2, <1>3
<1>5. /\ frames' = SubSeq(frames, 1, k - 1)
      /\ replacing' = frames[k].replacing /\ completing' = frames[k].completing
  BY <1>3 DEF Pop
<1>6. /\ frames' \in Seq(HookFrames(n)) /\ Len(frames') = k - 1
      /\ \A i \in 1..(k - 1) : frames'[i] = frames[i]
  <2>1. \A i \in 1..(k - 1) : frames[i] \in HookFrames(n)
    BY <1>2, <1>3, <1>4, ElementOfSeq
  <2>2. 1 \in Int /\ k - 1 \in Int /\ k - 1 - 1 + 1 = k - 1
        /\ (~(1 <= k - 1) => k - 1 = 0) /\ \A i \in 1..(k - 1) : 1 + i - 1 = i
    BY <1>4
  <2>3. /\ SubSeq(frames, 1, k - 1) \in Seq(HookFrames(n))
        /\ Len(SubSeq(frames, 1, k - 1)) = IF 1 <= k - 1 THEN k - 1 - 1 + 1 ELSE 0
        /\ \A i \in 1..(k - 1 - 1 + 1) : SubSeq(frames, 1, k - 1)[i] = frames[1 + i - 1]
    BY <2>1, <2>2, SubSeqProperties
  <2> QED BY <1>5, <2>2, <2>3
<1>7. frames[k] \in HookFrames(n)
  BY <1>2, <1>3, <1>4, ElementOfSeq
<1>8. replacing' \in Nobody /\ completing' \in Nobody
  BY <1>5, <1>7 DEF HookFrames
<1>9. CASE k = 1
  <2>1. frames' = <<>>
    BY <1>6, <1>9
  <2>2. replacing' = NoThrower /\ completing' = NoThrower
    BY <1>5, <1>9 DEF MarksRestored
  <2> QED BY <1>1, <1>6, <1>8, <2>1, <2>2 DEF FramesTyped, MarksRestored
<1>10. CASE k > 1
  <2>1. frames' # <<>> /\ frames'[1] = frames[1]
    BY <1>4, <1>6, <1>10
  <2> QED BY <1>1, <1>6, <1>8, <2>1 DEF FramesTyped, MarksRestored
<1> QED BY <1>4, <1>9, <1>10

LEMMA FrameStopped ==
    ASSUME Grows, FramesTyped, MarksRestored, frames # <<>>,
           frames' = [frames EXCEPT ![Len(frames)].stopped = TRUE],
           UNCHANGED <<replacing, completing>>
    PROVE  FramesTyped' /\ MarksRestored'
<1>1. PICK m \in Nat, n \in Nat : m = Len(issued) /\ n = Len(issued') /\ m <= n
  BY DEF Grows, IssuedTyped
<1>2. frames \in Seq(HookFrames(n))
  BY <1>1, RecordsGrow DEF FramesTyped
<1>3. PICK k : k = Len(frames)
  OBVIOUS
<1>4. k \in Nat /\ k >= 1
  BY <1>2, <1>3
<1>5. PICK new : new = [frames[k] EXCEPT !.stopped = TRUE]
  OBVIOUS
<1>6. frames[k] \in HookFrames(n)
  BY <1>2, <1>3, <1>4, ElementOfSeq
<1>7. new \in HookFrames(n) /\ new.replacing = frames[k].replacing
      /\ new.completing = frames[k].completing
  BY <1>5, <1>6 DEF HookFrames
<1>8. frames' = [frames EXCEPT ![k] = new]
  BY <1>3, <1>5
<1>9. frames' \in Seq(HookFrames(n)) /\ frames' # <<>>
      /\ frames'[1] = IF k = 1 THEN new ELSE frames[1]
  <2>1. PICK next : next = frames'
    OBVIOUS
  <2>2. next = [frames EXCEPT ![k] = new] /\ k \in 1..Len(frames) /\ 1 \in 1..Len(frames)
    BY <1>3, <1>4, <1>8, <2>1
  <2>3. /\ next \in Seq(HookFrames(n)) /\ Len(next) = Len(frames) /\ next[k] = new
        /\ \A j \in 1..Len(frames) : j # k => next[j] = frames[j]
    BY <1>2, <1>7, <2>2, ItemChanged
  <2>4. next # <<>>
    BY <1>3, <1>4, <2>3
  <2> QED BY <2>1, <2>2, <2>3, <2>4
<1> QED BY <1>1, <1>7, <1>9 DEF FramesTyped, MarksRestored

LEMMA TopTyped ==
    ASSUME FramesTyped, IssuedTyped, frames # <<>>
    PROVE  Top.s \in Throwers /\ Top.order \in 1..Len(issued)
<1>1. Top \in HookFrames(Len(issued))
  <2>1. frames \in Seq(HookFrames(Len(issued)))
    BY DEF FramesTyped
  <2>2. Len(frames) \in 1..Len(frames)
    BY <2>1
  <2>3. frames[Len(frames)] \in HookFrames(Len(issued))
    BY <2>1, <2>2, ElementOfSeq
  <2> QED BY <2>3 DEF Top
<1> QED BY <1>1 DEF HookFrames

LEMMA QueueHead ==
    ASSUME BodyTyped, IssuedTyped, NEW s \in Throwers, body[s].queue # <<>>
    PROVE  /\ Head(body[s].queue) \in 1..Len(issued)
           /\ Tail(body[s].queue) \in Seq(1..Len(issued))
<1>1. body[s].queue \in Seq(1..Len(issued))
  BY DEF BodyTyped, OrderedBodies, Bodies
<1> QED BY <1>1, HeadTailProperties

LEMMA BodyGrown ==
    ASSUME Grows, BodyTyped
    PROVE  body \in [Throwers -> OrderedBodies(Len(issued'))]
<1>1. PICK old, bodies : old = body /\ bodies = OrderedBodies(Len(issued'))
  OBVIOUS
<1>2. \A t \in Throwers : old[t] \in bodies
  BY <1>1, SoldierGrown
<1>3. old = [t \in Throwers |-> old[t]]
  BY <1>1 DEF BodyTyped
<1> QED BY <1>1, <1>2, <1>3

LEMMA OneSet ==
    ASSUME NEW S, NEW f \in [Throwers -> S], NEW s \in Throwers, NEW b \in S,
           NEW g, g = [f EXCEPT ![s] = b]
    PROVE  g \in [Throwers -> S]
OBVIOUS

LEMMA QueueSet ==
    ASSUME NEW n \in Nat, NEW f \in [Throwers -> OrderedBodies(n)], NEW s \in Throwers,
           NEW q \in Seq(1..n), NEW g, g = [f EXCEPT ![s].queue = q]
    PROVE  g \in [Throwers -> OrderedBodies(n)]
<1>1. PICK b, new : b = f[s] /\ new = [b EXCEPT !.queue = q]
  OBVIOUS
<1>2. b \in OrderedBodies(n)
  BY <1>1
<1>3. new \in OrderedBodies(n)
  BY <1>1, <1>2 DEF OrderedBodies, Bodies
<1>4. g = [f EXCEPT ![s] = new]
  BY <1>1
<1> QED BY <1>3, <1>4, OneSet

LEMMA MovingSet ==
    ASSUME NEW n \in Nat, NEW f \in [Throwers -> OrderedBodies(n)], NEW s \in Throwers,
           NEW v \in BOOLEAN, NEW g, g = [f EXCEPT ![s].moving = v]
    PROVE  g \in [Throwers -> OrderedBodies(n)]
<1>1. PICK b, new : b = f[s] /\ new = [b EXCEPT !.moving = v]
  OBVIOUS
<1>2. b \in OrderedBodies(n)
  BY <1>1
<1>3. new \in OrderedBodies(n)
  BY <1>1, <1>2 DEF OrderedBodies, Bodies
<1>4. g = [f EXCEPT ![s] = new]
  BY <1>1
<1> QED BY <1>3, <1>4, OneSet

LEMMA DoingSet ==
    ASSUME NEW n \in Nat, NEW f \in [Throwers -> OrderedBodies(n)], NEW s \in Throwers,
           NEW d, d \in {"idle", "attack", f[s].doing}, NEW t \in 0..n,
           NEW h, h = [f EXCEPT ![s].doing = d], NEW g, g = [h EXCEPT ![s].target = t]
    PROVE  g \in [Throwers -> OrderedBodies(n)]
<1>1. PICK b, mid, new : b = f[s] /\ mid = [b EXCEPT !.doing = d]
                         /\ new = [mid EXCEPT !.target = t]
  OBVIOUS
<1>2. b \in OrderedBodies(n)
  BY <1>1
<1>3. mid \in OrderedBodies(n)
  BY <1>1, <1>2 DEF OrderedBodies, Bodies, Moves, Kinds
<1>4. new \in OrderedBodies(n)
  BY <1>1, <1>3 DEF OrderedBodies, Bodies
<1>5. h[s] = mid
  BY <1>1
<1>6. h = [f EXCEPT ![s] = mid]
  BY <1>1
<1>7. g = [h EXCEPT ![s] = new]
  <2>1. g = [h EXCEPT ![s] = [h[s] EXCEPT !.target = t]]
    OBVIOUS
  <2> QED BY <1>1, <1>5, <2>1
<1>8. h \in [Throwers -> OrderedBodies(n)]
  BY <1>3, <1>6, OneSet
<1>9. \A k \in [Throwers -> OrderedBodies(n)], x \in OrderedBodies(n) :
         [k EXCEPT ![s] = x] \in [Throwers -> OrderedBodies(n)]
  BY OneSet
<1>10. [h EXCEPT ![s] = new] \in [Throwers -> OrderedBodies(n)]
  BY <1>4, <1>8, <1>9
<1> QED BY <1>7, <1>10

LEMMA MoveSet ==
    ASSUME NEW n \in Nat, NEW f \in [Throwers -> OrderedBodies(n)], NEW s \in Throwers,
           NEW d \in Kinds, NEW o \in 1..n,
           NEW h, h = [f EXCEPT ![s].doing = d], NEW i, i = [h EXCEPT ![s].order = o],
           NEW g, g = [i EXCEPT ![s].moving = TRUE]
    PROVE  g \in [Throwers -> OrderedBodies(n)]
<1>1. PICK b, first, second, new : /\ b = f[s] /\ first = [b EXCEPT !.doing = d]
                                   /\ second = [first EXCEPT !.order = o]
                                   /\ new = [second EXCEPT !.moving = TRUE]
  OBVIOUS
<1>2. b \in Bodies(n)
  BY <1>1 DEF OrderedBodies
<1>3. first \in Bodies(n)
  BY <1>1, <1>2 DEF Bodies
<1>4. second \in Bodies(n) /\ second.order = o
  <2>1. o \in 0..n
    OBVIOUS
  <2>2. second = [first EXCEPT !.order = o]
    BY <1>1
  <2>3. second \in Bodies(n)
    BY <1>3, <2>1, <2>2 DEF Bodies
  <2>4. second.order = o
    BY <1>3, <2>2 DEF Bodies
  <2> QED BY <2>3, <2>4
<1>5. new \in Bodies(n) /\ new.order = o
  BY <1>1, <1>4 DEF Bodies
<1>6. new \in OrderedBodies(n)
  BY <1>5 DEF OrderedBodies
<1>7. h[s] = first /\ h = [f EXCEPT ![s] = first]
  BY <1>1
<1>8. i[s] = second /\ i = [h EXCEPT ![s] = second]
  BY <1>1, <1>7
<1>9. g = [i EXCEPT ![s] = new]
  BY <1>1, <1>8
<1>10. ASSUME NEW t \in Throwers PROVE g[t] \in OrderedBodies(n)
  <2>1. CASE t = s
    <3>1. g[s] = new
      BY <1>7, <1>8, <1>9
    <3> QED BY <1>6, <2>1, <3>1
  <2>2. CASE t # s
    <3>1. g[t] = i[t] /\ i[t] = h[t] /\ h[t] = f[t]
      BY <1>7, <1>8, <1>9, <2>2
    <3> QED BY <3>1
  <2> QED BY <2>1, <2>2
<1>11. g = [t \in Throwers |-> g[t]]
  BY <1>7, <1>8, <1>9
<1> QED BY <1>10, <1>11

LEMMA OwnedSame ==
    ASSUME OwnedInv, Grows, UNCHANGED <<flareOrders, completion, refs>>
    PROVE  OwnedInv'
<1>1. PICK m \in Nat, n \in Nat : m = Len(issued) /\ n = Len(issued') /\ m <= n
  BY DEF Grows, IssuedTyped
<1>2. /\ flareOrders \in [Throwers -> {NoEntry} \cup FlareEntries(m)]
      /\ completion \in [Throwers -> {NoEntry} \cup StopEntries(m)]
      /\ FlareEntries(m) \subseteq FlareEntries(n) /\ StopEntries(m) \subseteq StopEntries(n)
  BY <1>1, RecordsGrow DEF OwnedInv, MapsTyped
<1>3. /\ flareOrders' \in [Throwers -> {NoEntry} \cup FlareEntries(n)]
      /\ completion' \in [Throwers -> {NoEntry} \cup StopEntries(n)]
  BY <1>2
<1>4. MapsTyped'
  BY <1>1, <1>3 DEF MapsTyped
<1> QED BY <1>4, MarkKeeps

LEMMA KeepOwned ==
    ASSUME OwnedInv, Grows, NEW p, NEW c, Drops(p, flareOrders), Drops(c, completion),
           Keep(p, c)
    PROVE  OwnedInv'
BY KeepKeeps DEF Grows

(* Kept are the parts one by one. *)
LEMMA InvParts ==
    ASSUME Grows, BodyTyped', FramesTyped', MarksRestored', OwnedInv'
    PROVE  GrenadeInv'
BY DEF GrenadeInv, Grows
-----------------------------------------------------------------------------
LEMMA SubmitKeeps ==
    ASSUME GrenadeInv, NEW s \in Throwers, NEW kind \in Kinds, Submit(s, kind)
    PROVE  GrenadeInv'
<1> USE DEF GrenadeInv
<1>1. Grows /\ NewOrder \in 1..Len(issued')
  BY OrderMade DEF Submit, Grows
<1>2. BodyTyped'
  <2>1. PICK n \in Nat : n = Len(issued')
    BY <1>1 DEF Grows, IssuedTyped
  <2>2. PICK q : q = Append(body[s].queue, NewOrder)
    OBVIOUS
  <2>3. body \in [Throwers -> OrderedBodies(n)]
    BY <1>1, <2>1, BodyGrown
  <2>4. body[s].queue \in Seq(1..n)
    BY <2>3 DEF OrderedBodies, Bodies
  <2>5. q \in Seq(1..n)
    BY <1>1, <2>1, <2>2, <2>4, AppendProperties
  <2>6. body' = [body EXCEPT ![s].queue = q]
    BY <2>2 DEF Submit
  <2>7. body' \in [Throwers -> OrderedBodies(n)]
    BY <2>3, <2>5, <2>6, QueueSet
  <2> QED BY <2>1, <2>7 DEF BodyTyped
<1>3. OwnedInv'
  <2>1. PICK p, c : p = Dropped(Swept.p, {s}) /\ c = Dropped(Swept.c, {s})
    OBVIOUS
  <2>2. Drops(p, flareOrders) /\ Drops(c, completion)
    BY <2>1, SweptDrops, DroppedDrops DEF OwnedInv
  <2>3. Keep(p, c)
    BY <2>1 DEF Submit
  <2> QED BY <1>1, <2>2, <2>3, KeepOwned
<1>4. FramesTyped' /\ MarksRestored'
  BY <1>1, FramesSame DEF Submit
<1> QED BY <1>1, <1>2, <1>3, <1>4, InvParts

LEMMA BeginMoveKeeps ==
    ASSUME GrenadeInv, NEW s \in Throwers, BeginMove(s)
    PROVE  GrenadeInv'
<1> USE DEF GrenadeInv
<1>1. Grows /\ UNCHANGED <<issued, frames, replacing, completing>>
  BY OrdersSame DEF BeginMove, Grows
<1>2. PICK o, p, c : /\ o = Head(body[s].queue)
                     /\ issued[o].kind \in Moves
                     /\ body' = [body EXCEPT ![s] =
                                   [doing |-> issued[o].kind, order |-> o, route |-> o,
                                    moving |-> TRUE, target |-> 0, queue |-> Tail(@.queue)]]
                     /\ Keep(p, c)
                     /\ \/ p = RouteForgotten(s).p /\ c = RouteForgotten(s).c
                        \/ p = flareOrders /\ c = completion
  <2>1. PICK f : f = IF body[s].doing \in {"move", "attackMove"} THEN RouteForgotten(s)
                     ELSE [r |-> routes, p |-> flareOrders, c |-> completion]
    OBVIOUS
  <2>2. PICK o : o = Head(body[s].queue)
    OBVIOUS
  <2>3. /\ issued[o].kind \in Moves /\ Keep(f.p, f.c)
        /\ body' = [body EXCEPT ![s] =
                      [doing |-> issued[o].kind, order |-> o, route |-> o,
                       moving |-> TRUE, target |-> 0, queue |-> Tail(@.queue)]]
    BY <2>1, <2>2 DEF BeginMove, Moves
  <2>4. \/ f.p = RouteForgotten(s).p /\ f.c = RouteForgotten(s).c
        \/ f.p = flareOrders /\ f.c = completion
    BY <2>1
  <2> QED BY <2>2, <2>3, <2>4
<1>3. BodyTyped'
  <2>1. PICK n \in Nat : n = Len(issued')
    BY <1>1 DEF Grows, IssuedTyped
  <2>2. body \in [Throwers -> OrderedBodies(n)]
    BY <1>1, <2>1, BodyGrown
  <2>3. PICK k, q : k = issued[o].kind /\ q = Tail(body[s].queue)
    OBVIOUS
  <2>4. o \in 1..n /\ q \in Seq(1..n)
    BY <1>1, <1>2, <2>1, <2>3, QueueHead DEF BeginMove
  <2> DEFINE new == [doing |-> k, order |-> o, route |-> o, moving |-> TRUE, target |-> 0,
                     queue |-> q]
  <2>5. new \in OrderedBodies(n)
    <3>1. k \in Kinds \cup {"idle", "attack"} /\ o \in 0..n /\ 0 \in 0..n /\ o # 0
      BY <1>2, <2>3, <2>4 DEF Kinds, Moves
    <3>2. new \in Bodies(n) /\ new.order # 0
      BY <2>4, <3>1 DEF Bodies
    <3> QED BY <3>2 DEF OrderedBodies
  <2>6. body' = [body EXCEPT ![s] = new]
    BY <1>2, <2>3
  <2> HIDE DEF new
  <2>7. body' \in [Throwers -> OrderedBodies(n)]
    BY <2>2, <2>5, <2>6, OneSet
  <2> QED BY <2>1, <2>7 DEF BodyTyped
<1>4. OwnedInv'
  <2>1. Drops(p, flareOrders) /\ Drops(c, completion)
    BY <1>2, ForgottenDrops, MapsDrop DEF OwnedInv
  <2> QED BY <1>1, <1>2, <2>1, KeepOwned
<1>5. FramesTyped' /\ MarksRestored'
  BY <1>1, FramesSame
<1> QED BY <1>1, <1>3, <1>4, <1>5, InvParts

(* An attack replaces the movement: the hook goes on the stack, and for     *)
(* smoke the order is kept.                                                 *)
LEMMA OrderBeginsKeeps ==
    ASSUME GrenadeInv, Grows, NEW s \in Throwers, NEW o \in 1..Len(issued'), NEW kind,
           OrderBegins(s, o, kind)
    PROVE  FramesTyped' /\ MarksRestored' /\ OwnedInv'
<1> USE DEF GrenadeInv
<1>1. replacing' = s \/ replacing' = replacing
  BY DEF OrderBegins
<1>2. /\ frames' = Append(frames, HookFrame("order", s, o))
      /\ UNCHANGED <<completion, completing>>
  BY DEF OrderBegins
<1>3. FramesTyped' /\ MarksRestored'
  <2>1. replacing' \in Nobody /\ completing' \in Nobody
    BY <1>1, <1>2 DEF FramesTyped, Nobody
  <2> QED BY <1>2, <2>1, FramePushed
<1>4. RetainFlareOrder(s, o) \/ UNCHANGED <<flareOrders, refs>>
  BY DEF OrderBegins
<1>5. CASE RetainFlareOrder(s, o)
  <2>1. body[s].doing \in Moves
    BY DEF OrderBegins, Moves
  <2> QED BY <1>2, <1>3, <1>5, <2>1, RetainKeeps DEF Grows
<1>6. CASE UNCHANGED <<flareOrders, refs>>
  BY <1>2, <1>3, <1>6, OwnedSame
<1> QED BY <1>4, <1>5, <1>6

LEMMA QueueTaken ==
    ASSUME GrenadeInv, Grows, NEW s \in Throwers, body[s].queue # <<>>,
           body' = [body EXCEPT ![s].queue = Tail(@)]
    PROVE  BodyTyped' /\ Head(body[s].queue) \in 1..Len(issued')
<1>1. PICK m \in Nat, n \in Nat : m = Len(issued) /\ n = Len(issued') /\ m <= n
  BY DEF Grows, IssuedTyped
<1>2. PICK q, o : q = Tail(body[s].queue) /\ o = Head(body[s].queue)
  OBVIOUS
<1>3. q \in Seq(1..m) /\ o \in 1..m
  BY <1>1, <1>2, QueueHead DEF GrenadeInv
<1>4. q \in Seq(1..n) /\ o \in 1..n
  BY <1>1, <1>3, RecordsGrow
<1>5. body \in [Throwers -> OrderedBodies(n)]
  BY <1>1, BodyGrown DEF GrenadeInv
<1>6. PICK old, new : old = body /\ new = body'
  OBVIOUS
<1>7. new \in [Throwers -> OrderedBodies(n)]
  <2>1. old \in [Throwers -> OrderedBodies(n)]
    BY <1>5, <1>6
  <2>2. new = [old EXCEPT ![s].queue = q]
    BY <1>2, <1>6
  <2> QED BY <1>1, <1>4, <2>1, <2>2, QueueSet
<1> QED BY <1>1, <1>2, <1>4, <1>6, <1>7 DEF BodyTyped

LEMMA AttackSubmittedKeeps ==
    ASSUME GrenadeInv, NEW s \in Throwers, AttackSubmitted(s)
    PROVE  GrenadeInv'
<1>1. Grows
  BY OrdersSame DEF AttackSubmitted, Grows, GrenadeInv
<1>2. BodyTyped' /\ Head(body[s].queue) \in 1..Len(issued')
  BY <1>1, QueueTaken DEF AttackSubmitted
<1>3. FramesTyped' /\ MarksRestored' /\ OwnedInv'
  BY <1>1, <1>2, OrderBeginsKeeps DEF AttackSubmitted
<1> QED BY <1>1, <1>2, <1>3, InvParts

LEMMA AttackOnTheWayKeeps ==
    ASSUME GrenadeInv, NEW s \in Throwers, NEW kind \in {"smoke", "throw"},
           AttackOnTheWay(s, kind)
    PROVE  GrenadeInv'
<1>1. Grows /\ NewOrder \in 1..Len(issued')
  <2>1. CanMake /\ issued' = Made(s, kind) /\ kind \in Kinds
    BY DEF AttackOnTheWay, Kinds
  <2> QED BY <2>1, OrderMade DEF Grows, GrenadeInv
<1>2. BodyTyped'
  BY <1>1, BodySame DEF AttackOnTheWay, GrenadeInv
<1>3. FramesTyped' /\ MarksRestored' /\ OwnedInv'
  BY <1>1, OrderBeginsKeeps DEF AttackOnTheWay
<1> QED BY <1>1, <1>2, <1>3, InvParts

LEMMA MovingChanged ==
    ASSUME GrenadeInv, Grows, NEW s \in Throwers, NEW v \in BOOLEAN,
           body' = [body EXCEPT ![s].moving = v]
    PROVE  BodyTyped'
<1>1. PICK n \in Nat : n = Len(issued')
  BY DEF Grows, IssuedTyped
<1>2. body \in [Throwers -> OrderedBodies(n)]
  BY <1>1, BodyGrown DEF GrenadeInv
<1>3. body' \in [Throwers -> OrderedBodies(n)]
  BY <1>1, <1>2, MovingSet
<1> QED BY <1>1, <1>3 DEF BodyTyped

LEMMA ChassisStopKeeps ==
    ASSUME GrenadeInv, NEW s \in Throwers, ChassisStop(s)
    PROVE  GrenadeInv'
<1> USE DEF GrenadeInv
<1>1. Grows
  BY OrdersSame DEF ChassisStop, Grows
<1>2. BodyTyped'
  BY <1>1, MovingChanged DEF ChassisStop
<1>3. FramesTyped' /\ MarksRestored'
  BY <1>1, FrameStopped DEF ChassisStop
<1>4. OwnedInv'
  <2>1. PICK p, c : /\ Keep(p, c)
                    /\ \/ p = RouteForgotten(s).p /\ c = RouteForgotten(s).c
                       \/ p = flareOrders /\ c = completion
    <3>1. PICK f : f = IF replacing = s THEN [r |-> routes, p |-> flareOrders, c |-> completion]
                       ELSE RouteForgotten(s)
      OBVIOUS
    <3>2. Keep(f.p, f.c)
      BY <3>1 DEF ChassisStop
    <3>3. \/ f.p = RouteForgotten(s).p /\ f.c = RouteForgotten(s).c
          \/ f.p = flareOrders /\ f.c = completion
      BY <3>1
    <3> QED BY <3>2, <3>3
  <2>2. Drops(p, flareOrders) /\ Drops(c, completion)
    BY <2>1, ForgottenDrops, MapsDrop DEF OwnedInv
  <2> QED BY <1>1, <2>1, <2>2, KeepOwned
<1> QED BY <1>1, <1>2, <1>3, <1>4, InvParts

LEMMA DoingChanged ==
    ASSUME GrenadeInv, Grows, NEW s \in Throwers, NEW d, d \in {"idle", "attack", body[s].doing},
           NEW t \in 0..Len(issued'),
           body' = [body EXCEPT ![s].doing = d, ![s].target = t]
    PROVE  BodyTyped'
<1>1. PICK n \in Nat : n = Len(issued')
  BY DEF Grows, IssuedTyped
<1>2. body \in [Throwers -> OrderedBodies(n)]
  BY <1>1, BodyGrown DEF GrenadeInv
<1>3. PICK old, new : old = body /\ new = body'
  OBVIOUS
<1>4. new \in [Throwers -> OrderedBodies(n)]
  <2>1. old \in [Throwers -> OrderedBodies(n)] /\ t \in 0..n /\ d \in {"idle", "attack", old[s].doing}
    BY <1>1, <1>2, <1>3
  <2>2. PICK mid : mid = [old EXCEPT ![s].doing = d] /\ new = [mid EXCEPT ![s].target = t]
    BY <1>3
  <2> QED BY <1>1, <2>1, <2>2, DoingSet
<1> QED BY <1>1, <1>3, <1>4 DEF BodyTyped

LEMMA OrderEndsKeeps ==
    ASSUME GrenadeInv, OrderEnds
    PROVE  GrenadeInv'
<1> USE DEF GrenadeInv
<1>1. PICK s, o, of : s = Top.s /\ o = Top.order /\ of = body[s].order
  OBVIOUS
<1>2. s \in Throwers /\ o \in 1..Len(issued) /\ frames # <<>>
  BY <1>1, TopTyped DEF OrderEnds
<1>3. Grows
  <2>1. PICK done \in BOOLEAN : issued' = [issued EXCEPT ![of].done = @ \/ done]
    BY <1>1 DEF OrderEnds
  <2>2. PICK d \in BOOLEAN : d = (issued[of].done \/ done)
    OBVIOUS
  <2>3. issued' = [issued EXCEPT ![of].done = d]
    BY <2>1, <2>2
  <2> QED BY <2>3, OrderMarked DEF Grows
<1>4. BodyTyped'
  <2>1. PICK d : d = IF Len(frames) = 1 THEN "attack" ELSE body[s].doing
    OBVIOUS
  <2>2. o \in 0..Len(issued')
    BY <1>2, <1>3 DEF Grows, IssuedTyped
  <2>3. body' = [body EXCEPT ![s].doing = d, ![s].target = o]
    BY <1>1, <2>1 DEF OrderEnds
  <2>4. d \in {"idle", "attack", body[s].doing}
    BY <2>1
  <2> QED BY <1>2, <1>3, <2>2, <2>3, <2>4, DoingChanged
<1>5. FramesTyped' /\ MarksRestored'
  BY <1>2, <1>3, FramePopped DEF OrderEnds
<1>6. OwnedInv'
  BY <1>3, OwnedSame DEF OrderEnds
<1> QED BY <1>3, <1>4, <1>5, <1>6, InvParts

LEMMA ArriveKeeps ==
    ASSUME GrenadeInv, NEW s \in Throwers, Arrive(s)
    PROVE  GrenadeInv'
<1>1. Grows
  BY OrdersSame DEF Arrive, Grows, GrenadeInv
<1>2. BodyTyped'
  BY <1>1, MovingChanged DEF Arrive
<1>3. FramesTyped' /\ MarksRestored' /\ OwnedInv'
  BY <1>1, FramesSame, OwnedSame DEF Arrive, GrenadeInv
<1> QED BY <1>1, <1>2, <1>3, InvParts

LEMMA TurnAwayKeeps ==
    ASSUME GrenadeInv, NEW s \in Throwers, TurnAway(s)
    PROVE  GrenadeInv'
<1>1. Grows
  BY OrdersSame DEF TurnAway, Grows, GrenadeInv
<1>2. BodyTyped'
  BY <1>1, BodySame DEF TurnAway, GrenadeInv
<1>3. FramesTyped' /\ MarksRestored'
  BY <1>1, FramesSame DEF TurnAway, GrenadeInv
<1>4. OwnedInv'
  <2>1. PICK p, c : p = RouteForgotten(s).p /\ c = RouteForgotten(s).c
    OBVIOUS
  <2>2. Keep(p, c)
    BY <2>1 DEF TurnAway
  <2>3. Drops(p, flareOrders) /\ Drops(c, completion)
    BY <2>1, ForgottenDrops DEF GrenadeInv, OwnedInv
  <2> QED BY <1>1, <2>2, <2>3, KeepOwned DEF GrenadeInv
<1> QED BY <1>1, <1>2, <1>3, <1>4, InvParts

LEMMA ThrowQueuedKeeps ==
    ASSUME GrenadeInv, NEW s \in Throwers, ThrowQueued(s)
    PROVE  GrenadeInv'
<1> USE DEF GrenadeInv
<1>1. Grows /\ UNCHANGED <<issued, completion, refs, frames, replacing, completing>>
  BY OrdersSame DEF ThrowQueued, Grows
<1>2. PICK success \in BOOLEAN :
          /\ body' = body \/ body' = [body EXCEPT ![s].moving = TRUE]
          /\ \/ flareOrders' = flareOrders
             \/ /\ flareOrders[s] # NoEntry
                /\ flareOrders' = [flareOrders EXCEPT ![s].resumed = success, ![s].age = 0]
  <2>1. PICK r, goes, mine :
            /\ mine = (goes /\ flareOrders[s] # NoEntry /\ flareOrders[s].target = r.target)
            /\ \E success \in BOOLEAN :
                  /\ body' = IF goes /\ success THEN [body EXCEPT ![s].moving = TRUE] ELSE body
                  /\ flareOrders' = IF mine THEN [flareOrders EXCEPT ![s].resumed = success,
                                                                    ![s].age = 0]
                                    ELSE flareOrders
    BY DEF ThrowQueued
  <2>2. PICK success \in BOOLEAN :
            /\ body' = IF goes /\ success THEN [body EXCEPT ![s].moving = TRUE] ELSE body
            /\ flareOrders' = IF mine THEN [flareOrders EXCEPT ![s].resumed = success,
                                                              ![s].age = 0]
                              ELSE flareOrders
    BY <2>1
  <2>3. body' = body \/ body' = [body EXCEPT ![s].moving = TRUE]
    BY <2>2
  <2>4. CASE mine
    BY <2>1, <2>2, <2>3, <2>4
  <2>5. CASE ~mine
    BY <2>2, <2>3, <2>5
  <2> QED BY <2>4, <2>5
<1>3. BodyTyped'
  BY <1>1, <1>2, BodySame, MovingChanged
<1>4. FramesTyped' /\ MarksRestored'
  BY <1>1, FramesSame
<1>5. CASE flareOrders' = flareOrders
  BY <1>1, <1>3, <1>4, <1>5, OwnedSame, InvParts
<1>6. CASE /\ flareOrders[s] # NoEntry
           /\ flareOrders' = [flareOrders EXCEPT ![s].resumed = success, ![s].age = 0]
  <2>1. PICK n, old, new : n = Len(issued) /\ old = flareOrders /\ new = flareOrders'
    OBVIOUS
  <2>2. PICK e, mid, f : /\ e = old[s] /\ mid = [e EXCEPT !.resumed = success]
                         /\ f = [mid EXCEPT !.age = 0]
    OBVIOUS
  <2>3. old \in [Throwers -> {NoEntry} \cup FlareEntries(n)]
    BY <2>1 DEF OwnedInv, MapsTyped
  <2>4. e \in FlareEntries(n)
    BY <1>6, <2>1, <2>2, <2>3
  <2>5. mid \in FlareEntries(n) /\ mid.order = e.order
    BY <2>2, <2>4 DEF FlareEntries
  <2>6. f \in FlareEntries(n) /\ f.order = e.order
    <3>1. 0 \in EntryAges
      BY GrenadeAssumption DEF EntryAges
    <3> QED BY <2>2, <2>5, <3>1 DEF FlareEntries
  <2>7. new = [old EXCEPT ![s].resumed = success, ![s].age = 0]
    BY <1>6, <2>1
  <2>8. PICK h : h = [old EXCEPT ![s].resumed = success]
    OBVIOUS
  <2>9. h = [old EXCEPT ![s] = mid] /\ new = [h EXCEPT ![s].age = 0]
    BY <2>2, <2>7, <2>8
  <2>10. h[s] = mid /\ new = [h EXCEPT ![s] = f]
    BY <2>2, <2>3, <2>9
  <2>11. /\ new = [t \in Throwers |-> new[t]] /\ new[s] = f
         /\ \A t \in Throwers \ {s} : new[t] = old[t]
    BY <2>3, <2>9, <2>10
  <2>12. new \in [Throwers -> {NoEntry} \cup FlareEntries(n)]
    BY <2>3, <2>6, <2>11
  <2>13. MapsTyped'
    BY <1>1, <2>1, <2>12 DEF MapsTyped, OwnedInv
  <2>14. \A t \in Throwers : /\ new[t] = NoEntry <=> old[t] = NoEntry
                             /\ new[t].order = old[t].order
    BY <2>2, <2>4, <2>6, <2>11, EntriesDiffer
  <2>15. OwnedInv'
    BY <1>1, <2>1, <2>13, <2>14, MarkKeeps
  <2> QED BY <1>1, <1>3, <1>4, <2>15, InvParts
<1> QED BY <1>2, <1>5, <1>6

LEMMA SubmitEndsKeeps ==
    ASSUME GrenadeInv, SubmitEnds
    PROVE  GrenadeInv'
<1> USE DEF GrenadeInv
<1>1. Grows
  BY OrdersSame DEF SubmitEnds, Grows
<1>2. BodyTyped' /\ OwnedInv'
  BY <1>1, BodySame, OwnedSame DEF SubmitEnds
<1>3. FramesTyped' /\ MarksRestored'
  BY <1>1, FramePopped DEF SubmitEnds
<1> QED BY <1>1, <1>2, <1>3, InvParts

LEMMA StopInitKeeps ==
    ASSUME GrenadeInv, NEW s \in Throwers, StopInit(s)
    PROVE  GrenadeInv'
<1> USE DEF GrenadeInv
<1>1. Grows
  BY OrdersSame DEF StopInit, Grows
<1>2. BodyTyped' /\ Head(body[s].queue) \in 1..Len(issued')
  BY <1>1, QueueTaken DEF StopInit
<1>3. OwnedInv'
  BY <1>1, OwnedSame DEF StopInit
<1>4. FramesTyped' /\ MarksRestored'
  <2>1. PICK o : o = Head(body[s].queue)
    OBVIOUS
  <2>2. /\ frames' = Append(frames, HookFrame("stop", s, o))
        /\ completing' = s \/ completing' = NoThrower
        /\ replacing' = replacing
    BY <2>1 DEF StopInit
  <2>3. replacing' \in Nobody /\ completing' \in Nobody
    BY <2>2 DEF FramesTyped, Nobody
  <2> QED BY <1>1, <1>2, <2>1, <2>2, <2>3, FramePushed
<1> QED BY <1>1, <1>2, <1>3, <1>4, InvParts

LEMMA ReleaseSubmittedKeeps ==
    ASSUME GrenadeInv, NEW s \in Throwers, ReleaseSubmitted(s)
    PROVE  GrenadeInv'
<1> USE DEF GrenadeInv
<1>1. Grows /\ NewOrder \in 1..Len(issued') /\ Len(issued') = Len(issued) + 1
  <2>1. CanMake /\ issued' = Made(s, "stop") /\ "stop" \in Kinds
    BY DEF ReleaseSubmitted, Kinds
  <2> QED BY <2>1, OrderMade DEF Grows
<1>2. BodyTyped'
  <2>1. PICK n \in Nat : n = Len(issued')
    BY <1>1 DEF Grows, IssuedTyped
  <2>2. PICK q : q = Append(body[s].queue, NewOrder)
    OBVIOUS
  <2>3. body \in [Throwers -> OrderedBodies(n)]
    BY <1>1, <2>1, BodyGrown
  <2>4. body[s].queue \in Seq(1..n)
    BY <2>3 DEF OrderedBodies, Bodies
  <2>5. q \in Seq(1..n)
    BY <1>1, <2>1, <2>2, <2>4, AppendProperties
  <2>6. body' = [body EXCEPT ![s].queue = q]
    BY <2>2 DEF ReleaseSubmitted
  <2>7. body' \in [Throwers -> OrderedBodies(n)]
    BY <2>3, <2>5, <2>6, QueueSet
  <2> QED BY <2>1, <2>7 DEF BodyTyped
<1>3. IF /\ Swept.p[s] # NoEntry /\ Swept.p[s].resumed /\ body[s].moving
         /\ StillTheRoute(s, Swept.p[s]) /\ Swept.p[s].target = body[s].target
      THEN /\ flareOrders' = Dropped(Swept.p, {s})
           /\ completion' = [Dropped(Swept.c, Evicted(Dropped(Swept.c, {s}), s)) EXCEPT
                               ![s] = [order |-> Swept.p[s].order, age |-> Swept.p[s].age,
                                       route |-> Swept.p[s].route, stop |-> NewOrder,
                                       finished |-> FALSE]]
           /\ refs' = [GaveBack({t \in Throwers : Swept.p[t] = NoEntry},
                                {t \in Throwers : Swept.c[t] = NoEntry}
                                    \cup Evicted(Dropped(Swept.c, {s}), s) \cup {s})
                         EXCEPT ![NewOrder] = @ + 1]
           /\ frames' = Append(frames, HookFrame("submit", s, NewOrder))
           /\ completing' = s
      ELSE /\ Keep(Dropped(Swept.p, {s}), Dropped(Swept.c, {s}))
           /\ UNCHANGED <<frames, completing>>
  BY Zenon DEF ReleaseSubmitted
<1>4. Drops(Swept.p, flareOrders) /\ Drops(Swept.c, completion) /\ replacing' = replacing
  BY SweptDrops DEF OwnedInv, ReleaseSubmitted
<1>5. CASE Swept.p[s] # NoEntry /\ Swept.p[s].resumed /\ body[s].moving
           /\ StillTheRoute(s, Swept.p[s]) /\ Swept.p[s].target = body[s].target
  <2>1. OwnedInv'
    <3>1. \A out : out = Evicted(Dropped(Swept.c, {s}), s) => OwnedInv'
      BY <1>1, <1>3, <1>4, <1>5, TransferKeeps DEF Grows
    <3> QED BY <3>1
  <2>2. replacing' \in Nobody /\ completing' \in Nobody
    BY <1>3, <1>4, <1>5 DEF FramesTyped, Nobody
  <2>3. FramesTyped' /\ MarksRestored'
    BY <1>1, <1>3, <1>5, <2>2, FramePushed
  <2> QED BY <1>1, <1>2, <2>1, <2>3, InvParts
<1>6. CASE ~(/\ Swept.p[s] # NoEntry /\ Swept.p[s].resumed /\ body[s].moving
             /\ StillTheRoute(s, Swept.p[s]) /\ Swept.p[s].target = body[s].target)
  <2>1. PICK p, c : p = Dropped(Swept.p, {s}) /\ c = Dropped(Swept.c, {s})
    OBVIOUS
  <2>2. Drops(p, flareOrders) /\ Drops(c, completion)
    BY <1>4, <2>1, DroppedDrops
  <2>3. Keep(p, c) /\ UNCHANGED <<frames, completing>>
    BY <1>3, <1>6, <2>1
  <2>4. OwnedInv'
    BY <1>1, <2>2, <2>3, KeepOwned
  <2>5. FramesTyped' /\ MarksRestored'
    BY <1>1, <1>4, <2>3, FramesSame
  <2> QED BY <1>1, <1>2, <2>4, <2>5, InvParts
<1> QED BY <1>5, <1>6

LEMMA StopInitEndsKeeps ==
    ASSUME GrenadeInv, StopInitEnds
    PROVE  GrenadeInv'
<1> USE DEF GrenadeInv
<1>1. PICK s, o : s = Top.s /\ o = Top.order
  OBVIOUS
<1>2. s \in Throwers /\ o \in 1..Len(issued) /\ frames # <<>>
  BY <1>1, TopTyped DEF StopInitEnds
<1>3. PICK done \in BOOLEAN, cleared \in BOOLEAN :
          /\ issued' = [issued EXCEPT ![o].done = done]
          /\ body' = [body EXCEPT ![s].doing = "idle", ![s].target = IF cleared THEN 0 ELSE @]
          /\ \/ completion' = completion
             \/ /\ completion[s] # NoEntry
                /\ completion' = [completion EXCEPT ![s].finished = done]
  <2>1. PICK done \in BOOLEAN, cleared \in BOOLEAN, mine \in BOOLEAN :
            /\ mine = (completion[s] # NoEntry /\ completion[s].stop = o)
            /\ issued' = [issued EXCEPT ![o].done = done]
            /\ body' = [body EXCEPT ![s].doing = "idle", ![s].target = IF cleared THEN 0 ELSE @]
            /\ completion' = IF mine THEN [completion EXCEPT ![s].finished = done] ELSE completion
    BY <1>1 DEF StopInitEnds
  <2>2. CASE mine
    BY <2>1, <2>2
  <2>3. CASE ~mine
    BY <2>1, <2>3
  <2> QED BY <2>2, <2>3
<1>4. Grows
  BY <1>3, OrderMarked DEF Grows
<1>5. BodyTyped'
  <2>1. PICK t : t = IF cleared THEN 0 ELSE body[s].target
    OBVIOUS
  <2>2. t \in 0..Len(issued')
    <3>1. PICK n \in Nat : n = Len(issued')
      BY <1>4 DEF Grows, IssuedTyped
    <3>2. body[s] \in OrderedBodies(n)
      BY <1>2, <1>4, <3>1, BodyGrown
    <3>3. body[s].target \in 0..n
      BY <3>2 DEF OrderedBodies, Bodies
    <3> QED BY <2>1, <3>1, <3>3
  <2>3. body' = [body EXCEPT ![s].doing = "idle", ![s].target = t]
    <3>1. PICK mid : mid = [body EXCEPT ![s].doing = "idle"]
      OBVIOUS
    <3>2. mid[s].target = body[s].target
      <4>1. body[s] \in Bodies(Len(issued)) /\ DOMAIN body = Throwers
        BY <1>2 DEF BodyTyped, OrderedBodies
      <4>2. mid[s] = [body[s] EXCEPT !.doing = "idle"]
        BY <1>2, <3>1, <4>1
      <4> QED BY <4>1, <4>2 DEF Bodies
    <3>3. body' = [mid EXCEPT ![s].target = IF cleared THEN 0 ELSE @]
      BY <1>3, <3>1
    <3>4. body' = [mid EXCEPT ![s].target = t]
      BY <2>1, <3>2, <3>3
    <3> QED BY <3>1, <3>4
  <2> QED BY <1>2, <1>4, <2>2, <2>3, DoingChanged
<1>6. FramesTyped' /\ MarksRestored'
  BY <1>2, <1>4, FramePopped DEF StopInitEnds
<1>7. UNCHANGED <<flareOrders, refs>>
  BY DEF StopInitEnds
<1>8. CASE completion' = completion
  BY <1>4, <1>5, <1>6, <1>7, <1>8, OwnedSame, InvParts
<1>9. CASE completion[s] # NoEntry /\ completion' = [completion EXCEPT ![s].finished = done]
  <2>1. PICK n, m, old, new : /\ n = Len(issued') /\ m = Len(issued)
                              /\ old = completion /\ new = completion'
    OBVIOUS
  <2>2. m = n
    BY <1>3, <2>1, OrderMarked
  <2>3. old \in [Throwers -> {NoEntry} \cup StopEntries(n)]
    BY <2>1, <2>2 DEF OwnedInv, MapsTyped
  <2>4. PICK e, f : e = old[s] /\ f = [e EXCEPT !.finished = done]
    OBVIOUS
  <2>5. e \in StopEntries(n)
    BY <1>2, <1>9, <2>1, <2>3, <2>4
  <2>6. f \in StopEntries(n) /\ f.order = e.order /\ f.stop = e.stop
    BY <2>4, <2>5 DEF StopEntries
  <2>7. new = [old EXCEPT ![s] = f]
    BY <1>9, <2>1, <2>4
  <2>8. /\ new \in [Throwers -> {NoEntry} \cup StopEntries(n)] /\ new[s] = f
        /\ \A t \in Throwers \ {s} : new[t] = old[t]
    BY <1>2, <2>3, <2>6, <2>7
  <2>9. MapsTyped'
    BY <1>7, <2>1, <2>2, <2>8 DEF MapsTyped, OwnedInv
  <2>10. \A t \in Throwers : /\ new[t] = NoEntry <=> old[t] = NoEntry
                             /\ new[t].order = old[t].order
                             /\ old[t] # NoEntry => new[t].stop = old[t].stop
    BY <2>4, <2>5, <2>6, <2>8, EntriesDiffer
  <2>11. OwnedInv'
    BY <1>7, <2>1, <2>9, <2>10, MarkKeeps
  <2> QED BY <1>4, <1>5, <1>6, <2>11, InvParts
<1> QED BY <1>3, <1>8, <1>9

LEMMA AiUpdateKeeps ==
    ASSUME GrenadeInv, NEW s \in Throwers, AiUpdate(s)
    PROVE  GrenadeInv'
<1> USE DEF GrenadeInv
<1>1. Drops(Swept.p, flareOrders) /\ Drops(Swept.c, completion)
  BY SweptDrops DEF OwnedInv
<1>2. PICK p, c : Keep(p, c) /\ Drops(p, flareOrders) /\ Drops(c, completion)
  <2>1. PICK due : Keep(Swept.p, IF due THEN Dropped(Swept.c, {s}) ELSE Swept.c)
    BY Zenon DEF AiUpdate
  <2>2. CASE due
    <3>1. Keep(Swept.p, Dropped(Swept.c, {s}))
      BY <2>1, <2>2
    <3>2. Drops(Dropped(Swept.c, {s}), completion)
      BY <1>1, DroppedDrops
    <3> QED BY <1>1, <3>1, <3>2
  <2>3. CASE ~due
    BY <1>1, <2>1, <2>3
  <2> QED BY <2>2, <2>3
<1>3. UNCHANGED <<frames, replacing, completing>>
  BY DEF AiUpdate
<1>4. Grows /\ BodyTyped'
  <2>1. \/ \E e : /\ e = Swept.c[s] /\ e # NoEntry /\ CanMake
               /\ issued' = Made(s, issued[e.order].kind)
               /\ body' = [body EXCEPT ![s].doing = issued[e.order].kind, ![s].order = NewOrder,
                                       ![s].moving = TRUE]
        \/ UNCHANGED <<issued, body>>
    BY Zenon DEF AiUpdate
  <2>2. CASE UNCHANGED <<issued, body>>
    <3>1. Grows
      BY <2>2, OrdersSame DEF Grows
    <3> QED BY <2>2, <3>1, BodySame
  <2>3. CASE \E e : /\ e = Swept.c[s] /\ e # NoEntry /\ CanMake
               /\ issued' = Made(s, issued[e.order].kind)
               /\ body' = [body EXCEPT ![s].doing = issued[e.order].kind, ![s].order = NewOrder,
                                       ![s].moving = TRUE]
    <3>1. PICK e, k, o : /\ e = Swept.c[s] /\ e # NoEntry /\ CanMake
                         /\ k = issued[e.order].kind /\ o = NewOrder
      BY <2>3
    <3>2. issued' = Made(s, k)
      BY <2>3, <3>1
    <3>3. body' = [body EXCEPT ![s].doing = k, ![s].order = o, ![s].moving = TRUE]
      BY <2>3, <3>1
    <3>4. k \in Kinds
      <4>1. e \in StopEntries(Len(issued))
        BY <1>1, <3>1 DEF Drops, OwnedInv, MapsTyped
      <4>2. e.order \in 1..Len(issued)
        BY <4>1, EntriesDiffer
      <4>3. issued[e.order] \in IssuedOrders
        BY <4>2, ElementOfSeq DEF IssuedTyped
      <4> QED BY <3>1, <4>3 DEF IssuedOrders
    <3>5. Grows /\ o \in 1..Len(issued')
      BY <3>1, <3>2, <3>4, OrderMade DEF Grows
    <3>6. BodyTyped'
      <4>1. PICK n \in Nat : n = Len(issued')
        BY <3>5 DEF Grows, IssuedTyped
      <4>2. PICK old, new : old = body /\ new = body'
        OBVIOUS
      <4>3. old \in [Throwers -> OrderedBodies(n)] /\ o \in 1..n
        BY <3>5, <4>1, <4>2, BodyGrown
      <4>4. PICK h, i : /\ h = [old EXCEPT ![s].doing = k] /\ i = [h EXCEPT ![s].order = o]
                        /\ new = [i EXCEPT ![s].moving = TRUE]
        BY <3>3, <4>2
      <4>5. new \in [Throwers -> OrderedBodies(n)]
        BY <3>4, <4>1, <4>3, <4>4, MoveSet
      <4> QED BY <4>1, <4>2, <4>5 DEF BodyTyped
    <3> QED BY <3>5, <3>6
  <2> QED BY <2>1, <2>2, <2>3
<1>5. OwnedInv'
  BY <1>2, <1>4, KeepOwned
<1>6. FramesTyped' /\ MarksRestored'
  BY <1>3, <1>4, FramesSame
<1> QED BY <1>4, <1>5, <1>6, InvParts

LEMMA SecondKeeps ==
    ASSUME GrenadeInv, Second
    PROVE  GrenadeInv'
<1> USE DEF GrenadeInv
<1>1. Grows
  BY OrdersSame DEF Second, Grows
<1>2. BodyTyped' /\ FramesTyped' /\ MarksRestored'
  BY <1>1, BodySame, FramesSame DEF Second
<1>3. PICK n, p, c, q, d : /\ n = Len(issued) /\ p = flareOrders /\ c = completion
                           /\ q = flareOrders' /\ d = completion'
  OBVIOUS
<1>4. n = Len(issued') /\ UNCHANGED refs
  BY <1>3 DEF Second
<1>5. /\ p \in [Throwers -> {NoEntry} \cup FlareEntries(n)]
      /\ c \in [Throwers -> {NoEntry} \cup StopEntries(n)]
  BY <1>3 DEF OwnedInv, MapsTyped
<1>6. /\ q = [s \in Throwers |-> IF p[s] = NoEntry \/ p[s].age > MaxAge THEN p[s]
                                 ELSE [p[s] EXCEPT !.age = @ + 1]]
      /\ d = [s \in Throwers |-> IF c[s] = NoEntry \/ c[s].age > MaxAge THEN c[s]
                                 ELSE [c[s] EXCEPT !.age = @ + 1]]
  BY <1>3 DEF Second, AgedEntries
<1>7. ASSUME NEW age \in EntryAges, ~(age > MaxAge)
      PROVE  age + 1 \in EntryAges
  BY <1>7, GrenadeAssumption DEF EntryAges
<1>8. ASSUME NEW s \in Throwers
      PROVE  /\ q[s] \in {NoEntry} \cup FlareEntries(n)
             /\ q[s] = NoEntry <=> p[s] = NoEntry
             /\ q[s].order = p[s].order
  <2>1. CASE p[s] = NoEntry \/ p[s].age > MaxAge
    BY <1>5, <1>6, <2>1
  <2>2. CASE ~(p[s] = NoEntry \/ p[s].age > MaxAge)
    <3>1. PICK e, a : e = p[s] /\ a = e.age + 1
      OBVIOUS
    <3>2. e \in FlareEntries(n)
      BY <1>5, <2>2, <3>1
    <3>3. a \in EntryAges
      BY <1>7, <2>2, <3>1, <3>2 DEF FlareEntries
    <3>4. q[s] = [e EXCEPT !.age = a]
      BY <1>6, <2>2, <3>1
    <3>5. q[s] \in FlareEntries(n) /\ q[s].order = e.order
      BY <3>2, <3>3, <3>4 DEF FlareEntries
    <3> QED BY <2>2, <3>1, <3>5, EntriesDiffer
  <2> QED BY <2>1, <2>2
<1>9. ASSUME NEW s \in Throwers
      PROVE  /\ d[s] \in {NoEntry} \cup StopEntries(n)
             /\ d[s] = NoEntry <=> c[s] = NoEntry
             /\ d[s].order = c[s].order
             /\ c[s] # NoEntry => d[s].stop = c[s].stop
  <2>1. CASE c[s] = NoEntry \/ c[s].age > MaxAge
    BY <1>5, <1>6, <2>1
  <2>2. CASE ~(c[s] = NoEntry \/ c[s].age > MaxAge)
    <3>1. PICK e, a : e = c[s] /\ a = e.age + 1
      OBVIOUS
    <3>2. e \in StopEntries(n)
      BY <1>5, <2>2, <3>1
    <3>3. a \in EntryAges
      BY <1>7, <2>2, <3>1, <3>2 DEF StopEntries
    <3>4. d[s] = [e EXCEPT !.age = a]
      BY <1>6, <2>2, <3>1
    <3>5. d[s] \in StopEntries(n) /\ d[s].order = e.order /\ d[s].stop = e.stop
      BY <3>2, <3>3, <3>4 DEF StopEntries
    <3> QED BY <2>2, <3>1, <3>5, EntriesDiffer
  <2> QED BY <2>1, <2>2
<1>10. MapsTyped'
  <2>1. q \in [Throwers -> {NoEntry} \cup FlareEntries(n)]
    BY <1>6, <1>8
  <2>2. d \in [Throwers -> {NoEntry} \cup StopEntries(n)]
    BY <1>6, <1>9
  <2> QED BY <1>3, <1>4, <2>1, <2>2 DEF MapsTyped
<1>11. OwnedInv'
  BY <1>3, <1>4, <1>8, <1>9, <1>10, MarkKeeps
<1> QED BY <1>1, <1>2, <1>11, InvParts

-----------------------------------------------------------------------------
LEMMA GrenadeInitially ==
    GrenadeInit => GrenadeInv
<1> SUFFICES ASSUME GrenadeInit PROVE GrenadeInv
  OBVIOUS
<1>1. IssuedTyped
  <2>1. <<>> \in Seq(IssuedOrders) /\ Len(<<>>) = 0
    OBVIOUS
  <2>2. 0 \in 0..MaxIssued
    BY GrenadeAssumption
  <2> QED BY <2>1, <2>2 DEF GrenadeInit, IssuedTyped
<1>2. Len(issued) = 0
  BY DEF GrenadeInit
<1>3. Idler \in OrderedBodies(0)
  <2>1. 0 \in 0..0 /\ <<>> \in Seq(1..0)
    OBVIOUS
  <2>2. Idler \in Bodies(0) /\ Idler.doing \notin Moves
    BY <2>1 DEF Idler, Bodies, Moves
  <2> QED BY <2>2 DEF OrderedBodies
<1>4. BodyTyped
  BY <1>2, <1>3 DEF GrenadeInit, BodyTyped
<1>5. FramesTyped /\ MarksRestored
  BY DEF GrenadeInit, FramesTyped, MarksRestored, Nobody
<1>6. MapsTyped
  BY DEF GrenadeInit, MapsTyped
<1>7. /\ flareOrders = [s \in Throwers |-> NoEntry]
      /\ completion = [s \in Throwers |-> NoEntry]
      /\ refs = [o \in 1..MaxIssued |-> 0]
  BY DEF GrenadeInit
<1>8. MapsFit
  <2>1. Keeping(flareOrders) = {} /\ Keeping(completion) = {}
    BY <1>7 DEF Keeping
  <2> QED BY <2>1, FS_EmptySet, GrenadeAssumption DEF MapsFit
<1>9. ReferencesOwned
  <2>1. ASSUME NEW o \in 1..MaxIssued
        PROVE  Owning(flareOrders, completion)[o] = 0
    <3>1. NoEntry.order # o
      BY DEF NoEntry
    <3>2. /\ Holding(flareOrders, o) = {} /\ Holding(completion, o) = {}
          /\ Stopping(completion, o) = {}
      BY <1>7, <3>1 DEF Holding, Stopping
    <3>3. Owning(flareOrders, completion)[o] =
              Cardinality({}) + Cardinality({}) + Cardinality({})
      BY <3>2, OwningCounts
    <3> QED BY <3>3, FS_EmptySet
  <2>2. Owning(flareOrders, completion) =
            [o \in 1..MaxIssued |-> Owning(flareOrders, completion)[o]]
    BY DEF Owning
  <2> QED BY <1>7, <2>1, <2>2 DEF ReferencesOwned
<1> QED BY <1>1, <1>4, <1>5, <1>6, <1>8, <1>9 DEF GrenadeInv, OwnedInv

LEMMA GrenadeKept ==
    ASSUME GrenadeInv, [GrenadeNext]_grenadeVars
    PROVE  GrenadeInv'
<1>1. CASE UNCHANGED grenadeVars
  <2>1. UNCHANGED <<body, issued, flareOrders, completion, frames, replacing, completing, refs>>
    BY <1>1 DEF grenadeVars
  <2>2. Grows
    BY <2>1, OrdersSame DEF Grows, GrenadeInv
  <2>3. BodyTyped' /\ FramesTyped' /\ MarksRestored' /\ OwnedInv'
    BY <2>1, <2>2, BodySame, FramesSame, OwnedSame DEF GrenadeInv
  <2> QED BY <2>2, <2>3, InvParts
<1>2. ASSUME NEW s \in Throwers, NEW kind \in {"move", "attackMove", "stop", "smoke"},
             Submit(s, kind)
      PROVE  GrenadeInv'
  <2>1. kind \in Kinds
    BY DEF Kinds
  <2> QED BY <1>2, <2>1, SubmitKeeps
<1>3. ASSUME NEW s \in Throwers,
             \/ BeginMove(s) \/ AttackSubmitted(s) \/ ChassisStop(s) \/ Arrive(s) \/ TurnAway(s)
      PROVE  GrenadeInv'
  BY <1>3, BeginMoveKeeps, AttackSubmittedKeeps, ChassisStopKeeps, ArriveKeeps, TurnAwayKeeps
<1>4. ASSUME NEW s \in Throwers, NEW kind \in {"smoke", "throw"}, AttackOnTheWay(s, kind)
      PROVE  GrenadeInv'
  BY <1>4, AttackOnTheWayKeeps
<1>5. ASSUME NEW s \in Throwers,
             ThrowQueued(s) \/ ReleaseSubmitted(s) \/ StopInit(s) \/ AiUpdate(s)
      PROVE  GrenadeInv'
  BY <1>5, ThrowQueuedKeeps, ReleaseSubmittedKeeps, StopInitKeeps, AiUpdateKeeps
<1>6. ASSUME OrderEnds \/ SubmitEnds \/ StopInitEnds \/ Second
      PROVE  GrenadeInv'
  BY <1>6, OrderEndsKeeps, SubmitEndsKeeps, StopInitEndsKeeps, SecondKeeps
<1> QED BY <1>1, <1>2, <1>3, <1>4, <1>5, <1>6 DEF GrenadeNext

LEMMA GrenadeInvSuffices ==
    ASSUME GrenadeInv
    PROVE  ReferencesOwned /\ ScopesClosed
BY DEF GrenadeInv, OwnedInv, MapsFit, MarksRestored, ScopesClosed, AtRest

-----------------------------------------------------------------------------
(* moving-grenades: for any soldiers, orders, guns and limits, however      *)
(* hooks nest and whenever a soldier arrives, turns away or a second goes   *)
(* by, the plugin owns exactly the references its maps hold, the maps stay  *)
(* within their limits, and gates and marks end with their calls.           *)
THEOREM GrenadesAreSound == GrenadeSpec /\ SelectSpec => []GrenadesSound
<1>1. GrenadeSpec => []GrenadeInv
  <2>1. GrenadeInv /\ [GrenadeNext]_grenadeVars => GrenadeInv'
    BY GrenadeKept
  <2> QED BY GrenadeInitially, <2>1, PTL DEF GrenadeSpec
<1>2. SelectSpec => []SelectInv
  <2>1. SelectInit => SelectInv
    BY SelectInitially
  <2>2. SelectInv /\ [SelectNext]_selectVars => SelectInv'
    BY SelectKept
  <2> QED BY <2>1, <2>2, PTL DEF SelectSpec
<1>3. GrenadeInv /\ SelectInv => GrenadesSound
  BY GrenadeInvSuffices DEF SelectInv, GrenadesSound
<1> QED BY <1>1, <1>2, <1>3, PTL

(* vehicle-special-fire: for any mounts, guns, enemies and intervals, if    *)
(* the AI looks at an attack before a Move can follow it: every target      *)
(* handle is owned by the guns that count it, the Move in hand is not held  *)
(* up by an older attack, and no gun is on two mounts.                      *)
THEOREM GunnersAreSound == ChecksFirst /\ TargetsSpec /\ RebindSpec => []GunnersSound
<1> SUFFICES ASSUME ChecksFirst PROVE TargetsSpec /\ RebindSpec => []GunnersSound
  OBVIOUS
<1>1. TargetsSpec => []TargetsInv
  <2>1. TargetsInit => TargetsInv
    BY TargetsInitially
  <2>2. TargetsInv /\ [TargetsNext]_targetVars => TargetsInv'
    BY TargetsKept
  <2> QED BY <2>1, <2>2, PTL DEF TargetsSpec
<1>2. RebindSpec => [](RebindInv /\ driving \in BOOLEAN)
  <2>1. RebindInit => RebindInv /\ driving \in BOOLEAN
    BY RebindInitially
  <2>2. RebindInv /\ driving \in BOOLEAN /\ [RebindNext]_rebindVars
            => RebindInv' /\ (driving \in BOOLEAN)'
    BY RebindKept
  <2> QED BY <2>1, <2>2, PTL DEF RebindSpec
<1>3. TargetsInv /\ RebindInv => GunnersSound
  BY MoveFollows DEF TargetsInv, RebindInv, GunnersSound
<1> QED BY <1>1, <1>2, <1>3, PTL

-----------------------------------------------------------------------------
(* The k-th call is the innermost of its kind among the first n. *)
InnermostOf(kind, k, n) ==
    /\ k \in 1..n /\ calls[k].kind = kind
    /\ \A j \in (k + 1)..n : calls[j].kind # kind

(* What is watched is the gun of the innermost selection, and the gate is   *)
(* the one the innermost candidate armed; each call puts back the one       *)
(* before it.                                                               *)
ScopesNest ==
    /\ \A k \in 1..Len(calls) :
           /\ InnermostOf("select", k, Len(calls)) => watch.gun = calls[k].gun
           /\ InnermostOf("candidate", k, Len(calls)) => gate = calls[k].armed
    /\ \A n \in 1..Len(calls) : \A k \in 1..(n - 1) :
           /\ calls[n].kind = "select" /\ InnermostOf("select", k, n - 1) =>
                  calls[n].was.gun = calls[k].gun
           /\ calls[n].kind = "candidate" /\ InnermostOf("candidate", k, n - 1) =>
                  calls[n].was = calls[k].armed

(* Of a grenade that is watched, the checks noted are those made.           *)
Tells(w, checks) ==
    w.gun = Grenade => w.eligible = checks[Grenade].eligible /\ w.idle = checks[Grenade].idle
WatchTells ==
    /\ Tells(watch, truth)
    /\ \A k \in 1..Len(calls) : calls[k].kind = "select" => Tells(calls[k].was, calls[k].seen)

ScopeInv == SelectInv /\ ScopesNest /\ WatchTells

(* A call begins: it becomes the innermost of its kind. *)
LEMMA NestPushed ==
    ASSUME ScopeInv, NEW call \in CallRecords, calls' = Append(calls, call),
           call.kind = "select" => /\ call.was = watch /\ watch'.gun = call.gun
                                   /\ call.seen = truth /\ UNCHANGED gate,
           call.kind = "candidate" => /\ call.was = gate /\ gate' = call.armed
                                      /\ UNCHANGED watch
    PROVE  /\ ScopesNest'
           /\ \A k \in 1..Len(calls') : calls'[k].kind = "select" => Tells(calls'[k].was, calls'[k].seen)
<1> USE DEF ScopeInv
<1>1. PICK n : n = Len(calls)
  OBVIOUS
<1>2. /\ calls \in Seq(CallRecords) /\ n \in Nat
      /\ Len(calls') = n + 1 /\ \A k \in 1..n : calls'[k] = calls[k]
      /\ calls'[n + 1] = call
  BY <1>1, AppendProperties DEF SelectInv, SelectTypeOK
<1>3. call.kind \in {"select", "candidate"}
  BY DEF CallRecords
<1>4. ASSUME NEW kind, NEW m \in 0..n, NEW k \in 1..m
      PROVE  InnermostOf(kind, k, m)' <=> InnermostOf(kind, k, m)
  <2>1. k \in 1..n /\ \A j \in (k + 1)..m : j \in 1..n
    BY <1>2
  <2> QED BY <1>2, <2>1 DEF InnermostOf
<1>5. ASSUME NEW kind, NEW k \in 1..(n + 1), InnermostOf(kind, k, n + 1)'
      PROVE  /\ call.kind = kind => k = n + 1
             /\ call.kind # kind => k \in 1..n /\ InnermostOf(kind, k, n)
  <2>1. \A j \in (k + 1)..(n + 1) : calls'[j].kind # kind
    BY <1>5 DEF InnermostOf
  <2>2. CASE k = n + 1
    BY <1>2, <1>5, <2>2 DEF InnermostOf
  <2>3. CASE k \in 1..n
    <3>1. n + 1 \in (k + 1)..(n + 1)
      BY <1>2, <2>3
    <3>2. call.kind # kind
      BY <1>2, <2>1, <3>1
    <3>3. \A j \in (k + 1)..n : j \in (k + 1)..(n + 1) /\ j \in 1..n
      BY <1>2, <2>3
    <3>4. calls[k].kind = kind
      BY <1>2, <1>5, <2>3 DEF InnermostOf
    <3> QED BY <1>2, <2>1, <2>3, <3>2, <3>3, <3>4 DEF InnermostOf
  <2> QED BY <1>2, <2>2, <2>3
<1>6. ASSUME NEW k \in 1..(n + 1)
      PROVE  /\ InnermostOf("select", k, n + 1)' => watch'.gun = calls'[k].gun
             /\ InnermostOf("candidate", k, n + 1)' => gate' = calls'[k].armed
  <2>1. ASSUME InnermostOf("select", k, n + 1)' PROVE watch'.gun = calls'[k].gun
    <3>1. CASE call.kind = "select"
      BY <1>2, <1>5, <2>1, <3>1
    <3>2. CASE call.kind = "candidate"
      <4>1. k \in 1..n /\ InnermostOf("select", k, n)
        BY <1>5, <2>1, <3>2
      <4> QED BY <1>1, <1>2, <3>2, <4>1 DEF ScopesNest
    <3> QED BY <1>3, <3>1, <3>2
  <2>2. ASSUME InnermostOf("candidate", k, n + 1)' PROVE gate' = calls'[k].armed
    <3>1. CASE call.kind = "candidate"
      BY <1>2, <1>5, <2>2, <3>1
    <3>2. CASE call.kind = "select"
      <4>1. k \in 1..n /\ InnermostOf("candidate", k, n)
        BY <1>5, <2>2, <3>2
      <4> QED BY <1>1, <1>2, <3>2, <4>1 DEF ScopesNest
    <3> QED BY <1>3, <3>1, <3>2
  <2> QED BY <2>1, <2>2
<1>7. ASSUME NEW m \in 1..(n + 1), NEW k \in 1..(m - 1)
      PROVE  /\ calls'[m].kind = "select" /\ InnermostOf("select", k, m - 1)' =>
                    calls'[m].was.gun = calls'[k].gun
             /\ calls'[m].kind = "candidate" /\ InnermostOf("candidate", k, m - 1)' =>
                    calls'[m].was = calls'[k].armed
  <2>1. m - 1 \in 0..n /\ k \in 1..n
    BY <1>2
  <2>2. \A kind : InnermostOf(kind, k, m - 1)' <=> InnermostOf(kind, k, m - 1)
    BY <1>4, <2>1
  <2>3. CASE m \in 1..n
    BY <1>1, <1>2, <2>1, <2>2, <2>3 DEF ScopesNest
  <2>4. CASE m = n + 1
    <3>1. calls'[m] = call /\ calls'[k] = calls[k] /\ m - 1 = n
      BY <1>2, <2>1, <2>4
    <3> QED BY <1>1, <2>1, <2>2, <3>1 DEF ScopesNest
  <2> QED BY <1>2, <2>3, <2>4
<1>8. ASSUME NEW k \in 1..(n + 1), calls'[k].kind = "select"
      PROVE  Tells(calls'[k].was, calls'[k].seen)
  <2>1. CASE k \in 1..n
    BY <1>1, <1>2, <1>8, <2>1 DEF WatchTells
  <2>2. CASE k = n + 1
    BY <1>2, <1>8, <2>2 DEF WatchTells
  <2> QED BY <1>2, <2>1, <2>2
<1> QED BY <1>1, <1>2, <1>6, <1>7, <1>8 DEF ScopesNest

(* The innermost call ends: the one before it of its kind is innermost.     *)
LEMMA NestPopped ==
    ASSUME ScopeInv, calls # <<>>, calls' = SubSeq(calls, 1, Len(calls) - 1),
           calls' \in Seq(CallRecords),
           calls[Len(calls)].kind = "select" => watch' = calls[Len(calls)].was /\ UNCHANGED gate,
           calls[Len(calls)].kind = "candidate" => gate' = calls[Len(calls)].was /\ UNCHANGED watch
    PROVE  /\ ScopesNest'
           /\ \A k \in 1..Len(calls') : calls'[k].kind = "select" => Tells(calls'[k].was, calls'[k].seen)
<1> USE DEF ScopeInv
<1>1. PICK n, call : n = Len(calls) /\ call = calls[n]
  OBVIOUS
<1>2. calls \in Seq(CallRecords) /\ n \in Nat /\ n > 0 /\ n - 1 \in Nat
  BY <1>1 DEF SelectInv, SelectTypeOK
<1>3. Len(calls') = n - 1 /\ \A k \in 1..(n - 1) : calls'[k] = calls[k]
  BY <1>1, <1>2
<1>4. call \in CallRecords /\ call.kind \in {"select", "candidate"}
  <2>1. call \in CallRecords
    BY <1>1, <1>2, ElementOfSeq
  <2> QED BY <2>1 DEF CallRecords
<1>5. ASSUME NEW kind, NEW m \in 0..(n - 1), NEW k \in 1..m
      PROVE  InnermostOf(kind, k, m)' <=> InnermostOf(kind, k, m)
  <2>1. k \in 1..(n - 1) /\ \A j \in (k + 1)..m : j \in 1..(n - 1)
    BY <1>2
  <2> QED BY <1>3, <2>1 DEF InnermostOf
<1>6. ASSUME NEW kind, NEW k \in 1..(n - 1), InnermostOf(kind, k, n - 1), call.kind # kind
      PROVE  InnermostOf(kind, k, n)
  <2>1. \A j \in (k + 1)..n : j = n \/ j \in (k + 1)..(n - 1)
    BY <1>2
  <2> QED BY <1>1, <1>2, <1>6, <2>1 DEF InnermostOf
<1>7. ASSUME NEW k \in 1..(n - 1)
      PROVE  /\ InnermostOf("select", k, n - 1)' => watch'.gun = calls'[k].gun
             /\ InnermostOf("candidate", k, n - 1)' => gate' = calls'[k].armed
  <2>1. /\ n - 1 \in 0..(n - 1) /\ n \in 1..n /\ k \in 1..n
        /\ calls'[k] = calls[k]
        /\ \A kind : InnermostOf(kind, k, n - 1)' <=> InnermostOf(kind, k, n - 1)
    BY <1>2, <1>3, <1>5
  <2>2. ASSUME InnermostOf("select", k, n - 1) PROVE watch'.gun = calls[k].gun
    <3>1. CASE call.kind = "select"
      BY <1>1, <2>1, <2>2, <3>1 DEF ScopesNest
    <3>2. CASE call.kind = "candidate"
      BY <1>1, <1>6, <2>1, <2>2, <3>2 DEF ScopesNest
    <3> QED BY <1>4, <3>1, <3>2
  <2>3. ASSUME InnermostOf("candidate", k, n - 1) PROVE gate' = calls[k].armed
    <3>1. CASE call.kind = "candidate"
      BY <1>1, <2>1, <2>3, <3>1 DEF ScopesNest
    <3>2. CASE call.kind = "select"
      BY <1>1, <1>6, <2>1, <2>3, <3>2 DEF ScopesNest
    <3> QED BY <1>4, <3>1, <3>2
  <2> QED BY <2>1, <2>2, <2>3
<1>8. ASSUME NEW m \in 1..(n - 1), NEW k \in 1..(m - 1)
      PROVE  /\ calls'[m].kind = "select" /\ InnermostOf("select", k, m - 1)' =>
                    calls'[m].was.gun = calls'[k].gun
             /\ calls'[m].kind = "candidate" /\ InnermostOf("candidate", k, m - 1)' =>
                    calls'[m].was = calls'[k].armed
  <2>1. m - 1 \in 0..(n - 1) /\ k \in 1..(n - 1) /\ m \in 1..n
    BY <1>2
  <2>2. \A kind : InnermostOf(kind, k, m - 1)' <=> InnermostOf(kind, k, m - 1)
    BY <1>5, <2>1
  <2> QED BY <1>1, <1>3, <2>1, <2>2 DEF ScopesNest
<1>9. ASSUME NEW k \in 1..(n - 1), calls'[k].kind = "select"
      PROVE  Tells(calls'[k].was, calls'[k].seen)
  <2>1. k \in 1..n
    BY <1>2
  <2> QED BY <1>1, <1>3, <1>9, <2>1 DEF WatchTells
<1> QED BY <1>1, <1>2, <1>3, <1>7, <1>8, <1>9 DEF ScopesNest

LEMMA ScopesInitially ==
    ASSUME SelectInit
    PROVE  ScopeInv
<1>1. Len(calls) = 0 /\ Tells(watch, truth)
  BY SelectAssumption DEF SelectInit, Tells, NoWatch, Unchecked
<1> QED BY <1>1, SelectInitially DEF ScopeInv, ScopesNest, WatchTells

LEMMA ScopesKept ==
    ASSUME ScopeInv, [SelectNext]_selectVars
    PROVE  ScopeInv'
<1>1. SelectInv'
  BY SelectKept DEF ScopeInv
<1> USE DEF ScopeInv
<1>2. calls' \in Seq(CallRecords)
  BY <1>1 DEF SelectInv, SelectTypeOK
<1>3. CASE SelectBegins
  <2> DEFINE gun == IF selected = Grenade THEN Grenade ELSE "none"
             call == [kind |-> "select", gun |-> gun, was |-> watch, seen |-> truth,
                      armed |-> NoGate]
  <2>1. /\ calls' = Append(calls, call) /\ watch' = [gun |-> gun, eligible |-> -1, idle |-> -1]
        /\ truth' = Unchecked /\ UNCHANGED gate
    BY <1>3 DEF SelectBegins
  <2>2. gun \in Named
    BY NothingTyped
  <2> HIDE DEF gun
  <2>3. call \in CallRecords /\ call.kind = "select" /\ call.was = watch
        /\ call.gun = gun /\ call.seen = truth /\ watch'.gun = gun
    BY <2>1, <2>2, NothingTyped DEF CallRecords, SelectInv, SelectTypeOK
  <2>4. Tells(watch', truth')
    BY <2>1, SelectAssumption DEF Tells, Unchecked
  <2> HIDE DEF call
  <2>5. ScopesNest' /\ \A k \in 1..Len(calls') :
            calls'[k].kind = "select" => Tells(calls'[k].was, calls'[k].seen)
    BY <2>1, <2>3, NestPushed
  <2> QED BY <1>1, <2>4, <2>5 DEF WatchTells
<1>4. ASSUME NEW gun \in Guns, CandidateBegins(gun) PROVE ScopeInv'
  <2>1. PICK new : new = CandidateGate(gun)
    OBVIOUS
  <2> DEFINE call == [kind |-> "candidate", gun |-> gun, was |-> gate, seen |-> truth,
                      armed |-> new]
  <2>2. /\ calls' = Append(calls, call) /\ gate' = new /\ UNCHANGED <<watch, truth>>
    BY <1>4, <2>1 DEF CandidateBegins
  <2>3. new \in Gates /\ gun \in Named
    BY <2>1, NothingTyped DEF CandidateGate, Gates, SelectInv, SelectTypeOK
  <2>4. call \in CallRecords /\ call.kind = "candidate" /\ call.was = gate /\ call.armed = new
    BY <2>3 DEF CallRecords, SelectInv, SelectTypeOK
  <2> HIDE DEF call
  <2>5. ScopesNest' /\ \A k \in 1..Len(calls') :
            calls'[k].kind = "select" => Tells(calls'[k].was, calls'[k].seen)
    BY <2>2, <2>4, NestPushed
  <2> QED BY <1>1, <2>2, <2>5 DEF WatchTells
<1>5. ASSUME NEW native \in BOOLEAN, SelectEnds(native) PROVE ScopeInv'
  <2>1. /\ calls # <<>> /\ calls[Len(calls)].kind = "select"
        /\ watch' = calls[Len(calls)].was /\ truth' = calls[Len(calls)].seen
        /\ calls' = SubSeq(calls, 1, Len(calls) - 1) /\ UNCHANGED gate
    BY <1>5 DEF SelectEnds
  <2>2. Len(calls) \in 1..Len(calls)
    BY <2>1 DEF SelectInv, SelectTypeOK
  <2>3. Tells(watch', truth')
    BY <2>1, <2>2 DEF WatchTells
  <2>4. ScopesNest' /\ \A k \in 1..Len(calls') :
            calls'[k].kind = "select" => Tells(calls'[k].was, calls'[k].seen)
    BY <1>2, <2>1, NestPopped
  <2> QED BY <1>1, <2>3, <2>4 DEF WatchTells
<1>6. CASE CandidateEnds
  <2>1. /\ calls # <<>> /\ calls[Len(calls)].kind = "candidate"
        /\ gate' = calls[Len(calls)].was
        /\ calls' = SubSeq(calls, 1, Len(calls) - 1) /\ UNCHANGED <<watch, truth>>
    BY <1>6 DEF CandidateEnds
  <2>2. ScopesNest' /\ \A k \in 1..Len(calls') :
            calls'[k].kind = "select" => Tells(calls'[k].was, calls'[k].seen)
    BY <1>2, <2>1, NestPopped
  <2> QED BY <1>1, <2>1, <2>2 DEF WatchTells
<1>7. ASSUME UNCHANGED <<calls, gate>>, watch'.gun = watch.gun, Tells(watch', truth')
      PROVE  ScopeInv'
  <2>1. \A kind, k, n : InnermostOf(kind, k, n)' <=> InnermostOf(kind, k, n)
    BY <1>7 DEF InnermostOf
  <2> QED BY <1>1, <1>7, <2>1 DEF ScopesNest, WatchTells
<1>8. ASSUME NEW gun \in Guns, NEW check \in {"eligible", "idle"}, NEW yes \in 0..1,
             WeaponCheck(gun, check, yes)
      PROVE  ScopeInv'
  <2>1. watch \in Watches /\ truth \in Truths
    BY DEF SelectInv, SelectTypeOK
  <2>2. watch'.gun = watch.gun
    BY <1>8, <2>1 DEF WeaponCheck, Watches
  <2>3. Tells(watch', truth')
    <3>1. Tells(watch, truth)
      BY DEF WatchTells
    <3>2. /\ watch' = IF watch.gun = gun THEN [watch EXCEPT ![check] = yes] ELSE watch
          /\ truth' = [truth EXCEPT ![gun] = [truth[gun] EXCEPT ![check] = yes]]
      BY <1>8 DEF WeaponCheck
    <3>3. CASE gun # Grenade \/ watch.gun # Grenade
      <4>1. gun # Grenade => truth'[Grenade] = truth[Grenade]
        BY <2>1, <3>2, SelectAssumption DEF Truths
      <4>2. gun # Grenade /\ watch.gun = Grenade => watch' = watch
        BY <3>2
      <4> QED BY <2>2, <3>1, <3>3, <4>1, <4>2 DEF Tells
    <3>4. CASE gun = Grenade /\ watch.gun = Grenade
      <4>1. truth'[Grenade] = [truth[Grenade] EXCEPT ![check] = yes]
        BY <2>1, <3>2, <3>4, SelectAssumption DEF Truths
      <4>2. watch' = [watch EXCEPT ![check] = yes]
        BY <3>2, <3>4
      <4>3. truth[Grenade] \in [eligible : -1..1, idle : -1..1]
        BY <2>1, SelectAssumption DEF Truths
      <4>4. CASE check = "eligible"
        BY <2>1, <3>1, <3>4, <4>1, <4>2, <4>3, <4>4 DEF Tells, Watches
      <4>5. CASE check = "idle"
        BY <2>1, <3>1, <3>4, <4>1, <4>2, <4>3, <4>5 DEF Tells, Watches
      <4> QED BY <4>4, <4>5
    <3> QED BY <3>3, <3>4
  <2>4. UNCHANGED <<calls, gate>>
    BY <1>8 DEF WeaponCheck
  <2> QED BY <1>7, <2>2, <2>3, <2>4
<1>9. CASE GameChanges \/ ChassisCanMove \/ UNCHANGED selectVars
  <2>1. UNCHANGED <<calls, gate, watch, truth>>
    BY <1>9 DEF GameChanges, ChassisCanMove, selectVars
  <2> QED BY <1>7, <2>1 DEF WatchTells
<1> QED BY <1>3, <1>4, <1>5, <1>6, <1>8, <1>9 DEF SelectNext

(* A sequence of calls has an innermost one of a kind if it has any.        *)
LEMMA InnermostExists ==
    ASSUME SelectTypeOK, NEW kind, NEW j \in 1..Len(calls), calls[j].kind = kind
    PROVE  \E k \in 1..Len(calls) : InnermostOf(kind, k, Len(calls))
<1>1. Len(calls) \in Nat
  BY DEF SelectTypeOK
<1> DEFINE n == Len(calls)
           S == {m \in 0..n : \A i \in (m + 1)..n : calls[i].kind # kind}
<1>2. n \in S
  BY <1>1
<1>3. PICK m \in S : \A i \in S : m <= i
  <2>1. S \subseteq Nat /\ S # {}
    BY <1>1, <1>2
  <2> HIDE DEF S
  <2> QED BY <2>1, SmallestExists
<1>4. m \in 1..n
  <2>1. m # 0
    BY <1>1, <1>3
  <2> QED BY <1>1, <1>3, <2>1
<1>5. calls[m].kind = kind
  <2>1. SUFFICES ASSUME calls[m].kind # kind PROVE FALSE
    OBVIOUS
  <2>2. m - 1 \in 0..n /\ ~(m <= m - 1)
        /\ \A i \in (m - 1 + 1)..n : i = m \/ i \in (m + 1)..n
    BY <1>1, <1>4
  <2>3. \A i \in (m + 1)..n : calls[i].kind # kind
    BY <1>3
  <2>4. m - 1 \in S
    BY <2>1, <2>2, <2>3
  <2> HIDE DEF S
  <2> QED BY <1>3, <2>2, <2>4
<1> QED BY <1>3, <1>4, <1>5 DEF InnermostOf

(* moving-grenades, select and candidate: however selections and candidates *)
(* nest and the game changes its mind in them, a refusal is overturned only *)
(* for the selected grenade after both checks succeeded inside this very    *)
(* call, and a gate is passed only for the gun and the target that the      *)
(* innermost candidate armed it for.                                        *)
THEOREM SelectionsAreEarned == SelectSpec => OverridesAreEarned /\ GatePassesItsTarget
<1>1. SelectInit => ScopeInv
  BY ScopesInitially
<1>2. ScopeInv /\ [SelectNext]_selectVars => ScopeInv'
  BY ScopesKept
<1>3. ASSUME ScopeInv, SelectNext, Len(calls') < Len(calls),
             calls[Len(calls)].kind = "select", verdict'.overridden
      PROVE  selected = Grenade /\ walking /\ truth[Grenade] = [eligible |-> 1, idle |-> 1]
  <2>1. calls \in Seq(CallRecords) /\ Len(calls) \in Nat
    BY <1>3 DEF ScopeInv, SelectInv, SelectTypeOK
  <2>2. PICK native \in BOOLEAN : SelectEnds(native)
    <3>1. CASE SelectBegins \/ \E gun \in Guns : CandidateBegins(gun)
      <4>1. PICK call : calls' = Append(calls, call)
        BY <3>1 DEF SelectBegins, CandidateBegins
      <4>2. Len(calls') = Len(calls) + 1
        BY <4>1
      <4> QED BY <1>3, <2>1, <4>2
    <3>2. CASE CandidateEnds
      BY <1>3, <3>2 DEF CandidateEnds
    <3>3. CASE \/ GameChanges \/ ChassisCanMove
               \/ \E gun \in Guns, check \in {"eligible", "idle"}, yes \in 0..1 :
                      WeaponCheck(gun, check, yes)
      <4>1. calls' = calls
        BY <3>3 DEF GameChanges, ChassisCanMove, WeaponCheck
      <4> QED BY <1>3, <2>1, <4>1
    <3> QED BY <1>3, <3>1, <3>2, <3>3 DEF SelectNext
  <2>3. PICK call : call = calls[Len(calls)]
    OBVIOUS
  <2>4. Overrides(native, watch, call.gun)
    BY <1>3, <2>2, <2>3 DEF SelectEnds
  <2>5. selected = Grenade /\ walking /\ call.gun = Grenade
        /\ watch.eligible = 1 /\ watch.idle = 1
    BY <2>4 DEF Overrides
  <2>6. InnermostOf("select", Len(calls), Len(calls))
    BY <1>3, <2>1, <2>2 DEF InnermostOf, SelectEnds
  <2>7. watch.gun = Grenade
    BY <1>3, <2>1, <2>3, <2>5, <2>6 DEF ScopeInv, ScopesNest, InnermostOf
  <2>8. truth[Grenade].eligible = 1 /\ truth[Grenade].idle = 1
    BY <1>3, <2>5, <2>7 DEF ScopeInv, WatchTells, Tells
  <2>9. truth[Grenade] \in [eligible : -1..1, idle : -1..1]
    BY <1>3, SelectAssumption DEF ScopeInv, SelectInv, SelectTypeOK, Truths
  <2> QED BY <2>5, <2>8, <2>9
<1>4. ASSUME ScopeInv, SelectNext, gatePassed' # gatePassed, gatePassed' # NoGate
      PROVE  \E k \in DOMAIN calls :
                /\ calls[k].armed = gatePassed' /\ calls[k].kind = "candidate"
                /\ \A j \in DOMAIN calls : calls[j].kind = "candidate" => j <= k
  <2>1. ChassisCanMove
    BY <1>4 DEF SelectNext, SelectBegins, SelectEnds, WeaponCheck, GameChanges,
                CandidateBegins, CandidateEnds, Silent
  <2>2. gate # NoGate /\ gatePassed' = gate
    <3>1. /\ gate # NoGate /\ CandidateGate(gate.gun) = gate
          /\ gatePassed' = [gun |-> gate.gun, target |-> aim]
      BY <2>1 DEF ChassisCanMove
    <3>2. CandidateGate(gate.gun) = [gun |-> gate.gun, target |-> aim]
      BY <3>1 DEF CandidateGate
    <3> QED BY <3>1, <3>2
  <2>3. SelectTypeOK /\ Len(calls) \in Nat /\ DOMAIN calls = 1..Len(calls)
    BY <1>4 DEF ScopeInv, SelectInv, SelectTypeOK
  <2>4. PICK j \in 1..Len(calls) : calls[j].kind = "candidate"
    BY <1>4, <2>2, <2>3 DEF ScopeInv, SelectInv, GatesAreScoped
  <2>5. PICK k \in 1..Len(calls) : InnermostOf("candidate", k, Len(calls))
    BY <2>3, <2>4, InnermostExists
  <2>6. calls[k].kind = "candidate" /\ gate = calls[k].armed
    BY <1>4, <2>5 DEF ScopeInv, ScopesNest, InnermostOf
  <2>7. ASSUME NEW i \in 1..Len(calls), calls[i].kind = "candidate" PROVE i <= k
    <3>1. i \notin (k + 1)..Len(calls)
      BY <2>5, <2>7 DEF InnermostOf
    <3> QED BY <2>3, <3>1
  <2> QED BY <2>2, <2>3, <2>6, <2>7
<1>5. ScopeInv /\ [SelectNext]_selectVars =>
        [Len(calls') < Len(calls) /\ calls[Len(calls)].kind = "select" /\ verdict'.overridden =>
            selected = Grenade /\ walking
            /\ truth[Grenade] = [eligible |-> 1, idle |-> 1]]_selectVars
  BY <1>3
<1>6. ScopeInv /\ [SelectNext]_selectVars =>
        [gatePassed' # gatePassed /\ gatePassed' # NoGate =>
            \E k \in DOMAIN calls :
                /\ calls[k].armed = gatePassed' /\ calls[k].kind = "candidate"
                /\ \A j \in DOMAIN calls : calls[j].kind = "candidate" => j <= k]_selectVars
  BY <1>4
<1> QED BY <1>1, <1>2, <1>5, <1>6, PTL DEF SelectSpec, OverridesAreEarned, GatePassesItsTarget

-----------------------------------------------------------------------------
HookScopes ==
    [hook : {"tick", "acquire"}, left : SUBSET Mounts]
        \cup [hook : {"refresh"}, left : SUBSET Mounts, had : [Mounts -> Targets], free : BOOLEAN]
        \cup [hook : {"command"}, left : SUBSET Mounts, explicit : BOOLEAN]
Records == {NoRecord} \cup [target : Targets, automatic : BOOLEAN, order : Nat]
AiStates ==
    [attacks : BOOLEAN, order : Nat, own : BOOLEAN, deferred : BOOLEAN, checked : BOOLEAN]

TargetsTyped ==
    /\ shared \in Targets /\ private \in [Mounts -> Targets] /\ atWill \in BOOLEAN
    /\ lives \in [Enemies -> BOOLEAN]
    /\ record \in Records /\ ai \in AiStates /\ scopes \in Seq(HookScopes)

(* A hook runs by itself or in a tick. *)
HooksInTicks == \A k \in 1..(Len(scopes) - 1) : scopes[k].hook = "tick"

(* While the player's attack stands, it is the gunner's target, the record  *)
(* is of it and not the AI's, and nothing has reset the gunner.             *)
StandingRecorded ==
    standing # NoTarget =>
        /\ shared = standing /\ ~suspended /\ ~ai.own
        /\ record # NoRecord /\ record.target = standing /\ ~record.automatic

(* Through a refresh under fire at will, it stays so, and mounts that had a *)
(* live target keep it.                                                     *)
RefreshSpares ==
    Inner.hook = "refresh" /\ Inner.free =>
        /\ atWill /\ (record = NoRecord \/ record.automatic)
        /\ \A m \in Mounts : mount[m] = "passenger" /\ Inner.had[m] # NoTarget /\ lives[Inner.had[m]]
                                 => private[m] = Inner.had[m]

StandingInv == TargetsTyped /\ HooksInTicks /\ StandingRecorded /\ RefreshSpares

LEMMA InnerTyped ==
    ASSUME TargetsTyped, scopes # <<>>
    PROVE  /\ InnerScope \in HookScopes /\ Inner = InnerScope
           /\ Len(scopes) \in Nat /\ Len(scopes) \in 1..Len(scopes)
           /\ Inner.hook \in {"tick", "acquire", "refresh", "command"}
<1>1. InnerScope \in HookScopes /\ Inner = InnerScope
  BY ElementOfSeq DEF TargetsTyped, Inner, InnerScope
<1>2. Inner.hook \in {"tick", "acquire", "refresh", "command"}
  BY <1>1 DEF HookScopes
<1> QED BY <1>1, <1>2 DEF TargetsTyped

LEMMA ScopePushed ==
    ASSUME TargetsTyped, HooksInTicks, NEW new \in HookScopes, scopes' = Append(scopes, new),
           Inner.hook \in {"none", "tick"}
    PROVE  scopes' \in Seq(HookScopes) /\ HooksInTicks' /\ Inner' = new
<1>1. /\ scopes \in Seq(HookScopes) /\ Len(scopes) \in Nat
      /\ scopes' \in Seq(HookScopes) /\ Len(scopes') = Len(scopes) + 1
      /\ \A k \in 1..Len(scopes) : scopes'[k] = scopes[k]
      /\ scopes'[Len(scopes) + 1] = new
  BY AppendProperties DEF TargetsTyped
<1>2. Inner' = new
  BY <1>1 DEF Inner, InnerScope
<1>3. ASSUME NEW k \in 1..Len(scopes) PROVE scopes[k].hook = "tick"
  <2>1. CASE k \in 1..(Len(scopes) - 1)
    BY <2>1 DEF HooksInTicks
  <2>2. CASE k = Len(scopes)
    <3>1. scopes # <<>> /\ Inner = scopes[k]
      BY <1>1, <2>2 DEF Inner, InnerScope
    <3>2. Inner.hook # "none"
      BY <3>1, InnerTyped
    <3> QED BY <3>1, <3>2
  <2> QED BY <1>1, <2>1, <2>2
<1> QED BY <1>1, <1>2, <1>3 DEF HooksInTicks

LEMMA ScopeEnds ==
    ASSUME TargetsTyped, HooksInTicks, scopes # <<>>,
           scopes' = SubSeq(scopes, 1, Len(scopes) - 1)
    PROVE  scopes' \in Seq(HookScopes) /\ HooksInTicks' /\ Inner'.hook \in {"none", "tick"}
<1>1. scopes \in Seq(HookScopes) /\ Len(scopes) \in Nat /\ Len(scopes) > 0
  BY DEF TargetsTyped
<1>2. PICK n : n = Len(scopes) - 1
  OBVIOUS
<1>3. n \in Nat /\ \A k \in 1..n : scopes[k] \in HookScopes
  BY <1>1, <1>2, ElementOfSeq
<1>4. scopes' \in Seq(HookScopes) /\ Len(scopes') = n /\ \A k \in 1..n : scopes'[k] = scopes[k]
  <2>1. 1 \in Int /\ n \in Int /\ n - 1 + 1 = n
        /\ (~(1 <= n) => n = 0) /\ \A k \in 1..n : 1 + k - 1 = k
    BY <1>3
  <2>2. /\ SubSeq(scopes, 1, n) \in Seq(HookScopes)
        /\ Len(SubSeq(scopes, 1, n)) = IF 1 <= n THEN n - 1 + 1 ELSE 0
        /\ \A k \in 1..(n - 1 + 1) : SubSeq(scopes, 1, n)[k] = scopes[1 + k - 1]
    BY <1>3, <2>1, SubSeqProperties
  <2> QED BY <1>2, <2>1, <2>2
<1>5. \A k \in 1..n : scopes'[k].hook = "tick"
  BY <1>2, <1>4 DEF HooksInTicks
<1>6. scopes' # <<>> => Len(scopes') \in 1..n
  BY <1>3, <1>4
<1>7. Inner'.hook \in {"none", "tick"}
  BY <1>5, <1>6 DEF Inner, InnerScope
<1>8. \A k \in 1..(Len(scopes') - 1) : k \in 1..n
  BY <1>3, <1>4
<1> QED BY <1>4, <1>5, <1>7, <1>8 DEF HooksInTicks

(* A mount had its turn. *)
LEMMA ScopeShrinks ==
    ASSUME TargetsTyped, HooksInTicks, NEW m \in Mounts, scopes # <<>>,
           scopes' = [scopes EXCEPT ![Len(scopes)].left = @ \ {m}]
    PROVE  /\ scopes' \in Seq(HookScopes) /\ HooksInTicks' /\ Inner'.hook = Inner.hook
           /\ Inner.hook = "refresh" => Inner'.had = Inner.had /\ Inner'.free = Inner.free
<1>1. PICK n : n = Len(scopes)
  OBVIOUS
<1>2. /\ scopes \in Seq(HookScopes) /\ n \in Nat /\ n \in 1..n
      /\ Inner = scopes[n] /\ scopes[n] \in HookScopes
  BY <1>1, InnerTyped DEF TargetsTyped, InnerScope
<1>3. PICK left : left = scopes[n].left \ {m}
  OBVIOUS
<1>4. PICK new : new = [scopes[n] EXCEPT !.left = left]
  OBVIOUS
<1>5. scopes' = [scopes EXCEPT ![n] = new]
  BY <1>1, <1>3, <1>4
<1>6. /\ new \in HookScopes /\ new.hook = scopes[n].hook
      /\ new.hook = "refresh" => new.had = scopes[n].had /\ new.free = scopes[n].free
  <2>1. left \in SUBSET Mounts
    BY <1>2, <1>3 DEF HookScopes
  <2>2. CASE scopes[n] \in [hook : {"tick", "acquire"}, left : SUBSET Mounts]
    <3>1. new = [hook |-> scopes[n].hook, left |-> left]
      BY <1>4, <2>2
    <3> QED BY <2>1, <2>2, <3>1 DEF HookScopes
  <2>3. CASE scopes[n] \in [hook : {"refresh"}, left : SUBSET Mounts, had : [Mounts -> Targets],
                            free : BOOLEAN]
    <3>1. new = [hook |-> "refresh", left |-> left, had |-> scopes[n].had, free |-> scopes[n].free]
      BY <1>4, <2>3
    <3> QED BY <2>1, <2>3, <3>1 DEF HookScopes
  <2>4. CASE scopes[n] \in [hook : {"command"}, left : SUBSET Mounts, explicit : BOOLEAN]
    <3>1. new = [hook |-> "command", left |-> left, explicit |-> scopes[n].explicit]
      BY <1>4, <2>4
    <3> QED BY <2>1, <2>4, <3>1 DEF HookScopes
  <2> QED BY <1>2, <2>2, <2>3, <2>4 DEF HookScopes
<1>7. scopes' \in Seq(HookScopes) /\ Len(scopes') = n /\ scopes'[n] = new
      /\ \A k \in 1..(n - 1) : scopes'[k] = scopes[k]
  <2>1. n \in 1..Len(scopes)
    BY <1>1, <1>2
  <2>2. /\ scopes' \in Seq(HookScopes) /\ Len(scopes') = Len(scopes)
        /\ \A j \in 1..Len(scopes) : scopes'[j] = IF j = n THEN new ELSE scopes[j]
    <3>1. scopes \in Seq(HookScopes) /\ new \in HookScopes
      BY <1>2, <1>6
    <3>2. /\ [scopes EXCEPT ![n] = new] \in Seq(HookScopes)
          /\ Len([scopes EXCEPT ![n] = new]) = Len(scopes)
          /\ \A j \in 1..Len(scopes) :
                 [scopes EXCEPT ![n] = new][j] = IF j = n THEN new ELSE scopes[j]
      BY <2>1, <3>1
    <3> QED BY <1>5, <3>2
  <2>3. \A k \in 1..(n - 1) : k \in 1..Len(scopes) /\ k # n
    BY <1>1, <1>2
  <2> QED BY <1>1, <2>1, <2>2, <2>3
<1>8. Inner' = new
  <2>1. scopes' # <<>>
    BY <1>2, <1>7
  <2> QED BY <1>7, <2>1 DEF Inner, InnerScope
<1>9. HooksInTicks'
  BY <1>1, <1>7 DEF HooksInTicks
<1> QED BY <1>2, <1>6, <1>7, <1>8, <1>9

(* A gun's target changes, or none does. *)
Reaims(m) ==
    private' = private \/ \E t \in Targets : private' = [private EXCEPT ![m] = t]

LEMMA RouteReaims ==
    ASSUME TargetsTyped, NEW m \in Mounts, NEW t \in Targets, NEW explicit, Route(m, t, explicit)
    PROVE  Reaims(m) /\ (record' = record \/ record' = CheckedRecord)
BY DEF Route, Reaims

LEMMA AcquireReaims ==
    ASSUME TargetsTyped, NEW m \in Mounts, Acquire(m)
    PROVE  Reaims(m) /\ (record' = record \/ record' = CheckedRecord)
<1>1. record' = record \/ record' = CheckedRecord
  BY DEF Acquire
<1>2. CASE private' = private
  BY <1>1, <1>2 DEF Reaims
<1>3. CASE Retarget(m)
  <2>1. PICK seen \in SUBSET {e \in Enemies : lives[e]},
             hit \in SUBSET {e \in Enemies : lives[e]} :
             \E picked \in seen \cup {NoTarget} :
                \E first \in (IF seen \cap hit = {} THEN {NoTarget} ELSE seen \cap hit) :
                   private' = [private EXCEPT ![m] = Choose(m, seen, hit, picked, first)]
    BY <1>3 DEF Retarget
  <2>2. PICK picked \in seen \cup {NoTarget},
             first \in (IF seen \cap hit = {} THEN {NoTarget} ELSE seen \cap hit) :
             private' = [private EXCEPT ![m] = Choose(m, seen, hit, picked, first)]
    BY <2>1
  <2>3. Choose(m, seen, hit, picked, first) \in Targets
    BY DEF Choose, TargetsTyped, Targets
  <2> QED BY <1>1, <2>2, <2>3 DEF Reaims
<1> QED BY <1>2, <1>3 DEF Acquire

LEMMA ReaimedTyped ==
    ASSUME TargetsTyped, NEW m \in Mounts, Reaims(m)
    PROVE  private' \in [Mounts -> Targets]
           /\ \A n \in Mounts \ {m} : private'[n] = private[n]
BY DEF Reaims, TargetsTyped

(* CheckAttack and MoveGiven change the AI's state and what is on record.   *)
LEMMA AttackChecked ==
    ASSUME TargetsTyped, CheckAttack
    PROVE  /\ record' \in Records /\ ai' \in AiStates /\ ai'.own = ai.own
           /\ ~ai.own /\ record # NoRecord /\ ~record.automatic =>
                  record' = NoRecord \/ (record' # NoRecord /\ record'.target = record.target
                                         /\ ~record'.automatic)
<1>1. PICK attacks, order, own, deferred, checked :
          /\ ai = [attacks |-> attacks, order |-> order, own |-> own, deferred |-> deferred,
                   checked |-> checked]
          /\ attacks \in BOOLEAN /\ order \in Nat /\ own \in BOOLEAN /\ deferred \in BOOLEAN
          /\ checked \in BOOLEAN
  BY DEF TargetsTyped, AiStates
<1>2. /\ ai' \in {LeavesAttack, [ai EXCEPT !.checked = TRUE]}
      /\ record' \in {NoRecord, Observed} /\ attacks
  BY <1>1 DEF CheckAttack
<1>3. ai' \in AiStates /\ ai'.own = own
  <2>1. CASE ai' = LeavesAttack
    <3>1. ai' = [attacks |-> FALSE, order |-> order, own |-> own, deferred |-> FALSE,
                 checked |-> checked]
      BY <1>1, <2>1 DEF LeavesAttack
    <3> QED BY <1>1, <3>1 DEF AiStates
  <2>2. CASE ai' = [ai EXCEPT !.checked = TRUE]
    <3>1. ai' = [attacks |-> attacks, order |-> order, own |-> own, deferred |-> deferred,
                 checked |-> TRUE]
      BY <1>1, <2>2
    <3> QED BY <1>1, <3>1 DEF AiStates
  <2> QED BY <1>2, <2>1, <2>2
<1>4. CASE record' = NoRecord \/ record = NoRecord
  <2>1. record' = NoRecord
    BY <1>2, <1>4 DEF Observed
  <2>2. record' \in Records
    BY <2>1 DEF Records
  <2> QED BY <1>1, <1>3, <2>1, <2>2
<1>5. CASE record' = Observed /\ record # NoRecord
  <2>1. PICK target \in Targets, automatic \in BOOLEAN, of \in Nat :
            record = [target |-> target, automatic |-> automatic, order |-> of]
    BY <1>5 DEF TargetsTyped, Records
  <2>2. Observed = IF automatic THEN record
                   ELSE IF of = 0 THEN [record EXCEPT !.order = order]
                   ELSE IF order # of /\ own THEN [record EXCEPT !.automatic = TRUE]
                   ELSE record
    BY <1>1, <1>2, <1>5, <2>1 DEF Observed
  <2>3. \E a \in BOOLEAN, n \in Nat :
            /\ record' = [target |-> target, automatic |-> a, order |-> n]
            /\ ~own /\ ~automatic => ~a
    <3>1. CASE automatic
      BY <1>5, <2>1, <2>2, <3>1
    <3>2. CASE ~automatic /\ of = 0
      <4>1. record' = [target |-> target, automatic |-> FALSE, order |-> order]
        BY <1>5, <2>1, <2>2, <3>2
      <4> QED BY <1>1, <4>1
    <3>3. CASE ~automatic /\ of # 0 /\ order # of /\ own
      <4>1. record' = [target |-> target, automatic |-> TRUE, order |-> of]
        BY <1>5, <2>1, <2>2, <3>3
      <4> QED BY <3>3, <4>1
    <3>4. CASE ~automatic /\ of # 0 /\ ~(order # of /\ own)
      <4>1. record' = record
        BY <1>5, <2>2, <3>4
      <4> QED BY <2>1, <3>4, <4>1
    <3> QED BY <1>1, <3>1, <3>2, <3>3, <3>4
  <2>4. PICK a \in BOOLEAN, n \in Nat :
            /\ record' = [target |-> target, automatic |-> a, order |-> n]
            /\ ~own /\ ~automatic => ~a
    BY <2>3
  <2>5. /\ record' \in [target : Targets, automatic : BOOLEAN, order : Nat]
        /\ record'.target = target /\ record'.automatic = a
    BY <2>4
  <2>6. record' # NoRecord
    BY <2>4 DEF NoRecord
  <2>7. record.target = target /\ record.automatic = automatic /\ ai.own = own
    BY <1>1, <2>1
  <2> QED BY <1>3, <2>4, <2>5, <2>6, <2>7 DEF Records
<1> QED BY <1>2, <1>4, <1>5

LEMMA StandingInitially ==
    ASSUME TargetsInit
    PROVE  StandingInv
<1>1. TargetsTyped
  BY DEF TargetsInit, TargetsTyped, Targets, Records, AiStates
<1>2. Len(scopes) = 0 /\ Inner.hook = "none" /\ standing = NoTarget
  BY DEF TargetsInit, Inner
<1> QED BY <1>1, <1>2 DEF StandingInv, HooksInTicks, StandingRecorded, RefreshSpares

(* The record of the order in force is never dropped by a check of it.      *)
LEMMA RecordStands ==
    ASSUME StandingInv, record' = record \/ record' = CheckedRecord,
           UNCHANGED <<standing, shared, suspended>>, ai'.own = ai.own
    PROVE  StandingRecorded' /\ record' \in Records
<1>1. record' = record \/ record' = NoRecord
  BY DEF CheckedRecord
<1>2. record' \in Records
  BY <1>1 DEF StandingInv, TargetsTyped, Records
<1>3. ASSUME standing # NoTarget PROVE record' = record
  <2>1. ~Reset /\ Matches
    BY <1>3 DEF StandingInv, StandingRecorded, Reset, Matches
  <2> QED BY <2>1 DEF CheckedRecord
<1> QED BY <1>2, <1>3 DEF StandingInv, StandingRecorded

(* Steps that begin and end hooks, and what the game does in between.       *)
LEMMA HooksStand ==
    ASSUME StandingInv, Tick \/ NativeTicked \/ Acquired \/ BroadcastEnds
    PROVE  StandingInv'
<1> USE DEF StandingInv
<1>1. /\ UNCHANGED <<mount, shared, private, lives, atWill, suspended, record, ai, standing>>
      /\ record' = record
  BY DEF Tick, NativeTicked, Acquired, BroadcastEnds
<1>2. scopes' \in Seq(HookScopes) /\ HooksInTicks' /\ Inner'.hook # "refresh"
  <2>1. ASSUME NEW h \in {"tick", "acquire"}, NEW left \in SUBSET Mounts,
               scopes' = <<[hook |-> h, left |-> left]>>
        PROVE  scopes' \in Seq(HookScopes) /\ HooksInTicks' /\ Inner'.hook # "refresh"
    <3>1. [hook |-> h, left |-> left] \in HookScopes
      BY DEF HookScopes
    <3>2. Len(scopes') = 1 /\ scopes' # <<>> /\ scopes'[1].hook = h
      BY <2>1
    <3> QED BY <2>1, <3>1, <3>2 DEF HooksInTicks, Inner, InnerScope
  <2>2. CASE Tick
    BY <2>1, <2>2 DEF Tick
  <2>3. CASE NativeTicked
    BY <2>1, <2>3 DEF NativeTicked
  <2>4. CASE Acquired
    <3>1. scopes' = <<>>
      BY <2>4 DEF Acquired
    <3> QED BY <3>1 DEF HooksInTicks, Inner
  <2>5. CASE BroadcastEnds
    <3>1. scopes # <<>> /\ scopes' = SubSeq(scopes, 1, Len(scopes) - 1)
      BY <2>5 DEF BroadcastEnds, Inner
    <3> QED BY <3>1, ScopeEnds
  <2> QED BY <2>2, <2>3, <2>4, <2>5
<1> QED BY <1>1, <1>2, RecordStands DEF TargetsTyped, RefreshSpares

(* The hooks under way, the gun's targets and the record stay as they are.  *)
LEMMA OthersStand ==
    ASSUME StandingInv,
           CheckAttack \/ MoveGiven \/ Suspend \/ (\E m \in Mounts : Board(m))
               \/ (\E e \in Enemies : Die(e)) \/ UNCHANGED targetVars
    PROVE  StandingInv'
<1>0. TargetsTyped /\ HooksInTicks /\ StandingRecorded /\ RefreshSpares
  BY DEF StandingInv
<1>1. UNCHANGED <<scopes, private, shared>>
  BY DEF CheckAttack, MoveGiven, Suspend, Board, Die, targetVars
<1>2. HooksInTicks' /\ Inner' = Inner
  BY <1>0, <1>1 DEF HooksInTicks, Inner, InnerScope
<1>3. CASE CheckAttack
  <2>1. /\ UNCHANGED <<mount, lives, atWill, suspended>> /\ standing' \in {standing, NoTarget}
        /\ scopes = <<>>
        /\ record' = NoRecord => standing' = NoTarget \/ record = NoRecord \/ ~Matches \/ Reset
    <3>1. PICK seen : seen = Observed
      OBVIOUS
    <3>2. /\ record' = (IF ~Reset /\ seen # NoRecord /\ shared # NoTarget /\ seen.target = shared
                        THEN seen ELSE NoRecord)
          /\ standing' \in {standing, NoTarget} /\ scopes = <<>>
          /\ UNCHANGED <<mount, lives, atWill, suspended>>
      BY <1>3, <3>1 DEF CheckAttack
    <3>3. ASSUME standing # NoTarget PROVE seen # NoRecord /\ seen.target = shared
      <4>1. PICK target \in Targets, automatic \in BOOLEAN, of \in Nat :
                record = [target |-> target, automatic |-> automatic, order |-> of]
        BY <1>0, <3>3 DEF TargetsTyped, StandingRecorded, Records
      <4>2. ~automatic /\ target = shared /\ ~ai.own /\ record # NoRecord
        BY <1>0, <3>3, <4>1 DEF StandingRecorded
      <4>3. seen = record \/ seen = [record EXCEPT !.order = ai.order]
        BY <3>1, <4>1, <4>2 DEF Observed
      <4>4. seen = record \/ seen = [target |-> target, automatic |-> automatic,
                                     order |-> ai.order]
        BY <4>1, <4>3
      <4>5. seen.target = target
        BY <4>1, <4>4
      <4>6. seen # NoRecord
        BY <4>1, <4>2, <4>4 DEF NoRecord
      <4> QED BY <4>2, <4>5, <4>6
    <3> QED BY <3>2, <3>3 DEF Matches
  <2>2. StandingRecorded'
    <3> SUFFICES ASSUME standing' # NoTarget
                 PROVE  /\ shared' = standing' /\ ~suspended' /\ ~ai'.own
                        /\ record' # NoRecord /\ record'.target = standing' /\ ~record'.automatic
      BY DEF StandingRecorded
    <3>1. standing' = standing /\ standing # NoTarget /\ Matches /\ ~Reset
          /\ record # NoRecord /\ ~record.automatic /\ ~ai.own
      BY <1>0, <2>1 DEF StandingRecorded, Matches, Reset
    <3>2. shared = standing /\ record.target = standing /\ ~suspended
      BY <1>0, <3>1 DEF StandingRecorded
    <3>3. /\ ai'.own = ai.own
          /\ record' = NoRecord
             \/ (record' # NoRecord /\ record'.target = record.target /\ ~record'.automatic)
      BY <1>0, <1>3, <3>1, AttackChecked
    <3>4. record' # NoRecord
      BY <2>1, <3>1
    <3> QED BY <1>1, <2>1, <3>1, <3>2, <3>3, <3>4
  <2>3. RefreshSpares'
    <3>1. Inner.hook # "refresh"
      BY <2>1 DEF Inner
    <3> QED BY <1>2, <3>1 DEF RefreshSpares
  <2>4. TargetsTyped'
    <3>1. record' \in Records /\ ai' \in AiStates
      BY <1>0, <1>3, AttackChecked
    <3> QED BY <1>0, <1>1, <2>1, <3>1 DEF TargetsTyped
  <2> QED BY <1>2, <2>2, <2>3, <2>4 DEF StandingInv
<1>4. CASE MoveGiven
  <2>1. ai' = [ai EXCEPT !.order = @ + 1, !.own = TRUE, !.deferred = TRUE] /\ standing' = NoTarget
        /\ scopes = <<>> /\ UNCHANGED <<lives, atWill, record>>
    BY <1>4 DEF MoveGiven
  <2>2. ai' \in AiStates
    <3>1. PICK attacks \in BOOLEAN, order \in Nat, own, deferred, checked \in BOOLEAN :
              ai = [attacks |-> attacks, order |-> order, own |-> own, deferred |-> deferred,
                    checked |-> checked]
      BY <1>0 DEF TargetsTyped, AiStates
    <3>2. ai' = [attacks |-> attacks, order |-> order + 1, own |-> TRUE, deferred |-> TRUE,
                 checked |-> checked]
      BY <2>1, <3>1
    <3> QED BY <3>1, <3>2 DEF AiStates
  <2>3. TargetsTyped'
    BY <1>0, <1>1, <2>1, <2>2 DEF TargetsTyped
  <2>4. StandingRecorded'
    BY <2>1 DEF StandingRecorded
  <2>5. Inner'.hook # "refresh"
    BY <1>1, <2>1 DEF Inner
  <2> QED BY <1>2, <2>3, <2>4, <2>5 DEF StandingInv, RefreshSpares
<1>5. CASE Suspend
  <2>1. standing' = NoTarget /\ scopes = <<>> /\ UNCHANGED <<lives, record, ai>>
    BY <1>5 DEF Suspend
  <2>2. atWill' \in BOOLEAN
    <3>1. atWill' = (atWill \/ ~suspended)
      BY <1>5 DEF Suspend
    <3> QED BY <3>1
  <2>3. TargetsTyped'
    BY <1>0, <1>1, <2>1, <2>2 DEF TargetsTyped
  <2>4. StandingRecorded'
    BY <2>1 DEF StandingRecorded
  <2>5. Inner'.hook # "refresh"
    BY <1>1, <2>1 DEF Inner
  <2> QED BY <1>2, <2>3, <2>4, <2>5 DEF StandingInv, RefreshSpares
<1>6. ASSUME NEW m \in Mounts, Board(m) PROVE StandingInv'
  <2>1. /\ UNCHANGED <<lives, atWill, suspended, record, ai, standing>>
        /\ Inner.hook # "refresh"
    BY <1>6 DEF Board
  <2>2. TargetsTyped' /\ StandingRecorded'
    BY <1>0, <1>1, <2>1 DEF TargetsTyped, StandingRecorded
  <2> QED BY <1>2, <2>1, <2>2 DEF StandingInv, RefreshSpares
<1>7. ASSUME NEW e \in Enemies, Die(e) PROVE StandingInv'
  <2>1. /\ UNCHANGED <<mount, atWill, suspended, record, ai>>
        /\ standing' \in {standing, NoTarget}
        /\ lives' = [lives EXCEPT ![e] = FALSE]
    BY <1>7 DEF Die
  <2>2. lives' \in [Enemies -> BOOLEAN] /\ \A t \in Enemies : lives'[t] => lives[t]
    BY <1>0, <2>1 DEF TargetsTyped
  <2>3. TargetsTyped'
    BY <1>0, <1>1, <2>1, <2>2 DEF TargetsTyped
  <2>4. StandingRecorded'
    BY <1>0, <1>1, <2>1 DEF StandingRecorded
  <2>5. RefreshSpares'
    <3> SUFFICES ASSUME Inner.hook = "refresh", Inner.free
                 PROVE  /\ atWill /\ (record = NoRecord \/ record.automatic)
                        /\ \A m \in Mounts :
                               mount[m] = "passenger" /\ Inner.had[m] # NoTarget
                                   /\ lives'[Inner.had[m]] => private[m] = Inner.had[m]
      BY <1>1, <1>2, <2>1 DEF RefreshSpares
    <3>1. scopes # <<>>
      BY DEF Inner
    <3>2. \A m \in Mounts : Inner.had[m] \in Targets
      BY <1>0, <3>1, InnerTyped DEF HookScopes
    <3>3. \A m \in Mounts : Inner.had[m] # NoTarget /\ lives'[Inner.had[m]] => lives[Inner.had[m]]
      BY <2>2, <3>2 DEF Targets
    <3> QED BY <1>0, <3>3 DEF RefreshSpares
  <2> QED BY <1>2, <2>3, <2>4, <2>5 DEF StandingInv
<1>8. CASE UNCHANGED targetVars
  <2>1. UNCHANGED <<mount, lives, atWill, suspended, record, ai, standing>>
    BY <1>8 DEF targetVars
  <2> QED BY <1>0, <1>1, <1>2, <2>1 DEF StandingInv, TargetsTyped, StandingRecorded, RefreshSpares
<1> QED BY <1>3, <1>4, <1>5, <1>6, <1>7, <1>8

LEMMA AcquireStands ==
    ASSUME StandingInv, NEW m \in Mounts, Acquire(m)
    PROVE  StandingInv' /\ (standing # NoTarget => private' = private)
<1>1. TargetsTyped /\ HooksInTicks
  BY DEF StandingInv
<1>2. /\ Inner.hook = "acquire" /\ scopes # <<>>
      /\ scopes' = [scopes EXCEPT ![Len(scopes)].left = @ \ {m}]
      /\ UNCHANGED <<mount, shared, lives, atWill, suspended, ai, standing>>
  BY DEF Acquire, Inner
<1>3. scopes' \in Seq(HookScopes) /\ HooksInTicks' /\ Inner'.hook = "acquire"
  BY <1>1, <1>2, ScopeShrinks
<1>4. Reaims(m) /\ (record' = record \/ record' = CheckedRecord)
  BY <1>1, AcquireReaims
<1>5. StandingRecorded' /\ record' \in Records
  BY <1>2, <1>4, RecordStands
<1>6. TargetsTyped'
  BY <1>1, <1>2, <1>3, <1>4, <1>5, ReaimedTyped DEF TargetsTyped
<1>7. ASSUME standing # NoTarget PROVE private' = private
  <2>1. ~Reset /\ Matches /\ record # NoRecord /\ ~record.automatic
    BY <1>7 DEF StandingInv, StandingRecorded, Reset, Matches
  <2>2. ~AcquireIntent
    BY <2>1 DEF AcquireIntent, Intent, CheckedRecord
  <2> QED BY <2>2 DEF Acquire
<1> QED BY <1>3, <1>5, <1>6, <1>7 DEF StandingInv, RefreshSpares

(* In the refresh, the gunner fires at will, and his record does not say    *)
(* otherwise: a mount with a live target keeps it.                          *)
LEMMA BroadcastStands ==
    ASSUME StandingInv, NEW m \in Mounts, Broadcast(m)
    PROVE  StandingInv'
<1>1. TargetsTyped /\ HooksInTicks
  BY DEF StandingInv
<1>2. /\ Inner.hook \in {"refresh", "command"} /\ scopes # <<>>
      /\ scopes' = [scopes EXCEPT ![Len(scopes)].left = @ \ {m}]
      /\ UNCHANGED <<mount, shared, lives, atWill, suspended, ai, standing>>
  BY DEF Broadcast, Inner
<1>3. /\ scopes' \in Seq(HookScopes) /\ HooksInTicks' /\ Inner'.hook = Inner.hook
      /\ Inner.hook = "refresh" => Inner'.had = Inner.had /\ Inner'.free = Inner.free
  BY <1>1, <1>2, ScopeShrinks
<1>4. PICK e \in Targets :
          /\ Route(m, e, InnerScope.hook = "command" /\ InnerScope.explicit)
          /\ e = shared \/ e = NoTarget
  <2>1. \E e \in {shared} \cup (IF InnerScope.hook = "refresh" THEN {NoTarget} ELSE {}) :
            Route(m, e, InnerScope.hook = "command" /\ InnerScope.explicit)
    BY DEF Broadcast
  <2>2. shared \in Targets /\ NoTarget \in Targets
    BY <1>1 DEF TargetsTyped, Targets
  <2> QED BY <2>1, <2>2
<1>5. Reaims(m) /\ (record' = record \/ record' = CheckedRecord)
  BY <1>1, <1>4, RouteReaims
<1>6. StandingRecorded' /\ record' \in Records
  BY <1>2, <1>5, RecordStands
<1>7. private' \in [Mounts -> Targets] /\ \A n \in Mounts \ {m} : private'[n] = private[n]
  BY <1>1, <1>5, ReaimedTyped
<1>8. TargetsTyped'
  BY <1>1, <1>2, <1>3, <1>6, <1>7 DEF TargetsTyped
<1>9. RefreshSpares'
  <2> SUFFICES ASSUME Inner.hook = "refresh", Inner.free
               PROVE  /\ atWill /\ (record' = NoRecord \/ record'.automatic)
                      /\ \A n \in Mounts :
                             mount[n] = "passenger" /\ Inner.had[n] # NoTarget
                                 /\ lives[Inner.had[n]] => private'[n] = Inner.had[n]
    BY <1>2, <1>3 DEF RefreshSpares
  <2>1. /\ atWill /\ (record = NoRecord \/ record.automatic)
        /\ \A n \in Mounts : mount[n] = "passenger" /\ Inner.had[n] # NoTarget
                                 /\ lives[Inner.had[n]] => private[n] = Inner.had[n]
    BY DEF StandingInv, RefreshSpares
  <2>2. CheckedRecord \in {record, NoRecord}
    BY DEF CheckedRecord
  <2>3. Intent
    BY <2>1, <2>2 DEF Intent
  <2>4. ASSUME mount[m] = "passenger", Inner.had[m] # NoTarget, lives[Inner.had[m]]
        PROVE  private'[m] = Inner.had[m]
    <3>1. private[m] = Inner.had[m]
      BY <2>1, <2>4
    <3>2. InnerScope = Inner /\ ~(InnerScope.hook = "command")
      BY <1>2 DEF Inner
    <3>3. Independent(m, FALSE)
      BY <1>2, <2>3, <2>4 DEF Independent
    <3>4. Route(m, e, FALSE)
      <4>1. (InnerScope.hook = "command" /\ InnerScope.explicit) = FALSE
        BY <3>2
      <4> QED BY <1>4, <4>1
    <3>5. \/ e # NoTarget /\ e = shared
          \/ e = NoTarget /\ Inner.hook = "refresh" /\ private[m] # NoTarget /\ lives[private[m]]
      BY <1>4, <2>4, <3>1
    <3>6. private' = private
      BY <3>3, <3>4, <3>5 DEF Route
    <3> QED BY <3>1, <3>6
  <2> QED BY <1>5, <1>7, <2>1, <2>2, <2>4
<1> QED BY <1>3, <1>6, <1>8, <1>9 DEF StandingInv

LEMMA ClearStands ==
    ASSUME StandingInv, NEW m \in Mounts, ClearGun(m)
    PROVE  StandingInv'
<1>1. TargetsTyped /\ HooksInTicks
  BY DEF StandingInv
<1>2. /\ Inner.hook # "refresh" /\ Route(m, NoTarget, FALSE) /\ NoTarget \in Targets
      /\ UNCHANGED <<mount, shared, lives, atWill, suspended, ai, scopes, standing>>
  BY DEF ClearGun, Targets
<1>3. Reaims(m) /\ (record' = record \/ record' = CheckedRecord)
  BY <1>1, <1>2, RouteReaims
<1>4. StandingRecorded' /\ record' \in Records
  BY <1>2, <1>3, RecordStands
<1>5. TargetsTyped'
  BY <1>1, <1>2, <1>3, <1>4, ReaimedTyped DEF TargetsTyped
<1>6. HooksInTicks' /\ Inner'.hook # "refresh"
  BY <1>1, <1>2 DEF HooksInTicks, Inner, InnerScope
<1> QED BY <1>4, <1>5, <1>6 DEF StandingInv, RefreshSpares

LEMMA RefreshStands ==
    ASSUME StandingInv, NEW t \in Targets, SharedRefresh(t)
    PROVE  StandingInv'
<1>1. TargetsTyped /\ HooksInTicks /\ StandingRecorded
  BY DEF StandingInv
<1>2. PICK new : new = [hook |-> "refresh", left |-> Mounts, had |-> private,
                        free |-> atWill /\ (record = NoRecord \/ record.automatic)]
  OBVIOUS
<1>3. /\ Inner.hook \in {"none", "tick"} /\ scopes' = Append(scopes, new) /\ shared' = t
      /\ standing' = (IF t = standing THEN standing ELSE NoTarget)
      /\ UNCHANGED <<mount, private, lives, atWill, suspended, record, ai>>
  BY <1>2 DEF SharedRefresh
<1>4. new \in HookScopes
  <2>1. (atWill /\ (record = NoRecord \/ record.automatic)) \in BOOLEAN
    OBVIOUS
  <2> QED BY <1>1, <1>2, <2>1 DEF HookScopes, TargetsTyped
<1>5. scopes' \in Seq(HookScopes) /\ HooksInTicks' /\ Inner' = new
  BY <1>1, <1>3, <1>4, ScopePushed
<1>6. TargetsTyped'
  BY <1>1, <1>3, <1>5 DEF TargetsTyped
<1>7. StandingRecorded'
  BY <1>1, <1>3 DEF StandingRecorded
<1>8. RefreshSpares'
  BY <1>2, <1>3, <1>5 DEF RefreshSpares
<1> QED BY <1>5, <1>6, <1>7, <1>8 DEF StandingInv

LEMMA CommandStands ==
    ASSUME StandingInv, NEW t \in Targets, NEW explicit \in BOOLEAN, Command(t, explicit)
    PROVE  StandingInv'
<1>1. TargetsTyped
  BY DEF StandingInv
<1>2. PICK new : new = [hook |-> "command", left |-> Mounts, explicit |-> explicit]
  OBVIOUS
<1>3. /\ scopes' = <<new>> /\ shared' = t /\ suspended' = FALSE /\ atWill' \in BOOLEAN
      /\ ai' = [attacks |-> t # NoTarget, order |-> ai.order + 1, own |-> ~explicit,
                deferred |-> FALSE, checked |-> FALSE]
      /\ UNCHANGED <<mount, private, lives>>
  BY <1>2 DEF Command
<1>4. /\ record' = (IF PassengerAboard /\ t # NoTarget
                    THEN [target |-> t, automatic |-> ~explicit, order |-> 0] ELSE NoRecord)
      /\ standing' = (IF explicit /\ PassengerAboard THEN t ELSE NoTarget)
  BY DEF Command
<1>5. record' \in Records
  BY <1>4 DEF Records
<1>6. ai' \in AiStates
  <2>1. ai.order + 1 \in Nat
    BY <1>1 DEF TargetsTyped, AiStates
  <2>2. (t # NoTarget) \in BOOLEAN /\ (~explicit) \in BOOLEAN
    OBVIOUS
  <2> QED BY <1>3, <2>1, <2>2 DEF AiStates
<1>7. new \in HookScopes /\ new.hook = "command"
  BY <1>2 DEF HookScopes
<1>8. scopes' \in Seq(HookScopes) /\ HooksInTicks' /\ Inner'.hook # "refresh"
  <2>1. Len(scopes') = 1 /\ scopes' # <<>> /\ scopes'[1] = new
    BY <1>3
  <2> QED BY <1>3, <1>7, <2>1 DEF HooksInTicks, Inner, InnerScope
<1>9. TargetsTyped'
  BY <1>1, <1>3, <1>5, <1>6, <1>8 DEF TargetsTyped
<1>10. StandingRecorded'
  <2> SUFFICES ASSUME standing' # NoTarget
               PROVE  /\ shared' = standing' /\ ~suspended' /\ ~ai'.own
                      /\ record' # NoRecord /\ record'.target = standing' /\ ~record'.automatic
    BY DEF StandingRecorded
  <2>1. explicit /\ PassengerAboard /\ standing' = t /\ t # NoTarget
    BY <1>4
  <2>2. record' = [target |-> t, automatic |-> FALSE, order |-> 0]
    BY <1>4, <2>1
  <2>3. record' # NoRecord
    BY <2>1, <2>2 DEF NoRecord
  <2> QED BY <1>3, <2>1, <2>2, <2>3
<1> QED BY <1>8, <1>9, <1>10 DEF StandingInv, RefreshSpares

LEMMA StandingKept ==
    ASSUME StandingInv, [TargetsNext]_targetVars
    PROVE  StandingInv'
<1>1. CASE Tick \/ NativeTicked \/ Acquired \/ BroadcastEnds
  BY <1>1, HooksStand
<1>2. CASE CheckAttack \/ MoveGiven \/ Suspend \/ (\E m \in Mounts : Board(m))
               \/ (\E e \in Enemies : Die(e)) \/ UNCHANGED targetVars
  BY <1>2, OthersStand
<1>3. ASSUME NEW m \in Mounts, Acquire(m) \/ Broadcast(m) \/ ClearGun(m)
      PROVE  StandingInv'
  BY <1>3, AcquireStands, BroadcastStands, ClearStands
<1>4. ASSUME NEW t \in Targets, SharedRefresh(t) \/ \E explicit \in BOOLEAN : Command(t, explicit)
      PROVE  StandingInv'
  BY <1>4, RefreshStands, CommandStands
<1> QED BY <1>1, <1>2, <1>3, <1>4 DEF TargetsNext

(* Only an acquisition and a broadcast, in hooks of their own, and the      *)
(* clearing of a gun, outside them, change a gun's target.                  *)
LEMMA OthersKeepTargets ==
    ASSUME [TargetsNext]_targetVars, Inner.hook = "acquire",
           \A m \in Mounts : ~Acquire(m)
    PROVE  private' = private
<1>1. ASSUME NEW m \in Mounts, Acquire(m) \/ Broadcast(m) \/ ClearGun(m) \/ Board(m)
      PROVE  private' = private
  <2>1. ~Broadcast(m) /\ ~ClearGun(m)
    BY DEF Broadcast, ClearGun
  <2> QED BY <1>1, <2>1 DEF Board
<1>2. CASE Tick \/ NativeTicked \/ Acquired \/ BroadcastEnds \/ CheckAttack \/ MoveGiven
               \/ Suspend \/ UNCHANGED targetVars
  BY <1>2 DEF Tick, NativeTicked, Acquired, BroadcastEnds, CheckAttack, MoveGiven, Suspend,
              targetVars
<1>3. ASSUME NEW t \in Targets, SharedRefresh(t) \/ \E explicit \in BOOLEAN : Command(t, explicit)
      PROVE  private' = private
  BY <1>3 DEF SharedRefresh, Command
<1>4. ASSUME NEW e \in Enemies, Die(e) PROVE private' = private
  BY <1>4 DEF Die
<1> QED BY <1>1, <1>2, <1>3, <1>4 DEF TargetsNext

(* While the attack the player ordered stands, no gun of the vehicle looks  *)
(* for a target of its own, and a refresh of the gunner's target leaves the *)
(* guns that fire at will the live targets they had, however refreshes,     *)
(* commands, ticks and deaths interleave.                                   *)
THEOREM PlayersTargetsStand == TargetsSpec => ExplicitOrderHolds /\ PrivateTargetsSurvive
<1>1. StandingInv /\ [TargetsNext]_targetVars
          => [standing # NoTarget /\ Inner.hook = "acquire" => private' = private]_targetVars
  <2> SUFFICES ASSUME StandingInv, [TargetsNext]_targetVars, standing # NoTarget,
                      Inner.hook = "acquire"
               PROVE  private' = private
    OBVIOUS
  <2>1. CASE \E m \in Mounts : Acquire(m)
    BY <2>1, AcquireStands
  <2>2. CASE \A m \in Mounts : ~Acquire(m)
    BY <2>2, OthersKeepTargets
  <2> QED BY <2>1, <2>2
<1>2. StandingInv /\ [TargetsNext]_targetVars
          => [Inner.hook = "refresh" /\ InnerScope.left = {} /\ InnerScope.free /\ ~suspended =>
                 \A m \in Mounts : mount[m] = "passenger" /\ InnerScope.had[m] # NoTarget
                                       /\ lives[InnerScope.had[m]]
                                   => private[m] = InnerScope.had[m]]_targetVars
  <2> SUFFICES ASSUME StandingInv, Inner.hook = "refresh", InnerScope.free
               PROVE  \A m \in Mounts : mount[m] = "passenger" /\ InnerScope.had[m] # NoTarget
                                            /\ lives[InnerScope.had[m]]
                                        => private[m] = InnerScope.had[m]
    OBVIOUS
  <2>1. Inner = InnerScope
    BY DEF Inner
  <2> QED BY <2>1 DEF StandingInv, RefreshSpares
<1>3. TargetsSpec => []StandingInv
  <2>1. TargetsInit => StandingInv
    BY StandingInitially
  <2>2. StandingInv /\ [TargetsNext]_targetVars => StandingInv'
    BY StandingKept
  <2> QED BY <2>1, <2>2, PTL DEF TargetsSpec
<1> QED BY <1>1, <1>2, <1>3, PTL DEF TargetsSpec, ExplicitOrderHolds, PrivateTargetsSurvive

-----------------------------------------------------------------------------
(* regroup. The factory numbers the squads it makes. *)
SquadsNumbered ==
    /\ nextSquad \in 3..(MaxSquads + 1)
    /\ squads \subseteq 1..(nextSquad - 1) /\ squadOf \in [Troops -> 1..(nextSquad - 1)]
    /\ DOMAIN pools = 1..MaxSquads
    /\ living \subseteq Troops /\ scripts \in Nat
    /\ DOMAIN spawn = DOMAIN NoSpawn
    /\ spawn.made \subseteq 1..(nextSquad - 1) /\ (~spawn.on => spawn.made = {})

(* Every origin has its place in the ledger, and is no squad that the       *)
(* request under way made.                                                  *)
HomesRecorded ==
    /\ origin \in [Troops -> Nat] /\ DOMAIN origins \subseteq Nat
    /\ \A s \in Troops : origin[s] # 0 => origin[s] \in DOMAIN origins
    /\ \A k \in DOMAIN origins : origins[k].at \in 1..(nextSquad - 1) /\ origins[k].at \notin spawn.made

RegroupInv == SquadsNumbered /\ HomesRecorded

LEMMA LedgerPlaces ==
    ASSUME NEW parked, NEW woken
    PROVE  /\ DOMAIN Ledger(parked, woken) = DOMAIN origins
           /\ \A k \in DOMAIN origins : Ledger(parked, woken)[k].at = origins[k].at
BY DEF Ledger

(* What a move empties is removed only when nobody is to come back to it.   *)
LEMMA HomesNotCleaned ==
    ASSUME RegroupInv, NEW Q, NEW rosters, NEW s \in living, origin[s] # 0
    PROVE  origins[origin[s]].at \notin Cleaned(Q, rosters)
<1>1. origin[s] \in DOMAIN origins
  BY DEF RegroupInv, SquadsNumbered, HomesRecorded
<1>2. origin[s] \in KeyOf(origins[origin[s]].at)
  BY <1>1 DEF KeyOf
<1> QED BY <1>2 DEF Cleaned, Parked, KeepEmpty, IsHome

LEMMA RegroupInitially ==
    ASSUME RegroupInit
    PROVE  RegroupInv
<1>1. SquadsNumbered
  BY FirstSquadsAreTwo DEF RegroupInit, SquadsNumbered, NoSpawn
<1>2. DOMAIN origins = {} /\ origin \in [Troops -> Nat] /\ \A s \in Troops : origin[s] = 0
  BY DEF RegroupInit
<1> QED BY <1>1, <1>2 DEF RegroupInv, HomesRecorded

(* remember, for soldiers whose squads exist. *)
LEMMA RememberKeeps ==
    ASSUME RegroupInv, NEW who \in SUBSET living, Remember(who)
    PROVE  /\ origin' \in [Troops -> Nat] /\ DOMAIN origins' \subseteq Nat
           /\ \A s \in Troops : origin'[s] # 0 => origin'[s] \in DOMAIN origins'
           /\ \A k \in DOMAIN origins' : origins'[k].at \in 1..(nextSquad - 1)
           /\ \A s \in living : origin[s] # 0 => origin'[s] = origin[s]
<1>1. PICK key : key = [q \in Nat |-> IF Stale THEN q ELSE OriginOf(q)]
  OBVIOUS
<1>2. PICK known, kept, fresh :
          /\ known = KnownOrigin /\ kept = KeptOrigins /\ fresh = Unrecorded(who, known)
  OBVIOUS
<1>3. /\ nextSquad \in Nat /\ \A s \in Troops : squadOf[s] \in 1..(nextSquad - 1)
      /\ living \subseteq Troops
  BY FirstSquadsAreTwo DEF RegroupInv, SquadsNumbered
<1>4. /\ origin' = [s \in Troops |-> IF s \in fresh THEN key[squadOf[s]] ELSE known[s]]
      /\ origins' = [k \in DOMAIN kept \cup {key[squadOf[s]] : s \in fresh} |->
                        IF k \in DOMAIN kept THEN kept[k] ELSE [at |-> k, parked |-> "no"]]
  <2>1. \A s \in fresh : squadOf[s] \in Nat
    BY <1>2, <1>3 DEF Unrecorded
  <2> QED BY <1>1, <1>2, <2>1 DEF Remember
<1>5. fresh \subseteq Troops /\ \A s \in fresh : known[s] = 0
  BY <1>2, <1>3 DEF Unrecorded
<1>6. /\ known \in [Troops -> Nat] /\ DOMAIN kept \subseteq Nat
      /\ \A s \in Troops : known[s] # 0 => known[s] \in DOMAIN kept
      /\ \A k \in DOMAIN kept : kept[k].at \in 1..(nextSquad - 1)
      /\ \A s \in living : origin[s] # 0 => known[s] = origin[s]
  <2>1. CASE Stale
    <3>1. known = [s \in Troops |-> 0] /\ DOMAIN kept = {}
      BY <1>2, <2>1 DEF KnownOrigin, KeptOrigins
    <3>2. \A s \in living : origin[s] = 0
      BY <2>1 DEF Stale
    <3> QED BY <3>1, <3>2
  <2>2. CASE ~Stale
    BY <1>2, <1>3, <2>2 DEF KnownOrigin, KeptOrigins, RegroupInv, HomesRecorded
  <2> QED BY <2>1, <2>2
<1>7. ASSUME NEW s \in fresh
      PROVE  key[squadOf[s]] \in DOMAIN kept \cup 1..(nextSquad - 1)
  <2>1. squadOf[s] \in 1..(nextSquad - 1) /\ squadOf[s] \in Nat
    BY <1>3, <1>5
  <2>2. CASE Stale
    BY <1>1, <2>1, <2>2
  <2>3. CASE ~Stale /\ ~IsHome(squadOf[s])
    BY <1>1, <2>1, <2>3 DEF OriginOf
  <2>4. CASE ~Stale /\ IsHome(squadOf[s])
    <3>1. KeyOf(squadOf[s]) \in SUBSET Nat /\ KeyOf(squadOf[s]) # {}
          /\ KeyOf(squadOf[s]) \subseteq DOMAIN kept
      BY <1>2, <2>4 DEF IsHome, KeyOf, KeptOrigins, RegroupInv, HomesRecorded
    <3>2. Min(KeyOf(squadOf[s])) \in KeyOf(squadOf[s])
      BY <3>1, LeastNumber
    <3> QED BY <1>1, <2>1, <2>4, <3>1, <3>2 DEF OriginOf
  <2> QED BY <2>2, <2>3, <2>4
<1>8. DOMAIN origins' = DOMAIN kept \cup {key[squadOf[s]] : s \in fresh}
      /\ DOMAIN origins' \subseteq DOMAIN kept \cup 1..(nextSquad - 1)
  BY <1>4, <1>7
<1>9. \A s \in Troops : origin'[s] = IF s \in fresh THEN key[squadOf[s]] ELSE known[s]
  BY <1>4
<1>10. origin' \in [Troops -> Nat]
  <2>1. \A s \in Troops : (IF s \in fresh THEN key[squadOf[s]] ELSE known[s]) \in Nat
    BY <1>3, <1>6, <1>7
  <2> QED BY <1>4, <2>1
<1>11. \A k \in DOMAIN origins' : origins'[k].at \in 1..(nextSquad - 1)
  BY <1>4, <1>6, <1>8
<1>12. \A s \in living : origin[s] # 0 => origin'[s] = origin[s]
  BY <1>3, <1>5, <1>6, <1>9
<1> QED BY <1>3, <1>6, <1>8, <1>9, <1>10, <1>11, <1>12

(* Two facts about a step: no home that a living soldier has goes but by a  *)
(* script, and no origin on record changes.                                 *)
HomeStays ==
    \A s \in living : origin[s] # 0 /\ origin'[s] = origin[s] /\ scripts' = scripts
        /\ origins[origin[s]].at \in squads => origins[origin[s]].at \in squads'
OriginStays == \A s \in living : origin[s] # 0 => origin'[s] = origin[s]

(* A step that makes no squad and records no origin. *)
LEMMA LedgerKept ==
    ASSUME RegroupInv, squadOf' \in [Troops -> 1..(nextSquad - 1)], DOMAIN pools' = 1..MaxSquads,
           squads' \subseteq squads, living' \subseteq living, scripts' \in Nat,
           DOMAIN origins' = DOMAIN origins,
           \A k \in DOMAIN origins : origins'[k].at = origins[k].at,
           UNCHANGED <<origin, spawn, nextSquad>>
    PROVE  RegroupInv'
<1>1. SquadsNumbered'
  BY DEF RegroupInv, SquadsNumbered
<1>2. HomesRecorded'
  BY DEF RegroupInv, HomesRecorded
<1> QED BY <1>1, <1>2 DEF RegroupInv

LEMMA PressesKeep ==
    ASSUME RegroupInv, NEW who \in SUBSET Troops, PressRegroup(who) \/ PressRestore(who)
    PROVE  RegroupInv' /\ OriginStays /\ UNCHANGED gameVars
<1>1. /\ UNCHANGED <<squads, squadOf, living, pools, scripts, nextSquad>> /\ UNCHANGED gameVars
      /\ ~spawn.on /\ spawn.made = {} /\ who \subseteq living
  BY DEF PressRegroup, PressRestore, gameVars, Quiet, RegroupInv, SquadsNumbered
<1>2. /\ origin' \in [Troops -> Nat] /\ DOMAIN origins' \subseteq Nat
      /\ \A s \in Troops : origin'[s] # 0 => origin'[s] \in DOMAIN origins'
      /\ \A k \in DOMAIN origins' : origins'[k].at \in 1..(nextSquad - 1)
      /\ OriginStays
  <2>1. CASE UNCHANGED <<origin, origins>>
    BY <2>1 DEF RegroupInv, HomesRecorded, OriginStays
  <2>2. CASE Remember(who)
    BY <1>1, <2>2, RememberKeeps DEF OriginStays
  <2>3. CASE origin' = KnownOrigin /\ origins' = KeptOrigins
    <3>1. CASE Stale
      <4>1. origin' = [s \in Troops |-> 0] /\ DOMAIN origins' = {}
        BY <2>3, <3>1 DEF KnownOrigin, KeptOrigins
      <4>2. OriginStays
        BY <3>1 DEF Stale, OriginStays
      <4> QED BY <4>1, <4>2
    <3>2. CASE ~Stale
      BY <2>3, <3>2 DEF KnownOrigin, KeptOrigins, RegroupInv, HomesRecorded, OriginStays
    <3> QED BY <3>1, <3>2
  <2> QED BY <2>1, <2>2, <2>3 DEF PressRegroup, PressRestore
<1>3. DOMAIN spawn' = DOMAIN NoSpawn /\ spawn'.made = {}
  <2>1. CASE spawn' = spawn
    BY <1>1, <2>1 DEF RegroupInv, SquadsNumbered
  <2>2. CASE spawn' = [NoSpawn EXCEPT !.on = TRUE, !.who = who, !.from = Sources(who)]
    BY <2>2 DEF NoSpawn
  <2> QED BY <2>1, <2>2 DEF PressRegroup, PressRestore
<1>4. SquadsNumbered'
  BY <1>1, <1>3 DEF RegroupInv, SquadsNumbered
<1>5. HomesRecorded'
  BY <1>1, <1>2, <1>3 DEF HomesRecorded
<1> QED BY <1>1, <1>2, <1>4, <1>5 DEF RegroupInv

LEMMA TransferTyped ==
    ASSUME RegroupInv, NEW q \in 1..(nextSquad - 1), NEW who, TransferInto(q, who)
    PROVE  squadOf' \in [Troops -> 1..(nextSquad - 1)] /\ DOMAIN pools' = 1..MaxSquads
<1>1. /\ squadOf' = [s \in Troops |-> IF s \in who THEN q ELSE squadOf[s]]
      /\ DOMAIN pools' = 1..MaxSquads
  BY DEF TransferInto
<1>2. \A s \in Troops : squadOf[s] \in 1..(nextSquad - 1)
  BY DEF RegroupInv, SquadsNumbered
<1> QED BY <1>1, <1>2

(* A pin follows its ammunition into the squad's new pool.                  *)
LEMMA TransferPins ==
    ASSUME RegroupInv, NEW q \in 1..MaxSquads, NEW who, q \notin Sources(who),
           TransferInto(q, who), NEW s \in living
    PROVE  PinnedAmmo(s)' \subseteq PinnedAmmo(s)
<1>1. s \in Troops
  BY DEF RegroupInv, SquadsNumbered
<1>2. pins'[s] = JoinedPins(q, who, s) /\ squadOf'[s] = IF s \in who THEN q ELSE squadOf[s]
  BY <1>1 DEF TransferInto
<1>3. CASE s \in who \cup Roster(q)
  <2>1. PICK old, new : old = Order(DOMAIN pools[squadOf[s]]) /\ new = Order(DOMAIN JoinedPool(q, who))
    OBVIOUS
  <2>2. pins'[s] = RemapPins(old, new, pins[s])
    BY <1>2, <1>3, <2>1 DEF JoinedPins
  <2>3. squadOf'[s] = q
    BY <1>2, <1>3 DEF Roster
  <2>4. pools'[q] = JoinedPool(q, who)
    BY DEF TransferInto
  <2>5. PinnedAmmo(s)' = {new[j] : j \in pins'[s]}
    BY <2>1, <2>3, <2>4 DEF PinnedAmmo
  <2>6. PinnedAmmo(s) = {old[i] : i \in pins[s]}
    BY <2>1 DEF PinnedAmmo
  <2> QED BY <2>2, <2>5, <2>6 DEF RemapPins
<1>4. CASE s \notin who \cup Roster(q)
  <2>1. pins'[s] = pins[s] /\ squadOf'[s] = squadOf[s] /\ squadOf[s] # q
    BY <1>2, <1>4 DEF JoinedPins, Roster
  <2>2. squadOf[s] \in 1..MaxSquads
    BY <1>1, FirstSquadsAreTwo DEF RegroupInv, SquadsNumbered
  <2>3. pools'[squadOf[s]] = IF squadOf[s] \in Sources(who) THEN Left(squadOf[s], who)
                             ELSE pools[squadOf[s]]
    BY <2>1, <2>2 DEF TransferInto
  <2>4. DOMAIN pools'[squadOf[s]] = DOMAIN pools[squadOf[s]]
    BY <2>3 DEF Left
  <2> QED BY <2>1, <2>4 DEF PinnedAmmo
<1> QED BY <1>3, <1>4

LEMMA RestoreKeeps ==
    ASSUME RegroupInv, RestoreGroup
    PROVE  /\ RegroupInv' /\ OriginStays /\ HomeStays
           /\ living' = living /\ \A s \in living : PinnedAmmo(s)' \subseteq PinnedAmmo(s)
<1>1. UNCHANGED <<origin, scripts, nextSquad, living>> /\ ~spawn.on /\ spawn.made = {}
  BY DEF RestoreGroup, gameVars, RegroupInv, SquadsNumbered
<1>2. CASE /\ UNCHANGED <<gameVars, origins>>
           /\ spawn' = spawn \/ (DOMAIN spawn' = DOMAIN NoSpawn /\ spawn'.made = {} /\ spawn'.on)
  <2>1. UNCHANGED <<squads, squadOf, pools, pins>>
    BY <1>2 DEF gameVars
  <2>2. SquadsNumbered'
    BY <1>1, <1>2, <2>1 DEF RegroupInv, SquadsNumbered
  <2>3. HomesRecorded'
    BY <1>1, <1>2 DEF RegroupInv, HomesRecorded
  <2> QED BY <1>1, <2>1, <2>2, <2>3 DEF RegroupInv, OriginStays, HomeStays, PinnedAmmo
<1>3. ASSUME NEW q, NEW who, q \in squads, MayJoin(q, who), TransferInto(q, who),
             CleanupSources(q, who), spawn' = spawn
      PROVE  /\ RegroupInv' /\ OriginStays /\ HomeStays
             /\ living' = living /\ \A s \in living : PinnedAmmo(s)' \subseteq PinnedAmmo(s)
  <2>1. q \in 1..(nextSquad - 1) /\ q \in 1..MaxSquads /\ q \notin Sources(who)
    BY <1>3, FirstSquadsAreTwo DEF RegroupInv, SquadsNumbered, MayJoin
  <2>2. PICK parked, woken : origins' = Ledger(parked, woken)
    BY <1>3 DEF CleanupSources
  <2>3. squads' = squads \ Cleaned(Sources(who), squadOf')
    BY <1>3 DEF CleanupSources
  <2>4. RegroupInv'
    <3>1. scripts' \in Nat
      BY <1>1 DEF RegroupInv, SquadsNumbered
    <3>2. squadOf' \in [Troops -> 1..(nextSquad - 1)] /\ DOMAIN pools' = 1..MaxSquads
      BY <1>3, <2>1, TransferTyped
    <3>3. DOMAIN origins' = DOMAIN origins /\ \A k \in DOMAIN origins : origins'[k].at = origins[k].at
      BY <2>2, LedgerPlaces
    <3> QED BY <1>1, <1>3, <2>3, <3>1, <3>2, <3>3, LedgerKept
  <2>5. HomeStays
    BY <2>3, HomesNotCleaned DEF HomeStays
  <2>6. \A s \in living : PinnedAmmo(s)' \subseteq PinnedAmmo(s)
    BY <1>3, <2>1, TransferPins
  <2> QED BY <1>1, <2>4, <2>5, <2>6 DEF OriginStays
<1>4. ASSUME NEW who, NEW key,
             spawn' = [NoSpawn EXCEPT !.on = TRUE, !.who = who, !.from = Sources(who), !.key = key]
      PROVE  DOMAIN spawn' = DOMAIN NoSpawn /\ spawn'.made = {} /\ spawn'.on
  BY <1>4 DEF NoSpawn
<1> QED BY <1>2, <1>3, <1>4 DEF RestoreGroup

(* The factory makes a squad with a number of its own.                      *)
LEMMA MadeKeeps ==
    ASSUME RegroupInv, NEW requested, PrepareTemplates(requested)
    PROVE  RegroupInv' /\ OriginStays /\ HomeStays /\ UNCHANGED <<squadOf, pools, pins, living>>
<1>1. /\ nextSquad <= MaxSquads /\ nextSquad' = nextSquad + 1 /\ spawn.on
      /\ squads' = squads \cup {nextSquad}
      /\ UNCHANGED <<squadOf, pools, pins, living, origins, origin, scripts>>
  BY DEF PrepareTemplates
<1>2. /\ spawn'.made = spawn.made \cup {nextSquad} /\ DOMAIN spawn' = DOMAIN NoSpawn
      /\ spawn'.on = spawn.on
  <2>1. DOMAIN spawn = DOMAIN NoSpawn /\ DOMAIN NoSpawn =
            {"on", "who", "from", "key", "prepared", "destination", "constructed", "aborted",
             "made", "created"}
    BY DEF RegroupInv, SquadsNumbered, NoSpawn
  <2>2. PICK prepared : spawn' = [spawn EXCEPT !.made = spawn.made \cup {nextSquad}, !.prepared = prepared]
    BY DEF PrepareTemplates
  <2> QED BY <2>1, <2>2
<1>3. /\ nextSquad \in Nat /\ nextSquad \in 3..(MaxSquads + 1) /\ MaxSquads \in Nat
      /\ 1..(nextSquad' - 1) = 1..(nextSquad - 1) \cup {nextSquad}
  BY <1>1, FirstSquadsAreTwo DEF RegroupInv, SquadsNumbered
<1>4. SquadsNumbered'
  <2>1. nextSquad' \in 3..(MaxSquads + 1)
    BY <1>1, <1>3
  <2>2. squadOf' \in [Troops -> 1..(nextSquad' - 1)]
    BY <1>1, <1>3 DEF RegroupInv, SquadsNumbered
  <2> QED BY <1>1, <1>2, <1>3, <2>1, <2>2 DEF RegroupInv, SquadsNumbered
<1>5. HomesRecorded'
  <2>1. ASSUME NEW k \in DOMAIN origins
        PROVE  origins[k].at \in 1..(nextSquad' - 1) /\ origins[k].at \notin spawn'.made
    <3>1. origins[k].at \in 1..(nextSquad - 1) /\ origins[k].at \notin spawn.made
      BY DEF RegroupInv, HomesRecorded
    <3>2. origins[k].at # nextSquad
      BY <1>3, <3>1
    <3> QED BY <1>2, <1>3, <3>1, <3>2
  <2> QED BY <1>1, <2>1 DEF RegroupInv, HomesRecorded
<1> QED BY <1>1, <1>4, <1>5 DEF RegroupInv, OriginStays, HomeStays

LEMMA MembersKeep ==
    ASSUME RegroupInv, NEW q, CreateMembers(q)
    PROVE  /\ RegroupInv' /\ OriginStays /\ HomeStays
           /\ living' = living /\ \A s \in living : PinnedAmmo(s)' \subseteq PinnedAmmo(s)
<1>1. /\ q \in spawn.made
      /\ UNCHANGED <<squads, living, origins, origin, scripts, nextSquad>>
  BY DEF CreateMembers
<1>2. q \in 1..(nextSquad - 1) /\ q \in 1..MaxSquads
  BY <1>1, FirstSquadsAreTwo DEF RegroupInv, SquadsNumbered
<1>3. spawn'.made = spawn.made /\ DOMAIN spawn' = DOMAIN NoSpawn /\ spawn'.on = spawn.on
  <2>1. DOMAIN spawn = DOMAIN NoSpawn /\ DOMAIN NoSpawn =
            {"on", "who", "from", "key", "prepared", "destination", "constructed", "aborted",
             "made", "created"}
    BY DEF RegroupInv, SquadsNumbered, NoSpawn
  <2>2. PICK created, destination, constructed, aborted :
            spawn' = [spawn EXCEPT !.created = created, !.destination = destination,
                                   !.constructed = constructed, !.aborted = aborted]
    BY DEF CreateMembers
  <2> QED BY <2>1, <2>2
<1>4. \/ MayJoin(q, spawn.who) /\ TransferInto(q, spawn.who)
      \/ UNCHANGED <<pools, pins, squadOf>>
  BY DEF CreateMembers
<1>5. squadOf' \in [Troops -> 1..(nextSquad - 1)] /\ DOMAIN pools' = 1..MaxSquads
  BY <1>2, <1>4, TransferTyped DEF RegroupInv, SquadsNumbered
<1>6. \A s \in living : PinnedAmmo(s)' \subseteq PinnedAmmo(s)
  <2>1. CASE UNCHANGED <<pools, pins, squadOf>>
    BY <2>1 DEF PinnedAmmo
  <2>2. CASE MayJoin(q, spawn.who) /\ TransferInto(q, spawn.who)
    BY <1>2, <2>2, TransferPins DEF MayJoin
  <2> QED BY <1>4, <2>1, <2>2
<1>7. SquadsNumbered' /\ HomesRecorded'
  BY <1>1, <1>3, <1>5 DEF RegroupInv, SquadsNumbered, HomesRecorded
<1> QED BY <1>1, <1>6, <1>7 DEF RegroupInv, OriginStays, HomeStays

LEMMA ReturnKeeps ==
    ASSUME RegroupInv, NEW q, SpawnReturns(q)
    PROVE  RegroupInv' /\ OriginStays /\ HomeStays /\ UNCHANGED <<squadOf, pools, pins, living>>
<1>1. /\ q \in spawn.made \cup {0} /\ spawn' = NoSpawn
      /\ UNCHANGED <<squadOf, pools, pins, living, origin, scripts, nextSquad>>
  BY DEF SpawnReturns
<1>2. DOMAIN spawn' = DOMAIN NoSpawn /\ spawn'.made = {} /\ ~spawn'.on
  BY <1>1 DEF NoSpawn
<1>3. /\ squads' \subseteq squads /\ HomeStays /\ DOMAIN origins' = DOMAIN origins
      /\ \A k \in DOMAIN origins : origins'[k].at \in 1..(nextSquad - 1)
  <2>1. \A k \in DOMAIN origins : origins[k].at \in 1..(nextSquad - 1)
    BY DEF RegroupInv, HomesRecorded
  <2>2. CASE Created(q)
    <3>1. PICK parked : /\ squads' = squads \ Cleaned(spawn.from, squadOf)
                        /\ origins' = Recreated(q, Ledger(parked, spawn.from))
      BY <2>2 DEF SpawnReturns
    <3>2. PICK ledger : ledger = Ledger(parked, spawn.from)
      OBVIOUS
    <3>3. DOMAIN ledger = DOMAIN origins /\ \A k \in DOMAIN origins : ledger[k].at = origins[k].at
      BY <3>2, LedgerPlaces
    <3>4. q \in 1..(nextSquad - 1)
      BY <1>1, <2>2 DEF Created, RegroupInv, SquadsNumbered
    <3>5. origins' = ledger \/ \E at : at.at = q /\ origins' = [ledger EXCEPT ![spawn.key] = at]
      <4>1. CASE spawn.key = 0
        BY <3>1, <3>2, <4>1 DEF Recreated
      <4>2. CASE spawn.key # 0
        <5>1. PICK at : at = [at |-> q, parked |-> ledger[spawn.key].parked]
          OBVIOUS
        <5>2. at.at = q /\ origins' = [ledger EXCEPT ![spawn.key] = at]
          BY <3>1, <3>2, <4>2, <5>1 DEF Recreated
        <5> QED BY <5>2
      <4> QED BY <4>1, <4>2
    <3>6. DOMAIN origins' = DOMAIN origins
          /\ \A k \in DOMAIN origins : origins'[k].at \in {origins[k].at, q}
      BY <3>3, <3>5
    <3>7. HomeStays
      BY <3>1, HomesNotCleaned DEF HomeStays
    <3> QED BY <2>1, <3>1, <3>4, <3>6, <3>7
  <2>3. CASE ~Created(q)
    <3>1. origins' = origins /\ (squads' = squads \/ (q # 0 /\ squads' = squads \ {q}))
      BY <2>3 DEF SpawnReturns
    <3>2. ASSUME NEW s \in living, origin[s] # 0
          PROVE  origins[origin[s]].at \notin spawn.made
      BY <3>2 DEF RegroupInv, SquadsNumbered, HomesRecorded
    <3>3. HomeStays
      BY <1>1, <3>1, <3>2 DEF HomeStays
    <3> QED BY <2>1, <3>1, <3>3
  <2> QED BY <2>2, <2>3
<1>4. SquadsNumbered' /\ HomesRecorded'
  BY <1>1, <1>2, <1>3 DEF RegroupInv, SquadsNumbered, HomesRecorded
<1> QED BY <1>1, <1>3, <1>4 DEF RegroupInv, OriginStays

LEMMA UpdatesKeep ==
    ASSUME RegroupInv, NEW q, UpdateSquad(q) \/ ScriptRemoves(q)
    PROVE  RegroupInv' /\ OriginStays /\ HomeStays /\ UNCHANGED <<squadOf, pools, pins, living>>
<1>1. UNCHANGED <<squadOf, pools, pins, living, origin, spawn, nextSquad>>
  BY DEF UpdateSquad, ScriptRemoves
<1>2. squadOf' \in [Troops -> 1..(nextSquad - 1)] /\ DOMAIN pools' = 1..MaxSquads /\ scripts \in Nat
  BY <1>1 DEF RegroupInv, SquadsNumbered
<1>3. CASE UpdateSquad(q)
  <2>1. PICK parked : /\ squads' = squads \ Cleaned({q}, squadOf)
                      /\ origins' = Ledger(parked, {q}) /\ scripts' = scripts
    BY <1>3 DEF UpdateSquad
  <2>2. DOMAIN origins' = DOMAIN origins /\ \A k \in DOMAIN origins : origins'[k].at = origins[k].at
    BY <2>1, LedgerPlaces
  <2>3. RegroupInv'
    BY <1>1, <1>2, <2>1, <2>2, LedgerKept
  <2>4. HomeStays
    BY <2>1, HomesNotCleaned DEF HomeStays
  <2> QED BY <1>1, <2>3, <2>4 DEF OriginStays
<1>4. CASE ScriptRemoves(q)
  <2>1. squads' \subseteq squads /\ origins' = origins /\ scripts' = scripts + 1
    BY <1>4 DEF ScriptRemoves
  <2>2. scripts' \in Nat /\ scripts' # scripts
    BY <1>2, <2>1
  <2>3. RegroupInv'
    BY <1>1, <1>2, <2>1, <2>2, LedgerKept
  <2> QED BY <1>1, <2>2, <2>3 DEF OriginStays, HomeStays
<1> QED BY <1>3, <1>4


LEMMA EventsKeep ==
    ASSUME RegroupInv, NEW s \in Troops, Fires(s) \/ Reloads(s) \/ Dies(s) \/ Boards(s) \/ Pins(s)
    PROVE  /\ RegroupInv' /\ OriginStays /\ HomeStays /\ living' \subseteq living
           /\ UNCHANGED <<squadOf, pools>>
              \/ (\A t \in living : PinnedAmmo(t)' \subseteq PinnedAmmo(t))
<1>1. /\ UNCHANGED <<squadOf, squads, origins, origin, spawn, scripts, nextSquad>>
      /\ living' \subseteq living
  BY DEF Fires, Reloads, Dies, Boards, Pins
<1>2. /\ DOMAIN pools' = DOMAIN pools
      /\ \A q \in DOMAIN pools : DOMAIN pools'[q] = DOMAIN pools[q]
      /\ UNCHANGED pins \/ UNCHANGED pools
  <2>1. CASE UNCHANGED pools
    BY <2>1
  <2>2. CASE Fires(s) \/ Reloads(s) \/ Dies(s)
    BY <2>2 DEF Fires, Reloads, Dies
  <2> QED BY <2>1, <2>2 DEF Boards, Pins
<1>3. RegroupInv'
  BY <1>1, <1>2, LedgerKept DEF RegroupInv, SquadsNumbered
<1>4. ASSUME NEW t \in living, UNCHANGED pins PROVE PinnedAmmo(t)' \subseteq PinnedAmmo(t)
  <2>1. squadOf[t] \in DOMAIN pools
    BY FirstSquadsAreTwo DEF RegroupInv, SquadsNumbered
  <2> QED BY <1>1, <1>2, <1>4, <2>1 DEF PinnedAmmo
<1> QED BY <1>1, <1>2, <1>3, <1>4 DEF OriginStays, HomeStays

PinsStay == squadOf' # squadOf \/ pools' # pools =>
                \A s \in living' : PinnedAmmo(s)' \subseteq PinnedAmmo(s)

LEMMA RegroupKept ==
    ASSUME RegroupInv, [RegroupNext]_regroupVars
    PROVE  RegroupInv' /\ OriginStays /\ HomeStays /\ PinsStay
<1>1. ASSUME NEW who \in SUBSET Troops, PressRegroup(who) \/ PressRestore(who)
      PROVE  RegroupInv' /\ OriginStays /\ HomeStays /\ PinsStay
  BY <1>1, PressesKeep DEF HomeStays, PinsStay, gameVars
<1>2. CASE RestoreGroup
  BY <1>2, RestoreKeeps DEF PinsStay
<1>3. ASSUME NEW requested, PrepareTemplates(requested)
      PROVE  RegroupInv' /\ OriginStays /\ HomeStays /\ PinsStay
  BY <1>3, MadeKeeps DEF PinsStay
<1>4. ASSUME NEW q \in 0..MaxSquads,
             CreateMembers(q) \/ SpawnReturns(q) \/ UpdateSquad(q) \/ ScriptRemoves(q)
      PROVE  RegroupInv' /\ OriginStays /\ HomeStays /\ PinsStay
  BY <1>4, MembersKeep, ReturnKeeps, UpdatesKeep DEF PinsStay
<1>5. ASSUME NEW s \in Troops, Fires(s) \/ Reloads(s) \/ Dies(s) \/ Boards(s) \/ Pins(s)
      PROVE  RegroupInv' /\ OriginStays /\ HomeStays /\ PinsStay
  BY <1>5, EventsKeep DEF PinsStay
<1>6. CASE UNCHANGED regroupVars
  <2>1. UNCHANGED <<squads, squadOf, living, pools, origins, origin, spawn, scripts, nextSquad>>
    BY <1>6 DEF regroupVars
  <2>2. SquadsNumbered' /\ HomesRecorded'
    BY <2>1 DEF RegroupInv, SquadsNumbered, HomesRecorded
  <2> QED BY <2>1, <2>2 DEF RegroupInv, OriginStays, HomeStays, PinsStay
<1> QED BY <1>1, <1>2, <1>3, <1>4, <1>5, <1>6 DEF RegroupNext

(* No soldier's squad to come back to is removed, whatever he is moved to   *)
(* and whatever else the factory makes, but by a script; his first origin   *)
(* is the one he keeps; and a pin stays with its ammunition or goes.        *)
THEOREM RegroupingKeeps == RegroupSpec => HomesAreKept /\ FirstOriginStays /\ PinsFollowAmmo
<1>1. RegroupInv /\ [RegroupNext]_regroupVars =>
        [\A s \in living : origin[s] # 0 /\ origin'[s] = origin[s] /\ scripts' = scripts
             /\ origins[origin[s]].at \in squads => origins[origin[s]].at \in squads']_regroupVars
  BY RegroupKept DEF HomeStays
<1>2. RegroupInv /\ [RegroupNext]_regroupVars =>
        [\A s \in living : origin[s] # 0 => origin'[s] = origin[s]]_regroupVars
  BY RegroupKept DEF OriginStays
<1>3. RegroupInv /\ [RegroupNext]_regroupVars =>
        [squadOf' # squadOf \/ pools' # pools =>
             \A s \in living' : PinnedAmmo(s)' \subseteq PinnedAmmo(s)]_regroupVars
  BY RegroupKept DEF PinsStay
<1>4. RegroupSpec => []RegroupInv
  <2>1. RegroupInit => RegroupInv
    BY RegroupInitially
  <2>2. RegroupInv /\ [RegroupNext]_regroupVars => RegroupInv'
    BY RegroupKept
  <2> QED BY <2>1, <2>2, PTL DEF RegroupSpec
<1> QED BY <1>1, <1>2, <1>3, <1>4, PTL DEF RegroupSpec, HomesAreKept, FirstOriginStays, PinsFollowAmmo

-----------------------------------------------------------------------------
(* A behaviour of the run is one of each feature, and the features that     *)
(* what the player ordered is about are proved one by one: in the run's     *)
(* model, for any guns, mounts, soldiers and squads, no step of theirs      *)
(* breaks it.                                                               *)
THEOREM OrdersAreObeyed == Spec => OrdersAreKept
<1>1. Init => SelectInit /\ TargetsInit /\ RegroupInit
  BY DEF Init
<1>2. [Next]_vars => [SelectNext]_selectVars
  BY DEF Next, vars, CoverPart, GrenadesPart, SelectPart, TargetsPart, RebindPart,
         WeaponsPart, RegroupPart, selectVars
<1>3. [Next]_vars => [TargetsNext]_targetVars
  BY DEF Next, vars, CoverPart, GrenadesPart, SelectPart, TargetsPart, RebindPart,
         WeaponsPart, RegroupPart, targetVars
<1>4. [Next]_vars => [RegroupNext]_regroupVars
  BY DEF Next, vars, CoverPart, GrenadesPart, SelectPart, TargetsPart, RebindPart,
         WeaponsPart, RegroupPart, regroupVars
<1>5. Spec => SelectSpec /\ TargetsSpec /\ RegroupSpec
  BY <1>1, <1>2, <1>3, <1>4, PTL DEF Spec, SelectSpec, TargetsSpec, RegroupSpec
<1> QED BY <1>5, SelectionsAreEarned, PlayersTargetsStand, RegroupingKeeps DEF OrdersAreKept
=============================================================================
