------------------------------ MODULE SquadPanel ------------------------------
(***************************************************************************)
(* The squad-panel observers (loader squad_panel.rs): Core's one hook on   *)
(* the game's panel refresh feeds callbacks that other plugins subscribe   *)
(* while they initialize. Callbacks run on the game's threads with no lock *)
(* held, while the loader activates, retires and stops their owners.       *)
(***************************************************************************)
EXTENDS Integers, Sequences, FiniteSets, SequencesExt

CONSTANTS
    Observers,     \* the plugins that subscribe
    Provider,      \* defiance.core, which publishes the feed
    GameThreads,   \* the threads that refresh the panel
    MaxTokens,     \* bound on the tokens handed out
    PlanOrders,    \* the plan orders a scan may give
    MaxReplans     \* bound on the scans that set a new plan order

ASSUME PanelAssumption ==
    /\ Provider \notin Observers /\ "" \notin Observers \cup {Provider}
    /\ IsFiniteSet(GameThreads)

VARIABLES
    subs,        \* token -> [owner, committed, retired, inFlight, listed]
    feed,        \* [owner, pending, retiring]: a plugin or ""
    initOf,      \* the plugin in its init, or ""
    life,        \* plugin -> what lifecycle knows of it
    dispatch,    \* thread -> [left, now]: tokens to visit, the one running
    planOrder,   \* the stable rank of every candidate
    replans

panelVars == <<subs, feed, initOf, life, dispatch, planOrder, replans>>

PanelPlugins == Observers \cup {Provider}
Orderings(S) == {q \in [1..Cardinality(S) -> S] : IsInjective(q)}

PanelInit ==
    /\ subs = <<>> /\ initOf = ""
    /\ feed = [owner |-> "", pending |-> "", retiring |-> ""]
    /\ life = [p \in PanelPlugins |-> "out"]
    /\ dispatch = [t \in GameThreads |-> [left |-> <<>>, now |-> 0]]
    /\ planOrder = <<>> /\ replans = 0

PanelTypeOK ==
    /\ feed \in [{"owner", "pending", "retiring"} -> PanelPlugins \cup {""}]
    /\ life \in [PanelPlugins -> {"out", "init", "recorded", "active", "retiring", "stopped"}]
    /\ \A t \in GameThreads : dispatch[t].now \in 0..Len(subs)
    /\ \A s \in DOMAIN subs : subs[s].inFlight \in 0..Cardinality(GameThreads)

----------------------------------------------------------------------------
(* begin, as a plugin's init starts. *)
PanelBegin(p) ==
    /\ initOf = "" /\ life[p] \in {"out", "stopped"}
    /\ initOf' = p /\ life' = [life EXCEPT ![p] = "init"]
    /\ UNCHANGED <<subs, feed, dispatch, planOrder, replans>>

(* feed_publish: refused while another feed stands or is still retiring. *)
FeedPublish ==
    /\ initOf = Provider
    /\ feed.owner \in {"", Provider} /\ feed.pending = "" /\ feed.retiring = ""
    /\ feed' = [feed EXCEPT !.pending = Provider]
    /\ UNCHANGED <<subs, initOf, life, dispatch, planOrder, replans>>

(* subscribe: not Core itself, and only while there is a feed. *)
Subscribe ==
    /\ initOf \in Observers /\ Len(subs) < MaxTokens
    /\ feed.owner # "" \/ feed.pending # ""
    /\ subs' = Append(subs, [owner |-> initOf, committed |-> FALSE, retired |-> FALSE,
                             inFlight |-> 0, listed |-> TRUE])
    /\ UNCHANGED <<feed, initOf, life, dispatch, planOrder, replans>>

(* unsubscribe: at once, or only closed while its callback runs. *)
Unsubscribe(s) ==
    /\ subs[s].listed
    /\ subs' = [subs EXCEPT ![s].retired = TRUE, ![s].committed = FALSE,
                            ![s].listed = subs[s].inFlight # 0]
    /\ UNCHANGED <<feed, initOf, life, dispatch, planOrder, replans>>

Closed(S) ==
    [s \in DOMAIN subs |->
        IF s \in S THEN [subs[s] EXCEPT !.retired = TRUE, !.committed = FALSE,
                                        !.listed = subs[s].inFlight # 0]
        ELSE subs[s]]

(* Mutant: subscriptions already closed count as quiet. *)
QuiescentOpen(S) == \A s \in S : subs[s].retired \/ subs[s].inFlight = 0

Quiescent(S) == \A s \in S : subs[s].inFlight = 0

IsProvider(p) == p \in {feed.owner, feed.pending, feed.retiring}

(* retire_matching: every subscription for the provider, else the owner's. *)
Affected(p) ==
    {s \in DOMAIN subs : subs[s].listed /\ (IsProvider(p) \/ subs[s].owner = p)}

(* retire_provider: the feed ends now; it is retiring until all is quiet. *)
FeedAfter(p, quiet) ==
    IF ~IsProvider(p) THEN feed
    ELSE [owner |-> IF feed.owner = p THEN "" ELSE feed.owner,
          pending |-> IF feed.pending = p THEN "" ELSE feed.pending,
          retiring |-> IF quiet THEN "" ELSE p]

(* finish *)
FinishOk ==
    /\ initOf # ""
    /\ life' = [life EXCEPT ![initOf] = "recorded"] /\ initOf' = ""
    /\ UNCHANGED <<subs, feed, dispatch, planOrder, replans>>

FinishFailed ==
    /\ initOf # ""
    /\ LET S == Affected(initOf)
       IN subs' = Closed(S) /\ feed' = FeedAfter(initOf, Quiescent(S))
    /\ life' = [life EXCEPT ![initOf] = "out"] /\ initOf' = ""
    /\ UNCHANGED <<dispatch, planOrder, replans>>

(* activate_owner: after lifecycle recording or the patch plan's commit. *)
ActivateOwner(p) ==
    /\ life[p] = "recorded"
    /\ life' = [life EXCEPT ![p] = "active"]
    /\ subs' = [s \in DOMAIN subs |->
                   IF subs[s].listed /\ subs[s].owner = p
                   THEN [subs[s] EXCEPT !.committed = TRUE] ELSE subs[s]]
    /\ feed' = IF feed.pending = p THEN [feed EXCEPT !.owner = p, !.pending = ""] ELSE feed
    /\ UNCHANGED <<initOf, dispatch, planOrder, replans>>

(* retire_owner: the caller stops the plugin only if all is quiet, and asks *)
(* again later if not.                                                      *)
RetireOwner(p) ==
    /\ initOf = "" /\ life[p] \in {"recorded", "active", "retiring"}
    /\ LET S == Affected(p) quiet == Quiescent(S)
       IN /\ subs' = Closed(S)
          /\ feed' = FeedAfter(p, quiet)
          /\ life' = [life EXCEPT ![p] = IF quiet THEN "stopped" ELSE "retiring"]
    /\ UNCHANGED <<initOf, dispatch, planOrder, replans>>

----------------------------------------------------------------------------
Rank(id) == IF id \in Range(planOrder) THEN CHOOSE k \in DOMAIN planOrder : planOrder[k] = id
            ELSE Len(planOrder) + 1

(* dispatch: a snapshot in plan order, then by slot; a refresh from inside  *)
(* a callback of the same thread returns at once.                           *)
DispatchRefresh(t) ==
    /\ dispatch[t].left = <<>> /\ dispatch[t].now = 0
    /\ feed.owner # ""
    /\ LET listed == {s \in DOMAIN subs : subs[s].listed}
           rank(s) == Rank(subs[s].owner)
       IN /\ listed # {}
          /\ \E order \in Orderings(listed) :
                /\ \A i, j \in DOMAIN order :
                      i < j => \/ rank(order[i]) < rank(order[j])
                               \/ rank(order[i]) = rank(order[j]) /\ order[i] < order[j]
                /\ dispatch' = [dispatch EXCEPT ![t].left = order]
    /\ UNCHANGED <<subs, feed, initOf, life, planOrder, replans>>

(* The gate decides, and counts the call in the same critical section. *)
EnterCallback(t) ==
    /\ dispatch[t].now = 0 /\ dispatch[t].left # <<>>
    /\ LET s == Head(dispatch[t].left) open == subs[s].committed /\ ~subs[s].retired
       IN /\ dispatch' = [dispatch EXCEPT ![t] = [left |-> Tail(@.left),
                                                  now |-> IF open THEN s ELSE 0]]
          /\ subs' = IF open THEN [subs EXCEPT ![s].inFlight = @ + 1] ELSE subs
    /\ UNCHANGED <<feed, initOf, life, planOrder, replans>>

ReturnCallback(t) ==
    /\ dispatch[t].now # 0
    /\ subs' = [subs EXCEPT ![dispatch[t].now].inFlight = @ - 1]
    /\ dispatch' = [dispatch EXCEPT ![t].now = 0]
    /\ UNCHANGED <<feed, initOf, life, planOrder, replans>>

----------------------------------------------------------------------------
(* set_plan_order: an ID the new scan lacks goes back between its old       *)
(* neighbours.                                                              *)
MergeOrder(old, new) ==
    LET place(merged, id) ==
            LET at == CHOOSE k \in DOMAIN old : old[k] = id
                pos(x) == CHOOSE k \in DOMAIN merged : merged[k] = x
                earlier == {k \in 1..(at - 1) : old[k] \in Range(merged)}
                later == {k \in (at + 1)..Len(old) : old[k] \in Range(merged)}
                before == IF earlier = {} THEN 0
                          ELSE pos(old[CHOOSE k \in earlier : \A j \in earlier : j <= k])
                after == IF later = {} THEN 0
                         ELSE pos(old[CHOOSE k \in later : \A j \in later : k <= j])
                slot == IF before # 0 /\ after # 0 /\ before < after THEN after
                        ELSE IF before # 0 THEN before + 1
                        ELSE IF after # 0 THEN after ELSE Len(merged) + 1
            IN InsertAt(merged, slot, id)
    IN FoldLeft(place, new, SelectSeq(old, LAMBDA id : id \notin Range(new)))

SetPlanOrder ==
    /\ replans < MaxReplans
    /\ \E new \in PlanOrders : planOrder' = MergeOrder(planOrder, new)
    /\ replans' = replans + 1
    /\ UNCHANGED <<subs, feed, initOf, life, dispatch>>

PanelNext ==
    \/ \E p \in PanelPlugins : PanelBegin(p) \/ ActivateOwner(p) \/ RetireOwner(p)
    \/ FeedPublish \/ Subscribe \/ FinishOk \/ FinishFailed
    \/ \E s \in DOMAIN subs : Unsubscribe(s)
    \/ \E t \in GameThreads : DispatchRefresh(t) \/ EnterCallback(t) \/ ReturnCallback(t)
    \/ SetPlanOrder

(* A callback returns, an init ends, and a reload that found a callback     *)
(* running asks again whenever it can.                                      *)
PanelSpec ==
    /\ PanelInit /\ [][PanelNext]_panelVars
    /\ \A t \in GameThreads : WF_panelVars(EnterCallback(t) \/ ReturnCallback(t))
    /\ WF_panelVars(FinishOk \/ FinishFailed)
    /\ \A p \in PanelPlugins : SF_panelVars(life[p] = "retiring" /\ RetireOwner(p))

----------------------------------------------------------------------------
(* The promise of CallbackRegistry, kept without a lock. Once the loader    *)
(* has been told that a plugin's callbacks are quiet it stops the plugin    *)
(* and unmaps its DLL: no thread is in one then, nor ever enters one,       *)
(* whatever list of subscriptions it copied before.                         *)
PanelRegistry == INSTANCE CallbackRegistry WITH
    Owners <- PanelPlugins, Callers <- GameThreads,
    isMapped <- {p \in PanelPlugins : life[p] \notin {"out", "stopped"}},
    isOpen <- {p \in PanelPlugins : \E s \in DOMAIN subs :
                  subs[s].owner = p /\ subs[s].committed /\ ~subs[s].retired},
    bound <- [t \in GameThreads |->
                 IF dispatch[t].now = 0 THEN {} ELSE {subs[dispatch[t].now].owner}]
PanelKeepsPromise == PanelRegistry!RegistrySpec

(* A callback is entered only for an active owner and a feed that stands:   *)
(* not during an init that may still fail, nor after Core's feed ended.     *)
CallsAreOpen ==
    [][\A t \in GameThreads :
          dispatch[t].now = 0 /\ dispatch'[t].now # 0 =>
              life[subs[dispatch'[t].now].owner] = "active" /\ feed.owner # ""]_panelVars

(* A callback that is running delays a stop, it never prevents it. *)
RetiringEnds == \A p \in PanelPlugins : life[p] = "retiring" ~> life[p] = "stopped"

(* The merged order keeps the new plan's, keeps the IDs the new scan lacks  *)
(* in their old order, and keeps each of those between its old neighbours   *)
(* where the new plan still has them in that order.                         *)
MergeKeepsPlaces ==
    \A S \in SUBSET PanelPlugins : \A new \in Orderings(S) :
        LET merged == MergeOrder(planOrder, new)
            pos(id) == CHOOSE k \in DOMAIN merged : merged[k] = id
        IN /\ SelectSeq(merged, LAMBDA id : id \in S) = new
           /\ SelectSeq(merged, LAMBDA id : id \notin S)
                  = SelectSeq(planOrder, LAMBDA id : id \notin S)
           /\ \A k \in 2..(Len(planOrder) - 1) :
                 LET x == planOrder[k - 1] y == planOrder[k + 1]
                 IN planOrder[k] \notin S /\ {x, y} \subseteq S /\ pos(x) < pos(y)
                        => pos(x) < pos(planOrder[k]) /\ pos(planOrder[k]) < pos(y)
=============================================================================
