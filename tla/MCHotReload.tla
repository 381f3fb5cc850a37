---------------------------- MODULE MCHotReload ----------------------------
(* The plugins of the runs and the manifests their files may declare.       *)
EXTENDS HotReload, TLC

CONSTANTS a, b, c

M(k, s, d) == [kind |-> k, safe |-> s, depends |-> d, schema |-> 0]

(* A provider, managed or legacy, and its consumer, safe or not. *)
PairBuilds ==
    (a :> {M("hot", TRUE, {}), Legacy}) @@
    (b :> {M("hot", TRUE, {a}), M("hot", FALSE, {a})})

(* Each may hold a table of the one before; the last may only load at       *)
(* startup and is not multiplayer-safe.                                     *)
ChainBuilds ==
    (a :> {M("hot", TRUE, {})}) @@
    (b :> {M("hot", TRUE, {a})}) @@
    (c :> {M("hot", FALSE, {b}), M("startup", FALSE, {b})})

(* The dependency of b on a is turned around. *)
InvertedBuilds ==
    (a :> {M("hot", TRUE, {}), M("hot", TRUE, {b})}) @@
    (b :> {M("startup", TRUE, {a}), M("startup", TRUE, {})})

(* The chain is what the theorem on HoldersOrdered supposes; the inverted   *)
(* pair is what it excludes.                                                *)
ASSUME DependenciesAgree(PairBuilds) /\ DependenciesAgree(ChainBuilds)
ASSUME ~DependenciesAgree(InvertedBuilds)
=============================================================================
