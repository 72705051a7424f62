---------------------------- MODULE MCSequential ----------------------------
(***************************************************************************)
(* The parts that run by themselves, of which a behaviour uses one: lists of  *)
(* up to four objects with three weights, every history of five operations on *)
(* five items with three hashes, every order of unions of five elements, and  *)
(* the engine with one provider, or with several that get into each other's   *)
(* way: three on one host, two shops that sell the same movies.               *)
(***************************************************************************)
EXTENDS WeightedSlice, OrderedSet, UnionFind, Registry, TLC

VARIABLE used

MCWeights == 1..3
MCItems == 1..5
MCHash == (1 :> 1) @@ (2 :> 1) @@ (3 :> 2) @@ (4 :> 2) @@ (5 :> 3)
MCInstallations ==
    {{p} : p \in MovieNames}
    \union {{"ThePornDBMovie", "ThePornDBScene", "ThePornDBActor"},
            {"AVLeague", "Gfriends", "AVBase"},
            {"FANZA", "AVBase", "DUGA"}}

\* Nothing is installed where the engine is not used.
Uninstalled ==
    /\ installed = {} /\ config = {} /\ left = {} /\ byName = {}
    /\ byHost = <<>> /\ rows = {} /\ reply = None

MCInit ==
    /\ SliceInit /\ SetInit /\ ForestInit
    /\ \/ used \in {"slice", "set", "forest"} /\ Uninstalled
       \/ used = "engine" /\ RegistryInit

MCNext ==
    /\ UNCHANGED used
    /\ \/ used = "slice" /\ SliceNext /\ UNCHANGED <<set, forest, registry>>
       \/ used = "set" /\ SetNext /\ UNCHANGED <<slice, forest, registry>>
       \/ used = "forest" /\ ForestNext /\ UNCHANGED <<slice, set, registry>>
       \/ used = "engine" /\ RegistryNext /\ UNCHANGED <<slice, set, forest>>

MCSpec == MCInit /\ [][MCNext]_<<slice, set, forest, registry, used>>
=============================================================================
