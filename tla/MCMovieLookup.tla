-------------------------- MODULE MCMovieLookup ---------------------------
(***************************************************************************)
(* Two concurrent requests, spellings 1 and 2 of one id ("ABC" and "abc")   *)
(* and an alias 3 of another, one provider that may answer nil, and a        *)
(* database in memory, which is empty after a restart.                       *)
(***************************************************************************)
EXTENDS MovieLookup, TLC

CONSTANTS r1, r2, site

MCRequests == {r1, r2}
MCProviders == {site}
MCNilable == {site}
MCIds == {1, 2, 3}
MCFold == (1 :> 1) @@ (2 :> 1) @@ (3 :> 3)
\* Normalize rejects spelling 3 and leaves the others as they are.
MCNormalize == [p \in MCProviders |-> (1 :> 1) @@ (2 :> 2) @@ (3 :> NoId)]
MCAnswers == [p \in MCProviders |-> (1 :> {1}) @@ (2 :> {2}) @@ (3 :> {1, 3})]

Symmetry == Permutations(MCRequests)
============================================================================
