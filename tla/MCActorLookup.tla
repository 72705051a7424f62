-------------------------- MODULE MCActorLookup ---------------------------
(***************************************************************************)
(* Two concurrent requests for the actors of one Japanese provider and of    *)
(* Gfriends itself; spellings 1 and 2 of one id.                              *)
(***************************************************************************)
EXTENDS ActorLookup, TLC

CONSTANTS r1, r2, avleague, gfriends

MCRequests == {r1, r2}
MCProviders == {avleague, gfriends}
MCJapanese == {avleague, gfriends}
MCNilable == {avleague}
MCIds == {1, 2}
MCFold == (1 :> 1) @@ (2 :> 1)
MCNormalize == [p \in Providers |-> (1 :> 1) @@ (2 :> NoId)]
\* The tree of Gfriends has the actor under one name.
MCAnswers ==
    (avleague :> ((1 :> {1}) @@ (2 :> {1, 2}))) @@ (gfriends :> ((1 :> {1}) @@ (2 :> {})))

Symmetry == Permutations(MCRequests)
============================================================================
