---------------------------- MODULE MCActorSearch ----------------------------
(***************************************************************************)
(* A keyword of two names, two ordinary providers and Gfriends.  Revision 0  *)
(* is what the database holds, revision 1 what the sites return.             *)
(***************************************************************************)
EXTENDS ActorSearch, TLC

CONSTANTS avleague, sodprime, gfriends, yua, mikami

R(p, id, rev, valid) == [provider |-> p, id |-> id, rev |-> rev, valid |-> valid]

MCProviders == {avleague, sodprime, gfriends}
MCPriority == (avleague :> 1) @@ (sodprime :> 2) @@ (gfriends :> 3)
MCNames == <<yua, mikami>>
MCResults ==
    {R(p, id, rev, v) : p \in MCProviders, id \in 1..2, rev \in 0..1, v \in BOOLEAN}

ForNames(a, b) == (yua :> a) @@ (mikami :> b)

MCOffers ==
    (avleague :> ForNames(
        {<<>>, <<R(avleague, 1, 1, TRUE), R(avleague, 2, 1, TRUE)>>},
        {<<R(avleague, 2, 1, TRUE), R(avleague, 1, 1, FALSE)>>})) @@
    (sodprime :> ForNames({<<R(sodprime, 1, 1, TRUE)>>}, {<<>>})) @@
    (gfriends :> ForNames({<<R(gfriends, 1, 1, TRUE)>>}, {<<>>}))

MCRows ==
    (avleague :> ForNames({<<R(avleague, 2, 0, TRUE)>>}, {})) @@
    (sodprime :> ForNames({<<R(sodprime, 2, 0, TRUE)>>}, {})) @@
    (gfriends :> ForNames({}, {}))

\* Of two actors, the second is the closer; the first is too far from "mikami".
MCSimilarity ==
    [x \in MCResults |-> (yua :> 3 + x.id) @@ (mikami :> 1 + 2 * x.id)]
MCMinSimilarity == 4
=============================================================================
