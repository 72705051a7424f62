-------------------------- MODULE MCActorResolver --------------------------
(***************************************************************************)
(* Two requests for two actors, one of which is also asked for under her    *)
(* canonical name, over no cache and over one that has an entry for each, which *)
(* expires at the second of two ticks; one restart.                           *)
(***************************************************************************)
EXTENDS ActorResolver, TLC

CONSTANTS r1, r2, yumeno, aika, canonical

MCRequests == {r1, r2}
MCQueries == {yumeno, aika, canonical}
MCKey == (yumeno :> yumeno) @@ (aika :> aika) @@ (canonical :> aika)
MCPreferred == (yumeno :> None) @@ (aika :> None) @@ (canonical :> canonical)
MCFiles == {Torn, Whole([k \in {yumeno, aika} |-> Entry(k, Merged, 0)])}
=============================================================================
