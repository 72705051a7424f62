-------------------------- MODULE MCMovieSearch ---------------------------
(***************************************************************************)
(* Two providers that search and one that does not, and rows of a provider   *)
(* that has been disabled since.  Ids are small numbers; revision 0 is what  *)
(* the database may hold, revision 1 what the sites return.  The keyword is   *)
(* id 1 of heyzo; the table may hold a row of heyzo that has nothing to do    *)
(* with the keyword.                                                         *)
(***************************************************************************)
EXTENDS MovieSearch, TLC

CONSTANTS fanza, javbus, heyzo, retired

R(p, id, rev, valid) == [provider |-> p, id |-> id, rev |-> rev, valid |-> valid]

MCProviders == {fanza, javbus, heyzo}
MCSearchers == {fanza, javbus}
MCResults ==
    {R(p, id, rev, v) : p \in MCProviders \union {retired},
                        id \in 1..2, rev \in 0..1, v \in BOOLEAN}

MCOffers ==
    (fanza :> {<<>>, <<R(fanza, 1, 1, TRUE), R(fanza, 2, 1, TRUE)>>,
               <<R(fanza, 1, 1, TRUE), R(fanza, 1, 1, FALSE)>>}) @@
    (javbus :> {<<R(javbus, 1, 1, FALSE)>>, <<R(javbus, 2, 1, TRUE)>>}) @@
    (heyzo :> {<<R(heyzo, 1, 1, TRUE)>>})

MCAsked == [p \in MCProviders |-> 1]
MCMatching == {x \in MCResults : x.provider = heyzo => x.id = 1}

MCWeight ==
    [x \in MCResults |->
        CASE x.provider = fanza -> 2 * x.id
          [] x.provider = javbus -> 3
          [] OTHER -> 2]

MCRows ==
    {<<>>,
     <<R(fanza, 2, 0, TRUE)>>,
     <<R(heyzo, 1, 0, TRUE), R(retired, 1, 0, TRUE)>>,
     <<R(heyzo, 2, 0, TRUE)>>,
     <<R(retired, 1, 0, TRUE), R(javbus, 2, 0, TRUE)>>}
============================================================================
