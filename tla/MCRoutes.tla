------------------------------ MODULE MCRoutes ------------------------------
(***************************************************************************)
(* Two requests at a time, a provider with reviews and one without, two       *)
(* spellings of one id; one request is for any route, the other for reviews,   *)
(* because requests meet in the table of reviews only.  A redirection does    *)
(* not look at the route.                                                     *)
(***************************************************************************)
EXTENDS Routes, TLC

CONSTANTS r1, r2, heyzo, javbus

MCRequests == {r1, r2}
MCProviders == {heyzo, javbus}
MCTakes == (r1 :> {request \in HTTPRequest : request.redirect => request.route = "search"})
        @@ (r2 :> {[route |-> "review", redirect |-> FALSE, authorized |-> TRUE]})
MCReviewers == {heyzo}
MCIds == 1..2
MCFold == [i \in MCIds |-> 1]
MCNormalize == (heyzo :> <<1, NoId>>) @@ (javbus :> <<1, 2>>)
=============================================================================
