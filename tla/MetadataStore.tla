--------------------------- MODULE MetadataStore ---------------------------
(***************************************************************************)
(* What package engine promises of a metadata table and the lookups that go  *)
(* through it: every lookup takes effect at one instant between its call and *)
(* its reply.  A lazy one may read the row that is first then; any may get    *)
(* a version the provider's site has had since it was called, and store it;   *)
(* and any may fail.  A table changes in no other way.                        *)
(***************************************************************************)
EXTENDS MetadataTable

CONSTANTS
    Requests,  \* the lookups that may be under way together
    Stored,    \* providers whose records are stored
    Answers,   \* Answers[p][i]: ids that a site may answer with where i is asked for
    Durable    \* whether the table survives a restart

VARIABLES
    table,     \* versions: a key and the revision of the site they are of
    latest,    \* the revision every site has now
    lookup     \* what has become of every request

store == <<table, latest, lookup>>

Version(p, id, rev) == [provider |-> p, id |-> id, rev |-> rev]

Idle == [at |-> "idle"]
Failed == [at |-> "failed"]
Answered(version) == [at |-> "answered", version |-> version]
Pending(p, id, lazy, rev) ==
    [at |-> "pending", provider |-> p, id |-> id, lazy |-> lazy, since |-> rev]

Init ==
    /\ table = {}
    /\ latest = [p \in Providers |-> 0]
    /\ lookup = [r \in Requests |-> Idle]

Publish(p) ==
    /\ UNCHANGED <<table, lookup>>
    /\ latest' = [latest EXCEPT ![p] = @ + 1]

Becomes(r, state) == lookup' = [lookup EXCEPT ![r] = state]

Begin(r) ==
    /\ lookup[r] = Idle
    /\ UNCHANGED <<table, latest>>
    /\ \E p \in Providers, id \in Ids, lazy \in BOOLEAN :
          Becomes(r, Pending(p, id, lazy, latest[p]))

\* Refused at once, or without an answer in the end.
Fail(r) ==
    /\ lookup[r].at \in {"idle", "pending"}
    /\ UNCHANGED <<table, latest>>
    /\ Becomes(r, Failed)

Hit(r) ==
    /\ lookup[r].at = "pending"
    /\ lookup[r].lazy /\ lookup[r].provider \in Stored
    /\ UNCHANGED <<table, latest>>
    /\ \E row \in First(table, lookup[r].provider, lookup[r].id) : Becomes(r, Answered(row))

\* The version is stored, unless the database refuses it, and answered with,
\* unless something fails afterwards.
Load(r) ==
    /\ lookup[r].at = "pending"
    /\ LET p == lookup[r].provider
       IN  \E id \in Answers[p][lookup[r].id], rev \in lookup[r].since..latest[p] :
              /\ \/ p \in Stored /\ table' = Upsert(table, Version(p, id, rev))
                 \/ table' = table
              /\ \/ Becomes(r, Answered(Version(p, id, rev)))
                 \/ Becomes(r, Failed)
    /\ UNCHANGED latest

Return(r) ==
    /\ lookup[r].at \in {"answered", "failed"}
    /\ UNCHANGED <<table, latest>>
    /\ Becomes(r, Idle)

Restart ==
    /\ table' = IF Durable THEN table ELSE {}
    /\ lookup' = [r \in Requests |-> Idle]
    /\ UNCHANGED latest

Next ==
    \/ \E p \in Providers : Publish(p)
    \/ \E r \in Requests : Begin(r) \/ Fail(r) \/ Hit(r) \/ Load(r) \/ Return(r)
    \/ Restart

Spec == Init /\ [][Next]_store
=============================================================================
