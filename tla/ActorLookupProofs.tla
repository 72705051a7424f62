------------------------- MODULE ActorLookupProofs -------------------------
(***************************************************************************)
(* Safety of the actor lookup for every set of providers, ids and requests,  *)
(* and its refinement of MetadataStore.                                      *)
(***************************************************************************)
EXTENDS ActorLookup, TLAPS

\* Upsert keeps primary keys unique.
LEMMA UpsertUnique ==
    ASSUME NEW table, NEW record, KeysUnique(table)
    PROVE  KeysUnique(Upsert(table, record))
  BY DEF KeysUnique, Upsert, SameKey

\* Upsert adds only the record it is given.
LEMMA UpsertMembers ==
    ASSUME NEW table, NEW record, NEW row \in Upsert(table, record)
    PROVE  row \in table \/ row = record
  BY DEF Upsert

\* The rows First returns are rows of the table, for the provider asked.
LEMMA FirstMembers ==
    ASSUME NEW table, NEW p, NEW id, NEW row \in First(table, p, id)
    PROVE  row \in table /\ row.provider = p
  BY DEF First, Matching

-----------------------------------------------------------------------------
\* What a request knows at each label.
InFlightOf(r) ==
    /\ pc[r] = "query" => asked[r].lazy /\ err[r] = "nil"
    /\ pc[r] \in {"query", "save", "inject"} => asked[r].provider # Gfriends
    /\ pc[r] = "done" /\ asked[r] = None => err[r] # "nil"
    /\ asked[r] # None => since[r] <= revision[asked[r].provider]
    /\ info[r] # None =>
          /\ asked[r] # None
          /\ info[r].provider = asked[r].provider
          /\ pc[r] = "save" =>
                /\ info[r].id \in Answers[asked[r].provider][asked[r].id]
                /\ since[r] <= info[r].rev /\ info[r].rev <= revision[info[r].provider]
          /\ pc[r] \in {"save", "inject"} => info[r].injected = 0
          /\ info[r].injected <= (IF info[r].provider \in Japanese \ {Gfriends}
                                     THEN 1 ELSE 0)
    /\ pc[r] = "done" /\ err[r] = "nil" => info[r] # None /\ info[r].complete
    /\ asked[r] # None /\ asked[r].provider = Gfriends => enabled
    /\ /\ pc[r] \in {"validate", "done"} /\ err[r] = "nil"
       /\ info[r] # None /\ info[r].provider \in Japanese
       => enabled

InFlight == \A r \in Requests : InFlightOf(r)

\* The inductive invariant.
IInv == TypeOK /\ RowsOriginal /\ InFlight

-----------------------------------------------------------------------------
\* Every variable keeps its type: no request is ever in a state the code has
\* no name for, whatever its provider answers.
THEOREM TypeCorrect == Spec => []TypeOK
<1>1. Init => TypeOK
  BY DEF Init, TypeOK, Labels, Running, Errors
<1>2. TypeOK /\ [Next]_vars => TypeOK'
  <2> SUFFICES ASSUME TypeOK, [Next]_vars PROVE TypeOK'
    OBVIOUS
  <2> USE DEF TypeOK, Labels, Running, Errors
  <2>1. ASSUME NEW p \in Providers, Publish(p) PROVE TypeOK'
    BY <2>1 DEF Publish, request
  <2>2. ASSUME NEW r \in Requests, Call(r) PROVE TypeOK'
    <3>1. ASSUME NEW p \in Providers, NEW id \in Ids, NEW lazy \in BOOLEAN,
                 Enter(r, p, id, lazy)
          PROVE  TypeOK'
      BY <3>1 DEF Enter, Calls
    <3>2. ASSUME NEW e \in Errors, Reject(r, e) PROVE TypeOK'
      BY <3>2 DEF Reject, request
    <3>3. QED
      BY <2>2, <3>1, <3>2, NormalizeAssumption
      DEF Call, CallByID, CallByURL
  <2>3. ASSUME NEW r \in Requests, QueryHit(r) PROVE TypeOK'
    BY <2>3, FirstMembers DEF QueryHit, Row, request
  <2>4. ASSUME NEW r \in Requests, QueryMiss(r) \/ QueryFails(r) PROVE TypeOK'
    BY <2>4 DEF QueryMiss, QueryFails, request
  <2>5. ASSUME NEW r \in Requests, FetchOK(r) PROVE TypeOK'
    <3>1. PICK id \in Answers[asked[r].provider][asked[r].id], complete \in BOOLEAN :
             Answer(r, Page(asked[r].provider, id, complete), "nil")
      BY <2>5 DEF FetchOK
    <3>2. asked[r] \in Calls
      BY <2>5 DEF FetchOK
    <3>3. Page(asked[r].provider, id, complete) \in Record
      BY <3>1, <3>2, AnswersAssumption DEF Page, Record, Calls
    <3>4. QED
      BY <2>5, <3>1, <3>2, <3>3 DEF FetchOK, Answer, request
  <2>6. ASSUME NEW r \in Requests, FetchFails(r) \/ FetchNil(r) PROVE TypeOK'
    BY <2>6 DEF FetchFails, FetchNil, Answer, request
  <2>7. ASSUME NEW r \in Requests, Save(r) PROVE TypeOK'
    <3>1. rows' \subseteq Record
      BY <2>7, UpsertMembers DEF Save, Saves
    <3>2. QED
      BY <2>7, <3>1 DEF Save, request
  <2>8. ASSUME NEW r \in Requests, SavePanics(r) \/ Validate(r) PROVE TypeOK'
    BY <2>8 DEF SavePanics, Validate, request
  <2>9. ASSUME NEW r \in Requests, Inject(r) PROVE TypeOK'
    <3>1. info' \in [Requests -> Record \union {None}]
      <4>1. CASE info' = info
        BY <4>1
      <4>2. CASE Injects(r) /\ info' = [info EXCEPT ![r].injected = @ + 1]
        BY <4>2 DEF Injects, Record
      <4>3. QED
        BY <2>9, <4>1, <4>2 DEF Inject
    <3>2. QED
      BY <2>9, <3>1 DEF Inject, request
  <2>10. ASSUME NEW r \in Requests, InjectPanics(r) PROVE TypeOK'
    BY <2>10 DEF InjectPanics, request
  <2>11. ASSUME NEW r \in Requests, Finish(r) PROVE TypeOK'
    BY <2>11 DEF Finish
  <2>12. ASSUME Restart PROVE TypeOK'
    BY <2>12 DEF Restart
  <2>13. ASSUME UNCHANGED vars PROVE TypeOK'
    BY <2>13 DEF vars
  <2>14. QED
    BY <2>1, <2>2, <2>3, <2>4, <2>5, <2>6, <2>7, <2>8, <2>9, <2>10, <2>11, <2>12,
       <2>13
    DEF Next, Lookup
<1>3. QED
  BY <1>1, <1>2, PTL DEF Spec

-----------------------------------------------------------------------------
\* Without requests there is nothing to know, and no row.
LEMMA IInvInit == Init => IInv
<1> SUFFICES ASSUME Init PROVE IInv
  OBVIOUS
<1>1. TypeOK
  BY DEF Init, TypeOK, Labels, Running, Errors
<1>2. RowsOriginal
  BY DEF Init, RowsOriginal, KeysUnique
<1>3. InFlight
  BY DEF Init, InFlight, InFlightOf
<1>4. QED
  BY <1>1, <1>2, <1>3 DEF IInv

\* A step of one request leaves what the others know as it was, because only
\* Publish changes the revisions, and it only increases them.
LEMMA OthersKeep ==
    ASSUME NEW r \in Requests, InFlight, TypeOK, UNCHANGED <<revision, enabled>>,
           \A s \in Requests \ {r} :
              /\ pc'[s] = pc[s] /\ asked'[s] = asked[s] /\ since'[s] = since[s]
              /\ info'[s] = info[s] /\ err'[s] = err[s],
           InFlightOf(r)'
    PROVE  InFlight'
<1> SUFFICES ASSUME NEW s \in Requests, s # r PROVE InFlightOf(s)'
  BY DEF InFlight
<1>1. InFlightOf(s)
  BY DEF InFlight
<1>2. QED
  BY <1>1 DEF InFlightOf

\* The only writer: a saving request holds a complete record, of another provider
\* than Gfriends, that has not been injected yet.
LEMMA SaveStep ==
    ASSUME NEW r \in Requests, IInv, Save(r)
    PROVE  RowsOriginal'
<1> USE DEF RowsOriginal
<1>1. CASE rows' = rows
  BY <1>1 DEF IInv, Save
<1>2. CASE Saves(r) /\ rows' = Upsert(rows, info[r])
  <2>1. KeysUnique(rows')
    BY <1>2, UpsertUnique DEF IInv
  <2>2. info[r].complete /\ info[r].injected = 0 /\ info[r].provider # Gfriends
    BY <1>2 DEF IInv, InFlight, InFlightOf, Save, Saves
  <2>3. ASSUME NEW row \in rows'
        PROVE  row.complete /\ row.injected = 0 /\ row.provider # Gfriends
    BY <1>2, <2>2, <2>3, UpsertMembers DEF IInv
  <2>4. QED
    BY <2>1, <2>3 DEF Save
<1>3. QED
  BY <1>1, <1>2 DEF Save

\* Every action keeps the rows and what the requests know sound.
LEMMA IInvStep == IInv /\ [Next]_vars /\ TypeOK' => RowsOriginal' /\ InFlight'
<1> SUFFICES ASSUME IInv, [Next]_vars, TypeOK' PROVE RowsOriginal' /\ InFlight'
  OBVIOUS
<1> USE DEF IInv
<1>1. ASSUME NEW p \in Providers, Publish(p) PROVE RowsOriginal' /\ InFlight'
  <2>1. \A q \in Providers : revision[q] <= revision'[q] /\ revision[q] \in Nat /\ revision'[q] \in Nat
    BY <1>1 DEF Publish, TypeOK
  <2>2. RowsOriginal'
    BY <1>1 DEF Publish, RowsOriginal, KeysUnique
  <2>3. ASSUME NEW r \in Requests PROVE InFlightOf(r)'
    <3>1. InFlightOf(r)
      BY DEF InFlight
    <3>2. asked[r] # None => since[r] <= revision'[asked[r].provider]
      BY <2>1, <3>1 DEF InFlightOf, TypeOK, Calls
    <3>3. info[r] # None /\ pc[r] = "save" => info[r].rev <= revision'[info[r].provider]
      BY <2>1, <3>1 DEF InFlightOf, TypeOK, Record
    <3>4. QED
      BY <1>1, <3>1, <3>2, <3>3 DEF InFlightOf, Publish, request
  <2>4. QED
    BY <2>2, <2>3 DEF InFlight
<1>2. ASSUME NEW r \in Requests, Call(r) PROVE RowsOriginal' /\ InFlight'
  <2>1. ASSUME NEW p \in Providers, NEW id \in Ids, NEW lazy \in BOOLEAN,
               p = Gfriends => enabled, Enter(r, p, id, lazy)
        PROVE  RowsOriginal' /\ InFlight'
    <3>1. InFlightOf(r)'
      BY <2>1, NoneAssumption DEF Enter, InFlightOf, TypeOK, Calls
    <3>2. QED
      BY <2>1, <3>1, OthersKeep DEF Enter, TypeOK, RowsOriginal
  <2>2. ASSUME Reject(r, "invalid"), pc[r] = "idle"
        PROVE  RowsOriginal' /\ InFlight'
    <3>1. InFlightOf(r)'
      BY <2>2 DEF Reject, request, InFlight, InFlightOf, TypeOK
    <3>2. QED
      BY <2>2, <3>1, OthersKeep DEF Reject, request, TypeOK, RowsOriginal
  <2>3. QED
    BY <1>2, <2>1, <2>2, NormalizeAssumption DEF Call, CallByID, CallByURL
<1>3. ASSUME NEW r \in Requests, QueryHit(r) PROVE RowsOriginal' /\ InFlight'
  <2>1. PICK row \in Row(r) : row.complete /\ info' = [info EXCEPT ![r] = row]
    BY <1>3 DEF QueryHit
  <2>2. row \in rows /\ row.provider = asked[r].provider
    BY <2>1, FirstMembers DEF Row
  <2>3. asked[r] # None
    BY <1>3, NoneAssumption DEF QueryHit, TypeOK, Running
  <2>4. InFlightOf(r)'
    <3>1. InFlightOf(r) /\ asked[r].lazy
      BY <1>3, <2>2 DEF QueryHit, InFlight, InFlightOf, RowsOriginal
    <3>2. info'[r] = row /\ pc'[r] = "inject" /\ row.injected = 0
      BY <1>3, <2>1, <2>2 DEF QueryHit, TypeOK, RowsOriginal
    <3>3. QED
      BY <1>3, <2>2, <2>3, <3>1, <3>2 DEF QueryHit, request, InFlightOf
  <2>5. QED
    BY <1>3, <2>1, <2>4, OthersKeep DEF QueryHit, request, TypeOK, RowsOriginal
<1>4. ASSUME NEW r \in Requests, QueryMiss(r) \/ QueryFails(r)
      PROVE  RowsOriginal' /\ InFlight'
  <2>1. InFlightOf(r)'
    BY <1>4 DEF QueryMiss, QueryFails, request, InFlight, InFlightOf, TypeOK
  <2>2. QED
    BY <1>4, <2>1, OthersKeep DEF QueryMiss, QueryFails, request, TypeOK, RowsOriginal
<1>5. ASSUME NEW r \in Requests, FetchOK(r) PROVE RowsOriginal' /\ InFlight'
  <2>1. PICK id \in Answers[asked[r].provider][asked[r].id], complete \in BOOLEAN :
           Answer(r, Page(asked[r].provider, id, complete), "nil")
    BY <1>5 DEF FetchOK
  <2>2. asked[r] \in Calls /\ asked[r] # None /\ asked[r].provider \in Providers
    BY <1>5, NoneAssumption DEF FetchOK, TypeOK, Running, Calls
  <2>3. /\ since[r] <= revision[asked[r].provider]
        /\ asked[r].provider = Gfriends => enabled
    BY <2>2 DEF InFlight, InFlightOf
  <2>4. InFlightOf(r)'
    BY <1>5, <2>1, <2>2, <2>3 DEF FetchOK, Answer, Page, request, InFlightOf, TypeOK
  <2>5. QED
    BY <2>1, <2>4, OthersKeep DEF Answer, request, TypeOK, RowsOriginal
<1>6. ASSUME NEW r \in Requests, FetchFails(r) \/ FetchNil(r)
      PROVE  RowsOriginal' /\ InFlight'
  <2>1. InFlightOf(r)'
    BY <1>6 DEF FetchFails, FetchNil, Answer, request, InFlight, InFlightOf, TypeOK
  <2>2. QED
    BY <1>6, <2>1, OthersKeep
    DEF FetchFails, FetchNil, Answer, request, TypeOK, RowsOriginal
<1>7. ASSUME NEW r \in Requests, Save(r) PROVE RowsOriginal' /\ InFlight'
  <2>1. InFlightOf(r)'
    BY <1>7 DEF Save, request, InFlight, InFlightOf, TypeOK
  <2>2. QED
    BY <1>7, <2>1, OthersKeep, SaveStep DEF Save, request, TypeOK
<1>8. ASSUME NEW r \in Requests, SavePanics(r) PROVE RowsOriginal' /\ InFlight'
  <2>1. InFlightOf(r)'
    BY <1>8 DEF SavePanics, request, InFlight, InFlightOf, TypeOK
  <2>2. QED
    BY <1>8, <2>1, OthersKeep DEF SavePanics, request, TypeOK, RowsOriginal
<1>9. ASSUME NEW r \in Requests, Inject(r) PROVE RowsOriginal' /\ InFlight'
  <2>1. InFlightOf(r) /\ asked[r].provider # Gfriends
    BY <1>9 DEF Inject, InFlight, InFlightOf
  <2>2. CASE info' = info
    <3>1. InFlightOf(r)'
      BY <1>9, <2>1, <2>2 DEF Inject, Injects, request, InFlightOf, TypeOK
    <3>2. QED
      BY <1>9, <2>2, <3>1, OthersKeep DEF Inject, request, TypeOK, RowsOriginal
  <2>3. CASE Injects(r) /\ info' = [info EXCEPT ![r].injected = @ + 1]
    <3>1. info[r] \in Record /\ info[r].injected = 0
          /\ info[r].provider \in Japanese \ {Gfriends}
      BY <1>9, <2>1, <2>3 DEF Inject, Injects, InFlightOf, TypeOK
    <3>2. info'[r] = [info[r] EXCEPT !.injected = 1]
      BY <2>3, <3>1 DEF TypeOK
    <3>3. info'[r].provider = info[r].provider /\ info'[r].injected = 1
      BY <3>1, <3>2 DEF Record
    <3>4. pc'[r] = "validate"
      BY <1>9 DEF Inject, TypeOK
    <3>5. InFlightOf(r)'
      BY <1>9, <2>1, <3>1, <3>3, <3>4 DEF Inject, Injects, request, InFlightOf
    <3>6. QED
      BY <1>9, <2>3, <3>5, OthersKeep DEF Inject, request, TypeOK, RowsOriginal
  <2>4. QED
    BY <1>9, <2>2, <2>3 DEF Inject
<1>10. ASSUME NEW r \in Requests, InjectPanics(r) PROVE RowsOriginal' /\ InFlight'
  <2>1. InFlightOf(r)'
    BY <1>10 DEF InjectPanics, request, InFlight, InFlightOf, TypeOK
  <2>2. QED
    BY <1>10, <2>1, OthersKeep DEF InjectPanics, request, TypeOK, RowsOriginal
<1>11. ASSUME NEW r \in Requests, Validate(r) PROVE RowsOriginal' /\ InFlight'
  <2>1. asked[r] # None
    BY <1>11, NoneAssumption DEF Validate, TypeOK, Running
  <2>2. InFlightOf(r)'
    BY <1>11, <2>1 DEF Validate, Incomplete, request, InFlight, InFlightOf, TypeOK
  <2>3. QED
    BY <1>11, <2>2, OthersKeep DEF Validate, request, TypeOK, RowsOriginal
<1>12. ASSUME NEW r \in Requests, Finish(r) PROVE RowsOriginal' /\ InFlight'
  <2>1. InFlightOf(r)'
    BY <1>12 DEF Finish, InFlightOf, TypeOK
  <2>2. QED
    BY <1>12, <2>1, OthersKeep DEF Finish, TypeOK, RowsOriginal
<1>13. ASSUME Restart PROVE RowsOriginal' /\ InFlight'
  BY <1>13 DEF Restart, RowsOriginal, KeysUnique, InFlight, InFlightOf
<1>14. ASSUME UNCHANGED vars PROVE RowsOriginal' /\ InFlight'
  BY <1>14 DEF vars, RowsOriginal, KeysUnique, InFlight, InFlightOf
<1>15. QED
  BY <1>1, <1>2, <1>3, <1>4, <1>5, <1>6, <1>7, <1>8, <1>9, <1>10, <1>11, <1>12,
     <1>13, <1>14
  DEF Next, Lookup

\* The inductive invariant holds in every reachable state.
LEMMA IInvCorrect == Spec => []IInv
<1>1. Init => IInv
  BY IInvInit
<1>2. IInv /\ TypeOK' /\ [Next]_vars => IInv'
  BY IInvStep DEF IInv
<1>3. QED
  BY <1>1, <1>2, TypeCorrect, PTL DEF Spec

-----------------------------------------------------------------------------
\* "Make sure we save the original info here": whatever interleaves, no row
\* holds images of Gfriends or an actor of Gfriends.
THEOREM StoredRowsOriginal == Spec => []RowsOriginal
  BY IInvCorrect, PTL DEF IInv

\* A reply carries the images of Gfriends at most once, also when its record
\* has been through the database many times.
THEOREM RepliesInjectedOnce == Spec => []InjectedOnce
<1>1. IInv => InjectedOnce
  <2> SUFFICES ASSUME IInv, NEW r \in Requests, pc[r] = "done", err[r] = "nil"
               PROVE  /\ info[r] # None /\ info[r].complete
                      /\ info[r].injected <=
                            (IF info[r].provider \in Japanese \ {Gfriends}
                                THEN 1 ELSE 0)
                      /\ info[r].provider \in Japanese => enabled
    BY DEF InjectedOnce
  <2>1. InFlightOf(r)
    BY DEF IInv, InFlight
  <2>2. QED
    BY <2>1 DEF InFlightOf
<1>2. QED
  BY <1>1, IInvCorrect, PTL

-----------------------------------------------------------------------------
\* A table of versions is written as the table of records is.
LEMMA UpsertVersions ==
    ASSUME NEW T, NEW record
    PROVE  {Version(row) : row \in Upsert(T, record)}
              = Store!Upsert({Version(row) : row \in T}, Version(record))
<1> DEFINE V == {Version(row) : row \in T}
           U == Upsert(T, record)
<1>1. ASSUME NEW row
      PROVE  /\ Version(row).provider = row.provider
             /\ Version(row).id = row.id
  BY DEF Version
<1>2. ASSUME NEW row
      PROVE  SameKey(row, record) <=> Store!SameKey(Version(row), Version(record))
  BY <1>1 DEF SameKey, Store!SameKey
<1>3. ASSUME NEW row \in U PROVE Version(row) \in Store!Upsert(V, Version(record))
  BY <1>2 DEF Upsert, Store!Upsert
<1>4. ASSUME NEW v \in Store!Upsert(V, Version(record)) PROVE \E row \in U : v = Version(row)
  BY <1>2 DEF Upsert, Store!Upsert
<1>5. QED
  BY <1>3, <1>4

\* The row that a query finds is the version that is found among the versions.
LEMMA FirstVersion ==
    ASSUME NEW T, NEW p, NEW id, NEW row \in First(T, p, id)
    PROVE  Version(row) \in Store!First({Version(other) : other \in T}, p, id)
<1>1. ASSUME NEW other
      PROVE  /\ Version(other).provider = other.provider
             /\ Version(other).id = other.id
  BY DEF Version
<1>2. Version(row) \in Store!Matching({Version(other) : other \in T}, p, id)
  BY <1>1 DEF First, Matching, Store!Matching
<1>3. ASSUME NEW v \in Store!Matching({Version(other) : other \in T}, p, id)
      PROVE  Version(row).id <= v.id
  BY <1>1 DEF First, Matching, Store!Matching
<1>4. QED
  BY <1>2, <1>3 DEF Store!First

-----------------------------------------------------------------------------
\* What a request is to the store only depends on what is its own.
LEMMA Untouched ==
    ASSUME NEW s \in Requests,
           pc'[s] = pc[s], asked'[s] = asked[s], since'[s] = since[s],
           info'[s] = info[s], err'[s] = err[s], enabled' = enabled
    PROVE  LookupOf(s)' = LookupOf(s)
  BY DEF LookupOf, Replies, Injects, Version

\* When no lookup and no version changes, the store stutters.
LEMMA StoreStutters ==
    ASSUME \A s \in Requests : LookupOf(s)' = LookupOf(s),
           Versions' = Versions, revision' = revision
    PROVE  UNCHANGED Store!store
  BY DEF Store!store, Lookups

\* A step of one request changes what that request is to the store.
LEMMA LookupBecomes ==
    ASSUME NEW r \in Requests, NEW state, LookupOf(r)' = state,
           \A s \in Requests \ {r} : LookupOf(s)' = LookupOf(s)
    PROVE  Store!Becomes(r, state)
  BY DEF Store!Becomes, Lookups

\* The state the store has of a request.
LEMMA LookupAt ==
    ASSUME NEW r \in Requests
    PROVE  Lookups[r] = LookupOf(r)
  BY DEF Lookups

-----------------------------------------------------------------------------
\* Until its row is read or saved, a lookup is pending.
LEMMA PendingAt ==
    ASSUME NEW r \in Requests, pc[r] \in {"query", "fetch", "save"}
    PROVE  Lookups[r] =
              Store!Pending(asked[r].provider, asked[r].id, asked[r].lazy, since[r])
  BY DEF Lookups, LookupOf, Store!Pending

\* Once the deferred save is behind it, the reply is settled.
LEMMA SettledAt ==
    ASSUME NEW r \in Requests, pc[r] \in {"inject", "validate", "done", "panicked"}
    PROVE  Lookups[r] =
              IF Replies(r) THEN Store!Answered(Version(info[r])) ELSE Store!Failed
  BY DEF Lookups, LookupOf, Store!Answered, Store!Failed

\* A request that serves nothing is idle.
LEMMA IdleAt ==
    ASSUME NEW r \in Requests, pc[r] = "idle"
    PROVE  Lookups[r] = Store!Idle
  BY DEF Lookups, LookupOf, Store!Idle

\* The same three of the state a step leads to.
LEMMA PendingNext ==
    ASSUME NEW r \in Requests, pc'[r] \in {"query", "fetch", "save"}
    PROVE  LookupOf(r)' =
              Store!Pending(asked'[r].provider, asked'[r].id, asked'[r].lazy, since'[r])
  BY DEF LookupOf, Store!Pending

\* A reply that the step settles.
LEMMA SettledNext ==
    ASSUME NEW r \in Requests, pc'[r] \in {"inject", "validate", "done", "panicked"}
    PROVE  LookupOf(r)' =
              IF Replies(r)' THEN Store!Answered(Version(info'[r])) ELSE Store!Failed
  BY DEF LookupOf, Replies, Injects, Version, Store!Answered, Store!Failed

\* A request that the step ends.
LEMMA IdleNext ==
    ASSUME NEW r \in Requests, pc'[r] = "idle"
    PROVE  LookupOf(r)' = Store!Idle
  BY DEF LookupOf, Store!Idle

\* The fields of the states of a lookup.
LEMMA Forms ==
    ASSUME NEW p, NEW id, NEW lazy, NEW rev, NEW version
    PROVE  /\ Store!Idle.at = "idle" /\ Store!Failed.at = "failed"
           /\ Store!Answered(version).at = "answered"
           /\ Store!Pending(p, id, lazy, rev).at = "pending"
           /\ Store!Pending(p, id, lazy, rev).provider = p
           /\ Store!Pending(p, id, lazy, rev).id = id
           /\ Store!Pending(p, id, lazy, rev).lazy = lazy
           /\ Store!Pending(p, id, lazy, rev).since = rev
  BY DEF Store!Idle, Store!Failed, Store!Answered, Store!Pending

\* What a pending lookup was called with.
LEMMA PendingLookup ==
    ASSUME NEW r \in Requests, pc[r] \in {"query", "fetch", "save"}
    PROVE  /\ Lookups[r].at = "pending"
           /\ Lookups[r].provider = asked[r].provider
           /\ Lookups[r].id = asked[r].id
           /\ Lookups[r].lazy = asked[r].lazy
           /\ Lookups[r].since = since[r]
<1> DEFINE L == Store!Pending(asked[r].provider, asked[r].id, asked[r].lazy, since[r])
<1>1. Lookups[r] = L
  BY PendingAt
<1>2. /\ L.at = "pending" /\ L.provider = asked[r].provider /\ L.id = asked[r].id
      /\ L.lazy = asked[r].lazy /\ L.since = since[r]
  BY Forms
<1>3. QED
  BY <1>1, <1>2

-----------------------------------------------------------------------------
\* A new revision of a site is one to the store.
LEMMA PublishStep ==
    ASSUME TypeOK, NEW p \in Providers, Publish(p)
    PROVE  Store!Publish(p)
<1>1. ASSUME NEW s \in Requests PROVE LookupOf(s)' = LookupOf(s)
  BY Untouched DEF Publish, request
<1>2. UNCHANGED <<Versions, Lookups>>
  BY <1>1 DEF Publish, Versions, Version, Lookups
<1>3. QED
  BY <1>2 DEF Publish, Store!Publish

\* A call begins a lookup, or is refused for the id it gives.
LEMMA CallStep ==
    ASSUME TypeOK, NEW r \in Requests, Call(r)
    PROVE  Store!Begin(r) \/ Store!Fail(r)
<1> USE DEF TypeOK
<1>1. Lookups[r] = Store!Idle /\ Lookups[r].at = "idle" /\ pc[r] = "idle"
  BY IdleAt, Forms DEF Call, CallByID, CallByURL
<1>2. ASSUME NEW p \in Providers, NEW id \in Ids, NEW lazy \in BOOLEAN,
             Enter(r, p, id, lazy)
      PROVE  Store!Begin(r)
  <2>1. UNCHANGED <<Versions, revision>>
    BY <1>2 DEF Enter, Versions
  <2>2. ASSUME NEW s \in Requests \ {r} PROVE LookupOf(s)' = LookupOf(s)
    BY <1>2, Untouched DEF Enter
  <2>3. /\ pc'[r] \in {"query", "fetch", "save"} /\ since'[r] = revision[p]
        /\ asked'[r] = [provider |-> p, id |-> id, lazy |-> lazy]
    BY <1>2 DEF Enter
  <2>4. LookupOf(r)' = Store!Pending(p, id, lazy, revision[p])
    BY <2>3, PendingNext
  <2>5. Store!Becomes(r, Store!Pending(p, id, lazy, revision[p]))
    BY <2>2, <2>4, LookupBecomes
  <2>6. QED
    BY <1>1, <2>1, <2>5 DEF Store!Begin
<1>3. ASSUME Reject(r, "invalid") PROVE Store!Fail(r)
  <2>1. UNCHANGED <<Versions, revision>>
    BY <1>3 DEF Reject, Versions
  <2>2. ASSUME NEW s \in Requests \ {r} PROVE LookupOf(s)' = LookupOf(s)
    BY <1>3, Untouched DEF Reject, request
  <2>3. pc'[r] = "done" /\ ~ Replies(r)'
    BY <1>3 DEF Reject, Replies
  <2>4. Store!Becomes(r, Store!Failed)
    BY <2>2, <2>3, SettledNext, LookupBecomes
  <2>5. QED
    BY <1>1, <2>1, <2>4 DEF Store!Fail
<1>4. QED
  BY <1>2, <1>3, NormalizeAssumption DEF Call, CallByID, CallByURL

\* A lazy hit takes effect when the row is read, unless the injection is going
\* to panic.
LEMMA QueryHitStep ==
    ASSUME IInv, NEW r \in Requests, QueryHit(r)
    PROVE  Store!Hit(r) \/ Store!Fail(r)
<1> USE DEF IInv, TypeOK
<1>1. PICK row \in Row(r) : row.complete /\ info' = [info EXCEPT ![r] = row]
  BY DEF QueryHit
<1>2. /\ Lookups[r].at = "pending" /\ Lookups[r].lazy = asked[r].lazy
      /\ Lookups[r].provider = asked[r].provider /\ Lookups[r].id = asked[r].id
  BY PendingLookup DEF QueryHit
<1>3. asked[r].lazy /\ asked[r] \in Calls /\ asked[r].provider # Gfriends
  BY DEF QueryHit, Running, InFlight, InFlightOf
<1>4. Version(row) \in Store!First(Versions, asked[r].provider, asked[r].id)
  BY <1>1, FirstVersion DEF Row, Versions
<1>5. UNCHANGED <<Versions, revision>>
  BY DEF QueryHit, Versions
<1>6. ASSUME NEW s \in Requests \ {r} PROVE LookupOf(s)' = LookupOf(s)
  BY <1>1, Untouched DEF QueryHit, request
<1>7. pc'[r] = "inject" /\ info'[r] = row /\ err'[r] = err[r]
  BY <1>1 DEF QueryHit
<1>8. row # None
  BY <1>1, FirstMembers, NoneAssumption DEF Row
<1>9. CASE Replies(r)'
  <2>1. Store!Becomes(r, Store!Answered(Version(row)))
    BY <1>6, <1>7, <1>9, SettledNext, LookupBecomes
  <2>2. QED
    BY <1>3, <1>2, <1>4, <1>5, <2>1 DEF Store!Hit, Calls
<1>10. CASE ~ Replies(r)'
  <2>1. Store!Becomes(r, Store!Failed)
    BY <1>6, <1>7, <1>10, SettledNext, LookupBecomes
  <2>2. QED
    BY <1>2, <1>5, <2>1 DEF Store!Fail
<1>11. QED
  BY <1>9, <1>10

\* Before its reply is settled, what a request does is its own affair.
LEMMA PendingStep ==
    ASSUME TypeOK, NEW r \in Requests,
           \/ QueryMiss(r) \/ QueryFails(r)
           \/ /\ FetchOK(r) \/ FetchFails(r) \/ FetchNil(r)
              /\ asked[r].provider # Gfriends
    PROVE  UNCHANGED Store!store
<1> USE DEF TypeOK
<1>1. /\ pc[r] \in {"query", "fetch"} /\ pc'[r] \in {"fetch", "save"}
      /\ UNCHANGED <<enabled, rows, revision, asked, since>>
  BY DEF QueryMiss, QueryFails, FetchOK, FetchFails, FetchNil, Answer, request
<1>2. ASSUME NEW s \in Requests \ {r}
      PROVE  pc'[s] = pc[s] /\ info'[s] = info[s] /\ err'[s] = err[s]
  BY DEF QueryMiss, QueryFails, FetchOK, FetchFails, FetchNil, Answer
<1>3. ASSUME NEW s \in Requests \ {r} PROVE LookupOf(s)' = LookupOf(s)
  BY <1>1, <1>2, Untouched
<1>4. LookupOf(r)' = LookupOf(r)
  BY <1>1, PendingNext, PendingAt, LookupAt
<1>5. Versions' = Versions
  BY <1>1 DEF Versions
<1>6. QED
  BY <1>1, <1>3, <1>4, <1>5, StoreStutters

\* A lookup of Gfriends itself takes effect when the provider answers, and
\* stores nothing.
LEMMA GfriendsStep ==
    ASSUME IInv, NEW r \in Requests, asked[r].provider = Gfriends,
           FetchOK(r) \/ FetchFails(r) \/ FetchNil(r)
    PROVE  Store!Load(r) \/ Store!Fail(r)
<1> USE DEF IInv, TypeOK
<1>1. /\ pc[r] = "fetch" /\ pc'[r] = "validate"
      /\ UNCHANGED <<enabled, rows, revision, asked, since>>
  BY DEF FetchOK, FetchFails, FetchNil, Answer, request
<1>2. ASSUME NEW s \in Requests \ {r}
      PROVE  pc'[s] = pc[s] /\ info'[s] = info[s] /\ err'[s] = err[s]
  BY DEF FetchOK, FetchFails, FetchNil, Answer
<1>3. ASSUME NEW s \in Requests \ {r} PROVE LookupOf(s)' = LookupOf(s)
  BY <1>1, <1>2, Untouched
<1>4. Versions' = Versions
  BY <1>1 DEF Versions
<1>5. Lookups[r].at = "pending"
  BY <1>1, PendingLookup
<1>6. CASE Replies(r)'
  <2> DEFINE p == asked[r].provider
  <2>1. PICK id \in Answers[p][asked[r].id], complete \in BOOLEAN :
           info' = [info EXCEPT ![r] = Page(p, id, complete)]
    BY <1>6 DEF FetchOK, FetchFails, FetchNil, Answer, Replies
  <2>2. info'[r] = Page(p, id, complete)
    BY <2>1
  <2>3. Version(info'[r]) = Store!Version(p, id, revision[p])
    BY <2>2 DEF Page, Version, Store!Version
  <2>4. Store!Becomes(r, Store!Answered(Version(info'[r])))
    BY <1>1, <1>3, <1>6, SettledNext, LookupBecomes
  <2>5. p \in Providers /\ since[r] <= revision[p]
    BY <1>1, NoneAssumption DEF InFlight, InFlightOf, Running, Calls
  <2>6. revision[p] \in since[r]..revision[p]
    BY <2>5
  <2>7. /\ Lookups[r].provider = p /\ Lookups[r].id = asked[r].id
        /\ Lookups[r].since = since[r]
    BY <1>1, PendingLookup
  <2>8. Store!Load(r)
    BY <1>1, <1>4, <1>5, <2>1, <2>3, <2>4, <2>6, <2>7 DEF Store!Load
  <2>9. QED
    BY <2>8
<1>7. CASE ~ Replies(r)'
  <2>1. Store!Becomes(r, Store!Failed)
    BY <1>1, <1>3, <1>7, SettledNext, LookupBecomes
  <2>2. QED
    BY <1>1, <1>4, <1>5, <2>1 DEF Store!Fail
<1>8. QED
  BY <1>6, <1>7

\* Every other lookup takes effect at its deferred save: it loads the version it
\* fetched, or fails.
LEMMA SaveLoads ==
    ASSUME IInv, NEW r \in Requests, Save(r)
    PROVE  Store!Load(r) \/ Store!Fail(r)
<1> USE DEF IInv, TypeOK
<1>1. /\ pc[r] = "save" /\ pc'[r] = "inject"
      /\ UNCHANGED <<enabled, revision, asked, since, info, err>>
  BY DEF Save, request
<1>2. ASSUME NEW s \in Requests \ {r} PROVE LookupOf(s)' = LookupOf(s)
  BY <1>1, Untouched DEF Save
<1>3. Replies(r)' => Saves(r)
  BY <1>1 DEF Replies, Saves
<1>4. Lookups[r].at = "pending"
  BY <1>1, PendingLookup
<1>5. CASE Saves(r)
  <2> DEFINE p == asked[r].provider
             id == info[r].id
             rev == info[r].rev
  <2>1. \/ Store!Becomes(r, Store!Answered(Version(info[r])))
        \/ Store!Becomes(r, Store!Failed)
    BY <1>1, <1>2, SettledNext, LookupBecomes
  <2>2. Version(info[r]) = Store!Version(p, id, rev)
    BY <1>1, <1>5 DEF Version, Store!Version, Saves, InFlight, InFlightOf
  <2>3. id \in Answers[p][asked[r].id] /\ p \in Providers \ {Gfriends}
    BY <1>1, <1>5 DEF Saves, InFlight, InFlightOf, Running, Calls
  <2>4. rev \in since[r]..revision[p]
    <3>1. rev \in Nat /\ since[r] \in Nat /\ revision[p] \in Nat
      BY <1>5, <2>3 DEF Saves, Record
    <3>2. rev <= revision[p] /\ rev >= since[r]
      BY <1>1, <1>5 DEF Saves, InFlight, InFlightOf
    <3>3. QED
      BY <3>1, <3>2
  <2>5. \/ Versions' = Store!Upsert(Versions, Store!Version(p, id, rev))
        \/ Versions' = Versions
    <3>1. CASE rows' = Upsert(rows, info[r])
      BY <2>2, <3>1, UpsertVersions DEF Versions
    <3>2. CASE rows' = rows
      BY <3>2 DEF Versions
    <3>3. QED
      BY <3>1, <3>2 DEF Save
  <2>6. /\ Lookups[r].provider = p /\ Lookups[r].id = asked[r].id
        /\ Lookups[r].since = since[r]
    BY <1>1, PendingLookup
  <2>7. Store!Load(r)
    BY <1>1, <1>4, <2>1, <2>2, <2>3, <2>4, <2>5, <2>6 DEF Store!Load
  <2>8. QED
    BY <2>7
<1>6. CASE ~ Saves(r)
  <2>1. Store!Becomes(r, Store!Failed)
    BY <1>1, <1>2, <1>3, <1>6, SettledNext, LookupBecomes
  <2>2. Versions' = Versions
    BY <1>6 DEF Save, Versions
  <2>3. QED
    BY <1>1, <1>4, <2>1, <2>2 DEF Store!Fail
<1>7. QED
  BY <1>5, <1>6

\* A panic of the deferred save fails the lookup.
LEMMA SavePanicsStep ==
    ASSUME TypeOK, NEW r \in Requests, SavePanics(r)
    PROVE  Store!Fail(r)
<1> USE DEF TypeOK
<1>1. /\ pc[r] = "save" /\ pc'[r] = "panicked" /\ err'[r] = "incomplete"
      /\ UNCHANGED <<enabled, rows, revision, asked, since>>
  BY DEF SavePanics, request
<1>2. ASSUME NEW s \in Requests \ {r} PROVE LookupOf(s)' = LookupOf(s)
  BY Untouched DEF SavePanics, request
<1>3. Store!Becomes(r, Store!Failed)
  BY <1>1, <1>2, SettledNext, LookupBecomes DEF Replies
<1>4. Lookups[r].at = "pending"
  BY <1>1, PendingLookup
<1>5. QED
  BY <1>1, <1>3, <1>4 DEF Store!Fail, Versions

\* The injection changes the images of a reply and not its version.
LEMMA InjectStep ==
    ASSUME TypeOK, NEW r \in Requests, Inject(r) \/ InjectPanics(r)
    PROVE  UNCHANGED Store!store
<1> USE DEF TypeOK
<1>1. /\ pc[r] = "inject" /\ pc'[r] \in {"validate", "panicked"}
      /\ UNCHANGED <<enabled, rows, revision, asked, since, err>>
  BY DEF Inject, InjectPanics, request
<1>2. ASSUME NEW s \in Requests \ {r}
      PROVE  pc'[s] = pc[s] /\ info'[s] = info[s]
  BY DEF Inject, InjectPanics
<1>3. ASSUME NEW s \in Requests \ {r} PROVE LookupOf(s)' = LookupOf(s)
  BY <1>1, <1>2, Untouched
<1>4. /\ info'[r] = None <=> info[r] = None
      /\ info[r] # None =>
            /\ info'[r].complete = info[r].complete
            /\ Version(info'[r]) = Version(info[r])
  <2>1. CASE info' = info
    BY <2>1
  <2>2. CASE Injects(r) /\ info' = [info EXCEPT ![r].injected = @ + 1]
    <3>1. info[r] \in Record /\ info'[r] = [info[r] EXCEPT !.injected = @ + 1]
      BY <2>2 DEF Injects
    <3>2. info'[r] \in Record
      BY <3>1 DEF Record
    <3>3. QED
      BY <3>1, <3>2, NoneAssumption DEF Version, Record
  <2>3. QED
    BY <2>1, <2>2 DEF Inject, InjectPanics
<1>5. Replies(r)' <=> Replies(r)
  BY <1>1, <1>4 DEF Inject, InjectPanics, Injects, Replies
<1>6. Replies(r) => info[r] # None
  BY DEF Replies
<1>7. LookupOf(r)' = LookupOf(r)
  BY <1>1, <1>4, <1>5, <1>6, SettledNext, SettledAt, LookupAt
<1>8. Versions' = Versions
  BY <1>1 DEF Versions
<1>9. QED
  BY <1>1, <1>3, <1>7, <1>8, StoreStutters

\* The deferred validation finds what the save has settled.
LEMMA ValidateStep ==
    ASSUME TypeOK, NEW r \in Requests, Validate(r)
    PROVE  UNCHANGED Store!store
<1> USE DEF TypeOK
<1>1. /\ pc[r] = "validate" /\ pc'[r] = "done"
      /\ UNCHANGED <<enabled, rows, revision, asked, since, info>>
  BY DEF Validate, request
<1>2. ASSUME NEW s \in Requests \ {r} PROVE LookupOf(s)' = LookupOf(s)
  BY Untouched DEF Validate, request
<1>3. Replies(r)' <=> Replies(r)
  BY DEF Validate, Incomplete, Replies
<1>4. LookupOf(r)' = LookupOf(r)
  BY <1>1, <1>3, SettledNext, SettledAt, LookupAt
<1>5. Versions' = Versions
  BY <1>1 DEF Versions
<1>6. QED
  BY <1>1, <1>2, <1>4, <1>5, StoreStutters

\* The response of the handler ends the lookup.
LEMMA FinishStep ==
    ASSUME TypeOK, NEW r \in Requests, Finish(r)
    PROVE  Store!Return(r)
<1> USE DEF TypeOK
<1>1. pc[r] \in {"done", "panicked"} /\ pc'[r] = "idle" /\ UNCHANGED <<rows, revision>>
  BY DEF Finish
<1>2. ASSUME NEW s \in Requests \ {r} PROVE LookupOf(s)' = LookupOf(s)
  BY Untouched DEF Finish
<1>3. Store!Becomes(r, Store!Idle)
  BY <1>1, <1>2, IdleNext, LookupBecomes
<1>4. Lookups[r].at \in {"answered", "failed"}
  BY <1>1, SettledAt, Forms
<1>5. QED
  BY <1>1, <1>3, <1>4 DEF Store!Return, Versions

\* A restart of the process is one of the store.
LEMMA RestartStep ==
    ASSUME Restart
    PROVE  Store!Restart
<1>1. ASSUME NEW s \in Requests PROVE LookupOf(s)' = Store!Idle
  BY IdleNext DEF Restart
<1>2. Lookups' = [s \in Requests |-> Store!Idle]
  BY <1>1 DEF Lookups
<1>3. Versions' = IF Durable THEN Versions ELSE {}
  BY DEF Restart, Versions
<1>4. QED
  BY <1>2, <1>3 DEF Restart, Store!Restart

\* However actor lookups interleave, fail and restart, the engine behaves as the
\* metadata store of module MetadataStore, one that never stores an actor of
\* Gfriends, whatever the injection does to the replies.
THEOREM StoreImplemented == Spec => ImplementsStore
<1>1. Init => Store!Init
  <2> SUFFICES ASSUME Init PROVE Store!Init
    OBVIOUS
  <2>1. ASSUME NEW s \in Requests PROVE LookupOf(s) = Store!Idle
    BY IdleAt, LookupAt DEF Init
  <2>2. QED
    BY <2>1 DEF Init, Store!Init, Versions, Lookups
<1>2. IInv /\ [Next]_vars => [Store!Next]_Store!store
  <2> SUFFICES ASSUME IInv, [Next]_vars PROVE Store!Next \/ UNCHANGED Store!store
    OBVIOUS
  <2> USE DEF IInv
  <2>1. CASE \E p \in Providers : Publish(p)
    BY <2>1, PublishStep DEF Store!Next
  <2>2. CASE \E r \in Requests : Call(r)
    BY <2>2, CallStep DEF Store!Next
  <2>3. CASE \E r \in Requests : QueryHit(r)
    BY <2>3, QueryHitStep DEF Store!Next
  <2>4. CASE \E r \in Requests : Save(r) \/ SavePanics(r)
    BY <2>4, SaveLoads, SavePanicsStep DEF Store!Next
  <2>5. CASE \E r \in Requests : Finish(r)
    BY <2>5, FinishStep DEF Store!Next
  <2>6. CASE Restart
    BY <2>6, RestartStep DEF Store!Next
  <2>7. CASE \E r \in Requests :
                \/ QueryMiss(r) \/ QueryFails(r) \/ FetchOK(r) \/ FetchFails(r)
                \/ FetchNil(r) \/ Inject(r) \/ InjectPanics(r) \/ Validate(r)
    BY <2>7, PendingStep, GfriendsStep, InjectStep, ValidateStep DEF Store!Next
  <2>8. CASE UNCHANGED vars
    <3>1. ASSUME NEW s \in Requests PROVE LookupOf(s)' = LookupOf(s)
      BY <2>8, Untouched DEF vars
    <3>2. QED
      BY <2>8, <3>1, StoreStutters DEF vars, Versions
  <2>9. QED
    BY <2>1, <2>2, <2>3, <2>4, <2>5, <2>6, <2>7, <2>8 DEF Next, Lookup
<1>3. QED
  BY <1>1, <1>2, IInvCorrect, PTL DEF Spec, ImplementsStore, Store!Spec
============================================================================
