----------------------------- MODULE LockProofs -----------------------------
(***************************************************************************)
(* The components that are about a lock: Single.Do, for any number of         *)
(* goroutines and any s.wait; the cache of the actor resolver, for any number *)
(* of requests and restarts; and the plugin's locks on actor names, for any   *)
(* number of tasks and names.                                                 *)
(***************************************************************************)
EXTENDS SingleDo, ActorResolver, ActorCreationLock,
        SequenceTheorems, FiniteSetTheorems, WellFoundedInduction, TLAPS

-----------------------------------------------------------------------------
(* Single.Do: at most one execution, and none of its results out of date.    *)

Known(c) == c \in 1..Len(begun)

\* The values the clock, the executions and the reads may have.
Shape ==
    /\ clock \in Nat
    /\ last \in {Never} \union Nat
    /\ begun \in Seq(Nat)
    /\ \A c \in 1..Len(begun) : begun[c] <= clock
    /\ call = Nobody \/ Known(call)
    /\ result = Nobody \/ Known(result)
    /\ pc \in [Threads -> Labels]
    /\ mine \in [Threads -> Nat]
    /\ arrived \in [Threads -> Nat]
    /\ val \in [Threads -> Nat]
    /\ err \in [Threads -> Nat]

\* An execution that has not been published is s.call, and belongs to one
\* goroutine; it stays s.call when its function panics.
Holds(t) == pc[t] \in Flying \union {"panicked"}

Leaders ==
    /\ \A t \in Threads :
          Holds(t) => /\ call # Nobody
                      /\ mine[t] = call
                      /\ arrived[t] = begun[call]
    /\ \A t, u \in Threads : Holds(t) /\ Holds(u) => t = u

\* The kept results began when s.last says, and before the execution in flight.
Kept ==
    /\ last # Never => result # Nobody /\ last = begun[result]
    /\ result # Nobody /\ call # Nobody => begun[result] <= begun[call]

\* Results a goroutine may be handed: not outdated when it took the lock.
Timely(t, c) == Known(c) /\ (mine[t] = c \/ arrived[t] < begun[c] + Wait)

HandedTo(t) ==
    /\ pc[t] = "val" => Timely(t, result) /\ arrived[t] < begun[result] + Wait
    /\ pc[t] = "err" =>
          /\ Timely(t, result) /\ arrived[t] < begun[result] + Wait
          /\ Timely(t, val[t])
    /\ pc[t] = "wait" => Known(mine[t])
    /\ pc[t] = "done" => Timely(t, val[t]) /\ Timely(t, err[t])

Handed == \A t \in Threads : HandedTo(t)

IInv == Shape /\ Leaders /\ Kept /\ Handed

\* The parameters of Do.
LEMMA Constant == Wait \in Nat /\ Never \notin Nat /\ Nobody \in Nat /\ MaxTime \in Nat
BY WaitAssumption, MaxTimeAssumption DEF Never, Nobody

\* In the initial state there is no execution and no result.
LEMMA IInvInit == Init => IInv
BY Constant DEF Init, IInv, Shape, Leaders, Kept, Handed, HandedTo, Labels, Flying, Holds,
    Known, Nobody, Never

-----------------------------------------------------------------------------
\* Tick only moves the clock on.
LEMMA TickStep == IInv /\ Tick => IInv'
<1> SUFFICES ASSUME IInv, Tick PROVE IInv'
  OBVIOUS
<1>1. Shape'
  BY DEF IInv, Shape, Tick, single, history, local, Known
<1>2. Leaders' /\ Kept'
  BY DEF IInv, Leaders, Kept, Holds, Tick, single, history, local
<1>3. Handed'
  BY DEF IInv, Handed, HandedTo, Timely, Known, Tick, single, history, local
<1> QED BY <1>1, <1>2, <1>3 DEF IInv

\* Reset forgets how old the results are, and keeps them.
LEMMA ResetStep == IInv /\ Reset => IInv'
<1> SUFFICES ASSUME IInv, Reset PROVE IInv'
  OBVIOUS
<1>1. Shape'
  BY DEF IInv, Shape, Reset, local, Known
<1>2. Leaders' /\ Kept'
  BY DEF IInv, Leaders, Kept, Holds, Reset, local
<1>3. Handed'
  BY DEF IInv, Handed, HandedTo, Timely, Known, Reset, local
<1> QED BY <1>1, <1>2, <1>3 DEF IInv

\* A call begins: the goroutine holds nothing yet.
LEMMA DoStep == ASSUME NEW t \in Threads PROVE IInv /\ Do(t) => IInv'
<1> SUFFICES ASSUME IInv, Do(t) PROVE IInv'
  OBVIOUS
<1> USE DEF Do, single, history, local
<1>1. Shape'
  BY DEF IInv, Shape, Labels, Known
<1>2. Leaders' /\ Kept'
  BY DEF IInv, Leaders, Kept, Holds, Flying, Shape
<1>3. Handed'
  BY DEF IInv, Handed, HandedTo, Timely, Known, Shape
<1> QED BY <1>1, <1>2, <1>3 DEF IInv

\* Fresh results began less than s.wait before this very instant.
LEMMA CachedStep == ASSUME NEW t \in Threads PROVE IInv /\ Cached(t) => IInv'
<1> SUFFICES ASSUME IInv, Cached(t) PROVE IInv'
  OBVIOUS
<1> USE DEF Cached, Locked, single, history
<1>1. Shape'
  BY Constant DEF IInv, Shape, Labels, Known
<1>2. Leaders' /\ Kept'
  BY DEF IInv, Leaders, Kept, Holds, Flying, Shape
<1>3. Known(result) /\ clock < begun[result] + Wait
  BY DEF IInv, Shape, Kept, Fresh
<1>4. Handed'
  BY <1>3 DEF IInv, Handed, HandedTo, Timely, Known, Shape
<1> QED BY <1>1, <1>2, <1>4 DEF IInv

\* Who joins waits for the execution in flight.
LEMMA JoinStep == ASSUME NEW t \in Threads PROVE IInv /\ Join(t) => IInv'
<1> SUFFICES ASSUME IInv, Join(t) PROVE IInv'
  OBVIOUS
<1> USE DEF Join, Locked, single, history
<1>1. Shape'
  BY Constant DEF IInv, Shape, Labels, Known
<1>2. Leaders' /\ Kept'
  BY DEF IInv, Leaders, Kept, Holds, Flying, Shape
<1>3. Handed'
  BY DEF IInv, Handed, HandedTo, Timely, Known, Shape
<1> QED BY <1>1, <1>2, <1>3 DEF IInv

\* Executions that begin take nothing away from a goroutine that stands still.
LEMMA HandedStays ==
    ASSUME NEW u \in Threads, HandedTo(u), result' = result,
           pc'[u] = pc[u], mine'[u] = mine[u], arrived'[u] = arrived[u],
           val'[u] = val[u], err'[u] = err[u],
           Len(begun) \in Nat, Len(begun') \in {Len(begun), Len(begun) + 1},
           \A c \in 1..Len(begun) : begun'[c] = begun[c]
    PROVE  HandedTo(u)'
<1>1. \A c : Known(c) => Known(c)' /\ begun'[c] = begun[c]
  BY DEF Known
<1>2. \A c : Timely(u, c) => Known(c)' /\ (mine'[u] = c \/ arrived'[u] < begun'[c] + Wait)
  BY <1>1 DEF Timely
<1> QED BY <1>1, <1>2 DEF HandedTo, Timely

\* The first critical section starts an execution when none is in flight.
LEMMA LeadStep == ASSUME NEW t \in Threads PROVE IInv /\ Lead(t) => IInv'
<1> SUFFICES ASSUME IInv, Lead(t) PROVE IInv'
  OBVIOUS
<1> USE DEF Lead, Locked
<1>1. /\ begun' \in Seq(Nat) /\ Len(begun') = Len(begun) + 1
      /\ begun'[Len(begun) + 1] = clock
      /\ \A c \in 1..Len(begun) : begun'[c] = begun[c]
      /\ Len(begun) \in Nat
  BY DEF IInv, Shape
<1>2. Shape'
  BY <1>1, Constant DEF IInv, Shape, Labels, Known
<1>3. \A u \in Threads : ~ Holds(u)
  BY DEF IInv, Leaders
<1>4. Leaders'
  BY <1>1, <1>3 DEF IInv, Shape, Leaders, Holds, Flying, Nobody
<1>5. Kept'
  BY <1>1 DEF IInv, Shape, Kept, Known
<1>6. Handed'
  <2>1. pc'[t] = "run" /\ result' = result
    BY DEF IInv, Shape
  <2>2. HandedTo(t)'
    BY <2>1 DEF HandedTo
  <2>3. ASSUME NEW u \in Threads \ {t}
        PROVE  /\ pc'[u] = pc[u] /\ mine'[u] = mine[u] /\ arrived'[u] = arrived[u]
               /\ val'[u] = val[u] /\ err'[u] = err[u]
    BY DEF IInv, Shape
  <2> QED BY <1>1, <2>1, <2>2, <2>3, HandedStays DEF IInv, Handed
<1> QED BY <1>2, <1>4, <1>5, <1>6 DEF IInv

\* The two reads without the lock see the results kept at that time, which
\* are those the call found fresh or later ones.
LEMMA ReadValStep == ASSUME NEW t \in Threads PROVE IInv /\ ReadVal(t) => IInv'
<1> SUFFICES ASSUME IInv, ReadVal(t) PROVE IInv'
  OBVIOUS
<1> USE DEF ReadVal, single, history
<1>1. Known(result)
  BY DEF IInv, Handed, HandedTo, Timely
<1>2. Shape'
  BY <1>1 DEF IInv, Shape, Labels, Known
<1>3. Leaders' /\ Kept'
  BY DEF IInv, Leaders, Kept, Holds, Flying, Shape
<1>4. Handed'
  BY DEF IInv, Handed, HandedTo, Timely, Known, Shape
<1> QED BY <1>2, <1>3, <1>4 DEF IInv

\* The read of s.result.Err, like that of s.result.Val.
LEMMA ReadErrStep == ASSUME NEW t \in Threads PROVE IInv /\ ReadErr(t) => IInv'
<1> SUFFICES ASSUME IInv, ReadErr(t) PROVE IInv'
  OBVIOUS
<1> USE DEF ReadErr, single, history
<1>1. Known(result)
  BY DEF IInv, Handed, HandedTo, Timely
<1>2. Shape'
  BY <1>1 DEF IInv, Shape, Labels, Known
<1>3. Leaders' /\ Kept'
  BY DEF IInv, Leaders, Kept, Holds, Flying, Shape
<1>4. Handed'
  BY DEF IInv, Handed, HandedTo, Timely, Known, Shape
<1> QED BY <1>2, <1>3, <1>4 DEF IInv

\* Who waited is handed the results of the execution it joined.
LEMMA JoinedStep == ASSUME NEW t \in Threads PROVE IInv /\ Joined(t) => IInv'
<1> SUFFICES ASSUME IInv, Joined(t) PROVE IInv'
  OBVIOUS
<1> USE DEF Joined, Returns, single, history
<1>1. Shape'
  BY DEF IInv, Shape, Labels, Known
<1>2. Leaders' /\ Kept'
  BY DEF IInv, Leaders, Kept, Holds, Flying, Shape
<1>3. Handed'
  BY DEF IInv, Handed, HandedTo, Timely, Known, Shape
<1> QED BY <1>1, <1>2, <1>3 DEF IInv

\* The leader stays the leader, also when its function panics.
LEMMA RunStep ==
    ASSUME NEW t \in Threads PROVE IInv /\ (Run(t) \/ Panic(t) \/ CallDone(t)) => IInv'
<1> SUFFICES ASSUME IInv, Run(t) \/ Panic(t) \/ CallDone(t) PROVE IInv'
  OBVIOUS
<1> USE DEF Run, Panic, CallDone, single, history, local
<1>1. Shape'
  BY DEF IInv, Shape, Labels, Known
<1>2. Leaders' /\ Kept'
  BY DEF IInv, Leaders, Kept, Holds, Flying, Shape
<1>3. Handed'
  <2>1. /\ pc'[t] \in {"release", "panicked", "publish"}
        /\ result' = result /\ begun' = begun /\ Len(begun) \in Nat
    BY DEF IInv, Shape
  <2>2. HandedTo(t)'
    BY <2>1 DEF HandedTo
  <2>3. ASSUME NEW u \in Threads \ {t}
        PROVE  /\ pc'[u] = pc[u] /\ mine'[u] = mine[u] /\ arrived'[u] = arrived[u]
               /\ val'[u] = val[u] /\ err'[u] = err[u]
    BY DEF IInv, Shape
  <2> QED BY <2>1, <2>2, <2>3, HandedStays DEF IInv, Handed
<1> QED BY <1>1, <1>2, <1>3 DEF IInv

\* The second critical section keeps the results of the execution in flight,
\* which began no earlier than the ones it replaces.
LEMMA PublishStep == ASSUME NEW t \in Threads PROVE IInv /\ Publish(t) => IInv'
<1> SUFFICES ASSUME IInv, Publish(t) PROVE IInv'
  OBVIOUS
<1> USE DEF Publish, Returns, history
<1>1. Holds(t)
  BY DEF Holds, Flying
<1>2. mine[t] = call /\ Known(call) /\ arrived[t] = begun[call]
  BY <1>1 DEF IInv, Shape, Leaders
<1>3. \A u \in Threads : Holds(u) => u = t
  BY <1>1 DEF IInv, Leaders
<1>4. Shape'
  BY <1>2 DEF IInv, Shape, Labels, Known
<1>5. Leaders'
  BY <1>3 DEF IInv, Shape, Leaders, Holds, Flying
<1>6. Kept'
  BY <1>2 DEF IInv, Kept, Shape, Known, Nobody
<1>7. result # Nobody => begun[result] <= begun[call]
  BY <1>1 DEF IInv, Kept, Leaders
<1>8. ASSUME NEW u \in Threads, pc[u] \in {"val", "err"}
      PROVE arrived[u] < begun[result'] + Wait
  <2>1. Known(result) /\ arrived[u] < begun[result] + Wait
    BY <1>8 DEF IInv, Handed, HandedTo, Timely
  <2>2. begun[result] <= begun[call]
    BY <1>7, <2>1 DEF Known, Nobody
  <2>3. begun[result] \in Nat /\ begun[call] \in Nat /\ arrived[u] \in Nat
    <3>1. begun \in Seq(Nat) /\ arrived \in [Threads -> Nat]
      BY DEF IInv, Shape
    <3>2. \A c \in 1..Len(begun) : begun[c] \in Nat
      BY <3>1
    <3>3. result \in 1..Len(begun) /\ call \in 1..Len(begun)
      BY <1>2, <2>1 DEF Known
    <3> QED BY <3>1, <3>2, <3>3
  <2> QED BY <1>2, <2>1, <2>2, <2>3, Constant
<1>9. Handed'
  BY <1>2, <1>8 DEF IInv, Shape, Handed, HandedTo, Timely, Known
<1> QED BY <1>4, <1>5, <1>6, <1>9 DEF IInv

\* The invariant is inductive.
LEMMA IInvStep == IInv /\ [Next]_vars => IInv'
<1> SUFFICES ASSUME IInv, [Next]_vars PROVE IInv'
  OBVIOUS
<1>1. CASE Next
  BY <1>1, TickStep, ResetStep, DoStep, CachedStep, JoinStep, LeadStep, ReadValStep, ReadErrStep,
     JoinedStep, RunStep, PublishStep DEF Next, Step
<1>2. CASE UNCHANGED vars
  BY <1>2 DEF IInv, Shape, Leaders, Kept, Handed, HandedTo, Holds, Timely, Known, vars,
     single, history, local
<1> QED BY <1>1, <1>2

\* The inductive invariant holds in every reachable state.
LEMMA IInvCorrect == Spec => []IInv
BY IInvInit, IInvStep, PTL DEF Spec

-----------------------------------------------------------------------------
\* Single.Do never runs two executions of fn at the same time.
THEOREM OneExecution == Spec => []OneInFlight
<1>1. IInv => OneInFlight
  BY DEF IInv, Leaders, Holds, OneInFlight
<1> QED BY <1>1, IInvCorrect, PTL

\* The dereference of s.result after the unlock is never one of nil.
THEOREM NoNilResult == Spec => []ResultThere
<1>1. IInv => ResultThere
  BY DEF IInv, Handed, HandedTo, Timely, Known, ResultThere, Nobody
<1> QED BY <1>1, IInvCorrect, PTL

\* No call returns results that were out of date when it took the lock.
THEOREM Timeliness == Spec => []NeverOutdated
<1>1. IInv => NeverOutdated
  BY DEF IInv, Handed, HandedTo, Timely, Known, NeverOutdated, Nobody
<1> QED BY <1>1, IInvCorrect, PTL

-----------------------------------------------------------------------------
\* Dropped results are those of earlier executions, and are not kept.
Drops ==
    /\ \A c \in dropped : Known(c)
    /\ call # Nobody => call = Len(begun) /\ result # call /\ call \notin dropped
    /\ last # Never => result \notin dropped

\* What a goroutine has got, or is about to get, was not dropped before it
\* took the lock.
Spared ==
    /\ stale = [t \in Threads |-> stale[t]]
    /\ \A t \in Threads :
          /\ stale[t] \subseteq dropped
          /\ pc[t] \in {"val", "err"} => result \notin stale[t]
          /\ pc[t] \in {"err", "done"} => val[t] \notin stale[t]
          /\ pc[t] = "done" => err[t] \notin stale[t]
          /\ pc[t] = "wait" => mine[t] \notin stale[t]

DInv == IInv /\ Drops /\ Spared

\* Nothing has been dropped yet.
LEMMA DInvInit == Init => DInv
BY IInvInit DEF Init, DInv, Drops, Spared, Nobody, Never

\* A goroutine takes the lock: fresh results and an execution in flight are
\* not dropped, and a new execution has a number of its own.
LEMMA LockedSpared ==
    ASSUME NEW t \in Threads
    PROVE  DInv /\ (Cached(t) \/ Join(t) \/ Lead(t)) => Drops' /\ Spared'
<1> SUFFICES ASSUME DInv, Cached(t) \/ Join(t) \/ Lead(t) PROVE Drops' /\ Spared'
  OBVIOUS
<1>1. /\ stale' = [stale EXCEPT ![t] = dropped]
      /\ \A u \in Threads : u # t => /\ pc'[u] = pc[u] /\ mine'[u] = mine[u]
                                     /\ val'[u] = val[u] /\ err'[u] = err[u]
      /\ UNCHANGED <<result, dropped, last>>
  BY DEF Cached, Join, Lead, Locked, single, history, DInv, IInv, Shape
<1>2. \/ pc'[t] = "val" /\ last # Never
      \/ pc'[t] = "wait" /\ mine'[t] = call /\ call # Nobody
      \/ pc'[t] = "run"
  BY DEF Cached, Fresh, Join, Lead, Locked, DInv, IInv, Shape
<1>3. Drops'
  <2>1. CASE Cached(t) \/ Join(t)
    BY <2>1 DEF Cached, Join, single, history, DInv, Drops, Known
  <2>2. CASE Lead(t)
    <3>1. /\ Len(begun') = Len(begun) + 1 /\ Len(begun) \in Nat /\ call' = Len(begun')
      BY <2>2 DEF Lead, DInv, IInv, Shape
    <3> QED BY <1>1, <3>1 DEF DInv, IInv, Shape, Drops, Known, Nobody
  <2> QED BY <2>1, <2>2
<1>4. Spared'
  BY <1>1, <1>2 DEF DInv, Drops, Spared
<1> QED BY <1>3, <1>4

\* A goroutine goes on without the lock.
LEMMA UnlockedSpared ==
    ASSUME NEW t \in Threads
    PROVE  DInv /\ (\/ Do(t) \/ ReadVal(t) \/ ReadErr(t) \/ Joined(t)
                    \/ Run(t) \/ Panic(t) \/ CallDone(t)) => Drops' /\ Spared'
<1> SUFFICES ASSUME DInv, \/ Do(t) \/ ReadVal(t) \/ ReadErr(t) \/ Joined(t)
                          \/ Run(t) \/ Panic(t) \/ CallDone(t)
             PROVE  Drops' /\ Spared'
  OBVIOUS
<1>1. UNCHANGED <<last, call, result, begun, dropped, mine, stale>>
  BY DEF Do, ReadVal, ReadErr, Joined, Run, Panic, CallDone, single, history, local
<1>2. Drops'
  BY <1>1 DEF DInv, Drops, Known
<1>3. \A u \in Threads : u # t => pc'[u] = pc[u] /\ val'[u] = val[u] /\ err'[u] = err[u]
  BY DEF Do, ReadVal, ReadErr, Joined, Returns, Run, Panic, CallDone, local, DInv, IInv, Shape
<1>4. \/ pc'[t] \in {"lock", "release", "panicked", "publish"}
      \/ pc[t] = "val" /\ pc'[t] = "err" /\ val'[t] = result
      \/ pc[t] = "err" /\ pc'[t] = "done" /\ val'[t] = val[t] /\ err'[t] = result
      \/ pc[t] = "wait" /\ pc'[t] = "done" /\ val'[t] = mine[t] /\ err'[t] = mine[t]
  BY DEF Do, ReadVal, ReadErr, Joined, Returns, Run, Panic, CallDone, DInv, IInv, Shape
<1>5. Spared'
  BY <1>1, <1>3, <1>4 DEF DInv, Spared
<1> QED BY <1>2, <1>5

\* The results that are published are those of the execution in flight, which
\* nobody can have dropped.
LEMMA PublishSpared == ASSUME NEW t \in Threads PROVE DInv /\ Publish(t) => Drops' /\ Spared'
<1> SUFFICES ASSUME DInv, Publish(t) PROVE Drops' /\ Spared'
  OBVIOUS
<1>1. mine[t] = call /\ call # Nobody /\ call \notin dropped
  BY DEF Publish, DInv, IInv, Leaders, Holds, Flying, Drops
<1>2. /\ call' = Nobody /\ result' = call /\ UNCHANGED <<begun, dropped, mine, stale>>
      /\ pc'[t] = "done" /\ val'[t] = call /\ err'[t] = call
      /\ \A u \in Threads : u # t => pc'[u] = pc[u] /\ val'[u] = val[u] /\ err'[u] = err[u]
  BY <1>1 DEF Publish, Returns, history, DInv, IInv, Shape
<1>3. Drops'
  BY <1>1, <1>2 DEF DInv, Drops, Known
<1>4. Spared'
  BY <1>1, <1>2 DEF DInv, Spared
<1> QED BY <1>3, <1>4

\* Reset drops the kept results, which are not those in flight.
LEMMA ResetSpared == DInv /\ (Reset \/ Tick) => Drops' /\ Spared'
<1> SUFFICES ASSUME DInv, Reset \/ Tick PROVE Drops' /\ Spared'
  OBVIOUS
<1>1. CASE Tick
  BY <1>1 DEF Tick, single, history, local, DInv, Drops, Spared, Known
<1>2. CASE Reset
  <2>1. Known(result)
    BY <1>2 DEF Reset, DInv, IInv, Shape, Kept
  <2>2. Drops'
    BY <1>2, <2>1 DEF Reset, DInv, Drops, Known
  <2>3. Spared'
    BY <1>2 DEF Reset, local, DInv, Spared
  <2> QED BY <2>2, <2>3
<1> QED BY <1>1, <1>2

\* A call that took the lock after a Reset never returns what it dropped.
THEOREM DroppedForGood == Spec => []DroppedStayDropped
<1>1. DInv /\ [Next]_vars => DInv'
  <2> SUFFICES ASSUME DInv, [Next]_vars PROVE DInv'
    OBVIOUS
  <2>1. IInv'
    BY IInvStep DEF DInv
  <2>2. CASE Next
    BY <2>1, <2>2, LockedSpared, UnlockedSpared, PublishSpared, ResetSpared DEF Next, Step, DInv
  <2>3. CASE UNCHANGED vars
    BY <2>1, <2>3 DEF vars, single, history, local, DInv, Drops, Spared, Known
  <2> QED BY <2>2, <2>3
<1>2. DInv => DroppedStayDropped
  BY DEF DInv, Spared, DroppedStayDropped
<1> QED BY <1>1, <1>2, DInvInit, PTL DEF Spec

-----------------------------------------------------------------------------
(* The actor resolver: no saved entry is lost and answers are sound.         *)

States == {"new", "check", "resolve", "save", "open", "write", "replace", "done", "lost"}

Types ==
    /\ now \in Nat
    /\ stage \in [Requests -> States]
    /\ asked = [r \in Requests |-> asked[r]]
    /\ cache = [r \in Requests |-> cache[r]]
    /\ answer = [r \in Requests |-> answer[r]]

\* The lock says who is in save_cache.
LockInv == \A r \in Requests : stage[r] \in Critical <=> lock = r

\* Entries are under their own key and were not saved in the future.
CacheInv(f) == \A k \in DOMAIN f : f[k].key = k /\ f[k].saved \in Nat /\ f[k].saved <= now

\* Every entry of f is in g, or a later one is.
Covers(g, f) == \A k \in DOMAIN f : k \in DOMAIN g /\ g[k].saved >= f[k].saved

\* What a thread is about to save covers what the file holds meanwhile.
SavingInv ==
    \A r \in Requests : stage[r] \in Critical =>
        /\ CacheInv(cache[r])
        /\ Covers(cache[r], Load(file))
        /\ stage[r] = "replace" => temporary = Whole(cache[r])

AskedInv == \A r \in Requests : stage[r] # "new" => asked[r].at \in Nat /\ asked[r].at <= now

NoAnswerYet == \A r \in Requests : stage[r] \in {"new", "check", "resolve"} => answer[r] = None

\* An answer that was resolved for this request.
ResolvedFor(r) ==
    /\ answer[r].key = KeyOf(r)
    /\ Preferred[asked[r].query] # None => answer[r].name = Preferred[asked[r].query]
    /\ answer[r].saved \in Nat
    /\ asked[r].at <= answer[r].saved
    /\ answer[r].saved <= now

ResolvedInv == \A r \in Requests : stage[r] \in Critical \union {"save"} => ResolvedFor(r)

ResolverIInv ==
    /\ Types /\ LockInv /\ CacheInv(Load(file)) /\ SavingInv
    /\ AskedInv /\ NoAnswerYet /\ ResolvedInv /\ AnswerSound

\* Initially the file, if there is one, has entries from before.
LEMMA ResolverIInvInit == ResolverInit => ResolverIInv
<1> SUFFICES ASSUME ResolverInit PROVE ResolverIInv
  OBVIOUS
<1>1. Types /\ LockInv /\ SavingInv /\ AskedInv /\ NoAnswerYet /\ ResolvedInv /\ AnswerSound
  BY NoneAssumption
  DEF ResolverInit, Types, States, LockInv, SavingInv, AskedInv, NoAnswerYet, ResolvedInv, AnswerSound, Critical
<1>2. CacheInv(Load(file))
  BY FilesAssumption DEF ResolverInit, CacheInv, Load, Empty
<1> QED BY <1>1, <1>2 DEF ResolverIInv

\* Adding an entry saved now to a cache keeps it in order and loses nothing.
LEMMA PutCovers ==
    ASSUME NEW f, NEW entry, now \in Nat, CacheInv(f), entry.saved = now
    PROVE  CacheInv(Put(entry, f)) /\ Covers(Put(entry, f), f)
BY DEF CacheInv, Covers, Put

\* The clock moves: what was saved stays in the past.
LEMMA TimePassesStep == ResolverIInv /\ TimePasses => ResolverIInv'
<1> SUFFICES ASSUME ResolverIInv, TimePasses PROVE ResolverIInv'
  OBVIOUS
<1> USE DEF TimePasses
<1>1. Types' /\ LockInv' /\ NoAnswerYet' /\ AnswerSound'
  BY DEF ResolverIInv, Types, LockInv, NoAnswerYet, AnswerSound, KeyOf
<1>2. CacheInv(Load(file))' /\ AskedInv'
  BY DEF ResolverIInv, Types, CacheInv, Load, AskedInv
<1>3. SavingInv'
  BY DEF ResolverIInv, Types, SavingInv, CacheInv, Covers, Load
<1>4. ResolvedInv'
  BY DEF ResolverIInv, Types, ResolvedInv, ResolvedFor, KeyOf
<1> QED BY <1>1, <1>2, <1>3, <1>4 DEF ResolverIInv

\* After a restart nobody is in save_cache.
LEMMA CrashStep == ResolverIInv /\ Crash => ResolverIInv'
<1> SUFFICES ASSUME ResolverIInv, Crash PROVE ResolverIInv'
  OBVIOUS
<1>1. \A r \in Requests : stage'[r] \in {"new", "done", "lost"} /\ (stage'[r] # "lost" => stage'[r] = stage[r])
                          /\ (stage[r] = "new" => stage'[r] = "new")
  BY DEF Crash
<1>2. lock' = None /\ UNCHANGED <<now, file, temporary, asked, cache, answer>>
  BY DEF Crash
<1>3. Types'
  BY <1>2 DEF Crash, ResolverIInv, Types, States
<1>4. LockInv' /\ SavingInv' /\ ResolvedInv'
  BY <1>1, <1>2, NoneAssumption DEF LockInv, SavingInv, ResolvedInv, Critical
<1>5. CacheInv(Load(file))' /\ AskedInv' /\ NoAnswerYet' /\ AnswerSound'
  BY <1>1, <1>2 DEF ResolverIInv, CacheInv, Load, AskedInv, NoAnswerYet, AnswerSound, KeyOf
<1> QED BY <1>3, <1>4, <1>5 DEF ResolverIInv

\* A request comes in.
LEMMA AskStep ==
    ASSUME NEW r \in Requests, NEW q \in Queries, NEW refresh \in BOOLEAN
    PROVE  ResolverIInv /\ Ask(r, q, refresh) => ResolverIInv'
<1> SUFFICES ASSUME ResolverIInv, Ask(r, q, refresh) PROVE ResolverIInv'
  OBVIOUS
<1>1. /\ stage[r] = "new" /\ stage' = [stage EXCEPT ![r] = "check"]
      /\ asked' = [asked EXCEPT ![r] = [query |-> q, refresh |-> refresh, at |-> now]]
      /\ UNCHANGED <<now, file, temporary, lock, cache, answer>>
  BY DEF Ask
<1>2. Types'
  BY <1>1 DEF ResolverIInv, Types, States
<1>3. LockInv' /\ SavingInv' /\ CacheInv(Load(file))'
  BY <1>1 DEF ResolverIInv, Types, LockInv, SavingInv, CacheInv, Covers, Load, Critical
<1>4. AskedInv' /\ NoAnswerYet'
  BY <1>1 DEF ResolverIInv, Types, AskedInv, NoAnswerYet
<1>5. ResolvedInv' /\ AnswerSound'
  BY <1>1 DEF ResolverIInv, Types, ResolvedInv, ResolvedFor, AnswerSound, KeyOf, Critical
<1> QED BY <1>2, <1>3, <1>4, <1>5 DEF ResolverIInv

\* The first look into the cache.  An entry that may be answered with is younger
\* than TTL now, and so was the request.
LEMMA CheckCacheStep == ASSUME NEW r \in Requests PROVE ResolverIInv /\ CheckCache(r) => ResolverIInv'
<1> SUFFICES ASSUME ResolverIInv, CheckCache(r) PROVE ResolverIInv'
  OBVIOUS
<1>1. /\ stage[r] = "check"
      /\ cache' = [cache EXCEPT ![r] = Load(file)]
      /\ UNCHANGED <<now, file, temporary, lock, asked>>
      /\ \/ /\ Usable(r)
            /\ answer' = [answer EXCEPT ![r] = Named(r, Load(file)[KeyOf(r)])]
            /\ stage' = [stage EXCEPT ![r] = "done"]
         \/ stage' = [stage EXCEPT ![r] = "resolve"] /\ UNCHANGED answer
  BY DEF CheckCache
<1>2. Types' /\ LockInv' /\ CacheInv(Load(file))'
  BY <1>1 DEF ResolverIInv, Types, States, LockInv, CacheInv, Load, Critical
<1>3. SavingInv'
  <2> SUFFICES ASSUME NEW t \in Requests, stage'[t] \in Critical
               PROVE  /\ CacheInv(cache[t])' /\ Covers(cache[t], Load(file))'
                      /\ stage'[t] = "replace" => temporary' = Whole(cache'[t])
    BY DEF SavingInv
  <2>1. t # r /\ stage'[t] = stage[t] /\ cache'[t] = cache[t]
    BY <1>1 DEF ResolverIInv, Types, Critical
  <2> QED BY <1>1, <2>1 DEF ResolverIInv, SavingInv, CacheInv, Covers, Load
<1>4. AskedInv' /\ NoAnswerYet' /\ ResolvedInv'
  BY <1>1 DEF ResolverIInv, Types, AskedInv, NoAnswerYet, ResolvedInv, ResolvedFor, KeyOf, Critical
<1>5. AnswerSound'
  <2>1. CASE UNCHANGED answer /\ stage' = [stage EXCEPT ![r] = "resolve"]
    BY <1>1, <2>1 DEF ResolverIInv, Types, AnswerSound, KeyOf
  <2>2. CASE /\ Usable(r)
             /\ answer' = [answer EXCEPT ![r] = Named(r, Load(file)[KeyOf(r)])]
             /\ stage' = [stage EXCEPT ![r] = "done"]
    <3> DEFINE entry == Load(file)[KeyOf(r)]
    <3>1. /\ entry.key = KeyOf(r) /\ entry.saved \in Nat /\ ~ asked[r].refresh
          /\ now - entry.saved < TTL
      BY <2>2 DEF Usable, ResolverIInv, CacheInv
    <3>2. asked[r].at \in Nat /\ asked[r].at <= now /\ now \in Nat
      BY <1>1 DEF ResolverIInv, Types, AskedInv
    <3>3. asked[r].at < entry.saved + TTL
      BY <3>1, <3>2, TTLAssumption
    <3>4. /\ Named(r, entry).key = KeyOf(r)
          /\ Named(r, entry).saved = entry.saved
          /\ Preferred[asked[r].query] # None => Named(r, entry).name = Preferred[asked[r].query]
      BY <3>1 DEF Named, Entry
    <3>5. answer'[r] = Named(r, entry) /\ \A t \in Requests : t # r => answer'[t] = answer[t] /\ stage'[t] = stage[t]
      BY <2>2 DEF ResolverIInv, Types
    <3> QED BY <1>1, <3>1, <3>3, <3>4, <3>5 DEF ResolverIInv, AnswerSound, KeyOf
  <2> QED BY <1>1, <2>1, <2>2
<1> QED BY <1>2, <1>3, <1>4, <1>5 DEF ResolverIInv

\* The sources have the actor.
LEMMA ResolveStep == ASSUME NEW r \in Requests PROVE ResolverIInv /\ Resolve(r) => ResolverIInv'
<1> SUFFICES ASSUME ResolverIInv, Resolve(r) PROVE ResolverIInv'
  OBVIOUS
<1> DEFINE entry == Named(r, Entry(KeyOf(r), Merged, now))
<1>1. /\ stage[r] = "resolve" /\ stage' = [stage EXCEPT ![r] = "save"]
      /\ answer' = [answer EXCEPT ![r] = entry]
      /\ UNCHANGED <<now, file, temporary, lock, asked, cache>>
  BY DEF Resolve
<1>2. /\ entry.key = KeyOf(r) /\ entry.saved = now
      /\ Preferred[asked[r].query] # None => entry.name = Preferred[asked[r].query]
  BY DEF Named, Entry
<1>3. Types' /\ LockInv' /\ CacheInv(Load(file))'
  BY <1>1 DEF ResolverIInv, Types, States, LockInv, CacheInv, Load, Critical
<1>4. SavingInv' /\ AskedInv' /\ NoAnswerYet'
  BY <1>1 DEF ResolverIInv, Types, SavingInv, CacheInv, Covers, Load, Critical, AskedInv, NoAnswerYet
<1> HIDE DEF entry
<1>5. ResolvedInv'
  <2> SUFFICES ASSUME NEW t \in Requests, stage'[t] \in Critical \union {"save"}
               PROVE  ResolvedFor(t)'
    BY DEF ResolvedInv
  <2>1. CASE t = r
    BY <1>1, <1>2, <2>1 DEF ResolverIInv, Types, AskedInv, ResolvedFor, KeyOf
  <2>2. CASE t # r
    BY <1>1, <2>2 DEF ResolverIInv, Types, ResolvedInv, ResolvedFor, KeyOf
  <2> QED BY <2>1, <2>2
<1>6. AnswerSound'
  BY <1>1 DEF ResolverIInv, Types, AnswerSound, KeyOf
<1> QED BY <1>3, <1>4, <1>5, <1>6 DEF ResolverIInv

\* No source has her.
LEMMA ResolveFailsStep == ASSUME NEW r \in Requests PROVE ResolverIInv /\ ResolveFails(r) => ResolverIInv'
<1> SUFFICES ASSUME ResolverIInv, ResolveFails(r) PROVE ResolverIInv'
  OBVIOUS
<1>1. /\ stage[r] = "resolve" /\ stage' = [stage EXCEPT ![r] = "done"]
      /\ UNCHANGED <<now, file, temporary, lock, asked, cache, answer>>
  BY DEF ResolveFails
<1>2. Types' /\ LockInv' /\ CacheInv(Load(file))' /\ SavingInv'
  BY <1>1 DEF ResolverIInv, Types, States, LockInv, CacheInv, Load, Critical, SavingInv, Covers
<1>3. AskedInv' /\ NoAnswerYet' /\ ResolvedInv' /\ AnswerSound'
  BY <1>1 DEF ResolverIInv, Types, AskedInv, NoAnswerYet, ResolvedInv, ResolvedFor, Critical, AnswerSound, KeyOf
<1> QED BY <1>2, <1>3 DEF ResolverIInv

\* The second time under the lock: what is about to be saved covers the file.
LEMMA LockAndLoadStep == ASSUME NEW r \in Requests PROVE ResolverIInv /\ LockAndLoad(r) => ResolverIInv'
<1> SUFFICES ASSUME ResolverIInv, LockAndLoad(r) PROVE ResolverIInv'
  OBVIOUS
<1> DEFINE entry == Entry(answer[r].key, answer[r].name, now)
<1>1. /\ stage[r] = "save" /\ lock = None /\ lock' = r
      /\ answer' = [answer EXCEPT ![r] = entry]
      /\ cache' = [cache EXCEPT ![r] = Put(answer'[r], Load(file))]
      /\ stage' = [stage EXCEPT ![r] = "open"]
      /\ UNCHANGED <<now, file, temporary, asked>>
  BY DEF LockAndLoad, Reload
<1>2. entry.key = answer[r].key /\ entry.name = answer[r].name /\ entry.saved = now
  BY DEF Entry
<1> HIDE DEF entry
<1>3. answer'[r] = entry /\ cache'[r] = Put(entry, Load(file)) /\ stage'[r] = "open"
  BY <1>1 DEF ResolverIInv, Types
<1>4. \A t \in Requests : t # r => /\ stage'[t] = stage[t] /\ answer'[t] = answer[t]
                                   /\ cache'[t] = cache[t] /\ stage[t] \notin Critical
  BY <1>1, NoneAssumption DEF ResolverIInv, Types, LockInv
<1>5. Types' /\ CacheInv(Load(file))'
  BY <1>1 DEF ResolverIInv, Types, States, CacheInv, Load
<1>6. LockInv'
  BY <1>1, <1>3, <1>4 DEF LockInv, Critical
<1>7. SavingInv'
  <2>1. CacheInv(Put(entry, Load(file))) /\ Covers(Put(entry, Load(file)), Load(file))
    BY <1>2, PutCovers DEF ResolverIInv, Types
  <2> QED BY <1>1, <1>3, <1>4, <2>1 DEF SavingInv, CacheInv, Covers, Load
<1>8. AskedInv' /\ NoAnswerYet' /\ AnswerSound'
  BY <1>1, <1>3, <1>4 DEF ResolverIInv, AskedInv, NoAnswerYet, AnswerSound, KeyOf
<1>9. ResolvedInv'
  <2>1. ResolvedFor(r)'
    BY <1>1, <1>2, <1>3 DEF ResolverIInv, Types, ResolvedInv, ResolvedFor, AskedInv, KeyOf
  <2> QED BY <1>1, <1>4, <2>1 DEF ResolverIInv, ResolvedInv, ResolvedFor, KeyOf
<1> QED BY <1>5, <1>6, <1>7, <1>8, <1>9 DEF ResolverIInv

\* The temporary file is opened and written; nobody else is in save_cache.
LEMMA WriteTemporaryStep ==
    ASSUME NEW r \in Requests PROVE ResolverIInv /\ (Open(r) \/ Write(r)) => ResolverIInv'
<1> SUFFICES ASSUME ResolverIInv, Open(r) \/ Write(r) PROVE ResolverIInv'
  OBVIOUS
<1>1. /\ stage[r] \in Critical /\ stage'[r] \in Critical
      /\ stage' = [stage EXCEPT ![r] = stage'[r]]
      /\ stage'[r] = "replace" => temporary' = Whole(cache[r])
      /\ UNCHANGED <<now, file, lock, asked, cache, answer>>
  BY DEF Open, Write, ResolverIInv, Types, Critical
<1>2. \A t \in Requests : t # r => stage'[t] = stage[t] /\ stage[t] \notin Critical
  BY <1>1 DEF ResolverIInv, Types, LockInv
<1>3. Types'
  BY <1>1 DEF ResolverIInv, Types, States, Critical
<1>4. LockInv' /\ CacheInv(Load(file))' /\ SavingInv'
  BY <1>1, <1>2 DEF ResolverIInv, LockInv, SavingInv, CacheInv, Covers, Load
<1>5. AskedInv' /\ NoAnswerYet' /\ ResolvedInv' /\ AnswerSound'
  BY <1>1, <1>2 DEF ResolverIInv, AskedInv, NoAnswerYet, ResolvedInv, ResolvedFor, AnswerSound, KeyOf, Critical
<1> QED BY <1>3, <1>4, <1>5 DEF ResolverIInv

\* The rename puts the thread's cache in the place of the file.
LEMMA ReplaceLoads ==
    ASSUME NEW r \in Requests, ResolverIInv, Replace(r)
    PROVE  Load(file') = cache[r] /\ CacheInv(Load(file')) /\ Covers(Load(file'), Load(file))
<1>1. stage[r] \in Critical /\ file' = Whole(cache[r])
  BY DEF Replace, ResolverIInv, SavingInv, Critical
<1> QED BY <1>1 DEF ResolverIInv, SavingInv, Load, Whole

\* A thread leaves save_cache, with the file renamed or with an error.
LEMMA LeaveStep ==
    ASSUME NEW r \in Requests PROVE ResolverIInv /\ (Replace(r) \/ SaveFails(r)) => ResolverIInv'
<1> SUFFICES ASSUME ResolverIInv, Replace(r) \/ SaveFails(r) PROVE ResolverIInv'
  OBVIOUS
<1>1. /\ stage[r] \in Critical /\ lock' = None /\ stage' = [stage EXCEPT ![r] = "done"]
      /\ answer' = [answer EXCEPT ![r] = answer'[r]]
      /\ answer'[r] = answer[r] \/ answer'[r] = None
      /\ UNCHANGED <<now, asked, cache>>
  BY DEF Replace, SaveFails, ResolverIInv, Types, Critical
<1>2. stage'[r] = "done" /\ \A t \in Requests : t # r =>
          stage'[t] = stage[t] /\ stage[t] \notin Critical /\ answer'[t] = answer[t]
  BY <1>1 DEF ResolverIInv, Types, LockInv
<1>3. CacheInv(Load(file))'
  <2>1. CASE Replace(r)
    BY <1>1, <2>1, ReplaceLoads DEF CacheInv
  <2>2. CASE SaveFails(r)
    BY <2>2 DEF SaveFails, ResolverIInv, CacheInv, Load
  <2> QED BY <2>1, <2>2
<1>4. Types'
  BY <1>1 DEF ResolverIInv, Types, States
<1>5. LockInv' /\ SavingInv'
  BY <1>1, <1>2, NoneAssumption DEF LockInv, SavingInv, Critical
<1>6. AskedInv' /\ NoAnswerYet' /\ ResolvedInv'
  BY <1>1, <1>2 DEF ResolverIInv, AskedInv, NoAnswerYet, ResolvedInv, ResolvedFor, KeyOf, Critical
<1>7. AnswerSound'
  <2>1. ResolvedFor(r)
    BY <1>1 DEF ResolverIInv, ResolvedInv
  <2> QED BY <1>1, <1>2, <2>1 DEF ResolverIInv, AnswerSound, ResolvedFor, KeyOf
<1> QED BY <1>3, <1>4, <1>5, <1>6, <1>7 DEF ResolverIInv

-----------------------------------------------------------------------------
LEMMA ResolverIInvStep == ResolverIInv /\ [ResolverNext]_resolverVars => ResolverIInv'
<1> SUFFICES ASSUME ResolverIInv, [ResolverNext]_resolverVars PROVE ResolverIInv'
  OBVIOUS
<1>1. CASE TimePasses
  BY <1>1, TimePassesStep
<1>2. CASE Crash
  BY <1>2, CrashStep
<1>3. CASE \E r \in Requests, q \in Queries, refresh \in BOOLEAN : Ask(r, q, refresh)
  BY <1>3, AskStep
<1>4. CASE \E r \in Requests : Serve(r)
  BY <1>4, CheckCacheStep, ResolveStep, ResolveFailsStep, LockAndLoadStep,
     WriteTemporaryStep, LeaveStep DEF Serve
<1>5. CASE UNCHANGED resolverVars
  BY <1>5 DEF resolverVars, ResolverIInv, Types, LockInv, CacheInv, Load, SavingInv, Covers, AskedInv,
     NoAnswerYet, ResolvedInv, ResolvedFor, AnswerSound, KeyOf
<1> QED BY <1>1, <1>2, <1>3, <1>4, <1>5 DEF ResolverNext

\* Every answer is about the actor that was asked for, under the canonical name
\* if the query has one, and fresh enough, for any number of requests, restarts
\* and entries.
THEOREM AnswersSound == ResolverSpec => []AnswerSound
<1>1. ResolverIInv => AnswerSound
  BY DEF ResolverIInv
<1> QED BY <1>1, ResolverIInvInit, ResolverIInvStep, PTL DEF ResolverSpec

\* Only the rename changes the file, and what it puts there covers what it
\* replaces, since the cache was read again under the lock.
LEMMA NoEntryLostStep == ResolverIInv /\ [ResolverNext]_resolverVars => [Covers(Load(file'), Load(file))]_resolverVars
<1> SUFFICES ASSUME ResolverIInv, ResolverNext PROVE Covers(Load(file'), Load(file))
  BY DEF Covers
<1>1. CASE file' = file
  BY <1>1 DEF ResolverIInv, CacheInv, Covers
<1>2. CASE \E r \in Requests : Replace(r)
  BY <1>2, ReplaceLoads
<1> QED BY <1>1, <1>2 DEF ResolverNext, TimePasses, Crash, Ask, Serve, CheckCache, Resolve, ResolveFails,
           LockAndLoad, Open, Write, SaveFails

\* No saved entry is lost or replaced by an older one, whatever the threads and
\* the restarts.
THEOREM NoEntryIsLost == ResolverSpec => NoEntryLost
<1>1. [Covers(Load(file'), Load(file))]_resolverVars
      => [\A k \in DOMAIN Load(file) :
             /\ k \in DOMAIN Load(file')
             /\ Load(file')[k].saved >= Load(file)[k].saved]_resolverVars
  BY DEF Covers
<1>2. ResolverIInv /\ [ResolverNext]_resolverVars
      => [\A k \in DOMAIN Load(file) :
             /\ k \in DOMAIN Load(file')
             /\ Load(file')[k].saved >= Load(file)[k].saved]_resolverVars
  BY <1>1, NoEntryLostStep
<1> QED BY <1>2, ResolverIInvInit, ResolverIInvStep, PTL DEF ResolverSpec, NoEntryLost

-----------------------------------------------------------------------------
(* The plugin's locks: exclusion and the absence of circular waiting.        *)

\* The names a task owns while it acquires come before those it still lacks.
Upwards ==
    \A t \in Tasks : where[t] = "acquire" =>
        \A n \in owned[t], k \in Missing(t) : n < k

Within == \A t \in Tasks : owned[t] \subseteq want[t]

\* A task that is idle owns nothing.
Clean == \A t \in Tasks : where[t] = "idle" => owned[t] = {}

LockIInv == TypeOK /\ OneOwner /\ Upwards /\ Within /\ Clean

\* At first every semaphore is free.
LEMMA LockIInvInit == LockInit => LockIInv
<1> SUFFICES ASSUME LockInit PROVE LockIInv
  OBVIOUS
<1>1. TypeOK
  BY DEF LockInit, TypeOK, LockLabels
<1>2. OneOwner /\ Upwards /\ Within /\ Clean
  BY DEF LockInit, OneOwner, Upwards, Within, Clean
<1> QED BY <1>1, <1>2 DEF LockIInv

\* AcquireAsync starts with nothing.
LEMMA AcquireStep ==
    ASSUME NEW t \in Tasks, NEW names \in SUBSET Names
    PROVE  LockIInv /\ Acquire(t, names) => LockIInv'
<1> SUFFICES ASSUME LockIInv, Acquire(t, names) PROVE LockIInv'
  OBVIOUS
<1> USE DEF Acquire
<1>1. TypeOK'
  BY DEF LockIInv, TypeOK, LockLabels
<1>2. OneOwner'
  BY DEF LockIInv, TypeOK, OneOwner
<1>3. Upwards' /\ Within' /\ Clean'
  BY DEF LockIInv, TypeOK, Clean, Upwards, Within, Missing
<1> QED BY <1>1, <1>2, <1>3 DEF LockIInv

\* A semaphore that is free goes to one task, as the least name it lacks.
LEMMA TakeStep == ASSUME NEW t \in Tasks PROVE LockIInv /\ Take(t) => LockIInv'
<1> SUFFICES ASSUME LockIInv, Take(t) PROVE LockIInv'
  OBVIOUS
<1>1. PICK n \in NextOf(t) :
         /\ count[n] = 1
         /\ count' = [count EXCEPT ![n] = 0]
         /\ owned' = [owned EXCEPT ![t] = @ \union {n}]
  BY DEF Take
<1>2. /\ where[t] = "acquire" /\ UNCHANGED <<where, want>>
      /\ n \in Names /\ n \in want[t] /\ n \notin owned[t]
  BY DEF Take, NextOf, Missing, LockIInv, TypeOK
<1>3. \A u \in Tasks : n \notin owned[u]
  BY <1>1, <1>2 DEF LockIInv, OneOwner
<1>4. TypeOK'
  BY <1>1, <1>2 DEF LockIInv, TypeOK
<1>5. OneOwner'
  <2>1. \A u, v \in Tasks : u # v => owned'[u] \intersect owned'[v] = {}
    BY <1>1, <1>3 DEF LockIInv, TypeOK, OneOwner
  <2>2. ASSUME NEW k \in Names
        PROVE  count'[k] = 1 <=> \A u \in Tasks : k \notin owned'[u]
    BY <1>1, <1>2 DEF LockIInv, TypeOK, OneOwner
  <2>3. \A u \in Tasks : where'[u] \in {"held", "delay"} => want'[u] \subseteq owned'[u]
    BY <1>1, <1>2 DEF LockIInv, TypeOK, OneOwner
  <2> QED BY <2>1, <2>2, <2>3 DEF OneOwner
<1>6. Upwards'
  <2> SUFFICES ASSUME NEW u \in Tasks, where'[u] = "acquire",
                      NEW m \in owned'[u], NEW k \in Missing(u)'
               PROVE  m < k
    BY DEF Upwards
  <2>1. CASE u # t
    BY <1>1, <1>2, <2>1 DEF LockIInv, TypeOK, Upwards, Missing
  <2>2. CASE u = t
    <3>1. k \in Missing(t) /\ k # n /\ (m = n \/ m \in owned[t])
      BY <1>1, <1>2, <2>2 DEF LockIInv, TypeOK, Missing
    <3>2. k \in Nat /\ n \in Nat
      BY <1>2, <3>1, NamesAssumption DEF LockIInv, TypeOK, Missing
    <3>3. n <= k
      BY <3>1 DEF NextOf
    <3> QED BY <1>2, <3>1, <3>2, <3>3 DEF LockIInv, Upwards
  <2> QED BY <2>1, <2>2
<1>7. Within' /\ Clean'
  BY <1>1, <1>2 DEF LockIInv, TypeOK, Within, Clean
<1> QED BY <1>4, <1>5, <1>6, <1>7 DEF LockIInv

\* A task that only moves on keeps what it owns.
LEMMA MoveStep ==
    ASSUME NEW t \in Tasks
    PROVE  LockIInv /\ (Acquired(t) \/ Cancel(t) \/ Dispose(t) \/ DelayOver(t)
                       \/ Released(t)) => LockIInv'
<1> SUFFICES ASSUME LockIInv, \/ Acquired(t) \/ Cancel(t) \/ Dispose(t)
                          \/ DelayOver(t) \/ Released(t)
             PROVE  LockIInv'
  OBVIOUS
<1>1. /\ UNCHANGED <<want, owned, count>>
      /\ \E next \in LockLabels \ {"idle", "acquire"} :
            /\ where' = [where EXCEPT ![t] = next]
            /\ next = "held" => Missing(t) = {}
            /\ next = "delay" => where[t] = "held"
  BY DEF Acquired, Cancel, Dispose, DelayOver, Released, LockLabels
<1>2. PICK next \in LockLabels \ {"idle", "acquire"} :
            /\ where' = [where EXCEPT ![t] = next]
            /\ next = "held" => Missing(t) = {}
            /\ next = "delay" => where[t] = "held"
  BY <1>1
<1>3. TypeOK'
  BY <1>1, <1>2 DEF LockIInv, TypeOK
<1>4. OneOwner'
  BY <1>1, <1>2 DEF LockIInv, TypeOK, OneOwner, Missing
<1>5. Upwards' /\ Within' /\ Clean'
  BY <1>1, <1>2 DEF LockIInv, TypeOK, Upwards, Within, Clean, Missing
<1> QED BY <1>3, <1>4, <1>5 DEF LockIInv

\* A release frees the semaphore of a name nobody else owns.
LEMMA ReleaseStep == ASSUME NEW t \in Tasks PROVE LockIInv /\ Release(t) => LockIInv'
<1> SUFFICES ASSUME LockIInv, Release(t) PROVE LockIInv'
  OBVIOUS
<1>1. PICK n \in owned[t] :
         /\ count' = [count EXCEPT ![n] = @ + 1]
         /\ owned' = [owned EXCEPT ![t] = @ \ {n}]
  BY DEF Release
<1>2. /\ where[t] \in {"release", "abort"} /\ UNCHANGED <<where, want>>
      /\ n \in Names
  BY DEF Release, LockIInv, TypeOK
<1>3. count[n] = 0
  BY <1>2 DEF LockIInv, TypeOK, OneOwner
<1>4. TypeOK'
  BY <1>1, <1>2, <1>3 DEF LockIInv, TypeOK
<1>5. OneOwner'
  <2>1. \A u, v \in Tasks : u # v => owned'[u] \intersect owned'[v] = {}
    BY <1>1 DEF LockIInv, TypeOK, OneOwner
  <2>2. ASSUME NEW k \in Names
        PROVE  count'[k] = 1 <=> \A u \in Tasks : k \notin owned'[u]
    <3>1. CASE k = n
      BY <1>1, <1>2, <1>3, <3>1 DEF LockIInv, TypeOK, OneOwner
    <3>2. CASE k # n
      BY <1>1, <1>2, <3>2 DEF LockIInv, TypeOK, OneOwner
    <3> QED BY <3>1, <3>2
  <2>3. \A u \in Tasks : where'[u] \in {"held", "delay"} => want'[u] \subseteq owned'[u]
    BY <1>1, <1>2 DEF LockIInv, TypeOK, OneOwner
  <2> QED BY <2>1, <2>2, <2>3 DEF OneOwner
<1>6. Upwards' /\ Within' /\ Clean'
  BY <1>1, <1>2 DEF LockIInv, TypeOK, Upwards, Within, Clean, Missing
<1> QED BY <1>4, <1>5, <1>6 DEF LockIInv

\* The invariant is inductive.
LEMMA LockIInvStep == LockIInv /\ [LockNext]_lockVars => LockIInv'
<1> SUFFICES ASSUME LockIInv, [LockNext]_lockVars PROVE LockIInv'
  OBVIOUS
<1>1. CASE LockNext
  BY <1>1, AcquireStep, TakeStep, MoveStep, ReleaseStep DEF LockNext, LockStep
<1>2. CASE UNCHANGED lockVars
  BY <1>2 DEF LockIInv, TypeOK, OneOwner, Upwards, Within, Clean, Missing, lockVars
<1> QED BY <1>1, <1>2

\* Hence it holds in every reachable state.
LEMMA LockIInvCorrect == LockSpec => []LockIInv
BY LockIInvInit, LockIInvStep, PTL DEF LockSpec

-----------------------------------------------------------------------------
\* Two tasks never own the semaphore of one name, whatever is cancelled.
THEOREM Exclusion == LockSpec => []OneOwner
<1>1. LockIInv => OneOwner
  BY DEF LockIInv
<1> QED BY <1>1, LockIInvCorrect, PTL

-----------------------------------------------------------------------------
HasMaximum(S) == \E m \in S : \A k \in S : k <= m

Less == {ss \in Nat \X Nat : ss[1] < ss[2]}

\* A finite set of numbers has a greatest one: there is no least cardinality
\* of a set that has none.
LEMMA FiniteHasMaximum ==
    ASSUME NEW S \in SUBSET Nat, IsFiniteSet(S), S # {} PROVE HasMaximum(S)
<1> DEFINE Without == {U \in SUBSET Nat : IsFiniteSet(U) /\ U # {} /\ ~ HasMaximum(U)}
           Sizes == {c \in Nat : \E U \in Without : Cardinality(U) = c}
<1>1. SUFFICES ASSUME Sizes # {} PROVE FALSE
  BY FS_CardinalityType
<1>2. IsWellFoundedOn(Less, Nat)
  BY NatLessThanWellFounded DEF OpToRel, Less
<1>3. PICK c \in Sizes : \A d \in Sizes : ~ (<<d, c>> \in Less)
  <2>1. Sizes \subseteq Nat
    OBVIOUS
  <2> HIDE DEF Sizes
  <2> QED BY <1>1, <1>2, <2>1, WFMin
<1>4. PICK U \in Without : Cardinality(U) = c
  OBVIOUS
<1>5. PICK x : x \in U
  BY <1>4
<1> DEFINE V == U \ {x}
<1>6. IsFiniteSet(V) /\ Cardinality(V) = c - 1 /\ Cardinality(V) \in Nat
  BY <1>4, <1>5, FS_RemoveElement, FS_CardinalityType
<1>7. CASE V = {}
  BY <1>4, <1>5, <1>7 DEF HasMaximum
<1>8. CASE HasMaximum(V)
  <2>1. PICK m \in V : \A k \in V : k <= m
    BY <1>8 DEF HasMaximum
  <2>2. \A k \in U : k <= m \/ k = x
    BY <2>1
  <2>3. m \in U /\ x \in U /\ U \subseteq Nat
    BY <1>4, <1>5, <2>1
  <2>4. CASE x <= m
    BY <1>4, <2>2, <2>3, <2>4 DEF HasMaximum
  <2>5. CASE m <= x
    BY <1>4, <2>2, <2>3, <2>5 DEF HasMaximum
  <2> QED BY <2>3, <2>4, <2>5
<1>9. CASE V # {} /\ ~ HasMaximum(V)
  <2>1. c - 1 \in Sizes
    BY <1>4, <1>6, <1>9
  <2>2. c - 1 < c /\ c \in Nat
    BY <1>4
  <2> QED BY <1>3, <1>6, <2>1, <2>2 DEF Less
<1> QED BY <1>7, <1>8, <1>9

\* Of the tasks in a circle, look at one that waits for the greatest name: it
\* is owned by another task of the circle, which waits for a name after it.
LEMMA NoCircleCorrect == LockIInv => NoCircle
<1> SUFFICES ASSUME LockIInv, NEW waiting \in SUBSET {t \in Tasks : where[t] = "acquire"},
                    waiting # {},
                    \A t \in waiting : \E n \in NextOf(t) : \E u \in waiting \ {t} : n \in owned[u]
             PROVE  FALSE
  BY DEF NoCircle
<1> DEFINE wanted == {n \in Names : \E t \in waiting : n \in NextOf(t)}
<1>1. \A t \in waiting : NextOf(t) \subseteq Names
  BY DEF NextOf, Missing, LockIInv, TypeOK
<1>2. wanted \in SUBSET Nat /\ wanted # {}
  BY <1>1, NamesAssumption
<1>3. IsFiniteSet(wanted)
  BY FS_Subset, NamesAssumption
<1>4. PICK m \in wanted : \A k \in wanted : k <= m
  <2> HIDE DEF wanted
  <2> QED BY <1>2, <1>3, FiniteHasMaximum DEF HasMaximum
<1>5. PICK t \in waiting : m \in NextOf(t)
  BY <1>4
<1>6. \A n \in NextOf(t) : n = m
  BY <1>1, <1>5, NamesAssumption DEF NextOf
<1>7. PICK u \in waiting : m \in owned[u]
  BY <1>6
<1>8. PICK k \in NextOf(u) : TRUE
  OBVIOUS
<1>9. m < k
  BY <1>7, <1>8 DEF NextOf, LockIInv, Upwards
<1>10. k \in wanted
  BY <1>1, <1>8
<1> QED BY <1>2, <1>4, <1>9, <1>10

\* Tasks with names in common never wait for each other in a circle, for any
\* number of tasks and names.
THEOREM NoCircularWaiting == LockSpec => []NoCircle
BY NoCircleCorrect, LockIInvCorrect, PTL
=============================================================================
