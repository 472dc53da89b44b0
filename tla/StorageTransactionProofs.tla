---------------------- MODULE StorageTransactionProofs ----------------------
(***************************************************************************)
(* For any number of transactions: what the lock of Storage.transaction    *)
(* guarantees although leases end early, and that a transaction is atomic  *)
(* until one that outlived its lease has written.                          *)
(***************************************************************************)
EXTENDS StorageTransaction, TLAPS

(* The inductive invariant.                                                *)

\* A transaction in its critical section holds the lock unless its lease ended; a
\* token is never set again once it is gone.
Held == \A t \in Txs :
    /\ Inside(t) /\ t \notin expired => lock = t
    /\ lock = t => pc[t] \notin {"idle", "acquire"} /\ t \notin expired
    /\ t \in expired => pc[t] \notin {"idle", "acquire"}

\* Its change is in the data only after its write, and then for good while Clean.
Applied == \A t \in Txs :
    /\ outcome[t] # "none" => pc[t] = "done"
    /\ (pc[t] = "release" /\ ~failing[t]) \/ outcome[t] = "ok" => t \in data \/ ~Clean
    /\ t \in data /\ Clean => pc[t] \in {"release", "done"}
    /\ pc[t] # "release" => (failing[t] => pc[t] = "done")

IInv == TypeOK /\ Held /\ Applied /\ FreshCopy /\ OkHeldLock

LEMMA InvInit == Init => IInv
BY NoTxAssumption DEF Init, IInv, TypeOK, Held, Applied, FreshCopy, OkHeldLock, Inside

\* Every step keeps the types.
LEMMA TypeStep == TypeOK /\ [Next]_vars => TypeOK'
<1> SUFFICES ASSUME TypeOK, [Next]_vars PROVE TypeOK'
  OBVIOUS
<1>1. ASSUME NEW t \in Txs, Begin(t) PROVE TypeOK'
  BY <1>1 DEF Begin, Goto, TypeOK
<1>2. ASSUME NEW t \in Txs, Acquire(t) PROVE TypeOK'
  BY <1>2 DEF Acquire, Goto, TypeOK
<1>3. ASSUME NEW t \in Txs, Read(t) \/ Body(t) \/ Write(t) PROVE TypeOK'
  BY <1>3 DEF Read, Body, Write, Goto, TypeOK
<1>4. ASSUME NEW t \in Txs, Fail(t) PROVE TypeOK'
  BY <1>4 DEF Fail, Goto, TypeOK
<1>5. ASSUME NEW t \in Txs, Release(t) PROVE TypeOK'
  BY <1>5 DEF Release, End, Goto, TypeOK
<1>6. ASSUME NEW t \in Txs, Abandon(t) PROVE TypeOK'
  BY <1>6 DEF Abandon, End, Goto, TypeOK
<1>7. CASE Expire
  BY <1>7 DEF Expire, TypeOK
<1>8. CASE UNCHANGED vars
  BY <1>8 DEF vars, TypeOK
<1> QED  BY <1>1, <1>2, <1>3, <1>4, <1>5, <1>6, <1>7, <1>8 DEF Next, Step

\* Every variable of the model keeps its type.
THEOREM TypeCorrect == Spec => []TypeOK
<1>1. Init => TypeOK
  BY DEF Init, TypeOK
<1> QED  BY <1>1, TypeStep, PTL DEF Spec

-----------------------------------------------------------------------------
(* The invariant is kept, one lemma per action.                            *)

LEMMA BeginKeeps ==
    ASSUME IInv, TypeOK', NEW t \in Txs, Begin(t)
    PROVE  IInv'
<1>1. UNCHANGED <<data, lock, copy, failing, outcome, expired>>
  BY DEF Begin
<1>2. pc[t] = "idle" /\ pc' = [pc EXCEPT ![t] = "acquire"]
  BY DEF Begin, Goto
<1>3. Clean' = Clean
  BY <1>1, <1>2 DEF Clean, IInv, TypeOK
<1> QED
  BY <1>1, <1>2, <1>3 DEF IInv, TypeOK, Held, Applied, FreshCopy, OkHeldLock, Inside

LEMMA AcquireKeeps ==
    ASSUME IInv, TypeOK', NEW t \in Txs, Acquire(t)
    PROVE  IInv'
<1>1. /\ pc[t] = "acquire" /\ lock = NoTx /\ lock' = t
      /\ pc' = [pc EXCEPT ![t] = "read"] /\ t \notin expired
      /\ UNCHANGED <<data, copy, failing, outcome, expired>>
  BY DEF Acquire, Goto, IInv, Held
<1>2. Clean' = Clean
  BY <1>1 DEF Clean, IInv, TypeOK
<1>3. Held'
  BY <1>1, NoTxAssumption DEF IInv, TypeOK, Held, Inside
<1>4. Applied' /\ FreshCopy' /\ OkHeldLock'
  BY <1>1, <1>2 DEF IInv, TypeOK, Applied, FreshCopy, OkHeldLock
<1> QED  BY <1>3, <1>4 DEF IInv

LEMMA ReadBodyKeeps ==
    ASSUME IInv, TypeOK', NEW t \in Txs, Read(t) \/ Body(t)
    PROVE  IInv'
<1>1. UNCHANGED <<data, lock, failing, outcome, expired>>
  BY DEF Read, Body
<1>2. \/ pc[t] = "read" /\ pc' = [pc EXCEPT ![t] = "body"] /\ copy' = [copy EXCEPT ![t] = data]
      \/ pc[t] = "body" /\ pc' = [pc EXCEPT ![t] = "write"] /\ copy' = [copy EXCEPT ![t] = @ \cup {t}]
  BY DEF Read, Body, Goto
<1>3. Clean' = Clean
  BY <1>1, <1>2 DEF Clean, IInv, TypeOK
<1>4. Held' /\ Applied' /\ OkHeldLock'
  BY <1>1, <1>2, <1>3 DEF IInv, TypeOK, Held, Applied, OkHeldLock, Inside
<1>5. FreshCopy'
  BY <1>1, <1>2, <1>3 DEF IInv, TypeOK, FreshCopy
<1> QED  BY <1>4, <1>5 DEF IInv

\* Whoever is inside with its lease while t is, is t.
LEMMA Exclusive ==
    ASSUME IInv, NEW t \in Txs, NEW u \in Txs, t \notin expired, u \notin expired,
           Inside(t), Inside(u)
    PROVE  t = u
BY DEF IInv, Held

LEMMA WriteKeeps ==
    ASSUME IInv, TypeOK', NEW t \in Txs, Write(t)
    PROVE  IInv'
<1>1. /\ pc[t] = "write" /\ data' = copy[t] /\ pc' = [pc EXCEPT ![t] = "release"]
      /\ UNCHANGED <<lock, copy, failing, outcome, expired>>
  BY DEF Write, Goto
<1>2. Held' /\ OkHeldLock'
  BY <1>1 DEF IInv, TypeOK, Held, OkHeldLock, Inside
<1>3. CASE t \in expired
  <2>1. ~Clean'
    BY <1>1, <1>3 DEF Clean, IInv, TypeOK
  <2>2. FreshCopy'
    BY <2>1 DEF FreshCopy
  <2>3. Applied'
    BY <1>1, <1>3, <2>1 DEF IInv, TypeOK, Applied
  <2> QED  BY <1>2, <2>2, <2>3 DEF IInv
<1>4. CASE t \notin expired
  <2>1. Clean' => Clean
    BY <1>1, <1>4 DEF Clean, IInv, TypeOK
  <2>2. Clean => data' = data \cup {t}
    BY <1>1, <1>4 DEF IInv, FreshCopy
  <2>3. FreshCopy'
    <3>1. ASSUME NEW u \in Txs \ expired, u # t PROVE pc[u] \notin {"body", "write"}
      BY <1>1, <1>4, <3>1, Exclusive DEF Inside
    <3> QED  BY <1>1, <1>4, <3>1 DEF IInv, TypeOK, FreshCopy
  <2>4. Applied'
    BY <1>1, <1>4, <2>1, <2>2 DEF IInv, TypeOK, Applied
  <2> QED  BY <1>2, <2>3, <2>4 DEF IInv
<1> QED  BY <1>3, <1>4

LEMMA FailKeeps ==
    ASSUME IInv, TypeOK', NEW t \in Txs, Fail(t)
    PROVE  IInv'
<1>1. /\ Inside(t) /\ pc' = [pc EXCEPT ![t] = "release"]
      /\ failing' = [failing EXCEPT ![t] = TRUE]
      /\ UNCHANGED <<lock, copy, outcome, expired>>
      /\ data' = data \/ (pc[t] = "write" /\ data' = copy[t])
  BY DEF Fail, Goto
<1>2. Held' /\ OkHeldLock'
  BY <1>1 DEF IInv, TypeOK, Held, OkHeldLock, Inside
<1>3. CASE t \in expired
  <2>1. ~Clean'
    BY <1>1, <1>3 DEF Clean, IInv, TypeOK
  <2>2. FreshCopy'
    BY <2>1 DEF FreshCopy
  <2>3. Applied'
    BY <1>1, <1>3, <2>1 DEF IInv, TypeOK, Applied, Inside
  <2> QED  BY <1>2, <2>2, <2>3 DEF IInv
<1>4. CASE t \notin expired
  <2>1. Clean' => Clean
    BY <1>1, <1>4 DEF Clean, IInv, TypeOK
  <2>2. Clean => data' \in {data, data \cup {t}}
    BY <1>1, <1>4 DEF IInv, FreshCopy
  <2>3. FreshCopy'
    <3>1. ASSUME NEW u \in Txs \ expired, u # t PROVE pc[u] \notin {"body", "write"}
      BY <1>1, <1>4, <3>1, Exclusive DEF Inside
    <3> QED  BY <1>1, <1>4, <3>1 DEF IInv, TypeOK, FreshCopy
  <2>4. Applied'
    <3>1. outcome[t] = "none"
      BY <1>1 DEF IInv, TypeOK, Applied, Inside
    <3> QED  BY <1>1, <1>4, <2>1, <2>2, <3>1 DEF IInv, TypeOK, Applied
  <2> QED  BY <1>2, <2>3, <2>4 DEF IInv
<1> QED  BY <1>3, <1>4

LEMMA ReleaseKeeps ==
    ASSUME IInv, TypeOK', NEW t \in Txs, Release(t)
    PROVE  IInv'
<1>1. /\ pc[t] = "release" /\ pc' = [pc EXCEPT ![t] = "done"]
      /\ lock' \in {NoTx, lock} /\ (lock = t => lock' = NoTx)
      /\ UNCHANGED <<data, copy, failing, expired>>
      /\ \/ outcome' = [outcome EXCEPT ![t] = "ok"] /\ lock = t /\ ~failing[t]
         \/ outcome' = [outcome EXCEPT ![t] = "raised"]
  BY DEF Release, End, Goto
<1>2. Clean' = Clean
  BY <1>1 DEF Clean, IInv, TypeOK
<1>3. Held'
  <2>1. \A u \in Txs : Inside(u)' => u # t /\ Inside(u)
    BY <1>1 DEF IInv, TypeOK, Inside
  <2>2. lock # t => lock' = lock
    BY DEF Release
  <2> QED  BY <1>1, <2>1, <2>2, NoTxAssumption DEF IInv, TypeOK, Held, Inside
<1>4. Applied'
  BY <1>1, <1>2 DEF IInv, TypeOK, Applied
<1>5. FreshCopy'
  BY <1>1, <1>2 DEF IInv, TypeOK, FreshCopy
<1>6. OkHeldLock'
  BY <1>1 DEF IInv, TypeOK, OkHeldLock, Held
<1> QED  BY <1>3, <1>4, <1>5, <1>6 DEF IInv

LEMMA AbandonKeeps ==
    ASSUME IInv, TypeOK', NEW t \in Txs, Abandon(t)
    PROVE  IInv'
<1>1. /\ pc[t] \notin {"idle", "done"} /\ pc' = [pc EXCEPT ![t] = "done"]
      /\ outcome' = [outcome EXCEPT ![t] = "raised"]
      /\ data' = data \/ (pc[t] = "write" /\ data' = copy[t])
      /\ \/ lock' = lock
         \/ pc[t] = "acquire" /\ lock = NoTx /\ lock' = t
         \/ pc[t] = "release" /\ lock = t /\ lock' = NoTx
      /\ UNCHANGED <<copy, failing, expired>>
  BY DEF Abandon, End, Goto
<1>2. Held'
  <2>1. \A u \in Txs : Inside(u)' => u # t /\ Inside(u)
    BY <1>1 DEF IInv, TypeOK, Inside
  <2> QED  BY <1>1, <2>1, NoTxAssumption DEF IInv, TypeOK, Held, Inside
<1>3. OkHeldLock'
  BY <1>1 DEF IInv, TypeOK, OkHeldLock
<1>4. CASE pc[t] = "write" /\ t \in expired
  <2>1. ~Clean'
    BY <1>1, <1>4 DEF Clean, IInv, TypeOK
  <2>2. FreshCopy' /\ Applied'
    BY <1>1, <1>4, <2>1 DEF IInv, TypeOK, FreshCopy, Applied
  <2> QED  BY <1>2, <1>3, <2>2 DEF IInv
<1>5. CASE pc[t] # "write" \/ t \notin expired
  <2>1. Clean' => Clean
    BY <1>1 DEF Clean, IInv, TypeOK
  <2>2. Clean => data' \in {data, data \cup {t}}
    BY <1>1, <1>5 DEF IInv, FreshCopy
  <2>3. FreshCopy'
    <3>1. data' = data \/ \A u \in Txs \ expired : u # t => pc[u] \notin {"body", "write"}
      BY <1>1, <1>5, Exclusive DEF Inside
    <3> QED  BY <1>1, <2>1, <3>1 DEF IInv, TypeOK, FreshCopy
  <2>4. Applied'
    BY <1>1, <2>1, <2>2 DEF IInv, TypeOK, Applied
  <2> QED  BY <1>2, <1>3, <2>3, <2>4 DEF IInv
<1> QED  BY <1>4, <1>5

LEMMA ExpireKeeps ==
    ASSUME IInv, TypeOK', Expire
    PROVE  IInv'
<1>1. /\ lock \in Txs /\ lock' = NoTx
      /\ expired' = expired \cup {t \in {lock} : Inside(t)}
      /\ UNCHANGED <<data, pc, copy, failing, outcome>>
  BY DEF Expire, IInv, TypeOK
<1>2. Clean' = Clean
  BY <1>1 DEF Clean, Inside
<1>3. Held'
  BY <1>1, NoTxAssumption DEF IInv, TypeOK, Held, Inside
<1>4. Applied'
  BY <1>1, <1>2 DEF IInv, TypeOK, Applied
<1>5. FreshCopy'
  BY <1>1, <1>2 DEF IInv, TypeOK, FreshCopy
<1>6. OkHeldLock'
  BY <1>1 DEF IInv, TypeOK, OkHeldLock, Applied, Inside
<1> QED  BY <1>3, <1>4, <1>5, <1>6 DEF IInv

LEMMA InvStep == IInv /\ [Next]_vars => IInv'
<1> SUFFICES ASSUME IInv, [Next]_vars PROVE IInv'
  OBVIOUS
<1>1. TypeOK'
  BY TypeStep DEF IInv
<1>2. CASE UNCHANGED vars
  BY <1>2 DEF vars, IInv, TypeOK, Held, Applied, FreshCopy, OkHeldLock, Inside, Clean
<1> QED
  BY <1>1, <1>2, BeginKeeps, AcquireKeeps, ReadBodyKeeps, WriteKeeps, FailKeeps, ReleaseKeeps,
     AbandonKeeps, ExpireKeeps DEF Next, Step

\* The inductive invariant holds in every reachable state.
THEOREM InvCorrect == Spec => []IInv
BY InvInit, InvStep, PTL DEF Spec

\* Whoever is told that its transaction succeeded held the lock from read to write.
THEOREM OkHeldLockCorrect == Spec => []OkHeldLock
<1>1. IInv => OkHeldLock
  BY DEF IInv
<1> QED  BY <1>1, InvCorrect, PTL

\* Without a write of a transaction that outlived its lease nobody overwrites a
\* change of another.
THEOREM FreshCopyCorrect == Spec => []FreshCopy
<1>1. IInv => FreshCopy
  BY DEF IInv
<1> QED  BY <1>1, InvCorrect, PTL

\* A change reported as made is lost only to a transaction that outlived its lease.
THEOREM LostOnlyByStaleCorrect == Spec => []LostOnlyByStale
<1>1. IInv => LostOnlyByStale
  BY DEF IInv, Applied, LostOnlyByStale
<1> QED  BY <1>1, InvCorrect, PTL

-----------------------------------------------------------------------------
(* Refinement: the write applies the change, unless the lease is over.      *)

\* What is lost stays lost.
LEMMA CleanBefore ==
    ASSUME IInv, [Next]_vars, Clean'
    PROVE  Clean
<1>1. expired \subseteq expired'
  BY DEF Next, Step, Begin, Acquire, Read, Body, Write, Fail, Release, Abandon, Expire, vars
<1>2. ASSUME NEW u \in Txs, pc[u] \in {"release", "done"} PROVE pc'[u] \in {"release", "done"}
  BY <1>2 DEF IInv, TypeOK, Inside, Goto, End,
     Next, Step, Begin, Acquire, Read, Body, Write, Fail, Release, Abandon, Expire, vars
<1> QED  BY <1>1, <1>2 DEF Clean, IInv, TypeOK

LEMMA StepRefines ==
    ASSUME IInv, [Next]_vars
    PROVE  [Atomic!Next]_(Atomic!vars)
<1>1. CASE ~Clean'
  BY <1>1 DEF Atomic!Next
<1>2. CASE Clean'
  <2>1. Clean
    BY <1>2, CleanBefore
  <2> SUFFICES UNCHANGED <<data, outcome>> \/ \E t \in Txs : Atomic!Apply(t) \/ Atomic!End(t)
    BY <1>2, <2>1 DEF Atomic!Next, Atomic!Kept, Atomic!vars
  <2>2. ASSUME NEW t \in Txs, pc[t] = "write", Write(t) \/ Fail(t) \/ Abandon(t)
        PROVE  t \notin data /\ outcome[t] = "none" /\ copy[t] = data \cup {t}
    <3>1. expired' = expired /\ pc'[t] \in {"release", "done"}
      BY <2>2 DEF Write, Fail, Abandon, Goto, End, IInv, TypeOK
    <3>2. t \notin expired
      BY <1>2, <3>1 DEF Clean
    <3> QED  BY <2>1, <2>2, <3>2 DEF IInv, TypeOK, Applied, FreshCopy
  <2>3. ASSUME NEW t \in Txs, Write(t) \/ Fail(t)
        PROVE  Atomic!Apply(t) \/ UNCHANGED <<data, outcome>>
    BY <2>2, <2>3 DEF Write, Fail, Atomic!Apply
  <2>4. ASSUME NEW t \in Txs, Release(t) PROVE Atomic!End(t)
    <3>1. outcome[t] = "none" /\ (~failing[t] => t \in data)
      BY <2>1, <2>4 DEF Release, IInv, TypeOK, Applied
    <3> QED  BY <2>4, <3>1 DEF Release, End, Atomic!End
  <2>5. ASSUME NEW t \in Txs, Abandon(t) PROVE Atomic!End(t)
    <3>1. outcome[t] = "none"
      BY <2>5 DEF Abandon, IInv, TypeOK, Applied
    <3> QED  BY <2>2, <2>5, <3>1 DEF Abandon, End, Atomic!End
  <2>6. ASSUME NEW t \in Txs, Begin(t) \/ Acquire(t) \/ Read(t) \/ Body(t)
        PROVE  UNCHANGED <<data, outcome>>
    BY <2>6 DEF Begin, Acquire, Read, Body
  <2>7. ASSUME Expire \/ UNCHANGED vars PROVE UNCHANGED <<data, outcome>>
    BY <2>7 DEF Expire, vars
  <2> QED  BY <2>3, <2>4, <2>5, <2>6, <2>7 DEF Next, Step
<1> QED  BY <1>1, <1>2

\* Until a transaction that outlived its lease has written, a transaction is atomic: the
\* change is made at one moment, at most once, and never undone by another.
THEOREM AtomicCorrect == Spec => IsAtomic
<1>1. Init => Atomic!Init
  BY DEF Init, Atomic!Init, Clean
<1>2. IInv /\ [Next]_vars => [Atomic!Next]_(Atomic!vars)
  BY StepRefines
<1> QED  BY <1>1, <1>2, InvCorrect, PTL DEF Spec, IsAtomic, Atomic!Spec
=============================================================================
