------------------------- MODULE StorageTransaction -------------------------
(***************************************************************************)
(* Transactions on one key of the storage (src/bot/storage/storage.py):    *)
(* read, change and write back the data of a bot, a chat or a user under   *)
(* a Redis lock whose lease ends after 3 seconds whether or not its holder *)
(* is done.  The write is not fenced by the lock.                          *)
(***************************************************************************)
EXTENDS FiniteSets

CONSTANTS
    Txs,         \* transactions that are run on the key, each once
    NoTx         \* nobody

ASSUME NoTxAssumption == NoTx \notin Txs

VARIABLES
    data,        \* Redis: the transactions whose change the stored data contains;
                 \* {} also when the key is missing or does not decode
    lock,        \* Redis: whose token the lock key holds
    pc,          \* tx -> the await it is suspended in
    copy,        \* tx -> data it read, and changes
    failing,     \* tx -> an exception is propagating through the async with
    outcome,     \* tx -> how it ended
    expired      \* history: the transactions whose lease ended before their write

vars == <<data, lock, pc, copy, failing, outcome, expired>>

TypeOK ==
    /\ data \subseteq Txs
    /\ lock \in Txs \cup {NoTx}
    /\ pc \in [Txs -> {"idle", "acquire", "read", "body", "write", "release", "done"}]
    /\ copy \in [Txs -> SUBSET Txs]
    /\ failing \in [Txs -> BOOLEAN]
    /\ outcome \in [Txs -> {"none", "ok", "raised"}]
    /\ expired \subseteq Txs

Init ==
    /\ data = {}
    /\ lock = NoTx
    /\ pc = [t \in Txs |-> "idle"]
    /\ copy = [t \in Txs |-> {}]
    /\ failing = [t \in Txs |-> FALSE]
    /\ outcome = [t \in Txs |-> "none"]
    /\ expired = {}

Inside(t) == pc[t] \in {"read", "body", "write"}
Goto(t, place) == pc' = [pc EXCEPT ![t] = place]
End(t, result) == Goto(t, "done") /\ outcome' = [outcome EXCEPT ![t] = result]

Begin(t) ==
    /\ pc[t] = "idle"
    /\ Goto(t, "acquire")
    /\ UNCHANGED <<data, lock, copy, failing, outcome, expired>>

\* Mutant: SET without NX.
SeizeLock(t) ==
    /\ pc[t] = "acquire"
    /\ lock' = t
    /\ Goto(t, "read")
    /\ UNCHANGED <<data, copy, failing, outcome, expired>>

\* SET NX with the lease; while another token is there the coroutine polls.
Acquire(t) ==
    /\ pc[t] = "acquire" /\ lock = NoTx
    /\ lock' = t
    /\ Goto(t, "read")
    /\ UNCHANGED <<data, copy, failing, outcome, expired>>

Read(t) ==
    /\ pc[t] = "read"
    /\ copy' = [copy EXCEPT ![t] = data]
    /\ Goto(t, "body")
    /\ UNCHANGED <<data, lock, failing, outcome, expired>>

\* The caller's body, which may itself await HTTP calls, changes the copy.
Body(t) ==
    /\ pc[t] = "body"
    /\ copy' = [copy EXCEPT ![t] = @ \cup {t}]
    /\ Goto(t, "write")
    /\ UNCHANGED <<data, lock, failing, outcome, expired>>

Write(t) ==
    /\ pc[t] = "write"
    /\ data' = copy[t]
    /\ Goto(t, "release")
    /\ UNCHANGED <<lock, copy, failing, outcome, expired>>

\* Mutant: the write-back stands in a finally clause.
FailWriting(t) ==
    /\ Inside(t)
    /\ data' = copy[t]
    /\ failing' = [failing EXCEPT ![t] = TRUE]
    /\ Goto(t, "release")
    /\ UNCHANGED <<lock, copy, outcome, expired>>

\* The GET, the body or the SET raises, or the task is cancelled in one of them
\* (a failed SET may have been carried out): nothing more is written, the lock is
\* released.
Fail(t) ==
    /\ Inside(t)
    /\ data' \in {data} \cup (IF pc[t] = "write" THEN {copy[t]} ELSE {})
    /\ failing' = [failing EXCEPT ![t] = TRUE]
    /\ Goto(t, "release")
    /\ UNCHANGED <<lock, copy, outcome, expired>>

\* The lock key is deleted only if it still holds the token of t, else
\* LockNotOwnedError is raised: after the write.
Release(t) ==
    /\ pc[t] = "release"
    /\ lock' = IF lock = t THEN NoTx ELSE lock
    /\ End(t, IF lock = t /\ ~failing[t] THEN "ok" ELSE "raised")
    /\ UNCHANGED <<data, copy, failing, expired>>

\* The coroutine ends where it stands: the process dies, the task is cancelled while
\* it acquires or releases, or Redis fails it there.  A command on its way may have
\* been carried out, and the token of a lock just taken is forgotten.
Abandon(t) ==
    /\ pc[t] \notin {"idle", "done"}
    /\ End(t, "raised")
    /\ data' \in {data} \cup (IF pc[t] = "write" THEN {copy[t]} ELSE {})
    /\ lock' \in {lock} \cup (IF pc[t] = "acquire" /\ lock = NoTx THEN {t} ELSE {})
                        \cup (IF pc[t] = "release" /\ lock = t THEN {NoTx} ELSE {})
    /\ UNCHANGED <<copy, failing, expired>>

\* Mutant: a lock without timeout.
NeverExpire == FALSE /\ UNCHANGED vars

\* The lease of the current lock ends.
Expire ==
    /\ lock # NoTx
    /\ lock' = NoTx
    /\ expired' = expired \cup {t \in {lock} : Inside(t)}
    /\ UNCHANGED <<data, pc, copy, failing, outcome>>

Step(t) == Acquire(t) \/ Read(t) \/ Body(t) \/ Write(t) \/ Fail(t) \/ Release(t)
Next == Expire \/ \E t \in Txs : Begin(t) \/ Step(t) \/ Abandon(t)

Spec == Init /\ [][Next]_vars

\* Redis answers or fails, bodies end, and a lease ends by itself.  A waiter is owed
\* the lock only when it stays free: it polls.
FairSpec == Spec /\ WF_vars(Expire) /\ \A t \in Txs : WF_vars(Step(t))

-----------------------------------------------------------------------------

\* No transaction that outlived its lease has come past its write.
Clean == \A u \in expired : pc[u] \notin {"release", "done"}

\* A change that a transaction reported as made is lost only when some transaction
\* outlived its lease and wrote back data it read before (Storage.transaction does
\* not fence its SET).
LostOnlyByStale == \A t \in Txs : outcome[t] = "ok" /\ t \notin data => ~Clean

\* Until a transaction that outlived its lease has written, what another one read
\* under the lock is still there when it writes it back: no change is overwritten.
FreshCopy == Clean => \A t \in Txs \ expired :
    /\ pc[t] = "body" => copy[t] = data
    /\ pc[t] = "write" => copy[t] = data \cup {t}

\* A transaction that ends without an exception held the lock from its read to its
\* write, although it never asks for it in between: release tells it otherwise.
OkHeldLock == \A t \in Txs : outcome[t] = "ok" => t \notin expired

\* Every transaction ends, also when a holder of the lock died or was cancelled
\* before it knew that it had it.
EveryTxEnds == \A t \in Txs : pc[t] # "idle" ~> pc[t] = "done"

\* Until a transaction that outlived its lease has written, transactions are atomic for
\* their callers.
Atomic == INSTANCE AtomicStore WITH void <- ~Clean
IsAtomic == Atomic!Spec
=============================================================================
