---------------------------- MODULE WaitTrigger ----------------------------
(***************************************************************************)
(* The updates of one user in one chat (Handler.handle_update in           *)
(* src/bot/handler.py) and the trigger that user is made to wait for       *)
(* (expected_trigger_id, set by src/bot/handlers/trigger.py).  It is read  *)
(* outside of the lock and cleared under it some calls later; and it lies  *)
(* under one key, and one lock, with the temporary variables of the user   *)
(* (src/bot/handlers/temporary_variable.py), whose transaction awaits      *)
(* calls of the service.                                                   *)
(* Each time a flow makes the user wait is numbered; the stored number     *)
(* stands for the id of the trigger.  Whether a text matches a trigger is  *)
(* left open.                                                              *)
(***************************************************************************)
EXTENDS Naturals, FiniteSets

CONSTANTS
    Updates,      \* updates of the user, each fed once
    MaxWaits,     \* bound: how often flows make the user wait
    MaxCrashes,   \* bound: crashes of the hub
    NoUpdate      \* no update

ASSUME NoUpdateAssumption == NoUpdate \notin Updates
ASSUME BoundsAssumption == MaxWaits \in Nat \ {0} /\ MaxCrashes \in Nat

VARIABLES
    expected,     \* storage: expected_trigger_id, as the number of the wait; 0 for None
    lock,         \* storage: the update whose transaction has the lock, NoUpdate if none
    made,         \* history: waits so far
    at,           \* update -> where handle_update stands
    fetch,        \* update -> where _get_wait_trigger_connections stands
    others,       \* update -> where the two other fetchers stand
    variable,     \* update -> its flow is inside the transaction of a temporary variable
    seen,         \* update -> expected_trigger_id as read
    copy,         \* update -> expected_trigger_id in the data that transaction read
    served,       \* history: waits whose connections a flow was started with
    consumed,     \* history: waits that were cleared from the storage
    overlapped,   \* history: the last update came before those before it were done with
    outlived,     \* history: a transaction outlived the lease of its lock
    crashes       \* history: crashes so far

storage == <<expected, lock>>
locals == <<at, fetch, others, variable, seen, copy>>
history == <<made, served, consumed, overlapped, outlived, crashes>>
vars == <<storage, locals, history>>

TypeOK ==
    /\ expected \in 0 .. MaxWaits /\ made \in 0 .. MaxWaits
    /\ lock \in Updates \cup {NoUpdate}
    /\ at \in [Updates -> {"new", "gather", "flow", "ended", "raised"}]
    /\ fetch \in [Updates -> {"read", "ask", "compare", "clear", "matched", "none", "raised"}]
    /\ others \in [Updates -> {"asking", "answered", "raised"}]
    /\ variable \in [Updates -> BOOLEAN]
    /\ seen \in [Updates -> 0 .. MaxWaits]
    /\ copy \in [Updates -> 0 .. MaxWaits]
    /\ served \subseteq 1 .. MaxWaits /\ consumed \subseteq 1 .. MaxWaits
    /\ overlapped \in BOOLEAN /\ outlived \in BOOLEAN /\ crashes \in 0 .. MaxCrashes

\* The user may be waiting for a trigger already.
Init ==
    /\ expected \in {0, 1} /\ made = expected /\ lock = NoUpdate
    /\ at = [u \in Updates |-> "new"]
    /\ fetch = [u \in Updates |-> "none"]
    /\ others = [u \in Updates |-> "asking"]
    /\ variable = [u \in Updates |-> FALSE]
    /\ seen = [u \in Updates |-> 0]
    /\ copy = [u \in Updates |-> 0]
    /\ served = {} /\ consumed = {} /\ overlapped = FALSE /\ outlived = FALSE /\ crashes = 0

Fetching(u) == fetch[u] \in {"read", "ask", "compare", "clear"}
Running(u) == at[u] \in {"gather", "flow"} \/ Fetching(u)

\* Mutant: transactions of one user do not exclude each other.
NoLock == TRUE

\* The lock of the user's key can be had.  The transactions of Clear and Wait await
\* nothing but the storage: they are one step.
Unlocked == lock = NoUpdate

-----------------------------------------------------------------------------
(* An update.                                                               *)

\* feed_webhook_update of an allowed update: a text message, or anything else, for
\* which the first fetcher has no connections.
Arrive(u) ==
    /\ at[u] = "new"
    /\ overlapped' = \E v \in Updates : Running(v)
    /\ at' = [at EXCEPT ![u] = "gather"]
    /\ \E place \in {"read", "none"} : fetch' = [fetch EXCEPT ![u] = place]
    /\ UNCHANGED <<storage, others, variable, seen, copy, made, served, consumed, outlived, crashes>>

\* Mutant: the flow goes on with what the fetcher has read, before it has cleared it.
ReadOnly(u) ==
    /\ fetch[u] = "read"
    /\ seen' = [seen EXCEPT ![u] = expected]
    /\ fetch' = [fetch EXCEPT ![u] = IF expected = 0 THEN "none" ELSE "matched"]
    /\ UNCHANGED <<storage, at, others, variable, copy, history>>

\* get_data, without the lock.
Read(u) ==
    /\ fetch[u] = "read"
    /\ seen' = [seen EXCEPT ![u] = expected]
    /\ fetch' = [fetch EXCEPT ![u] = IF expected = 0 THEN "none" ELSE "ask"]
    /\ UNCHANGED <<storage, at, others, variable, copy, history>>

\* get_trigger is answered.
GotTrigger(u) ==
    /\ fetch[u] = "ask"
    /\ fetch' = [fetch EXCEPT ![u] = "compare"]
    /\ UNCHANGED <<storage, at, others, variable, seen, copy, history>>

\* The text is the command, or the message, of the trigger: or it is not.
Compare(u) ==
    /\ fetch[u] = "compare"
    /\ \E place \in {"clear", "none"} : fetch' = [fetch EXCEPT ![u] = place]
    /\ UNCHANGED <<storage, at, others, variable, seen, copy, history>>

\* The transaction: whatever is expected by now is cleared.
Cleared ==
    /\ Unlocked
    /\ expected' = 0 /\ UNCHANGED lock
    /\ consumed' = consumed \cup ({expected} \ {0})
    /\ UNCHANGED <<made, served, overlapped, outlived, crashes>>

Clear(u) ==
    /\ fetch[u] = "clear" /\ Cleared
    /\ fetch' = [fetch EXCEPT ![u] = "matched"]
    /\ UNCHANGED <<at, others, variable, seen, copy>>

\* The storage or the service fails; the transaction may have been carried out.
FetchFails(u) ==
    /\ Fetching(u)
    /\ UNCHANGED <<storage, history>> \/ (fetch[u] = "clear" /\ Cleared)
    /\ fetch' = [fetch EXCEPT ![u] = "raised"]
    /\ UNCHANGED <<at, others, variable, seen, copy>>

\* _get_trigger_connections and _get_message_keyboard_button_connections.
OthersEnd(u) ==
    /\ at[u] = "gather" /\ others[u] = "asking"
    /\ \E place \in {"answered", "raised"} : others' = [others EXCEPT ![u] = place]
    /\ UNCHANGED <<storage, at, fetch, variable, seen, copy, history>>

\* gather has all answers: handle_many starts the flow.
Gathered(u) ==
    /\ at[u] = "gather" /\ others[u] = "answered" /\ fetch[u] \in {"matched", "none"}
    /\ at' = [at EXCEPT ![u] = "flow"]
    /\ served' = served \cup IF fetch[u] = "matched" THEN {seen[u]} ELSE {}
    /\ UNCHANGED <<storage, fetch, others, variable, seen, copy, made, consumed, overlapped, outlived,
                   crashes>>

\* gather raises with the first fetcher that does; the others go on.
GatherRaises(u) ==
    /\ at[u] = "gather" /\ "raised" \in {others[u], fetch[u]}
    /\ at' = [at EXCEPT ![u] = "raised"]
    /\ UNCHANGED <<storage, fetch, others, variable, seen, copy, history>>

-----------------------------------------------------------------------------
(* The flow of an update: what matters of it here.  Its branches run        *)
(* concurrently.                                                            *)

\* Mutant: the wait is stored without a transaction.
WaitUnlocked(u) ==
    /\ at[u] = "flow" /\ made < MaxWaits
    /\ made' = made + 1 /\ expected' = made + 1
    /\ UNCHANGED <<lock, locals, served, consumed, overlapped, outlived, crashes>>

\* TriggerHandler: the user is made to wait; nothing follows in this branch.
Wait(u) ==
    /\ at[u] = "flow" /\ Unlocked /\ made < MaxWaits
    /\ made' = made + 1 /\ expected' = made + 1
    /\ UNCHANGED <<lock, locals, served, consumed, overlapped, outlived, crashes>>

\* TemporaryVariableHandler: the transaction has read the data of the user, and awaits
\* the value of the variable.
Variable(u) ==
    /\ at[u] = "flow" /\ ~variable[u] /\ Unlocked
    /\ lock' = u
    /\ variable' = [variable EXCEPT ![u] = TRUE]
    /\ copy' = [copy EXCEPT ![u] = expected]
    /\ UNCHANGED <<expected, at, fetch, others, seen, history>>

\* The data is written back as it was read, apart from the variable; or the
\* transaction fails.  The lock is released by its holder only.
VariableDone(u) ==
    /\ variable[u]
    /\ variable' = [variable EXCEPT ![u] = FALSE]
    /\ expected' \in {expected, copy[u]}
    /\ lock' = IF lock = u THEN NoUpdate ELSE lock
    /\ UNCHANGED <<at, fetch, others, seen, copy, history>>

FlowEnds(u) ==
    /\ at[u] = "flow" /\ ~variable[u]
    /\ at' = [at EXCEPT ![u] = "ended"]
    /\ UNCHANGED <<storage, fetch, others, variable, seen, copy, history>>

-----------------------------------------------------------------------------

\* The lease of the lock ends; its holder may be dead, or still at work.
Expire ==
    /\ lock # NoUpdate
    /\ lock' = NoUpdate
    /\ outlived' = (outlived \/ variable[lock])
    /\ UNCHANGED <<expected, locals, made, served, consumed, overlapped, crashes>>

\* The hub dies; updates that were not fed yet come to the next one.
Crash ==
    /\ crashes < MaxCrashes
    /\ crashes' = crashes + 1
    /\ at' = [u \in Updates |-> IF at[u] \in {"new", "ended"} THEN at[u] ELSE "raised"]
    /\ fetch' = [u \in Updates |-> IF Fetching(u) THEN "raised" ELSE fetch[u]]
    /\ variable' = [u \in Updates |-> FALSE]
    /\ UNCHANGED <<storage, others, seen, copy, made, served, consumed, overlapped, outlived>>

Fetch(u) == Read(u) \/ GotTrigger(u) \/ Compare(u) \/ Clear(u) \/ FetchFails(u)
Gather(u) == OthersEnd(u) \/ Gathered(u) \/ GatherRaises(u)
Flow(u) == Wait(u) \/ Variable(u) \/ VariableDone(u) \/ FlowEnds(u)
Next == Expire \/ Crash \/ \E u \in Updates : Arrive(u) \/ Fetch(u) \/ Gather(u) \/ Flow(u)

Spec == Init /\ [][Next]_vars

-----------------------------------------------------------------------------

\* A wait that was cleared from the storage, or served, is not expected again, however
\* updates overlap, unless the transaction of a temporary variable outlived its lease and
\* wrote back the whole data of the user as it had read it.
ClearedForGood == expected \in consumed \cup served => outlived

\* Updates that overlap may clear a wait they have not read: but only one that was made
\* after they had read theirs, never one that an update before them had left.
UnreadIsNewer == \A u \in Updates :
    fetch[u] = "clear" /\ expected # 0 => seen[u] <= expected \/ outlived

\* As long as no lease is outlived and the updates of the user come one after the other,
\* and again when they do so after some that overlapped, waiting is what it promises to
\* be: each wait is served at most once, by an update that took it, and is lost only to a
\* failure or to a newer wait.
held == [u \in Updates |-> IF fetch[u] = "matched" /\ seen[u] \notin served THEN seen[u] ELSE 0]
failed == {u \in Updates : fetch[u] = "raised"}
Slot == INSTANCE WaitSlot WITH slot <- expected, void <- overlapped \/ outlived
IsSlot == Slot!Spec
=============================================================================
