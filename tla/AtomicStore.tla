----------------------------- MODULE AtomicStore -----------------------------
(***************************************************************************)
(* What Storage.transaction promises its callers (src/bot/storage): the    *)
(* change a transaction makes is applied to the stored data at one moment, *)
(* at most once, changes of others are never undone, and a transaction     *)
(* that ends without an exception has been applied.  The promise rests on  *)
(* leases: it is void once a transaction that outlived its own has written.*)
(***************************************************************************)
CONSTANT Txs      \* transactions on one key

VARIABLES
    data,         \* the stored data: the transactions whose change it contains
    outcome,      \* tx -> "none", "ok" or "raised"
    void          \* nothing is promised any more

vars == <<data, outcome, void>>

Init == data = {} /\ outcome = [t \in Txs |-> "none"] /\ void = FALSE

Apply(t) ==
    /\ t \notin data /\ outcome[t] = "none"
    /\ data' = data \cup {t}
    /\ UNCHANGED outcome

\* An exception says nothing about whether the change was made.
End(t) ==
    /\ outcome[t] = "none"
    /\ \/ t \in data /\ outcome' = [outcome EXCEPT ![t] = "ok"] /\ UNCHANGED data
       \/ outcome' = [outcome EXCEPT ![t] = "raised"] /\ data' \in {data, data \cup {t}}

Kept == ~void /\ ~void' /\ \E t \in Txs : Apply(t) \/ End(t)
Next == Kept \/ void'

Spec == Init /\ [][Next]_vars
=============================================================================
