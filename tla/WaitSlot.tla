------------------------------ MODULE WaitSlot ------------------------------
(***************************************************************************)
(* What waiting for a trigger promises one user (src/bot/handler.py with   *)
(* src/bot/handlers/trigger.py): a flow that reaches a trigger makes the   *)
(* user wait for it; the next update that matches takes the wait and is    *)
(* served by what follows the trigger, once.  A wait ends otherwise only   *)
(* with the failure of an update, or for a newer wait.  The promise is     *)
(* void while updates of the user overlap, and once a lease was outlived.  *)
(* When it holds again, what the user waits for was never taken or served. *)
(***************************************************************************)
EXTENDS Naturals

CONSTANTS
    Updates,      \* updates of the user
    MaxWaits      \* bound: how often the user is made to wait

VARIABLES
    slot,         \* what the user waits for: the number of that wait, 0 for nothing
    made,         \* waits so far
    held,         \* update -> the wait it has taken and not served, or 0
    served,       \* the waits that were served
    failed,       \* the updates that failed
    void          \* nothing is promised

vars == <<slot, made, held, served, failed, void>>

Init ==
    /\ slot \in {0, 1} /\ made = slot
    /\ held = [u \in Updates |-> 0]
    /\ served = {} /\ failed = {} /\ void = FALSE

Wait ==
    /\ made < MaxWaits
    /\ made' = made + 1 /\ slot' = made + 1
    /\ UNCHANGED <<held, served, failed>>

Take(u) ==
    /\ slot # 0 /\ held[u] = 0 /\ u \notin failed
    /\ held' = [held EXCEPT ![u] = slot] /\ slot' = 0
    /\ UNCHANGED <<made, served, failed>>

Serve(u) ==
    /\ held[u] # 0 /\ held[u] \notin served /\ u \notin failed
    /\ served' = served \cup {held[u]}
    /\ held' = [held EXCEPT ![u] = 0]
    /\ UNCHANGED <<slot, made, failed>>

\* An update that fails may take what the user waits for with it; several fail when
\* the hub dies.
Fail(u) ==
    /\ u \notin failed /\ failed' = failed \cup {u}
    /\ slot' \in {slot, 0}
    /\ UNCHANGED <<made, held, served>>
FailAll(dead) == failed' = failed \cup dead /\ UNCHANGED <<slot, made, held, served>>

Kept ==
    /\ ~void /\ ~void'
    /\ \/ Wait
       \/ \E u \in Updates : Take(u) \/ Serve(u) \/ Fail(u)
       \/ \E dead \in SUBSET Updates : FailAll(dead)

\* The updates come one after the other again.
Resume ==
    /\ void /\ ~void'
    /\ slot \notin served \cup {held[u] : u \in Updates} \/ slot = 0
    /\ UNCHANGED <<slot, made, held, served, failed>>
Next == Kept \/ void' \/ Resume

Spec == Init /\ [][Next]_vars
=============================================================================
