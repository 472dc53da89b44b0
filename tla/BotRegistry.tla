---------------------------- MODULE BotRegistry -----------------------------
(***************************************************************************)
(* What the dict `bots' (src/core/storage.py) and the Bot objects promise  *)
(* the rest of the hub.  An object enters the registry once, where nothing *)
(* is; its background tasks begin while it is the entry of its id; entry   *)
(* and tasks end together; and an object that has left never comes back.   *)
(***************************************************************************)
CONSTANTS
    Ids,          \* service ids
    Objects,      \* Bot objects
    Nothing       \* no entry

VARIABLES
    entry,        \* service id -> the object registered for it, or Nothing
    life          \* object -> "new", "entered", "working" or "gone"

vars == <<entry, life>>

Init ==
    /\ entry = [s \in Ids |-> Nothing]
    /\ life = [i \in Objects |-> "new"]

Enter(s, i) ==
    /\ entry[s] = Nothing /\ life[i] = "new"
    /\ entry' = [entry EXCEPT ![s] = i]
    /\ life' = [life EXCEPT ![i] = "entered"]

Begin(s, i) ==
    /\ entry[s] = i /\ life[i] = "entered"
    /\ life' = [life EXCEPT ![i] = "working"]
    /\ UNCHANGED entry

Leave(s, i) ==
    /\ entry[s] = i
    /\ entry' = [entry EXCEPT ![s] = Nothing]
    /\ life' = [life EXCEPT ![i] = "gone"]

\* The constructor raises: the object never enters.
Reject(i) ==
    /\ life[i] = "new"
    /\ life' = [life EXCEPT ![i] = "gone"]
    /\ UNCHANGED entry

\* All objects die with the process; some that have not entered will never do so.
Crash ==
    /\ entry' = [s \in Ids |-> Nothing]
    /\ \E spared \in SUBSET {i \in Objects : life[i] = "new"} :
         life' = [i \in Objects |-> IF i \in spared THEN "new" ELSE "gone"]

Next ==
    \/ \E s \in Ids, i \in Objects : Enter(s, i) \/ Begin(s, i) \/ Leave(s, i)
    \/ \E i \in Objects : Reject(i)
    \/ Crash

Spec == Init /\ [][Next]_vars
=============================================================================
