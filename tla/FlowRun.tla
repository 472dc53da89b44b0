------------------------------ MODULE FlowRun ------------------------------
(***************************************************************************)
(* One flow of a bot (ConnectionHandler in src/bot/handlers/connection.py):*)
(* a task per connection, which fetches the object at its end, lets the    *)
(* handler of its kind act and then starts a task for each connection the  *)
(* handler returned, all of them at once.  A task is one way to reach an   *)
(* object, so that the tasks form a tree: an object behind two connections *)
(* is handled twice.                                                       *)
(***************************************************************************)
EXTENDS Naturals

CONSTANTS
    Tasks,        \* the ways through the flow, and Start
    Start,        \* the call of handle_many that starts the flow
    Parent,       \* the task whose handler returns the connection of this one
    Above,        \* the tasks on the way to it, Start included
    Kind          \* the kind of the object at its end

\* "plain" stands for messages, invoices and temporary variables, "create", "update" and
\* "upsert" for database operations: a creation, an update, and one with
\* create_if_not_found.
Kinds == {"plain", "trigger", "condition", "api", "create", "update", "upsert", "empty"}

ASSUME TreeAssumption ==
    /\ Start \in Tasks
    /\ Parent \in [Tasks \ {Start} -> Tasks]
    /\ Above \in [Tasks -> SUBSET Tasks]
    /\ Above[Start] = {}
    /\ \A t \in Tasks \ {Start} : Above[t] = Above[Parent[t]] \cup {Parent[t]}
    /\ \A t \in Tasks : t \notin Above[t]
    /\ \A t \in Tasks \ {Start} : Start \in Above[t]
    /\ \A t \in Tasks : \A a \in Above[t] :
           \E u \in (Above[t] \cup {t}) \ {Start} : Parent[u] = a
ASSUME KindAssumption == Kind \in [Tasks \ {Start} -> Kinds]

VARIABLES
    pc,           \* task -> where it stands
    response,     \* task -> the request whose answer its context holds as API_RESPONSE
    read          \* history: task -> the answer its handler found there

vars == <<pc, response, read>>

Active == {"ready", "fetch", "handle", "create", "wait"}
Ended == {"served", "stopped", "failed"}

TypeOK ==
    /\ pc \in [Tasks -> Active \cup Ended \cup {"none"}]
    /\ response \in [Tasks -> Tasks]
    /\ read \in [Tasks -> Tasks]

Children(t) == {u \in Tasks \ {Start} : Parent[u] = t}

\* Start stands for an answer where there is none.
Init ==
    /\ pc = [t \in Tasks |-> IF t = Start THEN "wait"
                             ELSE IF Parent[t] = Start THEN "ready" ELSE "none"]
    /\ response = [t \in Tasks |-> Start]
    /\ read = [t \in Tasks |-> Start]

\* Mutant: the context is not copied, so that all tasks of a flow share the first one.
SharedContext(t) == Start

\* Each task works on a copy of the context of its parent.
Context(t) == t

Begin(t) ==
    /\ pc[t] = "ready"
    /\ pc' = [pc EXCEPT ![t] = "fetch"]
    /\ response' = [response EXCEPT ![Context(t)] = response[Context(Parent[t])]]
    /\ UNCHANGED read

Fetch(t) ==
    /\ pc[t] = "fetch"
    /\ pc' = [pc EXCEPT ![t] = "handle"]
    /\ UNCHANGED <<response, read>>

\* A call of the service, of Telegram or of the API raises, whether it was carried out or
\* not, or a text cannot be decoded.
Fail(t) ==
    /\ pc[t] \in {"fetch", "handle", "create"}
    /\ pc' = [pc EXCEPT ![t] = "failed"]
    /\ UNCHANGED <<response, read>>

\* The handler found its variables in the context.
Handling(t, kinds) ==
    /\ pc[t] = "handle" /\ Kind[t] \in kinds
    /\ read' = [read EXCEPT ![t] = response[Context(t)]]

\* The handler returns its connections and a task is created for each of them.
GoOn(t) ==
    pc' = [u \in Tasks |-> IF u = t THEN "wait"
                           ELSE IF u \in Children(t) THEN "ready" ELSE pc[u]]

\* Mutant: the handler returns its connections all the same.
StopGoesOn(t) ==
    /\ Handling(t, {"plain", "trigger", "condition", "api", "empty"})
    /\ pc' = [u \in Tasks |-> IF u = t THEN "stopped"
                              ELSE IF u \in Children(t) THEN "ready" ELSE pc[u]]
    /\ UNCHANGED response

\* The handler returns None: a trigger is waited for, a condition does not hold, an API
\* request has a ClientError, an operation is neither of the two, there is no chat or user.
Stop(t) ==
    /\ Handling(t, {"plain", "trigger", "condition", "api", "empty"})
    /\ pc' = [pc EXCEPT ![t] = "stopped"]
    /\ UNCHANGED response

Act(t) ==
    /\ Handling(t, {"plain", "condition"})
    /\ GoOn(t)
    /\ UNCHANGED response

Answer(t) ==
    /\ Handling(t, {"api"})
    /\ response' = [response EXCEPT ![Context(t)] = t]
    /\ GoOn(t)

\* A record is created.
Create(t) ==
    /\ Handling(t, {"create"})
    /\ GoOn(t)
    /\ UNCHANGED response

\* The records whose field has the value looked for are updated; which those are, by
\* then, is left open.  One that may create asks again when there was none.
Update(t) ==
    /\ Handling(t, {"update", "upsert"})
    /\ \/ GoOn(t)
       \/ Kind[t] = "upsert" /\ pc' = [pc EXCEPT ![t] = "create"]
    /\ UNCHANGED response

\* The second request of an update that found nothing.
CreateMissing(t) ==
    /\ pc[t] = "create"
    /\ GoOn(t)
    /\ UNCHANGED <<response, read>>

\* Mutant: gather raises with the first failure.
ReturnFirst(t) ==
    /\ pc[t] = "wait"
    /\ \/ \A u \in Children(t) : pc[u] \in Ended
       \/ \E u \in Children(t) : pc[u] = "failed"
    /\ pc' = [pc EXCEPT ![t] = "served"]
    /\ UNCHANGED <<response, read>>

\* Mutant: a failed task is waited for.
ReturnServed(t) ==
    /\ pc[t] = "wait" /\ \A u \in Children(t) : pc[u] \in Ended \ {"failed"}
    /\ pc' = [pc EXCEPT ![t] = "served"]
    /\ UNCHANGED <<response, read>>

\* gather returns when every task has ended, with the exceptions among its results.
Return(t) ==
    /\ pc[t] = "wait" /\ \A u \in Children(t) : pc[u] \in Ended
    /\ pc' = [pc EXCEPT ![t] = "served"]
    /\ UNCHANGED <<response, read>>

Step(t) == \/ Begin(t) \/ Fetch(t) \/ Fail(t) \/ Stop(t) \/ Act(t) \/ Answer(t)
           \/ Create(t) \/ Update(t) \/ CreateMissing(t)

Next == \/ \E t \in Tasks \ {Start} : Step(t)
        \/ \E t \in Tasks : Return(t)

Spec == Init /\ [][Next]_vars

\* Every call is answered or times out, and the event loop runs every task.
Fairness == /\ \A t \in Tasks \ {Start} : WF_vars(Step(t))
            /\ \A t \in Tasks : WF_vars(Return(t))
FairSpec == Spec /\ Fairness

-----------------------------------------------------------------------------

\* Whoever awaits a flow, or a part of it, is not told that it has ended while some task
\* below is still at work, however deep it is and whatever failed.
EndsLast == \A t \in Tasks : \A a \in Above[t] :
    pc[a] \in Ended => pc[t] \in Ended \cup {"none"}

\* A failure stays in its branch: when the flow has ended, the tasks that were not run are
\* exactly those below a task that stopped or failed.
Isolated == pc[Start] = "served" => \A t \in Tasks :
    pc[t] = "none" <=> \E a \in Above[t] : pc[a] \in {"stopped", "failed"}

\* A handler reads the answer of the nearest API request on its own way, never that of a
\* branch beside it, however the tasks interleave.
OwnAnswer == \A t \in Tasks : pc[t] \in {"create", "wait", "served"} /\ t # Start =>
    /\ read[t] \in Above[t]
    /\ \A a \in Above[t] : a # Start /\ Kind[a] = "api" => a = read[t] \/ a \in Above[read[t]]
    /\ read[t] # Start => Kind[read[t]] = "api"

\* Every flow ends.
FlowEnds == <>(pc[Start] = "served")
=============================================================================
