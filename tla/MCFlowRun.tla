----------------------------- MODULE MCFlowRun -----------------------------
EXTENDS FlowRun, Sequences

\* A flow as the connections of its objects; a task is a sequence of connections.
Ends == [api1 |-> "api", api2 |-> "api", upsert1 |-> "upsert", upsert2 |-> "upsert",
         create |-> "create", update |-> "update", condition |-> "condition"]

\* Requests below and beside each other, operations below and beside each other.
Ways == {<<"api1">>, <<"api1", "upsert2">>, <<"api1", "api2">>, <<"api1", "api2", "condition">>,
         <<"upsert1">>, <<"upsert1", "upsert2">>, <<"create">>, <<"create", "update">>}

TasksOf(ways) == ways \cup {<<>>}
ParentOf(ways) == [t \in ways |-> SubSeq(t, 1, Len(t) - 1)]
AboveOf(ways) == [t \in TasksOf(ways) |-> {SubSeq(t, 1, k) : k \in 0 .. Len(t) - 1}]
KindOf(ways) == [t \in ways |-> Ends[t[Len(t)]]]

WaysTasks == TasksOf(Ways)
WaysParent == ParentOf(Ways)
WaysAbove == AboveOf(Ways)
WaysKind == KindOf(Ways)
NoWay == <<>>
=============================================================================
