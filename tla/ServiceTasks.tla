---------------------------- MODULE ServiceTasks ----------------------------
(***************************************************************************)
(* The periodic tasks of a bot (ProcessServiceTasksTask in                 *)
(* src/bot/background/tasks/process_service_tasks.py), run again and again *)
(* by the loop of src/bot/background/manager.py: each task is carried out  *)
(* for every chat when its interval has passed since the date kept for it  *)
(* in the storage of the bot.  Dates are kept as ages: how long ago they   *)
(* are, up to the interval of the task, beyond which nothing changes.      *)
(* The chats are paged by offset while updates add chats to them           *)
(* (create_chat in src/bot/bot.py) and the service drops some: a chat has  *)
(* the number of its place in the order in which the service pages them.   *)
(***************************************************************************)
EXTENDS Integers, FiniteSets

CONSTANTS
    Tasks,        \* ids of the periodic tasks
    Interval,     \* task -> its interval, in ticks of the clock
    NumChats,     \* chats that the bot has at one time or another
    Initially,    \* how many of them it has at first
    Limit,        \* page size (250 in the code)
    Batch,        \* handled concurrently (15 in the code)
    MaxChanges,   \* bound: chats that come or go
    MaxFailures   \* bound: runs that fail or are cut off

ASSUME IntervalAssumption == Interval \in [Tasks -> Nat \ {0}]
ASSUME SizesAssumption == /\ {NumChats, MaxChanges, MaxFailures} \subseteq Nat
                          /\ Initially \in 0 .. NumChats
                          /\ {Limit, Batch} \subseteq Nat \ {0}

VARIABLES
    listed,       \* main service: the tasks that exist and have connections
    place,        \* main service: chat -> its place among the chats of the bot, or 0
    count,        \* main service: how many chats the bot has
    stored,       \* storage: task -> age of its completed_background_tasks date
    pc,           \* where the run stands; "asleep" between runs
    skipped,      \* completed_tasks of the run: age of the date, for tasks not due
    active,       \* active_tasks of the run
    begun,        \* age of current_datetime of the run
    offset,       \* pagination offset
    results,      \* the page that was fetched: chat -> its place on the page, or 0
    found,        \* pagination.count, as it was fetched with the page
    todo,         \* active tasks that are not done with this page of chats
    turn,         \* the one of them whose batch is next
    done,         \* chats of the page that were handled for it
    handled,      \* history: task -> chat -> times handled in this run
    fired,        \* history: task -> age of the date of the last run that handled it
    cut,          \* history: tasks handled by a run that did not get to its record
    since,        \* history: chats that are there since the run asked for its first page
    moved,        \* history: "on", "back": chats that came or went meanwhile moved others there
    changes,      \* history: chats that came or went so far
    failures      \* history: failed runs so far

service == <<listed, place, count>>
page == <<offset, results, found, todo, turn, done>>
locals == <<skipped, active, begun, page>>
shifts == <<since, moved, changes>>
history == <<handled, fired, cut, shifts, failures>>
vars == <<service, stored, pc, locals, history>>

None == -1      \* no date
Age(t) == {None} \cup 0 .. Interval[t]
Ages == UNION {0 .. Interval[t] : t \in Tasks}
Chats == 1 .. NumChats
Least(a, b) == IF a <= b THEN a ELSE b

TypeOK ==
    /\ count \in Nat /\ place \in [Chats -> 0 .. count]
    /\ listed \subseteq Tasks /\ active \subseteq Tasks /\ cut \subseteq Tasks
    /\ pc \in {"asleep", "list", "read", "note", "bot", "page", "deliver", "record"}
    /\ stored \in [Tasks -> Int] /\ skipped \in [Tasks -> Int] /\ fired \in [Tasks -> Int]
    /\ \A t \in Tasks : {stored[t], skipped[t], fired[t]} \subseteq Age(t)
    /\ begun \in Nat /\ offset \in Nat /\ failures \in 0 .. MaxFailures
    /\ results \in [Chats -> 0 .. Limit] /\ found \in Nat
    /\ todo \subseteq active /\ done \in Nat
    /\ pc = "deliver" /\ todo # {} => turn \in todo
    /\ handled \in [Tasks -> [Chats -> Nat]]
    /\ since \subseteq {c \in Chats : place[c] > 0} /\ moved \subseteq {"on", "back"}
    /\ changes \in 0 .. MaxChanges

NoDates == [t \in Tasks |-> None]
NoPage == [c \in Chats |-> 0]

Init ==
    /\ listed \in SUBSET Tasks
    /\ place = [c \in Chats |-> IF c <= Initially THEN c ELSE 0] /\ count = Initially
    /\ pc = "asleep" /\ active = {} /\ begun = 0
    /\ offset = 0 /\ results = NoPage /\ found = 0 /\ todo = {} /\ turn = None /\ done = 0
    /\ stored = NoDates /\ skipped = NoDates /\ fired = NoDates
    /\ handled = [t \in Tasks |-> [c \in Chats |-> 0]]
    /\ cut = {} /\ since = {} /\ moved = {} /\ changes = 0 /\ failures = 0

-----------------------------------------------------------------------------

\* One unit of time passes; an age stops at the interval of its task.
Older(ages) == [t \in Tasks |-> IF ages[t] \in {None, Interval[t]} THEN ages[t] ELSE ages[t] + 1]
Tick ==
    /\ stored' = Older(stored) /\ skipped' = Older(skipped)
    /\ fired' = Older(fired)
    /\ begun' = IF begun + 1 \in Ages THEN begun + 1 ELSE begun
    /\ UNCHANGED <<service, pc, active, page, handled, cut, shifts, failures>>

ListChanges ==
    /\ \E t \in Tasks : listed' = IF t \in listed THEN listed \ {t} ELSE listed \cup {t}
    /\ UNCHANGED <<place, count, stored, pc, locals, history>>

\* Chats are moved while a run pages them.
Moving == pc \in {"page", "deliver"}

\* An update is the first of its chat: the service puts it somewhere among the others.
ChatComes ==
    /\ changes < MaxChanges /\ changes' = changes + 1
    /\ \E c \in Chats, k \in 1 .. count + 1 :
        /\ place[c] = 0
        /\ place' = [d \in Chats |-> IF d = c THEN k ELSE IF place[d] >= k THEN place[d] + 1 ELSE place[d]]
        /\ moved' = IF Moving /\ k <= count THEN moved \cup {"on"} ELSE moved
    /\ count' = count + 1
    /\ UNCHANGED <<listed, stored, pc, locals, handled, fired, cut, since, failures>>

ChatGoes ==
    /\ changes < MaxChanges /\ changes' = changes + 1
    /\ \E c \in Chats :
        /\ place[c] > 0
        /\ place' = [d \in Chats |-> IF d = c THEN 0 ELSE IF place[d] > place[c] THEN place[d] - 1 ELSE place[d]]
        /\ moved' = IF Moving /\ place[c] < count THEN moved \cup {"back"} ELSE moved
        /\ since' = since \ {c}
    /\ count' = count - 1
    /\ UNCHANGED <<listed, stored, pc, locals, handled, fired, cut, failures>>

\* The loop has slept for its own interval.
Wake ==
    /\ pc = "asleep"
    /\ pc' = "list"
    /\ handled' = [t \in Tasks |-> [c \in Chats |-> 0]] /\ since' = {} /\ moved' = {}
    /\ UNCHANGED <<service, stored, locals, fired, cut, changes, failures>>

\* get_background_tasks; `active' holds all tasks of the run until they are split.
List ==
    /\ pc = "list"
    /\ active' = listed
    /\ pc' = IF listed = {} THEN "asleep" ELSE "read"
    /\ todo' = {}
    /\ UNCHANGED <<service, stored, skipped, begun, offset, results, found, turn, done, history>>

\* Mutant: interval compared with > instead of <=, one tick early.
DueEarly(t) == stored[t] \in {Interval[t] - 1, Interval[t]}

\* _should_skip_task: a task without a date is skipped, and gets the date of the run.
Due(t) == stored[t] = Interval[t]

\* get_data (outside of a transaction) and the split into skipped and active tasks.
Split ==
    /\ pc = "read"
    /\ active' = {t \in active : Due(t)}
    /\ skipped' = [t \in Tasks |-> IF t \notin active \/ Due(t) THEN None
                                   ELSE IF stored[t] = None THEN 0 ELSE stored[t]]
    /\ begun' = 0 /\ offset' = 0 /\ todo' = {}
    /\ pc' = IF active' = {} THEN "note" ELSE "bot"
    /\ UNCHANGED <<service, stored, results, found, turn, done, history>>

\* Mutant: the merge gives every task it skipped the date of this run.
NotedNow == [t \in Tasks |-> IF skipped[t] = None THEN stored[t] ELSE 0]

\* No task is due: the dates of the skipped ones are merged into the stored ones.
Noted == [t \in Tasks |-> IF skipped[t] = None THEN stored[t] ELSE skipped[t]]
Note ==
    /\ pc = "note"
    /\ stored' = Noted
    /\ pc' = "asleep"
    /\ UNCHANGED <<service, locals, history>>

GotBot ==
    /\ pc = "bot"
    /\ pc' = "page"
    /\ since' = {c \in Chats : place[c] > 0}
    /\ UNCHANGED <<service, stored, locals, handled, fired, cut, moved, changes, failures>>

\* get_chats: the chats behind the offset, as they lie by now, and their count; an empty
\* page ends the run.
Page ==
    /\ pc = "page"
    /\ IF count <= offset
         THEN pc' = "record" /\ UNCHANGED <<results, found, todo, turn, done>>
         ELSE /\ pc' = "deliver"
              /\ results' = [c \in Chats |-> IF place[c] \in offset + 1 .. offset + Limit
                                            THEN place[c] - offset ELSE 0]
              /\ found' = count
              /\ todo' = active /\ turn' \in active /\ done' = 0
    /\ UNCHANGED <<service, stored, skipped, active, begun, offset, history>>

\* The next batch of the fetched page for one task; the tasks take turns by page.
Deliver ==
    LET batch == {c \in Chats : results[c] \in done + 1 .. done + Batch} IN
    /\ pc = "deliver" /\ todo # {}
    /\ handled' = [handled EXCEPT ![turn] = [c \in Chats |-> @[c] + IF c \in batch THEN 1 ELSE 0]]
    /\ fired' = [fired EXCEPT ![turn] = IF begun < Interval[turn] THEN begun ELSE Interval[turn]]
    /\ cut' = cut \cup {turn}
    /\ IF done + Batch >= Least(Limit, found - offset)
         THEN /\ todo' = todo \ {turn} /\ done' = 0
              /\ turn' \in IF todo' = {} THEN {turn} ELSE todo'
         ELSE done' = done + Batch /\ UNCHANGED <<todo, turn>>
    /\ UNCHANGED <<service, stored, pc, skipped, active, begun, offset, results, found, shifts, failures>>

\* Mutant: the page is over one chat late.
PageDoneLate ==
    /\ pc = "deliver" /\ todo = {}
    /\ offset' = offset + Limit - 1 /\ results' = NoPage /\ found' = 0
    /\ pc' = IF found - offset' <= 0 THEN "record" ELSE "page"
    /\ UNCHANGED <<service, stored, skipped, active, begun, todo, turn, done, history>>

\* The count that came with the page tells whether there is another.
PageDone ==
    /\ pc = "deliver" /\ todo = {}
    /\ offset' = offset + Limit /\ results' = NoPage /\ found' = 0
    /\ pc' = IF found - offset' <= 0 THEN "record" ELSE "page"
    /\ UNCHANGED <<service, stored, skipped, active, begun, todo, turn, done, history>>

\* The dates of this run replace the stored ones as a whole: a task the service did
\* not list when the run began loses its date.
Recorded == [t \in Tasks |->
    IF t \in active THEN IF begun < Interval[t] THEN begun ELSE Interval[t] ELSE skipped[t]]
Record ==
    /\ pc = "record"
    /\ stored' = Recorded
    /\ pc' = "asleep"
    /\ cut' = cut \ active
    /\ UNCHANGED <<service, locals, handled, fired, shifts, failures>>

\* A call of the service or the storage raises and the loop catches it; or the bot is
\* stopped or the hub dies at any place, and the bot is started again.  The write of
\* a transaction may have been made.
Fail ==
    /\ pc # "asleep" /\ failures < MaxFailures
    /\ failures' = failures + 1
    /\ pc' = "asleep"
    /\ stored' \in {stored} \cup (IF pc = "note" THEN {Noted} ELSE {})
                            \cup (IF pc = "record" THEN {Recorded} ELSE {})
    /\ UNCHANGED <<service, locals, handled, fired, cut, shifts>>

Run == Wake \/ List \/ Split \/ Note \/ GotBot \/ Page \/ Deliver \/ PageDone \/ Record
Next == Tick \/ ListChanges \/ ChatComes \/ ChatGoes \/ Run \/ Fail

Spec == Init /\ [][Next]_vars

\* Time passes and calls are answered; failures are finitely many
\* (MaxFailures), and so are the chats that come (MaxChanges), or paging might not end.
FairSpec == Spec /\ WF_vars(Tick) /\ WF_vars(Run)

-----------------------------------------------------------------------------

\* A task is not carried out again before its interval has passed since the last run
\* that did so, unless that run was cut off before its record; also when the service
\* takes the task away and brings it back, or a run outlasts the interval.
Spaced == pc = "bot" => \A t \in active : 
    fired[t] \in {None, Interval[t]} \/ t \in cut

\* When a run gets to its record, it has handled no chat for a task that it will not record
\* as done, and for each task that it will, the chats that were there during the whole run:
\* each of them at least once, unless chats in front of others went, and at most once, unless
\* chats came in front of others; so exactly once if chats come behind all others and stay.
ChatsOnce == pc = "record" => \A t \in Tasks :
    IF t \notin active THEN \A c \in Chats : handled[t][c] = 0
    ELSE \A c \in since : /\ "back" \notin moved => handled[t][c] >= 1
                          /\ "on" \notin moved => handled[t][c] <= 1

\* A task that stays listed is carried out again and again.
KeepsFiring == \A t \in Tasks :
    <>[](t \in listed) => []<>(pc = "record" /\ t \in active)
=============================================================================
