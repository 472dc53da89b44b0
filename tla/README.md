# Telegram Bots Hub in TLA+

A verification project for the hub in `src/`: TLA+ modules translated from its
code, configurations with which TLC checks them on small instances, and proofs
that TLAPS checks for every instance. `PROJECT.json` lists the components, the
runs, the source lines each definition stands for, the findings, the hazards and
the theorems; this file explains them.

    tlc -config MCUpdateIntake.cfg MCUpdateIntake     # one run
    tlapm BotLifecycleProofs.tla                      # the proofs of a module

Paths of source files below are relative to `src/`.

## The system

The hub is one asyncio process (`core/gunicorn.py`, one worker) that runs many
Telegram bots for a main service. Code between two awaits is not interrupted, so
an action of a model is in general the code from one await to the next; what
other coroutines do comes between.

| Part | State | Operations | Talks to |
| --- | --- | --- | --- |
| Lifecycle API `api/router.py`, `api/deps.py` | the registry `bots`, the semaphore `bot_start_sem` | start, restart, stop, each a background task of a request | Bot |
| Bot `bot/bot.py` | `_me`, its tasks, its clients | `start`, `stop`, `feed_webhook_update`, `feed_webhook_trigger` | Telegram, main service, storage, flows |
| Background tasks `bot/background` | asyncio tasks, `completed_background_tasks` in the storage | token monitor, periodic service tasks | Bot, main service, storage, flows |
| Update intake `api/router.py`, `bot/bot.py` | `_me` of the object that is registered | 202 or 400, registration of chat and user, then the handler | Update dispatch, main service |
| Update dispatch `bot/handler.py` | `expected_trigger_id` in the storage | three fetchers in a gather, then the flow | main service, storage, flows |
| Flows `bot/handlers` | contexts with variables | one task per connection, a handler per kind of object | all others |
| Message handler `bot/handlers/message` | `last_bot_message_ids` in the storage | send files, groups and texts, delete earlier messages | Telegram, storage |
| Storage `bot/storage`, `core/redis.py` | a key per bot, chat and user in Redis, and a lock for each | `get_data`, `transaction` | Redis |
| Telegram client `telegram/client.py` | limiters per bot and chat | one request, with limits and retries | Telegram |
| Service client `service/client.py` | none | one HTTP request per method | main service |
| Variables `bot/variables.py`, `bot/utils/variables.py` | the store of a flow | a path of names to a value, placeholders to texts in three rounds | main service |
| Texts `bot/utils`, `bot/handlers/condition.py` | none | conditions, HTML | Variables |

What makes it hard:

* **Lifecycle.** Requests only check the registry; the work is done later, in
  tasks that overlap, compete for permits, fail at every await and leave calls
  behind that `gather` no longer awaits. A token monitor stops its own bot and
  with that cancels itself. Correct means: a running bot is the registered one, a
  stopped bot stays stopped, and once nothing is under way webhook, assignment
  and registry agree.
* **Updates and the life of a bot.** An update is answered before the object that
  takes it is known to have started, and the object may be stopped or replaced while
  the update is checked. Correct means: what reached a started object is handled by
  it, and fails only because a call does.
* **Storage.** A transaction is read, change, write under a lock whose lease ends
  after three seconds; the write is not fenced. Correct means: an atomic update
  as long as leases hold, and otherwise only an outlived lease loses a change.
* **Waiting for a trigger.** The id is read without the lock and cleared under it
  some calls later; concurrent updates and the temporary variables share its key.
* **Webhook triggers.** Subscribers are removed from the storage before they are
  looked up and served; chats are paged by offset while they change.
* **Periodic tasks.** Dates are written at the end of a run that takes long and
  may fail anywhere; the runs of one bot follow each other. They too page the chats by
  offset while updates create some.
* **Messages.** Handlers of concurrent flows send, store ids and start deletions
  in the same chat.
* **Flows.** A tree of tasks that fail alone, share nothing but copies of a
  context, and are all waited for.
* **Requests to Telegram.** Two limiters in a row, `retry_after`, lost answers.
* **Functions on texts and lists.** Which triggers a text starts, what a name stands
  for, where a placeholder ends, where a button goes: no state, but many cases at
  their boundaries.

The properties of each component are in the table of runs; the hazards they are
for are listed in `PROJECT.json` at the line where they bite.

## Modules

| Module | Models | Kept | Left out |
| --- | --- | --- | --- |
| `BotLifecycle` | `api/router.py`, `Bot.start/stop`, `background/manager.py`, `monitor_token.py` | a Bot object per job that constructs one; each await of a job and of a monitor; the order of `gather` failures; abandoned calls (`stray`); crashes | the API key, wording |
| `UpdateIntake` (extends `BotLifecycle`) | `bot_webhook`, `ValidBot`, `Bot.feed_webhook_update`, `_is_update_allowed`, `Bot.me` | the object that was registered when the update came, whether it has started, what becomes of the update when it stops | the registration of chat and user is one step that may refuse or fail; what the update starts |
| `BotRegistry` | what the dict of bots promises: an object stands in it once at most, runs only there, and what has left it is gone | | the jobs that get it there |
| `StorageTransaction` | `bot/storage/storage.py` | lock, lease, copy, write, release, cancellation | what the data is: a set of applied changes |
| `AtomicStore` | what a transaction promises | | |
| `WaitTrigger` | `bot/handler.py`, `handlers/trigger.py`, `handlers/temporary_variable.py` | one user in one chat; the fetcher of the expected trigger step by step; the transaction of a temporary variable with its lease | which trigger a text matches (left open here, see `TriggerDispatch`) |
| `WaitSlot` | what waiting for a trigger promises | | |
| `WebhookTrigger` | `Bot.feed_webhook_trigger` | pages, batches, subscribers, the strict zips, chats that change | the flow of one chat is one step |
| `ServiceTasks` | `process_service_tasks.py` and the loop of the manager | every await of a run, dates as ages, failures; the chats as they lie when a page is fetched, of which some come (`create_chat`) and go | the flow of one chat is one step |
| `TriggerDispatch` | the three fetchers of `bot/handler.py`, `get_triggers` and `get_messages_keyboard_buttons` | the filters each request sends, their order, what the results start; messages of users and of the bot, presses on buttons | the filters of the service are external: an answer has what meets all of them |
| `MessageRequests` | `_process_message`, `_send_media_group`, `message/utils.py` | order and slices of the requests, where text and keyboard go, rows and places of buttons | media URLs, what a button says |
| `BotMessages` | `MessageHandler.handle` | overlapping handlers, ids in the storage, deletion tasks | deletion of the message of the user |
| `FlowRun` | `handlers/connection.py`, `context.py`, the handlers of all objects | the tree of tasks, copies of contexts, failures, the two requests of an update of records | what the objects send; which records an update finds; cycles |
| `TelegramRequest` | `TelegramClient._request` and its limiters | both limiters as leaky buckets, retries, lost answers | endpoints and data |
| `Filters` | list comprehensions with a condition | | |
| `Conditions` | `handlers/condition.py`, `utils/deserializers.py` | comparison of values, joining of parts | the replacement of variables |
| `Variables` | `bot/variables.py`, `get_variables` and the records of the service client | scopes, the order of lookup, paths through objects, lists and texts | names of the system variables but one; `[search=...]` |
| `Placeholders` | `bot/utils/variables.py` | what matches, replacement from the right, three rounds that see the values of the one before | white space around a name; where values come from |
| `HtmlText` | `utils/html.py` | result, stack and positions; anchors without href, and with one that brings tags; line ends of tags and of texts | what else an attribute says, escaping |
| `Algorithms` | the inputs of the function modules (`Conditions`, `HtmlText`, `MessageRequests`, `TriggerDispatch`, `Variables`, `Placeholders`) and the references they are compared with | one state per input | |

State and actions keep the names of the code where they exist: `bots`,
`expected`, `offset`, `stack` are the variables of that name, `Register`,
`FailStart`, `Unassign` the steps of `_start_bot`, `Bot.start` and `Bot.stop`. A
variable marked *history* is not in the code: it records what happened so that a
property can speak of it, and no guard of a model of code reads it but the bounds.
A definition whose comment begins with *Mutant* is not part of a specification: it
is a plausible bug in the definition below it, and shows that a property would
catch it.

`...Proofs` modules hold the theorems; `MC...` modules give the constants values
for TLC. `BotRegistry`, `AtomicStore` and `WaitSlot` are abstract specifications, which
`BotLifecycle` (with `UpdateIntake` beside it), `StorageTransaction` and `WaitTrigger` are
shown to implement. Modules that use
the storage for something else (`WebhookTrigger`, `BotMessages`, `ServiceTasks`)
take a transaction as one action, which is what that refinement allows while
leases hold; `WaitTrigger` does not, because there a transaction awaits calls of
the service.

## Runs

Bounds are the constants called `Max...`, the sizes of the sets and, for the
clock of `ServiceTasks`, the intervals. Failures are not counted where each can
happen at most once per await.

| Run | Shows | Bounds |
| --- | --- | --- |
| `lifecycle` | registry, tasks, webhook and assignment agree once nothing is under way, or a listed fault explains it (`WebhookRemoved`, `AssignmentRemoved`, `RegisteredServes`); a running bot is registered (`NoOrphan`), a stopped one stays stopped (`StoppedStays`); requests, jobs and monitors together only enter, run and leave as `BotRegistry` allows (`IsRegistry`); an update that met a started object is never lost because that object was stopped or replaced (`ReadyNotLost`); every start, restart and stop ends and gives its permit back (`EveryJobEnds`) | one bot, two requests, one update, one crash: every order of two of start, stop and restart with the monitors and the calls the first leaves behind, and the update anywhere among them. Everything but `EveryJobEnds` is proved for all sizes. With one request at a time one bot never competes for the permit, but would wait forever for one that was not given back; that two bots which share a single permit do not starve was checked with `ServiceIds = {s1, s2}`, no update and no crash (371 827 states), which together with the rest is too much for one run |
| `storage` | with leases that end and holders that die at any time: a copy is fresh until a stale write (`FreshCopy`), only a stale writer loses a change (`LostOnlyByStale`), until then `AtomicStore` is implemented (`IsAtomic`), every transaction ends (`EveryTxEnds`) | three transactions: a stale one, its victim and one between |
| `waiting` | overlapping updates: unless a lease was outlived, a cleared wait does not come back (`ClearedForGood`), and an update that clears a wait it has not read clears only one made since, never one an earlier update left (`UnreadIsNewer`); as long as no lease is outlived and updates do not overlap `WaitSlot` is implemented (`IsSlot`), also again after some that did | three updates, up to two waits, of which one may be there at first, one crash |
| `webhook` | each subscription is served once, waits, or was dropped for a listed reason (`Conservation`); a trigger without subscribers reaches every allowed chat once unless chats changed (`AllChatsOnce`); no subscriber that was taken is skipped by the offset (`NoneSkipped`) | two overlapping deliveries, four chats of which one comes or goes, pages of three and batches of two: a short last batch on the first page, a second page with one chat. All of it is proved for any number of chats and runs |
| `service_tasks` | a task is not carried out again before its interval (`Spaced`); a run that gets to its record has handled, for each task it records, every chat that was there throughout at least once, unless chats before others went, and at most once, unless chats came before others, and nobody for another task (`ChatsOnce`); a task is carried out again and again while it stays listed (`KeepsFiring`) | intervals of one and two ticks, four chats at first and five at most, of which one may come anywhere or go at any time, pages of three and batches of two (a full and a short batch on the first page, one on the second, which may be empty), one failed run |
| `messages` | two deletions share no message (`DeletedOnce`); the messages of a handler are deleted as a whole (`WholeMessages`) | three handlers, two messages each, one crash |
| `flow` | nobody is told that a part of the flow has ended while a task below it is at work (`EndsLast`); a failure keeps to its own branch (`Isolated`); a handler reads the answer of the nearest API request on its own way (`OwnAnswer`); the flow ends whatever fails (`FlowEnds`) | eight tasks, three levels, API requests and operations beside and below each other |
| `requests` | the bot keeps to its rate in every stretch of time (`GlobalRate`), a chat gets no more than its limiter let through (`ChatTotal`), nothing is carried out twice (`CarriedOutOnce`) | three requests to a group and one to no chat, one repeated, buckets that let one through at a time |
| `algorithms` | the result of a condition is that of a reference without a running result (`InOrder`); formatted texts are well nested, unless an href that is left in them has a quote (`Nested`), and keep their text (`TextKept`); each file of a message is sent once and in order, its text once and last (`SentOnce`); each button is in its row, once and in order, also among those at the same place (`ButtonsPlaced`); three rounds of replacement are what replacing one placeholder after the other gives, to the depth of three (`Expanded`); a path reads what stands there, and the cases in which the code reads something else are named (`ReadBack`); an update starts a trigger once but for the expected one (`StartedOnce`) | conditions of four parts, and all comparisons of eight values of all types; five tags or pieces of text: three to open, one between, one to close; 21 files of each type, with the code's limits of 2 and 10: no, one, two and three groups and a rest of one; four buttons in three rows; six characters, bare and inside braces: a placeholder with a name, beside or inside what looks like one; data of four nodes: a list in an object in a list, and a leaf; two triggers or buttons, every text with a length at and over each limit |

`CHECK_DEADLOCK FALSE` stands where the requests, transactions, updates, handlers,
tasks or inputs of the instance are finite and may all have ended; `ServiceTasks` runs
forever and is checked for deadlock. Symmetry is used only in runs that check
safety, without fairness, over sets whose members nothing tells
apart.

### Disagreements between the code and what it says

Each of these runs checks one statement of the repository and TLC finds a
behaviour of the code that violates it:

* `stop_during_start`: a stop or restart that is served while a start awaits its
  calls leaves a bot that runs and is answered as "not started here".
* `webhook_zips`: one chat the bot may not talk to makes the strict zips of an
  untargeted delivery raise.
* `messages_last`: a message that is to replace the last ones is deleted itself.

Other things noticed. The properties of `algorithms` state these as what the code
does: `ServiceClient.get_variables` collects the name of a variable in `params` and
does not send them (`service/client.py:317`), so that `{{USER.x}}` is the value of `x`
only while the bot has no other variable, and the list of all values from then on
(`ReadBack`); a name of a field of several records is looked up in their list and
never found (`ReadBack`); a key that is a number is taken as an index, so that an
object's key `0` cannot be read (`ReadBack`); a command trigger that a user waits
for is found twice and its flow runs twice (`StartedOnce`); values that contain
placeholders are expanded in the next rounds (`Expanded`).

Which no run checks: an update that arrives while the bot starts is answered with
202 and lost (`api/router.py`, `bot/bot.py:59`); numbers of rows that are skipped leave empty
rows in a keyboard (`message/utils.py:43`); names whose keys become equal by
replacement collapse into one (`bot/utils/variables.py`); an exception other than
`TelegramError` in the `Bot.stop` of a failed start (`bot.py:367`) leaves an
entry without tasks, for which every later start is refused as already working;
eleven files of a type end in a media group of one (`message/handler.py:82`),
although `telegram/constants.py:8` sets two as the least; a part of a condition
is joined by its own `next_part_operator` instead of that of the part before
(`condition.py:53`), so that in a condition of two parts the second may have no
effect; behind a backlog of the bot, requests to one chat that passed its
limiter at the right distance are posted together (`telegram/client.py:80`); a
targeted webhook trigger serves only the first page of its subscribers and keeps
the others for the next call; a message with media and no text loses its
keyboard; a trigger deleted in the service while a user waits for it makes each
of the user's texts fail; `handler.py:207` is not reached for a pre-checkout
query, which `bot.py:65` refuses for want of a chat; a failed run of the
periodic tasks is repeated from its first chat; the type `NEGATIVE` of a
condition part is read by nothing; `html.py:71` removes a line end in front of a
text that the parser held back, and one that a text ends with; `html.py:48` writes an
href as the parser has decoded it, so that one with a quote in it may end the tag and bring
others, and what is written need not be well nested; two branches that update a
missing record each create it; a chat that is created or deleted while the periodic
tasks page the chats may make them handle another twice, or skip it.

## Fairness

* `StorageTransaction`: a lease ends by itself (WF on `Expire`), each transaction
  goes on (WF), since calls of Redis are answered or fail. The lock polls and
  promises no order: WF is enough only because the transactions of an instance are
  finitely many.
* `UpdateIntake`: a job of the lifecycle that can enter or resume does (WF per job on
  `Enter` and `Resume`): calls are answered or time out, the event loop resumes the
  coroutine, and `asyncio.Semaphore` wakes a waiter when a permit is released. An
  answer may be a failure each time.
* `ServiceTasks`, `FlowRun`: the event loop runs what can run and calls are
  answered or time out (WF); time passes (WF on `Tick`). Chats that come are
  finitely many (`MaxChanges`): a run pages on as long as the count grows. Failures of
  runs are finitely many too; a service that always fails keeps any task from being
  carried out.
* The other modules are checked for safety only. `TelegramRequest` has no
  liveness: an answer `retry_after` can be repeated forever.

## Proofs

All theorems are about the specification for any values of the constants that
meet the named assumptions, and are checked to the last leaf.

* **`BotLifecycleProofs`**: `TypeCorrect` for any requests. `NoOrphanCorrect` and
  `StoppedStaysCorrect` under `Disciplined`: the main service sends one lifecycle
  request per bot at a time and starts only bots that are not registered (without
  it, `stop_during_start` is the counterexample). Neither is inductive: `IInv` adds
  that there is one job per bot (`OneJobPerBot`), that the registry holds the object
  the current job works on (`RegistryFits`, `SubjectFits`, `JobSees`), and that
  only a registered object has tasks or a monitor at work (`Working`, `MonitorRuns`,
  `StopsBorn`). On top of it `OutsideInv` follows what Telegram and the main service
  hold through each step of a start and a stop: once a stop has passed a call, the
  webhook or the assignment is gone or a fault is noted (`HookGone`,
  `AssignmentGone`, `AbortSeen`), and a registered bot has come as far as its job
  (`Serving`). From it come `WebhookRemovedCorrect`, `AssignmentRemovedCorrect` and
  `RegisteredServesCorrect`. `IntakeImplements` shows that the composition with
  updates is still the lifecycle, which carries all of these over to it;
  `ReadyNotLostCorrect` is about the composition and needs no discipline.
  `RegistryCorrect` shows, under the same discipline, that the lifecycle implements
  `BotRegistry`: `Life` maps each object to new, entered, running or gone by the registry,
  its tasks and the place of the jobs that hold it, and every step is a step of one
  object's life, a crash or a stutter (`RegistryStep`). It rests on the objects at work
  being those that were born (`WorkersBorn`). `GoneForGood` follows: what was stopped,
  rejected or cut off never comes back. `PermitsBoundedCorrect` needs no
  discipline: however requests overlap, at most `MaxStarts` starts hold a permit of
  `bot_start_sem`, the clean-up of failed ones included. Its invariant says that what is
  registered was spawned (`FreeUnregistered`), without which a stop could pass for the
  clean-up of a start that never took a permit.
* **`StorageTransactionProofs`**: `IInv` says who is inside without a lease has
  expired (`Held`) and how data and outcome belong together (`Applied`).
  From it come `FreshCopyCorrect`, `OkHeldLockCorrect`, `LostOnlyByStaleCorrect`
  and `AtomicCorrect`: every step is a step of `AtomicStore` or a stutter. The
  abstract store has a variable `void`, which the refinement mapping sets once a
  transaction that outlived its lease has written; from then on it promises
  nothing. `CleanBefore` shows that what was void stays so.
* **`WaitTriggerProofs`**: `ClearedForGoodCorrect` and `UnreadIsNewerCorrect` for any
  overlapping updates, and `SlotCorrect`, where `WaitSlot` is void once a lease was
  outlived and while updates overlap. The invariant orders the waits by number
  (`Numbered`), says what an update that read an id can still find there
  (`Asked`, `Outside`, `Exclusive`), and that what is expected is newer than all that was
  taken or served, and no older than what any update at work has read (`Newest`); `Serial` says that while the slot is not void one update
  is at work alone, and `ResumeRefines` that with the first update to come after some
  that overlapped the promise begins anew. `PromisedCorrect` says what this comes to
  without the abstract slot: while it is not void, a flow starts only with a wait that its
  own update has cleared and nobody has served (`ServesOwn`), and what is expected goes
  only by being cleared or by a newer wait (`LosesNone`), although temporary variables
  write the same data back.
* **`BotMessagesProofs`**: `DeletedOnceCorrect` and `WholeMessagesCorrect` for any
  number of handlers and requests: what is stored, or was taken by a task, is
  always all of some handlers' messages (`Groups`, `Tasks`, `Named`).
* **`FlowRunProofs`**: for a flow of any size and shape, `EndsLastCorrect`,
  `IsolatedCorrect` and `OwnAnswerCorrect`. The tree is
  given by `Parent` and `Above` with the assumptions that tie them together, so
  that no induction over paths is needed: `Reached` says that all tasks above one
  that has begun wait for it, `Frontier` that above any other there is one that
  has not got to its connections or never will, `Answers` where the nearest answer
  lies at each point of a task. Two theorems are what `FlowEnds` rests on, as far as it is
  about states and steps: `NeverStuckCorrect`, that below every task that waits there is
  one that can go on (of the tasks that wait at or below it, take one with the fewest
  waiting tasks beside the way to it: finitely many wait, since a step adds one at most,
  `FewWait`), and `ForwardCorrect`, that every step brings a task forward and none back,
  so that a flow of n tasks takes at most 6n steps. What is left to fairness is that a
  step that can be taken is taken.
* **`TelegramRequestProofs`**: `GlobalRateHolds`, `ChatTotalHolds` and
  `CarriedOutOnceHolds` for any buckets and any number of requests. The level of a
  bucket, with what has drained since, is a bound on what was posted from any tick on
  (`GlobalFlow`); for a chat, the requests that passed its limiter and still wait for
  that of the bot are counted with it (`ChatFlow`). `OnceInv` says that only an answer
  that ends a request for good comes with its having been carried out.
* **`ServiceTasksProofs`**: `SpacedCorrect`: no date that is stored, or kept by a run
  that will store it, is older than the last firing (`SpacedInv`), however ages are
  cut at the interval. `ChatsOnceCorrect`, for chats that come and go anywhere: as long as
  no chat was moved on, one that was met lies in front of what is still to come
  (`AtMostOnce`), as long as none was moved back, one that was not met lies behind what
  is done or is still on the page at hand (`AtLeastOnce`), and a chat that moves takes
  no other along (`ChatsMove`, from `Apart`: no two chats have one place).
* **`DataProofs`**: what needs induction over data, for `WebhookTrigger` and for
  `Algorithms`. The induction theorems of the library take an operator, which the
  provers cannot instantiate; its theorem on least elements (`WFMin`) takes a set, and
  from it follow induction over a set of numbers (`SetInduction`), that a fold over the
  subsets of a finite set has a solution that is the only one (`FoldExists`), and that a
  fold over a sequence goes through its stages in order (`StepByStep`). Each fold of a
  model is then described by its stages (`KeptStages`, `FlattenStages`, `SumFolds`,
  `PendingStages`, `FedStages`, `CutStages`), and what it comes to is proved along them.
  * `WebhookTrigger`, from the assumptions that subjects and runs are finitely many and
    that no chat is listed twice. `TypeCorrect`. `StagesCorrect`: a run holds
    subscriptions only where the code does, and a targeted one stays on its first page,
    because what it takes fits on one page (`Stages`); from it `NoneSkippedCorrect`, as
    the batches of a page have its chats and no others. `ConservationCorrect`: the sum
    over the runs changes by what one run does (`SumChanged`), as the books are kept
    for each run (`Books`). `AllChatsOnceCorrect`: by the page, the batch and the offset
    one can tell which of the allowed chats were reached once, and that no other was
    (`PagesInv`), with what filters and pages of a list without repetitions hold.
  * `Algorithms`, along specification `Inputs`, whose bounds are any numbers.
    `InOrderCorrect` and `LeadsFromLeft`: the running result of a condition at each part.
    `StartedOnceCorrect` and `AnyStartedOnce`: what the three fetchers return has each
    object once, and no two of them return the same but for the expected one.
    `SentOnceCorrect`: where the requests of a type lie in the list of all, and that the
    slices of its files follow each other to the last one, for groups of any size whose
    least is one or two files (`LengthsAssumption`; the code's is two). `TextKeptCorrect` and
    `NestedCorrect`: the result always consists of what was written for the tags that
    are open, each where its entry of the stack says, and of balanced items between them
    (`Laid`), where items among which a tag may bring others (`Spoilt`) count as balanced; so the entries can be cut out from the last to the first, each still lies
    where it was written, and what is left is balanced and has every piece
    (`FedLaid`, `CutLaid`, `FormattedIs`). `ButtonsPlacedCorrect`: an element of a strict
    order stands behind as many as precede it, so that there is a sorted list of the
    buttons and it has all of them (`ListExists`, `ListsAll`); and after each button of
    that list, every row has those of its number in their order, and the last row is that
    of the last button (`Shows`). `ReadBackCorrect`: what has something below it is an
    object or a list, however the data has grown (`Grown`), so that each part of a path
    leads to what stands beyond it, or to nothing for good (`ResolveReads`).
  * `PlaceholdersApart`, about any text, whatever its characters: placeholders do not
    overlap, and replacing the last one leaves those before it what and where they were, so
    that a round that goes from the right replaces all that the text held and nothing that a
    value brought (`Placeholders` goes from the right, the code joins the pieces).

Only model-checked, with TLC on the instances above: everything under fairness (the
prover has no rules for liveness or ENABLED), and one invariant, `Expanded` of
`Algorithms`: it compares two rewritings of a text that is rescanned after each
replacement, one of them a recursive function over texts of which no measure the
induction above could follow decreases, and a round sorts with `SortSeq`, whose definition
the provers do not have. `PlaceholdersApart` is the part of it that needs neither.

## Not modelled

* The API key, headers, decoding of bodies, URLs and wording: they change no state and
  no property is about them. The resolver and the headers of API requests are of this
  kind.
* What the main service does with a request: its answers are any that fit what is
  asked.
* `[search=...]` in a path of `DATABASE` (`bot/variables.py:110`): the hub takes it off the
  path and looks its value up as a variable, which may lead into `DATABASE` again; the
  service then searches by the result. `Variables` reads paths without it, from
  whichever records the service returns.
* The registration of a chat and its user before an update is handled is one step of
  `UpdateIntake`; pre-checkout queries end there, since they have no chat.
* Which records an update of a database operation finds: the data that is created need not
  meet the lookup, and nothing keeps two requests from each creating a record.
* The deletion of the message of a user: one call in a task that nothing waits for and
  that touches nothing the hub keeps.
* White space around the name in a placeholder, which the code strips.
* The endpoint methods of the Telegram client, data types, settings and start-up.

The reasons are with the components in `PROJECT.json`.

## Plan

Done: lifecycle with updates beside it, storage, waiting for a trigger, which triggers
an update starts, webhook triggers, periodic tasks, messages and their keyboards, flows,
requests, variables, placeholders, conditions and HTML, with the theorems above.

What could follow:

1. `Hub`: periodic tasks, webhook triggers and updates of one bot in one model, on
   the shared storage, with a restart of the bot between them. Each of them is checked
   alone now, with the others as what may happen between its steps.
2. Two bots that share one permit, with crashes and updates at once, in a run. That they
   never hold more permits than there are is proved; that neither starves was checked
   without crashes and updates.
