---------------------------- MODULE BotLifecycle ----------------------------
(***************************************************************************)
(* The life of the bots a hub serves: src/api/router.py (the start,        *)
(* restart and stop endpoints and the coroutines they spawn),              *)
(* src/bot/bot.py (Bot.start, Bot.stop), src/bot/background (the tasks of  *)
(* a running bot and the token monitor, which stops its own bot), and the  *)
(* registry src/core/storage.py.  The hub is one asyncio process           *)
(* (src/core/gunicorn.py, workers = 1): code between two awaits is one     *)
(* action.  The Telegram Bot API (is a webhook set?) and the main service  *)
(* (is the bot assigned to this hub?) are seen through the calls the hub   *)
(* makes of them; an answer and the effect of the call are one action,     *)
(* except for calls that no coroutine awaits any more, which are `stray'.  *)
(***************************************************************************)
EXTENDS Integers, FiniteSets

CONSTANTS
    ServiceIds,   \* ids the main service gives to bots
    Jobs,         \* coroutines spawned by requests; bound on their number.  A job
                  \* also names the one Bot object it constructs
    NoBot,        \* the registry has no entry
    MaxStarts,    \* permits of bot_start_sem (10 in the code)
    Disciplined,  \* TRUE: the main service sends one lifecycle request per bot at
                  \* a time and start_bots only for bots that are not registered
    MaxCrashes    \* bound on the crashes of the hub

ASSUME NoBotAssumption == NoBot \notin Jobs
ASSUME IdsAssumption == ServiceIds # {}
ASSUME BoundsAssumption == /\ MaxStarts \in Nat \ {0} 
                           /\ MaxCrashes \in Nat 
                           /\ Disciplined \in BOOLEAN

VARIABLES
    bots,      \* registry: service id -> Bot object
    kind,      \* job -> what was asked
    sid,       \* job -> service id of the request, and of the Bot it constructs
    subject,   \* job -> Bot object it works on: an older one to stop, or its own
    pc,        \* job -> the await it is suspended in
    raised,    \* job -> an exception is propagating, or ended the job
    tasks,     \* Bot object -> its background tasks
    monitor,   \* Bot object -> the await its token monitor is suspended in
    stray,     \* abandoned calls that may still take effect
    hook,      \* Telegram: service id -> a webhook is set for its token
    assigned,  \* main service: service id -> it is assigned to this hub
    faults,    \* history: service id -> what went wrong since its last registration
    crashes    \* history: crashes so far

jobVars == <<kind, sid, subject, pc, raised>>
botVars == <<bots, tasks, monitor, stray>>
outside == <<hook, assigned>>
vars == <<jobVars, botVars, outside, faults, crashes>>

Faults == {"delete_failed", "stop_aborted", "unassign_failed", "unassign_lost", 
           "late_set", "late_delete", "late_unassign", "crash"}
Calls == {"set_hook", "delete_hook", "unassign"}
States == {"free", "stop_hook", "unassign", "sem", "gather", "hooked", "assign", "done"}

TypeOK ==
    /\ bots \in [ServiceIds -> Jobs \cup {NoBot}]
    /\ kind \in [Jobs -> {"start", "restart", "stop"}]
    /\ sid \in [Jobs -> ServiceIds]
    /\ subject \in [Jobs -> Jobs]
    /\ pc \in [Jobs -> States]
    /\ raised \in [Jobs -> BOOLEAN]
    /\ tasks \in [Jobs -> {"none", "running", "cancelled"}]
    /\ monitor \in [Jobs -> {"idle", "stop_hook", "unassign"}]
    /\ stray \subseteq Calls \X Jobs
    /\ hook \in [ServiceIds -> BOOLEAN]
    /\ assigned \in [ServiceIds -> BOOLEAN]
    /\ faults \in [ServiceIds -> SUBSET Faults]
    /\ crashes \in 0 .. MaxCrashes

\* The entries of the job functions mean nothing while a job is free.
Init ==
    /\ bots = [s \in ServiceIds |-> NoBot]
    /\ kind = [j \in Jobs |-> "start"]
    /\ sid = [j \in Jobs |-> CHOOSE s \in ServiceIds : TRUE]
    /\ subject = [j \in Jobs |-> j]
    /\ pc = [j \in Jobs |-> "free"]
    /\ raised = [j \in Jobs |-> FALSE]
    /\ tasks = [j \in Jobs |-> "none"]
    /\ monitor = [j \in Jobs |-> "idle"]
    /\ stray = {}
    /\ hook = [s \in ServiceIds |-> FALSE]
    /\ assigned = [s \in ServiceIds |-> FALSE]
    /\ faults = [s \in ServiceIds |-> {}]
    /\ crashes = 0

Active(j) == pc[j] \notin {"free", "done"}
Busy(s) == \E j \in Jobs : Active(j) /\ sid[j] = s
Blame(s, kinds) == faults' = [faults EXCEPT ![s] = @ \cup kinds]

-----------------------------------------------------------------------------
(* Requests.  The check of a handler is made now, its work is done later.   *)

Spawn(j, k, s, i, first) ==
    /\ pc[j] = "free"
    /\ Disciplined => ~Busy(s)
    /\ kind' = [kind EXCEPT ![j] = k]
    /\ sid' = [sid EXCEPT ![j] = s]
    /\ subject' = [subject EXCEPT ![j] = i]
    /\ pc' = [pc EXCEPT ![j] = first]
    /\ UNCHANGED <<raised, botVars, outside, faults, crashes>>

\* One item of POST /bots/start/: the registry is not looked at.
StartBots(j, s) ==
    /\ Disciplined => bots[s] = NoBot
    /\ Spawn(j, "start", s, j, "sem")

StartBot(j, s) == bots[s] = NoBot /\ Spawn(j, "start", s, j, "sem")

\* ValidBot resolves to the object that is registered now.
RestartBot(j, s) == bots[s] # NoBot /\ Spawn(j, "restart", s, bots[s], "stop_hook")
StopBot(j, s) == bots[s] # NoBot /\ Spawn(j, "stop", s, bots[s], "stop_hook")

-----------------------------------------------------------------------------
(* _start_bot and Bot.start.  The permit is held until _start_bot returns,  *)
(* the clean-up of a failed start included.                                 *)

\* Mutant: the permit is given back by hand, and not where an exception passes.
KeepsPermit(j) ==
    \/ pc[j] \in {"gather", "hooked", "assign"}
    \/ raised[j] /\ subject[j] = j

HoldsPermit(j) == 
    \/ pc[j] \in {"gather", "hooked", "assign"}
    \/ pc[j] \in {"stop_hook", "unassign"} /\ subject[j] = j

PermitFree == Cardinality({j \in Jobs : HoldsPermit(j)}) < MaxStarts

\* The new object replaces whatever is registered; start() issues its calls.
Register(j) ==
    /\ pc[j] = "sem" /\ PermitFree
    /\ bots' = [bots EXCEPT ![sid[j]] = j]
    /\ faults' = [faults EXCEPT ![sid[j]] = {}]
    /\ pc' = [pc EXCEPT ![j] = "gather"]
    /\ UNCHANGED <<kind, sid, subject, raised, tasks, monitor, stray, outside, crashes>>

\* The constructor raises on a malformed token, before anything is registered.
RejectToken(j) ==
    /\ pc[j] = "sem" /\ PermitFree
    /\ pc' = [pc EXCEPT ![j] = "done"]
    /\ raised' = [raised EXCEPT ![j] = TRUE]
    /\ UNCHANGED <<kind, sid, subject, botVars, outside, faults, crashes>>

\* set_webhook is answered while getMe or setMyCommands is outstanding.
WebhookSet(j) ==
    /\ pc[j] = "gather"
    /\ hook' = [hook EXCEPT ![sid[j]] = TRUE]
    /\ pc' = [pc EXCEPT ![j] = "hooked"]
    /\ UNCHANGED <<kind, sid, subject, raised, botVars, assigned, faults, crashes>>

\* Mutant: _start_bot re-raises without stopping the bot.
FailWithoutStop(j) ==
    /\ pc' = [pc EXCEPT ![j] = "done"]
    /\ raised' = [raised EXCEPT ![j] = TRUE]
    /\ UNCHANGED <<kind, sid, subject, bots, tasks, monitor, crashes>>

\* _start_bot catches the exception and stops the new object.
FailStart(j) ==
    /\ pc' = [pc EXCEPT ![j] = "stop_hook"]
    /\ raised' = [raised EXCEPT ![j] = TRUE]
    /\ UNCHANGED <<kind, sid, subject, bots, tasks, monitor, crashes>>

\* gather propagates the first exception and leaves the other calls running.
GatherFails(j) ==
    /\ pc[j] \in {"gather", "hooked"}
    /\ FailStart(j)
    /\ \/ /\ pc[j] = "gather"        \* set_webhook is still on its way
          /\ stray' = stray \cup {<<"set_hook", j>>}
          /\ UNCHANGED hook
       \/ /\ pc[j] = "gather"        \* set_webhook itself failed, perhaps after its effect
          /\ hook' \in {hook, [hook EXCEPT ![sid[j]] = TRUE]}
          /\ UNCHANGED stray
       \/ /\ pc[j] = "hooked"
          /\ UNCHANGED <<stray, hook>>
    /\ UNCHANGED <<assigned, faults>>

\* All answered: the background tasks are created, then assign_to_hub is called.
StartTasks(j) ==
    /\ pc[j] = "hooked"
    /\ tasks' = [tasks EXCEPT ![j] = "running"]
    /\ pc' = [pc EXCEPT ![j] = "assign"]
    /\ UNCHANGED <<kind, sid, subject, raised, bots, monitor, stray, outside, faults, crashes>>

\* Mutant: the object is registered (again) only now that its start is over.
AssignLate(j) ==
    /\ pc[j] = "assign"
    /\ assigned' = [assigned EXCEPT ![sid[j]] = TRUE]
    /\ bots' = [bots EXCEPT ![sid[j]] = j]
    /\ pc' = [pc EXCEPT ![j] = "done"]
    /\ UNCHANGED <<kind, sid, subject, raised, tasks, monitor, stray, hook, faults, crashes>>

Assign(j) ==
    /\ pc[j] = "assign"
    /\ assigned' = [assigned EXCEPT ![sid[j]] = TRUE]
    /\ pc' = [pc EXCEPT ![j] = "done"]
    /\ UNCHANGED <<kind, sid, subject, raised, botVars, hook, faults, crashes>>

AssignFails(j) ==
    /\ pc[j] = "assign"
    /\ FailStart(j)
    /\ assigned' \in {assigned, [assigned EXCEPT ![sid[j]] = TRUE]}
    /\ UNCHANGED <<stray, hook, faults>>

-----------------------------------------------------------------------------
(* Bot.stop.  delete_webhook is answered, fails with a TelegramError, which *)
(* is suppressed, or fails with another exception, which skips the rest.    *)
(* `del bots[service_id]' raises KeyError when there is no entry, and       *)
(* removes the entry of another object when that one is registered.         *)
(* unassign_from_hub is called in any case (finally).                       *)

DeleteAnswers == {"ok", "suppressed", "raised"}
DeleteFaults == [ok |-> {}, suppressed |-> {"delete_failed"},
                 raised |-> {"delete_failed", "stop_aborted"}]

\* Mutant: stop does not call delete_webhook.
KeepWebhook(s, answer) == answer = "ok" /\ UNCHANGED <<hook, faults>>

\* A failed deletion may have had its effect.
DeleteWebhook(s, answer) ==
    /\ \/ hook' = [hook EXCEPT ![s] = FALSE]
       \/ answer # "ok" /\ hook' = hook
    /\ Blame(s, DeleteFaults[answer])

StopRaises(s, answer) == answer = "raised" \/ bots[s] = NoBot

\* BackgroundTaskManager.stop on object i: CancelledError is thrown into the await
\* of the monitor; when it stands in delete_webhook the finally clause still calls
\* unassign_from_hub.
Cut == [idle |-> {}, stop_hook |-> {"delete_hook"}, unassign |-> {"unassign"}]

\* Mutant: BackgroundTaskManager.stop forgets its tasks without cancelling them.
ForgetTasks(i) == UNCHANGED <<tasks, monitor, stray>>

CancelTasks(i) ==
    IF tasks[i] # "running" THEN UNCHANGED <<tasks, monitor, stray>> ELSE
    /\ tasks' = [tasks EXCEPT ![i] = "cancelled"]
    /\ monitor' = [monitor EXCEPT ![i] = IF @ = "stop_hook" THEN "unassign" ELSE "idle"]
    /\ stray' = stray \cup {<<call, i>> : call \in Cut[monitor[i]]}

\* Mutant: stop suppresses every exception of delete_webhook and of the deletion.
StopQuietly(j) ==
    /\ pc[j] = "stop_hook"
    /\ pc' = [pc EXCEPT ![j] = "unassign"]
    /\ \E answer \in DeleteAnswers :
        /\ DeleteWebhook(sid[j], answer)
        /\ IF StopRaises(sid[j], answer) THEN UNCHANGED botVars
             ELSE /\ bots' = [bots EXCEPT ![sid[j]] = NoBot]
                  /\ CancelTasks(subject[j])
    /\ UNCHANGED <<kind, sid, subject, raised, assigned, crashes>>

StopHook(j) ==
    /\ pc[j] = "stop_hook"
    /\ pc' = [pc EXCEPT ![j] = "unassign"]
    /\ \E answer \in DeleteAnswers :
        /\ DeleteWebhook(sid[j], answer)
        /\ IF StopRaises(sid[j], answer)
             THEN /\ raised' = [raised EXCEPT ![j] = TRUE]
                  /\ UNCHANGED botVars
             ELSE /\ bots' = [bots EXCEPT ![sid[j]] = NoBot]
                  /\ CancelTasks(subject[j])
                  /\ UNCHANGED raised
    /\ UNCHANGED <<kind, sid, subject, assigned, crashes>>

\* _restart_bot goes on to _start_bot only after a stop that raised nothing.
AfterStop(j, failed) ==
    LET goesOn == kind[j] = "restart" /\ subject[j] # j /\ ~failed IN
    /\ pc' = [pc EXCEPT ![j] = IF goesOn THEN "sem" ELSE "done"]
    /\ subject' = [subject EXCEPT ![j] = IF goesOn THEN j ELSE @]
    /\ raised' = [raised EXCEPT ![j] = failed]

\* Mutant: an early return skips unassign_from_hub.
SkipUnassign(j) ==
    /\ pc[j] = "unassign"
    /\ AfterStop(j, raised[j])
    /\ UNCHANGED <<kind, sid, botVars, outside, faults, crashes>>

Unassign(j) ==
    /\ pc[j] = "unassign"
    /\ assigned' = [assigned EXCEPT ![sid[j]] = FALSE]
    /\ AfterStop(j, raised[j])
    /\ UNCHANGED <<kind, sid, botVars, hook, faults, crashes>>

UnassignFails(j) ==
    /\ pc[j] = "unassign"
    /\ assigned' \in {assigned, [assigned EXCEPT ![sid[j]] = FALSE]}
    /\ Blame(sid[j], {"unassign_failed"})
    /\ AfterStop(j, TRUE)
    /\ UNCHANGED <<kind, sid, botVars, hook, crashes>>

-----------------------------------------------------------------------------
(* MonitorTokenTask in the background tasks of object i.                    *)

\* get_me raised InvalidTokenError.
MonitorDetects(i) ==
    /\ tasks[i] = "running" /\ monitor[i] = "idle"
    /\ monitor' = [monitor EXCEPT ![i] = "stop_hook"]
    /\ UNCHANGED <<jobVars, bots, tasks, stray, outside, faults, crashes>>

\* The monitor cancels the tasks of its bot, itself included: the call of
\* unassign_from_hub is cancelled at its first await.
MonitorStopHook(i) ==
    /\ monitor[i] = "stop_hook"
    /\ \E answer \in DeleteAnswers :
        /\ DeleteWebhook(sid[i], answer)
        /\ IF StopRaises(sid[i], answer)
             THEN /\ monitor' = [monitor EXCEPT ![i] = "unassign"]
                  /\ UNCHANGED <<bots, tasks, stray>>
             ELSE /\ bots' = [bots EXCEPT ![sid[i]] = NoBot]
                  /\ tasks' = [tasks EXCEPT ![i] = "cancelled"]
                  /\ monitor' = [monitor EXCEPT ![i] = "idle"]
                  /\ stray' = stray \cup {<<"unassign", i>>}
    /\ UNCHANGED <<jobVars, assigned, crashes>>

\* Answered or failed, with or without effect; _run_task catches the exception.
MonitorUnassign(i) ==
    /\ monitor[i] = "unassign"
    /\ monitor' = [monitor EXCEPT ![i] = "idle"]
    /\ assigned' \in {assigned, [assigned EXCEPT ![sid[i]] = FALSE]}
    /\ Blame(sid[i], {"late_unassign"})
    /\ UNCHANGED <<jobVars, bots, tasks, stray, hook, crashes>>

-----------------------------------------------------------------------------
(* Calls nobody awaits, and the crash of the process.                       *)

StrayLands(c) ==
    LET s == sid[c[2]] IN
    /\ c \in stray
    /\ stray' = stray \ {c}
    /\ \/ c[1] = "set_hook" /\ hook' = [hook EXCEPT ![s] = TRUE] /\ Blame(s, {"late_set"}) /\ UNCHANGED assigned
       \/ c[1] = "delete_hook" /\ hook' = [hook EXCEPT ![s] = FALSE] /\ Blame(s, {"late_delete"}) /\ UNCHANGED assigned
       \/ c[1] = "unassign" /\ assigned' = [assigned EXCEPT ![s] = FALSE] /\ Blame(s, {"late_unassign"}) /\ UNCHANGED hook
    /\ UNCHANGED <<jobVars, bots, tasks, monitor, crashes>>

StrayLost(c) ==
    /\ c \in stray
    /\ stray' = stray \ {c}
    /\ IF c[1] = "unassign" THEN Blame(sid[c[2]], {"unassign_lost"}) ELSE UNCHANGED faults
    /\ UNCHANGED <<jobVars, bots, tasks, monitor, outside, crashes>>

\* A call on its way when the process dies takes effect before the next process
\* serves a request, or never.
HubCrash ==
    LET InFlight(s) == {pc[j] : j \in {k \in Jobs : sid[k] = s}} 
                       \cup {monitor[j] : j \in {k \in Jobs : sid[k] = s}}
                       \cup {c[1] : c \in {d \in stray : sid[d[2]] = s}}
    IN
    /\ crashes < MaxCrashes
    /\ crashes' = crashes + 1
    /\ bots' = [s \in ServiceIds |-> NoBot]
    /\ pc' = [j \in Jobs |-> IF Active(j) THEN "done" ELSE pc[j]]
    /\ raised' = [j \in Jobs |-> raised[j] \/ Active(j)]
    /\ tasks' = [j \in Jobs |-> IF tasks[j] = "running" THEN "cancelled" ELSE tasks[j]]
    /\ monitor' = [j \in Jobs |-> "idle"]
    /\ stray' = {}
    /\ hook' \in [ServiceIds -> BOOLEAN]
    /\ \A s \in ServiceIds : hook'[s] # hook[s] =>
          InFlight(s) \cap (IF hook'[s] THEN {"gather", "set_hook"} ELSE {"stop_hook", "delete_hook"}) # {}
    /\ assigned' \in [ServiceIds -> BOOLEAN]
    /\ \A s \in ServiceIds : assigned'[s] # assigned[s] =>
          InFlight(s) \cap (IF assigned'[s] THEN {"assign"} ELSE {"unassign"}) # {}
    /\ faults' = [s \in ServiceIds |-> faults[s] \cup {"crash"}]
    /\ UNCHANGED <<kind, sid, subject>>

-----------------------------------------------------------------------------

Request(j) == \E s \in ServiceIds :
    StartBots(j, s) \/ StartBot(j, s) \/ RestartBot(j, s) \/ StopBot(j, s)
Enter(j) == Register(j) \/ RejectToken(j)
Resume(j) ==
    \/ WebhookSet(j) \/ GatherFails(j) \/ StartTasks(j) \/ Assign(j) \/ AssignFails(j)
    \/ StopHook(j) \/ Unassign(j) \/ UnassignFails(j)
MonitorResume(i) == MonitorStopHook(i) \/ MonitorUnassign(i)
Stray(c) == StrayLands(c) \/ StrayLost(c)

Next ==
    \/ \E j \in Jobs : Request(j) \/ Enter(j) \/ Resume(j)
    \/ \E i \in Jobs : MonitorDetects(i) \/ MonitorResume(i)
    \/ \E c \in Calls \X Jobs : Stray(c)
    \/ HubCrash

Spec == Init /\ [][Next]_vars

-----------------------------------------------------------------------------
(* Properties.  Where the main service overlaps requests (~Disciplined) the *)
(* code does not keep them; the run `stop_during_start' shows one way.      *)

\* A Bot object whose background tasks run is the one the registry holds for its
\* service id: otherwise no request could ever stop it (Bot.stop deletes the entry
\* and cancels the tasks without an await between; Bot.start creates them).
NoOrphan == \A i \in Jobs : tasks[i] = "running" => bots[sid[i]] = i

\* After a stop that ended without an exception, the object it stopped stays
\* unregistered and without tasks, whatever calls were in flight at the time.
StoppedStays == \A j \in Jobs :
    (kind[j] = "stop" /\ pc[j] = "done" /\ ~raised[j]) =>
        bots[sid[j]] # subject[j] /\ tasks[subject[j]] # "running"

Settled(s) ==
    /\ ~Busy(s)
    /\ \A i \in Jobs : sid[i] = s => monitor[i] = "idle" /\ \A c \in Calls : <<c, i>> \notin stray

\* Once nothing is under way for an unregistered bot, its webhook is gone, unless
\* deleting it failed, the hub crashed, or the set_webhook of a failed start, which
\* gather leaves running, was handled after delete_webhook.
WebhookRemoved == \A s \in ServiceIds :
    Settled(s) /\ bots[s] = NoBot /\ hook[s] =>
        faults[s] \cap {"delete_failed", "late_set", "crash"} # {}

\* Likewise it is no longer assigned to this hub, unless unassign_from_hub failed,
\* the hub crashed, or the token monitor stopped the bot: the monitor cancels
\* itself first, so its own call of unassign_from_hub may be lost.
AssignmentRemoved == \A s \in ServiceIds :
    Settled(s) /\ bots[s] = NoBot /\ assigned[s] =>
        faults[s] \cap {"unassign_failed", "unassign_lost", "late_unassign", "crash"} # {}

\* Once nothing is under way for a registered bot it is in service: its tasks run,
\* its webhook is set and it is assigned to the hub; unless a stop was aborted by an
\* exception of delete_webhook that is no TelegramError, or a call abandoned by the
\* stop of an earlier object of this bot took effect late.
RegisteredServes == \A s \in ServiceIds :
    Settled(s) /\ bots[s] # NoBot =>
        \/ tasks[bots[s]] = "running" /\ hook[s] /\ assigned[s]
        \/ faults[s] \cap {"stop_aborted", "late_unassign", "late_delete"} # {}

\* Where the Bot object of job i stands, as far as the registry is concerned.
Life(i) ==
    IF tasks[i] = "running" THEN "working"
    ELSE IF subject[i] # i \/ pc[i] \in {"free", "sem"} THEN "new"
    ELSE IF bots[sid[i]] = i THEN "entered" ELSE "gone"

Registry == INSTANCE BotRegistry WITH
    Ids <- ServiceIds, Objects <- Jobs, Nothing <- NoBot,
    entry <- bots, life <- [i \in Jobs |-> Life(i)]

\* One request per bot at a time makes the dict a registry: no entry is overwritten,
\* an entry and its tasks go together, and an object that was stopped never returns.
IsRegistry == Registry!Spec

\* src/api/exception_handlers.py:18 says of an unregistered bot that "it is not
\* started here".
NotFoundIsNotStarted == \A i \in Jobs : bots[sid[i]] = NoBot => tasks[i] # "running"
=============================================================================
