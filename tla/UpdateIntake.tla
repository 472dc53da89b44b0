---------------------------- MODULE UpdateIntake ----------------------------
(***************************************************************************)
(* Updates of Telegram beside the life of the bots: src/api/router.py      *)
(* (bot_webhook), src/bot/bot.py (feed_webhook_update, the check of the    *)
(* subjects, Bot.me) and the beginning of Handler.handle_update.  An       *)
(* update is answered with 202 as soon as the registry has an object for   *)
(* it; what happens to it afterwards Telegram never learns.  The object    *)
(* may be starting, stopped or replaced while the update is worked on.     *)
(***************************************************************************)
EXTENDS BotLifecycle

CONSTANT Updates    \* updates that reach the hub; bound on their number

VARIABLES
    me,        \* Bot objects whose start() has got the answer of getMe
    phase,     \* update -> where it stands
    receiver,  \* update being checked -> Bot object whose feed_webhook_update was scheduled
    ready      \* history: updates whose receiver had started when they arrived,
               \* while they are checked and once they are lost

updateVars == <<phase, receiver, ready>>
intakeVars == <<vars, me, updateVars>>

IntakeInit ==
    /\ Init
    /\ me = {}
    /\ phase = [u \in Updates |-> "new"]
    /\ receiver = [u \in Updates |-> NoBot]
    /\ ready = {}

\* The hub is done with the update, or has handed it to the flows.
Release(u) ==
    /\ phase' = [phase EXCEPT ![u] = "ended"]
    /\ receiver' = [receiver EXCEPT ![u] = NoBot]
    /\ ready' = ready \ {u}
    /\ UNCHANGED <<vars, me>>

\* ValidBot finds no object: 400, and Telegram will try again.
Refuse(u, s) == phase[u] = "new" /\ bots[s] = NoBot /\ Release(u)

\* 202: the method of the object that is registered now will be called.
Accept(u, s) ==
    /\ phase[u] = "new" /\ bots[s] # NoBot
    /\ phase' = [phase EXCEPT ![u] = "check"]
    /\ receiver' = [receiver EXCEPT ![u] = bots[s]]
    /\ ready' = IF bots[s] \in me THEN ready \cup {u} ELSE ready
    /\ UNCHANGED <<vars, me>>

\* No chat (as in a pre-checkout query), a subject that is not allowed, or a failed call
\* to the service.
Drop(u) == phase[u] = "check" /\ Release(u)

\* Mutant: the object is looked up in the registry again after the check.
LookedUpAgain(u) == bots[sid[receiver[u]]]

Handling(u) == receiver[u]

\* The variables of the context ask for bot.me before any flow starts.
HandleUpdate(u) == phase[u] = "check" /\ Handling(u) \in me /\ Release(u)

\* bot.me raises `Bot is not started yet': Telegram, which got its 202, never learns.
LoseUpdate(u) ==
    /\ phase[u] = "check" /\ Handling(u) \notin me
    /\ phase' = [phase EXCEPT ![u] = "lost"]
    /\ receiver' = [receiver EXCEPT ![u] = NoBot]
    /\ UNCHANGED <<vars, me, ready>>

-----------------------------------------------------------------------------

\* Bot.start assigns `_me' when the gather is over, just before it creates the tasks.
KeepMe ==
    /\ me' = me \cup {i \in Jobs : pc[i] = "hooked" /\ pc'[i] = "assign"}
    /\ UNCHANGED updateVars

\* The updates that were being checked die with the process.
CrashCuts ==
    /\ HubCrash
    /\ me' = {}
    /\ phase' = [u \in Updates |-> IF phase[u] = "check" THEN "ended" ELSE phase[u]]
    /\ receiver' = [u \in Updates |-> NoBot]
    /\ ready' = {u \in ready : phase[u] = "lost"}

IntakeNext ==
    \/ \E j \in Jobs : (Request(j) \/ Enter(j) \/ Resume(j)) /\ KeepMe
    \/ \E i \in Jobs : (MonitorDetects(i) \/ MonitorResume(i)) /\ KeepMe
    \/ \E c \in Calls \X Jobs : Stray(c) /\ KeepMe
    \/ CrashCuts
    \/ \E u \in Updates, s \in ServiceIds : Refuse(u, s) \/ Accept(u, s)
    \/ \E u \in Updates : Drop(u) \/ HandleUpdate(u) \/ LoseUpdate(u)

IntakeSpec == IntakeInit /\ [][IntakeNext]_intakeVars

\* Every call to Telegram or the service is answered or fails at last, and the event
\* loop resumes the coroutine then; the semaphore wakes a waiter when a permit is free.
FairSpec ==
    /\ IntakeSpec
    /\ \A j \in Jobs : /\ WF_intakeVars(Enter(j) /\ KeepMe)
                       /\ WF_intakeVars(Resume(j) /\ KeepMe)

-----------------------------------------------------------------------------

IntakeTypeOK ==
    /\ me \subseteq Jobs
    /\ phase \in [Updates -> {"new", "check", "ended", "lost"}]
    /\ receiver \in [Updates -> Jobs \cup {NoBot}]
    /\ ready \subseteq Updates

\* An update that reached a started object is never lost to `Bot is not started yet',
\* however the bot is stopped or restarted while the update waits for the service: only
\* updates that arrive while the gather of Bot.start is awaited are lost.
ReadyNotLost == \A u \in ready : phase[u] # "lost"

\* Every start, restart and stop that was accepted ends, whatever fails on its way:
\* each permit of bot_start_sem that was taken is given back.
EveryJobEnds == \A j \in Jobs : pc[j] # "free" ~> pc[j] = "done"
=============================================================================
