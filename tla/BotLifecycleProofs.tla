------------------------- MODULE BotLifecycleProofs -------------------------
(***************************************************************************)
(* Under the discipline of the main service (one lifecycle request per bot *)
(* at a time) the registry and the running tasks agree, for any number of  *)
(* bots, requests, permits and crashes; and so do Telegram and the main    *)
(* service once nothing is under way.  With updates beside (UpdateIntake)  *)
(* the system is still this one, and no update is lost by a started bot.   *)
(***************************************************************************)
EXTENDS UpdateIntake, FiniteSetTheorems, TLAPS

(* The inductive invariant, in named parts.                                *)

\* A job that was not spawned has left no trace.
FreeUntouched == \A j \in Jobs : pc[j] = "free" =>
    /\ tasks[j] = "none"
    /\ \A s \in ServiceIds : bots[s] # j
    /\ \A k \in Jobs : subject[k] = j => k = j

OneJobPerBot == \A j, k \in Jobs :
    Active(j) /\ Active(k) /\ sid[j] = sid[k] => j = k

\* The object of job i was registered at some time.
Born(i) == subject[i] = i /\ pc[i] \notin {"free", "sem"}

RegistryFits == \A s \in ServiceIds, i \in Jobs :
    bots[s] = i => sid[i] = s /\ Born(i)

SubjectFits == \A j \in Jobs : sid[subject[j]] = sid[j]

\* What the registry holds for the bot of a job, by where the job stands.
JobSees == \A j \in Jobs :
    /\ pc[j] = "sem" => bots[sid[j]] = NoBot
    /\ pc[j] \in {"gather", "hooked"} => bots[sid[j]] = j /\ tasks[j] # "running"
    /\ pc[j] = "assign" => bots[sid[j]] \in {NoBot, j}
    /\ pc[j] = "stop_hook" => bots[sid[j]] \in {NoBot, subject[j]}
    /\ pc[j] = "unassign" /\ ~raised[j] => bots[sid[j]] = NoBot

Working == \A j \in Jobs : pc[j] \in {"sem", "gather", "hooked", "assign"} =>
    subject[j] = j /\ kind[j] # "stop"

MonitorRuns == \A i \in Jobs : monitor[i] = "stop_hook" => tasks[i] = "running"

StopsBorn == \A j \in Jobs : kind[j] = "stop" /\ pc[j] # "free" =>
    /\ Born(subject[j])
    /\ pc[j] = "done" /\ ~raised[j] => bots[sid[j]] # subject[j]

IInv == /\ TypeOK /\ FreeUntouched /\ OneJobPerBot /\ RegistryFits /\ SubjectFits
        /\ JobSees /\ Working /\ MonitorRuns /\ NoOrphan /\ StopsBorn

-----------------------------------------------------------------------------

LEMMA CancelTasksTypes ==
    ASSUME TypeOK, NEW i \in Jobs, CancelTasks(i)
    PROVE  /\ tasks' \in [Jobs -> {"none", "running", "cancelled"}]
           /\ monitor' \in [Jobs -> {"idle", "stop_hook", "unassign"}]
           /\ stray' \subseteq Calls \X Jobs
<1>1. CASE tasks[i] # "running"
  BY <1>1 DEF CancelTasks, TypeOK
<1>2. CASE tasks[i] = "running"
  <2>1. Cut[monitor[i]] \subseteq Calls
    BY DEF TypeOK, Cut, Calls
  <2> QED  BY <1>2, <2>1 DEF CancelTasks, TypeOK
<1> QED  BY <1>1, <1>2

LEMMA BlameTypes ==
    ASSUME TypeOK, NEW s \in ServiceIds, NEW kinds \in SUBSET Faults, Blame(s, kinds)
    PROVE  faults' \in [ServiceIds -> SUBSET Faults]
BY DEF Blame, TypeOK

LEMMA DeleteWebhookTypes ==
    ASSUME TypeOK, NEW s \in ServiceIds, NEW answer \in DeleteAnswers,
           DeleteWebhook(s, answer)
    PROVE  /\ hook' \in [ServiceIds -> BOOLEAN]
           /\ faults' \in [ServiceIds -> SUBSET Faults]
<1>1. DeleteFaults[answer] \in SUBSET Faults
  BY DEF DeleteAnswers, DeleteFaults, Faults
<1>2. faults' \in [ServiceIds -> SUBSET Faults]
  BY <1>1, BlameTypes DEF DeleteWebhook
<1>3. hook' \in [ServiceIds -> BOOLEAN]
  BY DEF DeleteWebhook, TypeOK
<1> QED  BY <1>2, <1>3

\* The initial state is typed.
LEMMA TypeInit == Init => TypeOK
<1>1. (CHOOSE s \in ServiceIds : TRUE) \in ServiceIds
  BY IdsAssumption
<1> QED  BY <1>1, BoundsAssumption DEF Init, TypeOK, States, Faults

\* Every step keeps the types.
LEMMA TypeStep == TypeOK /\ [Next]_vars => TypeOK'
<1> SUFFICES ASSUME TypeOK, [Next]_vars PROVE TypeOK'
  OBVIOUS
<1> USE DEF jobVars, botVars, outside
<1>1. ASSUME NEW j \in Jobs, Request(j) PROVE TypeOK'
  BY <1>1 DEF Request, StartBots, StartBot, RestartBot, StopBot, Spawn, TypeOK, States
<1>2. ASSUME NEW j \in Jobs, Register(j) PROVE TypeOK'
  BY <1>2 DEF Register, TypeOK, States
<1>3. ASSUME NEW j \in Jobs, RejectToken(j) PROVE TypeOK'
  BY <1>3 DEF RejectToken, TypeOK, States
<1>4. ASSUME NEW j \in Jobs, WebhookSet(j) PROVE TypeOK'
  BY <1>4 DEF WebhookSet, TypeOK, States
<1>5. ASSUME NEW j \in Jobs, GatherFails(j) PROVE TypeOK'
  <2>1. stray' \subseteq Calls \X Jobs
    BY <1>5 DEF GatherFails, FailStart, TypeOK, Calls
  <2>2. hook' \in [ServiceIds -> BOOLEAN]
    BY <1>5 DEF GatherFails, FailStart, TypeOK
  <2> QED  BY <1>5, <2>1, <2>2 DEF GatherFails, FailStart, TypeOK, States
<1>6. ASSUME NEW j \in Jobs, StartTasks(j) PROVE TypeOK'
  BY <1>6 DEF StartTasks, TypeOK, States
<1>7. ASSUME NEW j \in Jobs, Assign(j) PROVE TypeOK'
  BY <1>7 DEF Assign, TypeOK, States
<1>8. ASSUME NEW j \in Jobs, AssignFails(j) PROVE TypeOK'
  BY <1>8 DEF AssignFails, FailStart, TypeOK, States
<1>9. ASSUME NEW j \in Jobs, StopHook(j) PROVE TypeOK'
  <2>1. sid[j] \in ServiceIds /\ subject[j] \in Jobs
    BY DEF TypeOK
  <2>2. /\ hook' \in [ServiceIds -> BOOLEAN]
        /\ faults' \in [ServiceIds -> SUBSET Faults]
    BY <1>9, <2>1, DeleteWebhookTypes DEF StopHook
  <2>3. /\ tasks' \in [Jobs -> {"none", "running", "cancelled"}]
        /\ monitor' \in [Jobs -> {"idle", "stop_hook", "unassign"}]
        /\ stray' \subseteq Calls \X Jobs
    BY <1>9, <2>1, CancelTasksTypes DEF StopHook, TypeOK
  <2>4. bots' \in [ServiceIds -> Jobs \cup {NoBot}] /\ raised' \in [Jobs -> BOOLEAN]
    BY <1>9 DEF StopHook, TypeOK
  <2> QED  BY <1>9, <2>2, <2>3, <2>4 DEF StopHook, TypeOK, States
<1>10. ASSUME NEW j \in Jobs, Unassign(j) PROVE TypeOK'
  BY <1>10 DEF Unassign, AfterStop, TypeOK, States
<1>11. ASSUME NEW j \in Jobs, UnassignFails(j) PROVE TypeOK'
  BY <1>11, BlameTypes DEF UnassignFails, AfterStop, TypeOK, States, Faults
<1>12. ASSUME NEW i \in Jobs, MonitorDetects(i) PROVE TypeOK'
  BY <1>12 DEF MonitorDetects, TypeOK
<1>13. ASSUME NEW i \in Jobs, MonitorStopHook(i) PROVE TypeOK'
  <2>1. sid[i] \in ServiceIds
    BY DEF TypeOK
  <2>2. /\ hook' \in [ServiceIds -> BOOLEAN]
        /\ faults' \in [ServiceIds -> SUBSET Faults]
    BY <1>13, <2>1, DeleteWebhookTypes DEF MonitorStopHook
  <2> QED  BY <1>13, <2>2 DEF MonitorStopHook, TypeOK, Calls
<1>14. ASSUME NEW i \in Jobs, MonitorUnassign(i) PROVE TypeOK'
  BY <1>14, BlameTypes DEF MonitorUnassign, TypeOK, Faults
<1>15. ASSUME NEW c \in Calls \X Jobs, Stray(c) PROVE TypeOK'
  <2>1. c[2] \in Jobs
    BY DEF Calls
  <2>2. faults' \in [ServiceIds -> SUBSET Faults]
    BY <1>15, <2>1, BlameTypes DEF Stray, StrayLands, StrayLost, TypeOK, Faults
  <2> QED  BY <1>15, <2>1, <2>2 DEF Stray, StrayLands, StrayLost, TypeOK
<1>16. ASSUME HubCrash PROVE TypeOK'
  <2>1. crashes' \in 0 .. MaxCrashes
    BY <1>16, BoundsAssumption DEF HubCrash, TypeOK
  <2>2. pc' \in [Jobs -> States] /\ raised' \in [Jobs -> BOOLEAN]
    BY <1>16 DEF HubCrash, TypeOK, States, Active
  <2>3. faults' \in [ServiceIds -> SUBSET Faults]
    BY <1>16 DEF HubCrash, TypeOK, Faults
  <2>4. hook' \in [ServiceIds -> BOOLEAN] /\ assigned' \in [ServiceIds -> BOOLEAN]
    BY <1>16 DEF HubCrash
  <2> QED  BY <1>16, <2>1, <2>2, <2>3, <2>4 DEF HubCrash, TypeOK
<1>17. CASE UNCHANGED vars
  BY <1>17 DEF vars, TypeOK
<1> QED
  BY <1>1, <1>2, <1>3, <1>4, <1>5, <1>6, <1>7, <1>8, <1>9, <1>10, <1>11, <1>12,
     <1>13, <1>14, <1>15, <1>16, <1>17 DEF Next, Enter, Resume, MonitorResume

\* Every variable of the model keeps its type, however requests overlap.
THEOREM TypeCorrect == Spec => []TypeOK
BY TypeInit, TypeStep, PTL DEF Spec

-----------------------------------------------------------------------------
(* The inductive invariant is kept.  The facts of one action that concern  *)
(* the registry and the tasks come first, then its other conjuncts.        *)

LEMMA InvInit == Init => IInv
<1>1. (CHOOSE s \in ServiceIds : TRUE) \in ServiceIds
  BY IdsAssumption
<1> QED
  BY <1>1, TypeInit, NoBotAssumption DEF Init, IInv, FreeUntouched, OneJobPerBot, RegistryFits,
     SubjectFits, JobSees, Working, MonitorRuns, NoOrphan, StopsBorn, Active, Born

\* What IInv says without the types.
Agreement == /\ FreeUntouched /\ OneJobPerBot /\ RegistryFits /\ SubjectFits
             /\ JobSees /\ Working /\ MonitorRuns /\ NoOrphan /\ StopsBorn

\* A new job has a service id and a bot of its own.
LEMMA RequestKeeps ==
    ASSUME Disciplined, IInv, TypeOK', NEW j \in Jobs, Request(j)
    PROVE  Agreement'
<1> USE DEF jobVars, botVars, outside
<1> PICK s \in ServiceIds : StartBots(j, s) \/ StartBot(j, s) \/ RestartBot(j, s) \/ StopBot(j, s)
  BY DEF Request
<1> PICK k \in {"start", "restart", "stop"}, i \in Jobs, first \in {"sem", "stop_hook"} :
       /\ Spawn(j, k, s, i, first)
       /\ \/ k = "start" /\ first = "sem" /\ i = j /\ bots[s] = NoBot
          \/ k # "start" /\ first = "stop_hook" /\ bots[s] = i
  BY NoBotAssumption DEF StartBots, StartBot, RestartBot, StopBot, IInv, TypeOK
<1>1. /\ pc[j] = "free" /\ ~Busy(s)
      /\ kind' = [kind EXCEPT ![j] = k] /\ sid' = [sid EXCEPT ![j] = s]
      /\ subject' = [subject EXCEPT ![j] = i] /\ pc' = [pc EXCEPT ![j] = first]
      /\ UNCHANGED <<raised, bots, tasks, monitor>>
  BY DEF Spawn
<1>2. tasks[j] = "none" /\ (\A r \in ServiceIds : bots[r] # j)
      /\ (\A h \in Jobs : subject[h] = j => h = j)
  BY <1>1 DEF IInv, FreeUntouched
<1>3. FreeUntouched'
  BY <1>1, <1>2 DEF FreeUntouched, IInv, TypeOK
<1>4. OneJobPerBot'
  BY <1>1 DEF OneJobPerBot, IInv, TypeOK, Active, Busy
<1>5. RegistryFits'
  BY <1>1, <1>2 DEF RegistryFits, Born, IInv, TypeOK
<1>6. SubjectFits'
  BY <1>1, <1>2 DEF SubjectFits, RegistryFits, IInv, TypeOK
<1>7. JobSees'
  BY <1>1, <1>2 DEF JobSees, IInv, TypeOK
<1>8. Working'
  BY <1>1 DEF Working, IInv, TypeOK
<1>9. MonitorRuns' /\ NoOrphan'
  BY <1>1, <1>2 DEF MonitorRuns, NoOrphan, IInv, TypeOK
<1>10. StopsBorn'
  BY <1>1, <1>2 DEF StopsBorn, RegistryFits, Born, IInv, TypeOK
<1> QED  BY <1>3, <1>4, <1>5, <1>6, <1>7, <1>8, <1>9, <1>10 DEF Agreement

\* A new object is registered only where nothing is.
LEMMA RegisterKeeps ==
    ASSUME Disciplined, IInv, TypeOK', NEW j \in Jobs, Register(j)
    PROVE  Agreement'
<1>1. /\ pc[j] = "sem" /\ bots[sid[j]] = NoBot /\ subject[j] = j
      /\ bots' = [bots EXCEPT ![sid[j]] = j] /\ pc' = [pc EXCEPT ![j] = "gather"]
      /\ UNCHANGED <<kind, sid, subject, raised, tasks, monitor>>
  BY DEF Register, IInv, JobSees, Working
<1>2. \A k \in Jobs : Active(k) /\ sid[k] = sid[j] => k = j
  BY <1>1 DEF IInv, OneJobPerBot, Active
<1>3. FreeUntouched' /\ OneJobPerBot' /\ SubjectFits' /\ Working' /\ MonitorRuns'
  BY <1>1 DEF IInv, TypeOK, FreeUntouched, OneJobPerBot, SubjectFits, Working, MonitorRuns, Active
<1>4. RegistryFits'
  BY <1>1 DEF IInv, TypeOK, RegistryFits, Born
<1>5. JobSees'
  <2>1. tasks[j] # "running"
    BY <1>1, NoBotAssumption DEF IInv, NoOrphan
  <2>2. ASSUME NEW k \in Jobs, k # j, Active(k)
        PROVE  bots'[sid[k]] = bots[sid[k]] /\ pc'[k] = pc[k]
    BY <1>1, <1>2, <2>2 DEF IInv, TypeOK
  <2>3. bots'[sid[j]] = j /\ pc'[j] = "gather"
    BY <1>1 DEF IInv, TypeOK
  <2>4. \A k \in Jobs : k # j /\ ~Active(k) => pc'[k] \in {"free", "done"}
    BY <1>1 DEF IInv, TypeOK, Active
  <2> QED  BY <1>1, <2>1, <2>2, <2>3, <2>4 DEF IInv, JobSees
<1>6. NoOrphan'
  BY <1>1, NoBotAssumption DEF IInv, TypeOK, NoOrphan
<1>7. StopsBorn'
  BY <1>1 DEF IInv, TypeOK, StopsBorn, Born
<1> QED  BY <1>3, <1>4, <1>5, <1>6, <1>7 DEF Agreement

\* Actions of a start that touch neither the registry nor the tasks.
LEMMA StartKeeps ==
    ASSUME Disciplined, IInv, TypeOK', NEW j \in Jobs,
           RejectToken(j) \/ WebhookSet(j) \/ GatherFails(j) \/ Assign(j) \/ AssignFails(j)
    PROVE  Agreement'
<1>1. /\ pc[j] \in {"sem", "gather", "hooked", "assign"} /\ subject[j] = j /\ kind[j] # "stop"
      /\ UNCHANGED <<kind, sid, subject, bots, tasks, monitor>>
  BY DEF RejectToken, WebhookSet, GatherFails, FailStart, Assign, AssignFails, IInv, Working,
         botVars, outside
<1>2. /\ \/ pc' = [pc EXCEPT ![j] = "done"]
         \/ pc[j] = "gather" /\ pc' = [pc EXCEPT ![j] = "hooked"]
         \/ pc[j] # "sem" /\ pc' = [pc EXCEPT ![j] = "stop_hook"]
      /\ raised' \in {raised, [raised EXCEPT ![j] = TRUE]}
  BY DEF RejectToken, WebhookSet, GatherFails, FailStart, Assign, AssignFails
<1>3. FreeUntouched' /\ SubjectFits' /\ MonitorRuns' /\ NoOrphan'
  BY <1>1, <1>2 DEF IInv, TypeOK, FreeUntouched, SubjectFits, MonitorRuns, NoOrphan
<1>7. OneJobPerBot'
  BY <1>1, <1>2 DEF IInv, TypeOK, OneJobPerBot, Active
<1>8. Working'
  BY <1>1, <1>2 DEF IInv, TypeOK, Working
<1>4. RegistryFits'
  BY <1>1, <1>2 DEF IInv, TypeOK, RegistryFits, JobSees, Born
<1>5. JobSees'
  BY <1>1, <1>2 DEF IInv, TypeOK, JobSees
<1>6. StopsBorn'
  BY <1>1, <1>2 DEF IInv, TypeOK, StopsBorn, Born
<1> QED  BY <1>3, <1>4, <1>5, <1>6, <1>7, <1>8 DEF Agreement

\* Bot.start creates the tasks of an object that is still registered: nothing
\* could have removed it since Register.
LEMMA StartTasksKeeps ==
    ASSUME Disciplined, IInv, TypeOK', NEW j \in Jobs, StartTasks(j)
    PROVE  Agreement'
<1>1. /\ pc[j] = "hooked" /\ bots[sid[j]] = j
      /\ tasks' = [tasks EXCEPT ![j] = "running"] /\ pc' = [pc EXCEPT ![j] = "assign"]
      /\ UNCHANGED <<kind, sid, subject, raised, bots, monitor>>
  BY DEF StartTasks, IInv, JobSees
<1> QED
  BY <1>1 DEF IInv, TypeOK, Agreement, FreeUntouched, OneJobPerBot, SubjectFits, Working,
     MonitorRuns, NoOrphan, Active, RegistryFits, JobSees, StopsBorn, Born

LEMMA CancelTasksEffect ==
    ASSUME TypeOK, NEW i \in Jobs, CancelTasks(i)
    PROVE  /\ tasks'[i] # "running"
           /\ tasks[i] = "none" => tasks'[i] = "none"
           /\ \A k \in Jobs : k # i => tasks'[k] = tasks[k] /\ monitor'[k] = monitor[k]
           /\ monitor'[i] = "stop_hook" => tasks[i] # "running" /\ monitor[i] = "stop_hook"
BY DEF CancelTasks, TypeOK

\* The entry and the tasks of the object go in one step.
LEMMA StopHookKeeps ==
    ASSUME Disciplined, IInv, TypeOK', NEW j \in Jobs, StopHook(j)
    PROVE  Agreement'
<1>1. /\ pc[j] = "stop_hook" /\ bots[sid[j]] \in {NoBot, subject[j]}
      /\ pc' = [pc EXCEPT ![j] = "unassign"]
      /\ UNCHANGED <<kind, sid, subject>>
      /\ subject[j] \in Jobs /\ sid[j] \in ServiceIds /\ sid[subject[j]] = sid[j]
  BY DEF StopHook, IInv, JobSees, TypeOK, SubjectFits
<1>2. CASE raised' = [raised EXCEPT ![j] = TRUE] /\ UNCHANGED botVars
  BY <1>1, <1>2 DEF IInv, TypeOK, Agreement, FreeUntouched, OneJobPerBot, SubjectFits, Working,
     MonitorRuns, NoOrphan, Active, RegistryFits, JobSees, StopsBorn, Born, botVars
<1>3. CASE /\ bots' = [bots EXCEPT ![sid[j]] = NoBot]
           /\ CancelTasks(subject[j])
           /\ UNCHANGED raised
  <2>1. /\ tasks'[subject[j]] # "running"
        /\ tasks[subject[j]] = "none" => tasks'[subject[j]] = "none"
        /\ \A k \in Jobs : k # subject[j] => tasks'[k] = tasks[k] /\ monitor'[k] = monitor[k]
        /\ monitor'[subject[j]] = "stop_hook" =>
              tasks[subject[j]] # "running" /\ monitor[subject[j]] = "stop_hook"
    BY <1>1, <1>3, CancelTasksEffect DEF IInv
  <2>2. FreeUntouched'
    BY <1>1, <1>3, <2>1, NoBotAssumption DEF IInv, TypeOK, FreeUntouched
  <2>3. OneJobPerBot' /\ SubjectFits' /\ Working'
    BY <1>1, <1>3 DEF IInv, TypeOK, OneJobPerBot, SubjectFits, Working, Active
  <2>4. RegistryFits'
    BY <1>1, <1>3, NoBotAssumption DEF IInv, TypeOK, RegistryFits, Born
  <2>8. JobSees'
    <3>1. \A k \in Jobs : Active(k) /\ sid[k] = sid[j] => k = j
      BY <1>1 DEF IInv, OneJobPerBot, Active
    <3>2. \A k \in Jobs : tasks'[k] = "running" => tasks[k] = "running"
      BY <2>1
    <3> QED  BY <1>1, <1>3, <3>1, <3>2 DEF IInv, TypeOK, JobSees, Active
  <2>5. MonitorRuns'
    BY <2>1, <1>1 DEF IInv, MonitorRuns
  <2>6. NoOrphan'
    BY <1>1, <1>3, <2>1 DEF IInv, TypeOK, NoOrphan
  <2>7. StopsBorn'
    BY <1>1, <1>3, NoBotAssumption DEF IInv, TypeOK, StopsBorn, Born
  <2> QED  BY <2>2, <2>3, <2>4, <2>5, <2>6, <2>7, <2>8 DEF Agreement
<1> QED  BY <1>2, <1>3 DEF StopHook

LEMMA UnassignKeeps ==
    ASSUME Disciplined, IInv, TypeOK', NEW j \in Jobs, Unassign(j) \/ UnassignFails(j)
    PROVE  Agreement'
<1> PICK failed \in BOOLEAN :
      AfterStop(j, failed) /\ (~failed => ~raised[j])
  BY DEF Unassign, UnassignFails, IInv, TypeOK
<1>1. /\ pc[j] = "unassign"
      /\ UNCHANGED <<kind, sid, bots, tasks, monitor>>
  BY DEF Unassign, UnassignFails, botVars
<1>2. /\ \/ /\ kind[j] = "restart" /\ ~failed /\ subject[j] # j
            /\ subject' = [subject EXCEPT ![j] = j] /\ pc' = [pc EXCEPT ![j] = "sem"]
         \/ UNCHANGED subject /\ pc' = [pc EXCEPT ![j] = "done"]
      /\ raised' = [raised EXCEPT ![j] = failed]
  BY DEF AfterStop, IInv, TypeOK
<1>3. pc[j] = "unassign" /\ ~raised[j] => bots[sid[j]] = NoBot
  BY DEF IInv, JobSees
<1>4. FreeUntouched' /\ MonitorRuns' /\ NoOrphan'
  BY <1>1, <1>2 DEF IInv, TypeOK, FreeUntouched, MonitorRuns, NoOrphan
<1>5. OneJobPerBot'
  <2>1. \A k \in Jobs : Active(k)' => Active(k)
    BY <1>1, <1>2 DEF IInv, TypeOK, Active
  <2> QED  BY <1>1, <2>1 DEF IInv, OneJobPerBot
<1>6. SubjectFits'
  <2>1. \A k \in Jobs : subject'[k] = subject[k] \/ subject'[k] = k
    BY <1>2 DEF IInv, TypeOK
  <2> QED  BY <1>1, <2>1 DEF IInv, TypeOK, SubjectFits
<1>10. Working'
  BY <1>1, <1>2 DEF IInv, TypeOK, Working
<1>11. \A k \in Jobs : Born(k) => Born(k)'
  <2> SUFFICES ASSUME NEW k \in Jobs, Born(k) PROVE Born(k)'
    OBVIOUS
  <2>1. CASE k # j
    BY <1>2, <2>1 DEF IInv, TypeOK, Born
  <2>2. CASE k = j
    BY <1>1, <1>2, <2>2 DEF IInv, TypeOK, Born
  <2> QED  BY <2>1, <2>2
<1>7. RegistryFits'
  BY <1>1, <1>11 DEF IInv, RegistryFits
<1>8. JobSees'
  <2>1. CASE UNCHANGED subject /\ pc' = [pc EXCEPT ![j] = "done"]
    BY <1>1, <1>2, <2>1 DEF IInv, TypeOK, JobSees
  <2>2. CASE /\ subject' = [subject EXCEPT ![j] = j] /\ pc' = [pc EXCEPT ![j] = "sem"]
             /\ ~failed
    BY <1>1, <1>2, <1>3, <2>2 DEF IInv, TypeOK, JobSees
  <2> QED  BY <1>2, <2>1, <2>2
<1>9. StopsBorn'
  <2> SUFFICES ASSUME NEW k \in Jobs, kind[k] = "stop", pc'[k] # "free"
               PROVE  /\ Born(subject[k])'
                      /\ pc'[k] = "done" /\ ~raised'[k] => bots[sid[k]] # subject'[k]
    BY <1>1 DEF StopsBorn, Born
  <2>1. /\ pc[k] # "free" /\ Born(subject[k]) /\ subject'[k] = subject[k]
        /\ pc[k] = "done" /\ ~raised[k] => bots[sid[k]] # subject[k]
    BY <1>1, <1>2 DEF IInv, TypeOK, StopsBorn
  <2>2. Born(subject[k])'
    <3> DEFINE i == subject[k]
    <3>1. i \in Jobs /\ Born(i) /\ subject'[k] = i
      BY <2>1 DEF IInv, TypeOK
    <3>2. subject'[i] = i /\ pc'[i] \notin {"free", "sem"}
      BY <1>11, <3>1 DEF Born
    <3> QED  BY <3>1, <3>2 DEF Born
  <2>3. pc'[k] = "done" /\ ~raised'[k] => bots[sid[k]] # subject'[k]
    BY <1>1, <1>2, <1>3, <2>1, NoBotAssumption DEF IInv, TypeOK
  <2> QED  BY <2>2, <2>3
<1> QED  BY <1>4, <1>5, <1>6, <1>7, <1>8, <1>9, <1>10 DEF Agreement

\* The monitor's own stop: the object whose tasks run is the registered one.
LEMMA MonitorStopHookKeeps ==
    ASSUME Disciplined, IInv, TypeOK', NEW i \in Jobs, MonitorStopHook(i)
    PROVE  Agreement'
<1>1. /\ monitor[i] = "stop_hook" /\ tasks[i] = "running" /\ bots[sid[i]] = i
      /\ UNCHANGED <<kind, sid, subject, pc, raised>>
  BY DEF MonitorStopHook, IInv, MonitorRuns, NoOrphan, jobVars
<1>2. CASE monitor' = [monitor EXCEPT ![i] = "unassign"] /\ UNCHANGED <<bots, tasks>>
  BY <1>1, <1>2 DEF IInv, TypeOK, Agreement, FreeUntouched, OneJobPerBot, SubjectFits, Working,
     MonitorRuns, NoOrphan, Active, RegistryFits, JobSees, StopsBorn, Born
<1>3. CASE /\ bots' = [bots EXCEPT ![sid[i]] = NoBot]
           /\ tasks' = [tasks EXCEPT ![i] = "cancelled"]
           /\ monitor' = [monitor EXCEPT ![i] = "idle"]
  <2>1. FreeUntouched' /\ OneJobPerBot' /\ SubjectFits' /\ Working' /\ MonitorRuns'
    BY <1>1, <1>3, NoBotAssumption DEF IInv, TypeOK, FreeUntouched, OneJobPerBot, SubjectFits,
       Working, MonitorRuns, Active
  <2>2. RegistryFits' /\ NoOrphan'
    BY <1>1, <1>3, NoBotAssumption DEF IInv, TypeOK, RegistryFits, NoOrphan, Born
  <2>3. JobSees'
    <3>1. ASSUME NEW j \in Jobs, pc[j] \in {"gather", "hooked"} PROVE sid[j] # sid[i]
      BY <1>1, <3>1 DEF IInv, JobSees
    <3> QED  BY <1>1, <1>3, <3>1 DEF IInv, TypeOK, JobSees
  <2>4. StopsBorn'
    BY <1>1, <1>3, NoBotAssumption DEF IInv, TypeOK, StopsBorn, Born
  <2> QED  BY <2>1, <2>2, <2>3, <2>4 DEF Agreement
<1> QED  BY <1>1, <1>2, <1>3 DEF MonitorStopHook

LEMMA CrashKeeps ==
    ASSUME Disciplined, IInv, TypeOK', HubCrash
    PROVE  Agreement'
<1>1. /\ \A s \in ServiceIds : bots'[s] = NoBot
      /\ \A j \in Jobs : /\ pc'[j] \in {"free", "done"}
                         /\ pc'[j] = "free" <=> pc[j] = "free"
                         /\ tasks'[j] # "running" /\ (tasks[j] = "none" => tasks'[j] = "none")
                         /\ monitor'[j] = "idle"
      /\ UNCHANGED <<kind, sid, subject>>
  BY DEF HubCrash, Active
<1>2. FreeUntouched' /\ OneJobPerBot' /\ SubjectFits' /\ Working' /\ MonitorRuns'
  BY <1>1, NoBotAssumption DEF IInv, TypeOK, FreeUntouched, OneJobPerBot, SubjectFits,
     Working, MonitorRuns, Active
<1>3. RegistryFits' /\ JobSees' /\ NoOrphan'
  BY <1>1, NoBotAssumption DEF IInv, TypeOK, RegistryFits, JobSees, NoOrphan
<1>4. StopsBorn'
  <2> SUFFICES ASSUME NEW j \in Jobs, kind[j] = "stop", pc'[j] # "free"
               PROVE  Born(subject[j])' /\ bots'[sid[j]] # subject[j]
    BY <1>1 DEF StopsBorn
  <2>1. subject[j] \in Jobs /\ sid[j] \in ServiceIds /\ Born(subject[j])
    BY <1>1 DEF IInv, TypeOK, StopsBorn
  <2> QED  BY <1>1, <2>1, NoBotAssumption DEF Born
<1> QED  BY <1>2, <1>3, <1>4 DEF Agreement

\* Steps that touch nothing the invariant speaks of, or only the monitor.
LEMMA OtherKeeps ==
    ASSUME IInv, TypeOK',
           UNCHANGED <<jobVars, bots, tasks>>,
           \A i \in Jobs : monitor'[i] = "stop_hook" =>
               monitor[i] = "stop_hook" \/ tasks[i] = "running"
    PROVE  Agreement'
BY DEF IInv, TypeOK, Agreement, FreeUntouched, OneJobPerBot, SubjectFits, Working, jobVars,
   MonitorRuns, NoOrphan, Active, RegistryFits, JobSees, StopsBorn, Born

LEMMA InvStep ==
    ASSUME Disciplined, IInv, [Next]_vars
    PROVE  IInv'
<1>0. TypeOK'
  BY TypeStep DEF IInv
<1> SUFFICES Agreement'
  BY <1>0 DEF IInv, Agreement
<1>1. ASSUME NEW j \in Jobs, Request(j) \/ Enter(j) \/ Resume(j) PROVE Agreement'
  BY <1>0, <1>1, RequestKeeps, RegisterKeeps, StartKeeps, StartTasksKeeps, StopHookKeeps,
     UnassignKeeps DEF Enter, Resume
<1>2. ASSUME NEW i \in Jobs, MonitorDetects(i) PROVE Agreement'
  BY <1>0, <1>2, OtherKeeps DEF MonitorDetects, IInv, TypeOK
<1>3. ASSUME NEW i \in Jobs, MonitorStopHook(i) PROVE Agreement'
  BY <1>0, <1>3, MonitorStopHookKeeps
<1>4. ASSUME NEW i \in Jobs, MonitorUnassign(i) PROVE Agreement'
  BY <1>0, <1>4, OtherKeeps DEF MonitorUnassign, IInv, TypeOK
<1>5. ASSUME NEW c \in Calls \X Jobs, Stray(c) PROVE Agreement'
  BY <1>0, <1>5, OtherKeeps DEF Stray, StrayLands, StrayLost
<1>6. CASE HubCrash
  BY <1>0, <1>6, CrashKeeps
<1>7. CASE UNCHANGED vars
  BY <1>0, <1>7, OtherKeeps DEF vars, botVars
<1> QED
  BY <1>1, <1>2, <1>3, <1>4, <1>5, <1>6, <1>7 DEF Next, MonitorResume

\* The discipline of the main service keeps the invariant: a bot has at most one
\* object at work, and the registry and the jobs agree on which.
THEOREM InvCorrect == ASSUME Disciplined PROVE Spec => []IInv
BY InvInit, InvStep, PTL DEF Spec

\* No Bot object runs its background tasks without being the one that requests for
\* its service id reach.
THEOREM NoOrphanCorrect == ASSUME Disciplined PROVE Spec => []NoOrphan
<1>1. IInv => NoOrphan
  BY DEF IInv
<1> QED  BY <1>1, InvCorrect, PTL

\* A bot that a request stopped without an exception stays stopped.
THEOREM StoppedStaysCorrect == ASSUME Disciplined PROVE Spec => []StoppedStays
<1>1. IInv => StoppedStays
  BY NoBotAssumption DEF IInv, TypeOK, StoppedStays, StopsBorn, NoOrphan, SubjectFits
<1> QED  BY <1>1, InvCorrect, PTL

-----------------------------------------------------------------------------
(* What Telegram and the main service hold, for a bot that is registered   *)
(* and for one that is not.                                                *)

\* A job that was not spawned has no token monitor and no abandoned call.
FreeQuiet == \A j \in Jobs : pc[j] = "free" =>
    monitor[j] = "idle" /\ \A c \in stray : c[2] # j

HookGone == \A s \in ServiceIds : bots[s] = NoBot /\ hook[s] =>
    faults[s] \cap {"delete_failed", "late_set", "crash"} # {}

\* Somebody is about to call unassign_from_hub for the bot, or has left the call behind.
Unassigning(s) ==
    \/ \E j \in Jobs : sid[j] = s /\ (pc[j] = "unassign" \/ monitor[j] = "unassign")
    \/ \E c \in stray : c[1] = "unassign" /\ sid[c[2]] = s
AssignmentGone == \A s \in ServiceIds :
    bots[s] = NoBot /\ (assigned[s] \/ \E j \in Jobs : sid[j] = s /\ pc[j] = "assign") =>
        \/ faults[s] \cap {"unassign_failed", "unassign_lost", "late_unassign", "crash"} # {}
        \/ Unassigning(s)

\* A stop goes on to unassign_from_hub with the bot still registered only when it was aborted.
AbortSeen == \A j \in Jobs :
    pc[j] = "unassign" /\ bots[sid[j]] # NoBot => "stop_aborted" \in faults[sid[j]]

\* How far the object of a registered bot has come, or that it is about to be stopped.
InService(i) ==
    \/ pc[i] = "gather"
    \/ pc[i] = "hooked" /\ hook[sid[i]]
    \/ pc[i] = "assign" /\ hook[sid[i]] /\ tasks[i] = "running"
    \/ pc[i] = "done" /\ hook[sid[i]] /\ tasks[i] = "running" /\ assigned[sid[i]]
    \/ \E j \in Jobs : pc[j] = "stop_hook" /\ subject[j] = i
Serving == \A s \in ServiceIds : bots[s] # NoBot =>
    \/ InService(bots[s])
    \/ faults[s] \cap {"stop_aborted", "late_unassign", "late_delete"} # {}

OutsideInv == FreeQuiet /\ HookGone /\ AssignmentGone /\ AbortSeen /\ Serving

LEMMA OutsideInit == Init => OutsideInv
BY NoBotAssumption DEF Init, OutsideInv, FreeQuiet, HookGone, AssignmentGone, AbortSeen, Serving,
   InService, Unassigning

\* A step of a job or a monitor adds a fault of its bot, or removes none.
LEMMA Added ==
    ASSUME TypeOK, NEW s \in ServiceIds, NEW kinds, Blame(s, kinds)
    PROVE  /\ \A r \in ServiceIds : faults[r] \subseteq faults'[r]
           /\ kinds \subseteq faults'[s]
BY DEF Blame, TypeOK

LEMMA DeleteWebhookEffect ==
    ASSUME TypeOK, NEW s \in ServiceIds, NEW answer \in DeleteAnswers, DeleteWebhook(s, answer)
    PROVE  /\ \A r \in ServiceIds : faults[r] \subseteq faults'[r] /\ (r # s => hook'[r] = hook[r])
           /\ hook'[s] => hook[s] /\ "delete_failed" \in faults'[s]
           /\ answer = "raised" => "stop_aborted" \in faults'[s]
<1>1. Blame(s, DeleteFaults[answer])
  BY DEF DeleteWebhook
<1>2. /\ \A r \in ServiceIds : faults[r] \subseteq faults'[r]
      /\ DeleteFaults[answer] \subseteq faults'[s]
  BY <1>1, Added
<1>3. /\ answer # "ok" => "delete_failed" \in DeleteFaults[answer]
      /\ answer = "raised" => "stop_aborted" \in DeleteFaults[answer]
  BY DEF DeleteFaults, DeleteAnswers
<1> QED  BY <1>2, <1>3 DEF DeleteWebhook, TypeOK

\* A free job becomes one that has nothing under way yet.
LEMMA RequestOutside ==
    ASSUME Disciplined, IInv, OutsideInv, NEW j \in Jobs, Request(j)
    PROVE  OutsideInv'
<1> USE DEF jobVars, botVars, outside
<1> PICK s \in ServiceIds : StartBots(j, s) \/ StartBot(j, s) \/ RestartBot(j, s) \/ StopBot(j, s)
  BY DEF Request
<1> PICK k \in {"start", "restart", "stop"}, i \in Jobs, first \in {"sem", "stop_hook"} : Spawn(j, k, s, i, first)
  BY NoBotAssumption DEF StartBots, StartBot, RestartBot, StopBot, IInv, TypeOK
<1>1. /\ pc[j] = "free"
      /\ sid' = [sid EXCEPT ![j] = s] /\ subject' = [subject EXCEPT ![j] = i]
      /\ pc' = [pc EXCEPT ![j] = first]
      /\ UNCHANGED <<raised, bots, tasks, monitor, stray, hook, assigned, faults>>
  BY DEF Spawn
<1>2. monitor[j] = "idle" /\ (\A c \in stray : c[2] # j) /\ \A r \in ServiceIds : bots[r] # j
  BY <1>1 DEF OutsideInv, FreeQuiet, IInv, FreeUntouched
<1>3. \A c \in stray : c[2] \in Jobs
  BY DEF IInv, TypeOK
<1>4. FreeQuiet' /\ HookGone'
  BY <1>1 DEF OutsideInv, FreeQuiet, HookGone, IInv, TypeOK
<1>5. AssignmentGone'
  <2>1. \A r \in ServiceIds : Unassigning(r) => Unassigning(r)'
    BY <1>1, <1>2, <1>3 DEF Unassigning, IInv, TypeOK
  <2>2. \A r \in ServiceIds : (\E h \in Jobs : sid'[h] = r /\ pc'[h] = "assign")
                                 => \E h \in Jobs : sid[h] = r /\ pc[h] = "assign"
    BY <1>1 DEF IInv, TypeOK
  <2> QED  BY <1>1, <2>1, <2>2 DEF OutsideInv, AssignmentGone
<1>6. AbortSeen'
  BY <1>1 DEF OutsideInv, AbortSeen, IInv, TypeOK
<1>7. Serving'
  <2>1. \A h \in Jobs : h # j /\ InService(h) => InService(h)'
    BY <1>1 DEF InService, IInv, TypeOK
  <2> QED  BY <1>1, <1>2, <2>1 DEF OutsideInv, Serving, IInv, TypeOK
<1> QED  BY <1>4, <1>5, <1>6, <1>7 DEF OutsideInv

LEMMA RegisterOutside ==
    ASSUME Disciplined, IInv, OutsideInv, NEW j \in Jobs, Register(j)
    PROVE  OutsideInv'
<1>1. /\ pc[j] = "sem" /\ bots[sid[j]] = NoBot /\ sid[j] \in ServiceIds
      /\ bots' = [bots EXCEPT ![sid[j]] = j] /\ pc' = [pc EXCEPT ![j] = "gather"]
      /\ faults' = [faults EXCEPT ![sid[j]] = {}]
      /\ UNCHANGED <<sid, subject, raised, tasks, monitor, stray, hook, assigned>>
  BY DEF Register, IInv, JobSees, TypeOK, outside
<1>2. \A k \in Jobs : Active(k) /\ sid[k] = sid[j] => k = j
  BY <1>1 DEF IInv, OneJobPerBot, Active
<1>3. FreeQuiet' /\ HookGone'
  BY <1>1, NoBotAssumption DEF OutsideInv, FreeQuiet, HookGone, IInv, TypeOK
<1>4. AssignmentGone'
  BY <1>1, NoBotAssumption DEF OutsideInv, AssignmentGone, Unassigning, IInv, TypeOK
<1>5. AbortSeen'
  BY <1>1, <1>2 DEF OutsideInv, AbortSeen, IInv, TypeOK, Active
<1>6. Serving'
  <2>1. InService(j)'
    BY <1>1 DEF InService, IInv, TypeOK
  <2>2. ASSUME NEW s \in ServiceIds, s # sid[j], bots[s] # NoBot PROVE InService(bots[s]) => InService(bots[s])'
    <3>1. bots[s] \in Jobs /\ bots[s] # j
      BY <1>1, <2>2 DEF IInv, TypeOK, RegistryFits
    <3> QED  BY <1>1, <3>1 DEF InService, IInv, TypeOK
  <2> QED  BY <1>1, <2>1, <2>2 DEF OutsideInv, Serving, IInv, TypeOK
<1> QED  BY <1>3, <1>4, <1>5, <1>6 DEF OutsideInv

\* The steps of a start after the registration: calls are answered or fail.
LEMMA StartOutside ==
    ASSUME Disciplined, IInv, OutsideInv, NEW j \in Jobs,
           RejectToken(j) \/ WebhookSet(j) \/ StartTasks(j) \/ Assign(j) \/ GatherFails(j) \/ AssignFails(j)
    PROVE  OutsideInv'
<1> USE DEF jobVars, botVars, outside
<1>1. /\ pc[j] \in {"sem", "gather", "hooked", "assign"} /\ subject[j] = j /\ sid[j] \in ServiceIds
      /\ UNCHANGED <<sid, subject, bots, monitor, faults>>
  BY DEF RejectToken, WebhookSet, StartTasks, GatherFails, FailStart, Assign, AssignFails, IInv, Working, TypeOK
<1>2. \/ /\ pc[j] = "sem" /\ pc' = [pc EXCEPT ![j] = "done"]
         /\ UNCHANGED <<tasks, stray, hook, assigned>>
      \/ /\ pc[j] = "gather" /\ pc' = [pc EXCEPT ![j] = "hooked"]
         /\ hook' = [hook EXCEPT ![sid[j]] = TRUE] /\ UNCHANGED <<tasks, stray, assigned>>
      \/ /\ pc[j] = "hooked" /\ pc' = [pc EXCEPT ![j] = "assign"]
         /\ tasks' = [tasks EXCEPT ![j] = "running"] /\ UNCHANGED <<stray, hook, assigned>>
      \/ /\ pc[j] = "assign" /\ pc' = [pc EXCEPT ![j] = "done"]
         /\ assigned' = [assigned EXCEPT ![sid[j]] = TRUE] /\ UNCHANGED <<tasks, stray, hook>>
      \/ /\ pc[j] \in {"gather", "hooked"} /\ pc' = [pc EXCEPT ![j] = "stop_hook"]
         /\ stray' \in {stray, stray \cup {<<"set_hook", j>>}}
         /\ hook' \in {hook, [hook EXCEPT ![sid[j]] = TRUE]} /\ UNCHANGED <<tasks, assigned>>
      \/ /\ pc[j] = "assign" /\ pc' = [pc EXCEPT ![j] = "stop_hook"]
         /\ assigned' \in {assigned, [assigned EXCEPT ![sid[j]] = TRUE]} /\ UNCHANGED <<tasks, stray, hook>>
  BY <1>1 DEF RejectToken, WebhookSet, StartTasks, GatherFails, FailStart, Assign, AssignFails
<1>3. pc[j] \in {"gather", "hooked"} => bots[sid[j]] = j
  BY DEF IInv, JobSees
<1>4. pc[j] # "free" /\ pc'[j] # "free" /\ pc'[j] # "unassign" /\ \A k \in Jobs : k # j => pc'[k] = pc[k]
  BY <1>1, <1>2 DEF IInv, TypeOK
<1>5. /\ \A c \in stray' : c \in stray \/ (c[1] = "set_hook" /\ c[2] = j)
      /\ stray \subseteq stray'
  BY <1>2
<1>6. FreeQuiet'
  BY <1>1, <1>4, <1>5 DEF OutsideInv, FreeQuiet
<1>7. HookGone'
  <2>1. \A s \in ServiceIds : hook'[s] => hook[s] \/ (s = sid[j] /\ bots[s] = j)
    BY <1>1, <1>2, <1>3 DEF IInv, TypeOK
  <2> QED  BY <1>1, <2>1, NoBotAssumption DEF OutsideInv, HookGone
<1>8. AssignmentGone'
  <2>1. ASSUME NEW s \in ServiceIds, Unassigning(s) PROVE Unassigning(s)'
    <3>1. CASE \E k \in Jobs : sid[k] = s /\ (pc[k] = "unassign" \/ monitor[k] = "unassign")
      BY <1>1, <1>4, <3>1 DEF Unassigning
    <3>2. CASE \E c \in stray : c[1] = "unassign" /\ sid[c[2]] = s
      BY <1>1, <1>5, <3>2 DEF Unassigning
    <3> QED  BY <2>1, <3>1, <3>2 DEF Unassigning
  <2>2. ASSUME NEW s \in ServiceIds, bots[s] = NoBot, assigned'[s] \/ \E k \in Jobs : sid[k] = s /\ pc'[k] = "assign"
        PROVE  assigned[s] \/ \E k \in Jobs : sid[k] = s /\ pc[k] = "assign"
    BY <1>1, <1>2, <1>3, <1>4, <2>2, NoBotAssumption DEF IInv, TypeOK
  <2> QED  BY <1>1, <2>1, <2>2 DEF OutsideInv, AssignmentGone
<1>9. AbortSeen'
  BY <1>1, <1>4 DEF OutsideInv, AbortSeen
<1>10. Serving'
  <2>1. ASSUME NEW s \in ServiceIds, bots[s] = j, InService(j) PROVE InService(j)'
    <3>1. sid[j] = s
      BY <2>1 DEF IInv, RegistryFits
    <3>2. CASE \E k \in Jobs : pc[k] = "stop_hook" /\ subject[k] = j
      <4>1. PICK k \in Jobs : pc[k] = "stop_hook" /\ subject[k] = j
        BY <3>2
      <4>2. k # j
        BY <1>1, <4>1
      <4> QED  BY <1>1, <1>4, <4>1, <4>2 DEF InService
    <3>3. CASE pc[j] = "gather"
      BY <1>1, <1>2, <3>1, <3>3 DEF InService, IInv, TypeOK
    <3>4. CASE pc[j] = "hooked" /\ hook[sid[j]]
      BY <1>1, <1>2, <3>1, <3>4 DEF InService, IInv, TypeOK
    <3>5. CASE pc[j] = "assign" /\ hook[sid[j]] /\ tasks[j] = "running"
      BY <1>1, <1>2, <3>1, <3>5 DEF InService, IInv, TypeOK
    <3> QED  BY <1>1, <2>1, <3>2, <3>3, <3>4, <3>5 DEF InService
  <2>2. ASSUME NEW i \in Jobs, i # j, InService(i) PROVE InService(i)'
    <3>1. /\ pc'[i] = pc[i] /\ tasks'[i] = tasks[i] /\ sid'[i] = sid[i] /\ sid[i] \in ServiceIds
          /\ hook[sid[i]] => hook'[sid[i]]
          /\ assigned[sid[i]] => assigned'[sid[i]]
      BY <1>1, <1>2, <2>2 DEF IInv, TypeOK
    <3>2. ASSUME NEW k \in Jobs, pc[k] = "stop_hook" PROVE pc'[k] = "stop_hook" /\ subject'[k] = subject[k]
      BY <1>1, <1>4, <3>2
    <3> QED  BY <2>2, <3>1, <3>2 DEF InService
  <2> QED  BY <1>1, <2>1, <2>2 DEF OutsideInv, Serving, IInv, TypeOK
<1> QED  BY <1>6, <1>7, <1>8, <1>9, <1>10 DEF OutsideInv

\* What a stop leaves behind: nothing registered, or an abort; and its call to unassign.
LEMMA StopHookOutside ==
    ASSUME Disciplined, IInv, OutsideInv, NEW j \in Jobs, StopHook(j)
    PROVE  OutsideInv'
<1>1. /\ pc[j] = "stop_hook" /\ bots[sid[j]] \in {NoBot, subject[j]}
      /\ pc' = [pc EXCEPT ![j] = "unassign"] /\ UNCHANGED <<sid, subject, assigned>>
      /\ sid[j] \in ServiceIds /\ subject[j] \in Jobs /\ sid[subject[j]] = sid[j]
  BY DEF StopHook, IInv, JobSees, TypeOK, SubjectFits
<1>2. PICK answer \in DeleteAnswers :
        /\ DeleteWebhook(sid[j], answer)
        /\ \/ StopRaises(sid[j], answer) /\ UNCHANGED botVars
           \/ bots' = [bots EXCEPT ![sid[j]] = NoBot] /\ CancelTasks(subject[j])
  BY DEF StopHook
<1>3. /\ \A s \in ServiceIds : faults[s] \subseteq faults'[s] /\ (s # sid[j] => hook'[s] = hook[s])
      /\ hook'[sid[j]] => hook[sid[j]] /\ "delete_failed" \in faults'[sid[j]]
      /\ answer = "raised" => "stop_aborted" \in faults'[sid[j]]
  BY <1>1, <1>2, DeleteWebhookEffect DEF IInv
<1>4. \A k \in Jobs : Active(k) /\ sid[k] = sid[j] => k = j
  BY <1>1 DEF IInv, OneJobPerBot, Active
<1>5. \A c \in stray' : c \in stray \/ (c[2] = subject[j] /\ tasks[subject[j]] = "running")
  BY <1>2 DEF CancelTasks, botVars
<1>6. /\ stray \subseteq stray'
      /\ \A i \in Jobs : i # subject[j] => tasks'[i] = tasks[i] /\ monitor'[i] = monitor[i]
      /\ \A i \in Jobs : monitor'[i] # "idle" => monitor[i] # "idle"
  BY <1>1, <1>2 DEF CancelTasks, botVars, IInv, TypeOK
<1>7. FreeQuiet'
  <2>1. ASSUME NEW k \in Jobs, pc'[k] = "free" PROVE monitor'[k] = "idle" /\ \A c \in stray' : c[2] # k
    <3>1. pc[k] = "free" /\ monitor[k] = "idle" /\ (\A c \in stray : c[2] # k) /\ tasks[k] # "running"
      BY <1>1, <2>1 DEF OutsideInv, FreeQuiet, IInv, TypeOK, FreeUntouched
    <3> QED  BY <1>5, <1>6, <3>1
  <2> QED  BY <2>1 DEF FreeQuiet
<1>8. HookGone'
  <2>1. ASSUME NEW s \in ServiceIds, bots'[s] = NoBot, hook'[s]
        PROVE  faults'[s] \cap {"delete_failed", "late_set", "crash"} # {}
    <3>1. CASE s = sid[j]
      BY <1>3, <2>1, <3>1
    <3>2. CASE s # sid[j]
      BY <1>1, <1>2, <1>3, <2>1, <3>2 DEF OutsideInv, HookGone, botVars, IInv, TypeOK
    <3> QED  BY <3>1, <3>2
  <2> QED  BY <2>1 DEF HookGone
<1>9. AssignmentGone'
  <2>1. ASSUME NEW s \in ServiceIds, s = sid[j] PROVE Unassigning(s)'
    BY <1>1, <2>1 DEF Unassigning, IInv, TypeOK
  <2>2. ASSUME NEW s \in ServiceIds, s # sid[j], Unassigning(s) PROVE Unassigning(s)'
    <3>1. CASE \E k \in Jobs : sid[k] = s /\ (pc[k] = "unassign" \/ monitor[k] = "unassign")
      <4>1. PICK k \in Jobs : sid[k] = s /\ (pc[k] = "unassign" \/ monitor[k] = "unassign")
        BY <3>1
      <4>2. k # j /\ k # subject[j]
        BY <1>1, <2>2, <4>1
      <4>3. sid'[k] = s /\ (pc'[k] = "unassign" \/ monitor'[k] = "unassign")
        BY <1>1, <1>6, <4>1, <4>2 DEF IInv, TypeOK
      <4> QED  BY <4>3 DEF Unassigning
    <3>2. CASE \E c \in stray : c[1] = "unassign" /\ sid[c[2]] = s
      BY <1>1, <1>6, <3>2 DEF Unassigning
    <3> QED  BY <2>2, <3>1, <3>2 DEF Unassigning
  <2>3. ASSUME NEW s \in ServiceIds, s # sid[j], bots'[s] = NoBot,
               assigned'[s] \/ \E k \in Jobs : sid'[k] = s /\ pc'[k] = "assign"
        PROVE  bots[s] = NoBot /\ (assigned[s] \/ \E k \in Jobs : sid[k] = s /\ pc[k] = "assign")
    BY <1>1, <1>2, <2>3 DEF botVars, IInv, TypeOK
  <2>4. ASSUME NEW s \in ServiceIds, s # sid[j], bots'[s] = NoBot,
               assigned'[s] \/ \E k \in Jobs : sid'[k] = s /\ pc'[k] = "assign"
        PROVE  \/ faults'[s] \cap {"unassign_failed", "unassign_lost", "late_unassign", "crash"} # {}
               \/ Unassigning(s)'
    BY <1>3, <2>2, <2>3, <2>4 DEF OutsideInv, AssignmentGone
  <2> QED  BY <2>1, <2>4 DEF AssignmentGone
<1>10. AbortSeen'
  <2>1. ASSUME NEW k \in Jobs, pc'[k] = "unassign", bots'[sid'[k]] # NoBot
        PROVE  "stop_aborted" \in faults'[sid'[k]]
    <3>1. CASE k = j
      <4>1. answer = "raised"
        BY <1>1, <1>2, <2>1, <3>1 DEF StopRaises, IInv, TypeOK, botVars
      <4> QED  BY <1>1, <1>3, <3>1, <4>1
    <3>2. CASE k # j
      <4>1. pc[k] = "unassign" /\ sid'[k] = sid[k] /\ sid[k] # sid[j] /\ sid[k] \in ServiceIds
        BY <1>1, <1>4, <2>1, <3>2 DEF IInv, TypeOK, Active
      <4>2. bots'[sid[k]] = bots[sid[k]]
        BY <1>2, <4>1 DEF botVars, IInv, TypeOK
      <4> QED  BY <1>3, <2>1, <4>1, <4>2 DEF OutsideInv, AbortSeen
    <3> QED  BY <3>1, <3>2
  <2> QED  BY <2>1 DEF AbortSeen
<1>11. Serving'
  <2>1. ASSUME NEW s \in ServiceIds, bots'[s] # NoBot
        PROVE  \/ InService(bots[s])' /\ bots'[s] = bots[s]
               \/ faults'[s] \cap {"stop_aborted", "late_unassign", "late_delete"} # {}
    <3>1. CASE s = sid[j]
      BY <1>1, <1>2, <1>3, <2>1, <3>1 DEF StopRaises, IInv, TypeOK, botVars
    <3>2. CASE s # sid[j]
      <4>1. PICK i \in Jobs : bots'[s] = i /\ bots[s] = i /\ i # NoBot
        BY <1>2, <2>1, <3>2 DEF botVars, IInv, TypeOK
      <4>2. sid[i] = s /\ i # j /\ i # subject[j]
        BY <1>1, <3>2, <4>1 DEF IInv, RegistryFits
      <4>3. CASE InService(i)
        <5>1. /\ pc'[i] = pc[i] /\ tasks'[i] = tasks[i] /\ sid'[i] = sid[i]
              /\ hook'[sid[i]] = hook[sid[i]] /\ assigned' = assigned
          BY <1>1, <1>3, <1>6, <3>2, <4>1, <4>2
        <5>2. ASSUME NEW k \in Jobs, pc[k] = "stop_hook", subject[k] = i
              PROVE  pc'[k] = "stop_hook" /\ subject'[k] = i
          BY <1>1, <4>2, <5>2
        <5>3. InService(i)'
          BY <4>3, <5>1, <5>2 DEF InService
        <5> QED  BY <4>1, <5>3 DEF InService
      <4>4. CASE faults[s] \cap {"stop_aborted", "late_unassign", "late_delete"} # {}
        BY <1>3, <4>4
      <4> QED  BY <4>1, <4>3, <4>4 DEF OutsideInv, Serving
    <3> QED  BY <3>1, <3>2
  <2> QED  BY <2>1 DEF Serving, InService
<1> QED  BY <1>7, <1>8, <1>9, <1>10, <1>11 DEF OutsideInv

LEMMA UnassignOutside ==
    ASSUME Disciplined, IInv, OutsideInv, NEW j \in Jobs, Unassign(j) \/ UnassignFails(j)
    PROVE  OutsideInv'
<1>1. /\ pc[j] = "unassign" /\ sid[j] \in ServiceIds
      /\ UNCHANGED <<sid, bots, tasks, monitor, stray, hook>>
  BY DEF Unassign, UnassignFails, botVars, IInv, TypeOK
<1>2. /\ \A k \in Jobs : k # j => pc'[k] = pc[k] /\ subject'[k] = subject[k]
      /\ pc'[j] \in {"sem", "done"}
  BY <1>1 DEF Unassign, UnassignFails, AfterStop, IInv, TypeOK
<1>3. /\ \A s \in ServiceIds : faults[s] \subseteq faults'[s] /\ (s # sid[j] => assigned'[s] = assigned[s])
      /\ ~assigned'[sid[j]] \/ "unassign_failed" \in faults'[sid[j]]
  <2>1. CASE Unassign(j)
    BY <1>1, <2>1 DEF Unassign, IInv, TypeOK
  <2>2. CASE UnassignFails(j)
    <3>1. Blame(sid[j], {"unassign_failed"})
      BY <2>2 DEF UnassignFails
    <3>2. \A s \in ServiceIds : s # sid[j] => assigned'[s] = assigned[s]
      BY <1>1, <2>2 DEF UnassignFails, IInv, TypeOK
    <3> QED  BY <1>1, <3>1, <3>2, Added DEF IInv
  <2> QED  BY <2>1, <2>2
<1>4. \A k \in Jobs : Active(k) /\ sid[k] = sid[j] => k = j
  BY <1>1 DEF IInv, OneJobPerBot, Active
<1>5. FreeQuiet' /\ HookGone'
  BY <1>1, <1>2, <1>3 DEF OutsideInv, FreeQuiet, HookGone
<1>6. AssignmentGone'
  <2>1. ASSUME NEW s \in ServiceIds, bots[s] = NoBot,
               assigned'[s] \/ \E k \in Jobs : sid[k] = s /\ pc'[k] = "assign"
        PROVE  \/ faults'[s] \cap {"unassign_failed", "unassign_lost", "late_unassign", "crash"} # {}
               \/ Unassigning(s)'
    <3>1. CASE s = sid[j]
      <4>1. \A k \in Jobs : sid[k] = s => pc'[k] # "assign"
        BY <1>2, <1>4, <3>1 DEF Active
      <4> QED  BY <1>3, <2>1, <3>1, <4>1
    <3>2. CASE s # sid[j]
      <4>1. assigned[s] \/ \E k \in Jobs : sid[k] = s /\ pc[k] = "assign"
        BY <1>2, <1>3, <2>1, <3>2
      <4>2. Unassigning(s) => Unassigning(s)'
        BY <1>1, <1>2, <3>2 DEF Unassigning
      <4> QED  BY <1>3, <2>1, <4>1, <4>2 DEF OutsideInv, AssignmentGone
    <3> QED  BY <3>1, <3>2
  <2> QED  BY <1>1, <2>1 DEF AssignmentGone
<1>7. AbortSeen'
  BY <1>1, <1>2, <1>3 DEF OutsideInv, AbortSeen, IInv, TypeOK
<1>8. Serving'
  <2>1. ASSUME NEW s \in ServiceIds, NEW i \in Jobs, bots[s] = i, s = sid[j]
        PROVE  "stop_aborted" \in faults'[s]
    BY <1>1, <1>3, <2>1, NoBotAssumption DEF OutsideInv, AbortSeen
  <2>2. ASSUME NEW s \in ServiceIds, NEW i \in Jobs, bots[s] = i, s # sid[j], InService(i)
        PROVE  InService(i)'
    <3>1. sid[i] = s /\ i # j
      BY <2>2 DEF IInv, RegistryFits
    <3>2. pc'[i] = pc[i] /\ assigned'[sid[i]] = assigned[sid[i]] /\ sid'[i] = sid[i]
      BY <1>1, <1>2, <1>3, <2>2, <3>1
    <3>3. ASSUME NEW k \in Jobs, pc[k] = "stop_hook" PROVE pc'[k] = "stop_hook" /\ subject'[k] = subject[k]
      BY <1>1, <1>2, <3>3
    <3> QED  BY <1>1, <2>2, <3>2, <3>3 DEF InService
  <2>3. ASSUME NEW s \in ServiceIds, NEW i \in Jobs, bots[s] = i
        PROVE  InService(i)' \/ faults'[s] \cap {"stop_aborted", "late_unassign", "late_delete"} # {}
    <3>1. InService(i) \/ faults[s] \cap {"stop_aborted", "late_unassign", "late_delete"} # {}
      BY <2>3, NoBotAssumption DEF OutsideInv, Serving
    <3> QED  BY <1>3, <2>1, <2>2, <2>3, <3>1
  <2> QED  BY <1>1, <2>3 DEF Serving, InService, IInv, TypeOK
<1> QED  BY <1>5, <1>6, <1>7, <1>8 DEF OutsideInv

\* The monitor stops the registered bot, and leaves the call to unassign behind.
LEMMA MonitorStopHookOutside ==
    ASSUME Disciplined, IInv, OutsideInv, NEW i \in Jobs, MonitorStopHook(i)
    PROVE  OutsideInv'
<1>1. /\ monitor[i] = "stop_hook" /\ tasks[i] = "running" /\ bots[sid[i]] = i /\ sid[i] \in ServiceIds
      /\ UNCHANGED <<sid, subject, pc, assigned>>
  BY DEF MonitorStopHook, IInv, MonitorRuns, NoOrphan, jobVars, TypeOK
<1>2. PICK answer \in DeleteAnswers :
        /\ DeleteWebhook(sid[i], answer)
        /\ \/ /\ StopRaises(sid[i], answer)
              /\ monitor' = [monitor EXCEPT ![i] = "unassign"] /\ UNCHANGED <<bots, tasks, stray>>
           \/ /\ bots' = [bots EXCEPT ![sid[i]] = NoBot]
              /\ tasks' = [tasks EXCEPT ![i] = "cancelled"]
              /\ monitor' = [monitor EXCEPT ![i] = "idle"]
              /\ stray' = stray \cup {<<"unassign", i>>}
  BY DEF MonitorStopHook
<1>3. /\ \A s \in ServiceIds : faults[s] \subseteq faults'[s] /\ (s # sid[i] => hook'[s] = hook[s])
      /\ hook'[sid[i]] => hook[sid[i]] /\ "delete_failed" \in faults'[sid[i]]
      /\ answer = "raised" => "stop_aborted" \in faults'[sid[i]]
  BY <1>1, <1>2, DeleteWebhookEffect DEF IInv
<1>4. /\ \A k \in Jobs : k # i => monitor'[k] = monitor[k] /\ tasks'[k] = tasks[k]
      /\ \A s \in ServiceIds : s # sid[i] => bots'[s] = bots[s]
      /\ stray \subseteq stray' /\ \A c \in stray' : c \in stray \/ c[2] = i
  BY <1>2 DEF IInv, TypeOK
<1>5. pc[i] # "free"
  BY <1>1 DEF IInv, FreeUntouched
<1>6. FreeQuiet'
  BY <1>1, <1>4, <1>5 DEF OutsideInv, FreeQuiet
<1>7. HookGone'
  <2>1. ASSUME NEW s \in ServiceIds, bots'[s] = NoBot, hook'[s]
        PROVE  faults'[s] \cap {"delete_failed", "late_set", "crash"} # {}
    BY <1>3, <1>4, <2>1 DEF OutsideInv, HookGone
  <2> QED  BY <2>1 DEF HookGone
<1>8. AssignmentGone'
  <2>1. ASSUME NEW s \in ServiceIds, s = sid[i], bots'[s] = NoBot PROVE Unassigning(s)'
    <3>1. <<"unassign", i>> \in stray'
      BY <1>1, <1>2, <2>1, NoBotAssumption
    <3> QED  BY <1>1, <2>1, <3>1 DEF Unassigning
  <2>2. ASSUME NEW s \in ServiceIds, s # sid[i], Unassigning(s) PROVE Unassigning(s)'
    BY <1>1, <1>4, <2>2 DEF Unassigning
  <2>3. ASSUME NEW s \in ServiceIds, bots'[s] = NoBot,
               assigned[s] \/ \E k \in Jobs : sid[k] = s /\ pc[k] = "assign"
        PROVE  \/ faults'[s] \cap {"unassign_failed", "unassign_lost", "late_unassign", "crash"} # {}
               \/ Unassigning(s)'
    BY <1>3, <1>4, <2>1, <2>2, <2>3 DEF OutsideInv, AssignmentGone
  <2> QED  BY <1>1, <2>3 DEF AssignmentGone
<1>9. AbortSeen'
  <2>1. ASSUME NEW k \in Jobs, pc[k] = "unassign", bots'[sid[k]] # NoBot PROVE bots[sid[k]] # NoBot /\ sid[k] \in ServiceIds
    BY <1>1, <1>4, <2>1, NoBotAssumption DEF IInv, TypeOK
  <2> QED  BY <1>1, <1>3, <2>1 DEF OutsideInv, AbortSeen
<1>10. Serving'
  <2>1. ASSUME NEW s \in ServiceIds, s = sid[i], bots'[s] # NoBot PROVE "stop_aborted" \in faults'[s]
    BY <1>1, <1>2, <1>3, <2>1, NoBotAssumption DEF StopRaises, IInv, TypeOK
  <2>2. ASSUME NEW s \in ServiceIds, s # sid[i], NEW k \in Jobs, bots[s] = k, InService(k) PROVE InService(k)'
    <3>1. sid[k] = s /\ k # i
      BY <1>1, <2>2 DEF IInv, RegistryFits
    <3>2. hook'[sid[k]] = hook[sid[k]] /\ tasks'[k] = tasks[k]
      BY <1>3, <1>4, <2>2, <3>1
    <3> QED  BY <1>1, <2>2, <3>2 DEF InService
  <2>3. ASSUME NEW s \in ServiceIds, bots'[s] # NoBot
        PROVE  \/ bots'[s] = bots[s] /\ InService(bots[s])'
               \/ faults'[s] \cap {"stop_aborted", "late_unassign", "late_delete"} # {}
    <3>1. CASE s = sid[i]
      BY <2>1, <2>3, <3>1
    <3>2. CASE s # sid[i]
      <4>1. PICK k \in Jobs : bots[s] = k /\ bots'[s] = k
        BY <1>4, <2>3, <3>2 DEF IInv, TypeOK
      <4>2. InService(k) \/ faults[s] \cap {"stop_aborted", "late_unassign", "late_delete"} # {}
        BY <4>1, NoBotAssumption DEF OutsideInv, Serving
      <4>3. InService(k) => InService(k)'
        BY <2>2, <3>2, <4>1
      <4> QED  BY <1>3, <4>1, <4>2, <4>3 DEF InService
    <3> QED  BY <3>1, <3>2
  <2> QED  BY <2>3 DEF Serving, InService
<1> QED  BY <1>6, <1>7, <1>8, <1>9, <1>10 DEF OutsideInv

\* A step by which nothing changes but the outside, where it is noted as a fault.
Noted ==
    /\ UNCHANGED <<kind, sid, subject, pc, raised, bots, tasks>>
    /\ stray' \subseteq stray
    /\ \A i \in Jobs : monitor'[i] # "idle" => monitor[i] # "idle" \/ tasks[i] = "running"
    /\ \A s \in ServiceIds :
        /\ faults[s] \subseteq faults'[s]
        /\ \/ hook'[s] = hook[s]
           \/ hook'[s] /\ "late_set" \in faults'[s]
           \/ ~hook'[s] /\ "late_delete" \in faults'[s]
        /\ assigned'[s] = assigned[s] \/ (~assigned'[s] /\ "late_unassign" \in faults'[s])
        /\ Unassigning(s) =>
              Unassigning(s)' \/ faults'[s] \cap {"unassign_lost", "late_unassign"} # {}

LEMMA OtherOutside ==
    ASSUME IInv, OutsideInv, Noted
    PROVE  OutsideInv'
<1> USE DEF Noted
<1>1. FreeQuiet'
  BY DEF OutsideInv, FreeQuiet, IInv, FreeUntouched
<1>2. HookGone'
  BY DEF OutsideInv, HookGone
<1>3. AssignmentGone'
  <2>1. ASSUME NEW s \in ServiceIds, bots[s] = NoBot,
               assigned'[s] \/ \E k \in Jobs : sid[k] = s /\ pc[k] = "assign"
        PROVE  \/ faults'[s] \cap {"unassign_failed", "unassign_lost", "late_unassign", "crash"} # {}
               \/ Unassigning(s)'
    <3>1. \/ faults[s] \cap {"unassign_failed", "unassign_lost", "late_unassign", "crash"} # {}
          \/ Unassigning(s) \/ "late_unassign" \in faults'[s]
      BY <2>1 DEF OutsideInv, AssignmentGone
    <3> QED  BY <3>1
  <2> QED  BY <2>1 DEF AssignmentGone
<1>4. AbortSeen'
  BY DEF OutsideInv, AbortSeen, IInv, TypeOK
<1>5. Serving'
  <2>1. ASSUME NEW s \in ServiceIds, NEW i \in Jobs, bots[s] = i, InService(i)
        PROVE  \/ InService(i)'
               \/ faults'[s] \cap {"stop_aborted", "late_unassign", "late_delete"} # {}
    <3>1. sid[i] = s
      BY <2>1 DEF IInv, RegistryFits
    <3> QED  BY <2>1, <3>1 DEF InService
  <2>2. ASSUME NEW s \in ServiceIds, NEW i \in Jobs, bots[s] = i
        PROVE  \/ InService(i)'
               \/ faults'[s] \cap {"stop_aborted", "late_unassign", "late_delete"} # {}
    BY <2>1, <2>2, NoBotAssumption DEF OutsideInv, Serving
  <2> QED  BY <2>2 DEF Serving, InService, IInv, TypeOK
<1> QED  BY <1>1, <1>2, <1>3, <1>4, <1>5 DEF OutsideInv

LEMMA CrashOutside ==
    ASSUME IInv, OutsideInv, HubCrash PROVE OutsideInv'
<1>1. /\ \A s \in ServiceIds : bots'[s] = NoBot /\ "crash" \in faults'[s]
      /\ \A j \in Jobs : pc'[j] \in {"free", "done"} /\ monitor'[j] = "idle"
      /\ stray' = {}
  BY DEF HubCrash, Active, IInv, TypeOK
<1>2. \A j \in Jobs : bots'[sid'[j]] = NoBot
  BY DEF HubCrash, IInv, TypeOK
<1> QED  BY <1>1, <1>2 DEF OutsideInv, FreeQuiet, HookGone, AssignmentGone, AbortSeen, Serving

\* Every step of the system keeps what is said of the outside.
LEMMA OutsideStep ==
    ASSUME Disciplined, IInv, OutsideInv, [Next]_vars
    PROVE  OutsideInv'
<1> USE DEF jobVars, botVars, outside
<1>1. ASSUME NEW j \in Jobs, Request(j) \/ Enter(j) \/ Resume(j) PROVE OutsideInv'
  BY <1>1, RequestOutside, RegisterOutside, StartOutside, StopHookOutside, UnassignOutside
     DEF Enter, Resume
<1>2. ASSUME NEW i \in Jobs, MonitorDetects(i) PROVE OutsideInv'
  <2>1. /\ tasks[i] = "running" /\ monitor[i] = "idle"
        /\ monitor' = [monitor EXCEPT ![i] = "stop_hook"]
        /\ UNCHANGED <<jobVars, bots, tasks, stray, outside, faults>>
    BY <1>2 DEF MonitorDetects
  <2>2. ASSUME NEW s \in ServiceIds, Unassigning(s) PROVE Unassigning(s)'
    BY <2>1, <2>2 DEF Unassigning, IInv, TypeOK
  <2>3. \A k \in Jobs : monitor'[k] # "idle" => monitor[k] # "idle" \/ tasks[k] = "running"
    BY <2>1 DEF IInv, TypeOK
  <2>4. Noted
    BY <2>1, <2>2, <2>3 DEF Noted
  <2> QED  BY <2>4, OtherOutside
<1>3. ASSUME NEW i \in Jobs, MonitorStopHook(i) PROVE OutsideInv'
  BY <1>3, MonitorStopHookOutside
<1>4. ASSUME NEW i \in Jobs, MonitorUnassign(i) PROVE OutsideInv'
  <2>1. /\ monitor[i] = "unassign" /\ monitor' = [monitor EXCEPT ![i] = "idle"]
        /\ assigned' \in {assigned, [assigned EXCEPT ![sid[i]] = FALSE]}
        /\ Blame(sid[i], {"late_unassign"}) /\ sid[i] \in ServiceIds
        /\ UNCHANGED <<jobVars, bots, tasks, stray, hook>>
    BY <1>4 DEF MonitorUnassign, IInv, TypeOK
  <2>2. /\ \A s \in ServiceIds : faults[s] \subseteq faults'[s]
        /\ "late_unassign" \in faults'[sid[i]]
    BY <2>1, Added DEF IInv
  <2>3. ASSUME NEW s \in ServiceIds
        PROVE  assigned'[s] = assigned[s] \/ (~assigned'[s] /\ "late_unassign" \in faults'[s])
    BY <2>1, <2>2 DEF IInv, TypeOK
  <2>4. ASSUME NEW s \in ServiceIds, s # sid[i], Unassigning(s) PROVE Unassigning(s)'
    BY <2>1, <2>4 DEF Unassigning, IInv, TypeOK
  <2>5. \A k \in Jobs : monitor'[k] # "idle" => monitor[k] # "idle"
    BY <2>1 DEF IInv, TypeOK
  <2>6. Noted
    BY <2>1, <2>2, <2>3, <2>4, <2>5 DEF Noted
  <2> QED  BY <2>6, OtherOutside
<1>5. ASSUME NEW c \in Calls \X Jobs, Stray(c) PROVE OutsideInv'
  <2> DEFINE r == sid[c[2]]
  <2>1. /\ c \in stray /\ stray' = stray \ {c} /\ c[2] \in Jobs /\ r \in ServiceIds
        /\ UNCHANGED <<jobVars, bots, tasks, monitor>>
    BY <1>5 DEF Stray, StrayLands, StrayLost, IInv, TypeOK, Calls
  <2>2. \/ c[1] = "set_hook" /\ hook' = [hook EXCEPT ![r] = TRUE] /\ Blame(r, {"late_set"}) /\ UNCHANGED assigned
        \/ c[1] = "delete_hook" /\ hook' = [hook EXCEPT ![r] = FALSE] /\ Blame(r, {"late_delete"}) /\ UNCHANGED assigned
        \/ c[1] = "unassign" /\ assigned' = [assigned EXCEPT ![r] = FALSE] /\ Blame(r, {"late_unassign"}) /\ UNCHANGED hook
        \/ c[1] = "unassign" /\ Blame(r, {"unassign_lost"}) /\ UNCHANGED <<hook, assigned>>
        \/ c[1] # "unassign" /\ UNCHANGED <<hook, assigned, faults>>
    BY <1>5 DEF Stray, StrayLands, StrayLost
  <2>3. ASSUME NEW s \in ServiceIds, Unassigning(s), s # r \/ c[1] # "unassign" PROVE Unassigning(s)'
    BY <2>1, <2>3 DEF Unassigning
  <2>4. \A s \in ServiceIds : faults[s] \subseteq faults'[s]
    BY <2>1, <2>2, Added DEF IInv
  <2>5. ASSUME NEW s \in ServiceIds
        PROVE  /\ hook'[s] = hook[s] \/ (hook'[s] /\ "late_set" \in faults'[s]) \/ (~hook'[s] /\ "late_delete" \in faults'[s])
               /\ assigned'[s] = assigned[s] \/ (~assigned'[s] /\ "late_unassign" \in faults'[s])
    <3>1. \A f \in Faults : Blame(r, {f}) => f \in faults'[r]
      BY <2>1 DEF Blame, IInv, TypeOK
    <3>2. /\ hook \in [ServiceIds -> BOOLEAN] /\ assigned \in [ServiceIds -> BOOLEAN]
          /\ {"late_set", "late_delete", "late_unassign"} \subseteq Faults
      BY DEF IInv, TypeOK, Faults
    <3>3. CASE c[1] = "set_hook" /\ hook' = [hook EXCEPT ![r] = TRUE] /\ Blame(r, {"late_set"}) /\ UNCHANGED assigned
      BY <3>1, <3>2, <3>3
    <3>4. CASE c[1] = "delete_hook" /\ hook' = [hook EXCEPT ![r] = FALSE] /\ Blame(r, {"late_delete"}) /\ UNCHANGED assigned
      BY <3>1, <3>2, <3>4
    <3>5. CASE c[1] = "unassign" /\ assigned' = [assigned EXCEPT ![r] = FALSE] /\ Blame(r, {"late_unassign"}) /\ UNCHANGED hook
      BY <3>1, <3>2, <3>5
    <3> QED  BY <2>2, <3>3, <3>4, <3>5
  <2>6. c[1] = "unassign" => faults'[r] \cap {"unassign_lost", "late_unassign"} # {}
    BY <2>1, <2>2, Added DEF IInv
  <2>7. ASSUME NEW s \in ServiceIds, Unassigning(s)
        PROVE  Unassigning(s)' \/ faults'[s] \cap {"unassign_lost", "late_unassign"} # {}
    BY <2>3, <2>6, <2>7
  <2>8. /\ UNCHANGED <<jobVars, bots, tasks>> /\ stray' \subseteq stray
        /\ \A i \in Jobs : monitor'[i] # "idle" => monitor[i] # "idle" \/ tasks[i] = "running"
    BY <2>1
  <2>9. Noted
    BY <2>4, <2>5, <2>7, <2>8 DEF Noted
  <2> QED  BY <2>9, OtherOutside
<1>6. CASE HubCrash
  BY <1>6, CrashOutside
<1>7. CASE UNCHANGED vars
  <2>1. UNCHANGED <<jobVars, botVars, outside, faults>>
    BY <1>7 DEF vars
  <2>2. \A s \in ServiceIds : Unassigning(s) => Unassigning(s)'
    BY <2>1 DEF Unassigning
  <2>3. Noted
    BY <2>1, <2>2 DEF Noted
  <2> QED  BY <2>3, OtherOutside
<1> QED
  BY <1>1, <1>2, <1>3, <1>4, <1>5, <1>6, <1>7 DEF Next, MonitorResume

\* Under the discipline, what the hub, Telegram and the main service hold of a bot
\* is explained by where its job stands or by a fault.
LEMMA OutsideCorrect == ASSUME Disciplined PROVE Spec => [](IInv /\ OutsideInv)
<1>1. Init => IInv /\ OutsideInv
  BY InvInit, OutsideInit
<1>2. IInv /\ OutsideInv /\ [Next]_vars => (IInv /\ OutsideInv)'
  BY InvStep, OutsideStep
<1> QED  BY <1>1, <1>2, PTL DEF Spec

\* When nothing is under way for an unregistered bot, its webhook is gone: it stays
\* set only after a failed deletion, a set_webhook that was handled late, or a crash.
THEOREM WebhookRemovedCorrect == ASSUME Disciplined PROVE Spec => []WebhookRemoved
<1>1. IInv /\ OutsideInv => WebhookRemoved
  BY DEF OutsideInv, HookGone, WebhookRemoved
<1> QED  BY <1>1, OutsideCorrect, PTL

\* When nothing is under way for an unregistered bot, it is not assigned to this hub:
\* it stays assigned only after a failed, lost or late unassign_from_hub, or a crash.
THEOREM AssignmentRemovedCorrect == ASSUME Disciplined PROVE Spec => []AssignmentRemoved
<1>1. ASSUME IInv, NEW s \in ServiceIds, Settled(s) PROVE ~Unassigning(s)
  <2>1. \A j \in Jobs : sid[j] = s => ~Active(j) /\ monitor[j] = "idle"
    BY <1>1 DEF Settled, Busy
  <2>2. \A c \in stray : /\ c[1] \in Calls /\ c[2] \in Jobs /\ c = <<c[1], c[2]>>
    BY <1>1 DEF IInv, TypeOK
  <2>3. \A c \in stray : sid[c[2]] # s
    BY <1>1, <2>2 DEF Settled
  <2> QED  BY <2>1, <2>3 DEF Unassigning, Active
<1>2. IInv /\ OutsideInv => AssignmentRemoved
  BY <1>1 DEF OutsideInv, AssignmentGone, AssignmentRemoved
<1> QED  BY <1>2, OutsideCorrect, PTL

\* When nothing is under way for a registered bot, it is in service: its tasks run, its
\* webhook is set and it is assigned, unless a stop was aborted or a call came late.
THEOREM RegisteredServesCorrect == ASSUME Disciplined PROVE Spec => []RegisteredServes
<1>1. ASSUME IInv, NEW s \in ServiceIds, Settled(s), bots[s] # NoBot, InService(bots[s])
      PROVE  tasks[bots[s]] = "running" /\ hook[s] /\ assigned[s]
  <2> PICK i \in Jobs : i = bots[s]
    BY <1>1 DEF IInv, TypeOK
  <2>1. sid[i] = s /\ \A j \in Jobs : sid[j] = s => pc[j] \in {"free", "done"}
    BY <1>1 DEF IInv, RegistryFits, Settled, Busy, Active
  <2>2. ASSUME NEW j \in Jobs, pc[j] = "stop_hook" PROVE subject[j] # i
    BY <1>1, <2>1, <2>2 DEF IInv, SubjectFits
  <2> QED  BY <1>1, <2>1, <2>2 DEF InService
<1>2. IInv /\ OutsideInv => RegisteredServes
  BY <1>1 DEF OutsideInv, Serving, RegisteredServes
<1> QED  BY <1>2, OutsideCorrect, PTL

-----------------------------------------------------------------------------
(* The dict `bots' and the objects implement the abstract registry.  The   *)
(* lemmas say what a step does to the life of every object; where a step   *)
(* touches neither registry nor tasks, no object's life moves.             *)

\* Only an object that was registered has tasks, and it is where NoOrphan says.
LEMMA WorkersBorn ==
    ASSUME IInv, NEW i \in Jobs, tasks[i] = "running"
    PROVE  Born(i) /\ bots[sid[i]] = i
BY DEF IInv, TypeOK, NoOrphan, RegistryFits

\* The life of one object moves, or none.
LifeMoves(i, stage) == \A k \in Jobs : Life(k)' = IF k = i THEN stage ELSE Life(k)
LifeStays == \A k \in Jobs : Life(k)' = Life(k)

LEMMA LifeMovesEffect ==
    ASSUME NEW i \in Jobs, NEW stage, LifeMoves(i, stage)
    PROVE  [k \in Jobs |-> Life(k)]' = [[k \in Jobs |-> Life(k)] EXCEPT ![i] = stage]
BY DEF LifeMoves

LEMMA LifeStaysEffect ==
    ASSUME LifeStays, bots' = bots
    PROVE  UNCHANGED Registry!vars
BY DEF LifeStays, Registry!vars

\* An object keeps its place when the entry of its id, its tasks and its birth do.
LEMMA LifeKept ==
    ASSUME IInv, NEW k \in Jobs,
           tasks'[k] = tasks[k], sid'[k] = sid[k], Born(k)' <=> Born(k),
           bots'[sid[k]] = k <=> bots[sid[k]] = k
    PROVE  Life(k)' = Life(k)
BY DEF Life, Born

LEMMA RequestLife ==
    ASSUME IInv, NEW j \in Jobs, Request(j)
    PROVE  LifeStays /\ bots' = bots
<1> PICK s \in ServiceIds : StartBots(j, s) \/ StartBot(j, s) \/ RestartBot(j, s) \/ StopBot(j, s)
  BY DEF Request
<1> PICK k \in {"start", "restart", "stop"}, i \in Jobs, first \in {"sem", "stop_hook"} :
       /\ Spawn(j, k, s, i, first)
       /\ \/ first = "sem" /\ i = j
          \/ first = "stop_hook" /\ bots[s] = i
  BY NoBotAssumption DEF StartBots, StartBot, RestartBot, StopBot, IInv, TypeOK
<1>1. /\ pc[j] = "free" /\ tasks[j] = "none" /\ \A r \in ServiceIds : bots[r] # j
      /\ sid' = [sid EXCEPT ![j] = s] /\ subject' = [subject EXCEPT ![j] = i]
      /\ pc' = [pc EXCEPT ![j] = first] /\ UNCHANGED <<bots, tasks>>
  BY DEF Spawn, botVars, IInv, FreeUntouched
<1>2. Life(j) = "new" /\ Life(j)' = "new"
  BY <1>1 DEF Life, IInv, TypeOK
<1>3. ASSUME NEW h \in Jobs, h # j PROVE Life(h)' = Life(h)
  BY <1>1, <1>3, LifeKept DEF Born, IInv, TypeOK
<1> QED  BY <1>1, <1>2, <1>3 DEF LifeStays

LEMMA RegisterLife ==
    ASSUME Disciplined, IInv, NEW j \in Jobs, Register(j)
    PROVE  Registry!Enter(sid[j], j)
<1>1. /\ pc[j] = "sem" /\ subject[j] = j /\ bots[sid[j]] = NoBot /\ sid[j] \in ServiceIds
      /\ bots' = [bots EXCEPT ![sid[j]] = j] /\ pc' = [pc EXCEPT ![j] = "gather"]
      /\ UNCHANGED <<sid, subject, tasks>>
  BY DEF Register, IInv, JobSees, Working, TypeOK
<1>2. tasks[j] # "running"
  BY <1>1, WorkersBorn, NoBotAssumption
<1>3. Life(j) = "new" /\ Life(j)' = "entered"
  BY <1>1, <1>2 DEF Life, IInv, TypeOK
<1>4. ASSUME NEW k \in Jobs, k # j PROVE Life(k)' = Life(k)
  BY <1>1, <1>4, LifeKept, NoBotAssumption DEF Born, IInv, TypeOK
<1>5. [k \in Jobs |-> Life(k)]' = [[k \in Jobs |-> Life(k)] EXCEPT ![j] = "entered"]
  BY <1>3, <1>4, LifeMovesEffect DEF LifeMoves
<1> QED  BY <1>1, <1>3, <1>5 DEF Registry!Enter

LEMMA RejectLife ==
    ASSUME IInv, NEW j \in Jobs, RejectToken(j)
    PROVE  Registry!Reject(j)
<1>1. /\ pc[j] = "sem" /\ subject[j] = j /\ bots[sid[j]] = NoBot /\ sid[j] \in ServiceIds
      /\ pc' = [pc EXCEPT ![j] = "done"] /\ UNCHANGED <<sid, subject, bots, tasks>>
  BY DEF RejectToken, botVars, IInv, JobSees, Working, TypeOK
<1>2. tasks[j] # "running"
  BY <1>1, WorkersBorn, NoBotAssumption
<1>3. Life(j) = "new" /\ Life(j)' = "gone"
  BY <1>1, <1>2, NoBotAssumption DEF Life, IInv, TypeOK
<1>4. ASSUME NEW k \in Jobs, k # j PROVE Life(k)' = Life(k)
  BY <1>1, <1>4, LifeKept DEF Born, IInv, TypeOK
<1>5. [k \in Jobs |-> Life(k)]' = [[k \in Jobs |-> Life(k)] EXCEPT ![j] = "gone"]
  BY <1>3, <1>4, LifeMovesEffect DEF LifeMoves
<1> QED  BY <1>1, <1>3, <1>5 DEF Registry!Reject

\* A start goes on, ends or fails: registry, tasks and births are left alone.
LEMMA StartLife ==
    ASSUME IInv, NEW j \in Jobs,
           WebhookSet(j) \/ GatherFails(j) \/ Assign(j) \/ AssignFails(j)
    PROVE  LifeStays /\ bots' = bots
<1>1. /\ pc[j] \notin {"free", "sem"}
      /\ \E next \in {"hooked", "stop_hook", "done"} : pc' = [pc EXCEPT ![j] = next]
      /\ UNCHANGED <<sid, subject, bots, tasks>>
  BY DEF WebhookSet, GatherFails, FailStart, Assign, AssignFails, botVars
<1>2. ASSUME NEW k \in Jobs PROVE Life(k)' = Life(k)
  <2>1. Born(k)' <=> Born(k)
    BY <1>1 DEF Born, IInv, TypeOK
  <2> QED  BY <1>1, <2>1, LifeKept
<1> QED  BY <1>1, <1>2 DEF LifeStays

LEMMA StartTasksLife ==
    ASSUME IInv, NEW j \in Jobs, StartTasks(j)
    PROVE  Registry!Begin(sid[j], j)
<1>1. /\ pc[j] = "hooked" /\ subject[j] = j /\ bots[sid[j]] = j /\ tasks[j] # "running"
      /\ tasks' = [tasks EXCEPT ![j] = "running"] /\ pc' = [pc EXCEPT ![j] = "assign"]
      /\ UNCHANGED <<sid, subject, bots>>
  BY DEF StartTasks, IInv, JobSees, Working
<1>2. Life(j) = "entered" /\ Life(j)' = "working"
  BY <1>1 DEF Life, IInv, TypeOK
<1>3. ASSUME NEW k \in Jobs, k # j PROVE Life(k)' = Life(k)
  BY <1>1, <1>3, LifeKept DEF Born, IInv, TypeOK
<1>4. [k \in Jobs |-> Life(k)]' = [[k \in Jobs |-> Life(k)] EXCEPT ![j] = "working"]
  BY <1>2, <1>3, LifeMovesEffect DEF LifeMoves
<1> QED  BY <1>1, <1>2, <1>4 DEF Registry!Begin

\* The entry of object i goes, and its tasks with it.
LEMMA LeaveLife ==
    ASSUME IInv, NEW i \in Jobs, bots[sid[i]] = i,
           bots' = [bots EXCEPT ![sid[i]] = NoBot], tasks'[i] # "running",
           \A k \in Jobs : k # i => tasks'[k] = tasks[k],
           \A k \in Jobs : Born(k)' <=> Born(k), UNCHANGED sid
    PROVE  Registry!Leave(sid[i], i)
<1>1. Born(i) /\ sid[i] \in ServiceIds
  BY DEF IInv, TypeOK, RegistryFits
<1>2. Life(i)' = "gone"
  BY <1>1, NoBotAssumption DEF Life, Born, IInv, TypeOK
<1>3. ASSUME NEW k \in Jobs, k # i PROVE Life(k)' = Life(k)
  BY <1>3, LifeKept, NoBotAssumption DEF IInv, TypeOK
<1>4. [k \in Jobs |-> Life(k)]' = [[k \in Jobs |-> Life(k)] EXCEPT ![i] = "gone"]
  BY <1>2, <1>3, LifeMovesEffect DEF LifeMoves
<1> QED  BY <1>4 DEF Registry!Leave

LEMMA StopHookLife ==
    ASSUME IInv, NEW j \in Jobs, StopHook(j)
    PROVE  \/ Registry!Leave(sid[j], subject[j])
           \/ LifeStays /\ bots' = bots
<1> DEFINE i == subject[j]
<1>1. /\ pc[j] = "stop_hook" /\ bots[sid[j]] \in {NoBot, i}
      /\ pc' = [pc EXCEPT ![j] = "unassign"] /\ UNCHANGED <<sid, subject>>
      /\ i \in Jobs /\ sid[i] = sid[j]
  BY DEF StopHook, IInv, JobSees, TypeOK, SubjectFits
<1>2. \A k \in Jobs : Born(k)' <=> Born(k)
  BY <1>1 DEF Born, IInv, TypeOK
<1>3. CASE UNCHANGED botVars
  <2>1. \A k \in Jobs : Life(k)' = Life(k)
    BY <1>1, <1>2, <1>3, LifeKept DEF botVars
  <2> QED  BY <1>3, <2>1 DEF LifeStays, botVars
<1>4. CASE bots[sid[j]] # NoBot /\ bots' = [bots EXCEPT ![sid[j]] = NoBot] /\ CancelTasks(i)
  <2>1. tasks'[i] # "running" /\ \A k \in Jobs : k # i => tasks'[k] = tasks[k]
    BY <1>1, <1>4, CancelTasksEffect DEF IInv
  <2> QED  BY <1>1, <1>2, <1>4, <2>1, LeaveLife
<1> QED  BY <1>3, <1>4 DEF StopHook, StopRaises

LEMMA UnassignLife ==
    ASSUME IInv, NEW j \in Jobs, Unassign(j) \/ UnassignFails(j)
    PROVE  LifeStays /\ bots' = bots
<1>1. pc[j] = "unassign" /\ UNCHANGED <<sid, bots, tasks>>
  BY DEF Unassign, UnassignFails, botVars
<1>2. \/ /\ subject[j] # j
         /\ subject' = [subject EXCEPT ![j] = j] /\ pc' = [pc EXCEPT ![j] = "sem"]
      \/ UNCHANGED subject /\ pc' = [pc EXCEPT ![j] = "done"]
  BY DEF Unassign, UnassignFails, AfterStop, IInv, TypeOK
<1>3. ASSUME NEW k \in Jobs PROVE Born(k)' <=> Born(k)
  BY <1>1, <1>2 DEF Born, IInv, TypeOK
<1>4. \A k \in Jobs : Life(k)' = Life(k)
  BY <1>1, <1>3, LifeKept
<1> QED  BY <1>1, <1>4 DEF LifeStays

LEMMA MonitorStopHookLife ==
    ASSUME IInv, NEW i \in Jobs, MonitorStopHook(i)
    PROVE  \/ Registry!Leave(sid[i], i)
           \/ LifeStays /\ bots' = bots
<1>1. /\ bots[sid[i]] = i /\ UNCHANGED <<sid, subject, pc>>
  BY DEF MonitorStopHook, IInv, MonitorRuns, NoOrphan, jobVars
<1>2. \A k \in Jobs : Born(k)' <=> Born(k)
  BY <1>1 DEF Born
<1>3. CASE UNCHANGED <<bots, tasks>>
  <2>1. \A k \in Jobs : Life(k)' = Life(k)
    BY <1>1, <1>2, <1>3, LifeKept
  <2> QED  BY <1>3, <2>1 DEF LifeStays
<1>4. CASE /\ bots' = [bots EXCEPT ![sid[i]] = NoBot]
           /\ tasks' = [tasks EXCEPT ![i] = "cancelled"]
  <2>1. tasks'[i] # "running" /\ \A k \in Jobs : k # i => tasks'[k] = tasks[k]
    BY <1>4 DEF IInv, TypeOK
  <2> QED  BY <1>1, <1>2, <1>4, <2>1, LeaveLife
<1> QED  BY <1>3, <1>4 DEF MonitorStopHook

LEMMA CrashLife == ASSUME IInv, HubCrash PROVE Registry!Crash
<1> DEFINE spared == {i \in Jobs : Life(i)' = "new"}
<1>1. /\ bots' = [s \in ServiceIds |-> NoBot] /\ UNCHANGED <<sid, subject>>
      /\ \A i \in Jobs : /\ tasks'[i] # "running" /\ pc'[i] # "sem"
                         /\ pc'[i] = "free" => pc[i] = "free"
  BY DEF HubCrash, Active, IInv, TypeOK
<1>2. ASSUME NEW i \in Jobs PROVE Life(i)' \in {"new", "gone"}
  BY <1>1, NoBotAssumption DEF Life, IInv, TypeOK
<1>3. ASSUME NEW i \in Jobs, Life(i)' = "new" PROVE Life(i) = "new"
  <2>1. ~Born(i)
    BY <1>1, <1>3 DEF Life, Born
  <2>2. tasks[i] # "running"
    BY <2>1, WorkersBorn
  <2> QED  BY <2>1, <2>2 DEF Life, Born
<1>4. spared \in SUBSET {i \in Jobs : [k \in Jobs |-> Life(k)][i] = "new"}
  BY <1>3
<1>5. [i \in Jobs |-> Life(i)]' = [i \in Jobs |-> IF i \in spared THEN "new" ELSE "gone"]
  BY <1>2
<1> HIDE DEF spared
<1> QED  BY <1>1, <1>4, <1>5 DEF Registry!Crash

\* Every step of the lifecycle is a step of the registry, or leaves it alone.
LEMMA RegistryStep ==
    ASSUME Disciplined, IInv, [Next]_vars
    PROVE  [Registry!Next]_(Registry!vars)
<1>1. ASSUME NEW j \in Jobs, Request(j) \/ Enter(j) \/ Resume(j)
      PROVE  [Registry!Next]_(Registry!vars)
  <2>1. sid[j] \in ServiceIds /\ subject[j] \in Jobs
    BY DEF IInv, TypeOK
  <2>2. CASE Request(j)
    BY <2>2, RequestLife, LifeStaysEffect
  <2>3. CASE Register(j)
    BY <2>1, <2>3, RegisterLife DEF Registry!Next
  <2>4. CASE RejectToken(j)
    BY <2>4, RejectLife DEF Registry!Next
  <2>5. CASE WebhookSet(j) \/ GatherFails(j) \/ Assign(j) \/ AssignFails(j)
    BY <2>5, StartLife, LifeStaysEffect
  <2>6. CASE StartTasks(j)
    BY <2>1, <2>6, StartTasksLife DEF Registry!Next
  <2>7. CASE StopHook(j)
    BY <2>1, <2>7, StopHookLife, LifeStaysEffect DEF Registry!Next
  <2>8. CASE Unassign(j) \/ UnassignFails(j)
    BY <2>8, UnassignLife, LifeStaysEffect
  <2> QED  BY <1>1, <2>2, <2>3, <2>4, <2>5, <2>6, <2>7, <2>8 DEF Enter, Resume
<1>2. ASSUME NEW i \in Jobs, MonitorStopHook(i) PROVE [Registry!Next]_(Registry!vars)
  <2>1. sid[i] \in ServiceIds
    BY DEF IInv, TypeOK
  <2> QED  BY <1>2, <2>1, MonitorStopHookLife, LifeStaysEffect DEF Registry!Next
<1>3. CASE UNCHANGED <<jobVars, bots, tasks>>
  <2>1. ASSUME NEW k \in Jobs PROVE Life(k)' = Life(k)
    BY <1>3 DEF Life, jobVars
  <2> QED  BY <1>3, <2>1, LifeStaysEffect DEF LifeStays
<1>4. CASE HubCrash
  BY <1>4, CrashLife DEF Registry!Next
<1>5. ASSUME NEW i \in Jobs, MonitorDetects(i) \/ MonitorUnassign(i)
      PROVE  UNCHANGED <<jobVars, bots, tasks>>
  BY <1>5 DEF MonitorDetects, MonitorUnassign
<1>6. ASSUME NEW c \in Calls \X Jobs, Stray(c) PROVE UNCHANGED <<jobVars, bots, tasks>>
  BY <1>6 DEF Stray, StrayLands, StrayLost
<1>7. UNCHANGED vars => UNCHANGED <<jobVars, bots, tasks>>
  BY DEF vars, botVars
<1> QED  BY <1>1, <1>2, <1>3, <1>4, <1>5, <1>6, <1>7 DEF Next, MonitorResume

\* Under the discipline the dict and the objects are a registry, for any number of bots
\* and requests: no entry is overwritten, an entry and its tasks go in one step, and an
\* object that was stopped never returns, whatever fails or comes late.
THEOREM RegistryCorrect == ASSUME Disciplined PROVE Spec => IsRegistry
<1>1. Init => Registry!Init
  BY DEF Init, Registry!Init, Life
<1>2. IInv /\ [Next]_vars => [Registry!Next]_(Registry!vars)
  BY RegistryStep
<1> QED  BY <1>1, <1>2, InvCorrect, PTL DEF Spec, IsRegistry, Registry!Spec

\* An object that has left the registry, or that never entered it, does not come back.
THEOREM GoneForGood ==
    ASSUME Disciplined
    PROVE  Spec => [][\A i \in Jobs : Life(i) = "gone" => Life(i)' = "gone"]_vars
<1>1. ASSUME IInv, [Next]_vars, NEW i \in Jobs, Life(i) = "gone" PROVE Life(i)' = "gone"
  <2> DEFINE life == [k \in Jobs |-> Life(k)]
  <2>1. life[i] = "gone" /\ life'[i] = Life(i)'
    BY <1>1
  <2>2. [Registry!Next]_(Registry!vars)
    BY <1>1, RegistryStep
  <2>3. \A s \in ServiceIds : bots[s] # i
    BY <1>1 DEF Life, IInv, RegistryFits, Born
  <2>4. life'[i] = "gone"
    <3>1. CASE UNCHANGED life
      BY <2>1, <3>1
    <3>2. CASE \E s \in ServiceIds, k \in Jobs :
                 Registry!Enter(s, k) \/ Registry!Begin(s, k) \/ Registry!Leave(s, k)
      <4> PICK s \in ServiceIds, k \in Jobs :
            Registry!Enter(s, k) \/ Registry!Begin(s, k) \/ Registry!Leave(s, k)
        BY <3>2
      <4>1. k # i
        BY <2>1, <2>3 DEF Registry!Enter, Registry!Begin, Registry!Leave
      <4>2. \E stage : life' = [life EXCEPT ![k] = stage]
        BY DEF Registry!Enter, Registry!Begin, Registry!Leave
      <4> QED  BY <2>1, <4>1, <4>2
    <3>3. CASE \E k \in Jobs : Registry!Reject(k)
      BY <2>1, <3>3 DEF Registry!Reject
    <3>4. CASE Registry!Crash
      BY <2>1, <3>4 DEF Registry!Crash
    <3> QED  BY <2>2, <3>1, <3>2, <3>3, <3>4 DEF Registry!Next, Registry!vars
  <2> QED  BY <2>1, <2>4
<1>2. IInv /\ [Next]_vars => [\A i \in Jobs : Life(i) = "gone" => Life(i)' = "gone"]_vars
  BY <1>1
<1> QED  BY <1>2, InvCorrect, PTL DEF Spec

-----------------------------------------------------------------------------
(* The permits of bot_start_sem, however requests overlap.  No assumption  *)
(* says that the jobs are finitely many: the holders are.                  *)

Holders == {j \in Jobs : HoldsPermit(j)}
PermitsBounded == IsFiniteSet(Holders) /\ Cardinality(Holders) <= MaxStarts

\* What is registered was spawned, so a new restart or stop never works on the object of
\* its own job: it would count as the clean-up of a start, which keeps its permit.
FreeUnregistered == \A j \in Jobs, s \in ServiceIds : bots[s] = j => pc[j] # "free"
PermitInv == TypeOK /\ FreeUnregistered /\ PermitsBounded

\* Any step but Register takes no permit and enters no object.
LEMMA NoPermitTaken ==
    ASSUME PermitInv,
           \A j \in Jobs : HoldsPermit(j)' => HoldsPermit(j),
           \A j \in Jobs : pc'[j] = "free" => pc[j] = "free",
           \A s \in ServiceIds : bots'[s] \in {bots[s], NoBot}
    PROVE  FreeUnregistered' /\ PermitsBounded'
<1>1. Holders' \subseteq Holders
  BY DEF Holders
<1>2. IsFiniteSet(Holders') /\ Cardinality(Holders') <= Cardinality(Holders)
  BY <1>1, FS_Subset DEF PermitInv, PermitsBounded
<1>3. Cardinality(Holders) \in Nat /\ Cardinality(Holders') \in Nat
  BY <1>2, FS_CardinalityType DEF PermitInv, PermitsBounded
<1>4. PermitsBounded'
  BY <1>2, <1>3, BoundsAssumption DEF PermitInv, PermitsBounded
<1>5. FreeUnregistered'
  BY NoBotAssumption DEF PermitInv, FreeUnregistered
<1> QED  BY <1>4, <1>5

LEMMA PermitTaken ==
    ASSUME PermitInv, NEW j \in Jobs, Register(j)
    PROVE  FreeUnregistered' /\ PermitsBounded'
<1>1. /\ PermitFree /\ pc[j] = "sem" /\ bots' = [bots EXCEPT ![sid[j]] = j]
      /\ pc' = [pc EXCEPT ![j] = "gather"] /\ UNCHANGED subject
  BY DEF Register
<1>2. Holders' \subseteq Holders \cup {j}
  BY <1>1 DEF Holders, HoldsPermit, PermitInv, TypeOK
<1>3. IsFiniteSet(Holders) /\ Cardinality(Holders) < MaxStarts
  BY <1>1 DEF PermitFree, Holders, PermitInv, PermitsBounded
<1>4. /\ IsFiniteSet(Holders \cup {j})
      /\ Cardinality(Holders \cup {j}) \in {Cardinality(Holders), Cardinality(Holders) + 1}
  BY <1>3, FS_AddElement
<1>5. IsFiniteSet(Holders') /\ Cardinality(Holders') <= Cardinality(Holders \cup {j})
  BY <1>2, <1>4, FS_Subset
<1>6. Cardinality(Holders) \in Nat /\ Cardinality(Holders') \in Nat
  BY <1>3, <1>5, FS_CardinalityType
<1>7. PermitsBounded'
  BY <1>3, <1>4, <1>5, <1>6, BoundsAssumption DEF PermitsBounded
<1>8. FreeUnregistered'
  BY <1>1 DEF FreeUnregistered, PermitInv, TypeOK
<1> QED  BY <1>7, <1>8

LEMMA PermitStep ==
    ASSUME PermitInv, [Next]_vars
    PROVE  PermitInv'
<1> SUFFICES FreeUnregistered' /\ PermitsBounded'
  BY TypeStep DEF PermitInv
<1> USE DEF jobVars, botVars
<1>1. ASSUME NEW j \in Jobs, Request(j) PROVE FreeUnregistered' /\ PermitsBounded'
  <2> PICK s \in ServiceIds : StartBots(j, s) \/ StartBot(j, s) \/ RestartBot(j, s) \/ StopBot(j, s)
    BY <1>1 DEF Request
  <2>1. /\ pc[j] = "free" /\ UNCHANGED bots
        /\ \E i \in Jobs : subject' = [subject EXCEPT ![j] = i] /\ (i = j \/ bots[s] = i)
        /\ \/ pc' = [pc EXCEPT ![j] = "sem"]
           \/ pc' = [pc EXCEPT ![j] = "stop_hook"] /\ subject' = [subject EXCEPT ![j] = bots[s]]
    BY DEF StartBots, StartBot, RestartBot, StopBot, Spawn, PermitInv, TypeOK
  <2>2. bots[s] # j
    BY <2>1 DEF PermitInv, FreeUnregistered
  <2>3. ASSUME NEW k \in Jobs, HoldsPermit(k)' PROVE HoldsPermit(k)
    BY <2>1, <2>2, <2>3 DEF HoldsPermit, PermitInv, TypeOK
  <2>4. \A k \in Jobs : pc'[k] = "free" => pc[k] = "free"
    BY <2>1 DEF PermitInv, TypeOK
  <2> QED  BY <2>1, <2>3, <2>4, NoPermitTaken
<1>2. ASSUME NEW j \in Jobs, Resume(j) \/ RejectToken(j)
      PROVE  FreeUnregistered' /\ PermitsBounded'
  <2>1. /\ pc[j] # "free"
        /\ \/ pc' = [pc EXCEPT ![j] = "done"]
           \/ pc' = [pc EXCEPT ![j] = "sem"]
           \/ /\ pc[j] \in {"gather", "hooked", "assign"} /\ UNCHANGED subject
              /\ \E next \in States \ {"free"} : pc' = [pc EXCEPT ![j] = next]
           \/ pc[j] = "stop_hook" /\ UNCHANGED subject /\ pc' = [pc EXCEPT ![j] = "unassign"]
        /\ \A k \in Jobs : k # j => subject'[k] = subject[k]
        /\ \A s \in ServiceIds : bots'[s] \in {bots[s], NoBot}
    <3>1. CASE RejectToken(j)
      BY <3>1 DEF RejectToken
    <3>2. CASE WebhookSet(j) \/ GatherFails(j) \/ StartTasks(j) \/ Assign(j) \/ AssignFails(j)
      BY <3>2 DEF WebhookSet, GatherFails, FailStart, StartTasks, Assign, AssignFails, States
    <3>3. CASE StopHook(j)
      BY <3>3 DEF StopHook, PermitInv, TypeOK
    <3>4. CASE Unassign(j) \/ UnassignFails(j)
      BY <3>4 DEF Unassign, UnassignFails, AfterStop, PermitInv, TypeOK
    <3> QED  BY <1>2, <3>1, <3>2, <3>3, <3>4 DEF Resume
  <2>2. ASSUME NEW k \in Jobs, HoldsPermit(k)' PROVE HoldsPermit(k)
    BY <2>1, <2>2 DEF HoldsPermit, PermitInv, TypeOK
  <2>3. \A k \in Jobs : pc'[k] = "free" => pc[k] = "free"
    BY <2>1 DEF PermitInv, TypeOK, States
  <2> QED  BY <2>1, <2>2, <2>3, NoPermitTaken
<1>3. ASSUME UNCHANGED jobVars, \A s \in ServiceIds : bots'[s] \in {bots[s], NoBot}
      PROVE  FreeUnregistered' /\ PermitsBounded'
  BY <1>3, NoPermitTaken DEF HoldsPermit
<1>4. ASSUME NEW i \in Jobs, MonitorDetects(i) \/ MonitorResume(i)
      PROVE  UNCHANGED jobVars /\ \A s \in ServiceIds : bots'[s] \in {bots[s], NoBot}
  BY <1>4 DEF MonitorDetects, MonitorResume, MonitorStopHook, MonitorUnassign, PermitInv, TypeOK
<1>5. ASSUME NEW c \in Calls \X Jobs, Stray(c)
      PROVE  UNCHANGED jobVars /\ \A s \in ServiceIds : bots'[s] \in {bots[s], NoBot}
  BY <1>5 DEF Stray, StrayLands, StrayLost
<1>6. CASE HubCrash
  <2>1. /\ \A j \in Jobs : pc'[j] \in {"free", "done"} /\ (pc'[j] = "free" => pc[j] = "free")
        /\ \A s \in ServiceIds : bots'[s] = NoBot
    BY <1>6 DEF HubCrash, Active, PermitInv, TypeOK
  <2> QED  BY <2>1, NoPermitTaken DEF HoldsPermit
<1>7. UNCHANGED vars => UNCHANGED jobVars /\ UNCHANGED bots
  BY DEF vars
<1> QED
  BY <1>1, <1>2, <1>3, <1>4, <1>5, <1>6, <1>7, PermitTaken DEF Next, Enter

\* At most MaxStarts bots start at a time: a permit taken in Register is the only way in,
\* and the clean-up of a failed start keeps it, for any requests, overlapping or not.
THEOREM PermitsBoundedCorrect == Spec => []PermitsBounded
<1>1. Init => PermitInv
  <2>1. Init => Holders = {} /\ FreeUnregistered
    BY NoBotAssumption DEF Init, Holders, HoldsPermit, FreeUnregistered
  <2> QED  BY <2>1, TypeInit, FS_EmptySet, BoundsAssumption DEF PermitInv, PermitsBounded
<1>2. PermitInv => PermitsBounded
  BY DEF PermitInv
<1> QED  BY <1>1, <1>2, PermitStep, PTL DEF Spec

-----------------------------------------------------------------------------
(* The updates beside the lifecycle.                                       *)

\* Every step with updates is a step of the lifecycle or leaves it alone.
LEMMA IntakeStep == [IntakeNext]_intakeVars => [Next]_vars
<1> SUFFICES ASSUME [IntakeNext]_intakeVars PROVE [Next]_vars
  OBVIOUS
<1>1. ASSUME NEW j \in Jobs, Request(j) \/ Enter(j) \/ Resume(j) PROVE Next
  BY <1>1 DEF Next
<1>2. ASSUME NEW i \in Jobs, MonitorDetects(i) \/ MonitorResume(i) PROVE Next
  BY <1>2 DEF Next
<1>3. ASSUME NEW c \in Calls \X Jobs, Stray(c) PROVE Next
  BY <1>3 DEF Next
<1>4. CASE CrashCuts
  BY <1>4 DEF CrashCuts, Next
<1>5. ASSUME NEW u \in Updates, NEW s \in ServiceIds, Refuse(u, s) \/ Accept(u, s)
      PROVE  UNCHANGED vars
  BY <1>5 DEF Refuse, Accept, Release
<1>6. ASSUME NEW u \in Updates, Drop(u) \/ HandleUpdate(u) \/ LoseUpdate(u)
      PROVE  UNCHANGED vars
  BY <1>6 DEF Drop, HandleUpdate, LoseUpdate, Release
<1>7. CASE UNCHANGED intakeVars
  BY <1>7 DEF intakeVars
<1> QED  BY <1>1, <1>2, <1>3, <1>4, <1>5, <1>6, <1>7 DEF IntakeNext

\* The lifecycle with updates beside implements the lifecycle alone, so every theorem
\* above holds of it too.
THEOREM IntakeImplements == IntakeSpec => Spec
<1>1. IntakeInit => Init
  BY DEF IntakeInit
<1> QED  BY <1>1, IntakeStep, PTL DEF IntakeSpec, Spec

\* An update whose receiver had started keeps a started receiver until it is handed over.
ReadyHasMe == \A u \in ready :
    u \in Updates /\ phase[u] = "check" /\ receiver[u] \in me
IntakeInv == TypeOK /\ IntakeTypeOK /\ ReadyHasMe

LEMMA IntakeInvCorrect == IntakeSpec => []IntakeInv
<1>1. IntakeInit => IntakeInv
  BY TypeInit DEF IntakeInit, IntakeInv, IntakeTypeOK, ReadyHasMe
<1>2. IntakeInv /\ [IntakeNext]_intakeVars => IntakeInv'
  <2> SUFFICES ASSUME IntakeInv, [IntakeNext]_intakeVars PROVE IntakeTypeOK' /\ ReadyHasMe'
    BY IntakeStep, TypeStep DEF IntakeInv
  <2>1. CASE KeepMe
    BY <2>1 DEF KeepMe, updateVars, IntakeInv, IntakeTypeOK, ReadyHasMe
  <2>2. CASE CrashCuts
    BY <2>2 DEF CrashCuts, IntakeInv, IntakeTypeOK, ReadyHasMe
  <2>3. ASSUME NEW u \in Updates, NEW s \in ServiceIds, Accept(u, s)
        PROVE  IntakeTypeOK' /\ ReadyHasMe'
    <3>1. bots[s] \in Jobs \cup {NoBot}
      BY <2>3 DEF IntakeInv, TypeOK
    <3>2. /\ phase' = [phase EXCEPT ![u] = "check"]
          /\ receiver' = [receiver EXCEPT ![u] = bots[s]]
          /\ ready' = IF bots[s] \in me THEN ready \cup {u} ELSE ready
          /\ me' = me /\ phase[u] = "new"
      BY <2>3 DEF Accept
    <3>3. IntakeTypeOK'
      BY <3>1, <3>2 DEF IntakeInv, IntakeTypeOK
    <3>4. u \notin ready
      BY <3>2 DEF IntakeInv, ReadyHasMe
    <3>5. ReadyHasMe'
      BY <3>1, <3>2, <3>4 DEF IntakeInv, IntakeTypeOK, ReadyHasMe
    <3> QED  BY <3>3, <3>5
  <2>4. ASSUME NEW u \in Updates, Release(u) PROVE IntakeTypeOK' /\ ReadyHasMe'
    BY <2>4 DEF Release, IntakeInv, IntakeTypeOK, ReadyHasMe
  <2>5. ASSUME NEW u \in Updates, LoseUpdate(u) PROVE IntakeTypeOK' /\ ReadyHasMe'
    BY <2>5 DEF LoseUpdate, Handling, IntakeInv, IntakeTypeOK, ReadyHasMe
  <2>6. CASE UNCHANGED intakeVars
    BY <2>6 DEF intakeVars, updateVars, IntakeInv, IntakeTypeOK, ReadyHasMe
  <2> QED
    BY <2>1, <2>2, <2>3, <2>4, <2>5, <2>6 DEF IntakeNext, Refuse, Drop, HandleUpdate
<1> QED  BY <1>1, <1>2, PTL DEF IntakeSpec

\* The variables of the updates keep their types.
THEOREM IntakeTypeCorrect == IntakeSpec => []IntakeTypeOK
<1>1. IntakeInv => IntakeTypeOK
  BY DEF IntakeInv
<1> QED  BY <1>1, IntakeInvCorrect, PTL

\* Whatever becomes of the bot, an update that arrived at a started object is not lost
\* for want of `me'.
THEOREM ReadyNotLostCorrect == IntakeSpec => []ReadyNotLost
<1>1. IntakeInv => ReadyNotLost
  BY DEF IntakeInv, ReadyHasMe, ReadyNotLost
<1> QED  BY <1>1, IntakeInvCorrect, PTL
=============================================================================
