----------------------------- MODULE ConfigSync -----------------------------
(***************************************************************************)
(* ConfigSyncJob.start of the Java client, run by the threads of Quartz.   *)
(* The trigger fires every 15 s whether or not the run before has ended    *)
(* (the HTTP request has no timeout, a change costs a sleep of 5 s), and   *)
(* the job's fields timer, captureTimerTask and curRpiConfig are shared by *)
(* all runs without a lock.  One action per access to a shared field.      *)
(*                                                                         *)
(* java.util.Timer is modelled by what the job calls: new, cancel and      *)
(* scheduleAtFixedRate with the exceptions it throws.  Objects are         *)
(* recycled once nothing refers to them, as the garbage collector does.    *)
(***************************************************************************)
EXTENDS Naturals, FiniteSets

CONSTANTS
  Workers,           \* Quartz threads that may run the job at the same time
  Configs,           \* configurations the web application may serve
  ValidConfigs,      \* those with a delay >= 0 and an interval > 0
  Timers,            \* Timer objects, as many as threads can be had
  Tasks,             \* PacketCaptureTimerTask objects
  Null

ASSUME ConfigsAssumption == ValidConfigs \subseteq Configs /\ Null \notin Configs
ASSUME ObjectsAssumption == Timers # {} /\ Null \notin Timers /\ Null \notin Tasks

VARIABLES
  remote,            \* the configuration the web application holds
  pc, rpiConfig,     \* each run's place and its local rpiConfig
  heldTimer,         \* the references line 75 has loaded
  heldTask,
  curRpiConfig, timer, captureTimerTask,
  live,              \* Timers created and not cancelled
  used,              \* tasks in use that were scheduled once
  schedules          \* the tasks queued in live Timers

fields == <<curRpiConfig, timer, captureTimerTask>>
objects == <<live, used, schedules>>
vars == <<remote, pc, rpiConfig, heldTimer, heldTask, fields, objects>>

Schedules == [timer : Timers, task : Tasks, config : ValidConfigs]

Init ==
  /\ remote \in Configs
  /\ pc = [w \in Workers |-> "idle"]
  /\ rpiConfig = [w \in Workers |-> Null]
  /\ heldTimer = [w \in Workers |-> Null]
  /\ heldTask = [w \in Workers |-> Null]
  /\ curRpiConfig = Null
  /\ timer = Null
  /\ captureTimerTask = Null
  /\ live = {}
  /\ used = {}
  /\ schedules = {}

Goto(w, from, to) == pc[w] = from /\ pc' = [pc EXCEPT ![w] = to]

\* The run ends: its local variables are gone.
EndRun(w) ==
  /\ pc' = [pc EXCEPT ![w] = "idle"]
  /\ rpiConfig' = [rpiConfig EXCEPT ![w] = Null]
  /\ heldTimer' = [heldTimer EXCEPT ![w] = Null]
  /\ heldTask' = [heldTask EXCEPT ![w] = Null]

\* Someone edits the configuration on the web application.
RemoteChange ==
  /\ \E c \in Configs \ {remote} : remote' = c
  /\ UNCHANGED <<pc, rpiConfig, heldTimer, heldTask, fields, objects>>

\* The trigger fires and a free thread starts the job.
Fire(w) ==
  /\ Goto(w, "idle", "fetch")
  /\ UNCHANGED <<remote, rpiConfig, heldTimer, heldTask, fields, objects>>

FetchReturns(w) ==
  /\ Goto(w, "fetch", "compare")
  /\ rpiConfig' = [rpiConfig EXCEPT ![w] = remote]
  /\ UNCHANGED <<remote, heldTimer, heldTask, fields, objects>>

\* No connection, an error status, or an empty body (toString of null).
FetchFails(w) ==
  /\ pc[w] = "fetch"
  /\ EndRun(w)
  /\ UNCHANGED <<remote, fields, objects>>

\* Mutant: only the first configuration is ever different.
SameConfig_Once(w) == curRpiConfig # Null

\* Mutant: every configuration counts as new.
SameConfig_Never(w) == FALSE

SameConfig(w) == curRpiConfig # Null /\ curRpiConfig = rpiConfig[w]

NoChange(w) ==
  /\ pc[w] = "compare"
  /\ SameConfig(w)
  /\ EndRun(w)
  /\ UNCHANGED <<remote, fields, objects>>

Changed(w) ==
  /\ Goto(w, "compare", "save")
  /\ ~ SameConfig(w)
  /\ UNCHANGED <<remote, rpiConfig, heldTimer, heldTask, fields, objects>>

SaveConfig(w) ==
  /\ Goto(w, "save", "check")
  /\ curRpiConfig' = rpiConfig[w]
  /\ UNCHANGED <<remote, rpiConfig, heldTimer, heldTask, timer, captureTimerTask, objects>>

\* Mutant: the Timer is dropped and never cancelled.
CheckTimer_NeverCancels(w) ==
  /\ Goto(w, "check", "sleep")
  /\ UNCHANGED <<remote, rpiConfig, heldTimer, heldTask, fields, objects>>

\* if (timer != null), the first of two reads of the field.
CheckTimer(w) ==
  /\ Goto(w, "check", IF timer # Null THEN "cancel" ELSE "sleep")
  /\ UNCHANGED <<remote, rpiConfig, heldTimer, heldTask, fields, objects>>

\* Timer.cancel: what is queued will not run again.
Cancelled(t) ==
  /\ live' = live \ {t}
  /\ schedules' = {s \in schedules : s.timer # t}

CancelTimer(w) ==
  /\ Goto(w, "cancel", "sleep")
  /\ timer # Null
  /\ Cancelled(timer)
  /\ UNCHANGED <<remote, rpiConfig, heldTimer, heldTask, fields, used>>

\* Another run has set the field to null between the two reads.
CancelNull(w) ==
  /\ pc[w] = "cancel"
  /\ timer = Null
  /\ EndRun(w)
  /\ UNCHANGED <<remote, fields, objects>>

\* The 5 s are over; timer = null.
DropTimer(w) ==
  /\ Goto(w, "sleep", "create")
  /\ timer' = Null
  /\ UNCHANGED <<remote, rpiConfig, heldTimer, heldTask, curRpiConfig, captureTimerTask,
                 objects>>

TimersInUse == live \union {timer} \union {heldTimer[w] : w \in Workers}

\* Mutant: the statement that creates the task is skipped.
CreateTimer_NoTask(w) ==
  /\ Goto(w, "create", "load_timer")
  /\ timer' \in Timers \ TimersInUse
  /\ live' = live \union {timer'}
  /\ UNCHANGED <<remote, rpiConfig, heldTimer, heldTask, curRpiConfig, captureTimerTask,
                 used, schedules>>

CreateTimer(w) ==
  /\ Goto(w, "create", "new_task")
  /\ timer' \in Timers \ TimersInUse
  /\ live' = live \union {timer'}
  /\ UNCHANGED <<remote, rpiConfig, heldTimer, heldTask, curRpiConfig, captureTimerTask,
                 used, schedules>>

\* new Timer() gets no thread and throws an Error, which Quartz catches.
NoThreadLeft(w) ==
  /\ pc[w] = "create"
  /\ Timers \ TimersInUse = {}
  /\ EndRun(w)
  /\ UNCHANGED <<remote, fields, objects>>

TasksInUse == {captureTimerTask} \union {heldTask[w] : w \in Workers}
                \union {s.task : s \in schedules}

CreateTask(w) ==
  /\ Goto(w, "new_task", "load_timer")
  /\ Tasks \ TasksInUse # {}
  /\ captureTimerTask' = CHOOSE k \in Tasks \ TasksInUse : TRUE
  /\ used' = (used \intersect TasksInUse) \ {captureTimerTask'}
  /\ UNCHANGED <<remote, rpiConfig, heldTimer, heldTask, curRpiConfig, timer, live, schedules>>

LoadTimer(w) ==
  /\ Goto(w, "load_timer", "load_task")
  /\ heldTimer' = [heldTimer EXCEPT ![w] = timer]
  /\ UNCHANGED <<remote, rpiConfig, heldTask, fields, objects>>

LoadTask(w) ==
  /\ Goto(w, "load_task", "schedule")
  /\ heldTask' = [heldTask EXCEPT ![w] = captureTimerTask]
  /\ UNCHANGED <<remote, rpiConfig, heldTimer, fields, objects>>

\* scheduleAtFixedRate does not throw: NullPointerException, a negative delay or an
\* interval that is not positive, a cancelled Timer, a task scheduled before.
Accepts(w) ==
  /\ heldTimer[w] # Null
  /\ rpiConfig[w] \in ValidConfigs
  /\ heldTimer[w] \in live
  /\ heldTask[w] \notin used

Scheduled(w) ==
  schedules' = schedules \union
    {[timer |-> heldTimer[w], task |-> heldTask[w], config |-> rpiConfig[w]]}

Schedule(w) ==
  /\ pc[w] = "schedule"
  /\ Accepts(w)
  /\ Scheduled(w)
  /\ used' = used \union {heldTask[w]}
  /\ EndRun(w)
  /\ UNCHANGED <<remote, fields, live>>

ScheduleThrows(w) ==
  /\ pc[w] = "schedule"
  /\ ~ Accepts(w)
  /\ EndRun(w)
  /\ UNCHANGED <<remote, fields, objects>>

\* What a run does by itself once the answer is there.
LocalStep(w) ==
  \/ NoChange(w) \/ Changed(w) \/ SaveConfig(w) \/ CheckTimer(w)
  \/ CancelTimer(w) \/ CancelNull(w) \/ DropTimer(w)
  \/ CreateTimer(w) \/ NoThreadLeft(w) \/ CreateTask(w) \/ LoadTimer(w) \/ LoadTask(w)
  \/ Schedule(w) \/ ScheduleThrows(w)

Step(w) == Fire(w) \/ FetchReturns(w) \/ FetchFails(w) \/ LocalStep(w)

Next == RemoteChange \/ \E w \in Workers : Step(w)

Spec == Init /\ [][Next]_vars

\* The trigger repeats for ever, a thread is not stopped, and of infinitely many
\* requests infinitely many are answered.
FairSpec ==
  /\ Spec
  /\ \A w \in Workers :
       WF_vars(Fire(w)) /\ WF_vars(LocalStep(w)) /\ SF_vars(FetchReturns(w))

-----------------------------------------------------------------------------
Places == {"idle", "fetch", "compare", "save", "check", "cancel", "sleep", "create",
           "new_task", "load_timer", "load_task", "schedule"}

\* Runs may overlap and use the Timer and the task of another.  Still: what is queued
\* is queued in a live Timer and in a task that exists, so that no cancelled Timer is
\* revived and no null reference reaches the queue.
TypeOK ==
  /\ remote \in Configs
  /\ pc \in [Workers -> Places]
  /\ rpiConfig \in [Workers -> Configs \union {Null}]
  /\ heldTimer \in [Workers -> Timers \union {Null}]
  /\ heldTask \in [Workers -> Tasks \union {Null}]
  /\ curRpiConfig \in Configs \union {Null}
  /\ timer \in Timers \union {Null}
  /\ captureTimerTask \in Tasks \union {Null}
  /\ live \subseteq Timers
  /\ used \subseteq Tasks
  /\ schedules \subseteq Schedules
  /\ \A s \in schedules : s.timer \in live /\ s.task \in used

\* ConfigSyncJob.java:54 "Cancel existing TimerTask if it exists": two capture
\* schedules never run side by side.
OneSchedule == \A s, t \in schedules : s = t

\* Between runs the schedule is the one of the configuration last saved; a
\* configuration scheduleAtFixedRate refuses leaves none.  The client's readme: "if
\* configuration has changed then it will use the capture frequency specified in
\* configuration to start a local Timer task".
SavedConfigApplied ==
  ((\A w \in Workers : pc[w] \in {"idle", "fetch", "compare"}) /\ curRpiConfig # Null) =>
    {s.config : s \in schedules} = {curRpiConfig} \intersect ValidConfigs

\* The job implements CaptureSchedule.
Promise == INSTANCE CaptureSchedule WITH
  wanted <- {curRpiConfig} \ {Null},
  running <- {s.config : s \in schedules}

FollowsConfig == Promise!Spec

\* Runs may overlap: an old answer may be saved after a newer one, but once the web
\* application settles, what it holds is saved for good.
EventuallySaved ==
  \A c \in Configs : <>[](remote = c) => <>[](curRpiConfig = c)

\* Once the web application settles on a valid configuration, its schedule
\* eventually runs, alone, for good.
EventuallyApplied ==
  \A c \in ValidConfigs :
    <>[](remote = c) => <>[]({s.config : s \in schedules} = {c})
=============================================================================
