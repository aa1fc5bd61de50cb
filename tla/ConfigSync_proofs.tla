--------------------------- MODULE ConfigSync_proofs ---------------------------
(***************************************************************************)
(* Proofs about ConfigSync: what holds however many runs overlap, and what *)
(* holds when they do not.                                                 *)
(***************************************************************************)
EXTENDS ConfigSync, TLAPS

-----------------------------------------------------------------------------
(* Any number of overlapping runs.                                         *)

\* The parts of an ended run are well typed.
LEMMA EndRunTypes ==
  ASSUME TypeOK, NEW w \in Workers, EndRun(w)
  PROVE  /\ pc' \in [Workers -> Places]
         /\ rpiConfig' \in [Workers -> Configs \union {Null}]
         /\ heldTimer' \in [Workers -> Timers \union {Null}]
         /\ heldTask' \in [Workers -> Tasks \union {Null}]
BY DEF TypeOK, EndRun, Places

\* A run reads captureTimerTask only after it has set it, and nobody clears it.
TaskThere ==
  \A w \in Workers :
    /\ pc[w] \in {"load_timer", "load_task", "schedule"} => captureTimerTask \in Tasks
    /\ pc[w] = "schedule" => heldTask[w] \in Tasks

LEMMA TaskThereStep ==
  ASSUME TypeOK, TaskThere, [Next]_vars
  PROVE  TaskThere'
<1>1. CASE RemoteChange \/ UNCHANGED vars
  BY <1>1 DEF RemoteChange, vars, fields, objects, TaskThere
<1>2. ASSUME NEW w \in Workers, Step(w) PROVE TaskThere'
  <2>1. CASE CreateTask(w)
    <3>1. captureTimerTask' \in Tasks
      BY <2>1 DEF CreateTask
    <3> QED BY <2>1, <3>1 DEF CreateTask, Goto, TaskThere, TypeOK
  <2>2. CASE LoadTimer(w) \/ LoadTask(w)
    BY <2>2 DEF LoadTimer, LoadTask, Goto, TaskThere, TypeOK, fields
  <2>3. CASE FetchFails(w) \/ NoChange(w) \/ CancelNull(w) \/ NoThreadLeft(w)
             \/ Schedule(w) \/ ScheduleThrows(w)
    BY <2>3 DEF FetchFails, NoChange, CancelNull, NoThreadLeft, Schedule, ScheduleThrows,
                EndRun, TaskThere, TypeOK, fields
  <2>4. CASE Fire(w) \/ FetchReturns(w) \/ Changed(w) \/ SaveConfig(w) \/ CheckTimer(w)
             \/ CancelTimer(w) \/ DropTimer(w) \/ CreateTimer(w)
    BY <2>4 DEF Fire, FetchReturns, Changed, SaveConfig, CheckTimer, CancelTimer, DropTimer,
                CreateTimer, Goto, TaskThere, TypeOK, fields
  <2> QED BY <1>2, <2>1, <2>2, <2>3, <2>4 DEF Step, LocalStep
<1> QED BY <1>1, <1>2 DEF Next

LEMMA TypeOKStep ==
  ASSUME TypeOK, TaskThere, [Next]_vars
  PROVE  TypeOK'
<1> USE ConfigsAssumption, ObjectsAssumption
<1>1. CASE RemoteChange
  BY <1>1 DEF RemoteChange, TypeOK, fields, objects
<1>2. ASSUME NEW w \in Workers, Step(w) PROVE TypeOK'
  <2>1. CASE Fire(w) \/ Changed(w) \/ CheckTimer(w)
    BY <2>1 DEF Fire, Changed, CheckTimer, Goto, TypeOK, Places, fields, objects
  <2>2. CASE FetchReturns(w)
    BY <2>2 DEF FetchReturns, Goto, TypeOK, Places, fields, objects
  <2>3. CASE FetchFails(w) \/ NoChange(w) \/ CancelNull(w) \/ NoThreadLeft(w)
             \/ ScheduleThrows(w)
    BY <2>3, EndRunTypes
       DEF FetchFails, NoChange, CancelNull, NoThreadLeft, ScheduleThrows, TypeOK,
           fields, objects
  <2>4. CASE SaveConfig(w)
    BY <2>4 DEF SaveConfig, Goto, TypeOK, Places, objects
  <2>5. CASE CancelTimer(w)
    <3>1. /\ live' = live \ {timer}
          /\ schedules' = {s \in schedules : s.timer # timer}
      BY <2>5 DEF CancelTimer, Cancelled
    <3>2. \A s \in schedules' : s.timer \in live' /\ s.task \in used
      BY <3>1 DEF TypeOK
    <3> QED BY <2>5, <3>1, <3>2 DEF CancelTimer, Goto, TypeOK, Places, fields
  <2>6. CASE DropTimer(w)
    BY <2>6 DEF DropTimer, Goto, TypeOK, Places, objects
  <2>7. CASE CreateTimer(w)
    <3>1. timer' \in Timers
      BY <2>7 DEF CreateTimer
    <3> QED BY <2>7, <3>1 DEF CreateTimer, Goto, TypeOK, Places
  <2>8. CASE CreateTask(w)
    <3>1. captureTimerTask' \in Tasks \ TasksInUse
      BY <2>8 DEF CreateTask
    <3>2. used' = (used \intersect TasksInUse) \ {captureTimerTask'} /\ schedules' = schedules
      BY <2>8 DEF CreateTask
    <3>3. \A s \in schedules' : s.task \in used'
      BY <3>1, <3>2 DEF TypeOK, TasksInUse
    <3> QED BY <2>8, <3>1, <3>2, <3>3 DEF CreateTask, Goto, TypeOK, Places
  <2>9. CASE LoadTimer(w) \/ LoadTask(w)
    BY <2>9 DEF LoadTimer, LoadTask, Goto, TypeOK, Places, fields, objects
  <2>10. CASE Schedule(w)
    <3> DEFINE new == [timer |-> heldTimer[w], task |-> heldTask[w], config |-> rpiConfig[w]]
    <3>1. schedules' = schedules \union {new} /\ used' = used \union {heldTask[w]}
      BY <2>10 DEF Schedule, Scheduled
    <3>2. heldTimer[w] \in live /\ rpiConfig[w] \in ValidConfigs
      BY <2>10 DEF Schedule, Accepts
    <3>3. heldTask[w] \in Tasks
      BY <2>10 DEF Schedule, TaskThere
    <3>4. new \in Schedules /\ new.timer \in live /\ new.task \in used'
      BY <3>1, <3>2, <3>3 DEF Schedules, TypeOK
    <3>5. /\ schedules' \subseteq Schedules /\ used' \subseteq Tasks
          /\ \A s \in schedules' : s.timer \in live /\ s.task \in used'
      BY <3>1, <3>3, <3>4 DEF TypeOK
    <3>6. /\ EndRun(w) /\ remote' = remote /\ live' = live
          /\ timer' = timer /\ captureTimerTask' = captureTimerTask
          /\ curRpiConfig' = curRpiConfig
      BY <2>10 DEF Schedule, fields
    <3> QED BY <3>5, <3>6, EndRunTypes DEF TypeOK
  <2> QED BY <1>2, <2>1, <2>2, <2>3, <2>4, <2>5, <2>6, <2>7, <2>8, <2>9, <2>10
          DEF Step, LocalStep
<1>3. CASE UNCHANGED vars
  BY <1>3 DEF vars, fields, objects, TypeOK
<1> QED BY <1>1, <1>2, <1>3 DEF Next

LEMMA TypesAlways == Spec => [](TypeOK /\ TaskThere)
<1>1. Init => TypeOK /\ TaskThere
  BY DEF Init, TypeOK, TaskThere, Places
<1> QED BY <1>1, TypeOKStep, TaskThereStep, PTL DEF Spec

\* However many runs overlap, what is queued is queued in a live Timer and in a task
\* that was created and scheduled.
THEOREM TypeCorrect == Spec => []TypeOK
BY TypesAlways, PTL

-----------------------------------------------------------------------------
(***************************************************************************)
(* Runs that do not overlap: a single run w at a time.  Where the run      *)
(* stands decides which schedule there is: the old one until it is         *)
(* cancelled, none until the end, then the new one.                        *)
(***************************************************************************)
Alone(w) == Workers = {w}

Running == {s.config : s \in schedules}

Wanted == {curRpiConfig} \ {Null}

Before == {"idle", "fetch", "compare", "save"}
During == {"sleep", "create", "new_task", "load_timer", "load_task", "schedule"}

\* Everything queued is queued in the Timer the field refers to, and no other Timer
\* lives.
OneTimer ==
  /\ \A s \in schedules : s.timer = timer
  /\ live \subseteq {timer}

RunInv(w) ==
  /\ pc[w] \in Before => Running = Wanted \intersect ValidConfigs
  /\ pc[w] = "save" => rpiConfig[w] # curRpiConfig
  /\ pc[w] \notin {"idle", "fetch"} => rpiConfig[w] \in Configs
  /\ pc[w] \notin Before => curRpiConfig = rpiConfig[w]
  /\ pc[w] \in {"check", "cancel"} => curRpiConfig \notin Running
  /\ pc[w] \in During => schedules = {}
  /\ pc[w] \in {"sleep", "create"} => live = {}
  /\ pc[w] \in {"new_task", "load_timer", "load_task", "schedule"} => timer \in live
  /\ pc[w] \in {"load_timer", "load_task", "schedule"} => captureTimerTask \notin used
  /\ pc[w] \in {"load_task", "schedule"} => heldTimer[w] = timer
  /\ pc[w] \notin {"load_task", "schedule"} => heldTimer[w] = Null
  /\ pc[w] = "schedule" => heldTask[w] = captureTimerTask
  /\ pc[w] = "cancel" => timer # Null
  /\ pc[w] = "create" => timer = Null

AloneInv(w) == TypeOK /\ TaskThere /\ OneSchedule /\ OneTimer /\ RunInv(w)

\* The steps of the only run.
LEMMA AloneStep ==
  ASSUME NEW w, Alone(w), AloneInv(w), [Next]_vars
  PROVE  AloneInv(w)'
<1> USE ConfigsAssumption, ObjectsAssumption
<1>0. w \in Workers /\ pc[w] \in Places /\ (TypeOK /\ TaskThere)'
  BY TypeOKStep, TaskThereStep DEF Alone, AloneInv, TypeOK
<1> DEFINE Rest == OneSchedule /\ OneTimer /\ RunInv(w)
<1> SUFFICES Rest'
  BY <1>0 DEF AloneInv
<1> USE DEF AloneInv, Running, Wanted, Before, During
<1>1. CASE RemoteChange \/ UNCHANGED vars
  BY <1>0, <1>1 DEF RemoteChange, vars, fields, objects, OneSchedule, OneTimer, RunInv
<1>2. CASE Fire(w) \/ FetchReturns(w) \/ Changed(w)
  BY <1>0, <1>2
     DEF Fire, FetchReturns, Changed, SameConfig, Goto, fields, objects, OneSchedule,
         OneTimer, RunInv, TypeOK
<1>3. CASE FetchFails(w) \/ NoChange(w)
  BY <1>0, <1>3
     DEF FetchFails, NoChange, EndRun, fields, objects, OneSchedule, OneTimer, RunInv, TypeOK
<1>4. CASE SaveConfig(w)
  BY <1>0, <1>4
     DEF SaveConfig, Goto, objects, OneSchedule, OneTimer, RunInv, TypeOK
<1>5. CASE CheckTimer(w)
  BY <1>0, <1>5
     DEF CheckTimer, Goto, fields, objects, OneSchedule, OneTimer, RunInv, TypeOK
<1>6. CASE CancelTimer(w)
  <2>1. schedules' = {} /\ live' = {}
    BY <1>6 DEF CancelTimer, Cancelled, OneTimer
  <2> QED BY <1>0, <1>6, <2>1
          DEF CancelTimer, Goto, fields, OneSchedule, OneTimer, RunInv, TypeOK
<1>7. CASE CancelNull(w)
  BY <1>7 DEF CancelNull, RunInv
<1>8. CASE DropTimer(w)
  BY <1>0, <1>8 DEF DropTimer, Goto, objects, OneSchedule, OneTimer, RunInv, TypeOK
<1>9. CASE CreateTimer(w)
  BY <1>0, <1>9 DEF CreateTimer, Goto, OneSchedule, OneTimer, RunInv, TypeOK
<1>10. CASE NoThreadLeft(w)
  <2>1. TimersInUse = {Null}
    BY <1>10 DEF Alone, NoThreadLeft, TimersInUse, RunInv
  <2> QED BY <1>10, <2>1 DEF NoThreadLeft
<1>11. CASE CreateTask(w)
  BY <1>0, <1>11 DEF CreateTask, Goto, OneSchedule, OneTimer, RunInv, TypeOK
<1>12. CASE LoadTimer(w) \/ LoadTask(w)
  BY <1>0, <1>12 DEF LoadTimer, LoadTask, Goto, fields, objects, OneSchedule, OneTimer,
                     RunInv, TypeOK
<1>13. CASE Schedule(w)
  <2> DEFINE new == [timer |-> heldTimer[w], task |-> heldTask[w], config |-> rpiConfig[w]]
  <2>1. /\ schedules' = {new} /\ new.timer = timer /\ new.config = curRpiConfig
        /\ curRpiConfig \in ValidConfigs
    BY <1>13 DEF Schedule, Scheduled, Accepts, RunInv
  <2>2. /\ pc'[w] = "idle" /\ heldTimer'[w] = Null
        /\ timer' = timer /\ live' = live /\ curRpiConfig' = curRpiConfig
    BY <1>0, <1>13 DEF Schedule, EndRun, fields, TypeOK
  <2>3. {s.config : s \in schedules'} = {curRpiConfig'} \intersect ValidConfigs
    BY <2>1, <2>2
  <2> QED BY <1>0, <2>1, <2>2, <2>3 DEF OneSchedule, OneTimer, RunInv
<1>14. CASE ScheduleThrows(w)
  <2>1. rpiConfig[w] \notin ValidConfigs /\ curRpiConfig = rpiConfig[w] /\ schedules = {}
    BY <1>14 DEF ScheduleThrows, Accepts, RunInv, TypeOK, OneTimer
  <2>2. /\ pc'[w] = "idle" /\ heldTimer'[w] = Null /\ schedules' = {}
        /\ timer' = timer /\ live' = live /\ curRpiConfig' = curRpiConfig
    BY <1>0, <1>14, <2>1 DEF ScheduleThrows, EndRun, fields, objects, TypeOK
  <2>3. {s.config : s \in schedules'} = Wanted' \intersect ValidConfigs
    BY <2>1, <2>2
  <2> QED BY <2>2, <2>3 DEF OneSchedule, OneTimer, RunInv
<1> QED
  BY <1>1, <1>2, <1>3, <1>4, <1>5, <1>6, <1>7, <1>8, <1>9, <1>10, <1>11, <1>12, <1>13, <1>14
     DEF Next, Step, LocalStep, Alone

LEMMA AloneInvAlways ==
  ASSUME NEW w, Alone(w)
  PROVE  Spec => []AloneInv(w)
<1>1. Init => AloneInv(w)
  BY ConfigsAssumption
     DEF Init, AloneInv, TypeOK, TaskThere, OneSchedule, OneTimer, RunInv, Alone, Places,
         Running, Wanted, Before, During
<1>2. AloneInv(w) /\ [Next]_vars => AloneInv(w)'
  BY AloneStep
<1> QED BY <1>1, <1>2, PTL DEF Spec

\* When runs do not overlap two capture schedules never run side by side.
THEOREM AloneOneSchedule ==
  ASSUME NEW w, Alone(w)
  PROVE  Spec => []OneSchedule
<1>1. AloneInv(w) => OneSchedule
  BY DEF AloneInv
<1> QED BY <1>1, AloneInvAlways, PTL

\* When runs do not overlap, between runs the schedule is the one of the saved
\* configuration, or none if scheduleAtFixedRate refuses it.
THEOREM AloneApplied ==
  ASSUME NEW w, Alone(w)
  PROVE  Spec => []SavedConfigApplied
<1>1. AloneInv(w) => SavedConfigApplied
  BY DEF AloneInv, RunInv, SavedConfigApplied, Alone, Running, Wanted, Before
<1> QED BY <1>1, AloneInvAlways, PTL

\* When runs do not overlap the job implements CaptureSchedule: a schedule is stopped
\* only for another configuration, and before its successor starts.
THEOREM AloneFollows ==
  ASSUME NEW w, Alone(w)
  PROVE  Spec => FollowsConfig
<1> USE DEF Running, Wanted, Before, During
<1>1. Init => Promise!Init
  BY DEF Init, Promise!Init
<1>2. ASSUME AloneInv(w), [Next]_vars
      PROVE  [Promise!Next]_<<Wanted, Running>>
  <2> USE <1>2 DEF AloneInv
  <2>0. w \in Workers
    BY DEF Alone
  <2>1. CASE SaveConfig(w)
    <3>1. /\ curRpiConfig' = rpiConfig[w] /\ schedules' = schedules
          /\ rpiConfig[w] \in Configs /\ rpiConfig[w] # curRpiConfig
      BY <2>0, <2>1 DEF SaveConfig, Goto, objects, RunInv
    <3>2. Wanted' = {rpiConfig[w]} /\ {rpiConfig[w]} # Wanted /\ Running' = Running
      BY <3>1, ConfigsAssumption
    <3> QED BY <3>1, <3>2 DEF Promise!Next, Promise!Adopt
  <2>2. CASE CancelTimer(w)
    <3>1. schedules' = {} /\ curRpiConfig' = curRpiConfig /\ pc[w] = "cancel"
      BY <2>2 DEF CancelTimer, Cancelled, Goto, OneTimer, fields
    <3>2. Running' = {} /\ Wanted' = Wanted
      BY <3>1
    <3>3. Running # {} => Running # Wanted
      BY <2>0, <3>1, ConfigsAssumption DEF RunInv
    <3> QED BY <3>2, <3>3 DEF Promise!Next, Promise!Stop
  <2>3. CASE Schedule(w)
    <3>1. /\ pc[w] = "schedule" /\ schedules = {} /\ curRpiConfig = rpiConfig[w]
          /\ rpiConfig[w] \in ValidConfigs /\ curRpiConfig' = curRpiConfig
      BY <2>0, <2>3 DEF Schedule, Accepts, RunInv, fields
    <3>2. schedules' = {[timer |-> heldTimer[w], task |-> heldTask[w], config |-> rpiConfig[w]]}
      BY <2>3, <3>1 DEF Schedule, Scheduled
    <3>3. /\ Running = {} /\ Running' = {rpiConfig[w]}
          /\ Wanted = {rpiConfig[w]} /\ Wanted' = Wanted
      BY <3>1, <3>2, ConfigsAssumption
    <3> QED BY <3>1, <3>3 DEF Promise!Next, Promise!Start
  <2>4. ASSUME NEW v \in Workers, Step(v),
               ~ SaveConfig(v), ~ CancelTimer(v), ~ Schedule(v)
        PROVE  curRpiConfig' = curRpiConfig /\ schedules' = schedules
    BY <2>4 DEF Step, LocalStep, Fire, FetchReturns, FetchFails, NoChange, Changed,
         CheckTimer, CancelNull, DropTimer, CreateTimer, NoThreadLeft, CreateTask, LoadTimer,
         LoadTask, ScheduleThrows, fields, objects
  <2>5. CASE RemoteChange \/ UNCHANGED vars
    BY <2>5 DEF RemoteChange, vars, fields, objects
  <2> QED BY <2>1, <2>2, <2>3, <2>4, <2>5 DEF Next, Alone
<1>3. AloneInv(w) /\ [Next]_vars => [Promise!Next]_<<Wanted, Running>>
  BY <1>2
<1> QED BY <1>1, <1>3, AloneInvAlways, PTL DEF Spec, FollowsConfig, Promise!Spec
=============================================================================
