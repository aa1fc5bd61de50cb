----------------------------- MODULE Device_proofs -----------------------------
(***************************************************************************)
(* The whole device implements the parts it is composed of, whatever is    *)
(* slow: what is proved of a part holds of it in the device.               *)
(***************************************************************************)
EXTENDS Device, RpiClient_proofs

\* A step of the device is a step of the configuration synchronisation or leaves it
\* alone, and the same of the captures.
LEMMA DeviceStep ==
  ASSUME [DeviceNext]_deviceVars
  PROVE  [Sync!Next]_sync /\ [SystemNext]_vars
<1>1. CASE ServerSide
  BY <1>1 DEF ServerSide, SystemNext
<1>2. CASE WebApplication
  BY <1>2 DEF WebApplication, Sync!Next
<1>3. ASSUME NEW t \in Threads, TimerRuns(t) \/ CaptureStep(t)
      PROVE  [Sync!Next]_sync /\ [SystemNext]_vars
  BY <1>3 DEF TimerRuns, CaptureStep, SystemNext
<1>4. ASSUME NEW w \in Workers, SyncStep(w) \/ SyncOutside(w)
      PROVE  [Sync!Next]_sync /\ [SystemNext]_vars
  BY <1>4 DEF SyncStep, SyncOutside, Sync!Next, Sync!Step
<1>5. CASE UNCHANGED deviceVars
  BY <1>5 DEF deviceVars
<1> QED BY <1>1, <1>2, <1>3, <1>4, <1>5 DEF DeviceNext

\* The device implements ConfigSync: its job schedules as if nobody ran captures.
THEOREM ImplementsSync == DeviceSpec => Sync!Spec
<1>1. DeviceInit => Sync!Init
  BY DEF DeviceInit
<1>2. [DeviceNext]_deviceVars => [Sync!Next]_(Sync!vars)
  BY DeviceStep DEF sync, Sync!vars, Sync!fields, Sync!objects
<1> QED BY <1>1, <1>2, PTL DEF DeviceSpec, Sync!Spec

\* The device implements the captures of RpiClient, with threads that are Timers.
THEOREM ImplementsSystem == DeviceSpec => SystemSpec
<1>1. DeviceInit => Init
  BY DEF DeviceInit
<1> QED BY <1>1, DeviceStep, PTL DEF DeviceSpec, SystemSpec

\* However long captures take, and however many sync runs overlap, who asked the server
\* of the device for a capture is never answered from an older one.
THEOREM DeviceAnsweredFresh == DeviceSpec => []CaptureAnsweredFresh
BY ImplementsSystem, JavaAnsweredFresh, PTL

-----------------------------------------------------------------------------
(***************************************************************************)
(* One sync run at a time.  Then only the field's Timer is live, and if no *)
(* old run still asks the server when the sleep ends, no two runs ask it   *)
(* at once.                                                                *)
(***************************************************************************)
SyncProofs == INSTANCE ConfigSync_proofs WITH Timers <- Threads

LEMMA SameSync ==
  /\ Sync!Init => SyncProofs!Init
  /\ [Sync!Next]_(Sync!vars) => [SyncProofs!Next]_(SyncProofs!vars)
BY DEF Sync!Init, Sync!Next, Sync!Step, Sync!LocalStep, Sync!vars, Sync!fields,
       Sync!objects, Sync!RemoteChange, Sync!Fire, Sync!FetchReturns, Sync!FetchFails,
       Sync!NoChange, Sync!Changed, Sync!SaveConfig, Sync!CheckTimer, Sync!CancelTimer,
       Sync!CancelNull, Sync!DropTimer, Sync!CreateTimer, Sync!NoThreadLeft,
       Sync!CreateTask, Sync!LoadTimer, Sync!LoadTask, Sync!Schedule,
       Sync!ScheduleThrows, Sync!SameConfig, Sync!Cancelled, Sync!TimersInUse,
       Sync!TasksInUse, Sync!Accepts, Sync!Scheduled, Sync!Goto, Sync!EndRun,
       SyncProofs!Init, SyncProofs!Next, SyncProofs!Step, SyncProofs!LocalStep,
       SyncProofs!vars, SyncProofs!fields, SyncProofs!objects, SyncProofs!RemoteChange,
       SyncProofs!Fire, SyncProofs!FetchReturns, SyncProofs!FetchFails,
       SyncProofs!NoChange, SyncProofs!Changed, SyncProofs!SaveConfig,
       SyncProofs!CheckTimer, SyncProofs!CancelTimer, SyncProofs!CancelNull,
       SyncProofs!DropTimer, SyncProofs!CreateTimer, SyncProofs!NoThreadLeft,
       SyncProofs!CreateTask, SyncProofs!LoadTimer, SyncProofs!LoadTask,
       SyncProofs!Schedule, SyncProofs!ScheduleThrows, SyncProofs!SameConfig,
       SyncProofs!Cancelled, SyncProofs!TimersInUse, SyncProofs!TasksInUse,
       SyncProofs!Accepts, SyncProofs!Scheduled, SyncProofs!Goto, SyncProofs!EndRun

LEMMA SyncAlone ==
  ASSUME NEW w, Workers = {w}
  PROVE  Sync!Spec => []SyncProofs!AloneInv(w)
<1>1. SyncProofs!Alone(w)
  BY DEF SyncProofs!Alone
<1>2. SyncProofs!Spec => []SyncProofs!AloneInv(w)
  BY <1>1, SyncAssumption, SyncProofs!AloneInvAlways
<1> QED BY <1>2, SameSync, PTL DEF Sync!Spec, SyncProofs!Spec

\* The run of a cancelled Timer asks no more when the job creates the next Timer.
LeftBehind(w) == \A t \in Threads \ live : tpc[t] \in Asking => pc[w] = "sleep"

\* A run asks when it begins or never: no other statement leads back to these.
LEMMA RunEnters ==
  ASSUME ClientTypeOK, NEW t \in Threads, Run(t), tpc'[t] \in Asking
  PROVE  tpc[t] \in Asking
BY DEF Run, NewSocket, NewSocketFails, GetOutput, SendCapture, GetInput, StreamThrows,
       StartRead, ReadAnswer, ReadGarbled, ReadNothing, ReadThrows, Close, SetDevId, NoData,
       Post, PostFails, EndRun, Throws, At, Ended, Asking, Steps, ClientTypeOK

LEMMA OneStep ==
  ASSUME NEW w, Workers = {w}, Slow \intersect Asking = {},
         OneAsks, LeftBehind(w), ClientTypeOK, ClientTypeOK',
         SyncProofs!AloneInv(w), SyncProofs!AloneInv(w)', [DeviceNext]_deviceVars
  PROVE  OneAsks' /\ LeftBehind(w)'
<1>0. /\ \A s \in schedules : s.timer = timer /\ s.timer \in live
      /\ live \subseteq {timer}
      /\ pc[w] \in {"sleep", "create"} => live = {}
      /\ w \in Workers /\ pc \in [Workers -> SyncProofs!Places]
      /\ Asking \intersect Ended = {}
  BY DEF SyncProofs!AloneInv, SyncProofs!OneTimer, SyncProofs!RunInv, SyncProofs!TypeOK,
         Asking, Ended
<1>1. ASSUME tpc' = tpc, live \subseteq live', pc[w] = "sleep" => pc'[w] = "sleep"
      PROVE  OneAsks' /\ LeftBehind(w)'
  BY <1>1 DEF OneAsks, LeftBehind
<1>2. CASE ServerSide \/ UNCHANGED deviceVars
  BY <1>1, <1>2 DEF ServerSide, sync, java, deviceVars, vars
<1>3. CASE WebApplication \/ SyncOutside(w)
  BY <1>0, <1>1, <1>3
     DEF WebApplication, SyncOutside, Sync!RemoteChange, Sync!Fire, Sync!FetchReturns,
         Sync!FetchFails, Sync!Goto, Sync!EndRun, Sync!fields, Sync!objects, vars, java
<1>4. ASSUME NEW t \in Threads, TimerRuns(t) PROVE OneAsks' /\ LeftBehind(w)'
  <2>1. PICK s \in schedules : s.timer = t
    BY <1>4 DEF TimerRuns
  <2>2. live = {t} /\ pc[w] # "sleep"
    BY <1>0, <2>1
  <2>3. \A u \in Threads : u # t => tpc[u] \notin Asking /\ tpc'[u] = tpc[u]
    BY <1>4, <2>2 DEF LeftBehind, TimerRuns, BeginRun, ClientTypeOK
  <2>4. live' = live
    BY <1>4 DEF TimerRuns, sync
  <2> QED BY <2>2, <2>3, <2>4 DEF OneAsks, LeftBehind
<1>5. ASSUME NEW t \in Threads, CaptureStep(t) PROVE OneAsks' /\ LeftBehind(w)'
  <2>1. /\ tpc'[t] \in Asking => tpc[t] \in Asking
        /\ \A u \in Threads : u # t => tpc'[u] = tpc[u]
        /\ live' = live /\ pc' = pc
    BY <1>5, RunEnters, RunAssigns DEF CaptureStep, sync
  <2>2. \A u \in Threads : tpc'[u] \in Asking => tpc[u] \in Asking
    BY <2>1
  <2> HIDE DEF LeftBehind
  <2>3. OneAsks'
    BY <2>2 DEF OneAsks
  <2>4. LeftBehind(w)'
    BY <2>1, <2>2 DEF LeftBehind
  <2> QED BY <2>3, <2>4
<1>6. CASE SyncStep(w)
  <2>1. tpc' = tpc
    BY <1>6 DEF SyncStep, vars, java
  <2>2. CASE Sync!CancelTimer(w)
    <3>1. pc'[w] = "sleep"
      BY <1>0, <2>2 DEF Sync!CancelTimer, Sync!Goto
    <3> QED BY <2>1, <3>1 DEF OneAsks, LeftBehind
  <2>3. CASE Sync!DropTimer(w)
    <3>1. pc[w] = "sleep" /\ live' = live
      BY <2>3 DEF Sync!DropTimer, Sync!Goto, Sync!objects
    <3>2. \A t \in Threads \ live : tpc[t] \notin Asking
      BY <1>0, <1>6, <3>1 DEF SyncStep, SleepEnds
    <3> QED BY <2>1, <3>1, <3>2 DEF OneAsks, LeftBehind
  <2>4. CASE Sync!CreateTimer(w)
    <3>1. pc[w] # "sleep" /\ live \subseteq live'
      BY <2>4 DEF Sync!CreateTimer, Sync!Goto
    <3> QED BY <1>1, <2>1, <3>1
  <2>5. CASE ~ (Sync!CancelTimer(w) \/ Sync!DropTimer(w) \/ Sync!CreateTimer(w))
    <3>1. live' = live /\ pc[w] # "sleep"
      BY <1>6, <2>5
         DEF SyncStep, Sync!LocalStep, Sync!NoChange, Sync!Changed, Sync!SaveConfig,
             Sync!CheckTimer, Sync!CancelNull, Sync!NoThreadLeft, Sync!CreateTask,
             Sync!LoadTimer, Sync!LoadTask, Sync!Schedule, Sync!ScheduleThrows, Sync!Goto,
             Sync!fields, Sync!objects
    <3> QED BY <1>1, <2>1, <3>1
  <2> QED BY <2>2, <2>3, <2>4, <2>5
<1> QED BY <1>2, <1>3, <1>4, <1>5, <1>6 DEF DeviceNext

\* With one sync run at a time, and where only a wait for an answer, a close or a post
\* outlasts the sleep, no two runs of the device ask the server at once.
THEOREM DeviceOneAsks ==
  ASSUME NEW w, Workers = {w}, Slow \intersect Asking = {}
  PROVE  DeviceSpec => []OneAsks
<1>1. DeviceInit => OneAsks /\ LeftBehind(w)
  BY DEF DeviceInit, Init, OneAsks, LeftBehind, Ended, Asking
<1>2. DeviceSpec => []SyncProofs!AloneInv(w) /\ []ClientTypeOK
  BY ImplementsSync, SyncAlone, ImplementsSystem, ClientTypes, PTL
<1>3. /\ OneAsks /\ LeftBehind(w)
      /\ SyncProofs!AloneInv(w) /\ SyncProofs!AloneInv(w)' /\ ClientTypeOK /\ ClientTypeOK'
      /\ [DeviceNext]_deviceVars
      => OneAsks' /\ LeftBehind(w)'
  BY OneStep
<1> QED BY <1>1, <1>2, <1>3, PTL DEF DeviceSpec

\* Then, with any number of Timers whose old runs have not ended, what a run of the
\* device posts was captured for it, over its own connection.
THEOREM DevicePostsOwn ==
  ASSUME NEW w, Workers = {w}, Slow \intersect Asking = {}
  PROVE  DeviceSpec => []PostsOwnCapture
BY DeviceOneAsks, ImplementsSystem, OwnCapturePosted, PTL

\* And then the Java side of the device never leaves the server reading from a connection
\* over which nothing comes.
THEOREM DeviceNotHeld ==
  ASSUME NEW w, Workers = {w}, Slow \intersect Asking = {}
  PROVE  DeviceSpec => []ServerNotHeld
BY DeviceOneAsks, ImplementsSystem, NotHeld, PTL

\* And every run of the device implements CaptureCall, while older runs may still wait
\* for an answer, close streams that are not theirs, or post.
THEOREM DeviceCalls ==
  ASSUME NEW w, Workers = {w}, Slow \intersect Asking = {}
  PROVE  DeviceSpec => ImplementsCall
BY DeviceOneAsks, ImplementsSystem, CallImplemented, PTL

\* With one sync run at a time the schedule of the device follows the configuration of
\* the web application as CaptureSchedule says, however long captures take.
THEOREM DeviceFollows ==
  ASSUME NEW w, Workers = {w}
  PROVE  DeviceSpec => Sync!FollowsConfig
<1>1. SyncProofs!Alone(w)
  BY DEF SyncProofs!Alone
<1>2. SyncProofs!Spec => SyncProofs!FollowsConfig
  BY <1>1, SyncAssumption, SyncProofs!AloneFollows
<1>3. SyncProofs!FollowsConfig => Sync!FollowsConfig
  <2>1. SyncProofs!Promise!Init => Sync!Promise!Init
    BY DEF SyncProofs!Promise!Init, Sync!Promise!Init
  <2>2. SyncProofs!Promise!Next => Sync!Promise!Next
    BY DEF SyncProofs!Promise!Next, Sync!Promise!Next, SyncProofs!Promise!Adopt,
           Sync!Promise!Adopt, SyncProofs!Promise!Stop, Sync!Promise!Stop,
           SyncProofs!Promise!Start, Sync!Promise!Start
  <2> QED BY <2>1, <2>2, PTL DEF Sync!FollowsConfig, SyncProofs!FollowsConfig,
                 Sync!Promise!Spec, SyncProofs!Promise!Spec
<1> QED BY <1>2, <1>3, ImplementsSync, SameSync, PTL DEF Sync!Spec, SyncProofs!Spec

\* Nor has the device ever two schedules, and between runs of the job it has the one of
\* the saved configuration, if there is one.
THEOREM DeviceApplied ==
  ASSUME NEW w, Workers = {w}
  PROVE  DeviceSpec => [](Sync!OneSchedule /\ Sync!SavedConfigApplied)
<1>1. SyncProofs!AloneInv(w) => Sync!OneSchedule /\ Sync!SavedConfigApplied
  BY DEF SyncProofs!AloneInv, SyncProofs!OneSchedule, SyncProofs!RunInv, SyncProofs!Running,
         SyncProofs!Wanted, SyncProofs!Before, Sync!OneSchedule, Sync!SavedConfigApplied
<1> QED BY <1>1, ImplementsSync, SyncAlone, PTL
=============================================================================
