-------------------------------- MODULE Device --------------------------------
(***************************************************************************)
(* The whole device: ConfigSync creates and cancels the Timers whose       *)
(* threads run the captures of RpiClient against CaptureServer.  A Timer   *)
(* is its thread.  Timer.cancel empties the queue of a Timer and lets the  *)
(* run that has begun go on, so that whether two runs can meet in the      *)
(* fields of RpiServiceImpl is a consequence here and not supposed.        *)
(*                                                                         *)
(* Time is left out, but for one question: whether the job's sleep of 5 s  *)
(* is longer than what a capture still takes when its Timer is cancelled.  *)
(***************************************************************************)
EXTENDS RpiClient, FiniteSets

CONSTANTS
  Workers, Configs, ValidConfigs, Tasks, Null,    \* as in ConfigSync
  Slow            \* where a run can still be 5 s after its Timer was cancelled

ASSUME SlowAssumption == Slow \subseteq Steps
ASSUME SyncAssumption == /\ ValidConfigs \subseteq Configs /\ Null \notin Configs
                         /\ Threads # {} /\ Null \notin Threads /\ Null \notin Tasks

VARIABLES remote, pc, rpiConfig, heldTimer, heldTask, curRpiConfig, timer,
          captureTimerTask, live, used, schedules

Sync == INSTANCE ConfigSync WITH Timers <- Threads

sync == <<remote, pc, rpiConfig, heldTimer, heldTask, curRpiConfig, timer,
          captureTimerTask, live, used, schedules>>
deviceVars == <<vars, sync>>

DeviceInit == Init /\ Sync!Init

\* A Timer's thread takes the task that is queued.
TimerRuns(t) ==
  /\ \E s \in schedules : s.timer = t
  /\ BeginRun(t)
  /\ UNCHANGED sync

CaptureStep(t) == Run(t) /\ UNCHANGED sync

ServerSide == Outside /\ UNCHANGED <<java, sync>>

\* Mutant: the job does not sleep.
SleepEnds_AtOnce(w) == TRUE

\* The sleep outlasts every statement of an old run but those in Slow.
SleepEnds(w) == pc[w] = "sleep" => \A t \in Threads \ live : tpc[t] \in Ended \union Slow

\* A new Timer has a thread that is not in the run of an old one.
OwnThread == (timer' # timer /\ timer' # Null) => tpc[timer'] \in Ended

SyncStep(w) ==
  /\ SleepEnds(w)
  /\ Sync!LocalStep(w)
  /\ OwnThread
  /\ UNCHANGED vars

SyncOutside(w) ==
  /\ Sync!Fire(w) \/ Sync!FetchReturns(w) \/ Sync!FetchFails(w)
  /\ UNCHANGED vars

WebApplication == Sync!RemoteChange /\ UNCHANGED vars

DeviceNext ==
  \/ ServerSide \/ WebApplication
  \/ \E t \in Threads : TimerRuns(t) \/ CaptureStep(t)
  \/ \E w \in Workers : SyncStep(w) \/ SyncOutside(w)

DeviceSpec == DeviceInit /\ [][DeviceNext]_deviceVars

\* What ConfigSync and RpiClient assume of their own steps, and a Timer with a task
\* queued runs it.
FairDevice ==
  /\ DeviceSpec
  /\ WF_deviceVars(ServerStep /\ UNCHANGED <<java, sync>>)
  /\ WF_deviceVars(OpenFails /\ UNCHANGED <<java, sync>>)
  /\ \A t \in Threads : WF_deviceVars(TimerRuns(t)) /\ WF_deviceVars(CaptureStep(t))
  /\ \A w \in Workers : /\ WF_deviceVars(Sync!Fire(w) /\ UNCHANGED vars)
                        /\ WF_deviceVars(SyncStep(w))
                        /\ SF_deviceVars(Sync!FetchReturns(w) /\ UNCHANGED vars)

-----------------------------------------------------------------------------
\* Once the web application settles on a configuration, captures with its schedule
\* begin again and again, whatever becomes of each.
SettledKeepsCapturing ==
  \A c \in ValidConfigs :
    <>[](remote = c) =>
      []<>(\E s \in schedules : s.config = c /\ tpc[s.timer] = "socket")
=============================================================================
