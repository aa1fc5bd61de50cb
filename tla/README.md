# A TLA+ model of the Raspberry Pi network analyser

Two programs run side by side on a Raspberry Pi.  They talk to each other over a
local socket, and one of them to a remote web application:

```
 remote web app  <--HTTP-- [ConfigSyncJob] --timer--> [PacketCaptureTimerTask]
      ^                          (Quartz)                  | RpiServiceImpl
      |                                                    v  socket, port 8765
      +------------------ POST network-capture ----- [C capture server]
                                                           | libpcap
                                                     beacons on the air
```

This directory holds TLA+ modules translated from the source of both, TLC
configurations that check them, and TLAPS proofs.

## 1. Inventory

### C server, `rpi-local-server/`

One thread.  All its state is global, and it is never cleared between captures.

| component | state | operations | what makes it correct |
|---|---|---|---|
| capture core (`client_main.c` 33-440) | `cap_info.packet_info_array[50]`, `cap_info.packet_info_count`, `cur_packet_count`, two statistics | `capture_packets` resets the counters and calls `pcap_loop`, which calls `packet_capture_callback` up to 100 times; that calls `parse_ethernet` (with `pkt_with_ssid_bssid_exists`) and `parseRadioTap` | each network heard is reported once, none is lost while there is room, a record is one frame |
| radiotap parser (`radiotap-parser.c`, loop in `client_main.c` 146-215) | an iterator on the stack: pointer, index, bitmap | `ieee80211_radiotap_iterator_init`, `_next`, the switch that stores four fields | what it reports is in the header and is the right field; it ends |
| byte order (`byteorder.h`) | none | the conversions of each system's branch; the parser uses `le16_to_cpu` and `le32_to_cpu`, `main` uses `htons` and `htonl` | a field is read in the order it was written, whatever the machine |
| JSON generation (`client_main.c` 442-475) | `output_buff[8192]`, a write pointer | `generateJson`, `writePacket` | the text is one list of the records and stays in the buffer |
| command loop (`client_main.c` 478-594) | the connection being served, `output_buff`, libpcap handles | `main`: accept, look the peer up, read once, `process_client_command`, write, close; every error is `exit()` | who asks for a capture gets that capture; everyone is served in the end |

### Java client, `rpi-local-client/`

| component | state | operations | what makes it correct |
|---|---|---|---|
| configuration sync (`ConfigSyncJob`, `QuartzConfiguration`, `RpiConfig`) | fields `timer`, `captureTimerTask`, `curRpiConfig`, shared by all runs, no lock | `start`, fired every 15 s whether or not the last run has ended: fetch, compare, save, cancel, sleep 5 s, create, schedule | one capture schedule, that of the saved configuration; a configuration the web application settles on is applied |
| capture task and service (`PacketCaptureTimerTask`, `RpiServiceImpl`) | fields `socket`, `out`, `in` of one singleton, shared by all Timer threads | `getNetworkInfoFromClient`, `setDevId`, `postCapturedDataToServer` | a run posts what was captured for it; a run ends |

Not modelled, and why:

* the data transfer objects (`NetworkCaptureData`, `Packet`, `Packet_`,
  `RpiNetworkCapture`): getters and setters that Jackson fills, no logic;
* the application start and its one test, which loads the Spring context;
* the web application: it is not in the repository.  It appears as an environment that
  answers, fails and changes its configuration;
* of `byteorder.h`, the branch for a Mach that is not Apple's: two of its macros do not
  compile, so that it has no behaviour;
* build files.

### How they interact, and what is hard

* The server's answer is a global buffer written to whoever is connected, whatever
  was asked.  Only control flow relates an answer to a question.
* A slot of the array keeps what an earlier frame, duplicate or stray, or an
  earlier capture wrote; correctness rests on each saved record being fully
  overwritten, and on the two counters that say how many slots count.
* `Timer.cancel` lets a running task finish.  After the job's sleep of 5 s an old
  task may therefore run next to a new one, and both use the same three fields.
  Whether it does depends on how long a capture takes.
* Runs of the sync job overlap when a fetch is slow or when a change (with its
  sleep) meets the next trigger.
* Neither program has a timeout on a read or a request.  A stalled peer stalls it.

The hazards, each at its line and with the properties that watch it, are in
`PROJECT.json`.

## 2. The modules

| module | models | state and actions |
|---|---|---|
| `BeaconCapture` | capture core | one action per way the callback goes: `SkipWhenFull`, `DiscardDuplicate`, `SaveBeacon`, `NameOverrun`, `HeaderRunsAway`, `StrayFrame`; `StartCapture`, `FinishCapture`, `LoopFails`, `SetupFails` for `capture_packets`.  History variables: `heard`, the beacons of this capture, and `before`, the left-overs in the slots when it began |
| `DistinctNetworks` | what a capture promises | the set of networks heard, cut off at a capacity |
| `RadiotapIterator` | radiotap parser with its driving loop | EXTENDS `ByteOrder`, through which `init` reads the length and the bitmap of the header; one action per way an iteration goes: `SkipAbsent`, `TakeArg`, `RunPastLength`, `NoMoreArgs`; `InitIterator` and `ParseUninitialised` for the two outcomes of `init` |
| `ByteOrder` | byte order | operators only: a number is the sequence of its bytes, most significant first, a build is a system and an order |
| `JsonBuffer` | JSON generation | one action per `sprintf` of the loop; `used` is the write pointer, `text` the pieces printed, `Overrun` the first `sprintf` that leaves the buffer |
| `CaptureServer` | command loop, and the local clients of the port | one action per system call or call of `capture_packets`; `net` has both ends of each connection |
| `ConfigSync` | `ConfigSyncJob.start` by several Quartz threads | one action per access to a shared field; `heldTimer`, `heldTask` are the operands line 75 has loaded; `live`, `used`, `schedules` are what `java.util.Timer` keeps |
| `CaptureSchedule` | what the sync job promises | the wanted configuration and the running schedule |
| `RpiClient` | capture task and service, EXTENDS `CaptureServer` | one action per statement of `getNetworkInfoFromClient`, by several Timer threads, against the real server actions |
| `CaptureCall` | what a capture run promises | connect, wait, report what was captured meanwhile; without an answer only for a stated reason.  `Disturb` is another run, about to end, that closes the connection as its own |
| `Device` | both programs, EXTENDS `RpiClient` and has `ConfigSync` as `Sync` | the job's runs create and cancel Timers, a Timer is a thread of `RpiClient`: `TimerRuns`, `CaptureStep`, `ServerSide`, `SyncStep`, `SyncOutside`, `WebApplication` |
| `MC*` | instances for TLC | symmetry sets, derived constants |
| `*_proofs` | theorems | section 5 |

`RpiClient` composes the Java captures with the C server: it runs the actions of
`CaptureServer` unchanged beside its own, and the Java side connects, sends and closes
through the same operators as any other client.  `Device` composes that with
`ConfigSync`: the Timers one module creates, cancels and schedules are the threads of
the other.  A cancelled Timer's run goes on, as `Timer.cancel` lets it; that it meets
the run of a new Timer, or does not, is a consequence of `Device` and not an
assumption.

The others meet through abstractions stated in them: a capture is one step of
`CaptureServer` (`CaptureEnds` or `CaptureDies`, the ends `BeaconCapture` has), and a
header that the iterator does not return from is `HeaderRunsAway` in `BeaconCapture`.

### Abstractions

* `BeaconCapture`: a name, an address, a reading are elements of small sets.  The
  source and destination address are always written together and are one value;
  the four optional radiotap fields are one (each is written only if present).
  Names of 15 characters or more are told apart (`LongSsids`), because the copy in
  the slot then has no terminator and never compares equal.  Where the copy
  overruns the local array, the process dies or goes on: either may happen.
* `RadiotapIterator`: a value is the offset it was read from.  Of the extension
  words only the number is kept: the index stops long before bit 32.  A header that
  `init` refuses leaves the iterator uninitialised; the loop may then end, run for
  ever or fault, after storing any of the fields.
* `ByteOrder`: what a byte is does not matter, so that the forms of a macro for 16, 32
  and 64 bits are one operator on sequences.  A header's bytes are in memory least
  significant first, and the model of the parser reads them by the machine's order.
* `JsonBuffer`: the values inside a record are left out, its length is not.
* `CaptureServer`: TCP keeps order and loses nothing; `read` returns all that has
  arrived (so two commands sent at once are one unknown command); the backlog is a
  bounded queue.  `output_buff` is `empty`, `old` or `new`: captured for the
  connection being served, or for an earlier one.
* `RpiClient`: the fields are sequentially consistent; connecting and storing the
  socket is one step.  An answer that is cut or malformed is the choice
  `ReadGarbled`.  The collector may close a socket that nothing refers to.
* `ConfigSync`: `equals` is equality of configurations.  Timer and task objects
  are recycled once nothing refers to them, so that a behaviour can be infinite.
* `Device`: no clock.  Of time one thing is kept: `Slow` names the statements at which
  an old run can still be when the job's sleep of 5 s ends.  `await` and `post` are in it
  in both runs of the device: the answer of the server (a capture of 100 beacons) or of
  the web application may take longer than the sleep, for neither has a limit.  A Timer
  may start its task at any time between schedule and cancel.

## 3. The runs

Violated properties are what a comment or a readme says and the code does not do.

| run | shows | result |
|---|---|---|
| `capture_mixed` | hidden and over-long names, stray frames, missing fields, repeated captures: `DistinctBeacons`, `NoNetworkMissed`, `SavedBeaconWasHeard`, `LeftOversAreOlder`, `SameNameNoticed`, `FirstFrameWins`, `TypeOK` | hold |
| `capture_beacons` | beacons only: the counters explain every frame (`EveryFrameAccounted`), the capture implements `DistinctNetworks` (`ReportsDistinctNetworks`) | hold |
| `radiotap_headers` | every combination of ten bitmap bits, nine lengths, no or two further words, another version, on machines of both orders: `TypeOK` (the size table is read at its entries), `ReportedInsideHeader`, `FieldsRight` (up to the first padding), `PaddedAccepted` (padding never makes a well-formed header fail), `WellFormedEnds` | hold |
| `radiotap_padded` | `ReportedIsPresent` | violated: padding is added to the index, not the pointer |
| `sync_alone` | runs one after another: `OneSchedule`, `SavedConfigApplied`, `FollowsConfig` (implements `CaptureSchedule`), `EventuallyApplied` | hold |
| `sync_overlap` | two overlapping runs: `TypeOK`, and `EventuallySaved`: answers may be saved out of order, but not for ever | hold |
| `sync_lost` | two overlapping runs: `SavedConfigApplied` | violated: the schedule left is not the saved configuration's |
| `client_alone` | one Timer thread, another local client that sends anything, several times, or nothing, and every failure: the server's `TypeOK`, `CaptureAnsweredFresh`, `NobodyForgotten`, `EveryoneServed`; the Java side's `ClientTypeOK`, `PostsOwnCapture`, `RunsEnd`; the run implements `CaptureCall` (`ImplementsCall`) | hold |
| `device_overlap` | the whole device, captures that may outlast the sleep, so that an old run and a new one share the fields: `OneAsks` (only one of them is at the statements that open a connection and send over it), `ServerNotHeld` (nothing they do to each other's streams leaves the server reading for ever), `PostsOwnCapture`, and each run implements `CaptureCall`, disturbed only by a run about to end (`ImplementsCall`) | hold |
| `device_settles` | the whole device, captures and posts that may outlast the sleep: `SettledKeepsCapturing` (once the web application settles on a configuration, capture runs begin again and again; what becomes of each is not its subject) | hold |
| `json_lists` | up to 50 records, repeated: `StaysInBuffer` while the longest records would fit, `AnswerIsList`, `TypeOK` | hold |
| `json_overrun` | `SupportsMaxCount` | violated: 48 records of ordinary length need more than 8192 characters |

Other divergences that the model has and no run is kept for:

* Capture: a field absent from a frame is reported from an older one, and a stray frame
  with the addresses and the reading of an older one; `LeftOversAreOlder` says which:
  what the slot held before the capture began, so that a frame of this capture is never the
  source; a network with a name of 15 characters
  or more is saved once per frame; the same-name statistic counts pairs, not packets
  (that it is zero exactly when there is no pair is `SameNameNoticed`); a stray frame is
  counted (so `DistinctBeacons` and its like speak of records of type beacon).
* Server: a command that is not known is answered with an old capture; handles run out
  and the server exits (`OpenFails` with `handles = MaxHandles`).
* Sync job: with overlapping runs `OneSchedule` fails, not only `SavedConfigApplied`.
* Device: the comment at `ConfigSyncJob.java:59-62` gives a cancelled Timer 5 s for its
  cleanup.  A capture that takes longer is not stopped, and the old run, when it gets its
  answer, closes the stream the fields now hold, so that the new run is left without one.
  `CaptureCall` has this as `Disturb`; in `device_overlap` it is the only harm done, and
  `PostsOwnCapture` still holds: the new run opens its own connection before it sends.
  It fails where the runs are not kept apart by the sleep at all: when sync runs
  overlap and leave two Timers live, or without the sleep (the mutant
  `SleepEnds_AtOnce`).  Both commands then go over one connection and an old capture is
  posted as new.
* Byte order: `htonl` is the conversion of 16 bits (`byteorder.h:364`), right for
  `INADDR_ANY` only, which is what `main` gives it; the channel is read from the header
  without `le16_to_cpu` (`client_main.c:199`); a little-endian Apple is taken for
  big-endian by the `htobe` family, where the system has not stated its order before.

### Bounds

* `MAX_PACKET_INFO_COUNT` and `MAX_PACKET_CAPTURE_COUNT` are 50 and 100 in the
  code; 3 slots and 4 frames already have a full table while frames still
  come, an earlier capture's contents in every slot, and duplicates of each slot.
  One hidden, one short and one long name with two BSSIDs make same names with
  other BSSIDs, and duplicates of each.  The callback never looks at more than the slots counted, one at a time; the
  proofs hold for every size.
* `RadiotapIterator` keeps the real sizes, alignments and table; the bits are those a
  driver sets for a beacon, `LOCK_QUALITY` for one more alignment, `DBM_ANTNOISE`, which a
  walk that has met padding takes for the longer `LOCK_QUALITY`, and the extension bit.
  `BUFSIZ` is 48 and the memory ends at 56, so that lengths lie below, at and above
  both.  Offsets beyond are folded (`Folded`): all of them fault alike.  A version other
  than 0 is refused at once, and is tried with one length.  The builds are Linux of
  both orders; the systems differ for the parser only in the order (`FieldsReadRight`).
* `ConfigSync`: two runs meet in every order; two Timers and two tasks are all one
  run can refer to at a time, four tasks serve two runs.  With overlap and liveness one Timer
  thread is given, so that `new Timer()` fails often; `sync_lost` has three.
* `RpiClient`: one Java thread needs a connection and one left over from an earlier
  run; the other client needs one of its own, so that each is served and queued against
  the others.  Two sends make a merged command, two handles run out within a behaviour.
* `Device`: two Timers, for with one sync run at a time a cancelled Timer and its
  successor are what meets.  With two, a third Timer waits until one of the threads has
  ended its run, so that three runs in the method at once are left out of
  `device_overlap`; its four properties are proved for any number of Timers
  (`DeviceOneAsks`, `DeviceNotHeld`, `DevicePostsOwn`, `DeviceCalls`).  One connection
  for each.  Two handles in `device_overlap` are a capture of an old run and one of its
  successor; after them the process ends.  One in `device_settles`, which is about runs
  that begin; failures of the two programs, as far as they end a run early, are left to
  the other runs.
* `JsonBuffer` has the real lengths: 12 and 2 for the brackets, 106 to 203 per record,
  from the format string: a stray frame in a slot never used has neither name nor
  addresses, and a name of 15 characters or more prints on into the source address, for its
  terminator is overwritten.  40 of the longest fit in 8192, 41 do not; 47 of 173
  characters, an ordinary one, fit, and 48 do not.  Only the shortest and the longest are
  mixed in `json_lists`, only ordinary ones in `json_overrun`; the proof takes all.

### Fairness

* `RadiotapIterator`: the loop does not block, so `WF` of its next step.
* `ConfigSync` (`FairSpec`): the trigger repeats for ever (`WF` of `Fire`); a thread
  that has its answer does not stop (`WF` of `LocalStep`); of infinitely many
  requests infinitely many are answered (`SF` of `FetchReturns`, because a failed
  fetch ends the run and takes the step's guard away).  Nothing is assumed of
  `RemoteChange`.
* `RpiClient` (`FairSystem`): the server's own steps, among them the end of a capture:
  beacons keep coming.  Each thread's steps, for no statement blocks for ever once the
  server answers.  Other clients close in the end (`WF` of `CloseClient`); the server has
  no timeout, so without this nobody would be served after a silent client.  Nothing is
  assumed of `BeginRun` and of the collector.
* `Device` (`FairDevice`): the union of the two: the trigger, the sync threads once they
  have an answer (`WF` of `SyncStep`: the sleep ends), `SF` of the answer; a Timer
  with a task queued runs it (`WF` of `TimerRuns`), its thread goes on (`WF` of
  `CaptureStep`), the server goes on.  The server exiting for want of handles is fair too:
  it is what the code does, and captures begin again and again even so, each finding
  no connection.  Nothing is assumed of the web application.

## 4. What each property is about

Stated above each definition.  The ones a reader should look at first:

* `SavedBeaconWasHeard`, `DistinctBeacons`, `FirstFrameWins`: the array is never
  cleared and the callback writes before it decides, so a record could mix frames.
* `LeftOversAreOlder`: the scan comes between the name and the rest.  Where it finds a duplicate
  nothing of the frame but type, name and BSSID may stay behind in the slot, or the next
  record, if its header lacks a field, would show the reading of another network.
* `CaptureAnsweredFresh` and `PostsOwnCapture`: the buffer is shared and written
  whatever was asked, and the thread's fields are shared, and yet one thread alone
  posts only what was captured for it.
* `ImplementsCall`: what a run reports was captured after it connected; and a connected
  run that ends without an answer had one it could not read, or the server is gone, or
  another run that was about to end has closed its connection.  The last needs
  several threads; a run that still asks or waits is never the one that disturbs.
* `ServerNotHeld`: an old run closes whatever streams the fields hold, also a
  new run's.  It might close one socket twice and leave the other open and silent, and
  the server, which reads without a timeout, would serve nobody again.  Whenever the
  server reads from a silent connection of the Java side, the run that opened it has yet
  to send, and is not disturbed before it does (`OneAsks`).
* `PaddedAccepted`: the parser adds padding to the index and not to the pointer, takes
  the fields after it with other fields' sizes, and, once past the length, reads on until it
  faults, or for ever: next stays at the same bit, and its caller knows no end but -1.
  Whether that can happen depends on the sizes of all later fields.
* `SettledKeepsCapturing`: the job, the Timers, the threads and the server together never
  reach a state in which no more capture run begins, whatever the job cancels on the way.
  A run that begins need not succeed: the server may have ended.
* `SameNameNoticed`: the counter is incremented before the scan knows whether the
  frame is a duplicate, and yet is positive exactly when it should be.
* `FollowsConfig`, `EventuallyApplied`: the job's promise, as an abstract machine.

## 5. What is proved

The constants are arbitrary, within the named assumptions of each module.

| module | theorem | argument |
|---|---|---|
| `BeaconCapture_proofs` | `TypeCorrect`, `FramesAccounted`, `CountedRecordsStay`, `NetworksDistinct`, `NetworksKept`, `RecordsAreFrames`, `OlderLeftOvers`, `SameNamesNoticed`; `ReportImplemented` with beacons only and names that fit | `TypeInv` adds to `TypeOK` that the two counts are equal, without which neither bounds the other.  The effect of a step on the counted slots is one of four kinds (`BeaconEffect` and the lemmas after it); each invariant is then preserved kind by kind.  For `OlderLeftOvers`, the slots not yet counted hold their left-overs until then (`OpenSlotsStep`).  For the statistic, a scan adds to it exactly when it makes a pair that was there or is made (`ScanCountZero`).  The refinement needs `SlotPerNetwork`: as many networks are reported as slots count, so that the table is full when `DistinctNetworks` is |
| `RadiotapIterator_proofs` | `IndexInTable`, `FieldsInsideHeader`, `FieldsRightUntilPadding`, `PaddedNotRefused` | padding moves the index, but never past the table, for the entries that need padding are followed by enough others (`BumpedInTable`).  For every well-formed header `Behind`: while index and bit agree the pointer is where the layout has it; once padding has moved the index ahead, the pointer is behind the layout by at least `AheadBy` of the bit.  The first padding earns that (`FirstPadding`: the padding and the length that were not skipped), and a field taken with the size of a later index spends no more of it than the next bit needs (`TakenAhead`), so that the check of the length is never met.  Up to the first padding `FieldsInStep`: the fields below the bit are stored, and the index does not come back to them |
| `ByteOrder_proofs` | `FieldsReadRight`, `NetworkOrder`, `HtonlRightForZero`, `OwnNames` | each system's branch states an order, which is the machine's but for one; loading from memory is a swap or none, and a swap undoes itself (`SwabTwice`) |
| `ConfigSync_proofs` | `TypeCorrect` for any number of overlapping runs; `AloneOneSchedule`, `AloneApplied`, `AloneFollows` for one run at a time | `TaskThere`: a run that loads the task has created one.  For one run `RunInv` says which schedule there is at each place of the run, and `OneTimer` that only the field's Timer is live.  `AloneFollows` maps each step to a step of `CaptureSchedule` or a stutter |
| `CaptureServer_proofs` | `TypeCorrect`, `CapturesFresh`, `NoneForgotten` | `IInv`: main holds a connection exactly while it serves (`ServingHolds`), what is held or queued is open on the server's side and until it is read from nothing has been asked over it (`HeldOpen`), and before the write the buffer is this connection's if it asked for a capture (`BufferIsOurs`).  `NobodyForgotten` is inductive beside it (`KeptStep`) |
| `JsonBuffer_proofs` | `TypeCorrect`, `InBuffer`, `AnswersAreLists` | `Room`: each record cost at most `MaxRecord` and a comma so far; `SoFar`: the text is an alternation of records and commas with as many records as the index says |
| `RpiClient_proofs` | `ClientTypes`; `ServerRefined`: the server beside the Java client is the server of `CaptureServer`, so `JavaAnsweredFresh`; `OwnCapturePosted` and `NotHeld`: while no two runs ask at once (`OneAsks`), every run posts its own capture and the server is not held, and every run implements `CaptureCall` (`CallImplemented`); `AlonePostsOwn`, for one thread | a request goes from `Unread` to `Obeyed` through the server as if nobody else were there (`ServerRequest`), because the buffer is not taken for new before its capture (`BufferOld`).  `RunsInv`: at each statement of each run `OwnRun` says what the fields still needed, the request and the data are, and runs own different connections (`OwnApart`).  An old run may close the connection of a new one, so the request is as it should be only while the client's end is open (`OwnRequest`); a run whose connection was closed fails and posts nothing.  `QuietHasOpener`: a connection over which nothing was sent has an opener that is about to send; the opener cannot throw, for its connection is open and so is the server's end, so it stops being quiet (`OpenerStep`).  For `CallImplemented`, each step closes at most one connection (`ClosesOne`), and the run that closes another's is at its closing statements, which is `Disturb` (`DisturbCall`) |
| `Device_proofs` | `ImplementsSync`, `ImplementsSystem`: the device implements its parts, whatever is slow; `DeviceAnsweredFresh`.  With one sync run at a time: `DeviceFollows`, `DeviceApplied`; if `Slow` has none of the statements that ask the server, `DeviceOneAsks`, and so `DevicePostsOwn`, `DeviceNotHeld` and `DeviceCalls` | every step of the device is a step or a stutter of each part (`DeviceStep`), so what is proved of a part holds.  `OneStep`: a run enters the statements that ask only by beginning (`RunEnters`), and with `AloneInv` of `ConfigSync_proofs` only the field's Timer is live and begins one; `LeftBehind`: a cancelled Timer's run has left them unless the job sleeps |

The condition on `Slow` is what the job's sleep of 5 s is for.  It leaves to the old run what
may really take long, the capture of 100 beacons and the post, and asks of it that it has
connected to a server on the same machine and sent seven bytes.  No statement of `Asking`
can be spared: `device_overlap` with `Slow` set to any one of the five has a
counterexample, to `ServerNotHeld` with `socket`, `output` or `send`, and to
`PostsOwnCapture` with `input` or `read`.

Only model-checked: everything about liveness (`WellFormedEnds`, `EventuallySaved`,
`EventuallyApplied`, `EveryoneServed`, `RunsEnd`, `SettledKeepsCapturing`), which is
out of the prover's reach.  What is safety in them is proved beside them: `PaddedNotRefused`
(the index of the parser advances at every step), `NoneForgotten`, `NotHeld`.

## 6. The plan, and what is left

Done, in this order: capture core and its promise; radiotap parser; sync job and
its promise; command loop; Java capture composed with the command loop and its promise;
JSON buffer; byte order; the whole device; the theorems above.

Left:

1. The link from the records of `BeaconCapture` to the list of `JsonBuffer` and on
   to what the Java side parses: the values inside a record are left out of
   `JsonBuffer`, so a name that must be escaped is a choice of `RpiClient`
   (`ReadGarbled`) and not derived.
2. What overlapping sync runs keep besides `TypeOK`, as theorems for any number of
   workers.
