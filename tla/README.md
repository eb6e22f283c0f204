# A verification development for romi-apps

romi-apps is the software of a family of agricultural robots: a shared library
(`libromi`) and one small server per device (`apps/romi-cnc`, `romi-camera`,
`romi-battery`, `romi-datalog`, `romi-dc-motors`, `romi-fluo`, `romi-imu`,
`romi-relay`, `romi-config`), a web page (`romi-interface`) and Python clients.
This directory holds TLA+ models of the parts of it whose correctness depends on
an order of events: threads that share state, a firmware that answers over a
serial line, calls that fail half-way, files that are closed while something is
still to be written, programs that are killed; and of the planning of
trajectories. Image coding and drawing are left out.

Every definition was translated from the code; the `map` of `PROJECT.json` names
the lines each one stands for. Code that is not in the repository (the firmware,
the `rcom` message hub, `libcamera`, the kernel's process table, the camera
driver, the measuring chip) is modelled from how `src/` uses it and marked
external.

## 1. The system: components, state, operations

| component | state | operations | what is hard |
|---|---|---|---|
| `ActivityHelper` (`libromi/src/api`) | atomic `_state`, `_mutex`, `_continue_condition` | `check_pause_or_cancel_execution` by executors; `pause_`, `continue_`, `reset_activity` by operators | operators store and notify without the mutex: lost wakeups, one notification for many sleepers, stores overwritten between two reads |
| `CNC` (`romi-cnc`) | `mutex_`, `position_changed_`, `store_script_` | `moveto`, `travel`, `helix`, `homing`, `spindle`, `set_relay`, `power_up/down`, `is_idle`, `get_position` | some commands take the mutex and some do not; planning starts from a position that may be stale; failures after part of a script is in the firmware |
| `StepperController` | the serial line, the activity helper | `send_command` with retries, `synchronize`, `homing`, pause/continue/reset in two halves | a full command buffer, an answer that cannot be read, a reset between a checkpoint and the line it let through, a pause told to the firmware before the helper |
| `FakeCNCController` | command queue with mutex, `active_`, `pos_`, worker thread | `move`, `moveat`, `moveto`, `is_idle`, `synchronize`, `homing`, destructor | the flags of `is_idle` are set and read in separate steps; `homing` writes the position the worker is computing |
| `CNCAdaptor`, `CNCBroadcast` | none / the last broadcast position | RPC dispatch; a polling thread | an exception ends a call after half its effect; a failed read is broadcast as the origin |
| `SmoothPath`, `Section`, `ATDC`, `Helix`, `is_valid` | a path, then a script | speeds along the path, the curve at each junction, slices, blocks | speeds lowered after the fact; rounding; frames for directions that nearly coincide |
| `LibCamera` (`romi-camera`) | frame allocator, frame queue, two file buffers, buffer queue, file, `recording_`, three threads | `grab`, `power_up/down`, `start_/stop_recording`, request callback, frame and buffer threads | four actors hand frames and buffers to each other under three different locks, and some state under none |
| `USBCamera` over `camera_v4l` | device, mapped buffers, image, capture thread | constructor, `grab`, destructor | a constructor that fails half-way; buffers that go back and forth between driver and thread; a result that is not initialised |
| `FakeCamera` | image, JPEG buffer, recording thread and file | `grab`, `grab_jpeg`, `start_/stop_recording`, destructor | the thread shares both with the calls, without their mutex |
| `FileCamera`, `ExternalCamera` | one image / a script per image | the same interface | no state between calls |
| `romi-config` (`ConfigAdaptor`, `LocalConfig`), `RemoteConfig`, `CameraConfigManager`, `CameraInfoIO` | sections in memory and in a file; the settings of each camera | `get_/set_section`, `set_value`, `select_option`, loading at the start | three copies written one after the other; a section read, changed and written in two remote calls; a file emptied before it is written |
| `FileDataLog`, `DataStore` (`romi-datalog`), `DataLog`, `MultiDataLog`, `MQTTDataLog` | a vector of entries, a writer thread, a file, a flash buffer | `store`, background flush, shutdown | entries that arrive during a flush or during shutdown |
| `Subprocess` (`libromi/include/util`) | `pid_`, `pgid_`, `result_` | `start`, `is_running`, `wait`, `stop`, destructor | a child that dies between two calls; numbers that the kernel uses again |
| `GpioStatusIndicator` and its subclasses | `running_`, a thread, two pins | constructor, `set_status`, destructor | a thread started in a base constructor; a flag both sides write |
| `romi-battery` (`LithiumBattery`, `INA219BatteryMonitor`, `main`) | charge, status, monitor, a thread | measure, reset when full or when a reading fails | sums of readings that may not be numbers; ending in the right order |
| `Session`, `MetaFolder` | the session's directory, an index of files | `start`, `store_*`, `store_metadata` | a file written but not indexed, an index saved by two threads, a kill in between |
| `BrushMotorDriver`, `MotorsAdaptor` | power state, a recording thread | `moveat`, `stop` | control in floating point; recording is called by nobody |
| `Gpio`, `GpioRelayBoard`, `RelayBoardAdaptor` | pins and their levels | `set`, `get` | indexes that are not checked |
| `Logger` | writer, file name | `log`, `move_log`, `set_file` | lines logged while the file is moved |
| `romi-fluo`, `romi-imu`, `romi-relay` servers | a sensor | RPC dispatch | little state of their own |
| `romi-interface`, `python/` | socket state | remote calls | request queues and reconnection |
| `rcom`, `RomiSerial`, RTIMULib, `stb_*`, the firmware | | | not part of this repository, or vendored |

How they interact: a browser or a Python client calls a server over `rcom`; the
adaptor of the server dispatches the call, on a thread of `rcom`'s, to the
component. `romi-cnc` serves `CNC`, which plans with `SmoothPath` and speaks to
the firmware through `StepperController`; the operator's pause, continue and
reset arrive on other threads and reach the running command only through
`ActivityHelper`. `romi-camera` serves one camera, whose driver calls back on a
thread of its own, and keeps its settings in `romi-config`. `romi-battery`
measures and shows what it measures through a status indicator. Servers log
measurements to `romi-datalog`, whose `FileDataLog` is the place where they
become durable. `Session` and `MetaFolder` keep files next to all of these.

### What makes each component correct

- `ActivityHelper`: an executor does not pass while the activity is paused; a
  reset cancels one command at most; a sleeper that is notified leaves.
- `CNC`, `StepperController`: a move that returns true has arrived; no refusal
  loses a line, and a retry doubles one only when the answer to it could not be
  read; a homing that is skipped after one that ran to its end is not missed;
  after a reset at most one stray line moves the machine; calls end.
- `FakeCNCController`: commands are executed once and in order; the thread never
  keeps a caller or the destructor waiting; idle means idle.
- Trajectories: the speeds are the fastest that fit; a curve keeps to the
  deviation and passes the code's own tests; rounding does not accumulate, blocks
  fit their sixteen bits, the machine ends at the last point.
- `FileDataLog`: entries are written once, in order, in bounded delay; a crash
  costs a tail only; closing saves everything.
- `LibCamera`: a frame has one owner; a file holds the shots of its recording in
  order; a stopped recording's file is closed; no call hangs or crashes.
- `USBCamera`, `FakeCamera`: nothing is used after it was freed or unmapped; no
  buffer is lost but by the driver's refusal; images keep coming; what a
  recording has written stays.
- `Session`, `MetaFolder`: what a store has returned for is on disk and in the
  index; the index lists files that exist.
- Configuration: device, settings and section agree after a success; nobody's
  part of a section is lost; the file can be read again.
- `Subprocess`: the wrapper signals no process that is not its child's, loses no
  child and tells how it ended.
- Battery and indicator: the level stays a number while readings are good, the
  lights tell the readings, the pins are left off, the program ends.

## 2. Modules

| module | models | abstract specification | proofs |
|---|---|---|---|
| `ActivityHelper` | every access to `_state`, `_mutex`, `_continue_condition` | `Activity`: mode, who is inside, who may pass, unanswered resets | `ActivityHelperProofs` |
| `CNC` | `CNC.cpp` over `StepperController.cpp` and the firmware (external) | | `CNCProofs` |
| `Planner` | `SmoothPath`, `ATDC`, `is_valid`: the speeds along a path | the fastest speeds (`Possible`), as a function | `PlannerProofs` |
| `Curve` | `default_curve`, `define_unit_vectors`, `is_coherent`: the curve between two directions | | `PartsProofs` |
| `Script` | `SmoothPath`, `Section`, `CNC::execute_move`: slices to blocks | | `ScriptProofs` |
| `FakeCNCController` | queue, thread, `is_idle`, homing, destructor | | `PartsProofs` |
| `FileDataLog` | `FileDataLog` and `DataStore`, with crash and restart | `EntryLog`: accepted, saved, open | `FileDataLogProofs` |
| `LibCamera` | clients, libcamera's callback, frame thread, buffer thread | | `LibCameraProofs` |
| `USBCamera` | `USBCamera` and `camera_v4l`, over the driver (external) | | `PartsProofs` |
| `FakeCamera` | calls, the recording thread, files | | `PartsProofs` |
| `Subprocess` | a child process, over the kernel (external) | | `PartsProofs` |
| `Battery`, `StatusIndicator`, `RomiBattery` | `LithiumBattery` with its monitor; `GpioStatusIndicator`; the program that composes them | | `PartsProofs` |
| `Session` | `Session`, `MetaFolder`, `FileUtils` | | `PartsProofs` |
| `Config` | the configuration service, cameras and an editor | | `PartsProofs` |
| `Parts` | nothing of its own: one of the eight parts above, chosen at the start | each part's specification | `PartsProofs` |
| `Induction` | nothing: what a function defined by recursion on a number returns | | itself |

`MC...` modules give TLC its sets and symmetries, the `.cfg` files its bounds.
`Parts` composes the eight small parts that share nothing: one run checks them,
and what is proved of a part holds in it (`PartsImplement`).

**ActivityHelper.** One action per load, store, lock, predicate, wait and
notification; `pc` and `opc` say which instruction a thread is at, `waiting` who
is asleep in the condition variable. Operators store and notify in two steps and
take no lock, as in the code. `seen` is a history variable: the executors that
have been inside at a moment that was not paused. The refinement to `Activity`
maps `mode <- state`, `allowed <- seen`, `credit <- resets - cancelled`.

**CNC.** A client is a thread inside one command: `op` is the command, `stage`
the place in it, `script` the blocks that are left to be sent, `tries` the loops
of `send_command`. The checkpoint is used at the granularity of `Activity`
(blocking, then a decision and its store), which `ActivityHelper` refines; but
where a client that finds the activity paused tests the state (`Wait`) and where
it falls asleep (`Sleep`) are two steps here too, so that a notification may
miss it, and `NotifyOne` wakes one sleeper of several: `overlooked` marks the
clients that a notification has missed.
`queue`, `pos`, `paused` and `enabled` are the firmware, external. An exchange
on the serial line ends in one of four ways: the line is taken (`SendLine`), the
buffer is full (`SendRefused`, sleep and send again), the firmware answers with
another error (`SendFails`, the call ends), or the answer is not an array with a
number (`SendUnanswered`): the line may or may not have been taken, and
`send_command` sends it again, up to its thousand loops. `doubled` counts the
steps of the lines that were taken like that; whether `RomiSerial`, a submodule
that is not in the repository, can answer like that is left open. `pause`,
`continue` and `reset_activity` are two steps each, in the code's order. One axis in whole
steps stands for three, and a block is one point of the path; what the
conversion loses is the subject of `Script`.

**Script.** Positions are fine units, `Scale` to a step; times are ticks, `Tick`
to a millisecond. `Begin` is `do_travel`/`do_helix` reading the position and
converting it; `AddPoint` the 0.1 mm test; `StartSection` and `CutSlice`
`Section::slice`; `AddBlock` `SmoothPath::add_block` or, for a helix,
`CNC::execute_move`. A travel is a row of sections of constant acceleration:
each begins where the last one ended and at its speed, `At` is
`Section::get_position_at` (rounded down to a fine unit), and a travel ends at
rest at its last point. How many sections there are, how long they last and at
which speeds they end is left open within `Speed`; that a slice then stays
within `Speed * duration` is not assumed but follows (`SpeedKept`). Only a
section without acceleration on this axis may be cut in the longer slices, and
need not be, for another axis may accelerate. A slice of a helix ends anywhere
within `Speed * duration` of where the last ended. Steps and milliseconds are
cast to `int16_t`. A product of a position and the scale that is a
whole number may come out just below it, and then loses a step in the cast:
`StepsOf` is a set of one or two. `machine` is where the machine stands after
playing the blocks, `dropped` the steps of blocks that were not kept, both only
observed.

**Planner.** The pass over the path, an action per step of the loop in
`compute_curves_and_speeds` and per recursive call of
`back_propagate_speed_change`, then the loop of `compute_accelerations` and
`check_script`. Speeds are squared, so that what a length adds to a speed is a
product; a curve's length is proportional to its squared speed (`sharp`). `peak`
is doubled because the fastest speed on a segment is half a sum. Throwing is the
phase `failed`. What depends on directions is left to `Curve`.

**Curve.** Directions are integer vectors of one length, `Norm`. The frame
(`ex`, `ey`) is not normalized: `Turned` carries the length of `ey`, and squares
stand for distances, so that everything stays an integer. `ScaleSpeed` turns the
speeds round when `wy0` is negative, as the code does by dividing the maximum by
the signed speed; by how much they shrink does not matter, since lengths and
times are in units of `wy0`. `Tolerance` is the 0.001 of `are_collinear` and of
`is_valid`. The real limit of `is_valid` is absolute, the model's is relative to
the speed, which is the limit at a speed of one.

**FakeCNCController.** `Push`, the thread's `Pop`, `Begin` (which sets
`active_`), the movement, `Finish`; `is_idle` reads `active_` and then the
queue's size in two steps. A movement at a speed drifts until there is another
command or the destructor asks.

**FileDataLog.** `store`, `copy` and `get_name` are one step each, under the
store's mutex, which is what the code guarantees; the writer writes the lines of
its batch one by one. `flushed` is what is on disk: a kill loses the rest. A
line is written whole. `MaxStores` bounds the entries and `MaxStarts` the runs of
the program.

**LibCamera.** One client at a time inside `api_mutex_`; `Callback` is
libcamera's completion handler; `frame` and `item` are what the two threads have
in hand; `memory` and `offset` the two file buffers. A start of the camera may
fail, after which `camera_` is null and `running_` set. The image buffer has a
life of its own (`buffered`): `power_down` may free it while frames wait to be
compressed or one is to be appended, and then the frame thread crashes. A
compression, by the callback or by the frame thread, takes two steps; when the
other writes or frees the buffer in between, the image is `torn`: the shot or
something else. A frame whose pool was remade has any content, and using it may
crash. `history` and `drained` are
history variables, the images appended and the images written; `overrun`,
`clobbered` and `stale` say that a file buffer was reused before it was written,
that the frame thread lost what it had in the image buffer, and that the frame
pool was rebuilt over frames in use.

**USBCamera.** `stage` walks through the constructor with its failures (an open
that fails, an `init` or a start that fails after memory was mapped, clean-up in
`camera_prepare` and again in `delete_camera`) and through the destructor;
`thread` through `test`, `select`, `return` and `import` of the capture thread.
`queued` and `filled` are the driver's. `dangling` are pointers to what was
freed. Each call of the driver may fail, up to `MaxFaults`; `munmap` is assumed
not to fail, and allocations to succeed.

**FakeCamera.** Drawing, encoding and writing an image are a step each; when the
thread and a call are at the same stage the outcome is a choice, whole or torn
({}). A recording's name is the second it started in. One call at a time, as
the mutex has it; the caller's reading of the JPEG buffer, which the reference
returned by `grab_jpeg` leaves outside of the mutex, is the stage `answer`.

**Subprocess.** The object's fields and, for each number, what lives under it:
our child (running or dead and not reaped), a stranger, or nothing; `kin` are
the groups in which a descendant of a child still lives. Numbers are given
again once they are free. `stop` is three steps (signal, wait, signal again),
between which children end, are reaped by other code, and strangers come.

**Battery, StatusIndicator, RomiBattery.** A round of `LithiumBattery` reads the
monitor, adds the current to the charge and sets a status; of the charge only
counts whether it is a number. The monitor is `closed`, `opened` or `ready`, the
chip `blank` or `calibrated` (it may lose its calibration), the bus well or bad.
The indicator is parameterised by the pattern of its derived class: the thread
starts with the base part and may find the derived part missing. `RomiBattery`
composes the two with `main`, in the order of construction and destruction.

**Session.** A store is: make the entry, open the file, write it, note the
entry, open the index, write it; `store_metadata` does the last part without the
mutex. Opening may be refused, which throws; a write may be short, which nobody
looks at; the program may be killed anywhere. `spoiled`, `raced` and `again` are
the reasons for which the index may be behind.

**Config.** `calls` are the calls under way, in order for each client: a call
whose caller has been told that it failed may still be executed. `PutSection`
is `CameraInfoIO`'s store, in its two calls; `ServeSet` the service's, first in
memory and then in the file, which is empty in between. Cameras are restarted
and load their settings again; the editor changes the rest of a section.

## 3. What is checked

Twelve runs; the three marked *violation* show a disagreement between the code
and what it says of itself.

| run | instance | shows |
|---|---|---|
| `activity_helper` | 2 executors, 2 operators, 2 resets | `IInv`, `OneCancelPerReset`, `NoPassWhilePaused`, the refinement of `Activity`, and that an executor asleep alone leaves when its notification comes |
| `cnc` | 2 clients, 3 commands, 2 operator calls, a buffer of 1 line, 2 tries, a line that fails or answers what cannot be read | `TrueMeansArrived`, `HomeIsKnown`, `MachineExclusion`, `StepsAddUp`, `AtMostOneLateLine` |
| `cnc_liveness` | 2 clients, 2 commands of one line, 2 operator calls, a failing line | `CallsReturn`: every call ends unless the activity is left paused or a notification has overlooked the client |
| `cnc_homing_sets_home` (violation) | 1 client, 3 commands | a homing that follows a failed homing returns true and homes nothing |
| `script` | 2 travels of 2 points and 3 sections, words of 3 bits | `StepsAccounted`, `ArrivesUnlessDropped`, `PlayedInTime`, `BlocksFit` |
| `script_travel_arrives` (violation) | 1 travel that speeds up and slows down | a last slice shorter than a millisecond is dropped with its steps: the machine ends at step 11 of 15 |
| `planner` | paths of 4 segments, two lengths, two speeds, two kinds of curves | `PlanSucceeds`, `Fastest`, `Planned`: one pass with back propagation finds the fastest speeds the path allows |
| `fake_cnc_is_idle` (violation) | 1 command | `is_idle` answers 1 between the pop of a command and its start |
| `file_datalog` | 2 names, 3 entries, 2 starts | `IInv`, the refinement of `EntryLog`, `EntriesAreSaved`, `DestructorEnds` |
| `libcamera` | 1 client with all calls, 2 shots, buffers of 1, 1 recording, 2 power cycles | `MemorySafe`, `CrashExplained`, `CallsReturn` |
| `libcamera_recording` | 1 client that records twice, 5 shots, buffers of 2 | `PipelineKeepsOrder`, `FilesInOrder`, `DestructorSaves`, `StoppedFileCloses` |
| `parts` | see below, about 258,000 states | the small parts, each alone |

`parts` chooses one of eight parts at the start, by `which`, and the others do
not move: they are small and share nothing, so that one run shows as much as
eight. `Parts` gathers their properties by the question they answer:

| property | of | says |
|---|---|---|
| `ChildAccounted` | `Subprocess` | a child that is not reaped is known, and its end is kept by whichever call reaps it and told by `wait` |
| `StraysExplained` | `Subprocess` | a signal reaches somebody else only after a refused `start` or when other code reaped the child |
| `EndsWhereAsked` | `FakeCNCController` | an idle machine stands where the commands add up to |
| `DevicesSafe` | `RomiBattery`, `USBCamera`, `FakeCamera` | pins are off, threads are gone and buffers freed once when their owner is gone; the charge is a number unless a failed reading explains it; no buffer is lost but by the driver; the program ends early in the known cases only |
| `StoresKept` | `Session`, `Config`, `FakeCamera` | what was stored is there: the index and the files, the settings and everybody's part of a section, the images of a recording in order |
| `CurvesSound` | `Curve` | the curve between any two directions passes `is_valid`'s tests, goes forward and keeps to the deviation, but for the cases in section 5 |
| `CallsReturn` | `Subprocess`, `FakeCNCController`, `RomiBattery`, the two cameras | `stop`, `stop_recording` and the destructors end; each command gets its turn |
| `ReadingsShown` | `RomiBattery`, `USBCamera` | with a working bus the lights tell full, charging and low again and again; as long as the driver has a buffer, images are renewed |

*Bounds.* Two executors are the least with which one can consume a reset meant
for another, and two operators the least with which a store can fall between
another's store and notification. In `cnc_liveness` two operator calls are a
pause and the continue or reset that ends it; two clients there are a sleeper and
one that a notification wakes in its place, and one line each, since a script of
several lines only repeats the loop (`cnc` has scripts of two). A buffer of one line makes every second line
meet a full buffer; two tries are one retry and the end of them; three commands
are a failed one, one that follows it and one beside. For `Script` a word of
eight values with slices of at most two steps is the tightest that
`FitAssumption` allows, and its longest slice, of 4 ms, wraps as a duration;
sections of 2 and 17 ticks of half a millisecond are one slice and several with a
last one of half a millisecond, three of them speed up, go on and slow down; two
travels show that the rounding of a start position
does not add up. Four segments let a slower entry go back over two segments that
are too short and stop in a third. Two frames, buffers of two images and five
shots make the camera fill both buffers, swap them and leave one half full; in
`libcamera`, where the camera is also powered down and up and grabs come in
between, two shots and buffers of one image are two frames in different hands and
a swap.
In `parts`: two process numbers are the child's and the one that its number may
be given to, two starts the least that can leave a group behind; a monitor that
is reset every 2 rounds (86400 in the code) meets a reset before and after a
failure; two threads and one file are the least for a race, two faults one and
the one that follows it; two buffers are what the driver grants at least, and
two refusals use them up; two images fill a recording, two seconds tell two
recordings apart. The 54 directions of `Curve` are those along the axes and the
orders and signs of (1, 4, 8): with a tolerance of 1/3 there are parallel and
opposite pairs, level and climbing, pairs that are only nearly so, and general
ones. Where the proofs below cover a property, the bounds only serve to find
errors early.

*Fairness.* Threads inside a call are scheduled (weak fairness of each step), the
firmware executes what it holds, frames keep arriving, movements end, the driver
fills the buffers it has; a child that got `SIGKILL` ends. Nobody is
obliged to call anything, and no fairness is put on locks: an executor may be
overtaken for ever at the mutex, which is why `LoneSleeperLeaves` and
`StoppedFileCloses` end in `\/` clauses. A client of `CNC` that sleeps in the
checkpoint has no fairness to wake it: only `NotifyOne` does. Serial failures are not fair either;
`send_command` ends because its loop is counted. In `parts` each part has its
own fairness, under the condition that it is the chosen one.

*Deadlock.* The runs with bounds on commands, stores or shots stop when these
are used up, hence `CHECK_DEADLOCK FALSE` in their configurations; hanging calls
are the business of the liveness properties. `activity_helper` is checked for
deadlock: it has no bound that stops it.

Each property has a mutant in `PROJECT.json`, and a composite property one for
each part it speaks of and more: a definition of the model changed
the way a plausible bug in the code would change it, under which the property
fails. The mutated operators stand next to the originals, marked `Mutant`.

## 4. What is proved

For every value of the constants that satisfies the modules' assumptions:

- `ActivityHelperProofs`: `Invariance` (`Spec => []IInv`), `CancelOnce`,
  `PauseHolds` and `Refinement` (`Spec => AbstractSpec`), for any number of
  executors and operators. `OneCancelPerReset` is not inductive by itself: a
  thread between its two reads has decided to cancel but not yet counted it.
  `CancelBudget` counts that thread, `MutexInv` says there is only one, `SeenInv`
  carries `NoPassWhilePaused` through the wait.
- `CNCProofs`: `TypeCorrect`, `Exclusion`, `OneLateLine`, `NoStepLost`
  (`StepsAddUp`), `Arrival` (`TrueMeansArrived`) and `SkippedHoming`
  (`HomeIsKnown`), for any clients, points and paths and any number of commands,
  failures and operator calls. Exclusion needs who holds the mutex at which
  stage (`Resting`). For the late line the invariant follows a reset: the mode
  stays reset until a command has noticed it (`Stopped`) or missed it, also
  before the firmware hears of it (`Reaching`), so that the checkpoint before
  the next line ends the command. For the steps (`SInv`): only the client inside
  the machine has lines that move it, other clients' lines are switches, a
  refused line is still the first of its script, one that is sent again after it
  was taken is counted in `doubled`, and an empty queue after the last line means that nothing is left to add up. `Sum` and `Blocks` are
  recursive functions along a script; what appending a line adds to them is
  proved with `Induction`.
- `FileDataLogProofs`: `Invariance` and `Refinement` (`Spec => LogSpec`), for any
  names, values and bounds. The two maps stay inverse (`TablesAgree`), so the
  index of every queued entry is known (`IndicesKnown`), so the writer never
  throws; `LinesStable` says that a later name does not change what an earlier
  index stands for, which makes the queue, the batch and the file together the
  abstract log.
- `LibCameraProofs`: every safety property of the run, for any clients, frames,
  buffer sizes and number of recordings and power cycles. `Memories` and
  `Crashes`: a frame is free, being filled, queued or being compressed (`Owned`),
  until the pool is made anew over frames in use; what the two threads have in
  hand fits their stages, and offsets stay within the buffers (`Threads`); a
  client inside holds the lock (`Inside`); the image buffer is there while there
  is something to compress or to append, but for a failed start or a `power_down`
  that came too early (`Buffered`); the third case of `CrashExplained` is a pool
  remade over frames in use. `PipelineInOrder`: as long as no buffer is reused early, at most
  one is queued or being written, and it is the one that is not being filled
  (`Slots`), so what was appended is, in order, what was taken to be written and
  what the two buffers hold (`Pipe`). `ShotsInOrder`: the shots in the callback,
  in the queue and with the frame thread follow each other (`Waiting`) and all
  that was appended, until a grab or a release takes the image buffer or the
  pool is remade over frames in use (`Appended`); only the
  last file grows, by images above all that is in the files (`Kept`).
  `NothingLost`: the file of a recording ends with all that was taken to be
  written since it began (`Recorded`), and when the destructor is done that is
  all that was appended.
- `PlannerProofs`: `Invariance`, `Succeeds` and `FastestFound`, for paths of any
  number of segments of any lengths, speeds, accelerations and curves. That no segment is
  too short for its two curves and its change of speed (`CurvesInPlace`,
  `SpeedsJoin`) is broken at one junction while a slower entry is propagated
  back; the invariant says which, and that the entry there is below the speed of
  the curve. Only entries get lower, and the first one is 0: so the propagation
  stops before it would throw. `SectionsValid` then follows from what fits.
  For `Fastest` a second invariant (`Tight`) names for every settled speed the
  curve that limits it: its own limit plus what can be gained on the way; while a
  slower entry goes back that curve is the last one. That no other limit is less
  then follows from the segments that fit, by climbing from one to the other
  (`SpeedsClose`). What can be gained up to a segment is a recursive function;
  `GainUpToSums` unfolds it with `Induction`.
- `ScriptProofs`: `Invariance`, `Accounted`, `Fits`, `InTime` and `Arrives`, for
  any scale, speed limit, slice lengths, positions and number of travels.
  `IInv` adds to the properties that `current_steps_` are a conversion of the
  last slice's end, that this end is a place of the section and that it is the
  last point when all is done. A conversion is at most a step off (`StepsNear`),
  and a section of constant acceleration keeps to the speeds at its ends
  (`SpeedKept`); hence a slice fits a block (`NoWrap`); hence nothing wraps, and the books of
  `BlockAccounted` balance. The assumption is that a slice at full speed is two
  steps short of half a word, which `main.cpp` sees to with 32000 steps.
- `PartsProofs`: for each of the eight parts an inductive invariant, for all
  values of that part's constants, and then for `PartsSpec`, whose steps are each
  a step of the chosen part and leave the others alone (`PartsImplement`):
  `PartsTypes`, `ChildrenAccounted`, `StoresAreKept`, `DevicesAreSafe`,
  `FakeEndsWhereAsked` and `CurvesAreSound`. The parts' arguments:
  - *Subprocess.* What lives of the object's children lives under `pid_`
    (`Known`), its end is what the object keeps (`EndsAgree`), and its group is
    its own unless a start was refused (`Grouped`).
  - *Session.* A store is alone with its file (`Locked`) and with the index
    unless `store_metadata` runs beside it (`Lone`); what is noted was written
    (`Written`), what is saved was noted (`Noted`), so that a saved index is
    whole and the newest (`Current`).
  - *FakeCNCController.* Wherever the thread is in a command, the place where it
    stands and the commands that are left lead to where the calls have asked for
    (`LeadsThere`). `Lands` says it with a function from the places in the queue
    to positions, which needs no recursion.
  - *RomiBattery.* The two pins are written one after the other by one thread at
    a time, and each writer clears before it sets; who runs fits which parts
    exist; the charge and the current before it are numbers but for the gap
    that `NaNExplained` names.
  - *Config.* A client that has a call under way is at the stage that made it,
    and waits for the last of its calls (`Orderly`); calls are about the
    caller's own section, and a set is always the first of them (`Own`); a
    reading that is still to be used is what the section holds but for an edit
    in between (`RestRead`, `SettingsRead`).
  - *USBCamera.* Each buffer is in one place (the driver's queue, filled, in the
    thread's hand, or lost by a refusal), as long as the device is open; memory
    is mapped exactly between two stages of the constructor and the destructor.
  - *FakeCamera.* There is a recorder from the start of a recording until it is
    joined, with the file of its id open (`Recorders`); while nothing is grabbed
    it alone draws, and the file ends with the image before the next one
    (`Counting`).
  - *Curve.* Not an invariant but geometry: Lagrange's identity gives the
    collinearity test as a bound on the scalar product, and the three frames are
    computed for integer vectors of any length (`VectorTypes`, `ScaledSquare`,
    `Vanishing`, `BendsApart`, `Reverses`, `GoesOn`).

The last one corrected the model. `CurveAccepted` and `DeviationKept` held for the
54 directions of the run, and their proof would not close: at the edge of what
`are_collinear` takes for collinear the code goes straight on, and the speeds then
differ by a little more than `is_valid` allows (with `Norm` 1261 and `Tolerance` 3,
from (1261, 0, 0) to (1189, 420, 0)); and a vertical reversal that
`is_same_direction` takes for straight on may deviate by more than the limit. Both
are named exceptions now (`AtTheEdge`, `Misjudged`).

*Induction.* The installed provers cannot instantiate an induction theorem whose
parameter is an operator. `Induction` goes round it with sets: a nonempty set of
numbers has a least one, which is proved from the library's theorem about the
numbers themselves, so the set of counterexamples to a claim about a function
`f[n]`, if there are any, has a first one, and its predecessor is none. That is
enough for functions defined by recursion on a number and for sequences by their
length.

Only model-checked: liveness, which is out of this prover's reach (`CallsReturn`,
`LoneSleeperLeaves`, `StoppedFileCloses`, `ReadingsShown`, `Planned`,
`EntriesAreSaved`, `DestructorEnds`). Every invariant and action property of a
passing run is a theorem.

## 5. What the models made visible

Shown by a violation run and listed under `findings`: a homing skipped after a
failed one; `is_idle` answering 1 for a queued command; steps lost with slices
shorter than a millisecond.

Not stated as properties, because the code promises nothing, but worth knowing.
Where a property has an exception for one of these, the comment above it says so.

- *CNC.* A line whose answer cannot be read is sent again although the firmware
  may have taken it: the steps are made twice and the move returns true
  (`doubled`). A command that starts between the two halves of `reset_activity` is not
  cancelled, yet loses the lines the firmware drops. `spindle` and `set_relay`
  may consume the reset meant for a move; a pause or continue after a reset takes
  its place. A reset during `synchronize` makes the call return true, and the
  reset waits for the next command. A continue that comes between the test of the
  state and the sleep wakes nobody, and the command sleeps on. Unsynchronized moves plan from a position
  read while the machine moves. `helix` does not compare its points with the
  range. `power_up` does not home (the call is commented out), though tests
  still expect it. `CNCBroadcast` publishes the origin when the position could
  not be read.
- *Trajectories.* A path that goes straight on while it climbs gets a curve that
  is none: `define_unit_vectors_same_dir` takes `(-x1, x0, x2)` as the
  perpendicular, which it is in a plane only, and `is_valid` refuses the script.
  A reversal while climbing is entered too early for the deviation
  (`define_unit_vectors_opposite_dir`). `is_same_direction` looks at one axis:
  a straight line along z with a sideways component of almost nothing on one of
  its two segments counts as a reversal. The comment of `default_curve` has `ey`
  the other way round than `define_unit_vectors_default`, which is right.
  `is_valid` never compares a curve with the acceleration after it, as
  `ATDC::prev` is nowhere set; `SpeedsJoin` shows that they agree.
- *LibCamera.* A second `start_recording` constructs its exception without
  throwing it and goes on over the open file, which is never closed; the tail of
  a recording appears at the head of the next file; a grab during a recording
  hangs and holds `api_mutex_`; `power_up` sets `running_` before the
  initialisation that may throw; `power_down` frees `buffer_` while frames wait to
  be compressed or appended; a new start frees the memory of frames in use; the
  callback and the frame thread share `buffer_` without a lock; recording ids have the resolution of a second. `set_value` is
  not implemented and returns true.
- *USBCamera.* After a failure in `camera_prepare` the camera is cleaned up
  twice. `error` in the capture loop is not initialised: when all tries time out
  an old image, or none, may be imported. A buffer that the driver refuses once is
  never offered again.
- *FakeCamera, ExternalCamera.* `stop_recording` when nothing is recorded
  constructs its exception, does not throw it, and joins a null thread; the
  recording thread shares `image_` and `jpeg_` with the calls without their mutex;
  `grab_jpeg` returns a reference that outlives the lock. `ExternalCamera::grab`
  returns an image it never loads.
- *Configuration.* An edit between `CameraInfoIO`'s get and set is lost. A
  service killed while it stores leaves a file that it cannot parse, and does not
  start again. When the device refuses a value nothing is stored; when the
  section cannot be stored the device has the value already.
- *Battery.* One failed reading makes the charge a NaN from the next good one on,
  until the battery is full. `kDischarging` cannot be reached, the test before it
  being the same. The reset "once a day" comes after 86400 rounds of five
  seconds, which are five days. The call for the level returns the current. The
  log is written, by remote calls, with the battery's mutex held.
- *Status indicator.* The thread may call the pure virtual `update()` before the
  derived part exists or after it is gone, and sets `running_` itself, perhaps
  after the destructor has cleared it.
- *Subprocess.* A refused second `start` has stored its arguments already: the
  next `stop` signals `-pgid_`, which may be process 1 or a group of the past.
  `wait` returns the cached result only when it has an exit code: after
  `is_running` has reaped a child that a signal ended, it knows nothing of it.
- *Session.* `store_metadata` writes the index without the mutex. A short write
  is not noticed.
- *Logs.* `FileDataLog` appends: a line torn by a crash would swallow the next
  run's first. `Logger::move_log` leaves the writer closed when the rename fails.

## 6. What is not modelled, and why

- *Vendored or generated*: RTIMULib, the `stb_*` headers, the font of
  `FakeCamera`, build files. They are nearly half of the lines of the
  repository's implementation files.
- *Outside of the repository*: `rcom`, `RomiSerial`, the firmware and `libcamera`
  appear only as what the modelled code sees of them. The models have no clock:
  timeouts may come at any time. `CNC` has one operator call at a time.
- *No protocol*: `CNCAdaptor`, `RemoteCNC` and the other adaptors and remote
  stubs map one call to one call. `FileCamera` answers with the same image.
  `ExternalCamera` runs a script for each image and keeps nothing. `Gpio` and
  the relay boards write levels. `romi-fluo`'s sensor is a stub that computes a
  sine. `CNCBroadcast` polls.
- *Numbers rather than order*: `BrushMotorDriver` controls motors in floating
  point, and the thread in it that records speeds is started by nobody; plotting,
  image coding and SVG; the geometry of `Helix`; the range tests of the planner.
- *The same protocol again*: libromi's `DataLog` is `FileDataLog`'s writer with a
  truncating open; `MultiDataLog` a loop over logs; `CameraStatusIndicator` one
  more pattern for `StatusIndicator`, which romi-camera does not use.
- *Would need other services*: `MQTTDataLog` (a broker), the browser's and the
  Python clients' code around the remote calls. Of the web page a reading shows
  two things: `RemoteController` never clears `connected` and calls its
  connection handlers once, so that after a reconnection the camera's images,
  each of which is asked for when the last one comes, do not start again; and
  `CNC.setPosition` sets `x`, `y`, `z` of an array that is shown by index.
- *Abstractions that leave something open*: `Script` takes any sections of
  constant acceleration within the speed limit, not those of `Planner`; `Planner` takes any lengths of
  curves, not those of `Curve`; `CNC` uses the checkpoint as `Activity` has it,
  and the refinement of `Activity` by `ActivityHelper` is shown separately.
  `FakeCNCController::synchronize` is a loop over `is_idle` and has no action of
  its own. Of LibCamera, JPEG coding is left out and all images have one size.
