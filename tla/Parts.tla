--------------------------------- MODULE Parts ---------------------------------
(***************************************************************************)
(* Parts that share nothing: the child process of a Subprocess, the        *)
(* FakeCNCController, the program romi-battery, a Session, the             *)
(* configuration, a USBCamera, a FakeCamera and a curve.  One of them is   *)
(* chosen at the start; the others stay as they are.                       *)
(***************************************************************************)
EXTENDS Subprocess

CONSTANTS
  Callers, Steps, MaxCommands, MaxHomings, MaxDrift,
  NaN, Currents, Voltages, ResetEvery, Slow,
  Threads, Files, Extra, MaxFaults,
  Cameras, Editor, Values, Default, MaxEdits,
  Buffers, Tries,
  MaxShots, MaxSeconds,
  Directions, Norm, Tolerance

VARIABLES
  which,
  queue, command, active, pos, pos0, player, quitting, asking, isIdle, wasIdle,
  asked, known, commands, homings,
  main, worker, done, part, running, drawer, drawing, status, lit, count, aborted,
  monitor, chip, bus, voltage, current, charge, rounds, gap,
  metadata, index, disk, step, entry, text, mutex, faults, promised, again, raced,
  spoiled,
  service, serving, config, file, calls, reply, phase, device, settings, draft,
  mishaps, edits, agreed, meddled, stale, lost, edited, torn,
  stage, fd, mapped, heap, dangling, queued, filled, taken, thread, tries, error,
  rgb, image, ending, setbacks, unreturned, unready,
  second, client, recording, id, joinable, recorder, picture, jpeg, number, open,
  shots, kept, started, mixed,
  turn, w0, w1, ex, ey, sense

FakeCNC == INSTANCE FakeCNCController WITH worker <- player, answer <- isIdle
Battery == INSTANCE RomiBattery
Store == INSTANCE Session WITH pc <- step
Conf == INSTANCE Config WITH faults <- mishaps
Usb == INSTANCE USBCamera WITH done <- ending, faults <- setbacks, lost <- unreturned
Fake == INSTANCE FakeCamera WITH image <- picture, files <- shots, starts <- started
Bend == INSTANCE Curve

ASSUME FakeCNCAssumption == FakeCNC!StepsAssumption
ASSUME BatteryAssumption ==
  /\ Battery!SlowAssumption /\ Battery!I!PatternAssumption
  /\ Battery!B!CurrentsAssumption /\ Battery!B!ChargeAssumption
  /\ Battery!B!ResetAssumption
ASSUME StoreAssumption == Store!ExtraAssumption /\ Store!FaultsAssumption
ASSUME ConfAssumption == Conf!ClientsAssumption
ASSUME UsbAssumption == Usb!TriesAssumption /\ Usb!BuffersAssumption
ASSUME FakeAssumption == Fake!BoundsAssumption
ASSUME BendAssumption == Bend!DirectionsAssumption

fakeCNCVars ==
  <<queue, command, active, pos, pos0, player, quitting, asking, isIdle, wasIdle,
    asked, known, commands, homings>>
batteryVars ==
  <<main, worker, done, part, running, drawer, drawing, status, lit, count, aborted,
    monitor, chip, bus, voltage, current, charge, rounds, gap>>
storeVars ==
  <<metadata, index, disk, step, entry, text, mutex, faults, promised, again, raced,
    spoiled>>
confVars ==
  <<service, serving, config, file, calls, reply, phase, device, settings, draft,
    mishaps, edits, agreed, meddled, stale, lost, edited, torn>>
usbVars ==
  <<stage, fd, mapped, heap, dangling, queued, filled, taken, thread, tries, error,
    rgb, image, ending, setbacks, unreturned, unready>>
fakeVars ==
  <<second, client, recording, id, joinable, recorder, picture, jpeg, number, open,
    shots, kept, started, mixed>>
bendVars == <<turn, w0, w1, ex, ey, sense>>
cameraVars == <<usbVars, fakeVars>>
Rest == <<fakeCNCVars, batteryVars, storeVars, confVars, cameraVars, bendVars>>
all == <<which, vars, Rest>>

PartsInit ==
  /\ which \in {"subprocess", "fake_cnc", "battery", "session", "config", "usb_camera",
                "fake_camera", "curve"}
  /\ which = "battery" \/ (status = "kError" /\ bus = "well")
  /\ which = "config" \/ edited = [c \in Cameras |-> CHOOSE v \in Values : TRUE]
  /\ \/ which = "curve"
     \/ LET d == CHOOSE v \in Directions : TRUE IN w0 = d /\ w1 = d
  /\ Init /\ FakeCNC!Init /\ Battery!Init /\ Store!Init /\ Conf!Init
  /\ Usb!Init /\ Fake!Init /\ Bend!Init

On(name, A, others) == which = name /\ A /\ UNCHANGED <<which, others>>

PartsNext ==
  \/ On("subprocess", Next, Rest)
  \/ On("fake_cnc", FakeCNC!Next,
        <<vars, batteryVars, storeVars, confVars, cameraVars, bendVars>>)
  \/ On("battery", Battery!Next,
        <<vars, fakeCNCVars, storeVars, confVars, cameraVars, bendVars>>)
  \/ On("session", Store!Next,
        <<vars, fakeCNCVars, batteryVars, confVars, cameraVars, bendVars>>)
  \/ On("config", Conf!Next,
        <<vars, fakeCNCVars, batteryVars, storeVars, cameraVars, bendVars>>)
  \/ On("usb_camera", Usb!Next,
        <<vars, fakeCNCVars, batteryVars, storeVars, confVars, fakeVars, bendVars>>)
  \/ On("fake_camera", Fake!Next,
        <<vars, fakeCNCVars, batteryVars, storeVars, confVars, usbVars, bendVars>>)
  \/ On("curve", Bend!Next,
        <<vars, fakeCNCVars, batteryVars, storeVars, confVars, cameraVars>>)

(* The fairness of each part, when it is the chosen one: see FairSpec in   *)
(* Subprocess, FakeCNCController, RomiBattery and the cameras.              *)
PartsSpec ==
  /\ PartsInit /\ [][PartsNext]_all
  /\ WF_vars(which = "subprocess" /\ Progress)
  /\ WF_fakeCNCVars(which = "fake_cnc" /\ FakeCNC!Progress)
  /\ WF_batteryVars(which = "battery" /\ Battery!Main)
  /\ WF_batteryVars(which = "battery" /\ Battery!Worker)
  /\ WF_batteryVars(which = "battery" /\ Battery!Drawing)
  /\ WF_usbVars(which = "usb_camera" /\ Usb!Thread)
  /\ WF_usbVars(which = "usb_camera" /\ (Usb!Fill \/ Usb!Join \/ Usb!Delete))
  /\ WF_fakeVars(which = "fake_camera" /\ Fake!Recorder)
  /\ WF_fakeVars(which = "fake_camera" /\ Fake!Answers)

-----------------------------------------------------------------------------
(* Every variable has its type (see TypeOK of each part).                  *)
PartsTypeOK ==
  /\ TypeOK /\ FakeCNC!TypeOK /\ Battery!TypeOK /\ Store!TypeOK /\ Conf!TypeOK
  /\ Usb!TypeOK /\ Fake!TypeOK /\ Bend!TypeOK

(* The properties of the other parts: see the modules. *)
EndsWhereAsked == FakeCNC!EndsWhereAsked
CurvesSound == Bend!CurvesSound

(* What was stored is there: in a folder, in the configuration, in the     *)
(* files of recordings.                                                    *)
StoresKept == Store!FolderKept /\ Conf!ConfigKept /\ Fake!FilesSound

(* What the programs hold of their devices: pins, threads, sums, buffers. *)
DevicesSafe == Battery!BatterySafe /\ Usb!CameraSafe /\ Fake!AbortExplained

(* What a device says is shown, again and again. *)
ReadingsShown == Battery!ReadingsShown /\ Usb!ImagesRenewed

(* Nobody waits forever: not in stop(), not in the destructors of the      *)
(* FakeCNCController, the battery, the indicator and the cameras; and each *)
(* command that was pushed gets its turn.                                  *)
CallsReturn ==
  /\ StopReturns
  /\ FakeCNC!DestructorEnds /\ FakeCNC!CommandsStart
  /\ Battery!ShutdownEnds /\ Usb!DestructorEnds /\ Fake!StopEnds
=============================================================================
