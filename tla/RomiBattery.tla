------------------------------ MODULE RomiBattery ------------------------------
(***************************************************************************)
(* The program romi-battery: main makes the monitor, the status indicator  *)
(* and the battery, serves calls until it is interrupted, and lets them go *)
(* in the opposite order.  The battery's thread sets the status that the   *)
(* indicator's thread shows.                                               *)
(***************************************************************************)
EXTENDS Integers

CONSTANTS
  NaN, Currents, Voltages, ResetEvery,  \* see Battery
  Slow                                  \* the longer blinking period: 8

SlowAssumption == Slow \in Nat /\ Slow >= 2

VARIABLES
  main,      \* start, monitor, serving, leaving, unlit (the battery is gone), over
  worker,    \* the battery's thread: "none", "running", "ended"
  done,      \* done_
  part, running, drawer, drawing, status, lit, count, aborted,
  monitor, chip, bus, voltage, current, charge, rounds, gap

(* BatteryStatusIndicator::update() *)
BatteryPattern ==
  [kInitializing |-> [pin |-> "green", period |-> 2],
   kDischarging |-> [pin |-> "red", period |-> Slow],
   kCharging |-> [pin |-> "green", period |-> Slow],
   kCharged |-> [pin |-> "green", period |-> 0],
   kLow |-> [pin |-> "red", period |-> 2],
   kError |-> [pin |-> "red", period |-> 0]]

I == INSTANCE StatusIndicator
       WITH Pattern <- BatteryPattern, Initial <- "kInitializing"
B == INSTANCE Battery WITH display <- status

mainVars == <<main, worker, done>>
indicatorVars == <<part, running, drawer, drawing, status, lit, count, aborted>>
chipVars == <<monitor, chip, bus>>
batteryVars == <<voltage, current, charge, rounds, gap>>
vars == <<mainVars, indicatorVars, chipVars, batteryVars>>

TypeOK ==
  /\ main \in {"start", "monitor", "serving", "leaving", "unlit", "over"}
  /\ worker \in {"none", "running", "ended"}
  /\ done \in BOOLEAN
  /\ I!IndicatorTypeOK /\ B!BatteryTypeOK

Init ==
  /\ main = "start" /\ worker = "none" /\ done = FALSE
  /\ I!IndicatorInit /\ B!BatteryInit

-----------------------------------------------------------------------------
(* main() *)

MakeMonitor ==
  /\ main = "start"
  /\ main' = "monitor"
  /\ B!BeginMonitor
  /\ UNCHANGED <<worker, done, indicatorVars, bus, batteryVars>>

MakeIndicator ==
  /\ main = "monitor"
  /\ I!MakeBase \/ I!MakeDerived \/ I!MakeStatus
  /\ UNCHANGED <<mainVars, chipVars, batteryVars>>

(* LithiumBattery(): its thread. *)
MakeBattery ==
  /\ main = "monitor" /\ part = "whole"
  /\ main' = "serving"
  /\ worker' = "running"
  /\ UNCHANGED <<done, indicatorVars, chipVars, batteryVars>>

\* Mutant: the thread is not told.
QuitUntold ==
  /\ main = "serving"
  /\ main' = "leaving"
  /\ UNCHANGED <<worker, done, indicatorVars, chipVars, batteryVars>>

(* The user interrupts; ~LithiumBattery() begins. *)
Quit ==
  /\ main = "serving"
  /\ main' = "leaving"
  /\ done' = TRUE
  /\ UNCHANGED <<worker, indicatorVars, chipVars, batteryVars>>

(* What it measured goes with it. *)
Forget ==
  /\ voltage' = "low" /\ current' = 0 /\ charge' = B!Number /\ rounds' = 0
  /\ gap' = FALSE

\* Mutant: the battery's thread is not waited for.
JoinBatteryNot ==
  /\ main = "leaving"
  /\ main' = "unlit"
  /\ Forget
  /\ UNCHANGED <<worker, done, indicatorVars, chipVars>>

JoinBattery ==
  /\ main = "leaving" /\ worker = "ended"
  /\ main' = "unlit"
  /\ Forget
  /\ UNCHANGED <<worker, done, indicatorVars, chipVars>>

UnmakeIndicator ==
  /\ main = "unlit"
  /\ \/ (I!Unmake \/ I!StopRunning) /\ UNCHANGED main
     \/ I!Join /\ main' = "over"
  /\ UNCHANGED <<worker, done, chipVars, batteryVars>>

-----------------------------------------------------------------------------
(* The threads, and the world *)

(* LithiumBattery::update(): while (!done_), a round. *)
Round ==
  /\ worker = "running" /\ ~done
  /\ UNCHANGED <<mainVars, bus>>
  /\ UNCHANGED <<part, running, drawer, drawing, lit, count, aborted>>
  /\ B!Update

EndRounds ==
  /\ worker = "running" /\ done
  /\ worker' = "ended"
  /\ UNCHANGED <<main, done, indicatorVars, chipVars, batteryVars>>

Draw ==
  /\ I!Drawer
  /\ UNCHANGED <<mainVars, chipVars, batteryVars>>

World ==
  /\ main = "serving"
  /\ \/ B!BusChanges /\ UNCHANGED <<monitor, chip>>
     \/ B!ChipForgets /\ UNCHANGED <<monitor, bus>>
  /\ UNCHANGED <<mainVars, indicatorVars, batteryVars>>

Makes == MakeMonitor \/ MakeIndicator \/ MakeBattery
Unmakes == JoinBattery \/ UnmakeIndicator

(* A pure virtual call ends the program. *)
Next ==
  ~aborted /\ (Makes \/ Quit \/ Unmakes \/ Round \/ EndRounds \/ Draw \/ World)

Spec == Init /\ [][Next]_vars

(* The steps of main that nobody has to ask for, and of the battery's      *)
(* thread.                                                                 *)
Main == ~aborted /\ (Makes \/ Unmakes)
Worker == ~aborted /\ (Round \/ EndRounds)
Drawing == ~aborted /\ Draw

(* The threads run, and main goes on; nobody must interrupt it. *)
Fairness == WF_vars(Main) /\ WF_vars(Worker) /\ WF_vars(Drawing)

FairSpec == Spec /\ Fairness

-----------------------------------------------------------------------------
(* Properties *)

(* The two LEDs are never lit together, not even between two register      *)
(* writes or when a status comes in the middle of them (blink, light).     *)
NeverBoth == ~(lit["red"] /\ lit["green"])

(* No thread is left behind: the battery's thread may set the status as    *)
(* long as it runs, and the pins stay dark once they were cleared.         *)
NothingLeftBehind ==
  /\ worker = "running" => part = "whole"
  /\ part = "gone" => lit = I!Dark

(* The charge is a number unless a current was measured after a failed one *)
(* and the battery was not full since: update_charge() adds the mean of    *)
(* both, and nothing but a full battery takes the NaN away.                *)
NaNExplained == charge = NaN <=> gap

(* All of these: the pins and the charge, from the first step to the last. *)
BatterySafe == NeverBoth /\ NothingLeftBehind /\ NaNExplained

(* Once the bus works, the chip is ready and calibrated again and again,   *)
(* whatever it forgot or missed before (reset_perhaps, ensure_init_).      *)
MonitorRecovers ==
  <>[](bus = "well" /\ main = "serving")
    => []<>(monitor = "ready" /\ chip = "calibrated" /\ current # NaN)

Full == main = "serving" /\ B!Charged(voltage, current)
Filling == main = "serving" /\ B!Charging(current) /\ ~B!Charged(voltage, current)
Emptying == main = "serving" /\ ~B!Charging(current) /\ voltage = "low"

(* What is measured all the time is what the LEDs end up showing: full and *)
(* resting, charging, or low and discharging.                              *)
LightsTellReadings ==
  /\ <>[]Full => <>[](lit["green"] /\ ~lit["red"])
  /\ <>[]Filling => []<>lit["green"] /\ []<>~lit["green"] /\ <>[]~lit["red"]
  /\ <>[]Emptying => []<>lit["red"] /\ []<>~lit["red"] /\ <>[]~lit["green"]

(* Both: from a recovered bus to the LEDs. *)
ReadingsShown == MonitorRecovers /\ LightsTellReadings

(* An interrupted program ends: neither destructor waits forever, although *)
(* run() may set running_ after the destructor has cleared it.             *)
ShutdownEnds == []<>(main \notin {"leaving", "unlit"} \/ aborted)
=============================================================================
