-------------------------------- MODULE Battery --------------------------------
(***************************************************************************)
(* romi-battery: romi::LithiumBattery measures through an INA219 chip on   *)
(* an i2c bus every 5 seconds, integrates the current into the charge, and *)
(* resets the monitor when a reading fails or after ResetEvery rounds; and *)
(* romi::INA219BatteryMonitor, which opens the bus and calibrates the chip *)
(* when it must.  A reading that fails is a NaN, and so is any sum of one. *)
(*                                                                         *)
(* Currents are in steps of the 1 mA that counts as none; the voltage is   *)
(* low (< 3.5 V), full (> 4.15 V) or between.  Of the charge only counts   *)
(* whether it is a number; the energy, computed in the same way, is left   *)
(* out.                                                                    *)
(***************************************************************************)
EXTENDS Integers

CONSTANTS
  NaN,          \* not a number: a model value, equal to no number
  Currents,     \* what the chip may measure
  Voltages,     \* classes of voltages: "low", "full", "between"
  ResetEvery    \* rounds after which the monitor is reset: 86400

Number == "number"   \* any charge from 0 to the capacity

CurrentsAssumption == Currents \subseteq Int /\ NaN \notin Currents
ChargeAssumption == NaN # Number
ResetAssumption == ResetEvery \in Nat \ {0}

VARIABLES
  monitor,   \* "closed", "opened" (fd_ >= 0) or "ready" (initialized_)
  chip,      \* its CONFIG and CAL registers: "blank" or "calibrated"
  bus,       \* whether transfers succeed: "well", or "bad": perhaps
  voltage, current,   \* voltage_, current_
  charge,    \* charge_
  rounds,    \* reset_count_
  display,   \* the status last given to the indicator
  gap        \* history: a good current has followed a failed one, and the
             \* battery was not full since

monitorVars == <<monitor, chip>>
batteryVars == <<voltage, current, charge, rounds, gap>>

BatteryTypeOK ==
  /\ monitor \in {"closed", "opened", "ready"}
  /\ chip \in {"blank", "calibrated"}
  /\ bus \in {"well", "bad"}
  /\ voltage \in Voltages \cup {"low", NaN}
  /\ current \in Currents \cup {0, NaN}
  /\ charge \in {Number, NaN}
  /\ rounds \in 0 .. ResetEvery - 1
  /\ gap \in BOOLEAN

BatteryInit ==
  /\ monitor = "closed" /\ chip = "blank" /\ bus \in {"well", "bad"}
  /\ voltage = "low" /\ current = 0
  /\ charge = Number /\ rounds = 0
  /\ gap = FALSE

-----------------------------------------------------------------------------
(* The monitor.  Each operation gives the set of its outcomes.             *)

State(m, c) == [monitor |-> m, chip |-> c]

(* open_(): the bus, then CONFIG and CAL.  What fails keeps what was done. *)
Opened(s) ==
  {State("ready", "calibrated")}
    \cup IF bus = "bad" THEN {s, State("opened", s.chip)} ELSE {}

(* ensure_init_() *)
Ensured(s) == IF s.monitor = "ready" THEN {s} ELSE Opened(s)

\* Mutant: the monitor is opened only if it must be initialised.
ResetIfNeeded(s) == Ensured(s)

(* reset(): close_() and open_(). *)
Reset(s) == Opened(State("closed", s.chip))

(* A register is read, if the monitor is ready and the transfer succeeds.  *)
Reading(s, Values) ==
  (IF s.monitor = "ready" THEN Values ELSE {})
    \cup (IF s.monitor # "ready" \/ bus = "bad" THEN {NaN} ELSE {})

(* Without its CAL register the chip measures no current. *)
CurrentsOf(s) == IF s.chip = "blank" THEN {0} ELSE Currents

-----------------------------------------------------------------------------
(* The battery *)

Charged(v, i) == v = "full" /\ i = 0
Charging(i) == i # NaN /\ i >= 0

\* Mutant: a failed reading is taken for no current.
AddedNaNIsZero(i) == charge

(* update_charge(): by the mean of two currents, when the second is a      *)
(* number; a NaN compares with no bound, and stays.                        *)
Added(i) == IF i # NaN /\ NaN \in {current, charge} THEN NaN ELSE charge

\* Mutant: a low battery is looked for first.
ShownLowFirst(v, i) ==
  IF v = "low" THEN "kLow"
  ELSE IF Charged(v, i) THEN "kCharged"
  ELSE IF Charging(i) THEN "kCharging"
  ELSE display

(* update_status(): kDischarging is behind a second test of is_low_locked. *)
Shown(v, i) ==
  IF Charged(v, i) THEN "kCharged"
  ELSE IF Charging(i) THEN "kCharging"
  ELSE IF v = "low" THEN "kLow"
  ELSE display

(* measure(), update_charge(), set_capacity_if_charged(), update_status()    *)
Record(v, i) ==
  /\ voltage' = v
  /\ current' = i
  /\ charge' = IF Charged(v, i) THEN Number ELSE Added(i)
  /\ gap' = IF Charged(v, i) THEN FALSE
            ELSE gap \/ (current = NaN /\ i # NaN)
  /\ display' = Shown(v, i)

(* reset_perhaps() *)
ResetPerhaps(s, v, i) ==
  IF NaN \in {v, i} \/ rounds + 1 >= ResetEvery
  THEN /\ \E r \in Reset(s) : monitor' = r.monitor /\ chip' = r.chip
       /\ rounds' = 0
  ELSE /\ monitor' = s.monitor /\ chip' = s.chip
       /\ rounds' = rounds + 1

(* updated_locked(), under the mutex. *)
Update ==
  \E s1 \in Ensured(State(monitor, chip)) :
  \E v \in Reading(s1, Voltages), s2 \in Ensured(s1) :
  \E i \in Reading(s2, CurrentsOf(s2)) : Record(v, i) /\ ResetPerhaps(s2, v, i)

(* begin() in main: its result is not looked at. *)
BeginMonitor ==
  \E s \in Opened(State(monitor, chip)) :
    monitor' = s.monitor /\ chip' = s.chip

(* The world: the bus, and a chip that loses its registers with its power. *)
BusChanges == bus' = IF bus = "well" THEN "bad" ELSE "well"
ChipForgets == chip = "calibrated" /\ chip' = "blank"
=============================================================================
