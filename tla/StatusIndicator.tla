---------------------------- MODULE StatusIndicator ----------------------------
(***************************************************************************)
(* romi::GpioStatusIndicator and the two classes derived from it: a red    *)
(* and a green LED that a thread of the object's own drives, a register    *)
(* write at a time, by the status its owner has set last.                  *)
(*                                                                         *)
(* The base class starts the thread before the derived part exists, and    *)
(* joins it after the derived part is gone; update() is virtual.           *)
(***************************************************************************)
EXTENDS Integers

CONSTANTS
  Pattern,   \* status -> [pin, period]; period 0 lights the pin steadily
  Initial    \* the status the derived constructor sets: kInitializing

Statuses == DOMAIN Pattern
Pins == {"red", "green"}
Other(pin) == IF pin = "red" THEN "green" ELSE "red"

PatternAssumption ==
  /\ \A s \in Statuses : Pattern[s].pin \in Pins /\ Pattern[s].period \in Nat
  /\ Initial \in Statuses

VARIABLES
  part,     \* what exists of the object; "dying": ~GpioStatusIndicator began
  running,  \* running_
  drawer,   \* the thread: "none", none, created, check, call, second write, ended
  drawing,  \* the pattern the thread is showing
  status,   \* status_
  lit,      \* the level of each pin
  count,    \* pwm_count_
  aborted   \* a pure virtual function was called

indicatorVars == <<part, running, drawer, drawing, status, lit, count, aborted>>
threadVars == <<drawing, lit, count>>

Parts == {"none", "base", "virtual", "whole", "dying", "joining", "gone"}

IndicatorTypeOK ==
  /\ part \in Parts
  /\ running \in BOOLEAN
  /\ drawer \in {"none", "created", "check", "call", "second", "ended"}
  /\ drawing \in {Pattern[s] : s \in Statuses}
  /\ status \in Statuses
  /\ lit \in [Pins -> BOOLEAN]
  /\ count \in Nat /\ (count = 0 \/ \E s \in Statuses : count < Pattern[s].period)
  /\ aborted \in BOOLEAN

Dark == [pin \in Pins |-> FALSE]

IndicatorInit ==
  /\ part = "none" /\ running = FALSE
  /\ drawer = "none" /\ drawing = Pattern[Initial]
  /\ status \in Statuses
  /\ lit = Dark /\ count = 0
  /\ aborted = FALSE

-----------------------------------------------------------------------------
(* The owner *)

(* GpioStatusIndicator(): the pins are cleared and the thread is made. *)
MakeBase ==
  /\ part = "none"
  /\ part' = "base"
  /\ drawer' = "created"
  /\ UNCHANGED <<running, status, aborted, threadVars>>

(* The derived constructor: update() is there, *)
MakeDerived ==
  /\ part = "base"
  /\ part' = "virtual"
  /\ UNCHANGED <<running, drawer, status, aborted, threadVars>>

(* and then the status has a value. *)
MakeStatus ==
  /\ part = "virtual"
  /\ part' = "whole"
  /\ status' = Initial
  /\ UNCHANGED <<running, drawer, aborted, threadVars>>

(* The derived part goes first. *)
Unmake ==
  /\ part = "whole"
  /\ part' = "dying"
  /\ UNCHANGED <<running, drawer, status, aborted, threadVars>>

StopRunning ==
  /\ part = "dying"
  /\ running' = FALSE
  /\ part' = "joining"
  /\ UNCHANGED <<drawer, status, aborted, threadVars>>

(* join(), and the pins are cleared. *)
Join ==
  /\ part = "joining" /\ drawer = "ended"
  /\ part' = "gone"
  /\ lit' = Dark
  /\ UNCHANGED <<running, drawer, drawing, status, count, aborted>>

-----------------------------------------------------------------------------
(* The thread *)

(* run() says itself that it is running. *)
Begin ==
  /\ drawer = "created"
  /\ running' = TRUE
  /\ drawer' = "check"
  /\ UNCHANGED <<part, status, aborted, threadVars>>

(* while (running_) *)
Check ==
  /\ drawer = "check"
  /\ drawer' = IF running THEN "call" ELSE "ended"
  /\ UNCHANGED <<part, running, status, aborted, threadVars>>

(* update() in the base class is pure virtual. *)
Abort ==
  /\ drawer = "call"
  /\ part \in {"base", "dying", "joining"}
  /\ aborted' = TRUE
  /\ UNCHANGED <<part, running, drawer, status, threadVars>>

\* Mutant: the other pin is left as it is.
ClearOtherNot ==
  /\ drawer = "call"
  /\ part \in {"virtual", "whole"}
  /\ drawing' = Pattern[status]
  /\ drawer' = "second"
  /\ UNCHANGED <<part, running, status, aborted, lit, count>>

(* update() reads the status; blink and light clear the other pin first. *)
ClearOther ==
  /\ drawer = "call"
  /\ part \in {"virtual", "whole"}
  /\ drawing' = Pattern[status]
  /\ lit' = [lit EXCEPT ![Other(Pattern[status].pin)] = FALSE]
  /\ drawer' = "second"
  /\ UNCHANGED <<part, running, status, aborted, count>>

\* Mutant: the counter is reset a count too late.
WritePinLate ==
  /\ drawer = "second"
  /\ drawer' = "check"
  /\ LET high == drawing.period = 0 \/ count < drawing.period \div 2
     IN  lit' = [lit EXCEPT ![drawing.pin] = high]
  /\ count' = IF count >= drawing.period THEN 0 ELSE count + 1
  /\ UNCHANGED <<part, running, status, aborted, drawing>>

(* The second write, and the count of a blinking pin. *)
WritePin ==
  /\ drawer = "second"
  /\ drawer' = "check"
  /\ LET high == drawing.period = 0 \/ count < drawing.period \div 2
     IN  lit' = [lit EXCEPT ![drawing.pin] = high]
  /\ count' = IF count + 1 >= drawing.period THEN 0 ELSE count + 1
  /\ UNCHANGED <<part, running, status, aborted, drawing>>

Drawer == Begin \/ Check \/ Abort \/ ClearOther \/ WritePin
=============================================================================
