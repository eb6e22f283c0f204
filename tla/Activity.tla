------------------------------ MODULE Activity ------------------------------
(***************************************************************************)
(* What romi::IActivity promises to the commands it controls, seen from    *)
(* outside romi::ActivityHelper: an operator pauses, continues or resets   *)
(* the activity; an executor passes a checkpoint between two firmware      *)
(* commands.  A checkpoint lets an executor go only if the activity has    *)
(* not been paused during the whole of it, and every cancellation answers  *)
(* a reset that no earlier cancellation answered.                          *)
(***************************************************************************)
EXTENDS Naturals

CONSTANT Executors

VARIABLES
  mode,      \* the activity's state: "running", "paused" or "reset"
  inside,    \* the executors inside the checkpoint
  allowed,   \* those among them that saw a moment that was not paused
  credit     \* the resets that no cancellation has answered

vars == <<mode, inside, allowed, credit>>

Modes == {"running", "paused", "reset"}

Init ==
  /\ mode = "running"
  /\ inside = {}
  /\ allowed = {}
  /\ credit = 0

(* An executor reaches the checkpoint. *)
Enter(t) ==
  /\ t \notin inside
  /\ inside' = inside \cup {t}
  /\ allowed' = IF mode = "paused" THEN allowed ELSE allowed \cup {t}
  /\ UNCHANGED <<mode, credit>>

(* An operator changes the mode; a reset opens one more cancellation. *)
Control(m) ==
  /\ mode' = m
  /\ allowed' = IF m = "paused" THEN allowed ELSE inside
  /\ credit' = IF m = "reset" THEN credit + 1 ELSE credit
  /\ UNCHANGED inside

(* The checkpoint lets the executor go on with its command. *)
Pass(t) ==
  /\ t \in allowed
  /\ inside' = inside \ {t}
  /\ allowed' = allowed \ {t}
  /\ UNCHANGED <<mode, credit>>

(* The checkpoint cancels the executor's command, and the activity runs. *)
Cancel(t) ==
  /\ t \in allowed
  /\ credit > 0
  /\ credit' = credit - 1
  /\ mode' = "running"
  /\ inside' = inside \ {t}
  /\ allowed' = inside \ {t}

Next ==
  \/ \E t \in Executors : Enter(t) \/ Pass(t) \/ Cancel(t)
  \/ \E m \in Modes : Control(m)

Spec == Init /\ [][Next]_vars

=============================================================================
