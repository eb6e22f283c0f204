--------------------------------- MODULE CNC ---------------------------------
(***************************************************************************)
(* romi::CNC over romi::StepperController: the commands that clients run   *)
(* on the machine, the operator's pause, continue and reset, and the       *)
(* firmware behind the serial line.                                        *)
(*                                                                         *)
(* Each client is a thread inside one command.  moveto, travel, helix,     *)
(* homing and the power commands hold mutex_; spindle and set_relay do     *)
(* not.  Positions are whole steps on one axis, and a planned script is a  *)
(* sequence of relative blocks, one per point of the path.  The checkpoint *)
(* of ActivityHelper is taken at the granularity of its abstract           *)
(* specification, Activity: it blocks while the mode is paused, and a      *)
(* cancellation is decided in one step and stored in a later one.          *)
(***************************************************************************)
EXTENDS Integers, Sequences, SequencesExt, FiniteSets

CONSTANTS
  Clients,       \* threads that run commands
  NoClient,      \* the owner of a free mutex
  Points,        \* positions a client may ask for
  InRange,       \* those the machine's range accepts
  Paths,         \* the paths a client may ask travel() to follow
  QueueSize,     \* slots in the firmware's command buffer
  MaxTries,      \* loops of send_command(), 1000 in the code
  MaxCommands,   \* bound on the number of commands
  MaxControls,   \* bound on the number of pauses, continues and resets
  SerialFails    \* whether an exchange on the serial line may fail

ASSUME CNCAssumption ==
  /\ NoClient \notin Clients
  /\ Points \subseteq Int /\ 0 \in Points /\ InRange \subseteq Points
  /\ Paths \subseteq Seq(Points)
  /\ {QueueSize, MaxTries} \subseteq Nat \ {0}
  /\ {MaxCommands, MaxControls} \subseteq Nat
  /\ SerialFails \in BOOLEAN

VARIABLES
  mutex,            \* owner of CNC::mutex_
  positionChanged,  \* CNC::position_changed_
  mode,             \* ActivityHelper::_state
  op,               \* the command each client runs
  stage,            \* where the client is inside it
  path,             \* the points still to be planned
  script,           \* what is still to be sent to the firmware
  goal,             \* where the planned script ends
  tries,            \* loops of the current send_command()
  result,           \* how it ends: "sent" (unsynchronized success), "ok",
                    \* "failed" (false, or an exception) or "cancelled"
  queue, pos, paused, enabled,   \* the firmware
  ostage,           \* where the operator is inside its call
  clean,            \* history: the script started on an idle machine, unreset
  late,             \* history: lines sent since a reset, -1 without one
  missed,           \* history: a reset passed the client's command by
  homed,            \* history: the last homing ran to its end
  doubled,          \* history: steps of the command's lines that were taken
                    \* without a readable answer
  overlooked,       \* history: the client sleeps, or is about to, although a
                    \* notification has passed
  commands, controls             \* bounds

client  == <<op, stage, path, script, goal, tries, result>>
firm    == <<queue, pos, paused, enabled>>
history == <<clean, late, missed, homed, doubled, overlooked>>
bounds  == <<commands, controls>>
vars == <<mutex, positionChanged, mode, client, firm, ostage, history, bounds>>

Moves   == {"moveto", "travel", "helix"}
Powers  == {"power_up", "power_down"}
Ops     == Moves \cup Powers \cup {"homing", "spindle", "set_relay", "none"}
Stages  == {"idle", "determine", "plan", "enabled", "check", "wait", "asleep",
            "cancel", "send", "sync", "power", "return"}

(* From the first line of a script to its last: the lines are on their way. *)
Sending == {"enabled", "check", "wait", "asleep", "send"}

Move(d) == <<"M", d>>
Home    == <<"H", 0>>
Switch  == <<"S", 0>>
Lines   == {"M", "H", "S"} \X Int

TypeOK ==
  /\ mutex \in Clients \cup {NoClient}
  /\ positionChanged \in BOOLEAN
  /\ mode \in {"running", "paused", "reset"}
  /\ op \in [Clients -> Ops]
  /\ stage \in [Clients -> Stages]
  /\ path \in [Clients -> Seq(Int)] /\ script \in [Clients -> Seq(Lines)]
  /\ goal \in [Clients -> Int]
  /\ tries \in [Clients -> 0 .. MaxTries]
  /\ result \in [Clients -> {"none", "sent", "ok", "failed", "cancelled"}]
  /\ queue \in Seq(Lines) /\ Len(queue) <= QueueSize
  /\ pos \in Int
  /\ paused \in BOOLEAN /\ enabled \in BOOLEAN /\ homed \in BOOLEAN
  /\ doubled \in [Clients -> Int] /\ overlooked \in [Clients -> BOOLEAN]
  /\ ostage \in {"idle", "pause", "continue", "reset"}

Init ==
  /\ mutex = NoClient
  /\ positionChanged = TRUE
  /\ mode = "running"
  /\ op = [c \in Clients |-> "none"]
  /\ stage = [c \in Clients |-> "idle"]
  /\ path = [c \in Clients |-> <<>>]
  /\ script = [c \in Clients |-> <<>>]
  /\ goal = [c \in Clients |-> 0]
  /\ tries = [c \in Clients |-> 0]
  /\ result = [c \in Clients |-> "none"]
  /\ queue = <<>>
  /\ pos \in InRange
  /\ paused = FALSE
  /\ enabled = FALSE
  /\ ostage = "idle"
  /\ clean = [c \in Clients |-> FALSE]
  /\ late = [c \in Clients |-> -1]
  /\ missed = [c \in Clients |-> FALSE]
  /\ homed = FALSE
  /\ doubled = [c \in Clients |-> 0]
  /\ overlooked = [c \in Clients |-> FALSE]
  /\ commands = 0
  /\ controls = 0

-----------------------------------------------------------------------------
(* Steps shared by the commands *)

Goto(c, s) == stage' = [stage EXCEPT ![c] = s]

(* The command ends with r; the lock guard's destructor runs in Return. *)
Finish(c, r) ==
  /\ result' = [result EXCEPT ![c] = r]
  /\ Goto(c, "return")

(* CNC::homing() clears position_changed_ whatever the controller returned. *)
EndCall(c, r) ==
  /\ Finish(c, r)
  /\ IF op[c] = "homing"
     THEN positionChanged' = FALSE /\ homed' = (r = "ok" /\ clean[c])
     ELSE UNCHANGED <<positionChanged, homed>>

(* A client enters command o, at stage s, with path p and script l. *)
Enter(c, o, s, p, l) ==
  /\ stage[c] = "idle"
  /\ commands < MaxCommands
  /\ commands' = commands + 1
  /\ op' = [op EXCEPT ![c] = o]
  /\ path' = [path EXCEPT ![c] = p]
  /\ script' = [script EXCEPT ![c] = l]
  /\ result' = [result EXCEPT ![c] = IF s = "return" THEN "ok" ELSE "none"]
  /\ missed' = [missed EXCEPT ![c] = ostage = "reset"]
  /\ clean' = [clean EXCEPT ![c] = TRUE]
  /\ Goto(c, s)
  /\ UNCHANGED <<mode, goal, tries, firm, ostage, late, homed, doubled,
                 overlooked, controls>>

(* SynchronizedCodeBlock synchronize(mutex_) *)
Acquire(c) ==
  /\ mutex = NoClient
  /\ mutex' = c

(* The caller gets the result, and the mutex is free if the call held it. *)
Return(c) ==
  /\ stage[c] = "return"
  /\ mutex' = IF mutex = c THEN NoClient ELSE mutex
  /\ op' = [op EXCEPT ![c] = "none"]
  /\ result' = [result EXCEPT ![c] = "none"]
  /\ path' = [path EXCEPT ![c] = <<>>]
  /\ script' = [script EXCEPT ![c] = <<>>]
  /\ goal' = [goal EXCEPT ![c] = 0]
  /\ tries' = [tries EXCEPT ![c] = 0]
  /\ clean' = [clean EXCEPT ![c] = FALSE]
  /\ late' = [late EXCEPT ![c] = -1]
  /\ missed' = [missed EXCEPT ![c] = FALSE]
  /\ doubled' = [doubled EXCEPT ![c] = 0]
  /\ Goto(c, "idle")
  /\ UNCHANGED <<positionChanged, mode, firm, ostage, homed, overlooked, bounds>>

-----------------------------------------------------------------------------
(* The commands *)

(* MUTANT of StartMove: the move does not invalidate the home position. *)
StartMoveKeepsHome(c) ==
  /\ Acquire(c)
  /\ UNCHANGED positionChanged
  /\ \E p \in Paths : Enter(c, "travel", "plan", p, <<>>)

(* MUTANT of StartMove: the moves do not take the mutex. *)
StartMoveUnlocked(c) ==
  /\ positionChanged' = TRUE
  /\ UNCHANGED mutex
  /\ \E p \in Paths : Enter(c, "travel", "plan", p, <<>>)

(* moveto(), travel() and helix().  A moveto that leaves the axis unchanged *)
(* reads the position first.                                                *)
StartMove(c) ==
  /\ Acquire(c)
  /\ positionChanged' = TRUE
  /\ \/ Enter(c, "moveto", "determine", <<>>, <<>>)
     \/ \E x \in Points : Enter(c, "moveto", "plan", <<x>>, <<>>)
     \/ \E p \in Paths : Enter(c, "travel", "plan", p, <<>>)
     \/ \E x \in Points : Enter(c, "helix", "plan", <<x>>, <<>>)

(* homing(): the machine is left alone when nothing has moved it since the  *)
(* last one.                                                                *)
StartHoming(c) ==
  /\ Acquire(c)
  /\ UNCHANGED positionChanged
  /\ IF positionChanged
     THEN Enter(c, "homing", "enabled", <<>>, <<Home>>)
     ELSE Enter(c, "homing", "return", <<>>, <<>>)

(* spindle() counts as a change of the position, set_relay() does not. *)
StartSwitch(c) ==
  /\ \/ /\ positionChanged' = TRUE
        /\ Enter(c, "spindle", "check", <<>>, <<Switch>>)
     \/ /\ UNCHANGED positionChanged
        /\ Enter(c, "set_relay", "check", <<>>, <<Switch>>)
  /\ UNCHANGED mutex

StartPower(c) ==
  /\ Acquire(c)
  /\ \E o \in Powers : Enter(c, o, "power", <<>>, <<>>)
  /\ UNCHANGED positionChanged

-----------------------------------------------------------------------------
(* Inside a command *)

(* E[1] or E[0], ten attempts; power_up() does not home the machine. *)
Power(c) ==
  /\ stage[c] = "power"
  /\ \/ enabled' = (op[c] = "power_up") /\ Finish(c, "ok")
     \/ SerialFails /\ UNCHANGED enabled /\ Finish(c, "failed")
  /\ UNCHANGED <<mutex, positionChanged, mode, op, path, script, goal, tries,
                 queue, pos, paused, ostage, history, bounds>>

(* moveto_determine_xyz(): an unchanged coordinate is where the axis is. *)
Determine(c) ==
  /\ stage[c] = "determine"
  /\ \/ /\ path' = [path EXCEPT ![c] = <<pos>>]
        /\ Goto(c, "plan")
        /\ UNCHANGED result
     \/ SerialFails /\ Finish(c, "failed") /\ UNCHANGED path
  /\ UNCHANGED <<mutex, positionChanged, mode, op, script, goal, tries, firm,
                 ostage, history, bounds>>

(* The relative blocks that lead from start through the points of p.  What *)
(* the conversion to steps and milliseconds may lose is in Script.         *)
Blocks(start, p) ==
  LET from(i) == IF i = 1 THEN start ELSE p[i - 1]
      upTo[i \in 0 .. Len(p)] ==
        IF i = 0 THEN <<>>
        ELSE IF p[i] = from(i) THEN upTo[i - 1]
        ELSE Append(upTo[i - 1], Move(p[i] - from(i)))
  IN  upTo[Len(p)]

(* Where they end: a path without points leads nowhere. *)
End(start, p) == IF p = <<>> THEN start ELSE p[Len(p)]

(* travel() and moveto() refuse a point out of range; helix() does not look. *)
Accepted(c) == op[c] = "helix" \/ Range(path[c]) \subseteq InRange

(* After the last line: wait for the machine or not, as the caller asked.   *)
(* Homing always waits, spindle and set_relay never.                        *)
AfterLastLine(c) ==
  \/ op[c] \in Moves \cup {"homing"} /\ Goto(c, "sync") /\ UNCHANGED result
  \/ op[c] \in Moves /\ Finish(c, "sent")
  \/ op[c] \in {"spindle", "set_relay"} /\ Finish(c, "ok")

(* do_travel() and do_helix() read where the machine is and build the       *)
(* blocks from there.                                                       *)
Plan(c) ==
  /\ stage[c] = "plan"
  /\ Accepted(c)
  /\ LET b == Blocks(pos, path[c])
     IN  /\ script' = [script EXCEPT ![c] = b]
         /\ IF b = <<>> THEN AfterLastLine(c)
                        ELSE Goto(c, "enabled") /\ UNCHANGED result
  /\ goal' = [goal EXCEPT ![c] = End(pos, path[c])]
  /\ path' = [path EXCEPT ![c] = <<>>]
  /\ clean' = [clean EXCEPT ![c] = queue = <<>>]
  /\ UNCHANGED <<mutex, positionChanged, mode, op, tries, firm, ostage, late,
                 missed, homed, doubled, overlooked, bounds>>

(* A speed, range, position, validity or storage error: nothing is sent. *)
PlanFails(c) ==
  /\ stage[c] = "plan"
  /\ ~Accepted(c) \/ SerialFails
  /\ Finish(c, "failed")
  /\ UNCHANGED <<mutex, positionChanged, mode, op, path, script, goal, tries,
                 firm, ostage, history, bounds>>

(* is_enabled() before every move and homing; it throws when it is not, so  *)
(* a homing that fails here leaves position_changed_ as it was.             *)
IsEnabled(c) ==
  /\ stage[c] = "enabled"
  /\ \/ enabled /\ Goto(c, "check") /\ UNCHANGED result
     \/ (~enabled \/ SerialFails) /\ Finish(c, "failed")
  /\ UNCHANGED <<mutex, positionChanged, mode, op, path, script, goal, tries,
                 firm, ostage, history, bounds>>

(* The helper's own mutex: held while a cancellation is being stored, and    *)
(* from the test of the state to the sleep.                                  *)
HelperFree == \A d \in Clients : stage[d] \notin {"cancel", "wait"}

(* check_pause_or_cancel_execution(), before every line. *)
Check(c) ==
  /\ stage[c] = "check"
  /\ HelperFree
  /\ mode # "paused"
  /\ Goto(c, IF mode = "reset" THEN "cancel" ELSE "send")
  /\ UNCHANGED <<mutex, positionChanged, mode, op, path, script, goal, tries,
                 result, firm, ostage, history, bounds>>

(* The activity is paused: the client is about to wait, *)
Wait(c) ==
  /\ stage[c] = "check"
  /\ HelperFree
  /\ mode = "paused"
  /\ Goto(c, "wait")
  /\ overlooked' = [overlooked EXCEPT ![c] = FALSE]
  /\ UNCHANGED <<mutex, positionChanged, mode, op, path, script, goal, tries,
                 result, firm, ostage, clean, late, missed, homed, doubled,
                 bounds>>

(* and sleeps, whatever became of the state in between. *)
Sleep(c) ==
  /\ stage[c] = "wait"
  /\ Goto(c, "asleep")
  /\ UNCHANGED <<mutex, positionChanged, mode, op, path, script, goal, tries,
                 result, firm, ostage, history, bounds>>

(* The commands of S lose the reset that was theirs. *)
TakeResetFrom(S) ==
  missed' = [c \in Clients |->
               missed[c] \/ (c \in S /\ mode = "reset" /\ op[c] # "none")]

(* _state = Running; throw ActivityResetException: no handler of CNC's       *)
(* catches it.                                                               *)
Cancel(c) ==
  /\ stage[c] = "cancel"
  /\ mode' = "running"
  /\ TakeResetFrom(Clients \ {c})
  /\ Finish(c, "cancelled")
  /\ UNCHANGED <<mutex, positionChanged, op, path, script, goal, tries, firm,
                 ostage, clean, late, homed, doubled, overlooked, bounds>>

(* MUTANT of SendLine: a line that was refused is taken for sent. *)
SendLineUnchecked(c) ==
  /\ stage[c] = "send"
  /\ queue' = IF Len(queue) < QueueSize THEN Append(queue, Head(script[c]))
                                        ELSE queue
  /\ script' = [script EXCEPT ![c] = Tail(@)]
  /\ tries' = [tries EXCEPT ![c] = 0]
  /\ IF Tail(script[c]) = <<>> THEN AfterLastLine(c)
                               ELSE Goto(c, "enabled") /\ UNCHANGED result
  /\ UNCHANGED <<mutex, positionChanged, mode, op, path, goal, pos, paused,
                 enabled, ostage, history, bounds>>

(* MUTANT of SendLine: the firmware's buffer has no end. *)
SendLineUnbounded(c) ==
  /\ stage[c] = "send"
  /\ queue' = Append(queue, Head(script[c]))
  /\ script' = [script EXCEPT ![c] = Tail(@)]
  /\ tries' = [tries EXCEPT ![c] = 0]
  /\ IF Tail(script[c]) = <<>> THEN AfterLastLine(c)
                               ELSE Goto(c, "enabled") /\ UNCHANGED result
  /\ UNCHANGED <<mutex, positionChanged, mode, op, path, goal, pos, paused,
                 enabled, ostage, history, bounds>>

(* send(command): the firmware answers 0 and has a slot for the line. *)
SendLine(c) ==
  /\ stage[c] = "send"
  /\ Len(queue) < QueueSize
  /\ queue' = Append(queue, Head(script[c]))
  /\ script' = [script EXCEPT ![c] = Tail(@)]
  /\ tries' = [tries EXCEPT ![c] = 0]
  /\ late' = [late EXCEPT ![c] = IF @ < 0 THEN @ ELSE @ + 1]
  /\ IF Tail(script[c]) = <<>> THEN AfterLastLine(c)
                               ELSE Goto(c, "enabled") /\ UNCHANGED result
  /\ UNCHANGED <<mutex, positionChanged, mode, op, path, goal, pos, paused,
                 enabled, ostage, clean, missed, homed, doubled, overlooked,
                 bounds>>

(* The next of the loops of send_command(), which sends the same line, if    *)
(* there is one left.                                                        *)
TryAgain(c) ==
  \/ /\ tries[c] + 1 < MaxTries
     /\ tries' = [tries EXCEPT ![c] = @ + 1]
     /\ Goto(c, "check")
     /\ UNCHANGED <<result, positionChanged, homed>>
  \/ /\ tries[c] + 1 = MaxTries
     /\ EndCall(c, "failed")
     /\ UNCHANGED tries

(* send(command): the buffer is full (1), sleep and try again. *)
SendRefused(c) ==
  /\ stage[c] = "send"
  /\ Len(queue) = QueueSize
  /\ TryAgain(c)
  /\ UNCHANGED <<mutex, mode, op, path, script, goal, firm, ostage, clean,
                 late, missed, doubled, overlooked, bounds>>

(* Any other error code ends the call. *)
SendFails(c) ==
  /\ stage[c] = "send"
  /\ SerialFails
  /\ EndCall(c, "failed")
  /\ UNCHANGED <<mutex, mode, op, path, script, goal, tries, firm, ostage,
                 clean, late, missed, doubled, overlooked, bounds>>

(* MUTANT of SendUnanswered: no answer is taken for a yes. *)
SendUnansweredTrusted(c) ==
  /\ stage[c] = "send"
  /\ SerialFails
  /\ script' = [script EXCEPT ![c] = Tail(@)]
  /\ IF Tail(script[c]) = <<>> THEN AfterLastLine(c)
                               ELSE Goto(c, "enabled") /\ UNCHANGED result
  /\ UNCHANGED <<mutex, positionChanged, mode, op, path, goal, tries, firm,
                 ostage, history, bounds>>

(* The answer is not an array with a number in it: nobody knows whether the  *)
(* firmware has taken the line, and it is sent again.                        *)
SendUnanswered(c) ==
  /\ stage[c] = "send"
  /\ SerialFails
  /\ \/ /\ Len(queue) < QueueSize
        /\ queue' = Append(queue, Head(script[c]))
        /\ doubled' = [doubled EXCEPT ![c] = @ + Head(script[c])[2]]
        /\ late' = [late EXCEPT ![c] = IF @ < 0 THEN @ ELSE @ + 1]
     \/ UNCHANGED <<queue, doubled, late>>
  /\ TryAgain(c)
  /\ UNCHANGED <<mutex, mode, op, path, script, goal, pos, paused, enabled,
                 ostage, clean, missed, overlooked, bounds>>

(* synchronize(): poll until idle; a busy machine may outlast the timeout,   *)
(* and is_idle() may fail.                                                   *)
Synchronize(c) ==
  /\ stage[c] = "sync"
  /\ \/ queue = <<>> /\ EndCall(c, "ok")
     \/ (queue # <<>> \/ SerialFails) /\ EndCall(c, "failed")
  /\ UNCHANGED <<mutex, mode, op, path, script, goal, tries, firm, ostage,
                 clean, late, missed, doubled, overlooked, bounds>>

-----------------------------------------------------------------------------
(* The operator: pause_activity(), continue_activity(), reset_activity() *)

(* MUTANT of Control: the reset is not stored in the helper. *)
ControlForgetsHelper ==
  /\ ostage = "idle"
  /\ controls < MaxControls
  /\ controls' = controls + 1
  /\ ostage' = "reset"
  /\ UNCHANGED <<mutex, positionChanged, mode, client, firm, history, commands>>

(* MUTANT of NotifyOne: nobody is notified. *)
NotifyNobody == UNCHANGED <<stage, overlooked>>

(* notify_one(): one of the clients that are asleep, if any, looks again;    *)
(* the others, and those that are about to sleep, are overlooked.            *)
NotifyOne ==
  LET waiting == {c \in Clients : stage[c] \in {"wait", "asleep"}}
      asleep  == {c \in Clients : stage[c] = "asleep"}
      except(S) == [c \in Clients |-> overlooked[c] \/ c \in waiting \ S]
  IN  \/ /\ asleep = {}
         /\ UNCHANGED stage
         /\ overlooked' = except({})
      \/ \E c \in asleep :
           /\ Goto(c, "check")
           /\ overlooked' = [except({c}) EXCEPT ![c] = FALSE]

(* The first half: p to the firmware for a pause, the helper's state and     *)
(* the notification for the two others.                                      *)
Control ==
  /\ ostage = "idle"
  /\ controls < MaxControls
  /\ controls' = controls + 1
  /\ \/ /\ ostage' = "pause"
        /\ paused' = TRUE \/ (SerialFails /\ UNCHANGED paused)
        /\ UNCHANGED <<mode, missed, stage, overlooked>>
     \/ /\ ostage' = "continue"
        /\ mode' = "running"
        /\ TakeResetFrom(Clients)
        /\ NotifyOne
        /\ UNCHANGED paused
     \/ /\ ostage' = "reset"
        /\ mode' = "reset"
        /\ NotifyOne
        /\ UNCHANGED <<paused, missed>>
  /\ UNCHANGED <<mutex, positionChanged, op, path, script, goal, tries, result,
                 queue, pos, enabled, clean, late, homed, doubled, commands>>

PauseStore ==
  /\ ostage = "pause"
  /\ ostage' = "idle"
  /\ mode' = "paused"
  /\ TakeResetFrom(Clients)
  /\ UNCHANGED <<mutex, positionChanged, client, firm, clean, late, homed,
                 doubled, overlooked, bounds>>

(* c: the firmware goes on. *)
ContinueSend ==
  /\ ostage = "continue"
  /\ ostage' = "idle"
  /\ paused' = FALSE \/ (SerialFails /\ UNCHANGED paused)
  /\ UNCHANGED <<mutex, positionChanged, mode, client, queue, pos, enabled,
                 history, bounds>>

(* r: the firmware drops what it holds and runs. *)
ResetSend ==
  /\ ostage = "reset"
  /\ ostage' = "idle"
  /\ \/ /\ queue' = <<>>
        /\ paused' = FALSE
        /\ clean' = [c \in Clients |-> FALSE]
        /\ late' = [c \in Clients |-> IF script[c] # <<>> THEN 0 ELSE late[c]]
     \/ SerialFails /\ UNCHANGED <<queue, paused, clean, late>>
  /\ UNCHANGED <<mutex, positionChanged, mode, client, pos, enabled, missed,
                 homed, doubled, overlooked, bounds>>

(* The firmware finishes the line at the head of its buffer. *)
Execute ==
  /\ queue # <<>>
  /\ ~paused
  /\ queue' = Tail(queue)
  /\ pos' = IF Head(queue) = Home THEN 0 ELSE pos + Head(queue)[2]
  /\ UNCHANGED <<mutex, positionChanged, mode, client, paused, enabled,
                 ostage, history, bounds>>

-----------------------------------------------------------------------------
Start(c) ==
  StartMove(c) \/ StartHoming(c) \/ StartSwitch(c) \/ StartPower(c)

Step(c) ==
  \/ Power(c) \/ Determine(c) \/ Plan(c) \/ PlanFails(c) \/ IsEnabled(c)
  \/ Check(c) \/ Wait(c) \/ Sleep(c) \/ Cancel(c)
  \/ SendLine(c) \/ SendRefused(c) \/ SendFails(c) \/ SendUnanswered(c)
  \/ Synchronize(c) \/ Return(c)

Next ==
  \/ \E c \in Clients : Start(c) \/ Step(c)
  \/ Control \/ PauseStore \/ ContinueSend \/ ResetSend
  \/ Execute

Spec == Init /\ [][Next]_vars

(* Threads inside a call go on, and a firmware that may move does.  Nobody   *)
(* has to start a command or touch the controls.                             *)
Fairness ==
  /\ \A c \in Clients : WF_vars(Step(c))
  /\ WF_vars(PauseStore) /\ WF_vars(ContinueSend) /\ WF_vars(ResetSend)
  /\ WF_vars(Execute)

FairSpec == Spec /\ Fairness

-----------------------------------------------------------------------------
(* Properties *)

(* What the lines of s move the axis by. *)
Sum(s) ==
  LET upTo[i \in 0 .. Len(s)] == IF i = 0 THEN 0 ELSE upTo[i - 1] + s[i][2]
  IN  upTo[Len(s)]

(***************************************************************************)
(* A move that found the machine idle and met no reset accounts for every  *)
(* step, all along: what the machine has done, what the firmware holds and *)
(* what is still to be sent add up to the goal, and to the lines that were *)
(* taken without a readable answer and are sent once more; through         *)
(* refusals, retries, pauses and the other clients' lines                  *)
(* (execute_script, send_command).                                         *)
(***************************************************************************)
StepsAddUp ==
  \A c \in Clients :
    (/\ op[c] \in Moves /\ clean[c]
     /\ stage[c] \in Sending \cup {"sync"})
      => pos + Sum(queue) + Sum(script[c]) = goal[c] + doubled[c]

(***************************************************************************)
(* When such a move returns true to a caller who asked to wait, the        *)
(* machine stands at the goal (do_travel, wait_end_of_script), or beyond   *)
(* it by the lines that send_command() sent again although the firmware    *)
(* had taken them, which nobody is told of.                                *)
(***************************************************************************)
TrueMeansArrived ==
  \A c \in Clients :
    (/\ stage[c] = "return" /\ result[c] = "ok"
     /\ op[c] \in Moves /\ clean[c])
      => pos = goal[c] + doubled[c]

(***************************************************************************)
(* The homing that is skipped is not missed: when position_changed_ is     *)
(* false after a homing that went well, the machine is at its origin and   *)
(* nothing that would move it is queued.                                   *)
(***************************************************************************)
HomeIsKnown ==
  ~positionChanged /\ homed
    => pos = 0 /\ \A i \in DOMAIN queue : queue[i] = Switch

(***************************************************************************)
(* Once a reset has reached the firmware, at most one more line of the     *)
(* script it cancels follows it there: the one whose checkpoint was passed *)
(* before the reset.  Not so if the reset was answered by another client's *)
(* command, overwritten by a pause or a continue, or if the command began  *)
(* between the two halves of reset_activity().                             *)
(***************************************************************************)
AtMostOneLateLine ==
  \A c \in Clients : late[c] > 1 => missed[c]

(* A command other than spindle and set_relay runs under the mutex. *)
MachineExclusion ==
  \A c \in Clients :
    op[c] \notin {"none", "spindle", "set_relay"} => mutex = c

(***************************************************************************)
(* Every call that has begun comes to an end, unless the operator leaves   *)
(* the activity paused or the notification of a continue or a reset misses *)
(* the client: no other client stays behind in the checkpoint, in the      *)
(* retries of send_command() or in synchronize().                          *)
(***************************************************************************)
CallsReturn ==
  \A c \in Clients :
    stage[c] # "idle" ~> (stage[c] = "idle" \/ mode = "paused" \/ overlooked[c])

(***************************************************************************)
(* What ICNCController.h says of homing, for the callers of CNC: a homing  *)
(* that returns true leaves the machine in its home position.              *)
(***************************************************************************)
HomingSetsHome ==
  \A c \in Clients :
    op[c] = "homing" /\ stage[c] = "return" /\ result[c] = "ok" => pos = 0

==============================================================================
