-------------------------- MODULE FakeCNCController --------------------------
(***************************************************************************)
(* romi-cnc: romi::FakeCNCController, the controller that stands in for    *)
(* the machine.  Callers push commands in a queue; one thread pops them    *)
(* and plays each over time; is_idle reads the thread's flag and then the  *)
(* queue's size; homing and reset_activity write the position at once;     *)
(* the destructor asks the thread to stop and waits for it.                *)
(*                                                                         *)
(* One axis stands for the three, which the code treats alike; a movement  *)
(* passes through any of the positions on its way.                         *)
(***************************************************************************)
EXTENDS Integers, Sequences

CONSTANTS
  Callers,
  Steps,         \* what moves and speeds are asked for
  MaxCommands,   \* bound: commands ever pushed
  MaxHomings,    \* bound: homings and resets
  MaxDrift       \* bound: how far a movement at a speed goes

StepsAssumption == Steps \subseteq Int

VARIABLES
  queue,         \* commands_
  command,       \* the command the thread has popped: none or one
  active,        \* active_
  pos, pos0,     \* pos_; where the command started
  worker,        \* the thread: "pop", "begin", "play", "done", "ended"
  quitting,      \* quitting_
  asking,        \* each caller's is_idle: not called, or what it has read
  answer,        \* the last answer of each caller's is_idle
  wasIdle,       \* history: the controller was idle at some moment of it
  asked, known,  \* history: where the commands end, if that can be told
  commands, homings

queueVars == <<queue, commands>>
playVars == <<command, active, pos0, worker>>
askVars == <<asking, answer, wasIdle>>
historyVars == <<asked, known>>
vars == <<queueVars, playVars, pos, quitting, askVars, historyVars, homings>>

Types == {"move", "moveat", "moveto"}
Commands == [type : Types, by : Steps]

Init ==
  /\ queue = <<>> /\ command = <<>> /\ active = FALSE
  /\ pos = 0 /\ pos0 = 0 /\ worker = "pop" /\ quitting = FALSE
  /\ asking = [c \in Callers |-> "no"] /\ answer = [c \in Callers |-> 0]
  /\ wasIdle = [c \in Callers |-> FALSE]
  /\ asked = 0 /\ known = TRUE /\ commands = 0 /\ homings = 0

(* Nothing is queued, nothing is being played. *)
Idle == queue = <<>> /\ command = <<>>

(* Whoever is inside is_idle sees the moments at which that is so. *)
Watch(idle) ==
  wasIdle' = [c \in Callers |-> wasIdle[c] \/ (asking[c] # "no" /\ idle)]

-----------------------------------------------------------------------------
(* The callers. *)

(* move, moveat, moveto: push returns at once. *)
Push(cmd) ==
  /\ ~quitting
  /\ commands < MaxCommands
  /\ queue' = Append(queue, cmd)
  /\ commands' = commands + 1
  /\ asked' = CASE cmd.type = "move" -> asked + cmd.by
                [] cmd.type = "moveto" -> cmd.by
                [] cmd.type = "moveat" -> asked
  /\ known' = (cmd.type # "moveat" /\ (known \/ cmd.type = "moveto"))
  /\ UNCHANGED <<playVars, pos, quitting, askVars, homings>>

(* homing, reset_activity: the position, and nothing else. *)
Homing ==
  /\ ~quitting
  /\ homings < MaxHomings
  /\ pos' = 0
  /\ homings' = homings + 1
  /\ asked' = 0
  /\ known' = Idle
  /\ UNCHANGED <<queueVars, playVars, quitting, askVars>>

(* is_idle reads active_, *)
ReadActive(c) ==
  /\ ~quitting
  /\ asking[c] = "no"
  /\ asking' = [asking EXCEPT ![c] = IF active THEN "active" ELSE "inactive"]
  /\ wasIdle' = [wasIdle EXCEPT ![c] = Idle]
  /\ UNCHANGED <<queueVars, playVars, pos, quitting, answer, historyVars, homings>>

(* and then the size of the queue. *)
ReadSize(c) ==
  /\ asking[c] # "no"
  /\ answer' = [answer EXCEPT ![c] =
                  IF asking[c] = "inactive" /\ queue = <<>> THEN 1 ELSE 0]
  /\ asking' = [asking EXCEPT ![c] = "no"]
  /\ UNCHANGED <<queueVars, playVars, pos, quitting, wasIdle, historyVars, homings>>

(* The destructor, when no caller is inside. *)
Destroy ==
  /\ ~quitting
  /\ \A c \in Callers : asking[c] = "no"
  /\ quitting' = TRUE
  /\ UNCHANGED <<queueVars, playVars, pos, askVars, historyVars, homings>>

-----------------------------------------------------------------------------
(* The thread. *)

\* Mutant: the queue is emptied with the first command.
PopDropsRest ==
  /\ worker = "pop" /\ ~quitting
  /\ queue # <<>>
  /\ command' = <<Head(queue)>>
  /\ queue' = <<>>
  /\ worker' = "begin"
  /\ UNCHANGED <<commands, active, pos, pos0, quitting, historyVars, homings>>
  /\ UNCHANGED askVars

(* try_pop. *)
Pop ==
  /\ worker = "pop" /\ ~quitting
  /\ queue # <<>>
  /\ command' = <<Head(queue)>>
  /\ queue' = Tail(queue)
  /\ worker' = "begin"
  /\ UNCHANGED <<commands, active, pos, pos0, quitting, historyVars, homings>>
  /\ UNCHANGED askVars

Begin ==
  /\ worker = "begin"
  /\ active' = TRUE
  /\ pos0' = pos
  /\ worker' = "play"
  /\ UNCHANGED <<queueVars, command, pos, quitting, historyVars, homings, askVars>>

Between(a, b) == IF a <= b THEN a..b ELSE b..a

Goal == IF command[1].type = "move" THEN pos0 + command[1].by ELSE command[1].by

(* handle_move, handle_moveto: one turn of the loop; the end. *)
Advance ==
  /\ worker = "play"
  /\ command[1].type # "moveat"
  /\ pos' \in Between(pos0, Goal)
  /\ UNCHANGED <<queueVars, playVars, quitting, historyVars, homings, askVars>>

Arrive ==
  /\ worker = "play"
  /\ command[1].type # "moveat"
  /\ pos' = Goal
  /\ worker' = "done"
  /\ UNCHANGED <<queueVars, command, active, pos0, quitting, historyVars, homings>>
  /\ UNCHANGED askVars

\* Mutant: handle_moveat does not look at quitting_.
StopDriftingForCommand ==
  /\ worker = "play"
  /\ command[1].type = "moveat"
  /\ queue # <<>>
  /\ worker' = "done"
  /\ UNCHANGED <<queueVars, command, active, pos, pos0, quitting, historyVars>>
  /\ UNCHANGED <<homings, askVars>>

(* handle_moveat goes on until there is another command. *)
Drift ==
  /\ worker = "play"
  /\ command[1].type = "moveat"
  /\ ~quitting /\ queue = <<>>
  /\ \E t \in 0..MaxDrift : pos' = pos0 + t * command[1].by
  /\ UNCHANGED <<queueVars, playVars, quitting, historyVars, homings, askVars>>

\* Mutant: handle_moveat does not look at the queue.
StopDriftingToQuit ==
  /\ worker = "play"
  /\ command[1].type = "moveat"
  /\ quitting
  /\ worker' = "done"
  /\ UNCHANGED <<queueVars, command, active, pos, pos0, quitting, historyVars>>
  /\ UNCHANGED <<homings, askVars>>

StopDrifting ==
  /\ worker = "play"
  /\ command[1].type = "moveat"
  /\ quitting \/ queue # <<>>
  /\ worker' = "done"
  /\ UNCHANGED <<queueVars, command, active, pos, pos0, quitting, historyVars>>
  /\ UNCHANGED <<homings, askVars>>

Finish ==
  /\ worker = "done"
  /\ active' = FALSE
  /\ command' = <<>>
  /\ worker' = "pop"
  /\ Watch(queue = <<>>)
  /\ UNCHANGED <<queueVars, pos, pos0, quitting, asking, answer, historyVars, homings>>

Leave ==
  /\ worker = "pop" /\ quitting
  /\ worker' = "ended"
  /\ UNCHANGED <<queueVars, command, active, pos, pos0, quitting, historyVars>>
  /\ UNCHANGED <<homings, askVars>>

(* The steps the thread takes sooner or later; and the turns between. *)
Progress == Pop \/ Begin \/ Arrive \/ StopDrifting \/ Finish \/ Leave
Worker == Progress \/ Advance \/ Drift

Next ==
  \/ \E cmd \in Commands : Push(cmd)
  \/ Homing \/ Destroy
  \/ \E c \in Callers : ReadActive(c) \/ ReadSize(c)
  \/ Worker

Spec == Init /\ [][Next]_vars

(* The thread runs, and a movement takes the time it takes. *)
FairSpec == Spec /\ WF_vars(Progress)

-----------------------------------------------------------------------------
TypeOK ==
  /\ queue \in Seq(Commands) /\ command \in Seq(Commands) /\ Len(command) <= 1
  /\ active \in BOOLEAN /\ quitting \in BOOLEAN
  /\ pos \in Int /\ pos0 \in Int
  /\ worker \in {"pop", "begin", "play", "done", "ended"}
  /\ asking \in [Callers -> {"no", "active", "inactive"}]
  /\ answer \in [Callers -> {0, 1}]

(* When nothing is left to do the machine is where the commands lead, each *)
(* executed once and in order, unless one was a speed, or the origin was   *)
(* set under a command that had not ended.                                 *)
EndsWhereAsked == Idle /\ known => pos = asked

(* No destructor waits forever, not even in the middle of a movement at a  *)
(* speed.                                                                  *)
DestructorEnds == []<>(quitting => worker = "ended")

(* Each pushed command gets its turn, unless the controller is destroyed. *)
CommandsStart == []<>(queue = <<>> \/ quitting)

(* "Return 1 if idle, 0 if busy": an answer 1 tells of a moment of the     *)
(* call at which nothing was queued or being played.                       *)
IdleMeansIdle ==
  \A c \in Callers : answer[c] = 1 /\ asking[c] = "no" => wasIdle[c]
=============================================================================
