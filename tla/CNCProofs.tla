------------------------------ MODULE CNCProofs ------------------------------
(***************************************************************************)
(* Proofs about CNC, for any clients, points and paths and any number of   *)
(* commands, refusals and calls of the operator.                           *)
(*                                                                         *)
(* What becomes of a reset: until a command has noticed it (Stopped) or    *)
(* missed it, the mode stays reset, also before the firmware hears of it   *)
(* (Reaching), so that the next checkpoint ends the command.               *)
(***************************************************************************)
EXTENDS CNC, Induction, TLAPS

Types ==
  /\ mutex \in Clients \cup {NoClient}
  /\ mode \in {"running", "paused", "reset"}
  /\ op \in [Clients -> Ops]
  /\ stage \in [Clients -> Stages]
  /\ script = [c \in Clients |-> script[c]]
  /\ ostage \in {"idle", "pause", "continue", "reset"}
  /\ late \in [Clients -> Nat \cup {-1}]
  /\ missed \in [Clients -> BOOLEAN]

(* A client without a command has nothing to send. *)
Resting ==
  \A c \in Clients :
    /\ stage[c] = "idle" <=> op[c] = "none"
    /\ op[c] = "none" => late[c] = -1 /\ script[c] = <<>>

(* A command that a reset has reached is about to notice it. *)
Stopped ==
  \A c \in Clients :
    late[c] >= 0 /\ ~missed[c] =>
      /\ late[c] <= 1
      /\ \/ stage[c] = "return"
         \/ mode = "reset" /\ (late[c] = 0 \/ stage[c] # "send")

(* A reset that has not reached the firmware yet is still to be noticed. *)
Reaching ==
  ostage = "reset" =>
    \A c \in Clients : stage[c] \in {"idle", "return"} \/ missed[c] \/ mode = "reset"

IInv == Types /\ MachineExclusion /\ Resting /\ Stopped /\ Reaching

LEMMA Initially == Init => IInv
BY CNCAssumption
DEF Init, IInv, Types, Ops, Stages, MachineExclusion, Resting, Stopped, Reaching

-----------------------------------------------------------------------------
(* Inside a command: c goes to another stage, but neither past a checkpoint *)
(* nor out of the command.                                                 *)
LEMMA InsideKeeps ==
  ASSUME IInv, NEW c \in Clients, NEW s \in Stages \ {"idle", "send"},
         stage[c] # "idle",
         stage' = [stage EXCEPT ![c] = s],
         script' = script \/ \E l : script' = [script EXCEPT ![c] = l],
         UNCHANGED <<mutex, op, mode, ostage, late, missed>>,
         stage[c] # "return"
  PROVE  IInv'
<1> USE DEF IInv
<1>1. Types'
  BY DEF Types
<1>2. MachineExclusion'
  BY DEF MachineExclusion
<1>3. Resting'
  BY DEF Resting, Types
<1>4. Stopped'
  BY DEF Stopped, Types
<1>5. Reaching'
  BY DEF Reaching, Types
<1> QED  BY <1>1, <1>2, <1>3, <1>4, <1>5

(* A command begins: the helper's reset, if any, is not for it. *)
LEMMA EnterKeeps ==
  ASSUME IInv, NEW c \in Clients, NEW o \in Ops \ {"none"},
         NEW s \in {"determine", "plan", "enabled", "check", "power", "return"},
         NEW p, NEW l, Enter(c, o, s, p, l),
         \/ mutex' = c /\ mutex = NoClient
         \/ mutex' = mutex /\ o \in {"spindle", "set_relay"}
  PROVE  IInv'
<1> USE DEF IInv, Enter, Goto
<1>1. Types'
  BY DEF Types, Stages
<1>2. MachineExclusion'
  <2> SUFFICES ASSUME NEW d \in Clients, op'[d] \notin {"none", "spindle", "set_relay"}
               PROVE  mutex' = d
    BY DEF MachineExclusion
  <2>1. CASE d = c
    BY <2>1 DEF Types
  <2>2. CASE d # c
    <3>1. mutex = d
      BY <2>2 DEF MachineExclusion, Types
    <3> QED  BY <3>1, CNCAssumption DEF CNCAssumption
  <2> QED  BY <2>1, <2>2
<1>3. Resting'
  BY DEF Resting, Types
<1>4. Stopped'
  BY DEF Stopped, Types, Resting
<1>5. Reaching'
  BY DEF Reaching, Types
<1> QED  BY <1>1, <1>2, <1>3, <1>4, <1>5

LEMMA StartKeeps ==
  ASSUME IInv, NEW c \in Clients, Start(c)
  PROVE  IInv'
<1>1. CASE StartMove(c)
  <2>1. mutex = NoClient /\ mutex' = c
    BY <1>1 DEF StartMove, Acquire
  <2>2. PICK o \in {"moveto", "travel", "helix"}, s \in {"determine", "plan"} :
          \E p : Enter(c, o, s, p, <<>>)
    BY <1>1 DEF StartMove
  <2> QED  BY <2>1, <2>2, EnterKeeps DEF Ops, Moves
<1>2. CASE StartHoming(c)
  <2>1. mutex = NoClient /\ mutex' = c
    BY <1>2 DEF StartHoming, Acquire
  <2>2. PICK s \in {"enabled", "return"} : \E l : Enter(c, "homing", s, <<>>, l)
    BY <1>2 DEF StartHoming
  <2> QED  BY <2>1, <2>2, EnterKeeps DEF Ops
<1>3. CASE StartSwitch(c)
  BY <1>3, EnterKeeps DEF StartSwitch, Ops
<1>4. CASE StartPower(c)
  <2>1. mutex = NoClient /\ mutex' = c
    BY <1>4 DEF StartPower, Acquire
  <2>2. PICK o \in Powers : Enter(c, o, "power", <<>>, <<>>)
    BY <1>4 DEF StartPower
  <2> QED  BY <2>1, <2>2, EnterKeeps DEF Ops, Powers
<1> QED  BY <1>1, <1>2, <1>3, <1>4 DEF Start

(* The steps that neither pass a checkpoint nor send. *)
LEMMA QuietKeeps ==
  ASSUME IInv, NEW c \in Clients,
         \/ Power(c) \/ Determine(c) \/ Plan(c) \/ PlanFails(c) \/ IsEnabled(c)
         \/ Wait(c) \/ Sleep(c) \/ SendRefused(c) \/ SendFails(c) \/ Synchronize(c)
  PROVE  IInv'
<1> USE DEF Goto, Finish, EndCall, Stages, history, firm, bounds
<1>1. CASE Power(c)
  BY <1>1, InsideKeeps DEF Power
<1>2. CASE Determine(c)
  BY <1>2, InsideKeeps DEF Determine
<1>3. CASE Plan(c)
  <2>1. PICK l : script' = [script EXCEPT ![c] = l]
    BY <1>3 DEF Plan
  <2>2. PICK s \in {"sync", "return", "enabled"} : stage' = [stage EXCEPT ![c] = s]
    BY <1>3 DEF Plan, AfterLastLine
  <2>3. stage[c] = "plan" /\ UNCHANGED <<mutex, op, mode, ostage, late, missed>>
    BY <1>3 DEF Plan
  <2> QED  BY <2>1, <2>2, <2>3, InsideKeeps
<1>4. CASE PlanFails(c)
  BY <1>4, InsideKeeps DEF PlanFails
<1>5. CASE IsEnabled(c)
  BY <1>5, InsideKeeps DEF IsEnabled
<1>6. CASE SendRefused(c)
  BY <1>6, InsideKeeps DEF SendRefused, TryAgain
<1>7. CASE Synchronize(c)
  BY <1>7, InsideKeeps DEF Synchronize
<1>8. CASE Wait(c) \/ Sleep(c)
  BY <1>8, InsideKeeps DEF Wait, Sleep
<1>9. CASE SendFails(c)
  BY <1>9, InsideKeeps DEF SendFails
<1> QED  BY <1>1, <1>2, <1>3, <1>4, <1>5, <1>6, <1>7, <1>8, <1>9

(* The checkpoint: a command that a reset has reached does not pass it. *)
LEMMA CheckKeeps ==
  ASSUME IInv, NEW c \in Clients, Check(c)
  PROVE  IInv'
<1> USE DEF IInv, Check, Goto, history, firm, bounds
<1>1. Types'
  BY DEF Types, Stages
<1>2. MachineExclusion' /\ Resting'
  BY DEF MachineExclusion, Resting, Types
<1>3. Stopped'
  BY DEF Stopped, Types
<1>4. Reaching'
  BY DEF Reaching, Types
<1> QED  BY <1>1, <1>2, <1>3, <1>4

(* The others lose the reset. *)
LEMMA CancelKeeps ==
  ASSUME IInv, NEW c \in Clients, Cancel(c)
  PROVE  IInv'
<1> USE DEF IInv, Cancel, TakeResetFrom, Goto, Finish, firm, bounds
<1>1. Types'
  BY DEF Types, Stages
<1>2. MachineExclusion' /\ Resting'
  BY DEF MachineExclusion, Resting, Types
<1>3. \A d \in Clients : mode = "reset" /\ d # c => missed'[d] \/ op[d] = "none"
  BY DEF Types
<1>4. Stopped'
  <2> SUFFICES ASSUME NEW d \in Clients, late[d] >= 0, ~missed'[d]
               PROVE  late[d] <= 1 /\ stage'[d] = "return"
    BY DEF Stopped
  <2>1. op[d] # "none" /\ ~missed[d]
    BY DEF Resting, Types
  <2>2. late[d] <= 1 /\ (stage[d] = "return" \/ mode = "reset")
    BY <2>1 DEF Stopped
  <2> QED  BY <1>3, <2>1, <2>2 DEF Types, Stages
<1>5. Reaching'
  <2> SUFFICES ASSUME ostage = "reset", NEW d \in Clients, ~missed'[d], stage[d] # "idle"
               PROVE  stage'[d] = "return"
    BY DEF Reaching, Types
  <2>1. op[d] # "none" /\ ~missed[d]
    BY DEF Resting, Types
  <2> QED  BY <1>3, <2>1 DEF Reaching, Types, Stages
<1> QED  BY <1>1, <1>2, <1>4, <1>5

(* A line that the firmware takes counts, whatever becomes of its answer. *)
LEMMA TakenKeeps ==
  ASSUME IInv, NEW c \in Clients, NEW s \in {"sync", "return", "enabled", "check"},
         stage[c] = "send",
         stage' = [stage EXCEPT ![c] = s],
         script' = script \/ \E l : script' = [script EXCEPT ![c] = l],
         late' = [late EXCEPT ![c] = IF @ < 0 THEN @ ELSE @ + 1],
         UNCHANGED <<mutex, op, mode, ostage, missed>>
  PROVE  IInv'
<1> USE DEF IInv
<1>1. Types'
  BY DEF Types, Stages
<1>2. MachineExclusion'
  BY DEF MachineExclusion
<1>3. Resting'
  BY DEF Resting, Types
<1>4. Stopped'
  BY DEF Stopped, Types
<1>5. Reaching'
  BY DEF Reaching, Types
<1> QED  BY <1>1, <1>2, <1>3, <1>4, <1>5

LEMMA SendLineKeeps ==
  ASSUME IInv, NEW c \in Clients, SendLine(c)
  PROVE  IInv'
<1>1. PICK s \in {"sync", "return", "enabled"} : stage' = [stage EXCEPT ![c] = s]
  BY DEF SendLine, AfterLastLine, Goto, Finish
<1>2. PICK l : script' = [script EXCEPT ![c] = l]
  BY DEF SendLine
<1> QED  BY <1>1, <1>2, TakenKeeps DEF SendLine

LEMMA SendUnansweredKeeps ==
  ASSUME IInv, NEW c \in Clients, SendUnanswered(c)
  PROVE  IInv'
<1>1. PICK s \in {"check", "return"} : stage' = [stage EXCEPT ![c] = s]
  BY DEF SendUnanswered, TryAgain, EndCall, Finish, Goto
<1>2. stage[c] = "send" /\ UNCHANGED <<mutex, op, mode, script, ostage, missed>>
  BY DEF SendUnanswered
<1>3. CASE UNCHANGED late
  BY <1>1, <1>2, <1>3, InsideKeeps DEF Stages
<1>4. CASE late' = [late EXCEPT ![c] = IF @ < 0 THEN @ ELSE @ + 1]
  BY <1>1, <1>2, <1>4, TakenKeeps
<1> QED  BY <1>3, <1>4 DEF SendUnanswered

LEMMA ReturnKeeps ==
  ASSUME IInv, NEW c \in Clients, Return(c)
  PROVE  IInv'
<1> USE DEF IInv, Return, Goto, firm, bounds
<1>1. Types'
  BY DEF Types, Stages, Ops
<1>2. MachineExclusion'
  BY DEF MachineExclusion, Types
<1>3. Resting'
  BY DEF Resting, Types
<1>4. Stopped'
  BY DEF Stopped, Types
<1>5. Reaching'
  BY DEF Reaching, Types
<1> QED  BY <1>1, <1>2, <1>3, <1>4, <1>5

-----------------------------------------------------------------------------
(* The operator *)

(* What a notification does: at most, one client that is asleep looks again. *)
Awakened ==
  \/ UNCHANGED stage
  \/ \E c \in Clients : stage[c] = "asleep" /\ stage' = [stage EXCEPT ![c] = "check"]

LEMMA NotifyAwakes == NotifyOne => Awakened
BY DEF NotifyOne, Awakened, Goto

(* The mode is overwritten: every command loses its reset. *)
LEMMA OverwriteKeeps ==
  ASSUME IInv, TakeResetFrom(Clients), mode' \in {"running", "paused"},
         ostage' \in {"idle", "continue"}, Awakened,
         UNCHANGED <<mutex, op, script, late>>
  PROVE  IInv'
<1> USE DEF IInv, TakeResetFrom, Awakened
<1>1. Types'
  BY DEF Types, Stages
<1>2. MachineExclusion' /\ Resting'
  BY DEF MachineExclusion, Resting, Types
<1>3. Stopped'
  <2> SUFFICES ASSUME NEW c \in Clients, late[c] >= 0, ~missed'[c]
               PROVE  late[c] <= 1 /\ stage'[c] = "return"
    BY DEF Stopped
  <2>1. op[c] # "none"
    BY DEF Resting
  <2>2. ~missed[c] /\ mode # "reset"
    BY <2>1
  <2>3. late[c] <= 1 /\ stage[c] = "return"
    BY <2>2 DEF Stopped
  <2> QED  BY <2>3 DEF Types
<1>4. Reaching'
  BY DEF Reaching
<1> QED  BY <1>1, <1>2, <1>3, <1>4

LEMMA ControlKeeps ==
  ASSUME IInv, Control
  PROVE  IInv'
<1>1. CASE ostage' = "continue" /\ mode' = "running" /\ TakeResetFrom(Clients)
  <2>1. Awakened /\ UNCHANGED <<mutex, op, script, late>>
    BY <1>1, NotifyAwakes DEF Control
  <2> QED  BY <1>1, <2>1, OverwriteKeeps
<1>2. CASE \/ ostage' = "pause" /\ UNCHANGED <<mode, missed>>
           \/ ostage' = "reset" /\ mode' = "reset" /\ UNCHANGED missed
  <2> USE <1>2 DEF IInv
  <2>1. UNCHANGED <<mutex, op, script, late>> /\ Awakened
    BY NotifyAwakes DEF Control, Awakened
  <2>2. Types'
    BY <2>1 DEF Types, Awakened, Stages
  <2>3. MachineExclusion' /\ Resting'
    BY <2>1 DEF MachineExclusion, Resting, Awakened, Types
  <2>4. Stopped'
    BY <2>1 DEF Stopped, Awakened, Types
  <2>5. Reaching'
    BY <2>1 DEF Reaching, Awakened, Types
  <2> QED  BY <2>2, <2>3, <2>4, <2>5
<1> QED  BY <1>1, <1>2 DEF Control

(* The firmware hears of the reset: every command that has lines left has   *)
(* been reached.                                                           *)
LEMMA ResetSendKeeps ==
  ASSUME IInv, ResetSend
  PROVE  IInv'
<1> USE DEF IInv, ResetSend, client, bounds
<1>1. Types'
  BY DEF Types
<1>2. MachineExclusion' /\ Resting'
  BY DEF MachineExclusion, Resting, Types
<1>3. Stopped'
  <2> SUFFICES ASSUME NEW c \in Clients, late'[c] >= 0, ~missed[c]
               PROVE  /\ late'[c] <= 1
                      /\ \/ stage[c] = "return"
                         \/ mode = "reset" /\ (late'[c] = 0 \/ stage[c] # "send")
    BY DEF Stopped
  <2>1. CASE late'[c] = late[c]
    BY <2>1 DEF Stopped
  <2>2. CASE late'[c] = 0 /\ script[c] # <<>>
    BY <2>2 DEF Reaching, Resting
  <2> QED  BY <2>1, <2>2
<1>4. Reaching'
  BY DEF Reaching
<1> QED  BY <1>1, <1>2, <1>3, <1>4

(* Nothing of all this changes. *)
LEMMA StutterKeeps ==
  ASSUME IInv, UNCHANGED <<mutex, mode, op, stage, script, late, missed>>,
         ostage' \in {ostage, "idle"}
  PROVE  IInv'
<1> USE DEF IInv
<1>1. Types' /\ MachineExclusion' /\ Resting'
  BY DEF Types, MachineExclusion, Resting
<1>2. Stopped' /\ Reaching'
  BY DEF Stopped, Reaching
<1> QED  BY <1>1, <1>2

LEMMA Inductive == IInv /\ [Next]_vars => IInv'
<1> SUFFICES ASSUME IInv, [Next]_vars PROVE IInv'
  OBVIOUS
<1>1. ASSUME NEW c \in Clients, Start(c) \/ Step(c)
      PROVE  IInv'
  BY <1>1, StartKeeps, QuietKeeps, CheckKeeps, CancelKeeps, SendLineKeeps,
     SendUnansweredKeeps, ReturnKeeps
  DEF Step
<1>2. CASE Control
  BY <1>2, ControlKeeps
<1>3. CASE PauseStore
  BY <1>3, OverwriteKeeps DEF PauseStore, Awakened, client
<1>4. CASE ContinueSend
  BY <1>4, StutterKeeps DEF ContinueSend, client, history
<1>5. CASE ResetSend
  BY <1>5, ResetSendKeeps
<1>6. CASE Execute
  BY <1>6, StutterKeeps DEF Execute, client, history
<1>7. CASE UNCHANGED vars
  BY <1>7, StutterKeeps DEF vars, client, history
<1> QED  BY <1>1, <1>2, <1>3, <1>4, <1>5, <1>6, <1>7 DEF Next

THEOREM Invariance == Spec => []IInv
BY Initially, Inductive, PTL DEF Spec

(* Whatever the clients ask for, one move, homing or power command is in   *)
(* the machine at a time (the synchronized blocks of CNC.cpp).             *)
THEOREM Exclusion == Spec => []MachineExclusion
<1>1. IInv => MachineExclusion
  BY DEF IInv
<1> QED  BY <1>1, Invariance, PTL

(* However long the script: at most one line follows a reset that is not   *)
(* missed (reset_activity, send_command).                                  *)
THEOREM OneLateLine == Spec => []AtMostOneLateLine
<1>1. IInv => AtMostOneLateLine
  BY DEF IInv, Types, Stopped, AtMostOneLateLine
<1> QED  BY <1>1, Invariance, PTL

-----------------------------------------------------------------------------
(* Sums of lines, and the blocks of a path *)

(* f holds the sums of the first lines of s. *)
SumUpTo(s, f) ==
  /\ f \in [0 .. Len(s) -> Int]
  /\ f[0] = 0
  /\ \A i \in 1 .. Len(s) : f[i] = f[i - 1] + s[i][2]

LEMMA SumIsLast ==
  ASSUME NEW s \in Seq(Lines)
  PROVE  \E f : SumUpTo(s, f) /\ Sum(s) = f[Len(s)]
<1> DEFINE N == Len(s)
           G == [i \in 1 .. N |-> [x \in Int |-> x + s[i][2]]]
           f == CHOOSE f : f = [i \in 0 .. N |-> IF i = 0 THEN 0 ELSE f[i - 1] + s[i][2]]
<1>1. \A i \in 1 .. N : s[i][2] \in Int
  BY DEF Lines
<1>2. G \in Rules(N, Int) /\ N \in Nat /\ 0 \in Int
  BY <1>1 DEF Rules
<1>3. PICK h : Follows(h, N, 0, G)
  <2> HIDE DEF G, N
  <2> QED  BY <1>2, Recursion, Zenon
<1>4. \A i \in 0 .. N : h[i] \in Int
  <2> HIDE DEF G, N
  <2> QED  BY <1>2, <1>3, RecursionType, Zenon
<1>5. h = [i \in 0 .. N |-> IF i = 0 THEN 0 ELSE h[i - 1] + s[i][2]]
  <2>1. \A i \in 1 .. N : h[i - 1] \in Int
    BY <1>4
  <2> QED  BY <1>3, <2>1 DEF Follows
<1>6. f = [i \in 0 .. N |-> IF i = 0 THEN 0 ELSE f[i - 1] + s[i][2]]
  BY <1>5
<1> HIDE DEF f
<1>7. \A i \in 0 .. N : f[i] \in Int
  <2> DEFINE T == {n \in 0 .. N : f[n] \in Int}
  <2>1. 0 \in T
    BY <1>6
  <2>2. \A n \in 0 .. N : n \in T /\ n < N => n + 1 \in T
    BY <1>1, <1>6
  <2> HIDE DEF T
  <2>3. \A n \in 0 .. N : n \in T
    BY <2>1, <2>2, Climb
  <2> QED  BY <2>3 DEF T
<1>8. SumUpTo(s, f)
  <2>1. f \in [0 .. N -> Int]
    BY <1>6, <1>7
  <2>2. f[0] = 0 /\ \A i \in 1 .. N : f[i] = f[i - 1] + s[i][2]
    BY <1>6
  <2> QED  BY <2>1, <2>2 DEF SumUpTo
<1>9. Sum(s) = f[N]
  BY DEF Sum, f
<1> QED  BY <1>8, <1>9

LEMMA SumType == \A s \in Seq(Lines) : Sum(s) \in Int
BY SumIsLast DEF SumUpTo

LEMMA SumEmpty == Sum(<<>>) = 0
<1>1. <<>> \in Seq(Lines) /\ Len(<<>>) = 0
  OBVIOUS
<1> QED  BY <1>1, SumIsLast DEF SumUpTo

LEMMA SumAppend ==
  ASSUME NEW s \in Seq(Lines), NEW l \in Lines
  PROVE  Sum(Append(s, l)) = Sum(s) + l[2]
<1> DEFINE N == Len(s)  t == Append(s, l)
<1>1. /\ N \in Nat /\ t \in Seq(Lines) /\ Len(t) = N + 1 /\ t[N + 1] = l
      /\ \A i \in 1 .. N : t[i] = s[i]
  OBVIOUS
<1>2. PICK f : SumUpTo(s, f) /\ Sum(s) = f[N]
  BY SumIsLast
<1>3. PICK g : SumUpTo(t, g) /\ Sum(t) = g[Len(t)]
  BY <1>1, SumIsLast
<1> HIDE DEF t
<1> DEFINE T == {n \in 0 .. N : g[n] = f[n]}
<1>4. 0 \in T
  BY <1>2, <1>3 DEF SumUpTo
<1>5. ASSUME NEW n \in 0 .. N, n \in T, n < N
      PROVE  n + 1 \in T
  <2>1. n + 1 \in 1 .. N /\ n + 1 \in 1 .. N + 1 /\ (n + 1) - 1 = n
    BY <1>5
  <2>2. f[n + 1] = f[n] + s[n + 1][2]
    BY <1>2, <2>1 DEF SumUpTo
  <2>3. g[n + 1] = g[n] + t[n + 1][2]
    BY <1>1, <1>3, <2>1 DEF SumUpTo
  <2> QED  BY <1>1, <1>5, <2>1, <2>2, <2>3
<1> HIDE DEF T
<1>6. N \in T
  <2>1. N \in 0 .. N
    BY <1>1
  <2> QED  BY <1>1, <1>4, <1>5, <2>1, Climb
<1>7. g[N + 1] = g[N] + l[2]
  <2>1. N + 1 \in 1 .. Len(t) /\ (N + 1) - 1 = N
    BY <1>1
  <2> QED  BY <1>1, <1>3, <2>1 DEF SumUpTo
<1> QED  BY <1>1, <1>2, <1>3, <1>6, <1>7 DEF T, t

LEMMA SumTail ==
  ASSUME NEW s \in Seq(Lines), s # <<>>
  PROVE  Sum(Tail(s)) = Sum(s) - Head(s)[2]
<1> DEFINE N == Len(s)  t == Tail(s)
<1>1. /\ N \in Nat \ {0} /\ t \in Seq(Lines) /\ Len(t) = N - 1 /\ Head(s) = s[1]
      /\ \A i \in 1 .. N - 1 : t[i] = s[i + 1]
  OBVIOUS
<1>2. PICK f : SumUpTo(s, f) /\ Sum(s) = f[N]
  BY SumIsLast
<1>3. PICK g : SumUpTo(t, g) /\ Sum(t) = g[Len(t)]
  BY <1>1, SumIsLast
<1> HIDE DEF t
<1> DEFINE T == {n \in 0 .. N - 1 : g[n] = f[n + 1] - s[1][2]}
<1>4. 0 \in T
  <2>2. 1 \in 1 .. N /\ 1 - 1 = 0
    BY <1>1
  <2>3. f[1] = f[0] + s[1][2] /\ f[0] = 0
    BY <1>2, <2>2 DEF SumUpTo
  <2>4. s[1][2] \in Int
    BY <1>1 DEF Lines
  <2>1. f[1] = 0 + s[1][2] /\ f[1] \in Int /\ s[1][2] \in Int
    BY <2>3, <2>4
  <2> QED  BY <1>1, <1>3, <2>1 DEF SumUpTo
<1>5. ASSUME NEW n \in 0 .. N - 1, n \in T, n < N - 1
      PROVE  n + 1 \in T
  <2>1. n + 1 \in 1 .. N - 1 /\ n + 2 \in 1 .. N /\ (n + 1) - 1 = n /\ (n + 2) - 1 = n + 1
        /\ n + 1 \in 0 .. N /\ (n + 1) + 1 = n + 2
    BY <1>1, <1>5
  <2>2. f[n + 2] = f[n + 1] + s[n + 2][2]
    BY <1>2, <2>1 DEF SumUpTo
  <2>3. g[n + 1] = g[n] + t[n + 1][2]
    BY <1>1, <1>3, <2>1 DEF SumUpTo
  <2>4. t[n + 1] = s[n + 2]
    BY <1>1, <2>1
  <2>5. f[n + 1] \in Int /\ s[1][2] \in Int /\ s[n + 2][2] \in Int
    <3>1. f[n + 1] \in Int
      BY <1>2, <2>1 DEF SumUpTo
    <3>2. 1 \in 1 .. N /\ \A i \in 1 .. N : s[i] \in Lines
      BY <1>1
    <3> QED  BY <3>1, <3>2, <2>1 DEF Lines
  <2> QED  BY <1>5, <2>1, <2>2, <2>3, <2>4, <2>5
<1> HIDE DEF T
<1>6. N - 1 \in T
  <2>1. N - 1 \in Nat /\ N - 1 \in 0 .. N - 1
    BY <1>1
  <2> QED  BY <1>4, <1>5, <2>1, Climb
<1>7. g[N - 1] = f[N] - s[1][2]
  BY <1>1, <1>6 DEF T
<1> QED  BY <1>1, <1>2, <1>3, <1>7 DEF t

(* Move lines only. *)
MoveLines == {"M"} \X Int

(* The blocks of a path lead to its end, whatever the path: the zero        *)
(* displacements that are left out are no steps.                            *)
LEMMA BlocksLead ==
  ASSUME NEW start \in Int, NEW p \in Seq(Int)
  PROVE  /\ Blocks(start, p) \in Seq(MoveLines)
         /\ End(start, p) \in Int
         /\ Sum(Blocks(start, p)) = End(start, p) - start
<1> DEFINE N == Len(p)
           from(i) == IF i = 1 THEN start ELSE p[i - 1]
           at(i) == IF i = 0 THEN start ELSE p[i]
           S == Seq(MoveLines)
           G == [i \in 1 .. N |->
                  [b \in S |-> IF p[i] = from(i) THEN b ELSE Append(b, Move(p[i] - from(i)))]]
           f == CHOOSE f : f = [i \in 0 .. N |->
                  IF i = 0 THEN <<>>
                  ELSE IF p[i] = from(i) THEN f[i - 1]
                  ELSE Append(f[i - 1], Move(p[i] - from(i)))]
<1>1. \A i \in 1 .. N : p[i] \in Int /\ from(i) \in Int /\ Move(p[i] - from(i)) \in MoveLines
  BY DEF Move, MoveLines
<1>2. G \in Rules(N, S) /\ N \in Nat /\ <<>> \in S
  BY <1>1 DEF Rules
<1>3. PICK h : Follows(h, N, <<>>, G)
  <2> HIDE DEF G, N, S
  <2> QED  BY <1>2, Recursion, Zenon
<1>4. \A i \in 0 .. N : h[i] \in S
  <2> HIDE DEF G, N, S
  <2> QED  BY <1>2, <1>3, RecursionType, Zenon
<1> HIDE DEF from
<1>5. h = [i \in 0 .. N |->
             IF i = 0 THEN <<>>
             ELSE IF p[i] = from(i) THEN h[i - 1]
             ELSE Append(h[i - 1], Move(p[i] - from(i)))]
  <2>1. h = [i \in 0 .. N |-> h[i]] /\ h[0] = <<>>
    BY <1>3 DEF Follows
  <2>2. ASSUME NEW i \in 1 .. N
        PROVE  h[i] = IF p[i] = from(i) THEN h[i - 1]
                      ELSE Append(h[i - 1], Move(p[i] - from(i)))
    <3>1. h[i] = G[i][h[i - 1]]
      BY <1>3 DEF Follows
    <3>2. h[i - 1] \in S
      BY <1>4
    <3> HIDE DEF S
    <3> QED  BY <3>1, <3>2
  <2>3. \A i \in 0 .. N : i # 0 => i \in 1 .. N
    OBVIOUS
  <2> HIDE DEF S, G, N
  <2> QED  BY <2>1, <2>2, <2>3
<1>6. f = [i \in 0 .. N |->
             IF i = 0 THEN <<>>
             ELSE IF p[i] = from(i) THEN f[i - 1]
             ELSE Append(f[i - 1], Move(p[i] - from(i)))]
  BY <1>5
<1>7. Blocks(start, p) = f[N]
  BY DEF Blocks, from
<1> HIDE DEF f
<1> DEFINE T == {n \in 0 .. N : f[n] \in S /\ Sum(f[n]) = at(n) - start}
<1>8. 0 \in T
  BY <1>6, SumEmpty
<1>9. ASSUME NEW n \in 0 .. N, n \in T, n < N
      PROVE  n + 1 \in T
  <2>1. n + 1 \in 1 .. N /\ n + 1 \in 0 .. N /\ (n + 1) - 1 = n /\ n + 1 # 0
    BY <1>9
  <2>2. from(n + 1) = at(n) /\ at(n + 1) = p[n + 1]
    BY <2>1 DEF from
  <2>3. p[n + 1] \in Int /\ at(n) \in Int
    BY <1>1, <2>1, <2>2
  <2>4. f[n] \in S /\ Sum(f[n]) = at(n) - start
    BY <1>9
  <2>5. CASE p[n + 1] = from(n + 1)
    <3>1. f[n + 1] = f[n]
      BY <1>6, <2>1, <2>5
    <3> QED  BY <3>1, <2>1, <2>2, <2>4, <2>5
  <2>6. CASE p[n + 1] # from(n + 1)
    <3> DEFINE l == Move(p[n + 1] - from(n + 1))
    <3>1. f[n + 1] = Append(f[n], l)
      BY <1>6, <2>1, <2>6
    <3>2. l \in MoveLines /\ l \in Lines /\ l[2] = p[n + 1] - at(n)
      BY <1>1, <2>1, <2>2 DEF Move, Lines, MoveLines
    <3>3. f[n] \in Seq(Lines)
      BY <2>4 DEF Lines, MoveLines
    <3> HIDE DEF l
    <3>4. Sum(f[n + 1]) = Sum(f[n]) + l[2]
      BY <3>1, <3>2, <3>3, SumAppend
    <3>5. f[n + 1] \in S
      BY <3>1, <3>2, <2>4
    <3> QED  BY <3>2, <3>4, <3>5, <2>1, <2>2, <2>3, <2>4
  <2> QED  BY <2>5, <2>6
<1>10. N \in T
  <2> HIDE DEF T
  <2>1. N \in 0 .. N /\ N \in Nat
    BY <1>2
  <2> QED  BY <1>8, <1>9, <2>1, Climb
<1>11. End(start, p) = at(N) /\ at(N) \in Int
  BY DEF End
<1> QED  BY <1>7, <1>10, <1>11

-----------------------------------------------------------------------------
(* Where the steps of a script are *)

AllSwitch(q) == \A i \in DOMAIN q : q[i] = Switch

StagesFit ==
  \A c \in Clients :
    /\ stage[c] \in {"determine", "plan"} => op[c] \in Moves
    /\ stage[c] = "power" => op[c] \in Powers
    /\ op[c] \in Powers => stage[c] \in {"power", "return"}

(* A command only holds lines of its own kind, and has one to send when it  *)
(* is about to send.                                                        *)
ScriptsFit ==
  \A c \in Clients :
    /\ stage[c] \in Sending => script[c] # <<>>
    /\ stage[c] = "sync" => script[c] = <<>>
    /\ op[c] \in Moves => script[c] \in Seq(MoveLines)
    /\ op[c] = "homing" => script[c] \in {<<>>, <<Home>>}
    /\ op[c] \in {"spindle", "set_relay"} => script[c] \in {<<>>, <<Switch>>}

(* While something may move the machine, the next homing is not skipped. *)
Dirty ==
  \A c \in Clients :
    op[c] \in Moves \/ (op[c] = "homing" /\ stage[c] # "return") => positionChanged

(* The steps of a clean move, and no homing in between (StepsAddUp). *)
MoveAddsUp(c) ==
  (/\ op[c] \in Moves /\ clean[c]
   /\ stage[c] \in Sending \cup {"sync"})
    => /\ \A i \in DOMAIN queue : queue[i] # Home
       /\ pos + Sum(queue) + Sum(script[c]) = goal[c] + doubled[c]

(* A clean move that returned true leaves nothing behind that moves. *)
MoveIsDone(c) ==
  (/\ stage[c] = "return" /\ result[c] = "ok"
   /\ op[c] \in Moves /\ clean[c])
    => pos = goal[c] + doubled[c] /\ AllSwitch(queue)

(* A command starts with no line sent twice. *)
DoubledFits ==
  \A c \in Clients : stage[c] \in {"idle", "determine", "plan"} => doubled[c] = 0

(* The machine is in its home position, or goes there last. *)
Homeward ==
  \/ pos = 0 /\ AllSwitch(queue)
  \/ \E i \in DOMAIN queue :
       queue[i] = Home /\ \A j \in DOMAIN queue : j > i => queue[j] = Switch

HomingLast(c) ==
  op[c] = "homing" /\ stage[c] = "sync" /\ clean[c] => Homeward

Accounted(c) == MoveAddsUp(c) /\ MoveIsDone(c) /\ HomingLast(c)

StepTypes == TypeOK /\ clean \in [Clients -> BOOLEAN]
Shapes    == StagesFit /\ ScriptsFit /\ Dirty /\ DoubledFits
Machine   == (\A c \in Clients : Accounted(c)) /\ HomeIsKnown

SInv == StepTypes /\ Shapes /\ Machine

LEMMA LineTypes ==
  Home \in Lines /\ Switch \in Lines /\ Home # Switch /\ Switch[2] = 0
BY DEF Home, Switch, Lines

LEMMA Constants ==
  /\ QueueSize \in Nat \ {0} /\ MaxTries \in Nat \ {0}
  /\ Points \subseteq Int /\ InRange \subseteq Int
  /\ Paths \subseteq Seq(Int)
  /\ <<>> \in Seq(Int) /\ <<>> \in Seq(Lines)
  /\ <<Home>> \in Seq(Lines) /\ <<Switch>> \in Seq(Lines)
<1>1. Paths \subseteq Seq(Int)
  <2> SUFFICES ASSUME NEW p \in Paths PROVE p \in Seq(Int)
    OBVIOUS
  <2>1. p \in Seq(Points) /\ Points \subseteq Int
    BY CNCAssumption DEF CNCAssumption
  <2>2. p = [i \in 1 .. Len(p) |-> p[i]] /\ Len(p) \in Nat /\ \A i \in 1 .. Len(p) : p[i] \in Int
    BY <2>1
  <2> QED  BY <2>2
<1> QED  BY <1>1, LineTypes, CNCAssumption DEF CNCAssumption

LEMMA StepsInitially == Init => SInv
<1> SUFFICES ASSUME Init PROVE SInv
  OBVIOUS
<1> USE CNCAssumption DEF Init, CNCAssumption
<1>1. StepTypes
  <2>1. /\ path \in [Clients -> Seq(Int)] /\ script \in [Clients -> Seq(Lines)]
        /\ tries \in [Clients -> 0 .. MaxTries] /\ queue \in Seq(Lines) /\ Len(queue) <= QueueSize
        /\ goal \in [Clients -> Int] /\ pos \in Int
    BY Constants
  <2> QED  BY <2>1 DEF StepTypes, TypeOK, Ops, Stages
<1>2. Shapes
  BY DEF Shapes, StagesFit, ScriptsFit, Dirty, Moves, Powers, DoubledFits, Sending
<1>3. Machine
  BY DEF Machine, Accounted, MoveAddsUp, MoveIsDone, HomingLast, HomeIsKnown, Moves
<1> QED  BY <1>1, <1>2, <1>3 DEF SInv

(* The types, one step at a time. *)
LEMMA EnterTypes ==
  ASSUME StepTypes, NEW c \in Clients, NEW o \in Ops, NEW s \in Stages,
         NEW p \in Seq(Int), NEW l \in Seq(Lines), Enter(c, o, s, p, l),
         mutex' \in {mutex, c}, positionChanged' \in BOOLEAN
  PROVE  StepTypes'
BY DEF StepTypes, TypeOK, Enter, Goto, firm

LEMMA StartTypes ==
  ASSUME SInv, NEW c \in Clients, Start(c)
  PROVE  StepTypes'
<1> USE Constants, EnterTypes DEF SInv, Acquire, Ops, Stages
<1>0. positionChanged \in BOOLEAN
  BY DEF StepTypes, TypeOK
<1>1. CASE StartMove(c)
  <2>1. PICK o \in Moves, s \in {"determine", "plan"}, p \in Seq(Int) : Enter(c, o, s, p, <<>>)
    <3>1. \A x \in Points : <<x>> \in Seq(Int)
      OBVIOUS
    <3> QED  BY <1>1, <3>1 DEF StartMove, Moves
  <2> QED  BY <1>1, <2>1 DEF StartMove
<1>2. CASE StartHoming(c)
  BY <1>0, <1>2 DEF StartHoming
<1>3. CASE StartSwitch(c)
  BY <1>0, <1>3 DEF StartSwitch
<1>4. CASE StartPower(c)
  BY <1>0, <1>4 DEF StartPower, Powers
<1> QED  BY <1>1, <1>2, <1>3, <1>4 DEF Start

LEMMA StepKeepsTypes ==
  ASSUME SInv, NEW c \in Clients, Step(c)
  PROVE  StepTypes'
<1> USE CNCAssumption
    DEF SInv, StepTypes, TypeOK, CNCAssumption, Goto, Finish, EndCall, firm, history, bounds,
        Ops, Stages
<1>1. CASE Power(c)
  BY <1>1, ZenonT(40) DEF Power
<1>2. CASE Determine(c)
  <2>1. <<pos>> \in Seq(Int)
    OBVIOUS
  <2>2. path' \in [Clients -> Seq(Int)]
    BY <1>2, <2>1 DEF Determine
  <2> QED  BY <1>2, <2>2, ZenonT(40) DEF Determine
<1>3. CASE Plan(c)
  <2>1. Blocks(pos, path[c]) \in Seq(Lines) /\ End(pos, path[c]) \in Int
    <3>1. pos \in Int /\ path[c] \in Seq(Int)
      OBVIOUS
    <3>2. Blocks(pos, path[c]) \in Seq(MoveLines) /\ End(pos, path[c]) \in Int
      BY <3>1, BlocksLead
    <3>3. MoveLines \subseteq Lines
      BY DEF MoveLines, Lines
    <3> QED  BY <3>2, <3>3
  <2>2. script' \in [Clients -> Seq(Lines)] /\ goal' \in [Clients -> Int]
    BY <1>3, <2>1 DEF Plan
  <2>3. path' \in [Clients -> Seq(Int)]
    BY <1>3, Constants DEF Plan
  <2>4. clean' \in [Clients -> BOOLEAN]
    BY <1>3 DEF Plan
  <2>5. /\ stage' \in [Clients -> Stages]
        /\ result' \in [Clients -> {"none", "sent", "ok", "failed", "cancelled"}]
    BY <1>3 DEF Plan, AfterLastLine
  <2> QED  BY <1>3, <2>2, <2>3, <2>4, <2>5 DEF Plan
<1>4. CASE PlanFails(c)
  BY <1>4 DEF PlanFails
<1>5. CASE IsEnabled(c)
  BY <1>5, ZenonT(40) DEF IsEnabled
<1>6. CASE Check(c)
  BY <1>6 DEF Check
<1>7. CASE Cancel(c)
  BY <1>7 DEF Cancel
<1>8. CASE SendLine(c)
  <2>1. script[c] \in Seq(Lines) /\ script[c] # <<>>
    BY <1>8 DEF SendLine, Shapes, ScriptsFit, Sending
  <2>2. Head(script[c]) \in Lines /\ Tail(script[c]) \in Seq(Lines)
    BY <2>1
  <2>3. queue' \in Seq(Lines) /\ Len(queue') <= QueueSize
    BY <1>8, <2>2 DEF SendLine
  <2>4. script' \in [Clients -> Seq(Lines)]
    BY <1>8, <2>2 DEF SendLine
  <2>5. /\ stage' \in [Clients -> Stages]
        /\ result' \in [Clients -> {"none", "sent", "ok", "failed", "cancelled"}]
    BY <1>8 DEF SendLine, AfterLastLine
  <2>6. tries' \in [Clients -> 0 .. MaxTries]
    BY <1>8, Constants DEF SendLine
  <2> QED  BY <1>8, <2>3, <2>4, <2>5, <2>6 DEF SendLine
<1>9. CASE SendRefused(c) \/ SendUnanswered(c)
  <2>1. tries[c] + 1 < MaxTries => tries[c] + 1 \in 0 .. MaxTries
    BY Constants, SMTT(20)
  <2>2. \/ UNCHANGED tries
        \/ tries[c] + 1 < MaxTries /\ tries' = [tries EXCEPT ![c] = tries[c] + 1]
    BY <1>9 DEF SendRefused, SendUnanswered, TryAgain
  <2>3. tries' \in [Clients -> 0 .. MaxTries]
    BY <2>1, <2>2
  <2>4. /\ stage' \in [Clients -> Stages]
        /\ result' \in [Clients -> {"none", "sent", "ok", "failed", "cancelled"}]
        /\ positionChanged' \in BOOLEAN /\ homed' \in BOOLEAN
    BY <1>9, ZenonT(40) DEF SendRefused, SendUnanswered, TryAgain
  <2>5. queue' \in Seq(Lines) /\ Len(queue') <= QueueSize /\ doubled' \in [Clients -> Int]
    <3>1. CASE UNCHANGED <<queue, doubled>>
      BY <3>1
    <3>2. CASE SendUnanswered(c) /\ queue' = Append(queue, Head(script[c]))
      <4>1. script[c] \in Seq(Lines) /\ script[c] # <<>>
        BY <3>2 DEF SendUnanswered, Shapes, ScriptsFit, Sending
      <4>2. Head(script[c]) \in Lines /\ Head(script[c])[2] \in Int
        BY <4>1, SMTT(20) DEF Lines
      <4>3. \/ Len(queue) < QueueSize
               /\ doubled' = [doubled EXCEPT ![c] = @ + Head(script[c])[2]]
            \/ UNCHANGED <<queue, doubled>>
        BY <3>2 DEF SendUnanswered
      <4>4. Len(queue) < QueueSize => queue' \in Seq(Lines) /\ Len(queue') <= QueueSize
        BY <3>2, <4>2
      <4>5. CASE Len(queue) < QueueSize /\ doubled' = [doubled EXCEPT ![c] = @ + Head(script[c])[2]]
        <5> DEFINE v == doubled[c] + Head(script[c])[2]
        <5>2. v \in Int /\ doubled \in [Clients -> Int]
          BY <4>2, SMTT(20)
        <5>3. doubled' = [doubled EXCEPT ![c] = v]
          BY <4>5
        <5> HIDE DEF v
        <5>1. doubled' \in [Clients -> Int]
          BY <5>2, <5>3
        <5> QED  BY <4>4, <4>5, <5>1
      <4> QED  BY <4>3, <4>5
    <3> QED  BY <1>9, <3>1, <3>2 DEF SendRefused, SendUnanswered
  <2>6. UNCHANGED <<mutex, mode, op, path, script, goal, pos, paused, enabled, ostage, clean,
                    overlooked>>
    BY <1>9 DEF SendRefused, SendUnanswered
  <2> QED  BY <2>3, <2>4, <2>5, <2>6
<1>10. CASE Synchronize(c)
  BY <1>10, ZenonT(40) DEF Synchronize
<1>11. CASE Return(c)
  BY <1>11 DEF Return
<1>12. CASE Wait(c) \/ Sleep(c)
  <2>1. CASE Wait(c)
    BY <2>1 DEF Wait
  <2>2. CASE Sleep(c)
    BY <2>2 DEF Sleep
  <2> QED  BY <1>12, <2>1, <2>2
<1>13. CASE SendFails(c)
  BY <1>13, ZenonT(40) DEF SendFails
<1> QED
  BY <1>1, <1>2, <1>3, <1>4, <1>5, <1>6, <1>7, <1>8, <1>9, <1>10, <1>11, <1>12, <1>13
  DEF Step

LEMMA OtherTypes ==
  ASSUME SInv, Control \/ PauseStore \/ ContinueSend \/ ResetSend \/ Execute \/ UNCHANGED vars
  PROVE  StepTypes'
<1> USE DEF SInv, StepTypes, TypeOK, client, firm, history, bounds
<1>1. CASE Control
  <2>1. stage' \in [Clients -> Stages] /\ overlooked' \in [Clients -> BOOLEAN]
    <3>1. CASE UNCHANGED <<stage, overlooked>>
      BY <3>1
    <3>2. CASE NotifyOne
      <4>1. stage' \in [Clients -> Stages]
        BY <3>2, NotifyAwakes DEF Awakened, Stages
      <4>2. overlooked' \in [Clients -> BOOLEAN]
        BY <3>2, Zenon DEF NotifyOne
      <4> QED  BY <4>1, <4>2
    <3> QED  BY <1>1, <3>1, <3>2 DEF Control
  <2> QED  BY <1>1, <2>1 DEF Control
<1>2. CASE PauseStore
  BY <1>2 DEF PauseStore
<1>3. CASE ContinueSend
  BY <1>3 DEF ContinueSend
<1>4. CASE ResetSend
  <2>1. queue' \in Seq(Lines) /\ Len(queue') <= QueueSize
    <3>1. Len(<<>>) = 0 /\ QueueSize \in Nat /\ <<>> \in Seq(Lines)
      BY Constants
    <3>2. queue' = <<>> \/ queue' = queue
      BY <1>4 DEF ResetSend
    <3>3. CASE queue' = <<>>
      <4>1. Len(queue') = 0
        BY <3>1, <3>3
      <4> QED  BY <3>1, <3>3, <4>1
    <3> QED  BY <3>2, <3>3
  <2>2. clean' \in [Clients -> BOOLEAN] /\ paused' \in BOOLEAN
    BY <1>4 DEF ResetSend
  <2> QED  BY <1>4, <2>1, <2>2 DEF ResetSend
<1>5. CASE Execute
  <2>1. /\ queue' \in Seq(Lines) /\ Len(queue') <= QueueSize /\ Head(queue)[2] \in Int
    BY <1>5, CNCAssumption, SMTT(20) DEF Execute, Lines
  <2> QED  BY <1>5, <2>1 DEF Execute
<1>6. CASE UNCHANGED vars
  BY <1>6 DEF vars
<1> QED  BY <1>1, <1>2, <1>3, <1>4, <1>5, <1>6

-----------------------------------------------------------------------------
(* The shapes of the commands *)

LEMMA EnterShapes ==
  ASSUME IInv, SInv, NEW c \in Clients, NEW o \in Ops, NEW s, NEW p, NEW l,
         Enter(c, o, s, p, l),
         \/ o \in Moves /\ s \in {"determine", "plan"} /\ l = <<>> /\ positionChanged' = TRUE
         \/ /\ o = "homing" /\ UNCHANGED positionChanged
            /\ \/ s = "enabled" /\ l = <<Home>> /\ positionChanged
               \/ s = "return" /\ l = <<>>
         \/ /\ o \in {"spindle", "set_relay"} /\ s = "check" /\ l = <<Switch>>
            /\ positionChanged' \in {TRUE, positionChanged}
         \/ o \in Powers /\ s = "power" /\ l = <<>> /\ UNCHANGED positionChanged
  PROVE  Shapes'
<1> USE DEF SInv, StepTypes, TypeOK, Shapes, Enter, Goto
<1>0. <<>> \in Seq(MoveLines)
  OBVIOUS
<1>1. StagesFit'
  BY DEF StagesFit, Moves, Powers
<1>2. ScriptsFit'
  <2> SUFFICES ASSUME NEW d \in Clients
               PROVE  /\ stage'[d] \in Sending => script'[d] # <<>>
                      /\ stage'[d] = "sync" => script'[d] = <<>>
                      /\ op'[d] \in Moves => script'[d] \in Seq(MoveLines)
                      /\ op'[d] = "homing" => script'[d] \in {<<>>, <<Home>>}
                      /\ op'[d] \in {"spindle", "set_relay"} => script'[d] \in {<<>>, <<Switch>>}
    BY DEF ScriptsFit
  <2>1. CASE d = c
    <3>1. op'[d] = o /\ script'[d] = l /\ stage'[d] = s
      BY <2>1
    <3>2. <<Home>> # <<>> /\ <<Switch>> # <<>>
      OBVIOUS
    <3> QED  BY <3>1, <3>2, <1>0 DEF Moves, Powers, Sending
  <2>2. CASE d # c
    BY <2>2 DEF ScriptsFit
  <2> QED  BY <2>1, <2>2
<1>3. Dirty'
  BY DEF Dirty, Moves, Powers
<1>4. DoubledFits'
  BY DEF DoubledFits
<1> QED  BY <1>1, <1>2, <1>3, <1>4

LEMMA StartShapes ==
  ASSUME IInv, SInv, NEW c \in Clients, Start(c)
  PROVE  Shapes'
<1> USE EnterShapes DEF Ops, Moves, Powers
<1>1. CASE StartMove(c)
  BY <1>1 DEF StartMove
<1>2. CASE StartHoming(c)
  BY <1>2 DEF StartHoming
<1>3. CASE StartSwitch(c)
  BY <1>3 DEF StartSwitch
<1>4. CASE StartPower(c)
  BY <1>4 DEF StartPower
<1> QED  BY <1>1, <1>2, <1>3, <1>4 DEF Start

(* The end of a homing hides nothing: nobody else is moving the machine. *)
LEMMA EndCallShapes ==
  ASSUME IInv, SInv, NEW c \in Clients, NEW r, EndCall(c, r), stage[c] # "return",
         stage[c] \notin {"idle", "determine", "plan", "power"},
         UNCHANGED <<op, script>>,
         doubled' = doubled \/ \E k : doubled' = [doubled EXCEPT ![c] = k]
  PROVE  Shapes'
<1> USE DEF SInv, StepTypes, TypeOK, Shapes, EndCall, Finish, Goto
<1>1. StagesFit' /\ ScriptsFit' /\ DoubledFits'
  BY DEF StagesFit, ScriptsFit, DoubledFits, Sending
<1>2. Dirty'
  <2>1. CASE op[c] # "homing"
    BY <2>1 DEF Dirty
  <2>2. CASE op[c] = "homing"
    <3>1. ASSUME NEW d \in Clients, op[d] \in Moves \/ op[d] = "homing"
          PROVE  d = c
      BY <2>2, <3>1 DEF IInv, MachineExclusion, Moves
    <3> QED  BY <2>2, <3>1 DEF Dirty, Moves
  <2> QED  BY <2>1, <2>2
<1> QED  BY <1>1, <1>2

LEMMA StepKeepsShapes ==
  ASSUME IInv, SInv, NEW c \in Clients, Step(c)
  PROVE  Shapes'
<1> USE DEF SInv, Shapes, StepTypes, TypeOK
<1>1. CASE \/ Power(c) \/ Determine(c) \/ PlanFails(c) \/ IsEnabled(c)
           \/ Check(c) \/ Wait(c) \/ Sleep(c) \/ Cancel(c)
  <2>1. /\ UNCHANGED <<op, script, positionChanged, doubled>>
        /\ stage[c] \in Stages \ {"return"}
        /\ \E s \in {"plan", "check", "wait", "asleep", "send", "cancel", "return"} :
             /\ stage' = [stage EXCEPT ![c] = s]
             /\ s = "plan" => stage[c] = "determine"
             /\ s # "return" => stage[c] # "power"
             /\ s \in {"check", "wait", "asleep", "send"} => stage[c] \in {"enabled", "check", "wait"}
    BY <1>1 DEF Power, Determine, PlanFails, IsEnabled, Check, Wait, Sleep, Cancel, Goto, Finish,
       history
  <2>2. StagesFit' /\ Dirty' /\ DoubledFits'
    BY <2>1 DEF StagesFit, Dirty, DoubledFits
  <2>3. ScriptsFit'
    BY <2>1 DEF ScriptsFit, Sending
  <2> QED  BY <2>2, <2>3
<1>2. CASE Plan(c)
  <2> DEFINE b == Blocks(pos, path[c])
  <2>1. b \in Seq(MoveLines)
    BY BlocksLead
  <2> HIDE DEF b
  <2>2. /\ script' = [script EXCEPT ![c] = b] /\ op[c] \in Moves /\ UNCHANGED <<op, positionChanged>>
        /\ \/ b = <<>> /\ \E s \in {"sync", "return"} : stage' = [stage EXCEPT ![c] = s]
           \/ b # <<>> /\ stage' = [stage EXCEPT ![c] = "enabled"]
        /\ UNCHANGED doubled
    BY <1>2 DEF Plan, b, AfterLastLine, Goto, Finish, StagesFit
  <2>3. StagesFit'
    BY <2>2 DEF StagesFit, Moves, Powers
  <2>4. ScriptsFit'
    BY <2>1, <2>2, SMTT(20) DEF ScriptsFit, StagesFit, Moves, Powers, Sending
  <2>5. Dirty'
    BY <2>2 DEF Dirty, Moves
  <2>6. DoubledFits'
    BY <2>2 DEF DoubledFits
  <2> QED  BY <2>3, <2>4, <2>5, <2>6
<1>3. CASE SendLine(c)
  <2> DEFINE t == Tail(script[c])
  <2>1. script[c] # <<>>
    BY <1>3 DEF SendLine, ScriptsFit, Sending
  <2>2. /\ op[c] \in Moves => t \in Seq(MoveLines)
        /\ op[c] \in {"homing", "spindle", "set_relay"} => t = <<>>
    <3>1. op[c] \in Moves => t \in Seq(MoveLines)
      BY <2>1 DEF ScriptsFit
    <3>2. Tail(<<Home>>) = <<>> /\ Tail(<<Switch>>) = <<>>
      OBVIOUS
    <3> QED  BY <2>1, <3>1, <3>2 DEF ScriptsFit
  <2> HIDE DEF t
  <2>3. /\ script' = [script EXCEPT ![c] = t] /\ UNCHANGED <<op, positionChanged>>
        /\ stage[c] = "send" /\ UNCHANGED doubled
        /\ \/ t = <<>> /\ \E s \in {"sync", "return"} : stage' = [stage EXCEPT ![c] = s]
           \/ t # <<>> /\ stage' = [stage EXCEPT ![c] = "enabled"]
    BY <1>3 DEF SendLine, t, AfterLastLine, Goto, Finish
  <2>4. StagesFit' /\ ScriptsFit' /\ Dirty' /\ DoubledFits'
    BY <2>2, <2>3, SMTT(20) DEF StagesFit, ScriptsFit, Dirty, Moves, DoubledFits, Sending
  <2> QED  BY <2>4
<1>4. CASE SendRefused(c) \/ SendFails(c) \/ SendUnanswered(c)
  <2>0. /\ stage[c] = "send" /\ UNCHANGED <<op, script>>
        /\ doubled' = doubled \/ \E k : doubled' = [doubled EXCEPT ![c] = k]
    BY <1>4 DEF SendRefused, SendFails, SendUnanswered
  <2>1. CASE Goto(c, "check") /\ UNCHANGED positionChanged
    <3>1. StagesFit' /\ ScriptsFit' /\ Dirty' /\ DoubledFits'
      BY <2>0, <2>1 DEF Goto, StagesFit, ScriptsFit, Dirty, DoubledFits, Sending
    <3> QED  BY <3>1
  <2>2. CASE EndCall(c, "failed")
    BY <2>0, <2>2, EndCallShapes
  <2> QED  BY <1>4, <2>1, <2>2 DEF SendRefused, SendFails, SendUnanswered, TryAgain
<1>5. CASE Synchronize(c)
  BY <1>5, EndCallShapes DEF Synchronize
<1>6. CASE Return(c)
  <2> USE <1>6 DEF Return, Goto
  <2>1. StagesFit' /\ Dirty' /\ DoubledFits'
    BY DEF StagesFit, Dirty, Moves, Powers, DoubledFits
  <2>2. ScriptsFit'
    BY DEF ScriptsFit, Moves, Sending
  <2> QED  BY <2>1, <2>2
<1> QED  BY <1>1, <1>2, <1>3, <1>4, <1>5, <1>6 DEF Step

LEMMA OtherShapes ==
  ASSUME SInv, Control \/ PauseStore \/ ContinueSend \/ ResetSend \/ Execute \/ UNCHANGED vars
  PROVE  Shapes'
<1>1. Awakened /\ UNCHANGED <<op, script, positionChanged, doubled>>
  BY NotifyAwakes
  DEF Control, PauseStore, ContinueSend, ResetSend, Execute, vars, client, history, Awakened
<1>2. StagesFit' /\ Dirty' /\ DoubledFits'
  BY <1>1 DEF SInv, Shapes, StagesFit, Dirty, DoubledFits, Awakened, StepTypes, TypeOK, Powers
<1>3. ScriptsFit'
  BY <1>1 DEF SInv, Shapes, ScriptsFit, Awakened, StepTypes, TypeOK, Sending
<1> QED  BY <1>2, <1>3 DEF Shapes

-----------------------------------------------------------------------------
(* The machine *)

LEMMA OthersAccounted ==
  ASSUME SInv, NEW d \in Clients,
         op'[d] = op[d], stage'[d] = stage[d], result'[d] = result[d],
         script'[d] = script[d], goal'[d] = goal[d], clean'[d] = clean[d],
         doubled'[d] = doubled[d], UNCHANGED <<queue, pos>>
  PROVE  Accounted(d)'
BY DEF SInv, Machine, Accounted, MoveAddsUp, MoveIsDone, HomingLast, Homeward, AllSwitch

(* A command that begins claims nothing yet. *)
LEMMA EnterMachine ==
  ASSUME IInv, SInv, NEW c \in Clients, NEW o, NEW s, NEW p, NEW l,
         Enter(c, o, s, p, l),
         \/ o \in Moves /\ s \in {"determine", "plan"}
         \/ o \notin Moves /\ s # "sync",
         positionChanged' \in {TRUE, positionChanged}
  PROVE  Machine'
<1> USE DEF SInv, Enter, Goto, firm, StepTypes, TypeOK
<1>1. Accounted(c)'
  BY DEF Accounted, MoveAddsUp, MoveIsDone, HomingLast, Sending
<1>2. ASSUME NEW d \in Clients, d # c PROVE Accounted(d)'
  BY <1>2, OthersAccounted
<1>3. HomeIsKnown'
  BY DEF Machine, HomeIsKnown
<1> QED  BY <1>1, <1>2, <1>3 DEF Machine

LEMMA StartMachine ==
  ASSUME IInv, SInv, NEW c \in Clients, Start(c)
  PROVE  Machine'
<1> USE EnterMachine DEF Moves, Powers
<1>1. CASE StartMove(c)
  BY <1>1 DEF StartMove
<1>2. CASE StartHoming(c)
  BY <1>2 DEF StartHoming
<1>3. CASE StartSwitch(c)
  BY <1>3 DEF StartSwitch
<1>4. CASE StartPower(c)
  BY <1>4 DEF StartPower
<1> QED  BY <1>1, <1>2, <1>3, <1>4 DEF Start

(* A step of a client that leaves the machine alone and ends no wait. *)
LEMMA InsideMachine ==
  ASSUME SInv, NEW c \in Clients,
         UNCHANGED <<op, script, goal, clean, doubled, queue, pos, positionChanged, homed>>,
         \E s \in Sending \cup {"plan", "cancel", "return"} :
           /\ stage' = [stage EXCEPT ![c] = s]
           /\ s \in Sending => stage[c] \in Sending,
         \/ UNCHANGED result /\ stage'[c] # "return"
         \/ \E r \in {"failed", "cancelled"} : result' = [result EXCEPT ![c] = r]
         \/ op[c] \notin Moves /\ result' = [result EXCEPT ![c] = "ok"]
  PROVE  Machine'
<1> USE DEF SInv, StepTypes, TypeOK
<1>1. Accounted(c)'
  BY DEF Machine, Accounted, MoveAddsUp, MoveIsDone, HomingLast, Sending
<1>2. ASSUME NEW d \in Clients, d # c PROVE Accounted(d)'
  <2>1. /\ op'[d] = op[d] /\ stage'[d] = stage[d] /\ result'[d] = result[d]
        /\ script'[d] = script[d] /\ goal'[d] = goal[d] /\ clean'[d] = clean[d]
        /\ doubled'[d] = doubled[d]
    BY <1>2
  <2> QED  BY <2>1, OthersAccounted
<1>3. HomeIsKnown'
  BY DEF Machine, HomeIsKnown
<1> QED  BY <1>1, <1>2, <1>3 DEF Machine

(* The blocks lead from where the machine is to the goal. *)
LEMMA PlanMachine ==
  ASSUME SInv, NEW c \in Clients, Plan(c)
  PROVE  Machine'
<1> USE DEF SInv, StepTypes, TypeOK, Plan, firm
<1> DEFINE b == Blocks(pos, path[c])
<1>0. Sum(b) = End(pos, path[c]) - pos /\ End(pos, path[c]) \in Int
  BY BlocksLead
<1> HIDE DEF b
<1>1. /\ script' = [script EXCEPT ![c] = b] /\ op[c] \in Moves
      /\ goal' = [goal EXCEPT ![c] = End(pos, path[c])]
      /\ clean' = [clean EXCEPT ![c] = queue = <<>>]
      /\ stage'[c] = "return" => result'[c] = "sent"
      /\ doubled[c] = 0 /\ UNCHANGED doubled
      /\ \A d \in Clients \ {c} : stage'[d] = stage[d] /\ result'[d] = result[d]
  BY DEF b, AfterLastLine, Goto, Finish, Shapes, StagesFit, DoubledFits, Moves
<1>2. Accounted(c)'
  <2>1. ASSUME queue = <<>>
        PROVE  /\ \A i \in DOMAIN queue : queue[i] # Home
               /\ pos + Sum(queue) + Sum(b) = End(pos, path[c])
    BY <1>0, <2>1, SumEmpty
  <2>4. /\ clean'[c] => queue = <<>>
        /\ script'[c] = b /\ goal'[c] = End(pos, path[c]) /\ doubled'[c] = 0
        /\ UNCHANGED <<pos, queue>>
    BY <1>1
  <2>5. ASSUME queue = <<>>
        PROVE  pos' + Sum(queue') + Sum(script'[c]) = goal'[c] + doubled'[c]
    BY <1>0, <2>1, <2>4, <2>5
  <2>2. MoveAddsUp(c)'
    BY <2>1, <2>4, <2>5 DEF MoveAddsUp
  <2>3. MoveIsDone(c)' /\ HomingLast(c)'
    BY <1>1 DEF MoveIsDone, HomingLast, Moves
  <2> QED  BY <2>2, <2>3 DEF Accounted
<1>3. ASSUME NEW d \in Clients, d # c PROVE Accounted(d)'
  <2>1. /\ op'[d] = op[d] /\ stage'[d] = stage[d] /\ result'[d] = result[d]
        /\ script'[d] = script[d] /\ goal'[d] = goal[d] /\ clean'[d] = clean[d]
        /\ doubled'[d] = doubled[d]
    BY <1>1, <1>3
  <2> QED  BY <2>1, OthersAccounted
<1>4. HomeIsKnown'
  BY DEF Machine, HomeIsKnown
<1> QED  BY <1>2, <1>3, <1>4 DEF Machine

(* A wait that ended well found an empty buffer. *)
LEMMA EndCallMachine ==
  ASSUME IInv, SInv, NEW c \in Clients, NEW r \in {"ok", "failed"}, EndCall(c, r),
         r = "ok" => stage[c] = "sync" /\ queue = <<>>,
         UNCHANGED <<op, script, goal, clean, doubled, queue, pos>>
  PROVE  Machine'
<1> USE DEF SInv, StepTypes, TypeOK, EndCall, Finish, Goto
<1>1. stage'[c] = "return" /\ result'[c] = r
  OBVIOUS
<1>2. Accounted(c)'
  <2>1. ASSUME op[c] \in Moves, clean[c], r = "ok"
        PROVE  pos = goal[c] + doubled[c] /\ AllSwitch(queue)
    <3>1. pos + Sum(queue) + Sum(script[c]) = goal[c] + doubled[c]
      BY <2>1 DEF Machine, Accounted, MoveAddsUp
    <3>2. script[c] = <<>>
      BY <2>1 DEF Shapes, ScriptsFit
    <3> QED  BY <2>1, <3>1, <3>2, SumEmpty DEF AllSwitch
  <2> QED  BY <1>1, <2>1 DEF Accounted, MoveAddsUp, MoveIsDone, HomingLast, AllSwitch, Sending
<1>3. ASSUME NEW d \in Clients, d # c PROVE Accounted(d)'
  BY <1>3, OthersAccounted
<1>4. HomeIsKnown'
  <2>1. CASE op[c] # "homing"
    BY <2>1 DEF Machine, HomeIsKnown
  <2>2. CASE op[c] = "homing" /\ homed'
    <3>1. stage[c] = "sync" /\ clean[c] /\ queue = <<>>
      BY <2>2
    <3>2. Homeward
      BY <2>2, <3>1 DEF Machine, Accounted, HomingLast
    <3>3. pos = 0
      BY <3>1, <3>2 DEF Homeward
    <3> QED  BY <3>1, <3>3 DEF HomeIsKnown
  <2> QED  BY <2>1, <2>2 DEF HomeIsKnown
<1> QED  BY <1>2, <1>3, <1>4 DEF Machine

(* A line of spindle or set_relay at the end of the buffer changes nothing. *)
LEMMA SwitchAppended ==
  ASSUME SInv, queue' = Append(queue, Switch), UNCHANGED pos
  PROVE  /\ Sum(queue') = Sum(queue)
         /\ AllSwitch(queue) => AllSwitch(queue')
         /\ Homeward => Homeward'
         /\ (\A i \in DOMAIN queue : queue[i] # Home) => \A i \in DOMAIN queue' : queue'[i] # Home
<1> DEFINE n == Len(queue)
<1>1. /\ queue \in Seq(Lines) /\ n \in Nat
      /\ DOMAIN queue = 1 .. n /\ DOMAIN queue' = 1 .. n + 1
      /\ queue'[n + 1] = Switch /\ \A i \in 1 .. n : queue'[i] = queue[i]
  BY LineTypes DEF SInv, StepTypes, TypeOK
<1>2. Sum(queue') = Sum(queue)
  <2>1. Sum(queue') = Sum(queue) + Switch[2]
    BY <1>1, LineTypes, SumAppend
  <2> QED  BY <1>1, <2>1, LineTypes, SumType
<1>3. \A i \in DOMAIN queue' :
        (i \in DOMAIN queue /\ queue'[i] = queue[i]) \/ queue'[i] = Switch
  BY <1>1
<1>4. AllSwitch(queue) => AllSwitch(queue')
  BY <1>3 DEF AllSwitch
<1>5. ASSUME NEW i \in DOMAIN queue, queue[i] = Home,
             \A j \in DOMAIN queue : j > i => queue[j] = Switch
      PROVE  Homeward'
  <2>1. i \in DOMAIN queue' /\ queue'[i] = Home
    BY <1>1, <1>5
  <2>2. \A j \in DOMAIN queue' : j > i => queue'[j] = Switch
    BY <1>3, <1>5
  <2> QED  BY <2>1, <2>2 DEF Homeward
<1>6. Homeward => Homeward'
  BY <1>4, <1>5 DEF Homeward
<1> QED  BY <1>2, <1>3, <1>4, <1>6, LineTypes

(* The line that is taken enters the buffer; it leaves the script, or else  *)
(* is counted in doubled.                                                   *)
LEMMA LineTaken ==
  ASSUME IInv, SInv, NEW c \in Clients, stage[c] = "send",
         queue' = Append(queue, Head(script[c])),
         UNCHANGED <<op, goal, clean, pos>>,
         homed' => homed /\ (positionChanged => positionChanged'),
         op[c] \in Moves \cup {"homing"} =>
           stage'[c] # "return" \/ result'[c] \in {"sent", "failed"},
         \A d \in Clients \ {c} :
           /\ stage'[d] = stage[d] /\ result'[d] = result[d]
           /\ script'[d] = script[d] /\ doubled'[d] = doubled[d],
         \/ script'[c] = Tail(script[c]) /\ doubled'[c] = doubled[c]
         \/ script'[c] = script[c] /\ doubled'[c] = doubled[c] + Head(script[c])[2]
  PROVE  Machine'
<1> USE DEF SInv
<1> DEFINE l == Head(script[c])  t == Tail(script[c])  n == Len(queue)
<1>1. /\ script[c] \in Seq(Lines) /\ script[c] # <<>> /\ l \in Lines /\ t \in Seq(Lines)
      /\ queue \in Seq(Lines) /\ queue' = Append(queue, l) /\ queue' \in Seq(Lines)
      /\ n \in Nat /\ DOMAIN queue = 1 .. n /\ DOMAIN queue' = 1 .. n + 1
      /\ queue'[n + 1] = l /\ \A i \in 1 .. n : queue'[i] = queue[i]
  BY DEF StepTypes, TypeOK, Shapes, ScriptsFit, Sending
<1>3. op[c] \in Moves => l \in MoveLines
  BY <1>1 DEF Shapes, ScriptsFit
<1>4. op[c] = "homing" => l = Home
  BY <1>1 DEF Shapes, ScriptsFit
<1>5. op[c] \notin Moves \cup {"homing"} => l = Switch
  BY <1>1 DEF Shapes, StagesFit, ScriptsFit, IInv, Types, Resting, Ops
<1>6. /\ Sum(queue') = Sum(queue) + l[2] /\ Sum(t) = Sum(script[c]) - l[2]
      /\ Sum(queue) \in Int /\ Sum(script[c]) \in Int /\ l[2] \in Int
  BY <1>1, SumAppend, SumTail, SumType DEF Lines
<1>2. \/ script'[c] = t /\ doubled'[c] = doubled[c]
      \/ script'[c] = script[c] /\ doubled'[c] = doubled[c] + l[2]
  OBVIOUS
<1>0. doubled[c] \in Int /\ goal[c] \in Int /\ pos \in Int
  BY DEF StepTypes, TypeOK
<1> HIDE DEF l, t, n
<1>7. Accounted(c)'
  <2>1. MoveAddsUp(c)'
    <3> SUFFICES ASSUME op[c] \in Moves, clean[c]
                 PROVE  /\ \A i \in DOMAIN queue' : queue'[i] # Home
                        /\ pos + Sum(queue') + Sum(script'[c]) = goal[c] + doubled'[c]
      BY DEF MoveAddsUp
    <3>1. /\ \A i \in DOMAIN queue : queue[i] # Home
          /\ pos + Sum(queue) + Sum(script[c]) = goal[c] + doubled[c]
      BY DEF Machine, Accounted, MoveAddsUp, Sending
    <3>2. l # Home
      BY <1>3 DEF MoveLines, Home
    <3>3. \A i \in DOMAIN queue' : queue'[i] # Home
      BY <1>1, <3>1, <3>2
    <3>4. pos + Sum(queue') + Sum(script'[c]) = goal[c] + doubled'[c]
      <4>1. CASE script'[c] = t /\ doubled'[c] = doubled[c]
        <5>1. pos + (Sum(queue) + l[2]) + (Sum(script[c]) - l[2]) = goal[c] + doubled[c]
          BY ONLY <1>0, <1>6, <3>1
        <5> QED  BY <1>6, <4>1, <5>1
      <4>2. CASE script'[c] = script[c] /\ doubled'[c] = doubled[c] + l[2]
        <5>1. pos + (Sum(queue) + l[2]) + Sum(script[c]) = goal[c] + (doubled[c] + l[2])
          BY ONLY <1>0, <1>6, <3>1
        <5> QED  BY <1>6, <4>2, <5>1
      <4> QED  BY <1>2, <4>1, <4>2
    <3> QED  BY <3>3, <3>4
  <2>2. MoveIsDone(c)'
    BY DEF MoveIsDone
  <2>3. HomingLast(c)'
    <3> SUFFICES ASSUME op[c] = "homing"  PROVE Homeward'
      BY DEF HomingLast
    <3>1. n + 1 \in DOMAIN queue' /\ queue'[n + 1] = Home
          /\ \A j \in DOMAIN queue' : ~ (j > n + 1)
      BY <1>1, <1>4
    <3> QED  BY <3>1 DEF Homeward
  <2> QED  BY <2>1, <2>2, <2>3 DEF Accounted
<1>8. ASSUME NEW d \in Clients, d # c PROVE Accounted(d)'
  <2>0. /\ op'[d] = op[d] /\ stage'[d] = stage[d] /\ result'[d] = result[d]
        /\ script'[d] = script[d] /\ goal'[d] = goal[d] /\ clean'[d] = clean[d]
        /\ doubled'[d] = doubled[d] /\ pos' = pos
    BY <1>8
  <2>1. CASE op[c] \in Moves \cup {"homing"}
    <3>1. op[d] \notin Moves \cup {"homing"}
      BY <1>8, <2>1 DEF IInv, MachineExclusion, Moves
    <3> QED  BY <2>0, <3>1 DEF Accounted, MoveAddsUp, MoveIsDone, HomingLast
  <2>2. CASE l = Switch
    <3>1. /\ Sum(queue') = Sum(queue)
          /\ AllSwitch(queue) => AllSwitch(queue')
          /\ Homeward => Homeward'
          /\ (\A i \in DOMAIN queue : queue[i] # Home) => \A i \in DOMAIN queue' : queue'[i] # Home
      BY <1>1, <2>2, SwitchAppended
    <3>2. MoveAddsUp(d) /\ MoveIsDone(d) /\ HomingLast(d)
      BY DEF Machine, Accounted
    <3>3. MoveAddsUp(d)'
      BY <2>0, <3>1, <3>2 DEF MoveAddsUp
    <3>4. MoveIsDone(d)'
      BY <2>0, <3>1, <3>2 DEF MoveIsDone
    <3>5. HomingLast(d)'
      BY <2>0, <3>1, <3>2 DEF HomingLast
    <3> QED  BY <3>3, <3>4, <3>5 DEF Accounted
  <2> QED  BY <1>5, <2>1, <2>2
<1>9. HomeIsKnown'
  <2> SUFFICES ASSUME ~positionChanged', homed'
               PROVE  pos' = 0 /\ AllSwitch(queue')
    BY DEF HomeIsKnown, AllSwitch
  <2>0. ~positionChanged /\ homed
    OBVIOUS
  <2>1. pos = 0 /\ AllSwitch(queue)
    BY <2>0 DEF Machine, HomeIsKnown, AllSwitch
  <2>2. l = Switch
    BY <2>0, <1>5 DEF Shapes, Dirty
  <2> QED  BY <1>1, <2>1, <2>2, SwitchAppended
<1> QED  BY <1>7, <1>8, <1>9 DEF Machine

LEMMA SendLineMachine ==
  ASSUME IInv, SInv, NEW c \in Clients, SendLine(c)
  PROVE  Machine'
<1>1. op[c] \in Moves \cup {"homing"} => stage'[c] # "return" \/ result'[c] \in {"sent", "failed"}
  BY DEF SendLine, AfterLastLine, Goto, Finish, SInv, StepTypes, TypeOK, Moves
<1>2. \A d \in Clients \ {c} : stage'[d] = stage[d] /\ result'[d] = result[d]
  BY DEF SendLine, AfterLastLine, Goto, Finish, SInv, StepTypes, TypeOK
<1> QED  BY <1>1, <1>2, LineTaken DEF SendLine, SInv, StepTypes, TypeOK

(* The last of the loops fails the call, the others change nothing here. *)
LEMMA TryAgainMachine ==
  ASSUME IInv, SInv, NEW c \in Clients, stage[c] = "send", TryAgain(c),
         UNCHANGED <<op, script, goal, clean, doubled, queue, pos>>
  PROVE  Machine'
<1>1. CASE Goto(c, "check") /\ UNCHANGED <<result, positionChanged, homed>>
  BY <1>1, InsideMachine DEF Goto, Sending, SInv, StepTypes, TypeOK
<1>2. CASE EndCall(c, "failed")
  BY <1>2, EndCallMachine
<1> QED  BY <1>1, <1>2 DEF TryAgain

LEMMA SendUnansweredMachine ==
  ASSUME IInv, SInv, NEW c \in Clients, SendUnanswered(c)
  PROVE  Machine'
<1>1. stage[c] = "send" /\ TryAgain(c) /\ UNCHANGED <<op, script, goal, clean, pos>>
  BY DEF SendUnanswered
<1>2. CASE UNCHANGED <<queue, doubled>>
  BY <1>1, <1>2, TryAgainMachine
<1>3. CASE /\ queue' = Append(queue, Head(script[c]))
           /\ doubled' = [doubled EXCEPT ![c] = @ + Head(script[c])[2]]
  <2>1. /\ stage'[c] # "return" \/ result'[c] = "failed"
        /\ \A d \in Clients \ {c} : stage'[d] = stage[d] /\ result'[d] = result[d]
    BY <1>1 DEF TryAgain, EndCall, Finish, Goto, SInv, StepTypes, TypeOK
  <2>2. homed' => homed /\ (positionChanged => positionChanged')
    BY <1>1 DEF TryAgain, EndCall
  <2>3. doubled'[c] = doubled[c] + Head(script[c])[2]
        /\ \A d \in Clients \ {c} : doubled'[d] = doubled[d] /\ script'[d] = script[d]
    BY <1>1, <1>3 DEF SInv, StepTypes, TypeOK
  <2> QED  BY <1>1, <1>3, <2>1, <2>2, <2>3, LineTaken
<1> QED  BY <1>2, <1>3 DEF SendUnanswered

(* The line that is executed leaves the buffer and enters the position. *)
LEMMA ExecuteMachine ==
  ASSUME SInv, Execute
  PROVE  Machine'
<1> USE DEF SInv
<1> DEFINE h == Head(queue)  n == Len(queue)
<1>1. /\ queue \in Seq(Lines) /\ queue # <<>> /\ n \in Nat \ {0} /\ h = queue[1] /\ h \in Lines
      /\ queue' = Tail(queue) /\ DOMAIN queue = 1 .. n /\ DOMAIN queue' = 1 .. n - 1
      /\ \A i \in 1 .. n - 1 : queue'[i] = queue[i + 1]
      /\ pos \in Int
  BY DEF Execute, StepTypes, TypeOK
<1>2. /\ pos' = IF h = Home THEN 0 ELSE pos + h[2]
      /\ UNCHANGED <<op, stage, script, goal, result, clean, doubled, positionChanged, homed>>
  BY DEF Execute, client, history
<1>3. Sum(queue') = Sum(queue) - h[2] /\ Sum(queue) \in Int /\ h[2] \in Int
  BY <1>1, SumTail, SumType DEF Lines
<1> HIDE DEF h, n
<1>4. \A i \in DOMAIN queue' : i + 1 \in DOMAIN queue /\ queue'[i] = queue[i + 1]
  BY <1>1
<1>5. 1 \in DOMAIN queue
  BY <1>1
<1>6. AllSwitch(queue) => AllSwitch(queue') /\ pos' = pos
  <2> SUFFICES ASSUME AllSwitch(queue) PROVE AllSwitch(queue') /\ pos' = pos
    OBVIOUS
  <2>1. h = Switch
    BY <1>1, <1>5 DEF AllSwitch
  <2>2. AllSwitch(queue')
    BY <1>4 DEF AllSwitch
  <2> QED  BY <1>1, <1>2, <2>1, <2>2, LineTypes
<1>7. ASSUME NEW i \in DOMAIN queue, queue[i] = Home,
             \A j \in DOMAIN queue : j > i => queue[j] = Switch
      PROVE  Homeward'
  <2>1. CASE i = 1
    <3>1. pos' = 0
      BY <1>1, <1>2, <1>7, <2>1
    <3>2. \A j \in DOMAIN queue' : queue'[j] = Switch
      BY <1>1, <1>4, <1>7, <2>1
    <3> QED  BY <3>1, <3>2 DEF Homeward, AllSwitch
  <2>2. CASE i # 1
    <3>1. i - 1 \in DOMAIN queue' /\ queue'[i - 1] = Home
      BY <1>1, <1>7, <2>2
    <3>2. \A j \in DOMAIN queue' : j > i - 1 => queue'[j] = Switch
      BY <1>1, <1>4, <1>7
    <3> QED  BY <3>1, <3>2 DEF Homeward
  <2> QED  BY <2>1, <2>2
<1>8. Homeward => Homeward'
  BY <1>6, <1>7 DEF Homeward
<1>9. ASSUME NEW d \in Clients PROVE Accounted(d)'
  <2>1. MoveAddsUp(d) /\ MoveIsDone(d) /\ HomingLast(d)
    BY DEF Machine, Accounted
  <2>2. MoveAddsUp(d)'
    <3> SUFFICES ASSUME op[d] \in Moves, clean[d],
                        stage[d] \in Sending \cup {"sync"}
                 PROVE  /\ \A i \in DOMAIN queue' : queue'[i] # Home
                        /\ pos' + Sum(queue') + Sum(script[d]) = goal[d] + doubled[d]
      BY <1>2 DEF MoveAddsUp
    <3>1. /\ \A i \in DOMAIN queue : queue[i] # Home
          /\ pos + Sum(queue) + Sum(script[d]) = goal[d] + doubled[d]
      BY <2>1 DEF MoveAddsUp
    <3>2. h # Home
      BY <1>1, <1>5, <3>1
    <3>3. Sum(script[d]) \in Int
      BY SumType DEF StepTypes, TypeOK
    <3> QED  BY <1>1, <1>2, <1>3, <1>4, <3>1, <3>2, <3>3
  <2>3. MoveIsDone(d)'
    BY <1>2, <1>6, <2>1 DEF MoveIsDone
  <2>4. HomingLast(d)'
    BY <1>2, <1>8, <2>1 DEF HomingLast
  <2> QED  BY <2>2, <2>3, <2>4 DEF Accounted
<1>10. HomeIsKnown'
  BY <1>2, <1>6 DEF Machine, HomeIsKnown, AllSwitch
<1> QED  BY <1>9, <1>10 DEF Machine

(* A reset of the firmware leaves no clean command. *)
LEMMA ResetSendMachine ==
  ASSUME SInv, ResetSend
  PROVE  Machine'
<1>1. CASE queue' = <<>> /\ clean' = [c \in Clients |-> FALSE]
  <2>1. \A c \in Clients : Accounted(c)'
    BY <1>1 DEF Accounted, MoveAddsUp, MoveIsDone, HomingLast
  <2>2. HomeIsKnown'
    BY <1>1 DEF ResetSend, SInv, Machine, HomeIsKnown
  <2> QED  BY <2>1, <2>2 DEF Machine
<1>2. CASE UNCHANGED <<queue, clean>>
  <2>1. \A c \in Clients : Accounted(c)'
    BY <1>2, OthersAccounted DEF ResetSend, client
  <2>2. HomeIsKnown'
    BY <1>2 DEF ResetSend, SInv, Machine, HomeIsKnown
  <2> QED  BY <2>1, <2>2 DEF Machine
<1> QED  BY <1>1, <1>2 DEF ResetSend

LEMMA ReturnMachine ==
  ASSUME IInv, SInv, NEW c \in Clients, Return(c)
  PROVE  Machine'
<1> USE DEF SInv, Return, Goto, firm, StepTypes, TypeOK
<1>1. Accounted(c)'
  BY DEF Accounted, MoveAddsUp, MoveIsDone, HomingLast
<1>2. ASSUME NEW d \in Clients, d # c PROVE Accounted(d)'
  BY <1>2, OthersAccounted
<1>3. HomeIsKnown'
  BY DEF Machine, HomeIsKnown
<1> QED  BY <1>1, <1>2, <1>3 DEF Machine

LEMMA StepKeepsMachine ==
  ASSUME IInv, SInv, NEW c \in Clients, Step(c)
  PROVE  Machine'
<1>1. CASE Power(c)
  <2>1. op[c] \notin Moves
    BY <1>1 DEF Power, SInv, Shapes, StagesFit, Moves, Powers
  <2> QED  BY <1>1, <2>1, InsideMachine DEF Power, Finish, Goto, history, Sending
<1>2. CASE Determine(c)
  BY <1>2, InsideMachine
  DEF Determine, Finish, Goto, firm, history, SInv, StepTypes, TypeOK, Sending
<1>3. CASE PlanFails(c)
  <2>1. /\ UNCHANGED <<op, script, goal, clean, doubled, queue, pos, positionChanged, homed>>
        /\ stage' = [stage EXCEPT ![c] = "return"]
        /\ result' = [result EXCEPT ![c] = "failed"]
    BY <1>3 DEF PlanFails, Finish, Goto, firm, history
  <2>2. \E s \in Sending \cup {"plan", "cancel", "return"} :
          stage' = [stage EXCEPT ![c] = s] /\ (s \in Sending => stage[c] \in Sending)
    BY <2>1 DEF Sending
  <2>3. \E r \in {"failed", "cancelled"} : result' = [result EXCEPT ![c] = r]
    BY <2>1
  <2> QED  BY <2>1, <2>2, <2>3, InsideMachine
<1>4. CASE IsEnabled(c)
  BY <1>4, InsideMachine
  DEF IsEnabled, Finish, Goto, firm, history, SInv, StepTypes, TypeOK, Sending
<1>5. CASE Check(c)
  BY <1>5, InsideMachine DEF Check, Goto, firm, history, SInv, StepTypes, TypeOK, Sending
<1>6. CASE Cancel(c)
  <2>1. /\ UNCHANGED <<op, script, goal, clean, doubled, queue, pos, positionChanged, homed>>
        /\ stage' = [stage EXCEPT ![c] = "return"]
        /\ result' = [result EXCEPT ![c] = "cancelled"]
    BY <1>6 DEF Cancel, Finish, Goto, firm
  <2>2. \E s \in Sending \cup {"plan", "cancel", "return"} :
          stage' = [stage EXCEPT ![c] = s] /\ (s \in Sending => stage[c] \in Sending)
    BY <2>1 DEF Sending
  <2>3. \E r \in {"failed", "cancelled"} : result' = [result EXCEPT ![c] = r]
    BY <2>1
  <2> QED  BY <2>1, <2>2, <2>3, InsideMachine
<1>7. CASE SendRefused(c)
  BY <1>7, TryAgainMachine DEF SendRefused, firm
<1>8. CASE Synchronize(c) \/ SendFails(c)
  BY <1>8, EndCallMachine DEF Synchronize, SendFails, firm
<1>9. CASE Wait(c) \/ Sleep(c)
  <2>1. /\ UNCHANGED <<op, script, goal, clean, doubled, queue, pos, positionChanged, homed, result>>
        /\ \E s \in {"wait", "asleep"} : stage' = [stage EXCEPT ![c] = s]
        /\ stage[c] \in Sending
    BY <1>9 DEF Wait, Sleep, Goto, firm, history, Sending
  <2>2. stage'[c] # "return"
    BY <2>1 DEF SInv, StepTypes, TypeOK
  <2> QED  BY <2>1, <2>2, InsideMachine DEF Sending
<1> QED
  BY <1>1, <1>2, <1>3, <1>4, <1>5, <1>6, <1>7, <1>8, <1>9,
     PlanMachine, SendLineMachine, SendUnansweredMachine, ReturnMachine DEF Step

(* The steps that none of this depends on. *)
LEMMA OtherMachine ==
  ASSUME SInv, Control \/ PauseStore \/ ContinueSend \/ UNCHANGED vars
  PROVE  Machine'
<1>1. /\ UNCHANGED <<op, result, script, goal, clean, doubled, queue, pos, positionChanged, homed>>
      /\ Awakened
  BY NotifyAwakes DEF Control, PauseStore, ContinueSend, vars, client, firm, history, Awakened
<1>2. ASSUME NEW c \in Clients PROVE Accounted(c)'
  <2>1. CASE stage'[c] = stage[c]
    BY <1>1, <2>1, OthersAccounted
  <2>2. CASE stage[c] = "asleep" /\ stage'[c] = "check"
    BY <1>1, <2>2
    DEF SInv, Machine, Accounted, MoveAddsUp, MoveIsDone, HomingLast, Homeward, AllSwitch, Sending
  <2> QED  BY <1>1, <2>1, <2>2 DEF Awakened, SInv, StepTypes, TypeOK
<1>3. HomeIsKnown'
  BY <1>1 DEF SInv, Machine, HomeIsKnown
<1> QED  BY <1>2, <1>3 DEF Machine

LEMMA StepsInductive == IInv /\ SInv /\ [Next]_vars => SInv'
<1> SUFFICES ASSUME IInv, SInv, [Next]_vars PROVE SInv'
  OBVIOUS
<1>1. ASSUME NEW c \in Clients, Start(c) PROVE SInv'
  BY <1>1, StartTypes, StartShapes, StartMachine DEF SInv
<1>2. ASSUME NEW c \in Clients, Step(c) PROVE SInv'
  BY <1>2, StepKeepsTypes, StepKeepsShapes, StepKeepsMachine DEF SInv
<1>3. CASE Control \/ PauseStore \/ ContinueSend \/ ResetSend \/ Execute \/ UNCHANGED vars
  BY <1>3, OtherTypes, OtherShapes, OtherMachine, ResetSendMachine, ExecuteMachine DEF SInv
<1> QED  BY <1>1, <1>2, <1>3 DEF Next

THEOREM StepsInvariance == Spec => []SInv
BY StepsInitially, StepsInductive, Invariance, PTL DEF Spec

(* Whatever the clients and the operator do, the state of CNC and of the    *)
(* firmware is of the declared types; in particular the firmware's buffer   *)
(* never overflows (send_command asks again instead).                       *)
THEOREM TypeCorrect == Spec => []TypeOK
<1>1. SInv => TypeOK
  BY DEF SInv, StepTypes
<1> QED  BY <1>1, StepsInvariance, PTL

(* Paths of any length, any number of retries, pauses and other clients:    *)
(* no step of a clean move is lost, and none is doubled but those of a line *)
(* that was taken without a readable answer, which are exactly the          *)
(* difference (execute_script, send_command).                               *)
THEOREM NoStepLost == Spec => []StepsAddUp
<1>1. SInv => StepsAddUp
  BY DEF SInv, Machine, Accounted, MoveAddsUp, StepsAddUp
<1> QED  BY <1>1, StepsInvariance, PTL

(* A move that returns true to a caller who waited has arrived, or overshot *)
(* by exactly the lines that were sent again after they had been taken      *)
(* (do_travel, wait_end_of_script, send_command).                           *)
THEOREM Arrival == Spec => []TrueMeansArrived
<1>1. SInv => TrueMeansArrived
  BY DEF SInv, Machine, Accounted, MoveIsDone, TrueMeansArrived
<1> QED  BY <1>1, StepsInvariance, PTL

(* When the last homing ran to its end (homed), the next one, which         *)
(* position_changed_ lets CNC skip, is not missed.  After a homing that was *)
(* cut short nothing is claimed: HomingSetsHome fails there.                *)
THEOREM SkippedHoming == Spec => []HomeIsKnown
<1>1. SInv => HomeIsKnown
  BY DEF SInv, Machine
<1> QED  BY <1>1, StepsInvariance, PTL
=============================================================================
