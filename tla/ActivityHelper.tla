--------------------------- MODULE ActivityHelper ---------------------------
(***************************************************************************)
(* romi::ActivityHelper, at the granularity of its accesses to the atomic  *)
(* _state, to _mutex and to _continue_condition.                           *)
(*                                                                         *)
(* Executors are the threads that run a machine command and call           *)
(* check_pause_or_cancel_execution() before each line they send to the     *)
(* firmware.  Operators are the threads that call pause_activity(),        *)
(* continue_activity() and reset_activity().  Operators never take _mutex: *)
(* they store into _state and then notify, so a store and its notification *)
(* can fall anywhere between the steps of an executor.                     *)
(***************************************************************************)
EXTENDS Naturals, FiniteSets

CONSTANTS
  Executors,   \* threads that execute commands
  Operators,   \* threads that control the activity
  NoThread,    \* the owner of a free mutex
  MaxResets    \* bound on the number of reset_activity() calls

ASSUME ThreadsAssumption ==
  /\ NoThread \notin Executors
  /\ MaxResets \in Nat

VARIABLES
  state,      \* _state
  mutex,      \* the owner of _mutex
  waiting,    \* the executors blocked on _continue_condition
  pc,         \* where each executor is inside the checkpoint
  opc,        \* where each operator is inside its call
  resets,     \* history: number of resets stored
  cancelled,  \* history: number of ActivityResetException thrown
  seen        \* history: executors that met an instant that was not paused

vars == <<state, mutex, waiting, pc, opc, resets, cancelled, seen>>

States == {"running", "paused", "reset"}

Places == {"idle", "test", "predicate", "sleep", "asleep", "load", "consume"}

TypeOK ==
  /\ state \in States
  /\ mutex \in Executors \cup {NoThread}
  /\ waiting \in SUBSET Executors
  /\ pc \in [Executors -> Places]
  /\ opc \in [Operators -> {"idle", "notify"}]
  /\ resets \in 0 .. MaxResets
  /\ cancelled \in Nat
  /\ seen \in SUBSET Executors

Inside == {t \in Executors : pc[t] # "idle"}

Init ==
  /\ state = "running"
  /\ mutex = NoThread
  /\ waiting = {}
  /\ pc = [t \in Executors |-> "idle"]
  /\ opc = [o \in Operators |-> "idle"]
  /\ resets = 0
  /\ cancelled = 0
  /\ seen = {}

-----------------------------------------------------------------------------
(* check_pause_or_cancel_execution() *)

(* MUTANT of Lock: the lock is taken from whoever owns it. *)
LockAlways(t) ==
  /\ pc[t] = "idle"
  /\ mutex' = t
  /\ pc' = [pc EXCEPT ![t] = "test"]
  /\ seen' = IF state = "paused" THEN seen ELSE seen \cup {t}
  /\ UNCHANGED <<state, waiting, opc, resets, cancelled>>

(* unique_lock(_mutex) *)
Lock(t) ==
  /\ pc[t] = "idle"
  /\ mutex = NoThread
  /\ mutex' = t
  /\ pc' = [pc EXCEPT ![t] = "test"]
  /\ seen' = IF state = "paused" THEN seen ELSE seen \cup {t}
  /\ UNCHANGED <<state, waiting, opc, resets, cancelled>>

(* MUTANT of Test: the checkpoint looks for a reset only. *)
TestIgnoresPause(t) ==
  /\ pc[t] = "test"
  /\ pc' = [pc EXCEPT ![t] = "load"]
  /\ UNCHANGED <<state, mutex, waiting, opc, resets, cancelled, seen>>

(* if (_state == Paused) *)
Test(t) ==
  /\ pc[t] = "test"
  /\ pc' = [pc EXCEPT ![t] = IF state = "paused" THEN "predicate" ELSE "load"]
  /\ UNCHANGED <<state, mutex, waiting, opc, resets, cancelled, seen>>

(* wait(lock, predicate): the predicate is read before every sleep. *)
Predicate(t) ==
  /\ pc[t] = "predicate"
  /\ pc' = [pc EXCEPT ![t] = IF state = "paused" THEN "sleep" ELSE "load"]
  /\ UNCHANGED <<state, mutex, waiting, opc, resets, cancelled, seen>>

(* wait(lock): releases the mutex and blocks, in one step. *)
Sleep(t) ==
  /\ pc[t] = "sleep"
  /\ mutex' = NoThread
  /\ waiting' = waiting \cup {t}
  /\ pc' = [pc EXCEPT ![t] = "asleep"]
  /\ UNCHANGED <<state, opc, resets, cancelled, seen>>

(* MUTANT of Wake: the predicate is not evaluated again. *)
WakeWithoutRecheck(t) ==
  /\ pc[t] = "asleep"
  /\ t \notin waiting
  /\ mutex = NoThread
  /\ mutex' = t
  /\ pc' = [pc EXCEPT ![t] = "load"]
  /\ UNCHANGED <<state, waiting, opc, resets, cancelled, seen>>

(* A notified thread takes the mutex again. *)
Wake(t) ==
  /\ pc[t] = "asleep"
  /\ t \notin waiting
  /\ mutex = NoThread
  /\ mutex' = t
  /\ pc' = [pc EXCEPT ![t] = "predicate"]
  /\ UNCHANGED <<state, waiting, opc, resets, cancelled, seen>>

(* A thread may leave the condition variable without a notification. *)
SpuriousWakeup(t) ==
  /\ t \in waiting
  /\ waiting' = waiting \ {t}
  /\ UNCHANGED <<state, mutex, pc, opc, resets, cancelled, seen>>

(* int state = _state, when it is not Reset: unlock and return *)
LoadAndReturn(t) ==
  /\ pc[t] = "load"
  /\ state # "reset"
  /\ mutex' = NoThread
  /\ pc' = [pc EXCEPT ![t] = "idle"]
  /\ seen' = seen \ {t}
  /\ UNCHANGED <<state, waiting, opc, resets, cancelled>>

(* int state = _state, when it is Reset *)
LoadReset(t) ==
  /\ pc[t] = "load"
  /\ state = "reset"
  /\ pc' = [pc EXCEPT ![t] = "consume"]
  /\ UNCHANGED <<state, mutex, waiting, opc, resets, cancelled, seen>>

(* MUTANT of Consume: the reset is reported but not taken out of _state. *)
ConsumeKeepsReset(t) ==
  /\ pc[t] = "consume"
  /\ cancelled' = cancelled + 1
  /\ mutex' = NoThread
  /\ pc' = [pc EXCEPT ![t] = "idle"]
  /\ seen' = seen \ {t}
  /\ UNCHANGED <<state, waiting, opc, resets>>

(* _state = Running; throw: a second store, whatever _state is by now. *)
Consume(t) ==
  /\ pc[t] = "consume"
  /\ state' = "running"
  /\ cancelled' = cancelled + 1
  /\ mutex' = NoThread
  /\ pc' = [pc EXCEPT ![t] = "idle"]
  /\ seen' = Inside \ {t}
  /\ UNCHANGED <<waiting, opc, resets>>

-----------------------------------------------------------------------------
(* pause_activity(), continue_activity(), reset_activity() *)

(* _state = Paused *)
PauseActivity(o) ==
  /\ opc[o] = "idle"
  /\ state' = "paused"
  /\ UNCHANGED <<mutex, waiting, pc, opc, resets, cancelled, seen>>

(* _state = Running *)
ContinueActivity(o) ==
  /\ opc[o] = "idle"
  /\ state' = "running"
  /\ opc' = [opc EXCEPT ![o] = "notify"]
  /\ seen' = Inside
  /\ UNCHANGED <<mutex, waiting, pc, resets, cancelled>>

(* _state = Reset *)
ResetActivity(o) ==
  /\ opc[o] = "idle"
  /\ resets < MaxResets
  /\ state' = "reset"
  /\ resets' = resets + 1
  /\ opc' = [opc EXCEPT ![o] = "notify"]
  /\ seen' = Inside
  /\ UNCHANGED <<mutex, waiting, pc, cancelled>>

(* MUTANT of NotifyOne: the notification is forgotten. *)
NotifyNobody(o) ==
  /\ opc[o] = "notify"
  /\ opc' = [opc EXCEPT ![o] = "idle"]
  /\ UNCHANGED <<state, mutex, waiting, pc, resets, cancelled, seen>>

(* _continue_condition.notify_one(): any one of the sleepers, if any *)
NotifyOne(o) ==
  /\ opc[o] = "notify"
  /\ opc' = [opc EXCEPT ![o] = "idle"]
  /\ \/ waiting = {} /\ UNCHANGED waiting
     \/ \E t \in waiting : waiting' = waiting \ {t}
  /\ UNCHANGED <<state, mutex, pc, resets, cancelled, seen>>

-----------------------------------------------------------------------------
Check(t) ==
  \/ Lock(t) \/ Test(t) \/ Predicate(t) \/ Sleep(t) \/ Wake(t)
  \/ LoadAndReturn(t) \/ LoadReset(t) \/ Consume(t)

Control(o) ==
  \/ PauseActivity(o) \/ ContinueActivity(o) \/ ResetActivity(o)
  \/ NotifyOne(o)

Next ==
  \/ \E t \in Executors : Check(t) \/ SpuriousWakeup(t)
  \/ \E o \in Operators : Control(o)

(***************************************************************************)
(* A thread that has started a call goes on with it; nobody is obliged to  *)
(* call anything, and no wakeup is owed without a notification.            *)
(***************************************************************************)
Fairness ==
  /\ \A t \in Executors :
       /\ WF_vars(Test(t)) /\ WF_vars(Predicate(t)) /\ WF_vars(Sleep(t))
       /\ WF_vars(Wake(t)) /\ WF_vars(LoadAndReturn(t))
       /\ WF_vars(LoadReset(t)) /\ WF_vars(Consume(t))
  /\ \A o \in Operators : WF_vars(NotifyOne(o))

Spec == Init /\ [][Next]_vars

FairSpec == Spec /\ Fairness

-----------------------------------------------------------------------------
(***************************************************************************)
(* Every ActivityResetException answers a reset of its own: however the    *)
(* two reads and the store of the checkpoint interleave with the stores of *)
(* the operators, no reset cancels two commands.                           *)
(***************************************************************************)
OneCancelPerReset == cancelled <= resets

(* A reset that some checkpoint may still answer. *)
Unanswered ==
  IF state = "reset" \/ \E t \in Executors : pc[t] = "consume" THEN 1 ELSE 0

(* The inductive form of OneCancelPerReset. *)
CancelBudget == cancelled + Unanswered <= resets

(***************************************************************************)
(* Owning the mutex is being at one of the places between lock and unlock, *)
(* and at most one executor is there.                                      *)
(***************************************************************************)
Owning == {"test", "predicate", "sleep", "load", "consume"}

MutexInv ==
  /\ \A t \in Executors : pc[t] \in Owning <=> mutex = t
  /\ \A t \in waiting : pc[t] = "asleep"

(***************************************************************************)
(* The checkpoint is about to let an executor go, or to cancel it, only if *)
(* the activity was not paused during the whole of the checkpoint.         *)
(***************************************************************************)
NoPassWhilePaused ==
  \A t \in Executors : pc[t] \in {"load", "consume"} => t \in seen

(* An instant that is not paused is seen by everyone inside. *)
SeenInv ==
  /\ seen \subseteq Inside
  /\ state # "paused" => Inside \subseteq seen

IInv ==
  /\ TypeOK
  /\ MutexInv
  /\ CancelBudget
  /\ SeenInv
  /\ NoPassWhilePaused

(***************************************************************************)
(* The helper implements the abstract activity.                            *)
(***************************************************************************)
Abstract == INSTANCE Activity WITH
  mode    <- state,
  inside  <- Inside,
  allowed <- seen,
  credit  <- resets - cancelled

AbstractSpec == Abstract!Spec

(***************************************************************************)
(* An executor that is asleep alone, whose continue or reset has been      *)
(* stored and whose notification is still to come, leaves the checkpoint   *)
(* unless somebody pauses again.  Alone, since notify_one() wakes one      *)
(* sleeper; still to come, since a notification that falls between the     *)
(* predicate and the sleep wakes nobody.  Another executor may overtake    *)
(* it: the mutex is not fair.                                              *)
(***************************************************************************)
LoneSleeperLeaves ==
  \A t \in Executors :
    (/\ waiting = {t} /\ mutex = NoThread /\ state # "paused"
     /\ \E o \in Operators : opc[o] = "notify")
      ~> \/ pc[t] = "idle" \/ state = "paused"
         \/ \E u \in Executors \ {t} : mutex = u

=============================================================================
