------------------------ MODULE ActivityHelperProofs ------------------------
(***************************************************************************)
(* Proofs about ActivityHelper, for any set of executors and operators and *)
(* any number of resets: the inductive invariant IInv, the two safety      *)
(* properties that follow from it, and the refinement of Activity.         *)
(***************************************************************************)
EXTENDS ActivityHelper, TLAPS

(* IInv holds in the initial state. *)
LEMMA InitInv == Init => IInv
  BY ThreadsAssumption
     DEF Init, IInv, TypeOK, MutexInv, CancelBudget, Unanswered, SeenInv,
         NoPassWhilePaused, Inside, Owning, States, Places

(***************************************************************************)
(* Each step of a checkpoint preserves IInv.  The steps differ in the      *)
(* conjunct they put at risk: Lock the exclusion, LoadReset and Consume    *)
(* the budget of cancellations, the leaves of the wait the record of who   *)
(* has seen an instant that was not paused.                                *)
(***************************************************************************)
LEMMA CheckInv ==
  ASSUME IInv, NEW t \in Executors, Check(t) \/ SpuriousWakeup(t)
  PROVE  IInv'
  <1> USE ThreadsAssumption
      DEF IInv, TypeOK, MutexInv, Inside, Owning, States, Places
  <1>1. CASE Lock(t)
    <2>1. TypeOK' /\ MutexInv'
      BY <1>1 DEF Lock
    <2>2. CancelBudget'
      BY <1>1 DEF Lock, CancelBudget, Unanswered
    <2>3. SeenInv' /\ NoPassWhilePaused'
      BY <1>1 DEF Lock, SeenInv, NoPassWhilePaused
    <2> QED BY <2>1, <2>2, <2>3
  <1>2. CASE Test(t)
    <2>1. TypeOK' /\ MutexInv'
      BY <1>2 DEF Test
    <2>2. CancelBudget'
      BY <1>2 DEF Test, CancelBudget, Unanswered
    <2>3. SeenInv' /\ NoPassWhilePaused'
      BY <1>2 DEF Test, SeenInv, NoPassWhilePaused
    <2> QED BY <2>1, <2>2, <2>3
  <1>3. CASE Predicate(t)
    <2>1. TypeOK' /\ MutexInv'
      BY <1>3 DEF Predicate
    <2>2. CancelBudget'
      BY <1>3 DEF Predicate, CancelBudget, Unanswered
    <2>3. SeenInv' /\ NoPassWhilePaused'
      BY <1>3 DEF Predicate, SeenInv, NoPassWhilePaused
    <2> QED BY <2>1, <2>2, <2>3
  <1>4. CASE Sleep(t)
    <2>1. TypeOK' /\ MutexInv'
      BY <1>4 DEF Sleep
    <2>2. CancelBudget'
      BY <1>4 DEF Sleep, CancelBudget, Unanswered
    <2>3. SeenInv' /\ NoPassWhilePaused'
      BY <1>4 DEF Sleep, SeenInv, NoPassWhilePaused
    <2> QED BY <2>1, <2>2, <2>3
  <1>5. CASE Wake(t)
    <2>1. TypeOK' /\ MutexInv'
      BY <1>5 DEF Wake
    <2>2. CancelBudget'
      BY <1>5 DEF Wake, CancelBudget, Unanswered
    <2>3. SeenInv' /\ NoPassWhilePaused'
      BY <1>5 DEF Wake, SeenInv, NoPassWhilePaused
    <2> QED BY <2>1, <2>2, <2>3
  <1>6. CASE SpuriousWakeup(t)
    BY <1>6 DEF SpuriousWakeup, CancelBudget, Unanswered, SeenInv,
                NoPassWhilePaused
  <1>7. CASE LoadAndReturn(t)
    <2>1. TypeOK' /\ MutexInv'
      BY <1>7 DEF LoadAndReturn
    <2>2. CancelBudget'
      BY <1>7 DEF LoadAndReturn, CancelBudget, Unanswered
    <2>3. SeenInv' /\ NoPassWhilePaused'
      BY <1>7 DEF LoadAndReturn, SeenInv, NoPassWhilePaused
    <2> QED BY <2>1, <2>2, <2>3
  <1>8. CASE LoadReset(t)
    <2>1. TypeOK' /\ MutexInv'
      BY <1>8 DEF LoadReset
    <2>2. CancelBudget'
      BY <1>8 DEF LoadReset, CancelBudget, Unanswered
    <2>3. SeenInv' /\ NoPassWhilePaused'
      BY <1>8 DEF LoadReset, SeenInv, NoPassWhilePaused
    <2> QED BY <2>1, <2>2, <2>3
  <1>9. CASE Consume(t)
    <2>1. TypeOK' /\ MutexInv'
      BY <1>9 DEF Consume
    <2>2. \A u \in Executors : pc'[u] # "consume"
      BY <1>9 DEF Consume
    <2>3. Unanswered = 1 /\ Unanswered' = 0
      BY <1>9, <2>2 DEF Consume, Unanswered
    <2>4. CancelBudget'
      BY <1>9, <2>3 DEF Consume, CancelBudget
    <2>5. SeenInv' /\ NoPassWhilePaused'
      BY <1>9 DEF Consume, SeenInv, NoPassWhilePaused
    <2> QED BY <2>1, <2>4, <2>5
  <1> QED
    BY <1>1, <1>2, <1>3, <1>4, <1>5, <1>6, <1>7, <1>8, <1>9 DEF Check

(* The operators' stores and notifications preserve IInv. *)
LEMMA ControlInv ==
  ASSUME IInv, NEW o \in Operators, Control(o)
  PROVE  IInv'
  <1> USE ThreadsAssumption
      DEF IInv, TypeOK, MutexInv, Inside, Owning, States, Places
  <1>1. CASE PauseActivity(o)
    BY <1>1 DEF PauseActivity, CancelBudget, Unanswered, SeenInv,
                NoPassWhilePaused
  <1>2. CASE ContinueActivity(o)
    BY <1>2 DEF ContinueActivity, CancelBudget, Unanswered, SeenInv,
                NoPassWhilePaused
  <1>3. CASE ResetActivity(o)
    <2>1. TypeOK' /\ MutexInv'
      BY <1>3 DEF ResetActivity
    <2>2. CancelBudget'
      BY <1>3 DEF ResetActivity, CancelBudget, Unanswered
    <2>3. SeenInv' /\ NoPassWhilePaused'
      BY <1>3 DEF ResetActivity, SeenInv, NoPassWhilePaused
    <2> QED BY <2>1, <2>2, <2>3
  <1>4. CASE NotifyOne(o)
    BY <1>4 DEF NotifyOne, CancelBudget, Unanswered, SeenInv,
                NoPassWhilePaused
  <1> QED BY <1>1, <1>2, <1>3, <1>4 DEF Control

(* The inductive invariant holds in every behaviour. *)
THEOREM Invariance == Spec => []IInv
  <1>1. IInv /\ [Next]_vars => IInv'
    <2>1. CASE UNCHANGED vars
      BY <2>1 DEF vars, IInv, TypeOK, MutexInv, CancelBudget, Unanswered,
                  SeenInv, NoPassWhilePaused, Inside, Owning
    <2> QED BY <2>1, CheckInv, ControlInv DEF Next
  <1> QED BY InitInv, <1>1, PTL DEF Spec

(***************************************************************************)
(* No reset cancels two commands, for any number of threads                *)
(* (ActivityHelper::check_pause_or_cancel_execution).                      *)
(***************************************************************************)
THEOREM CancelOnce == Spec => []OneCancelPerReset
  <1>1. IInv => OneCancelPerReset
    BY ThreadsAssumption
       DEF IInv, TypeOK, CancelBudget, Unanswered, OneCancelPerReset
  <1> QED BY Invariance, <1>1, PTL

(***************************************************************************)
(* Nobody leaves the checkpoint without having met an instant that was not *)
(* paused, spurious wakeups included.                                      *)
(***************************************************************************)
THEOREM PauseHolds == Spec => []NoPassWhilePaused
  <1>1. IInv => NoPassWhilePaused
    BY DEF IInv
  <1> QED BY Invariance, <1>1, PTL

-----------------------------------------------------------------------------
(* A step of a checkpoint is a step of Activity or leaves it unchanged. *)
LEMMA CheckRefines ==
  ASSUME IInv, IInv', NEW t \in Executors, Check(t) \/ SpuriousWakeup(t)
  PROVE  [Abstract!Next]_(Abstract!vars)
  <1> USE ThreadsAssumption DEF IInv, TypeOK, Inside, States, Places
  <1>1. CASE Lock(t)
    <2>1. Abstract!Enter(t)
      BY <1>1 DEF Lock, Abstract!Enter
    <2> QED BY <2>1 DEF Abstract!Next
  <1>2. CASE Test(t) \/ Predicate(t) \/ Sleep(t) \/ Wake(t) \/ LoadReset(t)
             \/ SpuriousWakeup(t)
    <2>1. UNCHANGED <<state, resets, cancelled, seen>> /\ Inside' = Inside
      BY <1>2 DEF Test, Predicate, Sleep, Wake, LoadReset, SpuriousWakeup,
                  MutexInv
    <2> QED BY <2>1 DEF Abstract!vars
  <1>3. CASE LoadAndReturn(t)
    <2>1. Abstract!Pass(t)
      BY <1>3 DEF LoadAndReturn, NoPassWhilePaused, Abstract!Pass
    <2> QED BY <2>1 DEF Abstract!Next
  <1>4. CASE Consume(t)
    <2>1. t \in seen
      BY <1>4 DEF Consume, NoPassWhilePaused
    <2>2. resets - cancelled > 0
      BY <1>4 DEF Consume, CancelBudget, Unanswered
    <2>3. Inside' = Inside \ {t} /\ seen' = Inside \ {t}
      BY <1>4 DEF Consume
    <2>4. resets' - cancelled' = (resets - cancelled) - 1
      BY <1>4 DEF Consume
    <2>5. Abstract!Cancel(t)
      BY <1>4, <2>1, <2>2, <2>3, <2>4 DEF Consume, Abstract!Cancel
    <2> QED BY <2>5 DEF Abstract!Next
  <1> QED BY <1>1, <1>2, <1>3, <1>4 DEF Check

(* A store of an operator is a change of mode, a notification is nothing. *)
LEMMA ControlRefines ==
  ASSUME IInv, NEW o \in Operators, Control(o)
  PROVE  [Abstract!Next]_(Abstract!vars)
  <1> USE ThreadsAssumption DEF IInv, TypeOK, Inside, States
  <1>1. CASE PauseActivity(o)
    <2>1. Abstract!Control("paused")
      BY <1>1 DEF PauseActivity, Abstract!Control
    <2> QED BY <2>1 DEF Abstract!Next, Abstract!Modes
  <1>2. CASE ContinueActivity(o)
    <2>1. Abstract!Control("running")
      BY <1>2 DEF ContinueActivity, Abstract!Control
    <2> QED BY <2>1 DEF Abstract!Next, Abstract!Modes
  <1>3. CASE ResetActivity(o)
    <2>1. resets' - cancelled' = (resets - cancelled) + 1
      BY <1>3 DEF ResetActivity
    <2>2. Abstract!Control("reset")
      BY <1>3, <2>1 DEF ResetActivity, Abstract!Control
    <2> QED BY <2>2 DEF Abstract!Next, Abstract!Modes
  <1>4. CASE NotifyOne(o)
    BY <1>4 DEF NotifyOne, Abstract!vars
  <1> QED BY <1>1, <1>2, <1>3, <1>4 DEF Control

(***************************************************************************)
(* The helper implements the abstract activity: seen from its callers, the *)
(* mutex, the condition variable and the repeated reads of _state cannot   *)
(* be told from atomic checkpoints.                                        *)
(***************************************************************************)
THEOREM Refinement == Spec => AbstractSpec
  <1>1. Init => Abstract!Init
    BY DEF Init, Abstract!Init, Inside
  <1>2. IInv /\ IInv' /\ [Next]_vars => [Abstract!Next]_(Abstract!vars)
    <2>1. CASE UNCHANGED vars
      BY <2>1 DEF vars, Abstract!vars, Inside
    <2> QED BY <2>1, CheckRefines, ControlRefines DEF Next
  <1> QED BY Invariance, <1>1, <1>2, PTL DEF Spec, AbstractSpec, Abstract!Spec

=============================================================================
