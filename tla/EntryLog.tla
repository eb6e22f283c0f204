------------------------------- MODULE EntryLog -------------------------------
(***************************************************************************)
(* What romi-datalog's file log promises to those who store entries in it: *)
(* the entries are kept in the order in which they were accepted, each     *)
(* once; what has been saved stays saved; a process that dies takes with   *)
(* it only the newest entries, and only some that were not saved; a log    *)
(* that is closed in good order has saved everything it accepted.          *)
(***************************************************************************)
EXTENDS Naturals, Sequences

CONSTANT Entry    \* what is stored: a time, a topic, a name and a value

VARIABLES
  accepted,   \* the entries the log holds, oldest first
  saved,      \* how many of them, from the oldest, are on disk
  open        \* the log accepts entries

vars == <<accepted, saved, open>>

Init ==
  /\ accepted = <<>>
  /\ saved = 0
  /\ open = FALSE

Open ==
  /\ ~open
  /\ open' = TRUE
  /\ UNCHANGED <<accepted, saved>>

Accept(e) ==
  /\ open
  /\ accepted' = Append(accepted, e)
  /\ UNCHANGED <<saved, open>>

Save ==
  /\ open
  /\ saved' \in saved..Len(accepted)
  /\ UNCHANGED <<accepted, open>>

Close ==
  /\ open
  /\ saved' = Len(accepted)
  /\ open' = FALSE
  /\ UNCHANGED accepted

Crash ==
  /\ open
  /\ \E n \in saved..Len(accepted) :
       /\ accepted' = SubSeq(accepted, 1, n)
       /\ saved' = n
  /\ open' = FALSE

Next ==
  \/ Open \/ Save \/ Close \/ Crash
  \/ \E e \in Entry : Accept(e)

Spec == Init /\ [][Next]_vars
=============================================================================
