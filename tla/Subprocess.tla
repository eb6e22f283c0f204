------------------------------ MODULE Subprocess ------------------------------
(***************************************************************************)
(* romi::Subprocess: the life of a child process against the wrapper's     *)
(* idea of it.  One thread calls start, is_running, wait, stop and the     *)
(* destructor; the kernel hands out process numbers anew once their owner  *)
(* has been reaped and its group is empty, and other programs live under   *)
(* them.  A number n > 0 given to kill() means a process, -n its group.    *)
(***************************************************************************)
EXTENDS Integers, FiniteSets

CONSTANTS
  Pids,        \* the numbers the kernel gives to new processes
  Codes,       \* exit codes of a child
  OthersReap,  \* whether other code of the program may reap the child
  MaxStarts    \* bound: children started

InitPid == 1   \* the number of the system's first process
NoPid == -1    \* pid_ and pgid_ without a child

ASSUME PidsAssumption == Pids \subseteq Int /\ \A p \in Pids : p > InitPid
ASSUME CodesAssumption == Codes \subseteq Nat
ASSUME ReapAssumption == OthersReap \in BOOLEAN /\ MaxStarts \in Nat

VARIABLES
  pid, pgid, newPgrp, result,  \* the object: pid_, pgid_, new_pgrp_, result_
  pc,                          \* what the caller is doing
  toGroup,                     \* the argument of the stop() under way
  proc,                        \* the kernel: what lives under each number
  kin,                         \* groups in which a descendant of a child lives
  starts,
  ended,      \* history: how the last child ended, Unknown before
  refused,    \* history: a start() was refused since the child was started
  elsewhere,  \* history: the last child was reaped by other code
  strayed,    \* history: the last signal went to somebody else's process
  answer      \* history: what the last wait() returned, and what it should

object == <<pid, pgid, newPgrp, result, pc, toGroup>>
kernel == <<proc, kin>>
history == <<ended, refused, elsewhere, strayed, answer>>
vars == <<object, kernel, starts, history>>

Signals == {"graceful", "force"}

(* ISubprocess::Result: exit_code, and term_signal with "none" for 0. *)
Unknown == [code |-> -1, signal |-> "none"]
Exits(c) == [code |-> c, signal |-> "none"]
Killed(s) == [code |-> -1, signal |-> s]
Results == {Unknown} \cup {Exits(c) : c \in Codes} \cup {Killed(s) : s \in Signals}

(* A process: its group, the signals it got, and how it ended. *)
Process == [state : {"free", "running", "zombie", "foreign"},
            group : Pids \cup {NoPid}, told : SUBSET Signals, exit : Results]
Nobody(s) == [state |-> s, group |-> NoPid, told |-> {}, exit |-> Unknown]
NoAnswer == [got |-> Unknown, due |-> Unknown, early |-> FALSE]

TypeOK ==
  /\ pid \in Pids \cup {NoPid} /\ pgid \in Pids \cup {NoPid}
  /\ newPgrp \in BOOLEAN /\ toGroup \in BOOLEAN
  /\ result \in Results
  /\ pc \in {"idle", "starting", "poll", "wait", "stopwait", "gone"}
  /\ proc \in [Pids -> Process]
  /\ kin \subseteq Pids
  /\ starts \in 0 .. MaxStarts
  /\ ended \in Results
  /\ {refused, elsewhere, strayed} \subseteq BOOLEAN
  /\ answer \in [got : Results, due : Results, early : BOOLEAN]

Init ==
  /\ pid = NoPid /\ pgid = NoPid /\ newPgrp = TRUE /\ result = Unknown
  /\ pc = "idle" /\ toGroup = FALSE
  /\ proc = [p \in Pids |-> Nobody("free")]
  /\ kin = {}
  /\ starts = 0
  /\ ended = Unknown
  /\ refused = FALSE /\ elsewhere = FALSE /\ strayed = FALSE
  /\ answer = NoAnswer

State(p, s) == p \in Pids /\ proc[p].state = s
Ours(p) == State(p, "running") \/ State(p, "zombie")

-----------------------------------------------------------------------------
(* start() *)

(* The arguments are stored before the state is looked at. *)
StartRefused(g) ==
  /\ pc = "idle"
  /\ pid > 0
  /\ newPgrp' = g
  /\ refused' = TRUE
  /\ UNCHANGED <<pid, pgid, result, pc, toGroup, kernel, starts, ended,
                 elsewhere, strayed, answer>>

(* fork() fails: the result has been cleared already. *)
StartFails(g) ==
  /\ pc = "idle"
  /\ pid <= 0
  /\ newPgrp' = g
  /\ result' = Unknown
  /\ ended' = Unknown
  /\ UNCHANGED <<pid, pgid, pc, toGroup, kernel, starts, refused, elsewhere,
                 strayed, answer>>

(* fork(): the number is free and heads no group. *)
Fork(g) ==
  /\ pc = "idle"
  /\ pid <= 0
  /\ starts < MaxStarts
  /\ starts' = starts + 1
  /\ newPgrp' = g
  /\ result' = Unknown
  /\ \E p \in Pids \ kin :
       /\ State(p, "free")
       /\ pid' = p
       /\ proc' = [proc EXCEPT ![p] = Nobody("running")]
  /\ pc' = IF g THEN "starting" ELSE "idle"
  /\ ended' = Unknown
  /\ refused' = FALSE
  /\ elsewhere' = FALSE
  /\ strayed' = FALSE
  /\ answer' = NoAnswer
  /\ UNCHANGED <<pgid, toGroup, kin>>

\* Mutant: the parent leaves the group to the child.
SetGroupNot ==
  /\ pc = "starting"
  /\ pgid' = pid
  /\ pc' = "idle"
  /\ UNCHANGED <<pid, newPgrp, result, toGroup, kernel, starts, history>>

(* setpgid(pid_, pid_) in the parent; it fails when the child was faster,   *)
(* or is gone.                                                             *)
SetGroup ==
  /\ pc = "starting"
  /\ pgid' = pid
  /\ proc' = IF Ours(pid) THEN [proc EXCEPT ![pid].group = pid] ELSE proc
  /\ pc' = "idle"
  /\ UNCHANGED <<pid, newPgrp, result, toGroup, kin, starts, history>>

-----------------------------------------------------------------------------
(* is_running(), wait() and the destructor *)

(* waitpid() finds the child dead: it is decoded and its number forgotten. *)
Reap ==
  /\ State(pid, "zombie")
  /\ result' = proc[pid].exit
  /\ proc' = [proc EXCEPT ![pid] = Nobody("free")]
  /\ pid' = NoPid

(* ECHILD: somebody else reaped it. *)
NoChild == pid > 0 /\ ~Ours(pid)

\* Mutant: the status is read and not kept.
IsRunningForgets ==
  /\ pc = "idle" /\ State(pid, "zombie")
  /\ proc' = [proc EXCEPT ![pid] = Nobody("free")]
  /\ pid' = NoPid
  /\ UNCHANGED <<result, pgid, newPgrp, pc, toGroup, kin, starts, history>>

\* Mutant: the number is kept once the child is reaped.
IsRunningKeepsPid ==
  /\ pc = "idle" /\ State(pid, "zombie")
  /\ result' = proc[pid].exit
  /\ proc' = [proc EXCEPT ![pid] = Nobody("free")]
  /\ UNCHANGED <<pid, pgid, newPgrp, pc, toGroup, kin, starts, history>>

(* is_running(); while the child runs nothing changes. *)
IsRunning ==
  /\ pc = "idle"
  /\ \/ Reap
     \/ NoChild /\ pid' = NoPid /\ UNCHANGED <<result, proc>>
  /\ UNCHANGED <<pgid, newPgrp, pc, toGroup, kin, starts, history>>

(* What a wait() without a child returns: a result with an exit code, or    *)
(* nothing known.                                                          *)
Cached == IF result.code >= 0 THEN result ELSE Unknown

Answer(r, due, early) == answer' = [got |-> r, due |-> due, early |-> early]

\* Mutant: the cached result is not returned.
WaitCachedNot ==
  /\ pc = "idle"
  /\ pid <= 0
  /\ Answer(Unknown, ended, TRUE)
  /\ UNCHANGED <<object, kernel, starts, ended, refused, elsewhere, strayed>>

WaitCached ==
  /\ pc = "idle"
  /\ pid <= 0
  /\ Answer(Cached, IF elsewhere THEN Unknown ELSE ended, TRUE)
  /\ UNCHANGED <<object, kernel, starts, ended, refused, elsewhere, strayed>>

WaitBlocks ==
  /\ pc = "idle"
  /\ pid > 0
  /\ pc' = "wait"
  /\ UNCHANGED <<pid, pgid, newPgrp, result, toGroup, kernel, starts, history>>

(* The child ends, or is not there: an exception, and pid_ stays. *)
WaitEnds ==
  /\ pc \in {"wait", "stopwait"}
  /\ pc' = "idle"
  /\ \/ Reap /\ Answer(proc[pid].exit, ended, FALSE)
     \/ NoChild /\ UNCHANGED <<pid, result, proc, answer>>
  /\ UNCHANGED <<pgid, newPgrp, toGroup, kin, starts, ended, refused,
                 elsewhere, strayed>>

(* cleanup_non_blocking(): a child that still runs is left alone. *)
Destroy ==
  /\ pc = "idle"
  /\ pc' = "gone"
  /\ IF State(pid, "zombie") THEN Reap ELSE UNCHANGED <<pid, result, proc>>
  /\ UNCHANGED <<pgid, newPgrp, toGroup, kin, starts, history>>

-----------------------------------------------------------------------------
(* stop() *)

(* send_signal(): whom kill() is asked to reach. *)
Target(g) == IF g /\ newPgrp THEN -pgid ELSE pid

(* The children it reaches, and whether it reaches somebody else. *)
Reached(t) == {p \in Pids : Ours(p) /\ (t = p \/ -t = proc[p].group)}
Stray(t) ==
  \/ t = InitPid
  \/ \E p \in Pids : State(p, "foreign") /\ t \in {p, -p}

Kill(t, s) ==
  /\ proc' = [p \in Pids |-> IF p \in Reached(t)
                             THEN [proc[p] EXCEPT !.told = @ \cup {s}]
                             ELSE proc[p]]
  /\ kin' = IF s = "force" THEN kin \ {-t} ELSE kin
  /\ strayed' = Stray(t)

(* The graceful signal.  kill() may not be allowed to reach a stranger.    *)
Stop(g) ==
  /\ pc = "idle"
  /\ pid > 0
  /\ toGroup' = g
  /\ Kill(Target(g), "graceful")
  /\ \/ pc' = "poll"
     \/ Stray(Target(g)) /\ UNCHANGED pc
  /\ UNCHANGED <<pid, pgid, newPgrp, result, starts, ended, refused,
                 elsewhere, answer>>

(* is_running() before the deadline. *)
Poll ==
  /\ pc = "poll"
  /\ pc' = "idle"
  /\ \/ Reap
     \/ NoChild /\ pid' = NoPid /\ UNCHANGED <<result, proc>>
  /\ UNCHANGED <<pgid, newPgrp, toGroup, kin, starts, history>>

(* The deadline has passed. *)
ForceStop ==
  /\ pc = "poll"
  /\ Kill(Target(toGroup), "force")
  /\ \/ pc' = "stopwait"
     \/ Stray(Target(toGroup)) /\ pc' = "idle"
  /\ UNCHANGED <<pid, pgid, newPgrp, result, toGroup, starts, ended, refused,
                 elsewhere, answer>>

-----------------------------------------------------------------------------
(* The children and the rest of the system *)

(* setpgid(0, 0) in the child, before it becomes the shell. *)
ChildSetsGroup(p) ==
  /\ State(p, "running") /\ pid = p /\ pc = "starting"
  /\ proc[p].group = NoPid
  /\ proc' = [proc EXCEPT ![p].group = p]
  /\ UNCHANGED <<object, kin, starts, history>>

(* The shell starts a process that may outlive it. *)
ChildForks(p) ==
  /\ State(p, "running") /\ proc[p].group = p
  /\ p \notin kin
  /\ kin' = kin \cup {p}
  /\ UNCHANGED <<object, proc, starts, history>>

Dies(p, r) ==
  /\ State(p, "running")
  /\ proc' = [proc EXCEPT ![p] = [@ EXCEPT !.state = "zombie", !.exit = r]]
  /\ ended' = IF p = pid THEN r ELSE ended
  /\ UNCHANGED <<object, kin, starts, refused, elsewhere, strayed, answer>>

ChildExits(p) == \E c \in Codes : Dies(p, Exits(c))

(* A graceful signal may be caught or ignored; the other may not. *)
ChildKilled(p) == \E s \in proc[p].told : Dies(p, Killed(s))

ReapedElsewhere(p) ==
  /\ OthersReap
  /\ State(p, "zombie")
  /\ proc' = [proc EXCEPT ![p] = Nobody("free")]
  /\ elsewhere' = (elsewhere \/ p = pid)
  /\ UNCHANGED <<object, kin, starts, ended, refused, strayed, answer>>

KinEnds(p) ==
  /\ p \in kin
  /\ kin' = kin \ {p}
  /\ UNCHANGED <<object, proc, starts, history>>

StrangerComes(p) ==
  /\ State(p, "free") /\ p \notin kin
  /\ proc' = [proc EXCEPT ![p] = Nobody("foreign")]
  /\ UNCHANGED <<object, kin, starts, history>>

StrangerGoes(p) ==
  /\ State(p, "foreign")
  /\ proc' = [proc EXCEPT ![p] = Nobody("free")]
  /\ UNCHANGED <<object, kin, starts, history>>

-----------------------------------------------------------------------------
Caller ==
  \/ \E g \in BOOLEAN : StartRefused(g) \/ StartFails(g) \/ Fork(g) \/ Stop(g)
  \/ SetGroup \/ IsRunning \/ WaitCached \/ WaitBlocks \/ WaitEnds
  \/ Poll \/ ForceStop \/ Destroy

System(p) ==
  \/ ChildSetsGroup(p) \/ ChildForks(p) \/ ChildExits(p) \/ ChildKilled(p)
  \/ ReapedElsewhere(p) \/ KinEnds(p) \/ StrangerComes(p) \/ StrangerGoes(p)

(* Nothing is said of the time after the destructor. *)
Next == Caller \/ (pc # "gone" /\ \E p \in Pids : System(p))

Spec == Init /\ [][Next]_vars

(* A call goes on, and a process that cannot refuse a signal ends.  Nothing *)
(* makes a child end by itself.                                            *)
Progress ==
  \/ SetGroup \/ WaitEnds \/ ForceStop
  \/ \E p \in Pids : "force" \in proc[p].told /\ ChildKilled(p)

FairSpec == Spec /\ WF_vars(Progress)

-----------------------------------------------------------------------------
(* Properties *)

(* As long as the object lives no child is lost: each one that was not     *)
(* reaped is the one in pid_, so it can be waited for (start, is_running). *)
NoChildLost ==
  /\ \A p \in Pids : Ours(p) => pid = p
  /\ pid > 0 /\ ~elsewhere => Ours(pid)

(* "Send a signal to the child or to its process group": nobody else is    *)
(* reached, although numbers are used again; unless a second start() was   *)
(* refused while the child lived, which changes new_pgrp_ all the same, or *)
(* other code reaped the child (send_signal).                              *)
StraysExplained == strayed => refused \/ elsewhere

(* Whichever call reaps the child, last_result() is how it ended from then *)
(* on, and is empty while it lives (is_running, wait, the destructor).     *)
ResultKept == ~elsewhere => result = (IF pid = NoPid THEN ended ELSE Unknown)

(* "If already exited, returns cached result if available": wait() returns *)
(* how the child ended, unless a signal ended it and another call had      *)
(* reaped it, for the cached result counts by its exit code alone.         *)
WaitAnswers ==
  answer.got = answer.due \/ (answer.early /\ answer.due.signal # "none")

(* A child is found, its end is kept, and wait() tells it. *)
ChildAccounted == NoChildLost /\ ResultKept /\ WaitAnswers

(* No stop() goes on forever, whatever the child does about the graceful   *)
(* signal; unless a refused start() changed whom it signals.               *)
StopReturns == []<>(pc \notin {"poll", "stopwait"} \/ refused)
=============================================================================
