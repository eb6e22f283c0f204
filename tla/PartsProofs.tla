------------------------------ MODULE PartsProofs ------------------------------
(***************************************************************************)
(* Proofs about the parts, for any process numbers, exit codes, commands,  *)
(* threads, files, cameras, buffers and directions, and any bounds: each   *)
(* part by itself, and then what Parts has made of them.                   *)
(***************************************************************************)
EXTENDS Parts, Sequences, FiniteSetTheorems, TLAPS

-----------------------------------------------------------------------------
(* Subprocess.  The kernel's table and the object agree (Known): what      *)
(* lives of the object's children lives under pid_, and its end is what    *)
(* the history says.  The group is the child's own unless a start was      *)
(* refused (Grouped) - from both follow whom a signal reaches and what     *)
(* wait() returns.                                                         *)

(* The object and the kernel. *)
Known ==
  /\ \A p \in Pids : Ours(p) => pid = p
  /\ pid \in Pids /\ ~elsewhere => Ours(pid)
  /\ elsewhere => \A p \in Pids : ~Ours(p)

(* The result and the end of the child. *)
EndsAgree ==
  /\ pid \in Pids \/ elsewhere => result = Unknown
  /\ pid = NoPid /\ ~elsewhere => result = ended
  /\ \A p \in Pids : /\ State(p, "running") => ended = Unknown
                     /\ State(p, "zombie") => ended = proc[p].exit

(* The group. *)
Grouped ==
  /\ pc \in {"starting", "poll"} => pid \in Pids
  /\ pid \in Pids /\ newPgrp /\ ~refused => pgid = pid \/ pc = "starting"

Agreement == Known /\ EndsAgree /\ Grouped

ChildInv == TypeOK /\ Agreement /\ StraysExplained /\ WaitAnswers

(* A number is a child's or none, and none is positive but a child's. *)
LEMMA Numbers ==
  ASSUME TypeOK
  PROVE  /\ pid > 0 <=> pid \in Pids
         /\ pid <= 0 <=> pid = NoPid
         /\ NoPid \notin Pids
         /\ \A p \in Pids : p \in Int /\ p > InitPid
BY PidsAssumption DEF TypeOK, NoPid, InitPid

(* The records that the table and the results are made of. *)
LEMMA ProcessTypes ==
  /\ \A s \in {"free", "running", "zombie", "foreign"} : Nobody(s) \in Process
  /\ Unknown \in Results
  /\ \A c \in Codes : Exits(c) \in Results
  /\ \A s \in Signals : Killed(s) \in Results
BY DEF Process, Nobody, Results, Unknown, Exits, Killed, Signals

LEMMA ProcessFields ==
  ASSUME NEW x \in Process
  PROVE  /\ x.state \in {"free", "running", "zombie", "foreign"}
         /\ x.exit \in Results
         /\ \A g \in Pids : [x EXCEPT !.group = g] \in Process
         /\ \A s \in Signals : [x EXCEPT !.told = @ \cup {s}] \in Process
         /\ \A r \in Results : [x EXCEPT !.state = "zombie", !.exit = r] \in Process
BY DEF Process

THEOREM ChildInitially == Init => ChildInv
<1> SUFFICES ASSUME Init PROVE ChildInv
  OBVIOUS
<1>1. TypeOK
  <2>1. proc \in [Pids -> Process]
    BY ProcessTypes DEF Init
  <2>2. starts \in 0 .. MaxStarts
    BY ReapAssumption DEF Init
  <2>3. answer \in [got : Results, due : Results, early : BOOLEAN]
    BY ProcessTypes DEF Init, NoAnswer
  <2> QED  BY <2>1, <2>2, <2>3, ProcessTypes DEF Init, TypeOK
<1>2. Agreement
  <2>1. \A p \in Pids : proc[p].state = "free"
    BY DEF Init, Nobody
  <2>2. NoPid \notin Pids
    BY <1>1, Numbers
  <2> QED  BY <2>1, <2>2 DEF Init, Agreement, Known, EndsAgree, Grouped, Ours, State
<1>3. StraysExplained /\ WaitAnswers
  BY DEF Init, StraysExplained, WaitAnswers, NoAnswer
<1> QED  BY <1>1, <1>2, <1>3 DEF ChildInv

-----------------------------------------------------------------------------
(* The steps that leave the table alone. *)

LEMMA StartRefusedKeeps ==
  ASSUME ChildInv, NEW g \in BOOLEAN, StartRefused(g)
  PROVE  ChildInv'
<1> USE DEF ChildInv, StartRefused, object, kernel, history
<1>1. TypeOK'
  BY DEF TypeOK
<1>2. Agreement'
  BY DEF Agreement, Known, EndsAgree, Grouped, Ours, State, TypeOK
<1>3. (StraysExplained /\ WaitAnswers)'
  BY DEF StraysExplained, WaitAnswers
<1> QED  BY <1>1, <1>2, <1>3

LEMMA StartFailsKeeps ==
  ASSUME ChildInv, NEW g \in BOOLEAN, StartFails(g)
  PROVE  ChildInv'
<1> USE DEF ChildInv, StartFails, object, kernel, history
<1>1. pid = NoPid /\ pid \notin Pids
  BY Numbers
<1>2. TypeOK'
  BY ProcessTypes DEF TypeOK
<1>3. Agreement'
  BY <1>1 DEF Agreement, Known, EndsAgree, Grouped, Ours, State, TypeOK
<1>4. (StraysExplained /\ WaitAnswers)'
  BY DEF StraysExplained, WaitAnswers
<1> QED  BY <1>2, <1>3, <1>4

LEMMA ForkKeeps ==
  ASSUME ChildInv, NEW g \in BOOLEAN, Fork(g)
  PROVE  ChildInv'
<1> USE DEF ChildInv, Fork, object, kernel, history
<1>1. pid = NoPid /\ pid \notin Pids
  BY Numbers
<1>2. PICK p \in Pids : /\ State(p, "free")
                        /\ pid' = p
                        /\ proc' = [proc EXCEPT ![p] = Nobody("running")]
  OBVIOUS
<1>3. TypeOK'
  <2>1. proc' \in [Pids -> Process]
    BY <1>2, ProcessTypes DEF TypeOK
  <2>2. starts' \in 0 .. MaxStarts
    BY ReapAssumption DEF TypeOK
  <2> QED  BY <1>2, <2>1, <2>2, ProcessTypes DEF TypeOK, NoAnswer
<1>4. \A q \in Pids : ~Ours(q)
  BY <1>1 DEF Agreement, Known
<1>5. /\ proc'[p] = Nobody("running")
      /\ \A q \in Pids \ {p} : proc'[q] = proc[q]
  BY <1>2 DEF TypeOK
<1>6. Agreement'
  BY <1>2, <1>4, <1>5 DEF Agreement, Known, EndsAgree, Grouped, Ours, State, Nobody
<1>7. (StraysExplained /\ WaitAnswers)'
  BY DEF StraysExplained, WaitAnswers, NoAnswer
<1> QED  BY <1>3, <1>6, <1>7

-----------------------------------------------------------------------------
(* What the other steps do to the table. *)

(* The children's states and ends stay. *)
LEMMA SameChildren ==
  ASSUME ChildInv,
         UNCHANGED <<pid, result, ended, elsewhere>>,
         \A p \in Pids : IF Ours(p) THEN /\ proc'[p].state = proc[p].state
                                         /\ proc'[p].exit = proc[p].exit
                                    ELSE ~Ours(p)'
  PROVE  Known' /\ EndsAgree'
BY DEF ChildInv, Agreement, Known, EndsAgree, Ours, State

(* The child is reaped by the object. *)
LEMMA Reaped ==
  ASSUME ChildInv, Reap, UNCHANGED <<ended, elsewhere>>
  PROVE  /\ pid \in Pids /\ pid' = NoPid /\ pid' \notin Pids
         /\ proc[pid].exit = ended
         /\ result' \in Results
         /\ proc' \in [Pids -> Process]
         /\ Known' /\ EndsAgree'
<1> USE DEF ChildInv
<1>1. /\ pid \in Pids /\ pid' = NoPid /\ pid' \notin Pids
      /\ proc[pid].exit = ended
  BY Numbers DEF Reap, State, Agreement, EndsAgree
<1>2. result' \in Results
  BY <1>1, ProcessFields DEF Reap, TypeOK
<1>3. proc' \in [Pids -> Process]
  BY <1>1, ProcessTypes DEF Reap, TypeOK
<1>4. \A p \in Pids : ~Ours(p)'
  <2> SUFFICES ASSUME NEW p \in Pids PROVE ~Ours(p)'
    OBVIOUS
  <2>1. CASE p = pid
    BY <1>1, <2>1 DEF Reap, TypeOK, Ours, State, Nobody
  <2>2. CASE p # pid
    <3>1. ~Ours(p) /\ proc'[p] = proc[p]
      BY <2>2 DEF Reap, TypeOK, Agreement, Known
    <3> QED  BY <3>1 DEF Ours, State
  <2> QED  BY <2>1, <2>2
<1>5. ~elsewhere
  BY <1>1 DEF Reap, Agreement, Known, Ours
<1>6. Known' /\ EndsAgree'
  BY <1>1, <1>4, <1>5 DEF Known, EndsAgree, Ours, Reap
<1> QED  BY <1>1, <1>2, <1>3, <1>6

(* Other code has reaped the child, and its number is given up. *)
LEMMA Missed ==
  ASSUME ChildInv, NoChild, pid' = NoPid, UNCHANGED <<result, proc, ended, elsewhere>>
  PROVE  pid' \notin Pids /\ Known' /\ EndsAgree'
<1>1. elsewhere /\ NoPid \notin Pids
  BY Numbers DEF ChildInv, NoChild, Agreement, Known
<1> QED
  BY <1>1 DEF ChildInv, Agreement, Known, EndsAgree, Ours, State

(* A signal: the table keeps who lives, and nobody else is reached. *)
LEMMA Signalled ==
  ASSUME ChildInv, NEW g \in BOOLEAN, NEW s \in Signals, Kill(Target(g), s),
         pid \in Pids, pc # "starting",
         UNCHANGED <<pid, result, ended, elsewhere>>
  PROVE  /\ proc' \in [Pids -> Process]
         /\ kin' \subseteq Pids
         /\ strayed' \in BOOLEAN
         /\ strayed' => refused \/ elsewhere
         /\ Known' /\ EndsAgree'
<1> USE DEF ChildInv
<1>1. \A p \in Pids : [proc[p] EXCEPT !.told = @ \cup {s}] \in Process
  BY ProcessFields DEF TypeOK
<1>2. proc' \in [Pids -> Process]
  BY <1>1 DEF Kill, TypeOK
<1>3. kin' \subseteq Pids
  BY DEF Kill, TypeOK
<1>4. \A p \in Pids : proc'[p].state = proc[p].state /\ proc'[p].exit = proc[p].exit
  BY DEF Kill, TypeOK, Process
<1>5. Known' /\ EndsAgree'
  BY <1>4, SameChildren DEF Ours, State
<1>6. ASSUME ~refused, ~elsewhere
      PROVE  ~Stray(Target(g))
  <2>1. State(pid, "running") \/ State(pid, "zombie")
    BY <1>6 DEF Agreement, Known, Ours
  <2>2. Target(g) \in {pid, -pid}
    BY <1>6 DEF Target, Agreement, Grouped
  <2>3. pid \in Int /\ pid > 1 /\ \A p \in Pids : p \in Int /\ p > 1
    BY PidsAssumption DEF InitPid
  <2>4. Target(g) # InitPid
    BY <2>2, <2>3 DEF InitPid
  <2>5. ASSUME NEW p \in Pids, State(p, "foreign"), Target(g) \in {p, -p}
        PROVE  FALSE
    <3>1. p = pid
      BY <2>2, <2>3, <2>5
    <3> QED  BY <2>1, <2>5, <3>1 DEF State
  <2> QED  BY <2>4, <2>5 DEF Stray
<1>7. strayed' \in BOOLEAN /\ (strayed' => refused \/ elsewhere)
  BY <1>6 DEF Kill, Stray, TypeOK
<1> QED  BY <1>2, <1>3, <1>5, <1>7

-----------------------------------------------------------------------------
(* One lemma for each action. *)

LEMMA SetGroupKeeps ==
  ASSUME ChildInv, SetGroup
  PROVE  ChildInv'
<1> USE DEF ChildInv, SetGroup, object, kernel, history
<1>1. pid \in Pids
  BY DEF Agreement, Grouped
<1>2. [proc[pid] EXCEPT !.group = pid] \in Process
  BY <1>1, ProcessFields DEF TypeOK
<1>3. proc' \in [Pids -> Process]
  BY <1>1, <1>2 DEF TypeOK
<1>4. TypeOK'
  BY <1>1, <1>3 DEF TypeOK
<1>5. \A p \in Pids : proc'[p].state = proc[p].state /\ proc'[p].exit = proc[p].exit
  BY <1>1 DEF TypeOK, Process
<1>6. Known' /\ EndsAgree'
  BY <1>5, SameChildren DEF Ours, State
<1>7. Grouped'
  BY DEF Grouped
<1>8. (StraysExplained /\ WaitAnswers)'
  BY DEF StraysExplained, WaitAnswers
<1> QED  BY <1>4, <1>6, <1>7, <1>8 DEF Agreement

LEMMA IsRunningKeeps ==
  ASSUME ChildInv, IsRunning
  PROVE  ChildInv'
<1> USE DEF ChildInv, IsRunning, history
<1>1. /\ pid' \notin Pids /\ pid' = NoPid /\ result' \in Results
      /\ proc' \in [Pids -> Process] /\ Known' /\ EndsAgree'
  BY Reaped, Missed DEF TypeOK
<1>2. TypeOK'
  BY <1>1 DEF TypeOK
<1>3. Grouped'
  BY <1>1 DEF Grouped
<1>4. (StraysExplained /\ WaitAnswers)'
  BY DEF StraysExplained, WaitAnswers
<1> QED  BY <1>1, <1>2, <1>3, <1>4 DEF Agreement

LEMMA PollKeeps ==
  ASSUME ChildInv, Poll
  PROVE  ChildInv'
<1> USE DEF ChildInv, Poll, history
<1>1. /\ pid' \notin Pids /\ pid' = NoPid /\ result' \in Results
      /\ proc' \in [Pids -> Process] /\ Known' /\ EndsAgree'
  BY Reaped, Missed DEF TypeOK
<1>2. TypeOK'
  BY <1>1 DEF TypeOK
<1>3. Grouped'
  BY <1>1 DEF Grouped
<1>4. (StraysExplained /\ WaitAnswers)'
  BY DEF StraysExplained, WaitAnswers
<1> QED  BY <1>1, <1>2, <1>3, <1>4 DEF Agreement

(* The cached result is that of the child, or tells nothing of a signal. *)
LEMMA WaitCachedKeeps ==
  ASSUME ChildInv, WaitCached
  PROVE  ChildInv'
<1> USE DEF ChildInv, WaitCached, object, kernel
<1>1. result = IF elsewhere THEN Unknown ELSE ended
  BY Numbers DEF Agreement, EndsAgree
<1>2. /\ Cached \in Results
      /\ (IF elsewhere THEN Unknown ELSE ended) \in Results
  BY ProcessTypes DEF Cached, TypeOK
<1>3. TypeOK'
  <2>1. answer' \in [got : Results, due : Results, early : BOOLEAN]
    BY <1>2 DEF Answer
  <2> QED  BY <2>1 DEF TypeOK
<1>4. Agreement'
  BY DEF Agreement, Known, EndsAgree, Grouped, Ours, State
<1>5. StraysExplained'
  BY DEF StraysExplained
<1>6. WaitAnswers'
  <2>1. result.code >= 0 \/ result.signal # "none" \/ result = Unknown
    <3>1. CASE result = Unknown
      BY <3>1
    <3>2. CASE \E c \in Codes : result = Exits(c)
      BY <3>2, CodesAssumption DEF Exits
    <3>3. CASE \E s \in Signals : result = Killed(s)
      BY <3>3 DEF Killed, Signals
    <3> QED  BY <3>1, <3>2, <3>3 DEF TypeOK, Results
  <2> QED  BY <1>1, <2>1 DEF WaitAnswers, Answer, Cached
<1> QED  BY <1>3, <1>4, <1>5, <1>6

LEMMA WaitBlocksKeeps ==
  ASSUME ChildInv, WaitBlocks
  PROVE  ChildInv'
<1> USE DEF ChildInv, WaitBlocks, object, kernel, history
<1>1. TypeOK'
  BY DEF TypeOK
<1>2. Agreement'
  BY DEF Agreement, Known, EndsAgree, Grouped, Ours, State
<1>3. (StraysExplained /\ WaitAnswers)'
  BY DEF StraysExplained, WaitAnswers
<1> QED  BY <1>1, <1>2, <1>3

LEMMA WaitEndsKeeps ==
  ASSUME ChildInv, WaitEnds
  PROVE  ChildInv'
<1> USE DEF ChildInv, WaitEnds
<1>1. CASE Reap /\ Answer(proc[pid].exit, ended, FALSE)
  <2>1. /\ pid' \notin Pids /\ pid' = NoPid /\ result' \in Results
        /\ proc[pid].exit = ended
        /\ proc' \in [Pids -> Process] /\ Known' /\ EndsAgree'
    BY <1>1, Reaped
  <2>2. answer' = [got |-> ended, due |-> ended, early |-> FALSE]
    BY <1>1, <2>1 DEF Answer
  <2>3. TypeOK'
    BY <2>1, <2>2 DEF TypeOK
  <2>4. Grouped'
    BY <2>1 DEF Grouped
  <2>5. (StraysExplained /\ WaitAnswers)'
    BY <2>2 DEF StraysExplained, WaitAnswers
  <2> QED  BY <2>1, <2>3, <2>4, <2>5 DEF Agreement
<1>2. CASE NoChild /\ UNCHANGED <<pid, result, proc, answer>>
  <2>1. TypeOK'
    BY <1>2 DEF TypeOK
  <2>2. Agreement'
    BY <1>2 DEF Agreement, Known, EndsAgree, Grouped, Ours, State
  <2>3. (StraysExplained /\ WaitAnswers)'
    BY <1>2 DEF StraysExplained, WaitAnswers
  <2> QED  BY <2>1, <2>2, <2>3
<1> QED  BY <1>1, <1>2

LEMMA DestroyKeeps ==
  ASSUME ChildInv, Destroy
  PROVE  ChildInv'
<1> USE DEF ChildInv, Destroy, history
<1>1. CASE State(pid, "zombie")
  <2>1. /\ pid' \notin Pids /\ pid' = NoPid /\ result' \in Results
        /\ proc' \in [Pids -> Process] /\ Known' /\ EndsAgree'
    BY <1>1, Reaped
  <2>2. TypeOK'
    BY <2>1 DEF TypeOK
  <2>3. Grouped'
    BY <2>1 DEF Grouped
  <2>4. (StraysExplained /\ WaitAnswers)'
    BY DEF StraysExplained, WaitAnswers
  <2> QED  BY <2>1, <2>2, <2>3, <2>4 DEF Agreement
<1>2. CASE ~State(pid, "zombie")
  <2>1. TypeOK'
    BY <1>2 DEF TypeOK
  <2>2. Agreement'
    BY <1>2 DEF Agreement, Known, EndsAgree, Grouped, Ours, State
  <2>3. (StraysExplained /\ WaitAnswers)'
    BY DEF StraysExplained, WaitAnswers
  <2> QED  BY <2>1, <2>2, <2>3
<1> QED  BY <1>1, <1>2

LEMMA StopKeeps ==
  ASSUME ChildInv, NEW g \in BOOLEAN, Stop(g)
  PROVE  ChildInv'
<1> USE DEF ChildInv, Stop
<1>1. pid \in Pids /\ "graceful" \in Signals
  BY Numbers DEF Signals
<1>2. /\ proc' \in [Pids -> Process] /\ kin' \subseteq Pids /\ strayed' \in BOOLEAN
      /\ strayed' => refused \/ elsewhere
      /\ Known' /\ EndsAgree'
  BY <1>1, Signalled
<1>3. TypeOK'
  BY <1>2 DEF TypeOK
<1>4. Grouped'
  BY <1>1 DEF Agreement, Grouped
<1>5. (StraysExplained /\ WaitAnswers)'
  BY <1>2 DEF StraysExplained, WaitAnswers
<1> QED  BY <1>2, <1>3, <1>4, <1>5 DEF Agreement

LEMMA ForceStopKeeps ==
  ASSUME ChildInv, ForceStop
  PROVE  ChildInv'
<1> USE DEF ChildInv, ForceStop
<1>1. pid \in Pids /\ "force" \in Signals /\ toGroup \in BOOLEAN
  BY DEF Signals, Agreement, Grouped, TypeOK
<1>2. /\ proc' \in [Pids -> Process] /\ kin' \subseteq Pids /\ strayed' \in BOOLEAN
      /\ strayed' => refused \/ elsewhere
      /\ Known' /\ EndsAgree'
  BY <1>1, Signalled
<1>3. TypeOK'
  BY <1>2 DEF TypeOK
<1>4. Grouped'
  BY DEF Agreement, Grouped
<1>5. (StraysExplained /\ WaitAnswers)'
  BY <1>2 DEF StraysExplained, WaitAnswers
<1> QED  BY <1>2, <1>3, <1>4, <1>5 DEF Agreement

LEMMA ChildSetsGroupKeeps ==
  ASSUME ChildInv, NEW p \in Pids, ChildSetsGroup(p)
  PROVE  ChildInv'
<1> USE DEF ChildInv, ChildSetsGroup, object, history
<1>1. [proc[p] EXCEPT !.group = p] \in Process
  BY ProcessFields DEF TypeOK
<1>2. TypeOK'
  BY <1>1 DEF TypeOK
<1>3. \A q \in Pids : proc'[q].state = proc[q].state /\ proc'[q].exit = proc[q].exit
  BY DEF TypeOK, Process
<1>4. Known' /\ EndsAgree'
  BY <1>3, SameChildren DEF Ours, State
<1>5. (Grouped /\ StraysExplained /\ WaitAnswers)'
  BY DEF Agreement, Grouped, StraysExplained, WaitAnswers
<1> QED  BY <1>2, <1>4, <1>5 DEF Agreement

(* The groups of descendants matter to nothing else. *)
LEMMA KinKeeps ==
  ASSUME ChildInv, NEW p \in Pids, ChildForks(p) \/ KinEnds(p)
  PROVE  ChildInv'
<1> USE DEF ChildInv, ChildForks, KinEnds, object, history
<1>1. TypeOK'
  BY DEF TypeOK
<1>2. Agreement'
  BY DEF Agreement, Known, EndsAgree, Grouped, Ours, State
<1>3. (StraysExplained /\ WaitAnswers)'
  BY DEF StraysExplained, WaitAnswers
<1> QED  BY <1>1, <1>2, <1>3

LEMMA DiesKeeps ==
  ASSUME ChildInv, NEW p \in Pids, NEW r \in Results, Dies(p, r)
  PROVE  ChildInv'
<1> USE DEF ChildInv, Dies, object
<1>1. p = pid /\ ~elsewhere
  BY DEF Agreement, Known, Ours
<1>2. /\ [proc[p] EXCEPT !.state = "zombie", !.exit = r] \in Process
      /\ proc'[p].state = "zombie" /\ proc'[p].exit = r
      /\ \A q \in Pids \ {p} : proc'[q] = proc[q]
  <2> DEFINE dead == [proc[p] EXCEPT !.state = "zombie", !.exit = r]
  <2>1. dead \in Process
    BY ProcessFields DEF TypeOK
  <2>2. dead.state = "zombie" /\ dead.exit = r
    BY DEF TypeOK, Process
  <2>3. proc' = [proc EXCEPT ![p] = dead]
    OBVIOUS
  <2> HIDE DEF dead
  <2>4. proc'[p] = dead /\ \A q \in Pids \ {p} : proc'[q] = proc[q]
    BY <2>3 DEF TypeOK
  <2> QED  BY <2>1, <2>2, <2>4 DEF dead
<1>3. TypeOK'
  <2>1. proc' = [proc EXCEPT ![p] = [proc[p] EXCEPT !.state = "zombie", !.exit = r]]
    OBVIOUS
  <2>2. proc' \in [Pids -> Process]
    BY <1>2, <2>1 DEF TypeOK
  <2>3. ended' \in Results
    BY <1>1
  <2> QED  BY <2>2, <2>3 DEF TypeOK
<1>4. \A q \in Pids \ {p} : ~Ours(q)'
  BY <1>1, <1>2 DEF Agreement, Known, Ours, State
<1>5. Known' /\ EndsAgree'
  <2>1. ended' = r /\ pid' = pid /\ result' = Unknown /\ result' = result
        /\ pid \in Pids /\ NoPid \notin Pids
    BY <1>1, Numbers DEF Agreement, EndsAgree, State
  <2>2. State(p, "zombie")' /\ ~State(p, "running")'
    BY <1>2 DEF State
  <2>3. Known'
    BY <1>1, <1>4, <2>1, <2>2 DEF Known, Ours
  <2>4. EndsAgree'
    BY <1>1, <1>2, <1>4, <2>1, <2>2 DEF EndsAgree, Ours
  <2> QED  BY <2>3, <2>4
<1>6. (Grouped /\ StraysExplained /\ WaitAnswers)'
  BY DEF Agreement, Grouped, StraysExplained, WaitAnswers
<1> QED  BY <1>3, <1>5, <1>6 DEF Agreement

LEMMA ReapedElsewhereKeeps ==
  ASSUME ChildInv, NEW p \in Pids, ReapedElsewhere(p)
  PROVE  ChildInv'
<1> USE DEF ChildInv, ReapedElsewhere, object
<1>1. p = pid /\ elsewhere' = TRUE
  BY DEF Agreement, Known, Ours
<1>2. /\ proc'[p] = Nobody("free")
      /\ \A q \in Pids \ {p} : proc'[q] = proc[q]
  BY DEF TypeOK
<1>3. TypeOK'
  <2>1. proc' \in [Pids -> Process]
    BY ProcessTypes DEF TypeOK
  <2>2. elsewhere' \in BOOLEAN
    BY <1>1 DEF TypeOK
  <2> QED  BY <2>1, <2>2 DEF TypeOK
<1>4. \A q \in Pids : ~Ours(q)'
  <2>1. ~Ours(p)'
    BY <1>2 DEF Ours, State, Nobody
  <2>2. \A q \in Pids \ {p} : ~Ours(q)'
    BY <1>1, <1>2 DEF Agreement, Known, Ours, State
  <2> QED  BY <2>1, <2>2
<1>5. Known' /\ EndsAgree'
  BY <1>1, <1>4 DEF Agreement, Known, EndsAgree, Ours
<1>6. (Grouped /\ StraysExplained /\ WaitAnswers)'
  BY <1>1 DEF Agreement, Grouped, StraysExplained, WaitAnswers
<1> QED  BY <1>3, <1>5, <1>6 DEF Agreement

LEMMA StrangerKeeps ==
  ASSUME ChildInv, NEW p \in Pids, StrangerComes(p) \/ StrangerGoes(p)
  PROVE  ChildInv'
<1> USE DEF ChildInv, StrangerComes, StrangerGoes, object, history
<1>1. PICK s \in {"free", "foreign"} : proc' = [proc EXCEPT ![p] = Nobody(s)]
  OBVIOUS
<1>2. TypeOK'
  BY <1>1, ProcessTypes DEF TypeOK
<1>3. ~Ours(p) /\ ~Ours(p)'
  BY <1>1 DEF TypeOK, Ours, State, Nobody
<1>4. \A q \in Pids \ {p} : proc'[q] = proc[q]
  BY <1>1 DEF TypeOK
<1>5. Known' /\ EndsAgree'
  BY <1>3, <1>4, SameChildren DEF Ours, State
<1>6. (Grouped /\ StraysExplained /\ WaitAnswers)'
  BY DEF Agreement, Grouped, StraysExplained, WaitAnswers
<1> QED  BY <1>2, <1>5, <1>6 DEF Agreement

-----------------------------------------------------------------------------
(* The invariant is inductive. *)
LEMMA ChildInductive == ChildInv /\ [Next]_vars => ChildInv'
<1> SUFFICES ASSUME ChildInv, [Next]_vars PROVE ChildInv'
  OBVIOUS
<1>1. CASE \E g \in BOOLEAN : StartRefused(g) \/ StartFails(g) \/ Fork(g) \/ Stop(g)
  BY <1>1, StartRefusedKeeps, StartFailsKeeps, ForkKeeps, StopKeeps
<1>2. CASE SetGroup
  BY <1>2, SetGroupKeeps
<1>3. CASE IsRunning
  BY <1>3, IsRunningKeeps
<1>4. CASE WaitCached
  BY <1>4, WaitCachedKeeps
<1>5. CASE WaitBlocks
  BY <1>5, WaitBlocksKeeps
<1>6. CASE WaitEnds
  BY <1>6, WaitEndsKeeps
<1>7. CASE Poll
  BY <1>7, PollKeeps
<1>8. CASE ForceStop
  BY <1>8, ForceStopKeeps
<1>9. CASE Destroy
  BY <1>9, DestroyKeeps
<1>10. CASE \E p \in Pids : System(p)
  <2> SUFFICES ASSUME NEW p \in Pids, System(p) PROVE ChildInv'
    BY <1>10
  <2>1. CASE ChildSetsGroup(p)
    BY <2>1, ChildSetsGroupKeeps
  <2>2. CASE ChildForks(p) \/ KinEnds(p)
    BY <2>2, KinKeeps
  <2>3. CASE ChildExits(p)
    BY <2>3, DiesKeeps, ProcessTypes DEF ChildExits
  <2>4. CASE ChildKilled(p)
    <3>1. proc[p].told \subseteq Signals
      BY DEF ChildInv, TypeOK, Process
    <3> QED  BY <2>4, <3>1, DiesKeeps, ProcessTypes DEF ChildKilled
  <2>5. CASE ReapedElsewhere(p)
    BY <2>5, ReapedElsewhereKeeps
  <2>6. CASE StrangerComes(p) \/ StrangerGoes(p)
    BY <2>6, StrangerKeeps
  <2> QED  BY <2>1, <2>2, <2>3, <2>4, <2>5, <2>6 DEF System
<1>11. CASE UNCHANGED vars
  <2> USE <1>11 DEF ChildInv, vars, object, kernel, history
  <2>1. TypeOK'
    BY DEF TypeOK
  <2>2. Agreement'
    BY DEF Agreement, Known, EndsAgree, Grouped, Ours, State
  <2>3. (StraysExplained /\ WaitAnswers)'
    BY DEF StraysExplained, WaitAnswers
  <2> QED  BY <2>1, <2>2, <2>3
<1> QED
  BY <1>1, <1>2, <1>3, <1>4, <1>5, <1>6, <1>7, <1>8, <1>9, <1>10, <1>11
  DEF Next, Caller

(* The wrapper and the kernel agree, whatever calls are made, whatever     *)
(* the children do and however numbers are used again.                     *)
THEOREM ChildInvariance == Spec => []ChildInv
BY ChildInitially, ChildInductive, PTL DEF Spec

(* NoChildLost, ResultKept and WaitAnswers: start, is_running, wait.       *)
THEOREM Accounted == Spec => []ChildAccounted
<1>1. ChildInv => ChildAccounted
  BY Numbers DEF ChildInv, Agreement, Known, EndsAgree, ChildAccounted, NoChildLost,
                 ResultKept, TypeOK
<1> QED  BY <1>1, ChildInvariance, PTL

(* No signal reaches a stranger, but for a refused start or a child that   *)
(* other code reaped (send_signal).                                        *)
THEOREM StraysAreExplained == Spec => []StraysExplained
<1>1. ChildInv => StraysExplained
  BY DEF ChildInv
<1> QED  BY <1>1, ChildInvariance, PTL

-----------------------------------------------------------------------------
(* Session.  A store is alone with its file (Locked), what is noted has    *)
(* been written (Written), and what is saved was noted (Noted).  As long   *)
(* as no store_metadata runs with another call, there is one call at a     *)
(* time (Lone), so that a saved index is whole and the newest.             *)

Starts(t) == t \in Store!Busy /\ entry[t] = "start"

(* Until the first index is written the other threads are not there. *)
Starting ==
  /\ \A t, u \in Threads : step[t] = "down" /\ step[u] # "down" => Starts(u)
  /\ \A t \in Threads : Starts(t) =>
       /\ step[t] \in {"truncate", "save"} /\ metadata = {}
       /\ \A u \in Threads \ {t} : step[u] = "down"

Locked ==
  /\ \A t \in Threads : step[t] \in {"open", "write"} => entry[t] \in Files
  /\ \A t \in Store!Busy : entry[t] \in Files => mutex = {t}

Lone == ~raced => \A t, u \in Store!Busy : t = u

Noted ==
  /\ promised \subseteq metadata
  /\ \A t \in Store!Saving : /\ text[t] \subseteq metadata
                             /\ ~raced => text[t] = metadata
                             /\ entry[t] = "start" \/ entry[t] \in text[t]

Current ==
  /\ \A t \in Threads :
       step[t] # "down" /\ ~Starts(t) => index.entries \subseteq metadata
  /\ \A t \in Threads : step[t] = "save" /\ ~raced => index = Store!Unreadable("empty")

Written ==
  /\ \A f \in Files :
       f \in metadata \cup index.entries => disk[f] \in {"whole", "short"} \/ f \in again
  /\ \A t \in Threads :
       /\ step[t] \in {"open", "write"} => entry[t] \notin metadata \/ entry[t] \in again
       /\ step[t] = "note" /\ entry[t] \in Files =>
            disk[entry[t]] \in {"whole", "short"}

FolderInv ==
  /\ Store!TypeOK /\ Starting /\ Locked /\ Lone /\ Noted /\ Current /\ Written
  /\ Store!PromiseKept /\ Store!UnreadableExplained

(* The two kinds of index. *)
Indexes == {Store!Readable(E) : E \in SUBSET Store!Entries}
             \cup {Store!Unreadable(s) : s \in {"absent", "empty", "mixed"}}

LEMMA IndexTypes ==
  /\ \A E \in SUBSET Store!Entries : Store!Readable(E) \in Indexes
  /\ \A s \in {"absent", "empty", "mixed"} : Store!Unreadable(s) \in Indexes
BY DEF Indexes

LEMMA Indices ==
  /\ \A E \in SUBSET Store!Entries : /\ Store!Readable(E).state = "readable"
                                     /\ Store!Readable(E).entries = E
  /\ \A s \in {"absent", "empty", "mixed"} : /\ Store!Unreadable(s).state = s
                                                   /\ Store!Unreadable(s).entries = {}
BY DEF Store!Readable, Store!Unreadable

LEMMA IndexFields ==
  ASSUME Store!TypeOK
  PROVE  /\ index.entries \subseteq Store!Entries
         /\ index.state \in {"readable", "absent", "empty", "mixed"}
         /\ index.state # "readable" => index.entries = {}
BY Indices DEF Store!TypeOK

THEOREM FolderInitially == ASSUME Store!FaultsAssumption PROVE Store!Init => FolderInv
<1> SUFFICES ASSUME Store!Init PROVE FolderInv
  OBVIOUS
<1>1. Store!TypeOK
  <2>1. index \in Indexes
    BY IndexTypes DEF Store!Init
  <2>2. faults \in 0 .. MaxFaults
    BY DEF Store!Init, Store!FaultsAssumption
  <2> QED  BY <2>1, <2>2 DEF Store!Init, Store!TypeOK, Indexes
<1>2. Store!Busy = {} /\ Store!Saving = {}
  BY DEF Store!Init, Store!Busy, Store!Saving
<1>3. index.entries = {} /\ index.state = "absent"
  BY Indices DEF Store!Init
<1>4. Starting /\ Locked /\ Lone /\ Noted
  BY <1>2 DEF Store!Init, Starting, Starts, Locked, Lone, Noted
<1>5. Current /\ Written
  BY <1>2, <1>3 DEF Store!Init, Current, Written
<1>6. Store!PromiseKept /\ Store!UnreadableExplained
  BY <1>3 DEF Store!PromiseKept, Store!UnreadableExplained
<1> QED  BY <1>1, <1>4, <1>5, <1>6 DEF FolderInv

-----------------------------------------------------------------------------
(* One lemma for each action. *)

LEMMA StartKeeps ==
  ASSUME Store!ExtraAssumption, FolderInv, NEW t \in Threads, NEW same \in BOOLEAN,
         Store!Start(t, same)
  PROVE  FolderInv'
<1> USE DEF FolderInv, Store!Start, Store!diskVars
<1>1. /\ index' \in Indexes
      /\ index' = index \/ (index'.entries = {} /\ index'.state = "absent")
  BY IndexTypes, Indices DEF Store!TypeOK, Indexes
<1>2. Store!TypeOK'
  BY <1>1 DEF Store!TypeOK, Indexes
<1>3. /\ Store!Busy' = {t} /\ Store!Saving' = {t} /\ Starts(t)' /\ step'[t] = "truncate"
      /\ entry'[t] = "start" /\ text'[t] = {}
      /\ \A u \in Threads : u # t => step'[u] = "down"
  BY DEF Store!Busy, Store!Saving, Starts, Store!TypeOK
<1>4. Starting' /\ Lone'
  BY <1>3 DEF Starting, Lone, Starts
<1>5. Locked'
  BY <1>3 DEF Locked, Store!ExtraAssumption
<1>6. Noted'
  BY <1>3 DEF Noted
<1>7. Current'
  BY <1>3 DEF Current, Starts
<1>8. Written'
  <2>1. \A u \in Threads : step'[u] \notin {"open", "write", "note"}
    BY <1>3
  <2>2. CASE same
    BY <1>3, <2>1, <2>2 DEF Written
  <2>3. CASE ~same
    BY <1>3, <2>1, <2>3, Indices DEF Written
  <2> QED  BY <2>2, <2>3
<1>9. Store!PromiseKept' /\ Store!UnreadableExplained'
  <2>1. CASE same
    BY <2>1 DEF Store!PromiseKept, Store!UnreadableExplained
  <2>2. CASE ~same
    BY <2>2, Indices DEF Store!PromiseKept, Store!UnreadableExplained
  <2> QED  BY <2>1, <2>2
<1> QED  BY <1>2, <1>4, <1>5, <1>6, <1>7, <1>8, <1>9

LEMMA StoreKeeps ==
  ASSUME Store!ExtraAssumption, FolderInv, NEW t \in Threads, NEW f \in Files,
         Store!Store(t, f)
  PROVE  FolderInv'
<1> USE DEF FolderInv, Store!Store, Store!Goto, Store!diskVars
<1>1. /\ step'[t] = "open" /\ entry'[t] = f
      /\ f \in Store!Entries /\ f # "start" /\ f # Extra
      /\ \A u \in Threads : u # t => step'[u] = step[u] /\ entry'[u] = entry[u]
  BY DEF Store!TypeOK, Store!Entries, Store!ExtraAssumption
<1>2. Store!TypeOK'
  BY <1>1 DEF Store!TypeOK
<1>3. /\ Store!Busy' = Store!Busy \cup {t} /\ Store!Saving' = Store!Saving
      /\ t \notin Store!Saving
      /\ \A u \in Threads : Starts(u)' = Starts(u)
  BY <1>1 DEF Store!Busy, Store!Saving, Starts
<1>4. Starting'
  BY <1>1, <1>3 DEF Starting, Starts, Store!Busy
<1>5. \A u \in Store!Busy : entry[u] = Extra
  <2> SUFFICES ASSUME NEW u \in Store!Busy, entry[u] # Extra PROVE FALSE
    OBVIOUS
  <2>1. entry[u] \in Files \/ Starts(u)
    BY DEF Store!TypeOK, Store!Entries, Starts, Store!Busy
  <2> QED  BY <2>1 DEF Locked, Starting, Store!Busy, Starts
<1>6. Locked'
  BY <1>1, <1>3, <1>5 DEF Locked, Store!Busy, Store!ExtraAssumption
<1>7. Lone'
  BY <1>3, <1>5 DEF Lone
<1>8. Noted'
  BY <1>1, <1>3 DEF Noted, Store!Saving
<1>9. Current'
  BY <1>1, <1>3 DEF Current, Starts, Store!Busy
<1>10. Written'
  BY <1>1 DEF Written, Store!TypeOK
<1>11. Store!PromiseKept' /\ Store!UnreadableExplained'
  BY <1>1 DEF Store!PromiseKept, Store!UnreadableExplained
<1> QED  BY <1>2, <1>4, <1>6, <1>7, <1>8, <1>9, <1>10, <1>11

LEMMA StoreMetadataKeeps ==
  ASSUME Store!ExtraAssumption, FolderInv, NEW t \in Threads, Store!StoreMetadata(t)
  PROVE  FolderInv'
<1> USE DEF FolderInv, Store!StoreMetadata, Store!Goto, Store!diskVars
<1>1. /\ step'[t] = "note" /\ entry'[t] = Extra /\ Extra # "start" /\ Extra \notin Files
      /\ \A u \in Threads : u # t => step'[u] = step[u] /\ entry'[u] = entry[u]
  BY DEF Store!TypeOK, Store!ExtraAssumption
<1>2. Store!TypeOK'
  BY <1>1 DEF Store!TypeOK, Store!Entries
<1>3. /\ Store!Busy' = Store!Busy \cup {t} /\ Store!Saving' = Store!Saving
      /\ t \notin Store!Saving
      /\ \A u \in Threads : Starts(u)' = Starts(u)
  BY <1>1 DEF Store!Busy, Store!Saving, Starts
<1>4. Starting'
  BY <1>1, <1>3 DEF Starting, Starts, Store!Busy
<1>5. Locked' /\ Lone'
  <2>1. Locked'
    BY <1>1, <1>3 DEF Locked, Store!Busy
  <2>2. Lone'
    BY <1>3 DEF Lone
  <2> QED  BY <2>1, <2>2
<1>6. Noted'
  BY <1>1, <1>3 DEF Noted, Store!Saving
<1>7. Current'
  BY <1>1, <1>3 DEF Current, Starts, Store!Busy
<1>8. Written'
  BY <1>1 DEF Written
<1>9. Store!PromiseKept' /\ Store!UnreadableExplained'
  BY <1>1 DEF Store!PromiseKept, Store!UnreadableExplained
<1> QED  BY <1>2, <1>4, <1>5, <1>6, <1>7, <1>8, <1>9

LEMMA ThrowKeeps ==
  ASSUME Store!FaultsAssumption, FolderInv, NEW t \in Threads, Store!Throw(t)
  PROVE  FolderInv'
<1> USE DEF FolderInv, Store!Throw, Store!Goto, Store!Fault
<1>1. /\ t \in Store!Busy /\ step'[t] = (IF entry[t] = "start" THEN "down" ELSE "idle")
      /\ \A u \in Threads : u # t => step'[u] = step[u]
  BY DEF Store!TypeOK, Store!Busy
<1>2. Store!TypeOK'
  <2>1. index' \in Indexes
    BY IndexTypes DEF Store!TypeOK, Indexes
  <2>2. faults' \in 0 .. MaxFaults
    BY DEF Store!TypeOK, Store!FaultsAssumption
  <2>3. disk' \in [Files -> {"absent", "empty", "short", "whole"}]
    BY DEF Store!TypeOK
  <2>4. mutex' \in {{}} \cup {{u} : u \in Threads} /\ spoiled' \in BOOLEAN
    BY DEF Store!TypeOK
  <2> QED  BY <2>1, <2>2, <2>3, <2>4, <1>1 DEF Store!TypeOK, Indexes
<1>3. /\ Store!Busy' = Store!Busy \ {t} /\ Store!Saving' = Store!Saving \ {t}
      /\ \A u \in Threads : Starts(u)' <=> Starts(u) /\ u # t
  BY <1>1 DEF Store!Busy, Store!Saving, Starts
<1>4. Starting'
  BY <1>1, <1>3 DEF Starting, Starts
<1>5. Locked' /\ Lone'
  BY <1>1, <1>3 DEF Locked, Lone, Store!Busy
<1>6. Noted'
  BY <1>3 DEF Noted
<1>7. /\ index' = index \/ (index'.entries = {} /\ index'.state = "empty")
      /\ step[t] # "save" => index' = index
      /\ step[t] = "save" => index' = Store!Unreadable("empty")
  BY Indices
<1>8. Current'
  <2>1. \A u \in Threads :
          step'[u] # "down" /\ ~Starts(u)' => index'.entries \subseteq metadata
    BY <1>1, <1>3, <1>7 DEF Current, Starts
  <2>2. \A u \in Threads :
          step'[u] = "save" /\ ~raced => index' = Store!Unreadable("empty")
    BY <1>1, <1>7 DEF Current
  <2> QED  BY <2>1, <2>2 DEF Current
<1>9. Written'
  <2>1. \A f \in Files : disk'[f] = disk[f] \/ disk'[f] = "short"
    BY DEF Store!TypeOK
  <2>2. \A f \in Files : f \in index'.entries => f \in index.entries
    BY <1>7
  <2> QED  BY <1>1, <2>1, <2>2 DEF Written
<1>10. Store!PromiseKept' /\ Store!UnreadableExplained'
  <2>1. Store!PromiseKept'
    BY <1>7 DEF Store!PromiseKept
  <2>2. Store!UnreadableExplained'
    BY <1>1, <1>7 DEF Store!UnreadableExplained
  <2> QED  BY <2>1, <2>2
<1> QED  BY <1>2, <1>4, <1>5, <1>6, <1>8, <1>9, <1>10

LEMMA OpenFileKeeps ==
  ASSUME FolderInv, NEW t \in Threads, Store!OpenFile(t)
  PROVE  FolderInv'
<1> USE DEF FolderInv, Store!OpenFile, Store!Goto, Store!historyVars
<1>1. /\ t \in Store!Busy /\ entry[t] \in Files /\ mutex = {t} /\ step'[t] = "write"
      /\ \A u \in Threads : u # t => step'[u] = step[u]
      /\ \A f \in Files : f # entry[t] => disk'[f] = disk[f]
  BY DEF Store!TypeOK, Store!Busy, Locked
<1>2. Store!TypeOK'
  BY DEF Store!TypeOK
<1>3. /\ Store!Busy' = Store!Busy /\ Store!Saving' = Store!Saving /\ ~Starts(t)
      /\ \A u \in Threads : Starts(u)' = Starts(u)
  BY <1>1 DEF Store!Busy, Store!Saving, Starts, Starting
<1>4. Starting' /\ Locked' /\ Lone' /\ Noted'
  BY <1>1, <1>3 DEF Starting, Locked, Lone, Noted
<1>5. Current'
  BY <1>1, <1>3 DEF Current
<1>6. Written'
  <2>1. index.entries \subseteq metadata /\ (entry[t] \in metadata => entry[t] \in again)
    BY <1>1, <1>3 DEF Current, Written
  <2>2. \A u \in Threads : step[u] = "note" /\ entry[u] \in Files => u = t
    BY <1>1 DEF Locked, Store!Busy
  <2> QED  BY <1>1, <2>1, <2>2 DEF Written
<1>7. Store!PromiseKept' /\ Store!UnreadableExplained'
  BY <1>1 DEF Store!PromiseKept, Store!UnreadableExplained
<1> QED  BY <1>2, <1>4, <1>5, <1>6, <1>7

LEMMA WriteFileKeeps ==
  ASSUME Store!FaultsAssumption, FolderInv, NEW t \in Threads, Store!WriteFile(t)
  PROVE  FolderInv'
<1> USE DEF FolderInv, Store!WriteFile, Store!Goto, Store!historyVars, Store!Fault
<1>1. /\ t \in Store!Busy /\ entry[t] \in Files /\ mutex = {t} /\ step'[t] = "note"
      /\ \A u \in Threads : u # t => step'[u] = step[u]
      /\ \A f \in Files : f # entry[t] => disk'[f] = disk[f]
      /\ disk'[entry[t]] \in {"whole", "short"}
  BY DEF Store!TypeOK, Store!Busy, Locked
<1>2. Store!TypeOK'
  <2>1. faults' \in 0 .. MaxFaults
    BY DEF Store!TypeOK, Store!FaultsAssumption
  <2> QED  BY <2>1 DEF Store!TypeOK
<1>3. /\ Store!Busy' = Store!Busy /\ Store!Saving' = Store!Saving /\ ~Starts(t)
      /\ \A u \in Threads : Starts(u)' = Starts(u)
  BY <1>1 DEF Store!Busy, Store!Saving, Starts, Starting
<1>4. Starting' /\ Locked' /\ Lone' /\ Noted'
  BY <1>1, <1>3 DEF Starting, Locked, Lone, Noted
<1>5. Current'
  BY <1>1, <1>3 DEF Current
<1>6. Written'
  BY <1>1 DEF Written
<1>7. Store!PromiseKept' /\ Store!UnreadableExplained'
  BY <1>1 DEF Store!PromiseKept, Store!UnreadableExplained
<1> QED  BY <1>2, <1>4, <1>5, <1>6, <1>7

LEMMA NoteKeeps ==
  ASSUME FolderInv, NEW t \in Threads, Store!Note(t)
  PROVE  FolderInv'
<1> USE DEF FolderInv, Store!Note, Store!Goto, Store!historyVars, Store!diskVars
<1>1. /\ t \in Store!Busy /\ ~Starts(t) /\ step'[t] = "truncate"
      /\ entry[t] \in Store!Entries /\ entry[t] # "start"
      /\ text'[t] = metadata' /\ metadata \subseteq metadata' /\ entry[t] \in metadata'
      /\ \A u \in Threads : u # t => step'[u] = step[u] /\ text'[u] = text[u]
  BY DEF Store!TypeOK, Store!Busy, Starts, Starting
<1>2. Store!TypeOK'
  BY <1>1 DEF Store!TypeOK
<1>3. /\ Store!Busy' = Store!Busy /\ Store!Saving' = Store!Saving \cup {t}
      /\ \A u \in Threads : Starts(u)' = Starts(u)
  BY <1>1 DEF Store!Busy, Store!Saving, Starts
<1>4. Starting'
  BY <1>1, <1>3 DEF Starting, Starts, Store!Busy
<1>5. Locked' /\ Lone'
  BY <1>1, <1>3 DEF Locked, Lone
<1>6. Noted'
  <2>1. \A u \in Store!Saving : ~raced => u = t
    BY <1>1 DEF Lone, Store!Saving, Store!Busy
  <2> QED  BY <1>1, <1>3, <2>1 DEF Noted
<1>7. Current'
  BY <1>1, <1>3 DEF Current
<1>8. Written'
  <2>1. entry[t] \in Files => disk[entry[t]] \in {"whole", "short"}
    BY DEF Written
  <2>2. \A u \in Threads : step[u] \in {"open", "write"} => entry[u] # entry[t]
    BY <1>1 DEF Locked, Store!Busy
  <2> QED  BY <1>1, <2>1, <2>2 DEF Written
<1>9. Store!PromiseKept' /\ Store!UnreadableExplained'
  BY <1>1 DEF Store!PromiseKept, Store!UnreadableExplained
<1> QED  BY <1>2, <1>4, <1>5, <1>6, <1>7, <1>8, <1>9

LEMMA TruncateKeeps ==
  ASSUME FolderInv, NEW t \in Threads, Store!Truncate(t)
  PROVE  FolderInv'
<1> USE DEF FolderInv, Store!Truncate, Store!Goto, Store!historyVars
<1>1. /\ t \in Store!Busy /\ step'[t] = "save"
      /\ \A u \in Threads : u # t => step'[u] = step[u]
  BY DEF Store!TypeOK, Store!Busy
<1>2. /\ index' \in Indexes /\ index' = Store!Unreadable("empty")
      /\ index'.entries = {} /\ index'.state = "empty"
  BY IndexTypes, Indices
<1>3. Store!TypeOK'
  BY <1>2 DEF Store!TypeOK, Indexes
<1>4. /\ Store!Busy' = Store!Busy /\ Store!Saving' = Store!Saving
      /\ \A u \in Threads : Starts(u)' = Starts(u)
  BY <1>1 DEF Store!Busy, Store!Saving, Starts
<1>5. Starting' /\ Locked' /\ Lone' /\ Noted'
  BY <1>1, <1>4 DEF Starting, Locked, Lone, Noted
<1>6. Current' /\ Written'
  BY <1>1, <1>2 DEF Current, Written
<1>7. Store!PromiseKept' /\ Store!UnreadableExplained'
  BY <1>1, <1>2 DEF Store!PromiseKept, Store!UnreadableExplained
<1> QED  BY <1>3, <1>5, <1>6, <1>7

LEMMA SaveKeeps ==
  ASSUME Store!FaultsAssumption, FolderInv, NEW t \in Threads, Store!Save(t)
  PROVE  FolderInv'
<1> USE DEF FolderInv, Store!Save, Store!Fault
<1>1. /\ t \in Store!Saving /\ t \in Store!Busy
      /\ text[t] \subseteq Store!Entries /\ step'[t] = "idle"
      /\ text[t] \subseteq metadata
      /\ \A u \in Threads : step'[u] = step[u] \/ step'[u] = "idle"
  BY DEF Store!TypeOK, Store!Busy, Store!Saving, Noted
<1>2. \/ index' = Store!Readable(text[t]) /\ index'.entries = text[t]
      \/ index' = Store!Unreadable("mixed") /\ index'.entries = {} /\ index'.state = "mixed"
      \/ index' = Store!Unreadable("empty") /\ index'.entries = {} /\ spoiled'
  BY <1>1, Indices
<1>3. ASSUME ~raced
      PROVE  \/ index' = Store!Readable(text[t])
             \/ index' = Store!Unreadable("empty") /\ spoiled'
  <2>1. index = Store!Unreadable("empty")
    BY <1>3 DEF Current
  <2>2. index \in {Store!Unreadable("empty"), Store!Readable(text[t])}
    BY <2>1
  <2> QED  BY <2>2
<1>4. Store!TypeOK'
  <2>1. index' \in Indexes
    BY <1>1, <1>2, IndexTypes
  <2>2. faults' \in 0 .. MaxFaults
    BY DEF Store!TypeOK, Store!FaultsAssumption
  <2>3. promised' \subseteq Store!Entries /\ spoiled' \in BOOLEAN
    BY DEF Store!TypeOK
  <2>4. mutex' \in {{}} \cup {{u} : u \in Threads}
    BY DEF Store!TypeOK
  <2>5. step' \in [Threads -> {"idle", "open", "write", "note", "truncate", "save", "down"}]
    BY DEF Store!TypeOK
  <2> QED  BY <2>1, <2>2, <2>3, <2>4, <2>5 DEF Store!TypeOK, Indexes
<1>5. /\ Store!Busy' = Store!Busy \ {t} /\ Store!Saving' = Store!Saving \ {t}
      /\ \A u \in Threads : Starts(u)' <=> Starts(u) /\ u # t
      /\ \A u \in Store!Busy' : u # t /\ step'[u] = step[u]
  <2>1. CASE Starts(t)
    <3>1. Store!Busy = {t} /\ \A u \in Threads : step'[u] = "idle"
      BY <1>1, <2>1 DEF Starting, Store!Busy, Starts
    <3> QED  BY <2>1, <3>1 DEF Store!Busy, Store!Saving, Starts
  <2>2. CASE ~Starts(t)
    <3>1. \A u \in Threads : u # t => step'[u] = step[u]
      BY <1>1, <2>2 DEF Starts, Store!TypeOK
    <3> QED  BY <1>1, <3>1 DEF Store!Busy, Store!Saving, Starts
  <2> QED  BY <2>1, <2>2
<1>6. \A u \in Threads : step'[u] # "down"
  <2>1. CASE Starts(t)
    BY <1>1, <2>1 DEF Starts
  <2>2. CASE ~Starts(t)
    BY <1>1, <2>2 DEF Starting, Store!Busy
  <2> QED  BY <2>1, <2>2
<1>7. Starting'
  <2>1. \A u \in Threads : ~Starts(u)'
    BY <1>1, <1>5 DEF Starting, Starts, Store!Busy
  <2> QED  BY <1>6, <2>1 DEF Starting
<1>8. Locked'
  BY <1>1, <1>5 DEF Locked, Store!Busy
<1>9. Lone'
  BY <1>5 DEF Lone
<1>10. Noted'
  BY <1>1, <1>5 DEF Noted
<1>11. Current'
  <2>1. index'.entries \subseteq metadata
    BY <1>1, <1>2
  <2>2. ~raced => \A u \in Threads : step'[u] # "save"
    <3>1. ~raced => Store!Busy' = {}
      BY <1>1, <1>5 DEF Lone
    <3> QED  BY <3>1 DEF Store!Busy
  <2> QED  BY <2>1, <2>2 DEF Current
<1>12. Written'
  <2>1. index'.entries \subseteq metadata
    BY <1>1, <1>2
  <2>2. \A u \in Threads : step'[u] \in {"open", "write", "note"} => step'[u] = step[u]
    BY <1>1
  <2> QED  BY <2>1, <2>2 DEF Written
<1>13. Store!PromiseKept'
  <2>1. promised' \subseteq metadata /\ (~raced => promised' \subseteq text[t])
    BY <1>1 DEF Noted
  <2> QED  BY <1>2, <1>3, <2>1, Indices DEF Store!PromiseKept
<1>14. Store!UnreadableExplained'
  BY <1>1, <1>3, Indices DEF Store!UnreadableExplained
<1> QED  BY <1>4, <1>7, <1>8, <1>9, <1>10, <1>11, <1>12, <1>13, <1>14

LEMMA KillKeeps ==
  ASSUME Store!FaultsAssumption, FolderInv, Store!Kill
  PROVE  FolderInv'
<1> USE DEF FolderInv, Store!Kill, Store!Fault, Store!diskVars
<1>1. \A t \in Threads : step'[t] = "down"
  OBVIOUS
<1>2. Store!Busy' = {} /\ Store!Saving' = {}
  BY <1>1 DEF Store!Busy, Store!Saving
<1>3. Store!TypeOK'
  <2>1. faults' \in 0 .. MaxFaults
    BY DEF Store!TypeOK, Store!FaultsAssumption
  <2>2. spoiled' \in BOOLEAN
    BY DEF Store!TypeOK
  <2> QED  BY <2>1, <2>2 DEF Store!TypeOK
<1>4. Starting' /\ Locked' /\ Lone' /\ Noted' /\ Current' /\ Written'
  BY <1>1, <1>2 DEF Starting, Starts, Locked, Lone, Noted, Current, Written
<1>5. Store!PromiseKept' /\ Store!UnreadableExplained'
  BY DEF Store!PromiseKept, Store!UnreadableExplained, Store!Saving
<1> QED  BY <1>3, <1>4, <1>5

-----------------------------------------------------------------------------
LEMMA FolderInductive ==
  ASSUME Store!ExtraAssumption, Store!FaultsAssumption
  PROVE  FolderInv /\ [Store!Next]_(Store!vars) => FolderInv'
<1> SUFFICES ASSUME FolderInv, [Store!Next]_(Store!vars) PROVE FolderInv'
  OBVIOUS
<1>1. ASSUME NEW t \in Threads,
             \/ \E same \in BOOLEAN : Store!Start(t, same)
             \/ \E f \in Files : Store!Store(t, f)
             \/ Store!StoreMetadata(t) \/ Store!Throw(t) \/ Store!OpenFile(t)
             \/ Store!WriteFile(t)
             \/ Store!Note(t) \/ Store!Truncate(t) \/ Store!Save(t)
      PROVE  FolderInv'
  BY <1>1, StartKeeps, StoreKeeps, StoreMetadataKeeps, ThrowKeeps, OpenFileKeeps,
     WriteFileKeeps, NoteKeeps, TruncateKeeps, SaveKeeps
<1>2. CASE Store!Kill
  BY <1>2, KillKeeps
<1>3. CASE UNCHANGED Store!vars
  <2> USE <1>3 DEF FolderInv, Store!vars, Store!diskVars, Store!threadVars,
                   Store!historyVars
  <2>1. Store!TypeOK'
    BY DEF Store!TypeOK
  <2>2. /\ Store!Busy' = Store!Busy /\ Store!Saving' = Store!Saving
        /\ \A t \in Threads : Starts(t)' = Starts(t)
    BY DEF Store!Busy, Store!Saving, Starts
  <2>3. Starting' /\ Locked' /\ Lone' /\ Noted' /\ Current' /\ Written'
    BY <2>2 DEF Starting, Locked, Lone, Noted, Current, Written
  <2>4. Store!PromiseKept' /\ Store!UnreadableExplained'
    BY DEF Store!PromiseKept, Store!UnreadableExplained
  <2> QED  BY <2>1, <2>3, <2>4
<1> QED  BY <1>1, <1>2, <1>3 DEF Store!Next

(* Whatever is stored by whichever threads, refused, cut short or killed.  *)
THEOREM FolderInvariance ==
  ASSUME Store!ExtraAssumption, Store!FaultsAssumption
  PROVE  Store!Spec => []FolderInv
BY FolderInitially, FolderInductive, PTL DEF Store!Spec

(* ListedFilesAreWhole, PromiseKept and UnreadableExplained: what the      *)
(* folder tells its reader (try_store, save_metadata).                     *)
THEOREM FolderStays ==
  ASSUME Store!ExtraAssumption, Store!FaultsAssumption
  PROVE  Store!Spec => []Store!FolderKept
<1>1. FolderInv => Store!FolderKept
  BY DEF FolderInv, Written, Store!FolderKept, Store!ListedFilesAreWhole
<1> QED  BY <1>1, FolderInvariance, PTL

-----------------------------------------------------------------------------
(* The FakeCNCController.  Lands(f): from where the machine is, or where    *)
(* the command that is played takes it, each queued command i takes it to   *)
(* f[i].  What a speed leads to is left open: then any f[i] will do.        *)

Lands(f) ==
  /\ command = <<>> => f[0] = pos
  /\ player = "begin" /\ command[1].type = "move" => f[0] = pos + command[1].by
  /\ player = "begin" /\ command[1].type = "moveto" => f[0] = command[1].by
  /\ player = "play" /\ command[1].type # "moveat" => f[0] = FakeCNC!Goal
  /\ player = "done" /\ command[1].type # "moveat" => f[0] = pos
  /\ \A i \in 1 .. Len(queue) :
       /\ queue[i].type = "move" => f[i] = f[i - 1] + queue[i].by
       /\ queue[i].type = "moveto" => f[i] = queue[i].by

(* When it is known where the commands lead, they lead there. *)
LeadsThere ==
  known => \A f \in [0 .. Len(queue) -> Int] : Lands(f) => f[Len(queue)] = asked

Playing ==
  /\ player \in {"pop", "ended"} <=> command = <<>>
  /\ command # <<>> => command[1] \in FakeCNC!Commands
  /\ asked \in Int

FakeCNCInv == FakeCNC!TypeOK /\ Playing /\ LeadsThere

LEMMA FakeCNCInitially ==
  FakeCNC!Init => FakeCNCInv
<1> SUFFICES ASSUME FakeCNC!Init PROVE FakeCNCInv
  OBVIOUS
<1>1. FakeCNC!TypeOK /\ Playing
  <2> SUFFICES ASSUME FakeCNC!Init PROVE FakeCNC!TypeOK /\ Playing
    OBVIOUS
  <2>1. /\ queue = <<>> /\ command = <<>> /\ <<>> \in Seq(FakeCNC!Commands)
        /\ Len(<<>>) = 0
    BY DEF FakeCNC!Init
  <2>2. pos \in Int /\ pos0 \in Int /\ player = "pop" /\ asked \in Int
    BY DEF FakeCNC!Init
  <2>4. active \in BOOLEAN /\ quitting \in BOOLEAN
    BY Zenon DEF FakeCNC!Init
  <2>3. /\ asking \in [Callers -> {"no", "active", "inactive"}]
        /\ isIdle \in [Callers -> {0, 1}]
    BY DEF FakeCNC!Init
  <2> QED  BY <2>1, <2>2, <2>3, <2>4 DEF FakeCNC!TypeOK, Playing
<1>2. LeadsThere
  BY DEF FakeCNC!Init, LeadsThere, Lands
<1> QED  BY <1>1, <1>2 DEF FakeCNCInv

LEMMA PushLands ==
  ASSUME FakeCNC!StepsAssumption, FakeCNCInv, NEW cmd \in FakeCNC!Commands,
         FakeCNC!Push(cmd)
  PROVE  FakeCNCInv'
<1> USE DEF FakeCNC!playVars, FakeCNC!askVars
<1> DEFINE n == Len(queue)
<1>1. /\ queue \in Seq(FakeCNC!Commands) /\ queue' = Append(queue, cmd)
      /\ cmd.by \in Int /\ cmd.type \in FakeCNC!Types /\ asked \in Int
  BY DEF FakeCNCInv, FakeCNC!TypeOK, FakeCNC!Push, FakeCNC!Commands, Playing,
         FakeCNC!StepsAssumption
<1>2. /\ queue' \in Seq(FakeCNC!Commands) /\ n \in Nat /\ Len(queue') = n + 1
      /\ queue'[n + 1] = cmd /\ \A i \in 1 .. n : queue'[i] = queue[i]
  BY <1>1
<1>3. FakeCNC!TypeOK' /\ Playing'
  BY <1>1, <1>2 DEF FakeCNCInv, FakeCNC!TypeOK, FakeCNC!Push, Playing, FakeCNC!Types
<1>4. LeadsThere'
  <2> SUFFICES ASSUME known', NEW g \in [0 .. n + 1 -> Int], Lands(g)'
               PROVE  g[n + 1] = asked'
    BY <1>2 DEF LeadsThere
  <2>1. CASE cmd.type = "moveto"
    <3>1. g[n + 1] = cmd.by
      BY <1>2, <2>1 DEF Lands
    <3> QED  BY <2>1, <3>1 DEF FakeCNC!Push
  <2>2. CASE cmd.type = "move"
    <3> DEFINE f == [i \in 0 .. n |-> g[i]]
    <3>1. f \in [0 .. n -> Int] /\ n \in 0 .. n /\ \A i \in 0 .. n : f[i] = g[i]
      BY <1>2
    <3>2. Lands(f)
      <4>1. ASSUME NEW i \in 1 .. n
            PROVE  /\ queue[i].type = "move" => g[i] = g[i - 1] + queue[i].by
                   /\ queue[i].type = "moveto" => g[i] = queue[i].by
        BY <1>2 DEF Lands
      <4>2. \A i \in 1 .. n : i \in 0 .. n /\ i - 1 \in 0 .. n
        BY <1>2
      <4>3. \A i \in 1 .. n :
              /\ queue[i].type = "move" => f[i] = f[i - 1] + queue[i].by
              /\ queue[i].type = "moveto" => f[i] = queue[i].by
        BY <4>1, <4>2, <3>1
      <4>4. f[0] = g[0]
        BY <1>2
      <4> HIDE DEF f
      <4> QED  BY <4>3, <4>4 DEF Lands, FakeCNC!Push, FakeCNC!Goal
    <3>3. known /\ asked' = asked + cmd.by
      BY <2>2 DEF FakeCNC!Push
    <3>4. f[n] = asked
      <4> HIDE DEF f
      <4> QED  BY <3>1, <3>2, <3>3 DEF FakeCNCInv, LeadsThere
    <3>5. g[n + 1] = g[n] + cmd.by
      BY <1>2, <2>2 DEF Lands
    <3> QED  BY <3>1, <3>3, <3>4, <3>5
  <2>3. CASE cmd.type = "moveat"
    BY <2>3 DEF FakeCNC!Push
  <2> QED  BY <1>1, <2>1, <2>2, <2>3 DEF FakeCNC!Types
<1> QED  BY <1>3, <1>4 DEF FakeCNCInv

LEMMA HomingLands ==
  ASSUME FakeCNCInv, FakeCNC!Homing
  PROVE  FakeCNCInv'
<1> USE DEF FakeCNC!queueVars, FakeCNC!playVars, FakeCNC!askVars, FakeCNC!Homing
<1>1. FakeCNC!TypeOK' /\ Playing'
  BY DEF FakeCNCInv, FakeCNC!TypeOK, Playing
<1>2. LeadsThere'
  <2> SUFFICES ASSUME FakeCNC!Idle, NEW f \in [0 .. Len(queue) -> Int], Lands(f)'
               PROVE  f[Len(queue)] = 0
    BY DEF LeadsThere
  <2>1. Len(queue) = 0 /\ command = <<>>
    BY DEF FakeCNC!Idle
  <2> QED  BY <2>1 DEF Lands
<1> QED  BY <1>1, <1>2 DEF FakeCNCInv

LEMMA PopLands ==
  ASSUME FakeCNC!StepsAssumption, FakeCNCInv, FakeCNC!Pop
  PROVE  FakeCNCInv'
<1> USE DEF FakeCNC!historyVars, FakeCNC!askVars
<1> DEFINE n == Len(queue)
           m == Len(queue')
           h == queue[1]
<1>1. queue \in Seq(FakeCNC!Commands) /\ queue # <<>> /\ queue' = Tail(queue)
  BY DEF FakeCNCInv, FakeCNC!TypeOK, FakeCNC!Pop
<1>2. /\ queue' \in Seq(FakeCNC!Commands) /\ n \in Nat \ {0} /\ m = n - 1
      /\ \A i \in 1 .. m : queue'[i] = queue[i + 1]
      /\ h \in FakeCNC!Commands /\ Head(queue) = h
  BY <1>1
<1>3. h.type \in FakeCNC!Types /\ h.by \in Int
  BY <1>2 DEF FakeCNC!Commands, FakeCNC!StepsAssumption
<1>4. command' = <<h>> /\ command'[1] = h /\ command = <<>> /\ player' = "begin"
  BY <1>2 DEF FakeCNC!Pop, FakeCNCInv, Playing
<1>5. FakeCNC!TypeOK' /\ Playing'
  BY <1>2, <1>4 DEF FakeCNCInv, FakeCNC!TypeOK, FakeCNC!Pop, Playing
<1>6. LeadsThere'
  <2> SUFFICES ASSUME known, NEW g \in [0 .. m -> Int], Lands(g)'
               PROVE  g[m] = asked
    BY DEF LeadsThere, FakeCNC!Pop
  <2> DEFINE f == [i \in 0 .. n |-> IF i = 0 THEN pos ELSE g[i - 1]]
  <2>1. /\ f \in [0 .. n -> Int] /\ f[0] = pos
        /\ \A i \in 1 .. n : f[i] = g[i - 1]
    BY <1>2 DEF FakeCNCInv, FakeCNC!TypeOK
  <2>2. ASSUME NEW i \in 1 .. n
        PROVE  /\ queue[i].type = "move" => f[i] = f[i - 1] + queue[i].by
               /\ queue[i].type = "moveto" => f[i] = queue[i].by
    <3>1. CASE i = 1
      <4>1. /\ h.type = "move" => g[0] = pos + h.by
            /\ h.type = "moveto" => g[0] = h.by
        BY <1>4 DEF Lands, FakeCNC!Pop
      <4> QED  BY <1>2, <2>1, <3>1, <4>1
    <3>2. CASE i # 1
      <4>1. /\ i - 1 \in 1 .. m /\ i - 1 \in 1 .. n /\ (i - 1) + 1 = i
            /\ queue'[i - 1] = queue[i]
        <5>1. i - 1 \in 1 .. m /\ i - 1 \in 1 .. n /\ (i - 1) + 1 = i
          BY <1>2, <3>2
        <5>2. queue'[i - 1] = queue[(i - 1) + 1]
          BY <1>2, <5>1
        <5> QED  BY <5>1, <5>2
      <4>2. /\ queue[i].type = "move" => g[i - 1] = g[(i - 1) - 1] + queue[i].by
            /\ queue[i].type = "moveto" => g[i - 1] = queue[i].by
        BY <4>1 DEF Lands
      <4> HIDE DEF f
      <4> QED  BY <2>1, <4>1, <4>2
    <3> QED  BY <3>1, <3>2
  <2> HIDE DEF f
  <2>3. Lands(f)
    BY <1>4, <2>1, <2>2 DEF Lands, FakeCNC!Pop
  <2>4. f[n] = asked
    BY <2>1, <2>3 DEF FakeCNCInv, LeadsThere
  <2> QED  BY <1>2, <2>1, <2>4
<1> QED  BY <1>5, <1>6 DEF FakeCNCInv

(* What is played changes no command: what lands after it did so before.   *)
LEMMA SameLanding ==
  ASSUME FakeCNCInv, queue' = queue, asked' = asked, known' = known,
         \A f : Lands(f)' => Lands(f)
  PROVE  LeadsThere'
BY DEF FakeCNCInv, LeadsThere

LEMMA WorkLands ==
  ASSUME FakeCNC!StepsAssumption, FakeCNCInv,
         \/ FakeCNC!Begin \/ FakeCNC!Advance \/ FakeCNC!Arrive \/ FakeCNC!Drift
         \/ FakeCNC!StopDrifting \/ FakeCNC!Finish \/ FakeCNC!Leave
  PROVE  FakeCNCInv'
<1> USE DEF FakeCNC!queueVars, FakeCNC!playVars, FakeCNC!historyVars, FakeCNC!askVars
<1>1. /\ command # <<>> => command[1].by \in Int /\ command[1].type \in FakeCNC!Types
      /\ pos \in Int /\ pos0 \in Int
      /\ command # <<>> => FakeCNC!Goal \in Int
      /\ player \in {"pop", "ended"} <=> command = <<>>
  <2>1. command # <<>> => command[1].by \in Int /\ command[1].type \in FakeCNC!Types
    BY DEF FakeCNCInv, Playing, FakeCNC!Commands, FakeCNC!StepsAssumption
  <2>2. /\ pos \in Int /\ pos0 \in Int
        /\ player \in {"pop", "ended"} <=> command = <<>>
    BY DEF FakeCNCInv, Playing, FakeCNC!TypeOK
  <2> QED  BY <2>1, <2>2 DEF FakeCNC!Goal
<1>2. CASE FakeCNC!Begin
  <2>1. FakeCNC!TypeOK' /\ Playing'
    BY <1>2 DEF FakeCNCInv, FakeCNC!TypeOK, Playing, FakeCNC!Begin
  <2>2. \A f : Lands(f)' => Lands(f)
    BY <1>1, <1>2 DEF Lands, FakeCNC!Begin, FakeCNC!Goal, FakeCNC!Types
  <2> QED  BY <1>2, <2>1, <2>2, SameLanding DEF FakeCNCInv, FakeCNC!Begin
<1>3. CASE FakeCNC!Advance
  <2>1. pos' \in Int
    BY <1>1, <1>3 DEF FakeCNC!Advance, FakeCNC!Between
  <2>2. FakeCNC!TypeOK' /\ Playing'
    BY <1>3, <2>1 DEF FakeCNCInv, FakeCNC!TypeOK, Playing, FakeCNC!Advance
  <2>3. \A f : Lands(f)' => Lands(f)
    BY <1>1, <1>3 DEF Lands, FakeCNC!Advance, FakeCNC!Goal
  <2> QED  BY <1>3, <2>2, <2>3, SameLanding DEF FakeCNCInv, FakeCNC!Advance
<1>4. CASE FakeCNC!Arrive
  <2>1. FakeCNC!TypeOK' /\ Playing'
    BY <1>1, <1>4 DEF FakeCNCInv, FakeCNC!TypeOK, Playing, FakeCNC!Arrive
  <2>2. \A f : Lands(f)' => Lands(f)
    BY <1>1, <1>4 DEF Lands, FakeCNC!Arrive, FakeCNC!Goal
  <2> QED  BY <1>4, <2>1, <2>2, SameLanding DEF FakeCNCInv, FakeCNC!Arrive
<1>5. CASE FakeCNC!Drift
  <2>1. pos' \in Int
    BY <1>1, <1>5 DEF FakeCNC!Drift
  <2>2. FakeCNC!TypeOK' /\ Playing'
    BY <1>5, <2>1 DEF FakeCNCInv, FakeCNC!TypeOK, Playing, FakeCNC!Drift
  <2>3. \A f : Lands(f)' => Lands(f)
    BY <1>1, <1>5 DEF Lands, FakeCNC!Drift
  <2> QED  BY <1>5, <2>2, <2>3, SameLanding DEF FakeCNCInv, FakeCNC!Drift
<1>6. CASE FakeCNC!StopDrifting
  <2>1. FakeCNC!TypeOK' /\ Playing'
    BY <1>6 DEF FakeCNCInv, FakeCNC!TypeOK, Playing, FakeCNC!StopDrifting
  <2>2. \A f : Lands(f)' => Lands(f)
    BY <1>1, <1>6 DEF Lands, FakeCNC!StopDrifting
  <2> QED  BY <1>6, <2>1, <2>2, SameLanding DEF FakeCNCInv, FakeCNC!StopDrifting
<1>7. CASE FakeCNC!Finish
  <2>1. FakeCNC!TypeOK' /\ Playing'
    <3>1. command' = <<>> /\ <<>> \in Seq(FakeCNC!Commands) /\ Len(<<>>) = 0
      BY <1>7 DEF FakeCNC!Finish
    <3>2. active' \in BOOLEAN
      BY <1>7, Zenon DEF FakeCNC!Finish
    <3>3. /\ queue' = queue /\ pos' = pos /\ pos0' = pos0 /\ quitting' = quitting
          /\ asking' = asking /\ isIdle' = isIdle /\ asked' = asked /\ player' = "pop"
      BY <1>7 DEF FakeCNC!Finish
    <3> QED  BY <3>1, <3>2, <3>3 DEF FakeCNCInv, FakeCNC!TypeOK, Playing
  <2>2. \A f : Lands(f)' => Lands(f)
    BY <1>1, <1>7 DEF Lands, FakeCNC!Finish
  <2> QED  BY <1>7, <2>1, <2>2, SameLanding DEF FakeCNCInv, FakeCNC!Finish
<1>8. CASE FakeCNC!Leave
  <2>1. FakeCNC!TypeOK' /\ Playing'
    BY <1>8 DEF FakeCNCInv, FakeCNC!TypeOK, Playing, FakeCNC!Leave
  <2>2. \A f : Lands(f)' => Lands(f)
    BY <1>1, <1>8 DEF Lands, FakeCNC!Leave
  <2> QED  BY <1>8, <2>1, <2>2, SameLanding DEF FakeCNCInv, FakeCNC!Leave
<1> QED  BY <1>2, <1>3, <1>4, <1>5, <1>6, <1>7, <1>8

LEMMA CallersLand ==
  ASSUME FakeCNCInv,
         \/ FakeCNC!Destroy \/ UNCHANGED FakeCNC!vars
         \/ \E c \in Callers : FakeCNC!ReadActive(c) \/ FakeCNC!ReadSize(c)
  PROVE  FakeCNCInv'
<1> USE DEF FakeCNC!vars, FakeCNC!queueVars, FakeCNC!playVars, FakeCNC!historyVars,
            FakeCNC!askVars, FakeCNC!Destroy, FakeCNC!ReadActive, FakeCNC!ReadSize
<1>1. /\ queue' = queue /\ command' = command /\ active' = active /\ pos' = pos
      /\ pos0' = pos0 /\ player' = player /\ asked' = asked /\ known' = known
      /\ quitting' \in BOOLEAN
  BY DEF FakeCNCInv, FakeCNC!TypeOK
<1>2. /\ asking' \in [Callers -> {"no", "active", "inactive"}]
      /\ isIdle' \in [Callers -> {0, 1}]
  BY DEF FakeCNCInv, FakeCNC!TypeOK
<1>3. FakeCNC!TypeOK' /\ Playing'
  BY <1>1, <1>2 DEF FakeCNCInv, FakeCNC!TypeOK, Playing
<1>4. \A f : Lands(f)' => Lands(f)
  BY <1>1 DEF Lands, FakeCNC!Goal
<1> QED  BY <1>1, <1>3, <1>4, SameLanding DEF FakeCNCInv

(* When nothing is left to do, the FakeCNCController is where its commands *)
(* lead, each executed once and in order, for any callers and commands     *)
(* (FakeCNCController::push, run, handle_move, handle_moveto, homing).     *)
THEOREM FakeCNCArrives ==
  ASSUME FakeCNC!StepsAssumption
  PROVE  FakeCNC!Spec => [](FakeCNC!TypeOK /\ FakeCNC!EndsWhereAsked)
<1>1. FakeCNC!Init => FakeCNCInv
  BY FakeCNCInitially
<1>2. FakeCNCInv /\ [FakeCNC!Next]_(FakeCNC!vars) => FakeCNCInv'
  <2> SUFFICES ASSUME FakeCNCInv, [FakeCNC!Next]_(FakeCNC!vars) PROVE FakeCNCInv'
    OBVIOUS
  <2>1. ASSUME NEW cmd \in FakeCNC!Commands, FakeCNC!Push(cmd) PROVE FakeCNCInv'
    BY <2>1, PushLands
  <2>2. CASE FakeCNC!Homing
    BY <2>2, HomingLands
  <2>3. CASE FakeCNC!Worker
    BY <2>3, PopLands, WorkLands DEF FakeCNC!Worker, FakeCNC!Progress
  <2>4. CASE \/ FakeCNC!Destroy \/ UNCHANGED FakeCNC!vars
             \/ \E c \in Callers : FakeCNC!ReadActive(c) \/ FakeCNC!ReadSize(c)
    BY <2>4, CallersLand
  <2> QED  BY <2>1, <2>2, <2>3, <2>4 DEF FakeCNC!Next
<1>3. FakeCNCInv => FakeCNC!TypeOK /\ FakeCNC!EndsWhereAsked
  <2> SUFFICES ASSUME FakeCNCInv, FakeCNC!Idle, known PROVE pos = asked
    BY DEF FakeCNCInv, FakeCNC!EndsWhereAsked
  <2> DEFINE f == [i \in 0 .. 0 |-> pos]
  <2>1. Len(queue) = 0 /\ command = <<>> /\ pos \in Int
    BY DEF FakeCNC!Idle, FakeCNCInv, FakeCNC!TypeOK
  <2>2. f \in [0 .. 0 -> Int] /\ f[0] = pos
    BY <2>1
  <2>3. player \in {"pop", "ended"}
    BY <2>1 DEF FakeCNCInv, Playing
  <2> HIDE DEF f
  <2>4. Lands(f)
    BY <2>1, <2>2, <2>3 DEF Lands
  <2> QED  BY <2>1, <2>2, <2>4 DEF FakeCNCInv, LeadsThere
<1> QED  BY <1>1, <1>2, <1>3, PTL DEF FakeCNC!Spec

-----------------------------------------------------------------------------
(* romi-battery.  What main has reached says which threads there are and   *)
(* what is left of the indicator (Lifetimes); between its two writes the     *)
(* indicator's thread has darkened the other pin (OtherDark).              *)

Lifetimes ==
  /\ main \in {"start", "monitor"} => worker = "none"
  /\ worker = "running" => main \in {"serving", "leaving"}
  /\ main = "start" => part = "none"
  /\ main = "monitor" => part \in {"none", "base", "virtual", "whole"}
  /\ main \in {"serving", "leaving"} => part = "whole"
  /\ main = "unlit" => part \in {"whole", "dying", "joining"}
  /\ main = "over" => part = "gone"
  /\ part = "none" => drawer = "none"
  /\ part = "gone" => drawer = "ended" /\ lit = Battery!I!Dark

OtherDark ==
  /\ ~(lit["red"] /\ lit["green"])
  /\ drawer = "second" => ~lit[Battery!I!Other(drawing.pin)]

BatteryInv == Battery!TypeOK /\ Lifetimes /\ OtherDark /\ Battery!NaNExplained

LEMMA Patterns ==
  ASSUME Battery!SlowAssumption
  PROVE  Battery!I!PatternAssumption
BY DEF Battery!SlowAssumption, Battery!I!PatternAssumption, Battery!I!Statuses,
       Battery!I!Pins, Battery!BatteryPattern

LEMMA BatteryInitially ==
  ASSUME Battery!SlowAssumption, Battery!B!ChargeAssumption, Battery!B!ResetAssumption
  PROVE  Battery!Init => BatteryInv
<1> SUFFICES ASSUME Battery!Init PROVE BatteryInv
  OBVIOUS
<1> USE DEF Battery!Init, Battery!I!IndicatorInit, Battery!B!BatteryInit
<1>1. Battery!I!IndicatorTypeOK
  BY Patterns DEF Battery!I!IndicatorTypeOK, Battery!I!PatternAssumption, Battery!I!Dark,
                  Battery!I!Parts
<1>2. Battery!B!BatteryTypeOK
  <2>1. 0 \in 0 .. ResetEvery - 1
    BY DEF Battery!B!ResetAssumption
  <2> QED  BY <2>1 DEF Battery!B!BatteryTypeOK
<1>3. Lifetimes /\ OtherDark
  BY DEF Lifetimes, OtherDark, Battery!I!Dark, Battery!I!Pins
<1> QED
  BY <1>1, <1>2, <1>3
  DEF BatteryInv, Battery!TypeOK, Battery!NaNExplained, Battery!B!ChargeAssumption

(* The threads of main and what is left of the indicator, when the pins    *)
(* stay as they are.                                                       *)
LEMMA MakeIndicatorKeeps ==
  ASSUME Battery!SlowAssumption, BatteryInv, Battery!MakeIndicator
  PROVE  BatteryInv'
<1> USE DEF BatteryInv, Battery!TypeOK, Battery!MakeIndicator, Battery!mainVars,
        Battery!chipVars, Battery!batteryVars
<1>1. Battery!B!BatteryTypeOK'
  BY DEF Battery!B!BatteryTypeOK
<1>2. /\ Battery!I!IndicatorTypeOK' /\ Lifetimes' /\ OtherDark'
  BY Patterns DEF Battery!I!MakeBase, Battery!I!MakeDerived, Battery!I!MakeStatus,
     Battery!I!IndicatorTypeOK, Battery!I!threadVars, Battery!I!Parts,
     Battery!I!PatternAssumption, Lifetimes, OtherDark
<1> QED  BY <1>1, <1>2 DEF Battery!NaNExplained

LEMMA UnmakeIndicatorKeeps ==
  ASSUME Battery!SlowAssumption, BatteryInv, Battery!UnmakeIndicator
  PROVE  BatteryInv'
<1> USE DEF BatteryInv, Battery!TypeOK, Battery!UnmakeIndicator,
        Battery!chipVars, Battery!batteryVars
<1>1. Battery!B!BatteryTypeOK'
  BY DEF Battery!B!BatteryTypeOK
<1>2. CASE Battery!I!Join /\ main' = "over"
  BY <1>1, <1>2 DEF Battery!I!Join, Battery!I!IndicatorTypeOK, Battery!I!Parts,
     Battery!I!Dark, Battery!I!Pins, Lifetimes, OtherDark, Battery!NaNExplained
<1>3. CASE (Battery!I!Unmake \/ Battery!I!StopRunning) /\ UNCHANGED main
  <2> USE <1>3 DEF Battery!I!Unmake, Battery!I!StopRunning, Battery!I!threadVars
  <2>1. Battery!I!IndicatorTypeOK'
    BY DEF Battery!I!IndicatorTypeOK, Battery!I!Parts
  <2>2. Lifetimes'
    BY DEF Lifetimes
  <2>3. OtherDark' /\ Battery!NaNExplained'
    BY DEF OtherDark, Battery!NaNExplained
  <2> QED  BY <1>1, <2>1, <2>2, <2>3
<1> QED  BY <1>2, <1>3

(* The indicator's thread. *)
LEMMA DrawKeeps ==
  ASSUME Battery!SlowAssumption, BatteryInv, Battery!Draw
  PROVE  BatteryInv'
<1> USE DEF BatteryInv, Battery!TypeOK, Battery!Draw, Battery!mainVars, Battery!chipVars,
        Battery!batteryVars
<1>1. Battery!B!BatteryTypeOK' /\ Battery!NaNExplained'
  BY DEF Battery!B!BatteryTypeOK, Battery!NaNExplained
<1>2. PICK s \in Battery!I!Statuses : drawing = Battery!BatteryPattern[s]
  BY DEF Battery!I!IndicatorTypeOK
<1>3. /\ drawing.pin \in {"red", "green"} /\ drawing.period \in Nat
      /\ Battery!BatteryPattern[status].pin \in {"red", "green"}
  BY <1>2, Patterns DEF Battery!I!PatternAssumption, Battery!I!Pins,
                        Battery!I!IndicatorTypeOK
<1>4. CASE Battery!I!Begin \/ Battery!I!Check \/ Battery!I!Abort
  BY <1>1, <1>4, ZenonT(40) DEF Battery!I!Begin, Battery!I!Check, Battery!I!Abort,
     Battery!I!IndicatorTypeOK, Battery!I!threadVars, Lifetimes, OtherDark
<1>5. CASE Battery!I!ClearOther
  <2> USE <1>5 DEF Battery!I!ClearOther
  <2>1. Battery!I!IndicatorTypeOK'
    BY <1>3 DEF Battery!I!IndicatorTypeOK
  <2>2. OtherDark'
    BY <1>3 DEF OtherDark, Battery!I!Other, Battery!I!IndicatorTypeOK, Battery!I!Pins
  <2> QED  BY <1>1, <2>1, <2>2 DEF Lifetimes
<1>6. CASE Battery!I!WritePin
  <2> USE <1>6 DEF Battery!I!WritePin
  <2>1. /\ count' \in Nat
        /\ count' = 0 \/ count' < Battery!BatteryPattern[s].period
    BY <1>2, <1>3 DEF Battery!I!IndicatorTypeOK
  <2>2. Battery!I!IndicatorTypeOK'
    BY <1>2, <1>3, <2>1 DEF Battery!I!IndicatorTypeOK
  <2>3. OtherDark'
    BY <1>3 DEF OtherDark, Battery!I!Other, Battery!I!IndicatorTypeOK, Battery!I!Pins
  <2> QED  BY <1>1, <2>2, <2>3 DEF Lifetimes
<1> QED  BY <1>4, <1>5, <1>6 DEF Battery!I!Drawer

(* What the operations of the monitor leave of it. *)
Chips == [monitor : {"closed", "opened", "ready"}, chip : {"blank", "calibrated"}]

LEMMA ChipsStay ==
  ASSUME NEW s \in Chips
  PROVE  /\ Battery!B!Opened(s) \subseteq Chips /\ Battery!B!Ensured(s) \subseteq Chips
         /\ Battery!B!Reset(s) \subseteq Chips
BY DEF Chips, Battery!B!Opened, Battery!B!Ensured, Battery!B!Reset, Battery!B!State

(* A round of the battery's thread: what is read, and the sum of it. *)
LEMMA RoundKeeps ==
  ASSUME Battery!SlowAssumption, Battery!B!ChargeAssumption, Battery!B!ResetAssumption,
         BatteryInv, Battery!Round
  PROVE  BatteryInv'
<1> USE DEF BatteryInv, Battery!TypeOK, Battery!Round, Battery!mainVars
<1>1. PICK s1 \in Battery!B!Ensured(Battery!B!State(monitor, chip)) :
      \E v \in Battery!B!Reading(s1, Voltages), s2 \in Battery!B!Ensured(s1) :
      \E i \in Battery!B!Reading(s2, Battery!B!CurrentsOf(s2)) :
        Battery!B!Record(v, i) /\ Battery!B!ResetPerhaps(s2, v, i)
  BY DEF Battery!B!Update
<1>2. PICK v \in Battery!B!Reading(s1, Voltages), s2 \in Battery!B!Ensured(s1) :
      \E i \in Battery!B!Reading(s2, Battery!B!CurrentsOf(s2)) :
        Battery!B!Record(v, i) /\ Battery!B!ResetPerhaps(s2, v, i)
  BY <1>1
<1>3. PICK i \in Battery!B!Reading(s2, Battery!B!CurrentsOf(s2)) :
        Battery!B!Record(v, i) /\ Battery!B!ResetPerhaps(s2, v, i)
  BY <1>2
<1>4. s2 \in Chips /\ v \in Voltages \cup {NaN} /\ i \in Currents \cup {0, NaN}
  <2>1. Battery!B!State(monitor, chip) \in Chips
    BY DEF Chips, Battery!B!State, Battery!B!BatteryTypeOK
  <2>2. s1 \in Chips
    BY <2>1, ChipsStay
  <2> QED  BY <2>2, ChipsStay DEF Battery!B!Reading, Battery!B!CurrentsOf
<1>5. Battery!B!BatteryTypeOK'
  <2>1. /\ monitor' \in {"closed", "opened", "ready"} /\ chip' \in {"blank", "calibrated"}
        /\ rounds' \in 0 .. ResetEvery - 1
    BY <1>3, <1>4, ChipsStay
    DEF Battery!B!ResetPerhaps, Battery!B!ResetAssumption, Battery!B!BatteryTypeOK, Chips
  <2>2. /\ voltage' \in Voltages \cup {"low", NaN} /\ current' \in Currents \cup {0, NaN}
        /\ charge' \in {Battery!B!Number, NaN} /\ gap' \in BOOLEAN
    BY <1>3, <1>4
    DEF Battery!B!Record, Battery!B!Added, Battery!B!BatteryTypeOK
  <2> QED  BY <2>1, <2>2 DEF Battery!B!BatteryTypeOK
<1>6. Battery!NaNExplained'
  BY <1>3 DEF Battery!NaNExplained, Battery!B!Record, Battery!B!Added,
              Battery!B!ChargeAssumption, Battery!B!BatteryTypeOK
<1>7. status' \in Battery!I!Statuses
  BY <1>3 DEF Battery!B!Record, Battery!B!Shown, Battery!I!IndicatorTypeOK,
              Battery!I!Statuses, Battery!BatteryPattern
<1>8. Battery!I!IndicatorTypeOK' /\ Lifetimes' /\ OtherDark'
  BY <1>7 DEF Battery!I!IndicatorTypeOK, Lifetimes, OtherDark
<1> QED  BY <1>5, <1>6, <1>8

LEMMA BatteryInductive ==
  ASSUME Battery!SlowAssumption, Battery!B!ChargeAssumption, Battery!B!ResetAssumption
  PROVE  BatteryInv /\ [Battery!Next]_(Battery!vars) => BatteryInv'
<1> SUFFICES ASSUME BatteryInv, [Battery!Next]_(Battery!vars) PROVE BatteryInv'
  OBVIOUS
<1>1. CASE Battery!MakeMonitor
  <2>1. PICK s \in Battery!B!Opened(Battery!B!State(monitor, chip)) :
          monitor' = s.monitor /\ chip' = s.chip
    BY <1>1 DEF Battery!MakeMonitor, Battery!B!BeginMonitor
  <2>2. s \in Chips
    BY ChipsStay DEF BatteryInv, Battery!TypeOK, Battery!B!BatteryTypeOK, Chips,
                     Battery!B!State
  <2> QED
    BY <1>1, <2>1, <2>2 DEF Battery!MakeMonitor, BatteryInv, Battery!TypeOK, Chips,
       Battery!B!BatteryTypeOK, Battery!indicatorVars, Battery!batteryVars, Lifetimes,
       OtherDark, Battery!NaNExplained, Battery!I!IndicatorTypeOK
<1>2. CASE Battery!MakeBattery \/ Battery!Quit
  <2> USE <1>2 DEF Battery!MakeBattery, Battery!Quit, Battery!indicatorVars,
                   Battery!batteryVars, Battery!chipVars
  <2>1. Battery!TypeOK' /\ Battery!NaNExplained'
    <3>1. Battery!B!BatteryTypeOK' /\ Battery!NaNExplained'
      BY DEF BatteryInv, Battery!TypeOK, Battery!B!BatteryTypeOK, Battery!NaNExplained
    <3>2. Battery!I!IndicatorTypeOK'
      BY DEF BatteryInv, Battery!TypeOK, Battery!I!IndicatorTypeOK
    <3>3. /\ main' \in {"serving", "leaving"} /\ done' \in BOOLEAN
          /\ worker' \in {"none", "running", "ended"}
      BY DEF BatteryInv, Battery!TypeOK
    <3> QED  BY <3>1, <3>2, <3>3 DEF Battery!TypeOK
  <2>2. Lifetimes' /\ OtherDark'
    BY DEF BatteryInv, Lifetimes, OtherDark
  <2> QED  BY <2>1, <2>2 DEF BatteryInv
<1>3. CASE Battery!JoinBattery
  <2> USE <1>3 DEF Battery!JoinBattery, Battery!Forget, Battery!indicatorVars,
                   Battery!chipVars
  <2>1. Battery!B!BatteryTypeOK' /\ Battery!NaNExplained'
    <3>1. 0 \in 0 .. ResetEvery - 1
      BY DEF Battery!B!ResetAssumption
    <3> QED
      BY <3>1 DEF BatteryInv, Battery!TypeOK, Battery!B!BatteryTypeOK,
         Battery!NaNExplained, Battery!B!ChargeAssumption
  <2>2. Battery!I!IndicatorTypeOK' /\ Lifetimes' /\ OtherDark'
    BY DEF BatteryInv, Battery!TypeOK, Battery!I!IndicatorTypeOK, Lifetimes, OtherDark
  <2>3. Battery!TypeOK'
    BY <2>1, <2>2 DEF BatteryInv, Battery!TypeOK
  <2> QED  BY <2>1, <2>2, <2>3 DEF BatteryInv
<1>4. CASE Battery!EndRounds
  BY <1>4 DEF Battery!EndRounds, BatteryInv, Battery!TypeOK,
     Battery!B!BatteryTypeOK, Battery!indicatorVars, Battery!batteryVars, Lifetimes,
     OtherDark, Battery!NaNExplained, Battery!I!IndicatorTypeOK, Battery!chipVars
<1>5. CASE Battery!World
  BY <1>5 DEF Battery!World, Battery!B!BusChanges, Battery!B!ChipForgets, BatteryInv,
     Battery!TypeOK, Battery!B!BatteryTypeOK, Battery!indicatorVars, Battery!batteryVars,
     Lifetimes, OtherDark, Battery!NaNExplained, Battery!I!IndicatorTypeOK,
     Battery!mainVars
<1>6. CASE UNCHANGED Battery!vars
  BY <1>6 DEF Battery!vars, BatteryInv, Battery!TypeOK, Battery!B!BatteryTypeOK,
     Battery!indicatorVars, Battery!batteryVars, Battery!mainVars, Battery!chipVars,
     Lifetimes, OtherDark, Battery!NaNExplained, Battery!I!IndicatorTypeOK
<1> QED
  BY <1>1, <1>2, <1>3, <1>4, <1>5, <1>6, MakeIndicatorKeeps, UnmakeIndicatorKeeps,
     DrawKeeps, RoundKeeps
  DEF Battery!Next, Battery!Makes, Battery!Unmakes

(* Whatever the chip measures and whenever the bus fails: never are both   *)
(* LEDs lit, no thread is left behind, and the charge is a number unless a *)
(* good current followed a failed one (GpioStatusIndicator, LithiumBattery).  *)
THEOREM BatteryIsSafe ==
  ASSUME Battery!SlowAssumption, Battery!B!ChargeAssumption, Battery!B!ResetAssumption
  PROVE  Battery!Spec => [](Battery!TypeOK /\ Battery!BatterySafe)
<1>1. BatteryInv => Battery!TypeOK /\ Battery!BatterySafe
  BY DEF BatteryInv, Lifetimes, OtherDark, Battery!BatterySafe, Battery!NeverBoth,
         Battery!NothingLeftBehind
<1> QED  BY <1>1, BatteryInitially, BatteryInductive, PTL DEF Battery!Spec

-----------------------------------------------------------------------------
(* The configuration.  The calls of a client are executed in order and its *)
(* answer is to its last one (Orderly, Own): so what a camera has read or  *)
(* is about to store is what its section has, unless it was edited or set  *)
(* since (RestRead, SettingsRead).                                         *)

Orderly ==
  \A k \in Conf!Clients :
    /\ Conf!Replied(k) => calls[k] = <<>> /\ serving # k
    /\ serving = k => service = "storing" /\ phase[k] = "set" /\ calls[k] = <<>>
    /\ phase[k] \in {"load", "get"} /\ calls[k] # <<>> =>
         calls[k][Len(calls[k])].op = "get"
    /\ phase[k] = "set" /\ calls[k] # <<>> => Len(calls[k]) = 1 /\ calls[k][1].op = "set"
    /\ phase[k] = "load" => k # Editor

(* A camera asks for its own section; it stores when nothing is under way. *)
Own ==
  \A c \in Cameras : \A i \in 1 .. Len(calls[c]) :
    calls[c][i].section = c /\ (calls[c][i].op = "set" => i = 1)

Storing(c) == calls[c] # <<>> /\ calls[c][1].op = "set"

RestRead ==
  \A c \in Cameras \ (stale \cup lost) :
    /\ phase[c] = "get" /\ Conf!Replied(c) => reply[c].value.rest = edited[c]
    /\ Storing(c) => calls[c][1].value.rest = edited[c]

SettingsRead ==
  \A c \in Cameras :
    /\ c \in agreed => phase[c] = "idle"
    /\ phase[c] \in {"get", "set"} \/ c \in agreed => device[c] = settings[c]
    /\ phase[c] = "set" /\ Storing(c) => calls[c][1].value.settings = settings[c]
    /\ c \notin meddled =>
         /\ phase[c] = "load" /\ Conf!Replied(c) =>
              reply[c].value.settings = config[c].settings
         /\ c \in agreed \/ (phase[c] = "set" /\ (Conf!Replied(c) \/ serving = c)) =>
              config[c].settings = settings[c]

(* The rest of each section, and the file. *)
RestSame == \A c \in Cameras \ lost : config[c].rest = edited[c]

FileSame ==
  /\ file.sections = config
  /\ file.state = "empty" => service = "storing" \/ torn

ConfInv ==
  Conf!TypeOK /\ Orderly /\ Own /\ RestRead /\ SettingsRead /\ RestSame /\ FileSame

LEMMA ConfInitially ==
  ASSUME Conf!ClientsAssumption PROVE Conf!Init => ConfInv
<1> SUFFICES ASSUME NEW v \in Values,
      /\ service = "up" /\ serving = Conf!NoOne /\ torn = FALSE
      /\ config = [c \in Cameras |-> [settings |-> v, rest |-> v]]
      /\ file = [state |-> "readable", sections |-> config]
      /\ calls = [k \in Conf!Clients |-> <<>>]
      /\ reply = [k \in Conf!Clients |-> Conf!None]
      /\ phase = [k \in Conf!Clients |-> IF k = Editor THEN "idle" ELSE "down"]
      /\ device = [c \in Cameras |-> Default]
      /\ settings = [c \in Cameras |-> v]
      /\ draft \in [section : Cameras, rest : {v}]
      /\ mishaps = 0 /\ edits = 0
      /\ agreed = {} /\ meddled = {} /\ stale = {} /\ lost = {}
      /\ edited = [c \in Cameras |-> v]
    PROVE ConfInv
  BY DEF Conf!Init
<1>1. Conf!TypeOK
  <2>1. /\ serving \in Conf!Clients \cup {Conf!NoOne} /\ torn \in BOOLEAN
        /\ config \in [Cameras -> Conf!Sections]
    BY DEF Conf!Sections
  <2>2. /\ calls \in [Conf!Clients -> Seq(Conf!Call)]
        /\ reply \in [Conf!Clients -> {Conf!None} \cup {Conf!Answer(w) : w \in Conf!Sections}]
    OBVIOUS
  <2>3. /\ mishaps \in 0 .. MaxFaults /\ edits \in 0 .. MaxEdits
    BY DEF Conf!ClientsAssumption
  <2>4. /\ file \in [state : {"readable", "empty"}, sections : [Cameras -> Conf!Sections]]
        /\ draft \in [section : Cameras, rest : Values]
    BY <2>1
  <2> QED  BY <2>1, <2>2, <2>3, <2>4 DEF Conf!TypeOK
<1>2. Orderly
  BY DEF Orderly, Conf!Replied, Conf!None, Conf!ClientsAssumption
<1>3. Own /\ RestRead /\ SettingsRead
  BY DEF Own, RestRead, SettingsRead, Storing, Conf!Clients, Conf!ClientsAssumption
<1>4. RestSame /\ FileSame
  BY DEF RestSame, FileSame
<1> QED  BY <1>1, <1>2, <1>3, <1>4 DEF ConfInv

LEMMA CallFields ==
  ASSUME NEW call \in Conf!Call
  PROVE  /\ call.section \in Cameras /\ call.op \in {"get", "set"}
         /\ call.op = "set" => call.value \in Conf!Sections
<1>1. CASE \E s \in Cameras : call = Conf!Get(s)
  BY <1>1 DEF Conf!Get
<1>2. CASE \E s \in Cameras, v \in Conf!Sections : call = Conf!SetTo(s, v)
  BY <1>2 DEF Conf!SetTo
<1> QED  BY <1>1, <1>2 DEF Conf!Call

LEMMA GetFields ==
  ASSUME NEW s \in Cameras
  PROVE  Conf!Get(s) \in Conf!Call /\ Conf!Get(s).op = "get" /\ Conf!Get(s).section = s
BY DEF Conf!Call, Conf!Get

LEMMA SetFields ==
  ASSUME NEW s \in Cameras, NEW v \in Conf!Sections
  PROVE  /\ Conf!SetTo(s, v) \in Conf!Call
         /\ Conf!SetTo(s, v).op = "set" /\ Conf!SetTo(s, v).section = s
         /\ Conf!SetTo(s, v).value = v
<1>1. Conf!SetTo(s, v) \in Conf!Call
  BY DEF Conf!Call
<1>2. /\ Conf!SetTo(s, v).op = "set" /\ Conf!SetTo(s, v).section = s
      /\ Conf!SetTo(s, v).value = v
  BY DEF Conf!SetTo
<1> QED  BY <1>1, <1>2

LEMMA Answers ==
  ASSUME Conf!TypeOK, NEW k \in Conf!Clients
  PROVE  /\ Conf!Replied(k) => reply[k].value \in Conf!Sections
         /\ \A v \in Conf!Sections : /\ Conf!Answer(v).value = v
                                     /\ Conf!Answer(v) # Conf!None
BY DEF Conf!TypeOK, Conf!Replied, Conf!Answer, Conf!None

(* A call is put at the end, and taken from the front. *)
LEMMA Asked ==
  ASSUME Conf!TypeOK, NEW k \in Conf!Clients, NEW call \in Conf!Call, Conf!Ask(k, call)
  PROVE  /\ calls' \in [Conf!Clients -> Seq(Conf!Call)]
         /\ reply' \in [Conf!Clients -> {Conf!None} \cup
                                          {Conf!Answer(v) : v \in Conf!Sections}]
         /\ calls'[k] # <<>> /\ Len(calls'[k]) = Len(calls[k]) + 1
         /\ Len(calls[k]) \in Nat
         /\ calls'[k][Len(calls[k]) + 1] = call
         /\ \A i \in 1 .. Len(calls[k]) : calls'[k][i] = calls[k][i]
         /\ ~Conf!Replied(k)'
         /\ \A j \in Conf!Clients \ {k} : /\ calls'[j] = calls[j]
                                          /\ Conf!Replied(j)' = Conf!Replied(j)
                                          /\ reply'[j] = reply[j]
<1> DEFINE s == calls[k]
<1>1. s \in Seq(Conf!Call) /\ calls' = [calls EXCEPT ![k] = Append(s, call)]
  BY DEF Conf!TypeOK, Conf!Ask
<1>2. /\ Append(s, call) \in Seq(Conf!Call) /\ Len(s) \in Nat
      /\ Len(Append(s, call)) = Len(s) + 1 /\ Append(s, call)[Len(s) + 1] = call
      /\ \A i \in 1 .. Len(s) : Append(s, call)[i] = s[i]
      /\ Append(s, call) # <<>>
  BY <1>1
<1>3. /\ calls' \in [Conf!Clients -> Seq(Conf!Call)] /\ calls'[k] = Append(s, call)
      /\ \A j \in Conf!Clients \ {k} : calls'[j] = calls[j]
  BY <1>1, <1>2 DEF Conf!TypeOK
<1>4. /\ reply' \in [Conf!Clients -> {Conf!None} \cup
                                       {Conf!Answer(v) : v \in Conf!Sections}]
      /\ reply'[k] = Conf!None
      /\ \A j \in Conf!Clients \ {k} : reply'[j] = reply[j]
  BY DEF Conf!TypeOK, Conf!Ask
<1> QED  BY <1>2, <1>3, <1>4 DEF Conf!Replied

LEMMA Served ==
  ASSUME Conf!TypeOK, NEW k \in Conf!Clients, calls[k] # <<>>, Conf!Executed(k)
  PROVE  /\ calls' \in [Conf!Clients -> Seq(Conf!Call)]
         /\ calls[k][1] \in Conf!Call /\ Head(calls[k]) = calls[k][1]
         /\ Len(calls[k]) \in Nat \ {0} /\ Len(calls'[k]) = Len(calls[k]) - 1
         /\ \A i \in 1 .. Len(calls'[k]) : calls'[k][i] = calls[k][i + 1]
         /\ calls'[k] = <<>> <=> Len(calls[k]) = 1
         /\ \A j \in Conf!Clients \ {k} : calls'[j] = calls[j]
<1> DEFINE s == calls[k]
<1>1. s \in Seq(Conf!Call) /\ s # <<>> /\ calls' = [calls EXCEPT ![k] = Tail(s)]
  BY DEF Conf!TypeOK, Conf!Executed
<1>2. /\ Tail(s) \in Seq(Conf!Call) /\ Len(s) \in Nat \ {0}
      /\ Len(Tail(s)) = Len(s) - 1 /\ Head(s) = s[1] /\ s[1] \in Conf!Call
      /\ \A i \in 1 .. Len(Tail(s)) : Tail(s)[i] = s[i + 1]
  BY <1>1
<1>3. Tail(s) = <<>> <=> Len(Tail(s)) = 0
  <2>1. \A t \in Seq(Conf!Call) : t = <<>> <=> Len(t) = 0
    OBVIOUS
  <2> QED  BY <1>2, <2>1
<1>4. /\ calls' \in [Conf!Clients -> Seq(Conf!Call)] /\ calls'[k] = Tail(s)
      /\ \A j \in Conf!Clients \ {k} : calls'[j] = calls[j]
  BY <1>1, <1>2 DEF Conf!TypeOK
<1> QED  BY <1>2, <1>3, <1>4

(* A get comes after what its client has asked before; a set is alone.     *)
LEMMA AskedToGet ==
  ASSUME ConfInv, NEW k \in Conf!Clients, NEW s \in Cameras, k \in Cameras => s = k,
         Conf!Ask(k, Conf!Get(s))
  PROVE  /\ Own'
         /\ calls'[k] # <<>> /\ calls'[k][Len(calls'[k])].op = "get"
         /\ \A c \in Cameras : Storing(c)' => Storing(c) /\ calls'[c][1] = calls[c][1]
<1> DEFINE n == Len(calls[k])
<1>1. Conf!TypeOK /\ Own /\ Cameras \subseteq Conf!Clients
  BY DEF ConfInv, Conf!Clients
<1>2. Conf!Get(s) \in Conf!Call /\ Conf!Get(s).op = "get" /\ Conf!Get(s).section = s
  BY GetFields
<1>3. /\ calls'[k] # <<>> /\ Len(calls'[k]) = n + 1 /\ n \in Nat
      /\ calls'[k][n + 1] = Conf!Get(s)
      /\ \A i \in 1 .. n : calls'[k][i] = calls[k][i]
      /\ \A j \in Conf!Clients \ {k} : calls'[j] = calls[j]
      /\ calls[k] = <<>> <=> n = 0
  <2>1. calls[k] \in Seq(Conf!Call)
    BY <1>1 DEF Conf!TypeOK
  <2>2. calls[k] = <<>> <=> n = 0
    BY <2>1
  <2> QED  BY <1>1, <1>2, <2>2, Asked
<1>4. Own'
  <2> SUFFICES ASSUME NEW c \in Cameras, NEW i \in 1 .. Len(calls'[c])
               PROVE  calls'[c][i].section = c /\ (calls'[c][i].op = "set" => i = 1)
    BY DEF Own
  <2>1. CASE c # k
    BY <1>1, <1>3, <2>1 DEF Own
  <2>2. CASE c = k /\ i = n + 1
    BY <1>2, <1>3, <2>2
  <2>3. CASE c = k /\ i \in 1 .. n
    BY <1>1, <1>3, <2>3 DEF Own
  <2> QED  BY <1>3, <2>1, <2>2, <2>3
<1>5. ASSUME NEW c \in Cameras, Storing(c)'
      PROVE  Storing(c) /\ calls'[c][1] = calls[c][1]
  <2>1. CASE c # k
    BY <1>1, <1>3, <1>5, <2>1 DEF Storing
  <2>2. CASE c = k
    <3>1. n # 0
      BY <1>2, <1>3, <1>5, <2>2 DEF Storing
    <3> QED  BY <1>3, <1>5, <2>2, <3>1 DEF Storing
  <2> QED  BY <2>1, <2>2
<1> QED  BY <1>2, <1>3, <1>4, <1>5

LEMMA AskedToSet ==
  ASSUME ConfInv, NEW k \in Conf!Clients, NEW s \in Cameras, k \in Cameras => s = k,
         NEW v \in Conf!Sections, calls[k] = <<>>, Conf!Ask(k, Conf!SetTo(s, v))
  PROVE  /\ Own'
         /\ calls'[k] # <<>> /\ Len(calls'[k]) = 1 /\ calls'[k][1].op = "set"
         /\ calls'[k][1].value = v
<1>1. Conf!TypeOK /\ Own /\ Cameras \subseteq Conf!Clients
  BY DEF ConfInv, Conf!Clients
<1>2. /\ Conf!SetTo(s, v) \in Conf!Call /\ Conf!SetTo(s, v).op = "set"
      /\ Conf!SetTo(s, v).section = s /\ Conf!SetTo(s, v).value = v
  BY SetFields
<1>3. /\ calls'[k] # <<>> /\ Len(calls'[k]) = Len(calls[k]) + 1
      /\ calls'[k][Len(calls[k]) + 1] = Conf!SetTo(s, v)
      /\ \A j \in Conf!Clients \ {k} : calls'[j] = calls[j]
  BY <1>1, <1>2, Asked
<1>4. /\ calls'[k] # <<>> /\ Len(calls'[k]) = 1 /\ calls'[k][1] = Conf!SetTo(s, v)
      /\ \A j \in Conf!Clients \ {k} : calls'[j] = calls[j]
  BY <1>3
<1>5. Own'
  BY <1>1, <1>2, <1>4 DEF Own
<1> QED  BY <1>2, <1>4, <1>5

LEMMA CameraStartsKeeps ==
  ASSUME Conf!ClientsAssumption, ConfInv, NEW c \in Cameras, Conf!CameraStarts(c)
  PROVE  ConfInv'
<1> USE DEF Conf!CameraStarts, Conf!Goto, Conf!serviceVars, Conf!cameraVars, Conf!bounds,
            Conf!historyVars
<1>1. /\ Conf!TypeOK /\ Orderly /\ Own /\ RestRead /\ SettingsRead /\ RestSame
      /\ FileSame /\ Cameras \subseteq Conf!Clients /\ c # Editor
  BY DEF ConfInv, Conf!Clients, Conf!ClientsAssumption
<1>2. Conf!Get(c) \in Conf!Call
  BY GetFields
<1>3. Conf!TypeOK'
  BY <1>1, <1>2, Asked DEF Conf!TypeOK
<1>4. /\ Own' /\ calls'[c] # <<>> /\ calls'[c][Len(calls'[c])].op = "get"
      /\ \A d \in Cameras : Storing(d)' => Storing(d) /\ calls'[d][1] = calls[d][1]
  BY <1>1, AskedToGet
<1>5. /\ ~Conf!Replied(c)'
      /\ \A j \in Conf!Clients \ {c} : /\ calls'[j] = calls[j]
                                       /\ Conf!Replied(j)' = Conf!Replied(j)
                                       /\ reply'[j] = reply[j]
  BY <1>1, <1>2, Asked
<1>6. phase[c] = "down" /\ phase'[c] = "load"
      /\ \A j \in Conf!Clients \ {c} : phase'[j] = phase[j]
  BY <1>1 DEF Conf!TypeOK
<1>7. Orderly'
  BY <1>1, <1>4, <1>5, <1>6 DEF Orderly
<1>8. RestRead'
  BY <1>1, <1>4, <1>5, <1>6 DEF RestRead
<1>9. SettingsRead'
  BY <1>1, <1>4, <1>5, <1>6 DEF SettingsRead
<1>10. RestSame' /\ FileSame'
  BY <1>1 DEF RestSame, FileSame
<1> QED  BY <1>3, <1>4, <1>7, <1>8, <1>9, <1>10 DEF ConfInv

LEMMA CameraLoadsKeeps ==
  ASSUME Conf!ClientsAssumption, ConfInv, NEW c \in Cameras, Conf!CameraLoads(c)
  PROVE  ConfInv'
<1> USE DEF Conf!CameraLoads, Conf!Goto, Conf!serviceVars, Conf!callVars, Conf!cameraVars,
            Conf!bounds, Conf!historyVars, Conf!Fault, Conf!Edit
<1>1. /\ Conf!TypeOK /\ Orderly /\ Own /\ RestRead /\ SettingsRead /\ RestSame
      /\ FileSame /\ Cameras \subseteq Conf!Clients /\ Editor \in Conf!Clients
      /\ Editor \notin Cameras /\ Conf!NoOne \notin Conf!Clients
      /\ MaxFaults \in Nat /\ MaxEdits \in Nat
  BY DEF ConfInv, Conf!Clients, Conf!ClientsAssumption
<1>2. /\ reply[c].value \in Conf!Sections /\ reply[c].value.settings \in Values
  BY <1>1, Answers DEF Conf!Sections
<1>3. Conf!TypeOK'
  BY <1>1, <1>2 DEF Conf!TypeOK
<1>4. Own'
  BY <1>1 DEF Own
<1>5. /\ \A j \in Conf!Clients : Conf!Replied(j)' = Conf!Replied(j)
      /\ reply' = reply /\ calls' = calls /\ Conf!Replied(c)
      /\ device'[c] = reply[c].value.settings /\ settings'[c] = device'[c]
      /\ \A d \in Cameras \ {c} : device'[d] = device[d] /\ settings'[d] = settings[d]
  BY <1>1 DEF Conf!Replied, Conf!TypeOK
<1>6. phase[c] = "load" /\ phase'[c] = "idle"
      /\ \A j \in Conf!Clients \ {c} : phase'[j] = phase[j]
  BY <1>1 DEF Conf!TypeOK
<1>7. Orderly'
  BY <1>1, <1>4, <1>5, <1>6 DEF Orderly
<1>8. RestRead'
  BY <1>1, <1>4, <1>5, <1>6 DEF RestRead, Storing
<1>9. SettingsRead'
  BY <1>1, <1>4, <1>5, <1>6 DEF SettingsRead, Storing
<1>10. RestSame' /\ FileSame'
  BY <1>1 DEF RestSame, FileSame
<1> QED  BY <1>3, <1>4, <1>7, <1>8, <1>9, <1>10 DEF ConfInv

LEMMA SetValueKeeps ==
  ASSUME Conf!ClientsAssumption, ConfInv, NEW c \in Cameras, NEW v \in Values, Conf!SetValue(c, v)
  PROVE  ConfInv'
<1> USE DEF Conf!SetValue, Conf!Goto, Conf!serviceVars, Conf!callVars, Conf!cameraVars,
            Conf!bounds, Conf!historyVars, Conf!Fault, Conf!Edit
<1>1. /\ Conf!TypeOK /\ Orderly /\ Own /\ RestRead /\ SettingsRead /\ RestSame
      /\ FileSame /\ Cameras \subseteq Conf!Clients /\ Editor \in Conf!Clients
      /\ Editor \notin Cameras /\ Conf!NoOne \notin Conf!Clients
      /\ MaxFaults \in Nat /\ MaxEdits \in Nat
  BY DEF ConfInv, Conf!Clients, Conf!ClientsAssumption
<1>2. Conf!Get(c) \in Conf!Call
  BY GetFields
<1>3. Conf!TypeOK'
  <2>1. edits' \in 0 .. MaxEdits
    BY <1>1 DEF Conf!TypeOK
  <2> QED  BY <1>1, <1>2, <2>1, Asked DEF Conf!TypeOK
<1>4. /\ Own' /\ calls'[c] # <<>> /\ calls'[c][Len(calls'[c])].op = "get"
      /\ \A d \in Cameras : Storing(d)' => Storing(d) /\ calls'[d][1] = calls[d][1]
  BY <1>1, AskedToGet
<1>5. /\ ~Conf!Replied(c)'
      /\ \A j \in Conf!Clients \ {c} : /\ calls'[j] = calls[j]
                                       /\ Conf!Replied(j)' = Conf!Replied(j)
                                       /\ reply'[j] = reply[j]
  BY <1>1, <1>2, Asked
<1>6. /\ phase[c] = "idle" /\ phase'[c] = "get"
      /\ \A j \in Conf!Clients \ {c} : phase'[j] = phase[j]
      /\ device'[c] = settings'[c]
      /\ \A d \in Cameras \ {c} : device'[d] = device[d] /\ settings'[d] = settings[d]
  BY <1>1 DEF Conf!TypeOK
<1>7. Orderly'
  BY <1>1, <1>4, <1>5, <1>6 DEF Orderly
<1>8. RestRead'
  BY <1>1, <1>4, <1>5, <1>6 DEF RestRead
<1>9. SettingsRead'
  BY <1>1, <1>4, <1>5, <1>6 DEF SettingsRead
<1>10. RestSame' /\ FileSame'
  BY <1>1 DEF RestSame, FileSame
<1> QED  BY <1>3, <1>4, <1>7, <1>8, <1>9, <1>10 DEF ConfInv

LEMMA PutSectionKeeps ==
  ASSUME Conf!ClientsAssumption, ConfInv, NEW c \in Cameras, Conf!PutSection(c)
  PROVE  ConfInv'
<1> USE DEF Conf!PutSection, Conf!Goto, Conf!serviceVars, Conf!callVars, Conf!cameraVars,
            Conf!bounds, Conf!historyVars, Conf!Fault, Conf!Edit
<1>1. /\ Conf!TypeOK /\ Orderly /\ Own /\ RestRead /\ SettingsRead /\ RestSame
      /\ FileSame /\ Cameras \subseteq Conf!Clients /\ Editor \in Conf!Clients
      /\ Editor \notin Cameras /\ Conf!NoOne \notin Conf!Clients
      /\ MaxFaults \in Nat /\ MaxEdits \in Nat
  BY DEF ConfInv, Conf!Clients, Conf!ClientsAssumption
<1> DEFINE v == [reply[c].value EXCEPT !.settings = settings[c]]
<1>2. /\ v \in Conf!Sections /\ v.settings = settings[c] /\ v.rest = reply[c].value.rest
      /\ Conf!SetTo(c, v) \in Conf!Call /\ calls[c] = <<>> /\ serving # c
  <2>1. reply[c].value \in Conf!Sections /\ settings[c] \in Values
    BY <1>1, Answers DEF Conf!TypeOK
  <2>2. v \in Conf!Sections /\ v.settings = settings[c] /\ v.rest = reply[c].value.rest
    BY <2>1 DEF Conf!Sections
  <2> QED  BY <1>1, <2>2, SetFields DEF Orderly
<1> HIDE DEF v
<1>3. Conf!TypeOK'
  BY <1>1, <1>2, Asked DEF Conf!TypeOK, v
<1>4. /\ Own' /\ calls'[c] # <<>> /\ Len(calls'[c]) = 1 /\ calls'[c][1].op = "set"
      /\ calls'[c][1].value = v
  BY <1>1, <1>2, AskedToSet DEF v
<1>5. /\ ~Conf!Replied(c)' /\ Conf!Replied(c)
      /\ \A j \in Conf!Clients \ {c} : /\ calls'[j] = calls[j]
                                       /\ Conf!Replied(j)' = Conf!Replied(j)
                                       /\ reply'[j] = reply[j]
  BY <1>1, <1>2, Asked DEF v
<1>6. /\ phase[c] = "get" /\ phase'[c] = "set"
      /\ \A j \in Conf!Clients \ {c} : phase'[j] = phase[j]
  BY <1>1 DEF Conf!TypeOK
<1>7. Orderly'
  BY <1>1, <1>4, <1>5, <1>6 DEF Orderly
<1>8. RestRead'
  BY <1>1, <1>2, <1>4, <1>5, <1>6 DEF RestRead, Storing
<1>9. SettingsRead'
  BY <1>1, <1>2, <1>4, <1>5, <1>6 DEF SettingsRead, Storing
<1>10. RestSame' /\ FileSame'
  BY <1>1 DEF RestSame, FileSame
<1> QED  BY <1>3, <1>4, <1>7, <1>8, <1>9, <1>10 DEF ConfInv

LEMMA SetReturnsKeeps ==
  ASSUME Conf!ClientsAssumption, ConfInv, NEW c \in Cameras, Conf!SetReturns(c)
  PROVE  ConfInv'
<1> USE DEF Conf!SetReturns, Conf!Goto, Conf!serviceVars, Conf!callVars, Conf!cameraVars,
            Conf!bounds, Conf!historyVars, Conf!Fault, Conf!Edit
<1>1. /\ Conf!TypeOK /\ Orderly /\ Own /\ RestRead /\ SettingsRead /\ RestSame
      /\ FileSame /\ Cameras \subseteq Conf!Clients /\ Editor \in Conf!Clients
      /\ Editor \notin Cameras /\ Conf!NoOne \notin Conf!Clients
      /\ MaxFaults \in Nat /\ MaxEdits \in Nat
  BY DEF ConfInv, Conf!Clients, Conf!ClientsAssumption
<1>3. Conf!TypeOK'
  BY <1>1 DEF Conf!TypeOK
<1>4. Own'
  BY <1>1 DEF Own
<1>5. /\ \A j \in Conf!Clients : Conf!Replied(j)' = Conf!Replied(j)
      /\ reply' = reply /\ calls' = calls /\ Conf!Replied(c)
  BY <1>1 DEF Conf!Replied, Conf!TypeOK
<1>6. phase[c] = "set" /\ phase'[c] = "idle"
      /\ \A j \in Conf!Clients \ {c} : phase'[j] = phase[j]
  BY <1>1 DEF Conf!TypeOK
<1>7. Orderly'
  BY <1>1, <1>4, <1>5, <1>6 DEF Orderly
<1>8. RestRead'
  BY <1>1, <1>4, <1>5, <1>6 DEF RestRead, Storing
<1>9. SettingsRead'
  BY <1>1, <1>4, <1>5, <1>6 DEF SettingsRead, Storing
<1>10. RestSame' /\ FileSame'
  BY <1>1 DEF RestSame, FileSame
<1> QED  BY <1>3, <1>4, <1>7, <1>8, <1>9, <1>10 DEF ConfInv

LEMMA FailsKeeps ==
  ASSUME Conf!ClientsAssumption, ConfInv, NEW k \in Conf!Clients, Conf!Fails(k)
  PROVE  ConfInv'
<1> USE DEF Conf!Fails, Conf!Goto, Conf!serviceVars, Conf!callVars, Conf!cameraVars,
            Conf!bounds, Conf!historyVars, Conf!Fault, Conf!Edit
<1>1. /\ Conf!TypeOK /\ Orderly /\ Own /\ RestRead /\ SettingsRead /\ RestSame
      /\ FileSame /\ Cameras \subseteq Conf!Clients /\ Editor \in Conf!Clients
      /\ Editor \notin Cameras /\ Conf!NoOne \notin Conf!Clients
      /\ MaxFaults \in Nat /\ MaxEdits \in Nat
  BY DEF ConfInv, Conf!Clients, Conf!ClientsAssumption
<1>2. /\ calls' \in [Conf!Clients -> Seq(Conf!Call)]
      /\ \A j \in Conf!Clients : calls'[j] = calls[j] \/ calls'[j] = <<>>
  <2>1. CASE calls' = calls
    BY <1>1, <2>1 DEF Conf!TypeOK
  <2>2. CASE calls' = [calls EXCEPT ![k] = <<>>]
    BY <1>1, <2>2 DEF Conf!TypeOK
  <2> QED  BY <2>1, <2>2
<1>3. Conf!TypeOK'
  <2>1. mishaps' \in 0 .. MaxFaults
    BY <1>1 DEF Conf!TypeOK
  <2>2. reply' \in [Conf!Clients -> {Conf!None} \cup {Conf!Answer(v) : v \in Conf!Sections}]
    BY <1>1 DEF Conf!TypeOK
  <2>3. /\ phase' \in [Conf!Clients -> {"down", "load", "idle", "get", "set"}]
        /\ serving' \in Conf!Clients \cup {Conf!NoOne}
    BY <1>1 DEF Conf!TypeOK
  <2> QED  BY <1>1, <1>2, <2>1, <2>2, <2>3 DEF Conf!TypeOK
<1>4. /\ Own'
      /\ \A j \in Conf!Clients : calls'[j] = calls[j] \/ calls'[j] = <<>>
      /\ \A c \in Cameras : Storing(c)' => Storing(c) /\ calls'[c] = calls[c]
  <2>1. \A c \in Cameras : \A i \in 1 .. Len(calls'[c]) :
          i \in 1 .. Len(calls[c]) /\ calls'[c][i] = calls[c][i]
    BY <1>1, <1>2
  <2>2. Own'
    BY <1>1, <2>1 DEF Own
  <2> QED  BY <1>1, <1>2, <2>2 DEF Storing
<1>5. /\ ~Conf!Replied(k)'
      /\ \A j \in Conf!Clients \ {k} : /\ Conf!Replied(j)' = Conf!Replied(j)
                                       /\ reply'[j] = reply[j]
  BY <1>1 DEF Conf!Replied, Conf!TypeOK
<1>6. /\ phase[k] \in {"load", "get", "set"} /\ phase'[k] \in {"down", "idle"}
      /\ \A j \in Conf!Clients \ {k} : phase'[j] = phase[j]
      /\ \A j \in Conf!Clients : serving' = j => serving = j /\ j # k
  BY <1>1 DEF Conf!TypeOK
<1>7. Orderly'
  BY <1>1, <1>4, <1>5, <1>6 DEF Orderly
<1>8. RestRead'
  BY <1>1, <1>4, <1>5, <1>6 DEF RestRead
<1>9. SettingsRead'
  BY <1>1, <1>4, <1>5, <1>6 DEF SettingsRead
<1>10. RestSame' /\ FileSame'
  BY <1>1 DEF RestSame, FileSame
<1> QED  BY <1>3, <1>4, <1>7, <1>8, <1>9, <1>10 DEF ConfInv

LEMMA CameraDiesKeeps ==
  ASSUME Conf!ClientsAssumption, ConfInv, NEW c \in Cameras, Conf!CameraDies(c)
  PROVE  ConfInv'
<1> USE DEF Conf!CameraDies, Conf!Goto, Conf!serviceVars, Conf!callVars, Conf!cameraVars,
            Conf!bounds, Conf!historyVars, Conf!Fault, Conf!Edit
<1>1. /\ Conf!TypeOK /\ Orderly /\ Own /\ RestRead /\ SettingsRead /\ RestSame
      /\ FileSame /\ Cameras \subseteq Conf!Clients /\ Editor \in Conf!Clients
      /\ Editor \notin Cameras /\ Conf!NoOne \notin Conf!Clients
      /\ MaxFaults \in Nat /\ MaxEdits \in Nat
  BY DEF ConfInv, Conf!Clients, Conf!ClientsAssumption
<1>3. Conf!TypeOK'
  <2>1. mishaps' \in 0 .. MaxFaults
    BY <1>1 DEF Conf!TypeOK
  <2>2. reply' \in [Conf!Clients -> {Conf!None} \cup {Conf!Answer(v) : v \in Conf!Sections}]
    BY <1>1 DEF Conf!TypeOK
  <2>3. /\ phase' \in [Conf!Clients -> {"down", "load", "idle", "get", "set"}]
        /\ device' \in [Cameras -> Values \cup {Default}]
        /\ serving' \in Conf!Clients \cup {Conf!NoOne}
    BY <1>1 DEF Conf!TypeOK
  <2> QED  BY <1>1, <2>1, <2>2, <2>3 DEF Conf!TypeOK
<1>4. Own'
  BY <1>1 DEF Own
<1>5. /\ ~Conf!Replied(c)'
      /\ \A j \in Conf!Clients \ {c} : /\ Conf!Replied(j)' = Conf!Replied(j)
                                       /\ reply'[j] = reply[j]
  BY <1>1 DEF Conf!Replied, Conf!TypeOK
<1>6. /\ phase'[c] = "down"
      /\ \A j \in Conf!Clients \ {c} : phase'[j] = phase[j]
      /\ \A d \in Cameras \ {c} : device'[d] = device[d]
      /\ \A j \in Conf!Clients : serving' = j => serving = j /\ j # c
  BY <1>1 DEF Conf!TypeOK
<1>7. Orderly'
  BY <1>1, <1>4, <1>5, <1>6 DEF Orderly
<1>8. RestRead'
  BY <1>1, <1>4, <1>5, <1>6 DEF RestRead, Storing
<1>9. SettingsRead'
  BY <1>1, <1>4, <1>5, <1>6 DEF SettingsRead, Storing
<1>10. RestSame' /\ FileSame'
  BY <1>1 DEF RestSame, FileSame
<1> QED  BY <1>3, <1>4, <1>7, <1>8, <1>9, <1>10 DEF ConfInv

LEMMA EditorReadsKeeps ==
  ASSUME Conf!ClientsAssumption, ConfInv, NEW s \in Cameras, NEW v \in Values, Conf!EditorReads(s, v)
  PROVE  ConfInv'
<1> USE DEF Conf!EditorReads, Conf!Goto, Conf!serviceVars, Conf!callVars, Conf!cameraVars,
            Conf!bounds, Conf!historyVars, Conf!Fault, Conf!Edit
<1>1. /\ Conf!TypeOK /\ Orderly /\ Own /\ RestRead /\ SettingsRead /\ RestSame
      /\ FileSame /\ Cameras \subseteq Conf!Clients /\ Editor \in Conf!Clients
      /\ Editor \notin Cameras /\ Conf!NoOne \notin Conf!Clients
      /\ MaxFaults \in Nat /\ MaxEdits \in Nat
  BY DEF ConfInv, Conf!Clients, Conf!ClientsAssumption
<1>2. Conf!Get(s) \in Conf!Call
  BY GetFields
<1>3. Conf!TypeOK'
  <2>1. edits' \in 0 .. MaxEdits
    BY <1>1 DEF Conf!TypeOK
  <2> QED  BY <1>1, <1>2, <2>1, Asked DEF Conf!TypeOK
<1>4. /\ Own' /\ calls'[Editor] # <<>> /\ calls'[Editor][Len(calls'[Editor])].op = "get"
      /\ \A d \in Cameras : Storing(d)' => Storing(d) /\ calls'[d][1] = calls[d][1]
  BY <1>1, AskedToGet
<1>5. /\ ~Conf!Replied(Editor)'
      /\ \A j \in Conf!Clients \ {Editor} : /\ calls'[j] = calls[j]
                                       /\ Conf!Replied(j)' = Conf!Replied(j)
                                       /\ reply'[j] = reply[j]
  BY <1>1, <1>2, Asked
<1>6. /\ phase[Editor] = "idle" /\ phase'[Editor] = "get"
      /\ \A j \in Conf!Clients \ {Editor} : phase'[j] = phase[j]
  BY <1>1 DEF Conf!TypeOK
<1>7. Orderly'
  BY <1>1, <1>4, <1>5, <1>6 DEF Orderly
<1>8. RestRead'
  BY <1>1, <1>4, <1>5, <1>6 DEF RestRead, Storing
<1>9. SettingsRead'
  BY <1>1, <1>4, <1>5, <1>6 DEF SettingsRead, Storing
<1>10. RestSame' /\ FileSame'
  BY <1>1 DEF RestSame, FileSame
<1> QED  BY <1>3, <1>4, <1>7, <1>8, <1>9, <1>10 DEF ConfInv

LEMMA EditorStoresKeeps ==
  ASSUME Conf!ClientsAssumption, ConfInv, Conf!EditorStores
  PROVE  ConfInv'
<1> USE DEF Conf!EditorStores, Conf!Goto, Conf!serviceVars, Conf!callVars, Conf!cameraVars,
            Conf!bounds, Conf!historyVars, Conf!Fault, Conf!Edit
<1>1. /\ Conf!TypeOK /\ Orderly /\ Own /\ RestRead /\ SettingsRead /\ RestSame
      /\ FileSame /\ Cameras \subseteq Conf!Clients /\ Editor \in Conf!Clients
      /\ Editor \notin Cameras /\ Conf!NoOne \notin Conf!Clients
      /\ MaxFaults \in Nat /\ MaxEdits \in Nat
  BY DEF ConfInv, Conf!Clients, Conf!ClientsAssumption
<1> DEFINE v == [reply[Editor].value EXCEPT !.rest = draft.rest]
<1>2. /\ v \in Conf!Sections /\ draft.section \in Cameras
      /\ Conf!SetTo(draft.section, v) \in Conf!Call
      /\ calls[Editor] = <<>> /\ serving # Editor
  <2>1. reply[Editor].value \in Conf!Sections /\ draft.rest \in Values
        /\ draft.section \in Cameras
    BY <1>1, Answers DEF Conf!TypeOK
  <2>2. v \in Conf!Sections
    BY <2>1 DEF Conf!Sections
  <2> QED  BY <1>1, <2>1, <2>2, SetFields DEF Orderly
<1> HIDE DEF v
<1>3. Conf!TypeOK'
  BY <1>1, <1>2, Asked DEF Conf!TypeOK, v
<1>4. /\ Own' /\ calls'[Editor] # <<>> /\ Len(calls'[Editor]) = 1
      /\ calls'[Editor][1].op = "set"
  BY <1>1, <1>2, AskedToSet DEF v
<1>5. /\ ~Conf!Replied(Editor)'
      /\ \A j \in Conf!Clients \ {Editor} : /\ calls'[j] = calls[j]
                                       /\ Conf!Replied(j)' = Conf!Replied(j)
                                       /\ reply'[j] = reply[j]
  BY <1>1, <1>2, Asked DEF v
<1>6. /\ phase[Editor] = "get" /\ phase'[Editor] = "set" /\ serving # Editor
      /\ \A j \in Conf!Clients \ {Editor} : phase'[j] = phase[j]
  BY <1>1, <1>2 DEF Conf!TypeOK
<1>7. Orderly'
  BY <1>1, <1>4, <1>5, <1>6 DEF Orderly
<1>8. RestRead'
  BY <1>1, <1>4, <1>5, <1>6 DEF RestRead, Storing
<1>9. SettingsRead'
  BY <1>1, <1>4, <1>5, <1>6 DEF SettingsRead, Storing
<1>10. RestSame' /\ FileSame'
  BY <1>1 DEF RestSame, FileSame
<1> QED  BY <1>3, <1>4, <1>7, <1>8, <1>9, <1>10 DEF ConfInv

LEMMA EditorEndsKeeps ==
  ASSUME Conf!ClientsAssumption, ConfInv, Conf!EditorEnds
  PROVE  ConfInv'
<1> USE DEF Conf!EditorEnds, Conf!Goto, Conf!serviceVars, Conf!callVars, Conf!cameraVars,
            Conf!bounds, Conf!historyVars, Conf!Fault, Conf!Edit
<1>1. /\ Conf!TypeOK /\ Orderly /\ Own /\ RestRead /\ SettingsRead /\ RestSame
      /\ FileSame /\ Cameras \subseteq Conf!Clients /\ Editor \in Conf!Clients
      /\ Editor \notin Cameras /\ Conf!NoOne \notin Conf!Clients
      /\ MaxFaults \in Nat /\ MaxEdits \in Nat
  BY DEF ConfInv, Conf!Clients, Conf!ClientsAssumption
<1>3. Conf!TypeOK'
  BY <1>1 DEF Conf!TypeOK
<1>4. Own'
  BY <1>1 DEF Own
<1>5. /\ \A j \in Conf!Clients : Conf!Replied(j)' = Conf!Replied(j)
      /\ reply' = reply /\ calls' = calls
  BY <1>1 DEF Conf!Replied, Conf!TypeOK
<1>6. phase[Editor] = "set" /\ phase'[Editor] = "idle"
      /\ \A j \in Conf!Clients \ {Editor} : phase'[j] = phase[j]
  BY <1>1 DEF Conf!TypeOK
<1>7. Orderly'
  BY <1>1, <1>4, <1>5, <1>6 DEF Orderly
<1>8. RestRead'
  BY <1>1, <1>4, <1>5, <1>6 DEF RestRead, Storing
<1>9. SettingsRead'
  BY <1>1, <1>4, <1>5, <1>6 DEF SettingsRead, Storing
<1>10. RestSame' /\ FileSame'
  BY <1>1 DEF RestSame, FileSame
<1> QED  BY <1>3, <1>4, <1>7, <1>8, <1>9, <1>10 DEF ConfInv

LEMMA ServeGetKeeps ==
  ASSUME Conf!ClientsAssumption, ConfInv, NEW k \in Conf!Clients, Conf!ServeGet(k)
  PROVE  ConfInv'
<1> USE DEF Conf!ServeGet, Conf!Goto, Conf!serviceVars, Conf!callVars, Conf!cameraVars,
            Conf!bounds, Conf!historyVars, Conf!Fault, Conf!Edit
<1>1. /\ Conf!TypeOK /\ Orderly /\ Own /\ RestRead /\ SettingsRead /\ RestSame
      /\ FileSame /\ Cameras \subseteq Conf!Clients /\ Editor \in Conf!Clients
      /\ Editor \notin Cameras /\ Conf!NoOne \notin Conf!Clients
      /\ MaxFaults \in Nat /\ MaxEdits \in Nat
  BY DEF ConfInv, Conf!Clients, Conf!ClientsAssumption
<1> DEFINE s == calls[k][1].section
<1>2. /\ s \in Cameras /\ calls[k][1].op = "get" /\ calls' \in [Conf!Clients -> Seq(Conf!Call)]
      /\ Len(calls[k]) \in Nat \ {0} /\ Len(calls'[k]) = Len(calls[k]) - 1
      /\ \A i \in 1 .. Len(calls'[k]) : calls'[k][i] = calls[k][i + 1]
      /\ calls'[k] = <<>> <=> Len(calls[k]) = 1
      /\ \A j \in Conf!Clients \ {k} : calls'[j] = calls[j]
      /\ Head(calls[k]).section = s
  BY <1>1, Served, CallFields
<1>3. k \in Cameras => s = k
  BY <1>1, <1>2 DEF Own
<1> HIDE DEF s
<1>4. /\ ~Conf!Replied(k) /\ \A j \in Conf!Clients : serving # j
      /\ calls[k] # <<>> /\ phase[k] = "set" => FALSE
  BY <1>1, <1>2 DEF Orderly
<1>5. /\ Conf!Replied(k)' <=> Conf!Awaited(k)
      /\ Conf!Awaited(k) => reply'[k].value = config[s] /\ calls'[k] = <<>>
      /\ \A j \in Conf!Clients \ {k} : reply'[j] = reply[j] /\ Conf!Replied(j)' = Conf!Replied(j)
      /\ reply' \in [Conf!Clients -> {Conf!None} \cup {Conf!Answer(v) : v \in Conf!Sections}]
  <2>1. /\ config[s] \in Conf!Sections /\ reply[k] = Conf!None
        /\ Conf!Answer(config[s]).value = config[s] /\ Conf!Answer(config[s]) # Conf!None
    BY <1>1, <1>2, <1>4, Answers DEF Conf!TypeOK, Conf!Replied
  <2>2. reply' = IF Conf!Awaited(k) THEN [reply EXCEPT ![k] = Conf!Answer(config[s])] ELSE reply
    BY <1>2
  <2>3. Conf!Awaited(k) => calls'[k] = <<>>
    BY <1>2 DEF Conf!Awaited
  <2> QED  BY <1>1, <2>1, <2>2, <2>3 DEF Conf!TypeOK, Conf!Replied
<1>6. Conf!TypeOK'
  BY <1>1, <1>2, <1>5 DEF Conf!TypeOK
<1>7. Orderly'
  <2>1. \A j \in Conf!Clients \ {k} : 
          /\ Conf!Replied(j)' = Conf!Replied(j) /\ calls'[j] = calls[j]
    BY <1>2, <1>5
  <2>2. calls'[k] # <<>> => /\ Len(calls'[k]) \in 1 .. Len(calls[k])
                            /\ calls'[k][Len(calls'[k])] = calls[k][Len(calls[k])]
    <3>1. calls'[k] # <<>> => Len(calls'[k]) \in 1 .. Len(calls'[k])
      BY <1>2
    <3> QED  BY <1>2, <3>1
  <2> QED  BY <1>1, <1>4, <1>5, <2>1, <2>2 DEF Orderly
<1>8. Own'
  <2> SUFFICES ASSUME NEW c \in Cameras, NEW i \in 1 .. Len(calls'[c])
               PROVE  calls'[c][i].section = c /\ (calls'[c][i].op = "set" => i = 1)
    BY DEF Own
  <2>1. CASE c # k
    BY <1>1, <1>2, <2>1 DEF Own
  <2>2. CASE c = k
    <3>1. i + 1 \in 1 .. Len(calls[k]) /\ i + 1 # 1 /\ calls'[k][i] = calls[k][i + 1]
      BY <1>2, <2>2
    <3> QED  BY <1>1, <2>2, <3>1 DEF Own
  <2> QED  BY <2>1, <2>2
<1>9. k \in Cameras => ~Storing(k)'
  <2>1. k \in Cameras /\ calls'[k] # <<>> =>
          2 \in 1 .. Len(calls[k]) /\ calls'[k][1] = calls[k][2]
    BY <1>2
  <2> QED  BY <1>1, <2>1 DEF Own, Storing
<1>10. RestRead'
  <2> SUFFICES ASSUME NEW c \in Cameras, c \notin stale', c \notin lost
               PROVE  /\ phase[c] = "get" /\ Conf!Replied(c)' =>
                           reply'[c].value.rest = edited[c]
                      /\ Storing(c)' => calls'[c][1].value.rest = edited[c]
    BY DEF RestRead
  <2>1. CASE c # k
    <3>1. /\ Conf!Replied(c)' = Conf!Replied(c) /\ reply'[c] = reply[c]
          /\ calls'[c] = calls[c]
      <4>1. c \in Conf!Clients \ {k}
        BY <1>1, <2>1
      <4> QED  BY <1>2, <1>5, <4>1
    <3>2. /\ phase[c] = "get" /\ Conf!Replied(c) => reply[c].value.rest = edited[c]
          /\ Storing(c) => calls[c][1].value.rest = edited[c]
      BY <1>1, <1>2, <2>1 DEF RestRead
    <3>3. Storing(c)' = Storing(c)
      BY <3>1 DEF Storing
    <3> QED  BY <3>1, <3>2, <3>3
  <2>2. CASE c = k
    BY <1>1, <1>3, <1>5, <1>9, <2>2 DEF RestSame
  <2> QED  BY <2>1, <2>2
<1>11. SettingsRead'
  <2>0. meddled' = IF phase[k] = "load" /\ Conf!Awaited(k) THEN meddled \ {s} ELSE meddled
    BY <1>2
  <2>1. \A c \in Cameras \ {k} : c \in meddled' <=> c \in meddled
    <3>1. phase[k] = "load" => k \in Cameras
      BY <1>1 DEF Orderly, Conf!Clients
    <3> QED  BY <2>0, <3>1, <1>3
  <2>2. k \in Cameras /\ k \notin meddled' =>
          k \notin meddled \/ (phase[k] = "load" /\ Conf!Awaited(k))
    BY <2>0, <1>3
  <2> SUFFICES ASSUME NEW c \in Cameras
               PROVE  /\ c \in agreed => phase[c] = "idle"
                      /\ phase[c] \in {"get", "set"} \/ c \in agreed =>
                            device[c] = settings[c]
                      /\ phase[c] = "set" /\ Storing(c)' =>
                            calls'[c][1].value.settings = settings[c]
                      /\ c \notin meddled' =>
                           /\ phase[c] = "load" /\ Conf!Replied(c)' =>
                                reply'[c].value.settings = config[c].settings
                           /\ c \in agreed \/
                                (phase[c] = "set" /\ (Conf!Replied(c)' \/ serving = c)) =>
                                config[c].settings = settings[c]
    BY DEF SettingsRead
  <2>3. CASE c # k
    BY <1>1, <1>2, <1>5, <2>1, <2>3, SMTT(20) DEF SettingsRead, Storing
  <2>4. CASE c = k
    BY <1>1, <1>3, <1>4, <1>5, <1>9, <2>2, <2>4 DEF SettingsRead
  <2> QED  BY <2>3, <2>4
<1>12. RestSame' /\ FileSame'
  BY <1>1 DEF RestSame, FileSame
<1> QED  BY <1>6, <1>7, <1>8, <1>10, <1>11, <1>12 DEF ConfInv

LEMMA ServeSetKeeps ==
  ASSUME Conf!ClientsAssumption, ConfInv, NEW k \in Conf!Clients, Conf!ServeSet(k)
  PROVE  ConfInv'
<1> USE DEF Conf!ServeSet, Conf!Goto, Conf!serviceVars, Conf!callVars, Conf!cameraVars,
            Conf!bounds, Conf!historyVars, Conf!Fault, Conf!Edit
<1>1. /\ Conf!TypeOK /\ Orderly /\ Own /\ RestRead /\ SettingsRead /\ RestSame
      /\ FileSame /\ Cameras \subseteq Conf!Clients /\ Editor \in Conf!Clients
      /\ Editor \notin Cameras /\ Conf!NoOne \notin Conf!Clients
      /\ MaxFaults \in Nat /\ MaxEdits \in Nat
  BY DEF ConfInv, Conf!Clients, Conf!ClientsAssumption
<1> DEFINE s == calls[k][1].section
           v == calls[k][1].value
<1>2. /\ s \in Cameras /\ calls[k][1].op = "set" /\ v \in Conf!Sections
      /\ v.rest \in Values /\ calls' \in [Conf!Clients -> Seq(Conf!Call)]
      /\ Len(calls[k]) \in Nat \ {0} /\ Len(calls'[k]) = Len(calls[k]) - 1
      /\ \A i \in 1 .. Len(calls'[k]) : calls'[k][i] = calls[k][i + 1]
      /\ calls'[k] = <<>> <=> Len(calls[k]) = 1
      /\ \A j \in Conf!Clients \ {k} : calls'[j] = calls[j]
      /\ Head(calls[k]).section = s /\ Head(calls[k]).value = v
  BY <1>1, Served, CallFields DEF Conf!Sections
<1>3. (k \in Cameras => s = k) /\ (k = Editor \/ k \in Cameras)
  BY <1>1, <1>2 DEF Own, Conf!Clients
<1>4. k \in Cameras /\ k \notin stale \cup lost => v.rest = edited[k]
  BY <1>1, <1>2 DEF RestRead, Storing
<1>5. k \in Cameras /\ phase[k] = "set" => v.settings = settings[k]
  BY <1>1, <1>2 DEF SettingsRead, Storing
<1> HIDE DEF s, v
<1>6. /\ config' = [config EXCEPT ![s] = v] /\ Conf!Remember(k, s, v)
      /\ config'[s] = v /\ \A c \in Cameras \ {s} : config'[c] = config[c]
      /\ config' \in [Cameras -> Conf!Sections]
  BY <1>1, <1>2 DEF Conf!TypeOK
<1>7. /\ ~Conf!Replied(k) /\ \A j \in Conf!Clients : serving # j
      /\ Conf!Awaited(k) => phase[k] = "set" /\ calls'[k] = <<>>
      /\ \A j \in Conf!Clients : Conf!Replied(j)' = Conf!Replied(j)
      /\ \A j \in Conf!Clients : serving' = j => j = k /\ Conf!Awaited(k)
  <2>1. ~Conf!Replied(k) /\ \A j \in Conf!Clients : serving # j
    BY <1>1, <1>2 DEF Orderly
  <2>2. Conf!Awaited(k) => phase[k] = "set" /\ calls'[k] = <<>>
    BY <1>1, <1>2 DEF Orderly, Conf!Awaited
  <2>3. \A j \in Conf!Clients : Conf!Replied(j)' = Conf!Replied(j)
    BY DEF Conf!Replied
  <2> QED  BY <1>1, <2>1, <2>2, <2>3
<1>8. Conf!TypeOK'
  <2>1. /\ meddled' \subseteq Cameras /\ stale' \subseteq Cameras /\ lost' \subseteq Cameras
        /\ edited' \in [Cameras -> Values]
    <3>1. CASE k = Editor
      <4>1. /\ meddled' = meddled \cup {s} /\ stale' = stale \cup {s}
            /\ lost' = lost \ {s} /\ edited' = [edited EXCEPT ![s] = v.rest]
        BY <1>6, <3>1 DEF Conf!Remember
      <4> QED  BY <1>1, <1>2, <4>1 DEF Conf!TypeOK
    <3>2. CASE k # Editor
      <4>1. meddled' \subseteq Cameras
        <5>1. meddled' = meddled \ {s} \/ meddled' = meddled \cup {s}
          BY <1>6, <3>2 DEF Conf!Remember
        <5> QED  BY <1>1, <1>2, <5>1 DEF Conf!TypeOK
      <4> QED  BY <1>1, <1>2, <1>6, <3>2, <4>1 DEF Conf!Remember, Conf!TypeOK
    <3> QED  BY <3>1, <3>2
  <2>2. /\ file' \in [state : {"readable", "empty"}, sections : [Cameras -> Conf!Sections]]
        /\ serving' \in Conf!Clients \cup {Conf!NoOne}
    BY <1>6
  <2> QED  BY <1>1, <1>2, <1>6, <2>1, <2>2 DEF Conf!TypeOK
<1>9. Orderly'
  <2>1. calls'[k] # <<>> => /\ Len(calls'[k]) \in 1 .. Len(calls[k])
                            /\ calls'[k][Len(calls'[k])] = calls[k][Len(calls[k])]
    <3>1. calls'[k] # <<>> => Len(calls'[k]) \in 1 .. Len(calls'[k])
      BY <1>2
    <3> QED  BY <1>2, <3>1, SMTT(20)
  <2> QED  BY <1>1, <1>2, <1>7, <2>1, SMTT(20) DEF Orderly
<1>10. Own'
  <2> SUFFICES ASSUME NEW c \in Cameras, NEW i \in 1 .. Len(calls'[c])
               PROVE  calls'[c][i].section = c /\ (calls'[c][i].op = "set" => i = 1)
    BY DEF Own
  <2>1. CASE c # k
    <3>1. calls'[c] = calls[c] /\ i \in 1 .. Len(calls[c])
      BY <1>1, <1>2, <2>1
    <3>2. calls[c][i].section = c /\ (calls[c][i].op = "set" => i = 1)
      BY <1>1, <3>1 DEF Own
    <3> QED  BY ONLY <3>1, <3>2
  <2>2. CASE c = k
    <3>1. i + 1 \in 1 .. Len(calls[k]) /\ i + 1 # 1 /\ calls'[k][i] = calls[k][i + 1]
      BY <1>2, <2>2
    <3> QED  BY <1>1, <2>2, <3>1 DEF Own
  <2> QED  BY <2>1, <2>2
<1>11. k \in Cameras => ~Storing(k)'
  <2>1. k \in Cameras /\ calls'[k] # <<>> =>
          2 \in 1 .. Len(calls[k]) /\ calls'[k][1] = calls[k][2]
    BY <1>2
  <2> QED  BY <1>1, <2>1 DEF Own, Storing
<1>12. RestRead' /\ RestSame'
  <2>1. CASE k = Editor
    <3>1. /\ stale' = stale \cup {s} /\ lost' = lost \ {s} /\ edited'[s] = v.rest
          /\ \A c \in Cameras \ {s} : edited'[c] = edited[c]
      BY <1>1, <1>2, <1>6, <2>1 DEF Conf!Remember, Conf!TypeOK
    <3>2. RestRead'
      <4> SUFFICES ASSUME NEW c \in Cameras, c \notin stale', c \notin lost'
                   PROVE  /\ phase[c] = "get" /\ Conf!Replied(c)' =>
                               reply[c].value.rest = edited'[c]
                          /\ Storing(c)' => calls'[c][1].value.rest = edited'[c]
        BY DEF RestRead
      <4>1. c # s /\ c # k /\ edited'[c] = edited[c] /\ c \notin stale \cup lost
        BY <1>1, <2>1, <3>1
      <4>2. calls'[c] = calls[c] /\ Conf!Replied(c)' = Conf!Replied(c)
        BY <1>1, <1>2, <1>7, <4>1
      <4> QED  BY <1>1, <4>1, <4>2 DEF RestRead, Storing
    <3> QED  BY <1>1, <1>6, <3>1, <3>2 DEF RestSame
  <2>2. CASE k \in Cameras
    <3>1. stale' = stale /\ lost' = lost \cup (stale \cap {k}) /\ edited' = edited
      BY <1>1, <1>3, <1>6, <2>2 DEF Conf!Remember
    <3>2. RestRead'
      BY <1>1, <1>2, <1>7, <1>11, <2>2, <3>1 DEF RestRead, Storing
    <3>3. RestSame'
      BY <1>1, <1>3, <1>4, <1>6, <2>2, <3>1 DEF RestSame
    <3> QED  BY <3>2, <3>3
  <2> QED  BY <1>3, <2>1, <2>2
<1>13. SettingsRead'
  <2> SUFFICES ASSUME NEW c \in Cameras
               PROVE  /\ c \in agreed => phase[c] = "idle"
                      /\ phase[c] \in {"get", "set"} \/ c \in agreed =>
                            device[c] = settings[c]
                      /\ phase[c] = "set" /\ Storing(c)' =>
                            calls'[c][1].value.settings = settings[c]
                      /\ c \notin meddled' =>
                           /\ phase[c] = "load" /\ Conf!Replied(c)' =>
                                reply[c].value.settings = config'[c].settings
                           /\ c \in agreed \/
                                (phase[c] = "set" /\ (Conf!Replied(c)' \/ serving' = c)) =>
                                config'[c].settings = settings[c]
    BY DEF SettingsRead
  <2>1. CASE c = k
    <3>1. c \notin meddled' => Conf!Awaited(k)
      BY <1>1, <1>3, <1>6, <2>1 DEF Conf!Remember
    <3> QED  BY <1>1, <1>3, <1>5, <1>6, <1>7, <1>11, <2>1, <3>1 DEF SettingsRead
  <2>2. CASE c # k
    <3>1. c \notin meddled' => c \notin meddled /\ c # s
      BY <1>1, <1>3, <1>6, <2>2 DEF Conf!Remember
    <3> QED  BY <1>1, <1>2, <1>6, <1>7, <2>2, <3>1, ZenonT(40) DEF SettingsRead, Storing
  <2> QED  BY <2>1, <2>2
<1>14. FileSame'
  BY DEF FileSame
<1> QED  BY <1>8, <1>9, <1>10, <1>12, <1>13, <1>14 DEF ConfInv

LEMMA StoredKeeps ==
  ASSUME Conf!ClientsAssumption, ConfInv, Conf!Stored
  PROVE  ConfInv'
<1> USE DEF Conf!Stored, Conf!Goto, Conf!serviceVars, Conf!callVars, Conf!cameraVars,
            Conf!bounds, Conf!historyVars, Conf!Fault, Conf!Edit
<1>1. /\ Conf!TypeOK /\ Orderly /\ Own /\ RestRead /\ SettingsRead /\ RestSame
      /\ FileSame /\ Cameras \subseteq Conf!Clients /\ Editor \in Conf!Clients
      /\ Editor \notin Cameras /\ Conf!NoOne \notin Conf!Clients
      /\ MaxFaults \in Nat /\ MaxEdits \in Nat
  BY DEF ConfInv, Conf!Clients, Conf!ClientsAssumption
<1> DEFINE a == CHOOSE v \in Conf!Sections : TRUE
<1>2. a \in Conf!Sections
  <2>1. draft.rest \in Values
    BY <1>1 DEF Conf!TypeOK
  <2>2. [settings |-> draft.rest, rest |-> draft.rest] \in Conf!Sections
    BY <2>1 DEF Conf!Sections
  <2> QED  BY <2>2
<1> HIDE DEF a
<1>3. /\ reply' = [k \in Conf!Clients |-> IF k = serving THEN Conf!Answer(a) ELSE reply[k]]
      /\ Conf!Answer(a) # Conf!None
  BY <1>1, <1>2 DEF a, Conf!Answer, Conf!None
<1>4. /\ reply' \in [Conf!Clients -> {Conf!None} \cup {Conf!Answer(v) : v \in Conf!Sections}]
      /\ \A k \in Conf!Clients : k # serving => reply'[k] = reply[k]
      /\ \A k \in Conf!Clients : Conf!Replied(k)' <=> k = serving \/ Conf!Replied(k)
  BY <1>1, <1>2, <1>3 DEF Conf!TypeOK, Conf!Replied
<1>5. /\ file'.sections = config /\ file'.state = "empty" => torn'
      /\ file' \in [state : {"readable", "empty"}, sections : [Cameras -> Conf!Sections]]
      /\ mishaps' \in 0 .. MaxFaults /\ torn' \in BOOLEAN
  <2>1. /\ file \in [state : {"readable", "empty"}, sections : [Cameras -> Conf!Sections]]
        /\ file.sections = config /\ mishaps \in 0 .. MaxFaults
    BY <1>1 DEF Conf!TypeOK, FileSame
  <2>2. CASE file' = [file EXCEPT !.state = "readable"] /\ torn' = FALSE /\ mishaps' = mishaps
    BY <2>1, <2>2
  <2>3. CASE Conf!Fault /\ torn' = TRUE /\ file' = file
    BY <1>1, <2>1, <2>3
  <2> QED  BY <2>2, <2>3
<1>6. Conf!TypeOK'
  BY <1>1, <1>4, <1>5 DEF Conf!TypeOK
<1>7. Orderly'
  BY <1>1, <1>4 DEF Orderly
<1>8. Own' /\ RestSame' /\ FileSame'
  BY <1>1, <1>5 DEF Own, RestSame, FileSame
<1>9. \A c \in Cameras : serving = c => phase[c] = "set"
  BY <1>1 DEF Orderly
<1>10. RestRead'
  BY <1>1, <1>4, <1>9 DEF RestRead, Storing
<1>11. SettingsRead'
  BY <1>1, <1>4, <1>9 DEF SettingsRead, Storing
<1> QED  BY <1>6, <1>7, <1>8, <1>10, <1>11 DEF ConfInv

LEMMA ServiceDiesKeeps ==
  ASSUME Conf!ClientsAssumption, ConfInv, Conf!ServiceDies
  PROVE  ConfInv'
<1> USE DEF Conf!ServiceDies, Conf!Goto, Conf!serviceVars, Conf!callVars, Conf!cameraVars,
            Conf!bounds, Conf!historyVars, Conf!Fault, Conf!Edit
<1>1. /\ Conf!TypeOK /\ Orderly /\ Own /\ RestRead /\ SettingsRead /\ RestSame
      /\ FileSame /\ Cameras \subseteq Conf!Clients /\ Editor \in Conf!Clients
      /\ Editor \notin Cameras /\ Conf!NoOne \notin Conf!Clients
      /\ MaxFaults \in Nat /\ MaxEdits \in Nat
  BY DEF ConfInv, Conf!Clients, Conf!ClientsAssumption
<1>2. /\ calls' \in [Conf!Clients -> Seq(Conf!Call)]
      /\ \A k \in Conf!Clients : calls'[k] = <<>> /\ Conf!Replied(k)' = Conf!Replied(k)
      /\ mishaps' \in 0 .. MaxFaults /\ torn' \in BOOLEAN
  BY <1>1 DEF Conf!TypeOK, Conf!Replied
<1>3. Conf!TypeOK'
  BY <1>1, <1>2 DEF Conf!TypeOK
<1>4. Orderly' /\ Own'
  BY <1>1, <1>2 DEF Orderly, Own
<1>5. RestRead' /\ RestSame' /\ FileSame'
  BY <1>1, <1>2 DEF RestRead, Storing, RestSame, FileSame, Conf!TypeOK
<1>6. SettingsRead'
  BY <1>1, <1>2 DEF SettingsRead, Storing
<1> QED  BY <1>3, <1>4, <1>5, <1>6 DEF ConfInv

LEMMA ServiceStartsKeeps ==
  ASSUME Conf!ClientsAssumption, ConfInv, Conf!ServiceStarts
  PROVE  ConfInv'
<1> USE DEF Conf!ServiceStarts, Conf!Goto, Conf!serviceVars, Conf!callVars, Conf!cameraVars,
            Conf!bounds, Conf!historyVars, Conf!Fault, Conf!Edit
<1>1. /\ Conf!TypeOK /\ Orderly /\ Own /\ RestRead /\ SettingsRead /\ RestSame
      /\ FileSame /\ Cameras \subseteq Conf!Clients /\ Editor \in Conf!Clients
      /\ Editor \notin Cameras /\ Conf!NoOne \notin Conf!Clients
      /\ MaxFaults \in Nat /\ MaxEdits \in Nat
  BY DEF ConfInv, Conf!Clients, Conf!ClientsAssumption
<1>2. /\ config' = config /\ \A k \in Conf!Clients : Conf!Replied(k)' = Conf!Replied(k)
      /\ \A k \in Conf!Clients : serving # k
  BY <1>1 DEF FileSame, Conf!Replied, Orderly
<1>3. Conf!TypeOK'
  BY <1>1, <1>2 DEF Conf!TypeOK
<1>4. Orderly' /\ Own'
  BY <1>1, <1>2 DEF Orderly, Own
<1>5. RestRead' /\ RestSame' /\ FileSame'
  BY <1>1, <1>2 DEF RestRead, Storing, RestSame, FileSame
<1>6. SettingsRead'
  BY <1>1, <1>2 DEF SettingsRead, Storing
<1> QED  BY <1>3, <1>4, <1>5, <1>6 DEF ConfInv

LEMMA ConfInductive ==
  ASSUME Conf!ClientsAssumption, ConfInv, [Conf!Next]_(Conf!vars)
  PROVE  ConfInv'
<1>1. CASE Conf!Next
  <2>1. ASSUME NEW c \in Cameras,
               \/ Conf!CameraStarts(c) \/ Conf!CameraLoads(c) \/ Conf!PutSection(c)
               \/ Conf!SetReturns(c) \/ Conf!CameraDies(c)
        PROVE  ConfInv'
    BY <2>1, CameraStartsKeeps, CameraLoadsKeeps, PutSectionKeeps, SetReturnsKeeps,
       CameraDiesKeeps
  <2>2. ASSUME NEW c \in Cameras, NEW v \in Values,
               Conf!SetValue(c, v) \/ Conf!EditorReads(c, v)
        PROVE  ConfInv'
    BY <2>2, SetValueKeeps, EditorReadsKeeps
  <2>3. CASE Conf!EditorStores \/ Conf!EditorEnds
    BY <2>3, EditorStoresKeeps, EditorEndsKeeps
  <2>4. ASSUME NEW k \in Conf!Clients,
               Conf!Fails(k) \/ Conf!ServeGet(k) \/ Conf!ServeSet(k)
        PROVE  ConfInv'
    BY <2>4, FailsKeeps, ServeGetKeeps, ServeSetKeeps
  <2>5. CASE Conf!Stored \/ Conf!ServiceDies \/ Conf!ServiceStarts
    BY <2>5, StoredKeeps, ServiceDiesKeeps, ServiceStartsKeeps
  <2> QED  BY <1>1, <2>1, <2>2, <2>3, <2>4, <2>5 DEF Conf!Next
<1>2. CASE UNCHANGED Conf!vars
  <2> USE DEF Conf!vars, Conf!serviceVars, Conf!callVars, Conf!cameraVars, Conf!bounds,
              Conf!historyVars
  <2>1. Conf!TypeOK' /\ Own' /\ RestSame' /\ FileSame'
    BY <1>2 DEF ConfInv, Conf!TypeOK, Own, RestSame, FileSame
  <2>2. Orderly' /\ RestRead' /\ SettingsRead'
    BY <1>2 DEF ConfInv, Orderly, RestRead, SettingsRead, Storing, Conf!Replied
  <2> QED  BY <2>1, <2>2 DEF ConfInv
<1> QED  BY <1>1, <1>2

(* A camera whose last load or set_value succeeded, the service and its    *)
(* file agree on its settings, an edit of the section stays unless it came *)
(* in the middle of the camera's own rewriting, and the file has what is   *)
(* in memory: for any cameras, calls, edits, failures, kills and restarts  *)
(* (CameraConfigManager, CameraInfoIO::store, LocalConfig).                *)
THEOREM ConfKept ==
  ASSUME Conf!ClientsAssumption
  PROVE  Conf!Spec => [](Conf!TypeOK /\ Conf!ConfigKept)
<1>1. Conf!Init => ConfInv
  BY ConfInitially
<1>2. ConfInv /\ [Conf!Next]_(Conf!vars) => ConfInv'
  BY ConfInductive
<1>3. ConfInv => Conf!TypeOK /\ Conf!ConfigKept
  <2> SUFFICES ASSUME ConfInv PROVE Conf!TypeOK /\ Conf!ConfigKept
    OBVIOUS
  <2>1. Conf!CameraInStep
    BY DEF ConfInv, Conf!CameraInStep, Conf!TypeOK, SettingsRead, FileSame
  <2>2. Conf!RestKept /\ Conf!FileFollows
    BY DEF ConfInv, Conf!RestKept, Conf!FileFollows, RestSame, FileSame
  <2> QED  BY <2>1, <2>2 DEF ConfInv, Conf!ConfigKept
<1> QED  BY <1>1, <1>2, <1>3, PTL DEF Conf!Spec

-----------------------------------------------------------------------------
(* USBCamera.  Until the camera is captured from, nothing has been freed   *)
(* and there is no thread (Constructing); as long as it is, the buffers    *)
(* are divided between the driver, the thread and those it has lost        *)
(* (Capturing); the thread has ended before anything is freed (Deleting).  *)

Constructing ==
  /\ stage \in {"open", "init", "start", "giveup"} =>
       /\ thread = "none" /\ rgb = "none" /\ taken = {} /\ unreturned = {}
       /\ dangling = {}
  /\ stage \in {"open", "init", "start"} => ~unready /\ queued = {} /\ filled = {}
  /\ stage \in {"init", "start"} => fd
  /\ stage = "start" => mapped = Buffers /\ "buffers" \in heap
  /\ stage = "giveup" => unready

(* Each buffer has one owner. *)
Divided ==
  /\ Buffers = queued \cup taken \cup unreturned
  /\ queued \cap taken = {} /\ queued \cap unreturned = {}
  /\ taken \cap unreturned = {}
  /\ filled \subseteq queued

Capturing ==
  stage \in {"run", "join"} =>
    /\ fd /\ mapped = Buffers /\ "buffers" \in heap /\ dangling = {}
    /\ thread # "none" /\ ~unready
    /\ Divided
    /\ IF thread = "return" THEN \E b \in Buffers : taken = {b} ELSE taken = {}

Deleting ==
  /\ stage \in {"delete", "gone"} => thread \in {"none", "ended"}
  /\ stage = "delete" /\ dangling # {} => unready

Captured ==
  /\ thread = "return" => rgb = "new" /\ tries < Tries
  /\ thread = "import" => rgb # "none" \/ error = "unset"

LostCounted == Cardinality(unreturned) \in 0 .. setbacks

UsbInv ==
  /\ Usb!TypeOK /\ Constructing /\ Capturing /\ Deleting /\ Captured /\ LostCounted
  /\ Usb!AbortExplained /\ Usb!NothingKept

LEMMA UsbNumbers ==
  /\ \A S : Usb!IsFiniteSet(S) <=> IsFiniteSet(S)
  /\ \A S : Usb!Cardinality(S) = Cardinality(S)
BY DEF Usb!IsFiniteSet, IsFiniteSet, Usb!Cardinality, Cardinality

LEMMA UsbInitially ==
  ASSUME Usb!TriesAssumption PROVE Usb!Init => UsbInv
<1> USE DEF Usb!TriesAssumption
<1> SUFFICES ASSUME Usb!Init PROVE UsbInv
  OBVIOUS
<1> USE DEF Usb!Init
<1>1. Cardinality({}) = 0
  BY FS_EmptySet
<1>2. Usb!TypeOK
  <2>1. fd \in BOOLEAN /\ ending \in BOOLEAN /\ unready \in BOOLEAN
    OBVIOUS
  <2>2. mapped \cup queued \cup filled \cup taken \cup unreturned \subseteq Buffers
    OBVIOUS
  <2>3. heap \cup dangling \subseteq {"name", "buffers", "rgb"}
    OBVIOUS
  <2>4. tries \in 0..Tries /\ setbacks \in 0..MaxFaults
    OBVIOUS
  <2> QED BY <2>1, <2>2, <2>3, <2>4 DEF Usb!TypeOK
<1>3. Constructing /\ Capturing /\ Deleting /\ Captured
  BY DEF Constructing, Capturing, Deleting, Captured
<1>4. LostCounted
  BY <1>1 DEF LostCounted
<1> QED
  BY <1>2, <1>3, <1>4 DEF UsbInv, Usb!AbortExplained, Usb!Aborted, Usb!NothingKept

(* A buffer more is lost, and a call more has failed. *)
LEMMA LossCounted ==
  ASSUME Usb!BuffersAssumption, UsbInv, NEW b \in Buffers
  PROVE  Cardinality(unreturned \cup {b}) \in 0 .. setbacks + 1
<1>1. IsFiniteSet(unreturned)
  <2>1. unreturned \in SUBSET Buffers
    BY DEF UsbInv, Usb!TypeOK
  <2> QED  BY <2>1, FS_Subset, UsbNumbers DEF Usb!BuffersAssumption
<1>2. /\ Cardinality(unreturned) \in Nat
      /\ \/ Cardinality(unreturned \cup {b}) = Cardinality(unreturned)
         \/ Cardinality(unreturned \cup {b}) = Cardinality(unreturned) + 1
  BY <1>1, FS_AddElement, FS_CardinalityType
<1> QED  BY <1>2 DEF UsbInv, LostCounted, Usb!TypeOK

LEMMA ConstructKeeps ==
  ASSUME Usb!TriesAssumption, UsbInv, Usb!Construct PROVE UsbInv'
<1> USE DEF Usb!TriesAssumption, UsbInv, Usb!TypeOK, Constructing, Capturing, Divided,
        Deleting, Captured, LostCounted, Usb!AbortExplained, Usb!Aborted,
        Usb!NothingKept, Usb!Fault, Usb!deviceVars, Usb!driverVars, Usb!captureVars
<1>1. CASE Usb!Open
  <2> USE <1>1 DEF Usb!Open
  <2>1. Usb!TypeOK'
    <3>1. /\ fd' \in BOOLEAN /\ ending' \in BOOLEAN /\ unready' \in BOOLEAN
          /\ stage' \in {"init", "delete", "start"}
      OBVIOUS
    <3>2. mapped' \cup queued' \cup filled' \cup taken' \cup unreturned' \subseteq Buffers
      OBVIOUS
    <3>3. heap' \cup dangling' \subseteq {"name", "buffers", "rgb"}
      OBVIOUS
    <3>4. tries' \in 0..Tries /\ setbacks' \in 0..MaxFaults
      OBVIOUS
    <3> QED  BY <3>1, <3>2, <3>3, <3>4
  <2>2. Constructing' /\ Deleting' /\ Captured'
    OBVIOUS
  <2>3. Capturing'
    OBVIOUS
  <2>4. LostCounted'
    OBVIOUS
  <2> QED  BY <2>1, <2>2, <2>3, <2>4
<1>2. CASE Usb!InitDevice
  BY <1>2 DEF Usb!InitDevice
<1>3. CASE Usb!InitFails
  BY <1>3 DEF Usb!InitFails
<1>4. CASE Usb!StartCapture
  BY <1>4 DEF Usb!StartCapture
<1>5. CASE Usb!StartFails
  BY <1>5 DEF Usb!StartFails
<1>6. CASE Usb!GiveUp
  BY <1>6 DEF Usb!GiveUp, Usb!Released
<1> QED  BY <1>1, <1>2, <1>3, <1>4, <1>5, <1>6 DEF Usb!Construct

LEMMA CameraThreadKeeps ==
  ASSUME Usb!TriesAssumption, Usb!BuffersAssumption, UsbInv, Usb!Thread PROVE UsbInv'
<1> USE DEF Usb!TriesAssumption, UsbInv, Usb!TypeOK, Constructing, Capturing, Divided,
        Deleting, Captured, LostCounted, Usb!AbortExplained, Usb!Aborted,
        Usb!NothingKept, Usb!Fault, Usb!deviceVars, Usb!driverVars, Usb!captureVars,
        Usb!Goto
<1>0. ~Usb!Aborted
  BY DEF Usb!Thread
<1>1. CASE Usb!Leave
  BY <1>1 DEF Usb!Leave
<1>2. CASE Usb!Capture
  BY <1>2 DEF Usb!Capture
<1>3. CASE Usb!Timeout
  BY <1>3 DEF Usb!Timeout
<1>4. CASE Usb!Interrupted
  BY <1>4 DEF Usb!Interrupted
<1>5. CASE Usb!SelectFails
  BY <1>5 DEF Usb!SelectFails
<1>6. CASE Usb!ReadFails
  <2> USE <1>6 DEF Usb!ReadFails
  <2>1. Usb!TypeOK'
    OBVIOUS
  <2>2. Constructing' /\ Deleting' /\ Captured'
    OBVIOUS
  <2>3. Capturing'
    OBVIOUS
  <2>4. LostCounted'
    OBVIOUS
  <2> QED  BY <1>0, <2>1, <2>2, <2>3, <2>4
<1>7. ASSUME NEW b \in Buffers, Usb!Take(b) PROVE UsbInv'
  <2> USE <1>7 DEF Usb!Take
  <2>1. Usb!TypeOK'
    OBVIOUS
  <2>2. Constructing' /\ Deleting' /\ Captured'
    OBVIOUS
  <2>3. Capturing'
    OBVIOUS
  <2>4. LostCounted'
    OBVIOUS
  <2> QED  BY <1>0, <2>1, <2>2, <2>3, <2>4
<1>8. CASE Usb!Return
  BY <1>8 DEF Usb!Return
<1>9. CASE Usb!ReturnFails
  <2> USE <1>9 DEF Usb!ReturnFails
  <2>1. Usb!TypeOK'
    OBVIOUS
  <2>2. Constructing' /\ Deleting' /\ Captured'
    OBVIOUS
  <2>3. Capturing'
    OBVIOUS
  <2>4. LostCounted'
    <3>1. stage \in {"run", "join"}
      BY <1>0
    <3>2. PICK b \in Buffers : taken = {b}
      BY <3>1
    <3>3. Cardinality(unreturned \cup {b}) \in 0 .. setbacks + 1
      BY LossCounted
    <3> QED  BY <3>2, <3>3
  <2> QED  BY <2>1, <2>2, <2>3, <2>4
<1>10. CASE Usb!OutOfTries
  BY <1>10 DEF Usb!OutOfTries
<1>11. CASE Usb!Import
  BY <1>11 DEF Usb!Import
<1> QED
  BY <1>1, <1>2, <1>3, <1>4, <1>5, <1>6, <1>7, <1>8, <1>9, <1>10, <1>11 DEF Usb!Thread

LEMMA UsbInductive ==
  ASSUME Usb!TriesAssumption, Usb!BuffersAssumption
  PROVE  UsbInv /\ [Usb!Next]_(Usb!vars) => UsbInv'
<1> SUFFICES ASSUME UsbInv, [Usb!Next]_(Usb!vars) PROVE UsbInv'
  OBVIOUS
<1> USE DEF Usb!TriesAssumption, UsbInv, Usb!TypeOK, Constructing, Capturing, Divided,
        Deleting, Captured, LostCounted, Usb!AbortExplained, Usb!Aborted,
        Usb!NothingKept, Usb!deviceVars, Usb!driverVars, Usb!captureVars
<1>1. CASE Usb!Fill
  BY <1>1 DEF Usb!Fill
<1>2. CASE Usb!Grab
  BY <1>2 DEF Usb!Grab
<1>3. CASE Usb!Destroy
  BY <1>3 DEF Usb!Destroy
<1>4. CASE Usb!Join
  BY <1>4 DEF Usb!Join
<1>5. CASE Usb!Delete
  BY <1>5 DEF Usb!Delete, Usb!Released
<1>6. CASE UNCHANGED Usb!vars
  BY <1>6 DEF Usb!vars
<1> QED
  BY <1>1, <1>2, <1>3, <1>4, <1>5, <1>6, ConstructKeeps, CameraThreadKeeps DEF Usb!Next

(* The buffers have one owner each, so their numbers add up. *)
LEMMA Counted ==
  ASSUME Usb!BuffersAssumption, Divided
  PROVE  Cardinality(Buffers) =
           Cardinality(queued) + Cardinality(taken) + Cardinality(unreturned)
<1>1. /\ IsFiniteSet(queued) /\ IsFiniteSet(taken) /\ IsFiniteSet(unreturned)
      /\ IsFiniteSet(queued \cup taken)
  <2>1. /\ queued \in SUBSET Buffers /\ taken \in SUBSET Buffers
        /\ unreturned \in SUBSET Buffers /\ queued \cup taken \in SUBSET Buffers
    BY DEF Divided
  <2> QED  BY <2>1, FS_Subset, UsbNumbers DEF Usb!BuffersAssumption
<1>2. /\ queued \cap taken = {} /\ (queued \cup taken) \cap unreturned = {}
      /\ Buffers = (queued \cup taken) \cup unreturned
  BY DEF Divided
<1>3. Cardinality(queued \cup taken) = Cardinality(queued) + Cardinality(taken) - 0
  BY <1>1, <1>2, FS_Union, FS_EmptySet
<1>4. Cardinality(Buffers) = Cardinality(queued \cup taken) + Cardinality(unreturned) - 0
  BY <1>1, <1>2, FS_Union, FS_EmptySet
<1>5. /\ Cardinality(queued) \in Nat /\ Cardinality(taken) \in Nat
      /\ Cardinality(unreturned) \in Nat
  BY <1>1, FS_CardinalityType
<1> QED  BY <1>3, <1>4, <1>5

(* Whatever calls of the driver fail, as often as they like: no buffer is  *)
(* lost but those the driver did not take back, the thread finds what it   *)
(* reads, and the program ends for the two known reasons only (USBCamera,  *)
(* camera_v4l.cpp).                                                        *)
THEOREM UsbSafe ==
  ASSUME Usb!TriesAssumption, Usb!BuffersAssumption
  PROVE  Usb!Spec => [](Usb!TypeOK /\ Usb!CameraSafe)
<1>1. UsbInv => Usb!TypeOK /\ Usb!CameraSafe
  <2> SUFFICES ASSUME UsbInv PROVE Usb!TypeOK /\ Usb!CameraSafe
    OBVIOUS
  <2>1. Usb!BuffersReturned
    BY Counted, UsbNumbers DEF UsbInv, Capturing, Divided, LostCounted, Usb!BuffersReturned
  <2>2. Usb!MemoryThere
    BY DEF UsbInv, Usb!TypeOK, Constructing, Capturing, Deleting, Usb!MemoryThere,
           Usb!Aborted
  <2> QED  BY <2>1, <2>2 DEF UsbInv, Usb!CameraSafe
<1> QED  BY <1>1, UsbInitially, UsbInductive, PTL DEF Usb!Spec

-----------------------------------------------------------------------------
(* FakeCamera.  There is a recorder from the start of a recording until    *)
(* it is joined, with the file of its id open (Recorders); as long as      *)
(* nothing was grabbed meanwhile, it alone draws, and the file ends with   *)
(* the image before the next one (Counting).                               *)

Grabbing == client \in {"draw", "encode", "copy", "answer"}

Recorders ==
  /\ joinable <=> recorder # "none"
  /\ client \in {"join", "leave"} => joinable /\ ~recording
  /\ client \notin {"join", "leave"} => (joinable <=> recording)
  /\ recorder \in {"test", "draw", "encode", "write"} => open = {id}
  /\ recorder \in {"none", "ended"} => open = {}
  /\ Grabbing /\ joinable => mixed

(* Who is about to draw an image has found that there may be one more. *)
NumberBounded ==
  number <= CASE client = "draw" /\ recorder = "draw" -> MaxShots - 1
              [] (client = "draw") # (recorder = "draw") -> MaxShots
              [] OTHER -> MaxShots + 1

Counting ==
  ~mixed /\ joinable =>
    /\ recorder = "encode" => picture = {number - 1} /\ number > 0
    /\ recorder = "write" => jpeg = {number - 1} /\ number > 0
    /\ shots[id] # <<>> =>
         shots[id][Len(shots[id])] =
           {number - (IF recorder \in {"encode", "write"} THEN 2 ELSE 1)}

Started ==
  /\ joinable => id \in Fake!Seconds /\ started[id] > 0
  /\ \A s \in Fake!Seconds : started[s] = 0 => kept[s] = 0

FakeInv ==
  /\ Fake!TypeOK /\ Recorders /\ NumberBounded /\ Counting /\ Started
  /\ Fake!ShotsInOrder /\ Fake!FilesKept /\ Fake!AbortExplained

LEMMA FakeInitially ==
  ASSUME Fake!BoundsAssumption PROVE Fake!Init => FakeInv
<1> SUFFICES ASSUME Fake!Init PROVE FakeInv
  OBVIOUS
<1> USE DEF Fake!Init, Fake!BoundsAssumption
<1>1. Fake!TypeOK
  <2>1. second \in Fake!Seconds /\ number \in Fake!Numbers
    BY DEF Fake!Seconds, Fake!Numbers
  <2>2. picture \in Fake!Images /\ jpeg \in Fake!Images
    BY DEF Fake!Images
  <2>3. open \subseteq Fake!Seconds /\ id \in Fake!Seconds \cup {0}
    OBVIOUS
  <2>4. recording \in BOOLEAN /\ joinable \in BOOLEAN /\ mixed \in BOOLEAN
    OBVIOUS
  <2>5. /\ shots \in [Fake!Seconds -> Seq(Fake!Images)]
        /\ kept \in [Fake!Seconds -> Nat] /\ started \in [Fake!Seconds -> Nat]
    OBVIOUS
  <2> QED  BY <2>1, <2>2, <2>3, <2>4, <2>5 DEF Fake!TypeOK
<1>2. Recorders /\ NumberBounded /\ Counting /\ Started
  BY DEF Recorders, Grabbing, NumberBounded, Counting, Started
<1>3. Fake!ShotsInOrder /\ Fake!FilesKept /\ Fake!AbortExplained
  BY DEF Fake!ShotsInOrder, Fake!FilesKept, Fake!AbortExplained
<1> QED  BY <1>1, <1>2, <1>3 DEF FakeInv

(* An image that is drawn, or not, is one. *)
LEMMA ImageTypes ==
  ASSUME Fake!BoundsAssumption
  PROVE  {} \in Fake!Images /\ \A n \in Fake!Numbers : {n} \in Fake!Images
BY DEF Fake!Images

(* The history of the files, when no file changes. *)
LEMMA SameFiles ==
  ASSUME FakeInv, UNCHANGED <<shots, kept, started>>, mixed => mixed'
  PROVE  Fake!ShotsInOrder' /\ Fake!FilesKept'
BY DEF FakeInv, Fake!ShotsInOrder, Fake!FilesKept

LEMMA RecorderKeeps ==
  ASSUME Fake!BoundsAssumption, FakeInv, Fake!Recorder
  PROVE  FakeInv'
<1> USE DEF FakeInv, Fake!Go, Fake!fileVars, Fake!pictures, Fake!BoundsAssumption
<1>0. client # "aborted"
  BY DEF Fake!Recorder
<1>1. CASE Fake!RecorderLeaves
  <2> USE <1>1 DEF Fake!RecorderLeaves
  <2>1. Fake!TypeOK'
    BY DEF Fake!TypeOK
  <2>2. Recorders' /\ NumberBounded' /\ Counting' /\ Started'
    BY <1>0 DEF Recorders, Grabbing, NumberBounded, Counting, Started
  <2> QED  BY <1>0, <2>1, <2>2, SameFiles DEF Fake!AbortExplained
<1>2. CASE Fake!RecorderClears
  <2> USE <1>2 DEF Fake!RecorderClears, Fake!Clear
  <2>1. Fake!TypeOK'
    BY ImageTypes DEF Fake!TypeOK
  <2>2. Recorders' /\ NumberBounded' /\ Counting' /\ Started'
    BY <1>0 DEF Recorders, Grabbing, NumberBounded, Counting, Started, Fake!TypeOK,
                Fake!Numbers
  <2> QED  BY <1>0, <2>1, <2>2, SameFiles DEF Fake!AbortExplained
<1>3. CASE Fake!RecorderDraws
  <2> USE <1>3 DEF Fake!RecorderDraws, Fake!Draw
  <2>1. number' \in Fake!Numbers /\ NumberBounded'
    BY SMTT(20) DEF NumberBounded, Fake!TypeOK, Fake!Numbers
  <2>2. Fake!TypeOK'
    BY <2>1, ImageTypes DEF Fake!TypeOK
  <2>3. Recorders' /\ Started'
    BY <1>0 DEF Recorders, Grabbing, Started
  <2>4. Counting'
    BY DEF Counting, Recorders, Grabbing, Fake!TypeOK, Fake!Numbers
  <2> QED  BY <1>0, <2>1, <2>2, <2>3, <2>4, SameFiles DEF Fake!AbortExplained
<1>4. CASE Fake!RecorderEncodes
  <2> USE <1>4 DEF Fake!RecorderEncodes, Fake!Encode
  <2>1. Fake!TypeOK'
    BY ImageTypes DEF Fake!TypeOK
  <2>2. Recorders' /\ Started' /\ NumberBounded'
    BY <1>0 DEF Recorders, Grabbing, Started, NumberBounded
  <2>3. Counting'
    BY DEF Counting, Recorders, Grabbing, Fake!TypeOK, Fake!Numbers
  <2>4. Fake!AbortExplained'
    BY <1>0 DEF Fake!AbortExplained, Recorders, Grabbing
  <2> QED  BY <2>1, <2>2, <2>3, <2>4, SameFiles
<1>5. CASE Fake!RecorderWrites
  <2> USE <1>5 DEF Fake!RecorderWrites
  <2>1. /\ id \in Fake!Seconds /\ joinable /\ open = {id} /\ started[id] > 0
        /\ jpeg \in Fake!Images /\ shots[id] \in Seq(Fake!Images)
    BY DEF Recorders, Started, Fake!TypeOK
  <2>2. shots' = [shots EXCEPT ![id] = Append(shots[id], jpeg)]
    BY <2>1 DEF Fake!TypeOK
  <2>3. /\ shots' \in [Fake!Seconds -> Seq(Fake!Images)]
        /\ \A f \in Fake!Seconds : f # id => shots'[f] = shots[f]
        /\ Len(shots'[id]) = Len(shots[id]) + 1 /\ Len(shots[id]) \in Nat
        /\ shots'[id][Len(shots[id]) + 1] = jpeg /\ shots'[id] # <<>>
        /\ \A k \in 1 .. Len(shots[id]) : shots'[id][k] = shots[id][k]
    BY <2>1, <2>2 DEF Fake!TypeOK
  <2>4. Fake!TypeOK'
    BY <2>3 DEF Fake!TypeOK
  <2>5. Recorders' /\ NumberBounded' /\ Started'
    BY <1>0 DEF Recorders, Grabbing, NumberBounded, Started
  <2>6. Counting'
    BY <2>1, <2>3 DEF Counting, Fake!TypeOK, Fake!Numbers
  <2>7. Fake!ShotsInOrder'
    <3>1. \A f \in Fake!Seconds : /\ DOMAIN shots[f] = 1 .. Len(shots[f])
                                  /\ DOMAIN shots'[f] = 1 .. Len(shots'[f])
      BY <2>3 DEF Fake!TypeOK
    <3> SUFFICES ASSUME ~mixed, NEW f \in Fake!Seconds, NEW k \in DOMAIN shots'[f]
                 PROVE  \E n \in Fake!Numbers :
                          /\ shots'[f][k] = {n}
                          /\ k > 1 => shots'[f][k - 1] = {n - 1}
      BY DEF Fake!ShotsInOrder
    <3>3. CASE f # id \/ k <= Len(shots[id])
      <4>1. /\ k \in DOMAIN shots[f] /\ shots'[f][k] = shots[f][k]
            /\ k > 1 => shots'[f][k - 1] = shots[f][k - 1]
        BY <3>1, <3>3, <2>1, <2>3
      <4> QED  BY <4>1 DEF Fake!ShotsInOrder
    <3>2. CASE f = id /\ k = Len(shots[id]) + 1
      <4>1. number - 1 \in Fake!Numbers /\ shots'[id][k] = {number - 1}
        BY <3>2, <2>1, <2>3 DEF Counting, Fake!TypeOK, Fake!Numbers
      <4>2. ASSUME k > 1 PROVE shots'[id][k - 1] = {(number - 1) - 1}
        BY <4>2, <3>2, <2>1, <2>3 DEF Counting, Fake!TypeOK, Fake!Numbers
      <4> QED  BY <3>2, <4>1, <4>2
    <3>4. f # id \/ k <= Len(shots[id]) \/ k = Len(shots[id]) + 1
      BY <3>1, <2>3
    <3> QED  BY <3>2, <3>3, <3>4
  <2>8. Fake!FilesKept'
    BY <2>3 DEF Fake!FilesKept, Fake!TypeOK
  <2> QED  BY <1>0, <2>4, <2>5, <2>6, <2>7, <2>8 DEF Fake!AbortExplained
<1> QED  BY <1>1, <1>2, <1>3, <1>4, <1>5 DEF Fake!Recorder

(* grab and grab_jpeg. *)
LEMMA GrabKeeps ==
  ASSUME Fake!BoundsAssumption, FakeInv,
         Fake!Grab \/ Fake!GrabDraws \/ Fake!GrabEncodes \/ Fake!GrabReturns
  PROVE  FakeInv'
<1> USE DEF FakeInv, Fake!Come, Fake!fileVars, Fake!pictures, Fake!BoundsAssumption
<1>1. CASE Fake!Grab
  <2> USE <1>1 DEF Fake!Grab, Fake!Clear
  <2>1. Fake!TypeOK'
    BY ImageTypes DEF Fake!TypeOK
  <2>2. Recorders' /\ NumberBounded' /\ Counting' /\ Started'
    BY DEF Recorders, Grabbing, NumberBounded, Counting, Started, Fake!TypeOK,
           Fake!Numbers
  <2> QED  BY <2>1, <2>2, SameFiles DEF Fake!AbortExplained
<1>2. CASE Fake!GrabDraws
  <2> USE <1>2 DEF Fake!GrabDraws, Fake!Draw
  <2>1. number' \in Fake!Numbers /\ NumberBounded'
    BY SMTT(20) DEF NumberBounded, Fake!TypeOK, Fake!Numbers
  <2>2. Fake!TypeOK'
    BY <2>1, ImageTypes DEF Fake!TypeOK
  <2>3. Recorders' /\ Started' /\ Counting'
    BY DEF Recorders, Grabbing, Started, Counting
  <2> QED  BY <2>1, <2>2, <2>3, SameFiles DEF Fake!AbortExplained
<1>3. CASE Fake!GrabEncodes
  <2> USE <1>3 DEF Fake!GrabEncodes, Fake!Encode
  <2>1. Fake!TypeOK'
    BY ImageTypes DEF Fake!TypeOK
  <2>2. Recorders' /\ Started' /\ NumberBounded' /\ Counting'
    BY DEF Recorders, Grabbing, Started, NumberBounded, Counting
  <2>3. Fake!AbortExplained'
    BY DEF Fake!AbortExplained, Recorders, Grabbing
  <2> QED  BY <2>1, <2>2, <2>3, SameFiles
<1>4. CASE Fake!GrabReturns
  <2> USE <1>4 DEF Fake!GrabReturns
  <2>1. Fake!TypeOK'
    BY DEF Fake!TypeOK
  <2>2. Recorders' /\ Started' /\ NumberBounded' /\ Counting'
    BY DEF Recorders, Grabbing, Started, NumberBounded, Counting
  <2> QED  BY <2>1, <2>2, SameFiles DEF Fake!AbortExplained
<1> QED  BY <1>1, <1>2, <1>3, <1>4

(* A recording that starts empties the file of its second. *)
LEMMA StartRecordingKeeps ==
  ASSUME Fake!BoundsAssumption, FakeInv, Fake!StartRecording
  PROVE  FakeInv'
<1> USE DEF FakeInv, Fake!StartRecording, Fake!pictures
<1>1. /\ second \in Fake!Seconds /\ shots'[second] = <<>>
      /\ started'[second] = started[second] + 1 /\ started[second] \in Nat
      /\ \A f \in Fake!Seconds : f # second => /\ shots'[f] = shots[f]
                                               /\ started'[f] = started[f]
  BY DEF Fake!TypeOK
<1>2. Fake!TypeOK'
  BY DEF Fake!TypeOK
<1>3. Recorders' /\ NumberBounded' /\ Counting'
  BY <1>1 DEF Recorders, Grabbing, NumberBounded, Counting
<1>4. Started'
  BY <1>1 DEF Started
<1>5. Fake!ShotsInOrder'
  <2> SUFFICES ASSUME ~mixed, NEW f \in Fake!Seconds, NEW k \in DOMAIN shots'[f]
               PROVE  \E n \in Fake!Numbers :
                        /\ shots'[f][k] = {n}
                        /\ k > 1 => shots'[f][k - 1] = {n - 1}
    BY DEF Fake!ShotsInOrder
  <2>1. f # second /\ shots'[f] = shots[f]
    BY <1>1
  <2>2. \E n \in Fake!Numbers : shots[f][k] = {n} /\ (k > 1 => shots[f][k - 1] = {n - 1})
    BY <2>1 DEF Fake!ShotsInOrder
  <2> QED  BY <2>1, <2>2
<1>6. Fake!FilesKept'
  BY <1>1 DEF Fake!FilesKept, Started, Fake!TypeOK
<1> QED  BY <1>2, <1>3, <1>4, <1>5, <1>6 DEF Fake!AbortExplained

LEMMA JoinedKeeps ==
  ASSUME Fake!BoundsAssumption, FakeInv, Fake!Joined
  PROVE  FakeInv'
<1> USE DEF FakeInv, Fake!Joined, Fake!pictures
<1>1. /\ id \in Fake!Seconds /\ started[id] > 0 /\ Len(shots[id]) \in Nat
      /\ kept'[id] = Len(shots[id])
      /\ \A f \in Fake!Seconds : f # id => kept'[f] = kept[f]
  BY DEF Fake!TypeOK, Started, Recorders
<1>2. Fake!TypeOK'
  BY <1>1 DEF Fake!TypeOK
<1>3. Recorders' /\ NumberBounded' /\ Counting'
  BY DEF Recorders, Grabbing, NumberBounded, Counting
<1>4. Started'
  BY <1>1 DEF Started
<1>5. Fake!ShotsInOrder' /\ Fake!FilesKept'
  <2>1. Fake!ShotsInOrder'
    BY DEF Fake!ShotsInOrder
  <2>2. Fake!FilesKept'
    BY <1>1 DEF Fake!FilesKept
  <2> QED  BY <2>1, <2>2
<1> QED  BY <1>2, <1>3, <1>4, <1>5 DEF Fake!AbortExplained

LEMMA FakeInductive ==
  ASSUME Fake!BoundsAssumption
  PROVE  FakeInv /\ [Fake!Next]_(Fake!vars) => FakeInv'
<1> SUFFICES ASSUME FakeInv, [Fake!Next]_(Fake!vars) PROVE FakeInv'
  OBVIOUS
<1>1. CASE Fake!Tick
  <2> USE <1>1 DEF Fake!Tick, Fake!pictures, Fake!fileVars, FakeInv
  <2>1. Fake!TypeOK'
    BY DEF Fake!TypeOK, Fake!BoundsAssumption, Fake!Seconds
  <2>2. Recorders' /\ NumberBounded' /\ Counting' /\ Started'
    BY DEF Recorders, Grabbing, NumberBounded, Counting, Started
  <2> QED  BY <2>1, <2>2, SameFiles DEF Fake!AbortExplained
<1>2. CASE Fake!StopRecording
  <2> USE <1>2 DEF Fake!StopRecording, Fake!pictures, Fake!fileVars, FakeInv
  <2>1. Fake!TypeOK'
    BY DEF Fake!TypeOK
  <2>2. Recorders' /\ NumberBounded' /\ Counting' /\ Started'
    BY DEF Recorders, Grabbing, NumberBounded, Counting, Started
  <2> QED  BY <2>1, <2>2, SameFiles DEF Fake!AbortExplained
<1>3. CASE Fake!Destroy
  <2> USE <1>3 DEF Fake!Destroy, Fake!pictures, Fake!fileVars, FakeInv
  <2>1. Fake!TypeOK'
    BY DEF Fake!TypeOK
  <2>2. Recorders' /\ NumberBounded' /\ Counting' /\ Started'
    BY DEF Recorders, Grabbing, NumberBounded, Counting, Started
  <2> QED  BY <2>1, <2>2, SameFiles DEF Fake!AbortExplained
<1>4. CASE UNCHANGED Fake!vars
  <2> USE <1>4 DEF Fake!vars, Fake!pictures, Fake!fileVars, FakeInv
  <2>1. Fake!TypeOK'
    BY DEF Fake!TypeOK
  <2>2. Recorders' /\ NumberBounded' /\ Counting' /\ Started'
    BY DEF Recorders, Grabbing, NumberBounded, Counting, Started
  <2> QED  BY <2>1, <2>2, SameFiles DEF Fake!AbortExplained
<1> QED
  BY <1>1, <1>2, <1>3, <1>4, RecorderKeeps, GrabKeeps, StartRecordingKeeps, JoinedKeeps
  DEF Fake!Next, Fake!Answers

(* Files hold what was recorded, in order; no thread and no open file is   *)
(* left between recordings; and the program ends for the two known reasons *)
(* only (record, start_recording, stop_recording, grab_jpeg).              *)
THEOREM FakeIsSound ==
  ASSUME Fake!BoundsAssumption
  PROVE  Fake!Spec => [](Fake!TypeOK /\ Fake!FilesSound /\ Fake!AbortExplained)
<1>1. FakeInv => Fake!TypeOK /\ Fake!FilesSound /\ Fake!AbortExplained
  BY DEF FakeInv, Recorders, Fake!FilesSound, Fake!RecorderGone, Fake!TypeOK
<1> QED  BY <1>1, FakeInitially, FakeInductive, PTL DEF Fake!Spec

-----------------------------------------------------------------------------
(* The curve.  Vectors, and numbers that stand for their products.          *)

Vectors == Int \X Int \X Int

LEMMA VectorTypes ==
  ASSUME NEW a \in Vectors, NEW b \in Vectors, NEW s \in Int
  PROVE  /\ a[1] \in Int /\ a[2] \in Int /\ a[3] \in Int /\ a = <<a[1], a[2], a[3]>>
         /\ Bend!Dot(a, b) \in Int /\ Bend!Square(a) \in Int /\ Bend!Square(a) >= 0
         /\ Bend!Plus(a, b) \in Vectors /\ Bend!Minus(a, b) \in Vectors
         /\ Bend!Scaled(s, a) \in Vectors
<1>1. a[1] \in Int /\ a[2] \in Int /\ a[3] \in Int /\ a = <<a[1], a[2], a[3]>>
  BY DEF Vectors
<1>2. b[1] \in Int /\ b[2] \in Int /\ b[3] \in Int
  BY DEF Vectors
<1>3. \A x \in Int : x * x \in Int /\ x * x >= 0
  OBVIOUS
<1>4. Bend!Dot(a, b) \in Int /\ Bend!Square(a) \in Int /\ Bend!Square(a) >= 0
  <2>1. a[1] * a[1] >= 0 /\ a[2] * a[2] >= 0 /\ a[3] * a[3] >= 0
    BY <1>1, <1>3
  <2> QED  BY <1>1, <1>2, <2>1 DEF Bend!Dot, Bend!Square
<1>5. /\ Bend!Plus(a, b) \in Vectors /\ Bend!Minus(a, b) \in Vectors
      /\ Bend!Scaled(s, a) \in Vectors
  BY <1>1, <1>2 DEF Bend!Plus, Bend!Minus, Bend!Scaled, Vectors
<1> QED  BY <1>1, <1>4, <1>5

(* The products of sums, and Lagrange's identity. *)
LEMMA Products ==
  ASSUME NEW a \in Vectors, NEW b \in Vectors, Bend!Square(a) = Bend!Square(b)
  PROVE  /\ Bend!Square(Bend!Plus(a, b)) = 2 * Bend!Square(a) + 2 * Bend!Dot(a, b)
         /\ Bend!Square(Bend!Minus(a, b)) = 2 * Bend!Square(a) - 2 * Bend!Dot(a, b)
         /\ Bend!Square(Bend!Minus(b, a)) = 2 * Bend!Square(a) - 2 * Bend!Dot(a, b)
         /\ Bend!Square(Bend!Cross(a, b)) =
              Bend!Square(a) * Bend!Square(a) - Bend!Dot(a, b) * Bend!Dot(a, b)
         /\ Bend!Plus(a, b) = Bend!Plus(b, a)
         /\ Bend!Dot(a, Bend!Plus(a, b)) = Bend!Square(a) + Bend!Dot(a, b)
         /\ Bend!Dot(a, Bend!Minus(b, a)) = Bend!Dot(a, b) - Bend!Square(a)
<1> DEFINE q == Bend!Square(a)
           p == Bend!Dot(a, b)
<1>1. /\ a[1] \in Int /\ a[2] \in Int /\ a[3] \in Int
      /\ b[1] \in Int /\ b[2] \in Int /\ b[3] \in Int
  BY VectorTypes
<1> DEFINE a1 == a[1]  a2 == a[2]  a3 == a[3]  b1 == b[1]  b2 == b[2]  b3 == b[3]
<1>2. /\ q = a1 * a1 + a2 * a2 + a3 * a3 /\ q = b1 * b1 + b2 * b2 + b3 * b3
      /\ p = a1 * b1 + a2 * b2 + a3 * b3
  BY DEF Bend!Square, Bend!Dot
<1>3. /\ Bend!Plus(a, b) = <<a1 + b1, a2 + b2, a3 + b3>>
      /\ Bend!Plus(b, a) = <<b1 + a1, b2 + a2, b3 + a3>>
      /\ Bend!Minus(a, b) = <<a1 - b1, a2 - b2, a3 - b3>>
      /\ Bend!Minus(b, a) = <<b1 - a1, b2 - a2, b3 - a3>>
      /\ Bend!Cross(a, b) = <<a2 * b3 - a3 * b2, a3 * b1 - a1 * b3, a1 * b2 - a2 * b1>>
  BY <1>1 DEF Bend!Plus, Bend!Minus, Bend!Cross, Bend!Scaled
<1> DEFINE x1 == a1 * a1  x2 == a2 * a2  x3 == a3 * a3
           y1 == b1 * b1  y2 == b2 * b2  y3 == b3 * b3
           z1 == a1 * b1  z2 == a2 * b2  z3 == a3 * b3
<1>4. /\ Bend!Square(Bend!Plus(a, b)) =
            (x1 + 2 * z1 + y1) + (x2 + 2 * z2 + y2) + (x3 + 2 * z3 + y3)
      /\ Bend!Square(Bend!Minus(a, b)) =
            (x1 - 2 * z1 + y1) + (x2 - 2 * z2 + y2) + (x3 - 2 * z3 + y3)
      /\ Bend!Square(Bend!Minus(b, a)) =
            (x1 - 2 * z1 + y1) + (x2 - 2 * z2 + y2) + (x3 - 2 * z3 + y3)
  <2>1. /\ Bend!Square(Bend!Plus(a, b)) =
             (a1 + b1) * (a1 + b1) + (a2 + b2) * (a2 + b2) + (a3 + b3) * (a3 + b3)
        /\ Bend!Square(Bend!Minus(a, b)) =
             (a1 - b1) * (a1 - b1) + (a2 - b2) * (a2 - b2) + (a3 - b3) * (a3 - b3)
        /\ Bend!Square(Bend!Minus(b, a)) =
             (b1 - a1) * (b1 - a1) + (b2 - a2) * (b2 - a2) + (b3 - a3) * (b3 - a3)
    BY <1>3 DEF Bend!Square, Bend!Dot
  <2>2. \A x, y \in Int : /\ (x + y) * (x + y) = x * x + 2 * (x * y) + y * y
                          /\ (x - y) * (x - y) = x * x - 2 * (x * y) + y * y
                          /\ (y - x) * (y - x) = x * x - 2 * (x * y) + y * y
    OBVIOUS
  <2>3. /\ (a1 + b1) * (a1 + b1) = x1 + 2 * z1 + y1
        /\ (a2 + b2) * (a2 + b2) = x2 + 2 * z2 + y2
        /\ (a3 + b3) * (a3 + b3) = x3 + 2 * z3 + y3
        /\ (a1 - b1) * (a1 - b1) = x1 - 2 * z1 + y1
        /\ (a2 - b2) * (a2 - b2) = x2 - 2 * z2 + y2
        /\ (a3 - b3) * (a3 - b3) = x3 - 2 * z3 + y3
        /\ (b1 - a1) * (b1 - a1) = x1 - 2 * z1 + y1
        /\ (b2 - a2) * (b2 - a2) = x2 - 2 * z2 + y2
        /\ (b3 - a3) * (b3 - a3) = x3 - 2 * z3 + y3
    BY <1>1, <2>2
  <2> QED  BY <2>1, <2>3
<1>5. /\ Bend!Square(Bend!Plus(a, b)) = 2 * q + 2 * p
      /\ Bend!Square(Bend!Minus(a, b)) = 2 * q - 2 * p
      /\ Bend!Square(Bend!Minus(b, a)) = 2 * q - 2 * p
  <2>1. /\ x1 \in Int /\ x2 \in Int /\ x3 \in Int /\ y1 \in Int /\ y2 \in Int
        /\ y3 \in Int /\ z1 \in Int /\ z2 \in Int /\ z3 \in Int
    BY <1>1
  <2>2. q = x1 + x2 + x3 /\ q = y1 + y2 + y3 /\ p = z1 + z2 + z3
    BY <1>2
  <2> HIDE DEF x1, x2, x3, y1, y2, y3, z1, z2, z3
  <2> QED  BY <1>4, <2>1, <2>2
<1>6. Bend!Square(Bend!Cross(a, b)) = q * q - p * p
  <2>1. Bend!Square(Bend!Cross(a, b)) =
          (a2 * b3 - a3 * b2) * (a2 * b3 - a3 * b2) + (a3 * b1 - a1 * b3) * (a3 * b1 - a1 * b3)
            + (a1 * b2 - a2 * b1) * (a1 * b2 - a2 * b1)
    BY <1>3 DEF Bend!Square, Bend!Dot
  <2>2. q * q = (a1 * a1 + a2 * a2 + a3 * a3) * (b1 * b1 + b2 * b2 + b3 * b3)
    BY <1>2
  <2>3. p * p = (a1 * b1 + a2 * b2 + a3 * b3) * (a1 * b1 + a2 * b2 + a3 * b3)
    BY <1>2
  <2> QED  BY <1>1, <2>1, <2>2, <2>3
<1>7. Bend!Plus(a, b) = Bend!Plus(b, a)
  BY <1>1, <1>3
<1>8. /\ Bend!Dot(a, Bend!Plus(a, b)) = q + p
      /\ Bend!Dot(a, Bend!Minus(b, a)) = p - q
  <2>1. /\ Bend!Dot(a, Bend!Plus(a, b)) = a1 * (a1 + b1) + a2 * (a2 + b2) + a3 * (a3 + b3)
        /\ Bend!Dot(a, Bend!Minus(b, a)) = a1 * (b1 - a1) + a2 * (b2 - a2) + a3 * (b3 - a3)
    BY <1>3 DEF Bend!Dot
  <2> QED  BY <1>1, <1>2, <2>1
<1> QED  BY <1>5, <1>6, <1>7, <1>8

(* The frame is laid by the rule for the two directions; ScaleSpeed turns   *)
(* them round only when they go straight on, and climb.                     *)
GoOn == Bend!AreCollinear /\ Bend!IsSameDirection

Framed(s) ==
  /\ ~Bend!AreCollinear => ex = Bend!Plus(w1, w0) /\ ey = Bend!Minus(w1, w0)
  /\ Bend!AreCollinear /\ ~Bend!IsSameDirection =>
       ey = Bend!Scaled(-1, w0) /\ ex = <<-w0[2], w0[1], -w0[3]>>
  /\ GoOn => /\ ex = Bend!Scaled(s, w0)
             /\ ey = Bend!Scaled(s, <<-w0[2], w0[1], w0[3]>>)

BendInv ==
  /\ Bend!TypeOK
  /\ Bend!Square(w0) = Bend!Squared(Norm) /\ Bend!Square(w1) = Bend!Squared(Norm)
  /\ turn \in {"scale", "set"} => Framed(1)
  /\ turn = "done" => Framed(sense)
  /\ sense = -1 => turn \in {"set", "done"} /\ GoOn /\ Bend!Climbs

LEMMA Angle ==
  ASSUME Bend!DirectionsAssumption, BendInv,
         NEW q, q = Bend!Squared(Norm), NEW p, p = Bend!Dot(w0, w1)
  PROVE  /\ p \in Int /\ q \in Nat \ {0} /\ q = Norm * Norm
         /\ Norm \in Nat \ {0} /\ Bend!Squared(Tolerance) \in Nat \ {0}
         /\ Bend!Square(Bend!Plus(w0, w1)) = 2 * q + 2 * p
         /\ Bend!Square(Bend!Minus(w0, w1)) = 2 * q - 2 * p
         /\ p <= q /\ -q <= p
         /\ ~Bend!AreCollinear => p < q
<1>1. w0 \in Vectors /\ w1 \in Vectors
  BY DEF BendInv, Bend!TypeOK, Vectors
<1>2. /\ Norm \in Nat \ {0} /\ Tolerance \in Nat \ {0}
      /\ \A x \in Nat \ {0} : x * x \in Nat \ {0}
  BY DEF Bend!DirectionsAssumption
<1>3. q \in Nat \ {0} /\ Bend!Squared(Tolerance) \in Nat \ {0} /\ q = Norm * Norm
  BY <1>2 DEF Bend!Squared
<1>4. p \in Int
  BY <1>1, VectorTypes
<1>5. q = Bend!Square(w0) /\ q = Bend!Square(w1)
  BY DEF BendInv
<1>6. /\ Bend!Square(Bend!Plus(w0, w1)) = 2 * q + 2 * p
      /\ Bend!Square(Bend!Minus(w0, w1)) = 2 * q - 2 * p
      /\ Bend!Square(Bend!Cross(w0, w1)) = q * q - p * p
  BY <1>1, <1>5, Products
<1>7. /\ Bend!Square(Bend!Plus(w0, w1)) >= 0 /\ Bend!Square(Bend!Minus(w0, w1)) >= 0
  <2>1. Bend!Plus(w0, w1) \in Vectors /\ Bend!Minus(w0, w1) \in Vectors
    BY <1>1, VectorTypes
  <2> QED  BY <2>1, VectorTypes
<1>8. p <= q /\ -q <= p
  BY <1>3, <1>4, <1>6, <1>7
<1>9. ASSUME p = q PROVE Bend!AreCollinear
  <2>1. Bend!Square(Bend!Cross(w0, w1)) = 0
    BY <1>3, <1>6, <1>9
  <2>2. Bend!Squared(q) \in Nat \ {0}
    BY <1>2, <1>3 DEF Bend!Squared
  <2>3. Bend!Square(Bend!Cross(w0, w1)) * Bend!Squared(Tolerance) = 0
    BY <1>3, <2>1
  <2> QED  BY <2>2, <2>3 DEF Bend!AreCollinear
<1> QED  BY <1>2, <1>3, <1>4, <1>6, <1>8, <1>9

LEMMA BendInitially ==
  ASSUME Bend!DirectionsAssumption PROVE Bend!Init => BendInv
BY DEF Bend!DirectionsAssumption, Bend!Init, BendInv, Bend!TypeOK, Bend!Zero

LEMMA FrameLaid ==
  ASSUME BendInv, Bend!DefineUnitVectors
  PROVE  BendInv'
<1>1. w0 \in Vectors /\ w1 \in Vectors /\ turn' = "scale" /\ sense' = sense /\ sense = 1
  BY DEF BendInv, Bend!TypeOK, Vectors, Bend!DefineUnitVectors
<1>2. w0' = w0 /\ w1' = w1
  BY DEF Bend!DefineUnitVectors
<1>3. /\ Bend!AreCollinear' <=> Bend!AreCollinear
      /\ Bend!IsSameDirection' <=> Bend!IsSameDirection
  BY <1>2 DEF Bend!AreCollinear, Bend!IsSameDirection
<1>4. /\ w0[1] \in Int /\ w0[2] \in Int /\ w0[3] \in Int /\ w0 = <<w0[1], w0[2], w0[3]>>
      /\ Bend!Scaled(-1, w0) \in Vectors
  BY <1>1, VectorTypes
<1>5. /\ Bend!Scaled(1, w0) = w0
      /\ Bend!Scaled(1, <<-w0[2], w0[1], w0[3]>>) = <<-w0[2], w0[1], w0[3]>>
  BY <1>4 DEF Bend!Scaled
<1>6. Framed(1)' /\ ex' \in Vectors /\ ey' \in Vectors
  <2>1. CASE Bend!SameDirection
    BY <1>2, <1>3, <1>4, <1>5, <2>1 DEF Framed, GoOn, Bend!SameDirection, Vectors
  <2>2. CASE Bend!OppositeDirection
    BY <1>2, <1>3, <1>4, <2>2 DEF Framed, GoOn, Bend!OppositeDirection, Vectors
  <2>3. CASE Bend!DefaultDirection
    BY <1>1, <1>2, <1>3, <2>3, VectorTypes DEF Framed, GoOn, Bend!DefaultDirection
  <2> QED  BY <2>1, <2>2, <2>3 DEF Bend!DefineUnitVectors
<1> QED  BY <1>1, <1>2, <1>6 DEF BendInv, Bend!TypeOK, Vectors

(* wy0, from the frame. *)
LEMMA Turning ==
  ASSUME Bend!DirectionsAssumption, BendInv, NEW s \in {1, -1}, Framed(s),
         NEW q, q = Bend!Squared(Norm), NEW p, p = Bend!Dot(w0, w1)
  PROVE  /\ ~Bend!AreCollinear => Bend!Turned = q - p
         /\ Bend!AreCollinear /\ ~Bend!IsSameDirection => Bend!Turned = q
         /\ GoOn => Bend!Turned = -(s * (w0[3] * w0[3]))
<1>1. w0 \in Vectors /\ w1 \in Vectors /\ q = Bend!Square(w0) /\ q = Bend!Square(w1)
  BY DEF BendInv, Bend!TypeOK, Vectors
<1>2. /\ w0[1] \in Int /\ w0[2] \in Int /\ w0[3] \in Int /\ q \in Int /\ p \in Int
  BY <1>1, VectorTypes
<1>3. CASE ~Bend!AreCollinear
  <2>1. Bend!Dot(w0, ey) = p - q
    BY <1>1, <1>3, Products DEF Framed
  <2> QED  BY <1>2, <1>3, <2>1 DEF Bend!Turned, GoOn
<1>4. CASE Bend!AreCollinear /\ ~Bend!IsSameDirection
  <2>1. ey[1] = -1 * w0[1] /\ ey[2] = -1 * w0[2] /\ ey[3] = -1 * w0[3]
    <3>1. ey = Bend!Scaled(-1, w0)
      BY <1>4 DEF Framed
    <3> QED  BY <1>2, <3>1 DEF Bend!Scaled
  <2>2. q = w0[1] * w0[1] + w0[2] * w0[2] + w0[3] * w0[3]
    BY <1>1 DEF Bend!Square, Bend!Dot
  <2>3. Bend!Dot(w0, ey) = -q
    BY <1>2, <2>1, <2>2 DEF Bend!Dot
  <2> QED  BY <1>2, <1>4, <2>3 DEF Bend!Turned, GoOn
<1>5. CASE GoOn
  <2>1. ey[1] = -(s * w0[2]) /\ ey[2] = s * w0[1] /\ ey[3] = s * w0[3]
    <3>1. ey = Bend!Scaled(s, <<-w0[2], w0[1], w0[3]>>)
      BY <1>5 DEF Framed
    <3>2. \A x \in Int : s * (-x) = -(s * x)
      OBVIOUS
    <3> QED  BY <1>2, <3>1, <3>2 DEF Bend!Scaled
  <2>2. Bend!Dot(w0, ey) = w0[1] * (-(s * w0[2])) + w0[2] * (s * w0[1]) + w0[3] * (s * w0[3])
    BY <2>1 DEF Bend!Dot
  <2>3. CASE s = 1
    BY <1>2, <1>5, <2>2, <2>3 DEF Bend!Turned, GoOn
  <2>4. CASE s = -1
    BY <1>2, <1>5, <2>2, <2>4 DEF Bend!Turned, GoOn
  <2> QED  BY <2>3, <2>4
<1> QED  BY <1>3, <1>4, <1>5 DEF GoOn

LEMMA SpeedScaled ==
  ASSUME Bend!DirectionsAssumption, BendInv, Bend!ScaleSpeed
  PROVE  BendInv'
<1>1. /\ turn = "scale" /\ turn' = "set" /\ w0' = w0 /\ w1' = w1 /\ ex' = ex /\ ey' = ey
      /\ sense' \in {1, -1} /\ (sense' = -1 => Bend!Turned < 0)
  BY DEF Bend!ScaleSpeed
<1>2. /\ Bend!AreCollinear' <=> Bend!AreCollinear
      /\ Bend!IsSameDirection' <=> Bend!IsSameDirection
      /\ (Bend!Climbs' <=> Bend!Climbs) /\ (GoOn' <=> GoOn)
  <2>1. /\ Bend!AreCollinear' <=> Bend!AreCollinear
        /\ Bend!IsSameDirection' <=> Bend!IsSameDirection
    BY <1>1 DEF Bend!AreCollinear, Bend!IsSameDirection
  <2>2. Bend!Climbs' <=> Bend!Climbs
    BY <1>1 DEF Bend!Climbs
  <2> QED  BY <2>1, <2>2 DEF GoOn
<1>3. ASSUME Bend!Turned < 0 PROVE GoOn /\ Bend!Climbs
  <2> DEFINE q == Bend!Squared(Norm)
             p == Bend!Dot(w0, w1)
  <2>1. Framed(1) /\ w0 \in Vectors
    BY <1>1 DEF BendInv, Bend!TypeOK, Vectors
  <2>2. w0[3] \in Int
    BY <2>1, VectorTypes
  <2>3. q \in Nat \ {0} /\ p \in Int /\ p <= q
    BY Angle
  <2>4. /\ ~Bend!AreCollinear => Bend!Turned = q - p
        /\ Bend!AreCollinear /\ ~Bend!IsSameDirection => Bend!Turned = q
        /\ GoOn => Bend!Turned = -(1 * (w0[3] * w0[3]))
    BY <2>1, Turning
  <2> HIDE DEF q, p
  <2>5. GoOn
    BY <1>3, <2>3, <2>4 DEF GoOn
  <2> QED  BY <1>3, <2>2, <2>4, <2>5 DEF Bend!Climbs
<1>4. Framed(1)'
  <2>1. Framed(1)
    BY <1>1 DEF BendInv
  <2> QED  BY <1>1, <1>2, <2>1 DEF Framed
<1>5. /\ Bend!TypeOK' /\ Bend!Square(w0)' = Bend!Squared(Norm)
      /\ Bend!Square(w1)' = Bend!Squared(Norm)
  BY <1>1 DEF BendInv, Bend!TypeOK, Bend!Square, Bend!Dot
<1>6. sense' = -1 => GoOn' /\ Bend!Climbs'
  BY <1>1, <1>2, <1>3
<1> QED  BY <1>1, <1>4, <1>5, <1>6 DEF BendInv

LEMMA CurveSet ==
  ASSUME BendInv, Bend!SetCurve
  PROVE  BendInv'
<1>1. /\ turn = "set" /\ turn' = "done" /\ w0' = Bend!Scaled(sense, w0)
      /\ w1' = Bend!Scaled(sense, w1) /\ ex' = ex /\ ey' = ey /\ sense' = sense
  BY DEF Bend!SetCurve
<1>2. w0 \in Vectors /\ w1 \in Vectors /\ Framed(1) /\ sense \in {1, -1}
  BY <1>1 DEF BendInv, Bend!TypeOK, Vectors
<1>3. /\ w0[1] \in Int /\ w0[2] \in Int /\ w0[3] \in Int /\ w0 = <<w0[1], w0[2], w0[3]>>
      /\ w1[1] \in Int /\ w1[2] \in Int /\ w1[3] \in Int /\ w1 = <<w1[1], w1[2], w1[3]>>
  BY <1>2, VectorTypes
<1>4. CASE sense = 1
  <2>1. w0' = w0 /\ w1' = w1
    BY <1>1, <1>3, <1>4 DEF Bend!Scaled
  <2>2. /\ Bend!AreCollinear' <=> Bend!AreCollinear
        /\ Bend!IsSameDirection' <=> Bend!IsSameDirection
    BY <2>1 DEF Bend!AreCollinear, Bend!IsSameDirection
  <2>3. Framed(1)'
    BY <1>1, <1>2, <2>1, <2>2 DEF Framed, GoOn
  <2> QED  BY <1>1, <1>4, <2>1, <2>3 DEF BendInv, Bend!TypeOK
<1>5. CASE sense = -1
  <2>1. /\ w0'[1] = -w0[1] /\ w0'[2] = -w0[2] /\ w0'[3] = -w0[3]
        /\ w1'[1] = -w1[1] /\ w1'[2] = -w1[2] /\ w1'[3] = -w1[3]
        /\ w0' \in Vectors /\ w1' \in Vectors
    BY <1>1, <1>3, <1>5 DEF Bend!Scaled, Vectors
  <2>2. GoOn /\ Bend!Climbs
    BY <1>5 DEF BendInv
  <2>3. /\ Bend!Square(w0)' = Bend!Square(w0) /\ Bend!Square(w1)' = Bend!Square(w1)
    BY <1>3, <2>1 DEF Bend!Square, Bend!Dot
  <2>4. Bend!Cross(w0, w1)' = Bend!Cross(w0, w1)
    BY <1>3, <2>1 DEF Bend!Cross
  <2>5. \A k \in 1 .. 3 : /\ w1'[k] # 0 <=> w1[k] # 0
                          /\ w0'[k] * w1'[k] = w0[k] * w1[k]
    <3>1. \A k \in 1 .. 3 : k = 1 \/ k = 2 \/ k = 3
      OBVIOUS
    <3> QED  BY <1>3, <2>1, <3>1
  <2>6. GoOn'
    <3>1. Bend!AreCollinear'
      BY <2>2, <2>4 DEF GoOn, Bend!AreCollinear
    <3>2. Bend!IsSameDirection'
      BY <2>2, <2>5 DEF GoOn, Bend!IsSameDirection
    <3> QED  BY <3>1, <3>2 DEF GoOn
  <2>7. Framed(-1)'
    <3>1. ex' = w0 /\ ey' = <<-w0[2], w0[1], w0[3]>>
      BY <1>1, <1>2, <1>3, <2>2 DEF Framed, GoOn, Bend!Scaled
    <3>2. /\ Bend!Scaled(-1, w0)' = w0
          /\ Bend!Scaled(-1, <<-w0[2], w0[1], w0[3]>>)' = <<-w0[2], w0[1], w0[3]>>
      BY <1>3, <2>1 DEF Bend!Scaled
    <3>3. /\ (ex = Bend!Scaled(-1, w0))'
          /\ (ey = Bend!Scaled(-1, <<-w0[2], w0[1], w0[3]>>))'
      BY <3>1, <3>2
    <3>4. Bend!AreCollinear' /\ Bend!IsSameDirection'
      BY <2>6 DEF GoOn
    <3> QED  BY <3>3, <3>4 DEF Framed, GoOn
  <2>8. Bend!Climbs'
    BY <1>3, <2>1, <2>2 DEF Bend!Climbs
  <2> QED  BY <1>1, <1>5, <2>1, <2>3, <2>6, <2>7, <2>8 DEF BendInv, Bend!TypeOK, Vectors
<1> QED  BY <1>2, <1>4, <1>5

LEMMA ScaledSquare ==
  ASSUME NEW a \in Vectors, NEW k \in Int
  PROVE  /\ Bend!Square(Bend!Scaled(k, a)) = (k * k) * Bend!Square(a)
         /\ Bend!Dot(a, Bend!Scaled(k, a)) = k * Bend!Square(a)
<1>1. a[1] \in Int /\ a[2] \in Int /\ a[3] \in Int
  BY VectorTypes
<1>2. Bend!Square(a) = a[1] * a[1] + a[2] * a[2] + a[3] * a[3]
  BY DEF Bend!Square, Bend!Dot
<1>3. /\ Bend!Square(Bend!Scaled(k, a)) =
           (k * a[1]) * (k * a[1]) + (k * a[2]) * (k * a[2]) + (k * a[3]) * (k * a[3])
      /\ Bend!Dot(a, Bend!Scaled(k, a)) =
           a[1] * (k * a[1]) + a[2] * (k * a[2]) + a[3] * (k * a[3])
  BY <1>1 DEF Bend!Square, Bend!Dot, Bend!Scaled
<1> QED  BY <1>1, <1>2, <1>3

(* Which of the two is near nothing says whether p is positive. *)
LEMMA Vanishing ==
  ASSUME Bend!DirectionsAssumption, BendInv,
         NEW q, q = Bend!Squared(Norm), NEW p, p = Bend!Dot(w0, w1),
         NEW t, t = Bend!Squared(Tolerance)
  PROVE  /\ Bend!Vanishes(Bend!Plus(w0, w1), 1) <=> (2 * q + 2 * p) * t < q
         /\ Bend!Vanishes(Bend!Minus(w0, w1), 1) <=> (2 * q - 2 * p) * t < q
         /\ (2 * q + 2 * p) * t < q => p < 0
         /\ (2 * q - 2 * p) * t < q => p > 0
<1>1. /\ p \in Int /\ q \in Nat \ {0} /\ q = Norm * Norm /\ Norm \in Nat \ {0}
      /\ t \in Nat \ {0} /\ p <= q /\ -q <= p
      /\ Bend!Square(Bend!Plus(w0, w1)) = 2 * q + 2 * p
      /\ Bend!Square(Bend!Minus(w0, w1)) = 2 * q - 2 * p
  BY Angle
<1>2. Bend!Squared(Norm * 1) = q
  BY <1>1 DEF Bend!Squared
<1>3. /\ Bend!Vanishes(Bend!Plus(w0, w1), 1) <=> (2 * q + 2 * p) * t < q
      /\ Bend!Vanishes(Bend!Minus(w0, w1), 1) <=> (2 * q - 2 * p) * t < q
  BY <1>1, <1>2 DEF Bend!Vanishes
<1>4. \A x \in Nat, y \in Nat \ {0} : x <= x * y
  OBVIOUS
<1>5. 2 * q + 2 * p \in Nat /\ 2 * q - 2 * p \in Nat
  BY <1>1
<1>6. 2 * q + 2 * p <= (2 * q + 2 * p) * t /\ 2 * q - 2 * p <= (2 * q - 2 * p) * t
  BY <1>1, <1>4, <1>5
<1>7. (2 * q + 2 * p) * t \in Int /\ (2 * q - 2 * p) * t \in Int
  BY <1>1
<1> DEFINE u == (2 * q + 2 * p) * t
           v == (2 * q - 2 * p) * t
<1> HIDE DEF u, v
<1>8. (u < q => p < 0) /\ (v < q => p > 0)
  <2>1. 2 * q + 2 * p <= u /\ 2 * q - 2 * p <= v /\ u \in Int /\ v \in Int
    BY <1>6, <1>7 DEF u, v
  <2> QED  BY <1>1, <2>1
<1> QED  BY <1>3, <1>8 DEF u, v

(* A vector k u is near nothing to is_valid, in the unit k, when u is.      *)
LEMMA VanishingScaled ==
  ASSUME Bend!DirectionsAssumption, NEW u \in Vectors, NEW k \in Int,
         NEW n \in Nat \ {0}, k = n \/ k = -n
  PROVE  Bend!Vanishes(u, 1) => Bend!Vanishes(Bend!Scaled(k, u), n)
<1> DEFINE x == Bend!Square(u)
           t == Bend!Squared(Tolerance)
<1>1. x \in Int /\ t \in Int /\ Norm \in Int
  <2>1. x \in Int
    BY VectorTypes
  <2>2. t \in Int /\ Norm \in Int
    BY DEF Bend!DirectionsAssumption, Bend!Squared
  <2> QED  BY <2>1, <2>2
<1>2. Bend!Square(Bend!Scaled(k, u)) = (n * n) * x
  <2>1. k * k = n * n
    OBVIOUS
  <2> QED  BY <2>1, ScaledSquare
<1>3. Bend!Squared(Norm * 1) = Norm * Norm /\ Bend!Squared(Norm * n) = (n * n) * (Norm * Norm)
  BY <1>1 DEF Bend!Squared
<1>4. n * n \in Nat \ {0}
  OBVIOUS
<1>5. \A y, z \in Int, m \in Nat \ {0} : y < z => m * y < m * z
  OBVIOUS
<1>6. x * t < Norm * Norm => ((n * n) * x) * t < (n * n) * (Norm * Norm)
  <2>1. x * t \in Int /\ Norm * Norm \in Int
    BY <1>1
  <2>2. x * t < Norm * Norm => (n * n) * (x * t) < (n * n) * (Norm * Norm)
    BY <1>4, <1>5, <2>1
  <2>3. ((n * n) * x) * t = (n * n) * (x * t)
    BY <1>1
  <2> QED  BY <2>2, <2>3
<1> QED  BY <1>2, <1>3, <1>6 DEF Bend!Vanishes

LEMMA BendsApart ==
  ASSUME Bend!DirectionsAssumption, BendInv, turn = "done", ~Bend!AreCollinear
  PROVE  Bend!IsCoherent /\ sense = 1 /\ Bend!Distance = Bend!Expected
<1> DEFINE q == Bend!Squared(Norm)
           p == Bend!Dot(w0, w1)
<1>1. /\ p \in Int /\ q \in Nat \ {0} /\ Norm \in Nat \ {0} /\ p < q
      /\ Bend!Squared(Tolerance) \in Nat \ {0}
  BY Angle
<1>2. /\ w0 \in Vectors /\ w1 \in Vectors /\ Bend!Square(w0) = q /\ Bend!Square(w1) = q
      /\ Framed(sense) /\ sense \in {1, -1}
  BY DEF BendInv, Bend!TypeOK, Vectors
<1>3. sense = 1
  BY <1>2 DEF BendInv, GoOn
<1>4. ex = Bend!Plus(w1, w0) /\ ey = Bend!Minus(w1, w0)
  BY <1>2 DEF Framed
<1>5. /\ Bend!Square(ex) = 2 * q + 2 * p /\ Bend!Square(ey) = 2 * q - 2 * p
      /\ Bend!Dot(w0, ex) = q + p /\ Bend!Dot(w0, ey) = p - q
  BY <1>2, <1>4, Products
<1>6. Bend!Turned = q - p
  BY <1>2, Turning
<1>7. /\ w0[1] \in Int /\ w0[2] \in Int /\ w0[3] \in Int
      /\ w1[1] \in Int /\ w1[2] \in Int /\ w1[3] \in Int
  BY <1>2, VectorTypes
<1> HIDE DEF q, p
<1>8. Bend!SpeedsCoherent
  <2> DEFINE d == 2 * q - 2 * p
  <2>1. 2 * Bend!Size(Bend!Turned) = d /\ d \in Nat \ {0}
    BY <1>1, <1>6 DEF Bend!Size
  <2>2. /\ ey[1] = w1[1] - w0[1] /\ ey[2] = w1[2] - w0[2] /\ ey[3] = w1[3] - w0[3]
    BY <1>4, <1>7 DEF Bend!Minus, Bend!Plus, Bend!Scaled
  <2> DEFINE v == Bend!Plus(Bend!Scaled(d, Bend!Minus(w0, w1)), Bend!Scaled(d, ey))
  <2>3. \A x, y \in Int : d * (x + -1 * y) + d * (y - x) = 0
    BY <2>1
  <2>4. v[1] = 0 /\ v[2] = 0 /\ v[3] = 0
    <3> HIDE DEF d
    <3>1. /\ v[1] = d * (w0[1] + -1 * w1[1]) + d * (w1[1] - w0[1])
          /\ v[2] = d * (w0[2] + -1 * w1[2]) + d * (w1[2] - w0[2])
          /\ v[3] = d * (w0[3] + -1 * w1[3]) + d * (w1[3] - w0[3])
      <4>1. /\ Bend!Minus(w0, w1)[1] = w0[1] + -1 * w1[1]
            /\ Bend!Minus(w0, w1)[2] = w0[2] + -1 * w1[2]
            /\ Bend!Minus(w0, w1)[3] = w0[3] + -1 * w1[3]
        BY <1>7 DEF Bend!Minus, Bend!Plus, Bend!Scaled
      <4>2. \A a, b : /\ Bend!Plus(Bend!Scaled(d, a), Bend!Scaled(d, b))[1] = d * a[1] + d * b[1]
                     /\ Bend!Plus(Bend!Scaled(d, a), Bend!Scaled(d, b))[2] = d * a[2] + d * b[2]
                     /\ Bend!Plus(Bend!Scaled(d, a), Bend!Scaled(d, b))[3] = d * a[3] + d * b[3]
        BY DEF Bend!Plus, Bend!Scaled
      <4> QED  BY <2>2, <4>1, <4>2
    <3> QED  BY <1>7, <2>3, <3>1
  <2>5. Bend!Square(v) = 0
    <3> HIDE DEF v
    <3> QED  BY <2>4 DEF Bend!Square, Bend!Dot
  <2>6. Bend!Squared(Norm * d) \in Nat \ {0}
    <3>1. \A x, y \in Nat \ {0} : x * y \in Nat \ {0}
      OBVIOUS
    <3> HIDE DEF d
    <3> QED  BY <1>1, <2>1, <3>1 DEF Bend!Squared
  <2>7. Bend!Square(v) * Bend!Squared(Tolerance) = 0
    BY <1>1, <2>5
  <2>8. Bend!Vanishes(v, d)
    <3> HIDE DEF d, v
    <3> QED  BY <2>6, <2>7 DEF Bend!Vanishes
  <2>9. Bend!Square(ey) = d
    BY <1>5
  <2> HIDE DEF d
  <2> QED  BY <2>1, <2>8, <2>9 DEF Bend!SpeedsCoherent
<1>9. Bend!Distance = Bend!Expected
  <2> DEFINE b == 2 * q + 2 * p
             d == 2 * q - 2 * p
  <2>1. Bend!Distance = ((q + p) * (q + p)) * d + ((p - q) * (p - q)) * b
    BY <1>5 DEF Bend!Distance, Bend!Squared
  <2>2. Bend!Expected = q * b * d
    BY <1>5 DEF Bend!Expected, q
  <2> QED  BY <1>1, <2>1, <2>2
<1> QED  BY <1>3, <1>8, <1>9 DEF Bend!IsCoherent, Bend!PointsCoherent

(* A reversal: the frame is w0 itself, the curve takes what is left of it.  *)
LEMMA Reverses ==
  ASSUME Bend!DirectionsAssumption, BendInv, turn = "done",
         Bend!AreCollinear, ~Bend!IsSameDirection
  PROVE  /\ sense = 1
         /\ Bend!Vanishes(Bend!Plus(w0, w1), 1) => Bend!IsCoherent
         /\ ~Bend!Climbs => Bend!Distance = Bend!Expected
<1> DEFINE q == Bend!Squared(Norm)
<1>1. q \in Nat \ {0}
  BY Angle
<1>2. /\ w0 \in Vectors /\ w1 \in Vectors /\ Bend!Square(w0) = q /\ Framed(sense)
      /\ sense \in {1, -1}
  BY DEF BendInv, Bend!TypeOK, Vectors
<1>3. sense = 1
  BY <1>2 DEF BendInv, GoOn
<1>4. ey = Bend!Scaled(-1, w0) /\ ex = <<-w0[2], w0[1], -w0[3]>>
  BY <1>2 DEF Framed
<1>5. Bend!Turned = q
  BY <1>2, Turning
<1>6. /\ w0[1] \in Int /\ w0[2] \in Int /\ w0[3] \in Int
      /\ w1[1] \in Int /\ w1[2] \in Int /\ w1[3] \in Int
  BY <1>2, VectorTypes
<1>7. Bend!Square(ey) = q
  <2>1. Bend!Square(ey) = ((-1) * (-1)) * Bend!Square(w0)
    BY <1>2, <1>4, ScaledSquare
  <2> QED  BY <1>1, <1>2, <2>1
<1> HIDE DEF q
<1>8. ASSUME Bend!Vanishes(Bend!Plus(w0, w1), 1) PROVE Bend!IsCoherent
  <2>1. Bend!Plus(Bend!Scaled(q, Bend!Minus(w0, w1)), Bend!Scaled(2 * q, ey))
          = Bend!Scaled(-q, Bend!Plus(w0, w1))
    <3>1. \A x, y \in Int : q * (x + -1 * y) + (2 * q) * (-1 * x) = (-q) * (x + y)
      BY <1>1
    <3>2. /\ ey[1] = -1 * w0[1] /\ ey[2] = -1 * w0[2] /\ ey[3] = -1 * w0[3]
      BY <1>4, <1>6 DEF Bend!Scaled
    <3>3. Bend!Plus(Bend!Scaled(q, Bend!Minus(w0, w1)), Bend!Scaled(2 * q, ey))
            = <<q * (w0[1] + -1 * w1[1]) + (2 * q) * ey[1],
                q * (w0[2] + -1 * w1[2]) + (2 * q) * ey[2],
                q * (w0[3] + -1 * w1[3]) + (2 * q) * ey[3]>>
      BY <1>1, <1>6 DEF Bend!Minus, Bend!Plus, Bend!Scaled
    <3>4. Bend!Scaled(-q, Bend!Plus(w0, w1))
            = <<(-q) * (w0[1] + w1[1]), (-q) * (w0[2] + w1[2]), (-q) * (w0[3] + w1[3])>>
      BY DEF Bend!Plus, Bend!Scaled
    <3> QED  BY <1>6, <3>1, <3>2, <3>3, <3>4
  <2>2. Bend!Vanishes(Bend!Scaled(-q, Bend!Plus(w0, w1)), q)
    <3>1. Bend!Plus(w0, w1) \in Vectors
      BY <1>2, VectorTypes
    <3> QED  BY <1>1, <1>8, <3>1, VanishingScaled
  <2>3. Bend!Size(Bend!Turned) = q
    BY <1>1, <1>5 DEF Bend!Size
  <2>4. Bend!SpeedsCoherent
    BY <1>7, <2>1, <2>2, <2>3 DEF Bend!SpeedsCoherent
  <2> QED  BY <1>8, <2>4 DEF Bend!IsCoherent, Bend!PointsCoherent
<1>9. ASSUME ~Bend!Climbs PROVE Bend!Distance = Bend!Expected
  <2>1. w0[3] = 0 /\ q = w0[1] * w0[1] + w0[2] * w0[2] + w0[3] * w0[3]
    BY <1>2, <1>9 DEF Bend!Climbs, Bend!Square, Bend!Dot
  <2>2. Bend!Square(ex) = q
    <3>1. Bend!Square(ex) = (-w0[2]) * (-w0[2]) + w0[1] * w0[1] + (-w0[3]) * (-w0[3])
      BY <1>4 DEF Bend!Square, Bend!Dot
    <3> QED  BY <1>6, <2>1, <3>1
  <2>3. Bend!Dot(w0, ex) = 0
    <3>1. Bend!Dot(w0, ex) = w0[1] * (-w0[2]) + w0[2] * w0[1] + w0[3] * (-w0[3])
      BY <1>4 DEF Bend!Dot
    <3> QED  BY <1>6, <2>1, <3>1
  <2>4. Bend!Dot(w0, ey) = -q
    BY <1>1, <1>2, <1>4, ScaledSquare
  <2>5. Bend!Distance = (0 * 0) * q + ((-q) * (-q)) * q
    BY <1>7, <2>2, <2>3, <2>4 DEF Bend!Distance, Bend!Squared
  <2>6. Bend!Expected = q * q * q
    BY <1>7, <2>2 DEF Bend!Expected, q
  <2> QED  BY <1>1, <2>5, <2>6
<1> QED  BY <1>3, <1>8, <1>9

(* Straight on: nothing is to be turned round, unless the two climb.        *)
LEMMA GoesOn ==
  ASSUME Bend!DirectionsAssumption, BendInv, turn = "done", GoOn
  PROVE  /\ ~Bend!Climbs /\ Bend!Vanishes(Bend!Minus(w0, w1), 1) => Bend!IsCoherent
         /\ ~Bend!Climbs => sense = 1 /\ Bend!Distance = Bend!Expected
         /\ Bend!Climbs /\ ~Bend!Vanishes(Bend!Plus(w0, w1), 1) => ~Bend!IsCoherent
<1> DEFINE q == Bend!Squared(Norm)
           c == w0[3] * w0[3]
<1>1. q \in Nat \ {0}
  BY Angle
<1>2. /\ w0 \in Vectors /\ w1 \in Vectors /\ Bend!Square(w0) = q /\ Framed(sense)
      /\ sense \in {1, -1} /\ sense \in Int
  BY DEF BendInv, Bend!TypeOK, Vectors
<1>3. /\ ex = Bend!Scaled(sense, w0)
      /\ ey = Bend!Scaled(sense, <<-w0[2], w0[1], w0[3]>>)
  BY <1>2 DEF Framed
<1>4. Bend!Turned = -(sense * c)
  BY <1>2, Turning
<1>5. /\ w0[1] \in Int /\ w0[2] \in Int /\ w0[3] \in Int
      /\ w1[1] \in Int /\ w1[2] \in Int /\ w1[3] \in Int
      /\ q = w0[1] * w0[1] + w0[2] * w0[2] + w0[3] * w0[3]
  BY <1>2, VectorTypes DEF Bend!Square, Bend!Dot
<1>6. sense * sense = 1
  BY <1>2
<1>7. Bend!Square(ex) = q /\ Bend!Square(ey) = q /\ Bend!Dot(w0, ex) = sense * q
  <2>1. Bend!Square(ex) = (sense * sense) * q /\ Bend!Dot(w0, ex) = sense * q
    BY <1>2, <1>3, ScaledSquare
  <2> DEFINE r == <<-w0[2], w0[1], w0[3]>>
  <2>2. r \in Vectors
    BY <1>5 DEF Vectors
  <2>3. Bend!Square(r) = (-w0[2]) * (-w0[2]) + w0[1] * w0[1] + w0[3] * w0[3]
    BY DEF Bend!Square, Bend!Dot
  <2>4. Bend!Square(r) = q
    BY <1>5, <2>3
  <2>5. Bend!Square(ey) = (sense * sense) * q
    BY <1>2, <1>3, <2>2, <2>4, ScaledSquare
  <2> QED  BY <1>1, <1>6, <2>1, <2>5
<1>8. c \in Int /\ (Bend!Climbs <=> c # 0)
  <2>1. c \in Int
    BY <1>5
  <2>2. w0[3] = 0 => c = 0
    BY <1>5
  <2>3. \A x, y \in Int : x # 0 /\ y # 0 => x * y # 0
    OBVIOUS
  <2>4. w0[3] # 0 => c # 0
    BY <1>5, <2>3
  <2> QED  BY <2>1, <2>2, <2>4 DEF Bend!Climbs
<1>9. Bend!Distance = q * q * q + c * c * q /\ Bend!Expected = q * q * q
  <2>1. Bend!Dot(w0, ey) = sense * c
    <3>1. ey[1] = sense * (-w0[2]) /\ ey[2] = sense * w0[1] /\ ey[3] = sense * w0[3]
      BY <1>3 DEF Bend!Scaled
    <3>2. Bend!Dot(w0, ey) =
            w0[1] * (sense * (-w0[2])) + w0[2] * (sense * w0[1]) + w0[3] * (sense * w0[3])
      BY <3>1 DEF Bend!Dot
    <3> QED  BY <1>2, <1>5, <3>2
  <2>2. Bend!Distance =
          ((sense * q) * (sense * q)) * q + ((sense * c) * (sense * c)) * q
    BY <1>7, <2>1 DEF Bend!Distance, Bend!Squared
  <2>3. Bend!Expected = q * q * q
    BY <1>7 DEF Bend!Expected, q
  <2> HIDE DEF q, c
  <2>4. CASE sense = 1
    BY <1>1, <1>8, <2>2, <2>3, <2>4
  <2>5. CASE sense = -1
    BY <1>1, <1>8, <2>2, <2>3, <2>5
  <2> QED  BY <1>2, <2>4, <2>5
<1> HIDE DEF q, c
<1>10. ASSUME ~Bend!Climbs
       PROVE  /\ Bend!Turned = 0 /\ sense = 1 /\ Bend!Distance = Bend!Expected
  BY <1>1, <1>2, <1>4, <1>8, <1>9, <1>10 DEF BendInv
<1>11. ASSUME ~Bend!Climbs, Bend!Vanishes(Bend!Minus(w0, w1), 1) PROVE Bend!IsCoherent
  <2>1. 2 * Bend!Size(Bend!Turned) = 0
    BY <1>10, <1>11 DEF Bend!Size
  <2>2. Bend!Minus(w0, w1) \in Vectors /\ ey \in Vectors
    BY <1>2, VectorTypes DEF BendInv, Bend!TypeOK, Vectors
  <2>3. Bend!Plus(Bend!Scaled(q, Bend!Minus(w0, w1)), Bend!Scaled(0, ey))
          = Bend!Scaled(q, Bend!Minus(w0, w1))
    <3>1. \A u \in Vectors :
            Bend!Plus(Bend!Scaled(q, u), Bend!Scaled(0, ey)) = Bend!Scaled(q, u)
      <4> SUFFICES ASSUME NEW u \in Vectors
                   PROVE  Bend!Plus(Bend!Scaled(q, u), Bend!Scaled(0, ey)) = Bend!Scaled(q, u)
        OBVIOUS
      <4>1. /\ u[1] \in Int /\ u[2] \in Int /\ u[3] \in Int
            /\ ey[1] \in Int /\ ey[2] \in Int /\ ey[3] \in Int
        BY <2>2, VectorTypes
      <4> QED  BY <1>1, <4>1 DEF Bend!Plus, Bend!Scaled
    <3> QED  BY <2>2, <3>1
  <2>4. Bend!Vanishes(Bend!Scaled(q, Bend!Minus(w0, w1)), q)
    BY <1>1, <1>11, <2>2, VanishingScaled
  <2>5. Bend!SpeedsCoherent
    BY <1>7, <2>1, <2>3, <2>4 DEF Bend!SpeedsCoherent
  <2> QED  BY <1>10, <1>11, <2>5 DEF Bend!IsCoherent, Bend!PointsCoherent
<1>12. ASSUME Bend!Climbs, ~Bend!Vanishes(Bend!Plus(w0, w1), 1) PROVE ~Bend!IsCoherent
  <2>1. Bend!Turned # 0
    BY <1>2, <1>4, <1>8, <1>12
  <2>2. Bend!Distance # Bend!Expected
    <3>1. \A x, y \in Int : x # 0 /\ y # 0 => x * y # 0
      OBVIOUS
    <3>2. c * c * q # 0 /\ c * c * q \in Int /\ q * q * q \in Int
      BY <1>1, <1>8, <1>12, <3>1
    <3> QED  BY <1>9, <3>2
  <2> QED  BY <1>12, <2>1, <2>2 DEF Bend!IsCoherent, Bend!PointsCoherent
<1> QED  BY <1>10, <1>11, <1>12

(* The curve from any direction into any other, of any length and for any   *)
(* tolerance, passes is_valid and goes forward, but for going straight on   *)
(* while climbing, directions that are misjudged and those at the edge of   *)
(* being collinear; and a curve that passes keeps to the deviation, but for *)
(* reversals while climbing and misjudged ones (SmoothPath::default_curve,  *)
(* define_unit_vectors, is_coherent).                                       *)
THEOREM BendsAreSound ==
  ASSUME Bend!DirectionsAssumption
  PROVE  Bend!Spec => [](Bend!TypeOK /\ Bend!CurvesSound)
<1>1. Bend!Init => BendInv
  BY BendInitially
<1>2. BendInv /\ [Bend!Next]_(Bend!vars) => BendInv'
  <2> SUFFICES ASSUME BendInv, [Bend!Next]_(Bend!vars) PROVE BendInv'
    OBVIOUS
  <2>1. CASE Bend!Next
    BY <2>1, FrameLaid, SpeedScaled, CurveSet DEF Bend!Next
  <2>2. CASE UNCHANGED Bend!vars
    <3> USE DEF Bend!vars
    <3>1. /\ Bend!AreCollinear' <=> Bend!AreCollinear
          /\ Bend!IsSameDirection' <=> Bend!IsSameDirection
      BY <2>2 DEF Bend!AreCollinear, Bend!IsSameDirection
    <3>2. (Framed(1)' <=> Framed(1)) /\ (Framed(sense)' <=> Framed(sense))
      BY <2>2, <3>1 DEF Framed, GoOn
    <3>3. Bend!TypeOK' /\ (Bend!Square(w0) = Bend!Squared(Norm))'
          /\ (Bend!Square(w1) = Bend!Squared(Norm))'
      BY <2>2 DEF BendInv, Bend!TypeOK, Bend!Square, Bend!Dot
    <3>4. sense' = -1 => turn' \in {"set", "done"} /\ GoOn' /\ Bend!Climbs'
      BY <2>2, <3>1 DEF BendInv, GoOn, Bend!Climbs
    <3> QED  BY <2>2, <3>2, <3>3, <3>4 DEF BendInv
  <2> QED  BY <2>1, <2>2
<1>3. BendInv => Bend!TypeOK /\ Bend!CurvesSound
  <2> SUFFICES ASSUME BendInv, turn = "done", ~Bend!Misjudged
               PROVE  /\ ~Bend!AtTheEdge =>
                           \/ Bend!AreCollinear /\ Bend!IsSameDirection /\ Bend!Climbs
                           \/ Bend!IsCoherent /\ sense = 1
                      /\ Bend!IsCoherent =>
                           \/ Bend!AreCollinear /\ ~Bend!IsSameDirection /\ Bend!Climbs
                           \/ Bend!Distance <= Bend!Expected
    BY DEF BendInv, Bend!CurvesSound, Bend!CurveAccepted, Bend!DeviationKept
  <2> DEFINE q == Bend!Squared(Norm)
             p == Bend!Dot(w0, w1)
             t == Bend!Squared(Tolerance)
  <2>1. /\ Bend!Vanishes(Bend!Plus(w0, w1), 1) => p < 0
        /\ Bend!Vanishes(Bend!Minus(w0, w1), 1) => p > 0
    <3>1. /\ Bend!Vanishes(Bend!Plus(w0, w1), 1) <=> (2 * q + 2 * p) * t < q
          /\ Bend!Vanishes(Bend!Minus(w0, w1), 1) <=> (2 * q - 2 * p) * t < q
          /\ (2 * q + 2 * p) * t < q => p < 0
          /\ (2 * q - 2 * p) * t < q => p > 0
      BY Vanishing
    <3> HIDE DEF q, p, t
    <3> QED  BY <3>1
  <2>2. Bend!AreCollinear => (Bend!IsSameDirection <=> p > 0)
    <3> SUFFICES ASSUME Bend!AreCollinear
                 PROVE  Bend!IsSameDirection <=> p > 0
      OBVIOUS
    <3>1. /\ w0 \in Int \X Int \X Int /\ w1 \in Int \X Int \X Int
          /\ p > 0 => \E k \in 1..3 : w1[k] # 0
      BY DEF BendInv, Bend!TypeOK, Bend!Dot
    <3> DEFINE First(k) == w1[k] # 0 /\ \A m \in 1 .. k - 1 : w1[m] = 0
    <3>2. \A k \in 1..3 : First(k) => (w0[k] * w1[k] > 0 <=> p > 0)
      BY DEF Bend!Misjudged
    <3>3. Bend!IsSameDirection <=> \E k \in 1..3 : First(k) /\ w0[k] * w1[k] > 0
      BY DEF Bend!IsSameDirection
    <3>4. (\E k \in 1..3 : w1[k] # 0) => \E k \in 1..3 : First(k)
      OBVIOUS
    <3> HIDE DEF First, p
    <3> QED  BY <3>1, <3>2, <3>3, <3>4
  <2>3. p \in Int
    BY Angle
  <2>4. Bend!Expected \in Int
    <3>1. w0 \in Vectors /\ ex \in Vectors /\ ey \in Vectors /\ q \in Int
      BY DEF BendInv, Bend!TypeOK, Vectors, Bend!DirectionsAssumption, Bend!Squared
    <3>2. Bend!Square(ex) \in Int /\ Bend!Square(ey) \in Int
      BY <3>1, VectorTypes
    <3> HIDE DEF q
    <3> QED  BY <3>1, <3>2 DEF Bend!Expected, q
  <2> HIDE DEF p
  <2>5. CASE ~Bend!AreCollinear
    BY <2>4, <2>5, BendsApart
  <2>6. CASE Bend!AreCollinear /\ ~Bend!IsSameDirection
    BY <2>1, <2>2, <2>3, <2>4, <2>6, Reverses DEF Bend!AtTheEdge
  <2>7. CASE Bend!AreCollinear /\ Bend!IsSameDirection
    BY <2>1, <2>2, <2>3, <2>4, <2>7, GoesOn DEF Bend!AtTheEdge, GoOn
  <2> QED  BY <2>5, <2>6, <2>7
<1> QED  BY <1>1, <1>2, <1>3, PTL DEF Bend!Spec

-----------------------------------------------------------------------------
(* All of them.  A step of Parts is a step of the part that was chosen, and *)
(* leaves the others as they are: what is proved of each holds in Parts.    *)

LEMMA ChildSteps == [PartsNext]_all => [Next]_vars
BY DEF PartsNext, On, all

LEMMA FakeCNCSteps == [PartsNext]_all => [FakeCNC!Next]_(FakeCNC!vars)
BY DEF PartsNext, On, all, Rest, fakeCNCVars, FakeCNC!vars, FakeCNC!queueVars,
       FakeCNC!playVars, FakeCNC!askVars, FakeCNC!historyVars

LEMMA BatterySteps == [PartsNext]_all => [Battery!Next]_(Battery!vars)
BY DEF PartsNext, On, all, Rest, batteryVars, Battery!vars, Battery!mainVars,
       Battery!indicatorVars, Battery!chipVars, Battery!batteryVars

LEMMA StoreSteps == [PartsNext]_all => [Store!Next]_(Store!vars)
BY DEF PartsNext, On, all, Rest, storeVars, Store!vars, Store!diskVars,
       Store!threadVars, Store!historyVars

LEMMA ConfSteps == [PartsNext]_all => [Conf!Next]_(Conf!vars)
BY DEF PartsNext, On, all, Rest, confVars, Conf!vars, Conf!serviceVars, Conf!callVars,
       Conf!cameraVars, Conf!historyVars, Conf!bounds

LEMMA UsbSteps == [PartsNext]_all => [Usb!Next]_(Usb!vars)
BY DEF PartsNext, On, all, Rest, cameraVars, usbVars, Usb!vars, Usb!deviceVars,
       Usb!driverVars, Usb!captureVars

LEMMA FakeSteps == [PartsNext]_all => [Fake!Next]_(Fake!vars)
BY DEF PartsNext, On, all, Rest, cameraVars, fakeVars, Fake!vars, Fake!pictures,
       Fake!fileVars

LEMMA BendSteps == [PartsNext]_all => [Bend!Next]_(Bend!vars)
BY DEF PartsNext, On, all, Rest, bendVars, Bend!vars

(* Parts implements each of its parts.                                      *)
THEOREM PartsImplement ==
  PartsSpec => /\ Spec /\ FakeCNC!Spec /\ Battery!Spec /\ Store!Spec
               /\ Conf!Spec /\ Usb!Spec /\ Fake!Spec /\ Bend!Spec
<1>1. PartsInit => /\ Init /\ FakeCNC!Init /\ Battery!Init /\ Store!Init
                   /\ Conf!Init /\ Usb!Init /\ Fake!Init /\ Bend!Init
  BY DEF PartsInit
<1> QED
  BY <1>1, ChildSteps, FakeCNCSteps, BatterySteps, StoreSteps, ConfSteps, UsbSteps,
     FakeSteps, BendSteps, PTL
  DEF PartsSpec, Spec, FakeCNC!Spec, Battery!Spec, Store!Spec, Conf!Spec, Usb!Spec,
      Fake!Spec, Bend!Spec

(* PartsTypeOK: the types of all parts, each under its part's assumptions.  *)
THEOREM PartsTypes == PartsSpec => []PartsTypeOK
<1>1. Spec => []TypeOK
  <2>1. ChildInv => TypeOK
    BY DEF ChildInv
  <2> QED  BY <2>1, ChildInvariance, PTL
<1>2. FakeCNC!Spec => []FakeCNC!TypeOK
  <2>1. FakeCNC!Spec => [](FakeCNC!TypeOK /\ FakeCNC!EndsWhereAsked)
    BY FakeCNCArrives, FakeCNCAssumption DEF FakeCNCAssumption
  <2> QED  BY <2>1, PTL
<1>3. Battery!Spec => []Battery!TypeOK
  <2>1. Battery!Spec => [](Battery!TypeOK /\ Battery!BatterySafe)
    BY BatteryIsSafe, BatteryAssumption DEF BatteryAssumption
  <2> QED  BY <2>1, PTL
<1>4. Store!Spec => []Store!TypeOK
  <2>1. Store!Spec => []FolderInv
    BY FolderInvariance, StoreAssumption DEF StoreAssumption
  <2>2. FolderInv => Store!TypeOK
    BY DEF FolderInv
  <2> QED  BY <2>1, <2>2, PTL
<1>5. Conf!Spec => []Conf!TypeOK
  <2>1. Conf!Spec => [](Conf!TypeOK /\ Conf!ConfigKept)
    BY ConfKept, ConfAssumption DEF ConfAssumption
  <2> QED  BY <2>1, PTL
<1>6. Usb!Spec => []Usb!TypeOK
  <2>1. Usb!Spec => [](Usb!TypeOK /\ Usb!CameraSafe)
    BY UsbSafe, UsbAssumption DEF UsbAssumption
  <2> QED  BY <2>1, PTL
<1>7. Fake!Spec => []Fake!TypeOK
  <2>1. Fake!Spec => [](Fake!TypeOK /\ Fake!FilesSound /\ Fake!AbortExplained)
    BY FakeIsSound, FakeAssumption DEF FakeAssumption
  <2> QED  BY <2>1, PTL
<1>8. Bend!Spec => []Bend!TypeOK
  <2>1. Bend!Spec => [](Bend!TypeOK /\ Bend!CurvesSound)
    BY BendsAreSound, BendAssumption DEF BendAssumption
  <2> QED  BY <2>1, PTL
<1>9. /\ TypeOK /\ FakeCNC!TypeOK /\ Battery!TypeOK /\ Store!TypeOK
      /\ Conf!TypeOK /\ Usb!TypeOK /\ Fake!TypeOK /\ Bend!TypeOK
      => PartsTypeOK
  BY DEF PartsTypeOK
<1> QED
  BY <1>1, <1>2, <1>3, <1>4, <1>5, <1>6, <1>7, <1>8, <1>9, PartsImplement, PTL

(* StoresKept: what was stored in a folder, in the configuration and in the *)
(* files of the recordings is there.                                        *)
THEOREM StoresAreKept == PartsSpec => []StoresKept
<1>1. Store!Spec => []Store!FolderKept
  BY FolderStays, StoreAssumption DEF StoreAssumption
<1>2. Conf!Spec => [](Conf!TypeOK /\ Conf!ConfigKept)
  BY ConfKept, ConfAssumption DEF ConfAssumption
<1>3. Fake!Spec => [](Fake!TypeOK /\ Fake!FilesSound /\ Fake!AbortExplained)
  BY FakeIsSound, FakeAssumption DEF FakeAssumption
<1>4. Store!FolderKept /\ Conf!ConfigKept /\ Fake!FilesSound => StoresKept
  BY DEF StoresKept
<1> QED  BY <1>1, <1>2, <1>3, <1>4, PartsImplement, PTL

(* DevicesSafe: pins, threads, sums and buffers of the battery monitor and  *)
(* the cameras.                                                             *)
THEOREM DevicesAreSafe == PartsSpec => []DevicesSafe
<1>1. Battery!Spec => [](Battery!TypeOK /\ Battery!BatterySafe)
  BY BatteryIsSafe, BatteryAssumption DEF BatteryAssumption
<1>2. Usb!Spec => [](Usb!TypeOK /\ Usb!CameraSafe)
  BY UsbSafe, UsbAssumption DEF UsbAssumption
<1>3. Fake!Spec => [](Fake!TypeOK /\ Fake!FilesSound /\ Fake!AbortExplained)
  BY FakeIsSound, FakeAssumption DEF FakeAssumption
<1>4. Battery!BatterySafe /\ Usb!CameraSafe /\ Fake!AbortExplained => DevicesSafe
  BY DEF DevicesSafe
<1> QED  BY <1>1, <1>2, <1>3, <1>4, PartsImplement, PTL

(* EndsWhereAsked: when its queue is empty and nothing is played, the fake  *)
(* controller stands where its commands led it.                             *)
THEOREM FakeEndsWhereAsked == PartsSpec => []EndsWhereAsked
<1>1. FakeCNC!Spec => [](FakeCNC!TypeOK /\ FakeCNC!EndsWhereAsked)
  BY FakeCNCArrives, FakeCNCAssumption DEF FakeCNCAssumption
<1>2. FakeCNC!EndsWhereAsked => EndsWhereAsked
  BY DEF EndsWhereAsked
<1> QED  BY <1>1, <1>2, PartsImplement, PTL

(* CurvesSound: a curve that is accepted is near the corner it rounds.      *)
THEOREM CurvesAreSound == PartsSpec => []CurvesSound
<1>1. Bend!Spec => [](Bend!TypeOK /\ Bend!CurvesSound)
  BY BendsAreSound, BendAssumption DEF BendAssumption
<1>2. Bend!CurvesSound => CurvesSound
  BY DEF CurvesSound
<1> QED  BY <1>1, <1>2, PartsImplement, PTL

(* ChildAccounted and StraysExplained, where the run checks them.           *)
THEOREM ChildrenAccounted == PartsSpec => [](ChildAccounted /\ StraysExplained)
BY Accounted, StraysAreExplained, PartsImplement, PTL
================================================================================
