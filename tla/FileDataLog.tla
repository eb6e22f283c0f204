----------------------------- MODULE FileDataLog -----------------------------
(***************************************************************************)
(* romi-datalog: romi::FileDataLog and the romi::DataStore it keeps its    *)
(* entries in.  Any thread stores entries; a background thread takes the   *)
(* whole queue about once a second, turns the indices of the entries back  *)
(* into names and writes one line per entry; the destructor asks it to     *)
(* stop and waits for its last pass.  The process may be killed at any     *)
(* moment, and started again on the same file, which it appends to.        *)
(*                                                                         *)
(* DataStore::store, copy and get_name each run under the store's only     *)
(* mutex and are one step here.  An entry's time and value are one value.  *)
(***************************************************************************)
EXTENDS Naturals, Sequences, FiniteSets

CONSTANTS
  Names,        \* the topics and the names of the entries share one index
  Values,
  MaxStores,    \* bound: entries the file and the queue ever hold together
  MaxStarts     \* bound: how often the program is started

ASSUME NamesAssumption == IsFiniteSet(Names)
ASSUME BoundsAssumption == MaxStores \in Nat /\ MaxStarts \in Nat

VARIABLES
  nameToIndex,  \* DataStore::name_to_index_
  indexToName,  \* DataStore::index_to_name_
  entries,      \* DataStore::entries_: what no pass has taken yet
  batch,        \* the writer's own vector: what it still has to write
  file,         \* the lines given to fprintf since the file exists
  flushed,      \* how many of them fflush or fclose has put on disk
  writer,       \* where the background thread is
  last,         \* the background thread has left its loop: the last pass
  quitting,     \* FileDataLog::quitting_
  phase,        \* "down", "open" or "closing" (inside the destructor)
  starts

vars == <<nameToIndex, indexToName, entries, batch, file, flushed,
          writer, last, quitting, phase, starts>>

diskVars == <<file, flushed>>
storeVars == <<nameToIndex, indexToName, entries>>

Index == 0..(2 * MaxStores)
QueuedEntry == [topic : Nat, name : Nat, value : Values]
Line == [topic : Names, name : Names, value : Values]

NoMap == [x \in {} |-> x]

Init ==
  /\ nameToIndex = NoMap /\ indexToName = NoMap
  /\ entries = <<>> /\ batch = <<>>
  /\ file = <<>> /\ flushed = 0
  /\ writer = "ended" /\ last = FALSE /\ quitting = FALSE
  /\ phase = "down" /\ starts = 0

-----------------------------------------------------------------------------
(* The name table.  get_index_locked gives a new name the table's size.    *)
Known(toIndex, n) == n \in DOMAIN toIndex

WithName(toIndex, n) ==
  IF Known(toIndex, n) THEN toIndex
  ELSE [m \in DOMAIN toIndex \cup {n} |->
          IF m = n THEN Cardinality(DOMAIN toIndex) ELSE toIndex[m]]

\* Mutant: index_to_name_ is not filled.
WithIndexForgotten(toIndex, toName, n) == toName

WithIndex(toIndex, toName, n) ==
  IF Known(toIndex, n) THEN toName
  ELSE [i \in DOMAIN toName \cup {Cardinality(DOMAIN toIndex)} |->
          IF i = Cardinality(DOMAIN toIndex) THEN n ELSE toName[i]]

(* get_name, for both indices of an entry: the line that is written. *)
LineOf(toName, e) ==
  [topic |-> toName[e.topic], name |-> toName[e.name], value |-> e.value]

LinesOf(toName, es) == [i \in 1..Len(es) |-> LineOf(toName, es[i])]

-----------------------------------------------------------------------------
(* The constructor: opens the file to append to it, starts the thread. *)
Start ==
  /\ phase = "down"
  /\ starts < MaxStarts
  /\ nameToIndex' = NoMap /\ indexToName' = NoMap
  /\ entries' = <<>> /\ batch' = <<>>
  /\ writer' = "test" /\ last' = FALSE /\ quitting' = FALSE
  /\ phase' = "open"
  /\ starts' = starts + 1
  /\ UNCHANGED diskVars

(* DataStore::store, called through MultiDataLog by the request handler.   *)
Store(t, n, v) ==
  /\ phase = "open"
  /\ Len(file) + Len(batch) + Len(entries) < MaxStores
  /\ LET toIndex1 == WithName(nameToIndex, t)
         toName1  == WithIndex(nameToIndex, indexToName, t)
         toIndex2 == WithName(toIndex1, n)
         toName2  == WithIndex(toIndex1, toName1, n)
     IN  /\ nameToIndex' = toIndex2
         /\ indexToName' = toName2
         /\ entries' = Append(entries, [topic |-> toIndex1[t],
                                        name |-> toIndex2[n], value |-> v])
  /\ UNCHANGED <<batch, file, flushed, writer, last, quitting, phase, starts>>

AfterPass == IF last THEN "ended" ELSE "test"

(* The loop's test of quitting_. *)
TestQuitting ==
  /\ writer = "test"
  /\ last' = quitting
  /\ writer' = "copy"
  /\ UNCHANGED <<nameToIndex, indexToName, entries, batch, file, flushed,
                 quitting, phase, starts>>

(* DataStore::copy: takes the queue and empties it. *)
CopyEntries ==
  /\ writer = "copy"
  /\ batch' = entries
  /\ entries' = <<>>
  /\ writer' = IF entries = <<>> THEN AfterPass ELSE "write"
  /\ UNCHANGED <<nameToIndex, indexToName, file, flushed, last, quitting,
                 phase, starts>>

WriteEntry ==
  /\ writer = "write"
  /\ batch # <<>>
  /\ file' = Append(file, LineOf(indexToName, Head(batch)))
  /\ batch' = Tail(batch)
  /\ UNCHANGED <<nameToIndex, indexToName, entries, flushed, writer, last,
                 quitting, phase, starts>>

\* Mutant: The queue is emptied after the batch has been written.
FlushEmptiesEntries ==
  /\ writer = "write"
  /\ batch = <<>>
  /\ flushed' = Len(file)
  /\ entries' = <<>>
  /\ writer' = AfterPass
  /\ UNCHANGED <<nameToIndex, indexToName, batch, file, last,
                 quitting, phase, starts>>

\* Mutant: The batch is written but not flushed.
FlushNotDurable ==
  /\ writer = "write"
  /\ batch = <<>>
  /\ writer' = AfterPass
  /\ UNCHANGED <<nameToIndex, indexToName, entries, batch, file, flushed, last,
                 quitting, phase, starts>>

(* fflush; the one-second sleep that follows only delays the next test. *)
Flush ==
  /\ writer = "write"
  /\ batch = <<>>
  /\ flushed' = Len(file)
  /\ writer' = AfterPass
  /\ UNCHANGED <<nameToIndex, indexToName, entries, batch, file, last,
                 quitting, phase, starts>>

\* Mutant: The destructor forgets to set quitting_.
DestroyKeepsRunning ==
  /\ phase = "open"
  /\ phase' = "closing"
  /\ UNCHANGED <<nameToIndex, indexToName, entries, batch, file, flushed,
                 writer, last, quitting, starts>>

(* The destructor; nothing is stored in an object that is being destroyed. *)
Destroy ==
  /\ phase = "open"
  /\ phase' = "closing"
  /\ quitting' = TRUE
  /\ UNCHANGED <<nameToIndex, indexToName, entries, batch, file, flushed,
                 writer, last, starts>>

(* join returns; fclose writes what is left; the store's memory is freed. *)
Closed ==
  /\ phase = "closing"
  /\ writer = "ended"
  /\ flushed' = Len(file)
  /\ phase' = "down"
  /\ entries' = <<>>
  /\ UNCHANGED <<nameToIndex, indexToName, batch, file, writer, last,
                 quitting, starts>>

(* The process dies.  stdio may have written some of what was not flushed. *)
Kill ==
  /\ phase # "down"
  /\ \E n \in flushed..Len(file) :
       /\ file' = SubSeq(file, 1, n)
       /\ flushed' = n
  /\ phase' = "down"
  /\ writer' = "ended"
  /\ entries' = <<>> /\ batch' = <<>>
  /\ UNCHANGED <<nameToIndex, indexToName, last, quitting, starts>>

Writer == TestQuitting \/ CopyEntries \/ WriteEntry \/ Flush

Next ==
  \/ Start \/ Writer \/ Destroy \/ Closed \/ Kill
  \/ \E t, n \in Names, v \in Values : Store(t, n, v)

Spec == Init /\ [][Next]_vars

(* The thread is scheduled, and the main thread that joins it. *)
FairSpec == Spec /\ WF_vars(Writer) /\ WF_vars(Closed)

-----------------------------------------------------------------------------
TypeOK ==
  /\ DOMAIN nameToIndex \subseteq Names
  /\ nameToIndex \in [DOMAIN nameToIndex -> Nat]
  /\ DOMAIN indexToName \subseteq Nat
  /\ indexToName \in [DOMAIN indexToName -> Names]
  /\ entries \in Seq(QueuedEntry)
  /\ batch \in Seq(QueuedEntry)
  /\ file \in Seq(Line)
  /\ flushed \in Nat
  /\ writer \in {"test", "copy", "write", "ended"}
  /\ last \in BOOLEAN
  /\ quitting \in BOOLEAN
  /\ phase \in {"down", "open", "closing"}
  /\ starts \in Nat

(* The two maps stay inverse to each other: no two names ever share an     *)
(* index, though the index of a new name is the size of the other map.     *)
TablesAgree ==
  /\ DOMAIN indexToName = 0..(Cardinality(DOMAIN nameToIndex) - 1)
  /\ \A n \in DOMAIN nameToIndex :
       /\ nameToIndex[n] \in DOMAIN indexToName
       /\ indexToName[nameToIndex[n]] = n

(* Every index in the queue or in the writer's hands is in the table, so   *)
(* get_name never throws and no batch is abandoned half written.           *)
IndicesKnown ==
  \A es \in {entries, batch} : \A i \in 1..Len(es) :
    /\ es[i].topic \in DOMAIN indexToName
    /\ es[i].name \in DOMAIN indexToName

(* What is not on disk is in the writer's hands, and nothing is left behind *)
(* when the writer has made its last pass.                                  *)
WriterState ==
  /\ flushed <= Len(file)
  /\ writer # "write" => batch = <<>> /\ flushed = Len(file)
  /\ writer = "ended" => phase # "open"
  /\ phase = "open" => ~quitting /\ ~last
  /\ phase = "closing" => quitting
  /\ last => quitting
  /\ phase # "down" /\ writer = "ended" => last
  /\ last /\ writer \in {"write", "ended"} => entries = <<>>
  /\ phase = "down" => entries = <<>> /\ batch = <<>> /\ writer = "ended"

IInv == TypeOK /\ TablesAgree /\ IndicesKnown /\ WriterState

(* The file log is the log of EntryLog: in order, once, and saved at close. *)
Log == INSTANCE EntryLog WITH
         Entry <- Line,
         accepted <- file \o LinesOf(indexToName, batch)
                          \o LinesOf(indexToName, entries),
         saved <- flushed,
         open <- phase # "down"

LogSpec == Log!Spec

(* Whatever number of entries has been accepted, as many reach the disk    *)
(* unless the process ends: storing while the writer works strands none.   *)
Accepted == Len(file) + Len(batch) + Len(entries)

EntriesAreSaved ==
  \A k \in 1..MaxStores :
    (phase # "down" /\ Accepted >= k) ~> (flushed >= k \/ phase = "down")

(* The destructor ends. *)
DestructorEnds == phase = "closing" ~> phase = "down"

=============================================================================
