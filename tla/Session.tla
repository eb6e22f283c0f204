-------------------------------- MODULE Session --------------------------------
(***************************************************************************)
(* romi::Session and its MetaFolder: a directory of files and of an index, *)
(* metadata.json, that lists them.  A store writes the file, notes it in   *)
(* memory and writes the whole index anew, under a recursive mutex;        *)
(* store_metadata does the last two without it.  A file that is opened for *)
(* writing is empty until it is written; the disk may refuse to open a     *)
(* file (an exception) or take less than it is given (nobody looks), and   *)
(* the program may be killed at any time.                                  *)
(*                                                                         *)
(* Only the current session's directory is looked at.  The concurrent use  *)
(* of the JSON object itself, by a store and a store_metadata, is taken to *)
(* be atomic.                                                              *)
(***************************************************************************)
EXTENDS Integers

CONSTANTS
  Threads,
  Files,      \* names after replace_extension: two names may be one file
  Extra,      \* the name of an entry that store_metadata adds
  MaxFaults   \* bound: refusals, short writes and kills

ExtraAssumption == Extra \notin Files /\ "start" \notin Files \cup {Extra}
FaultsAssumption == MaxFaults \in Nat

VARIABLES
  metadata,  \* metadata_: the entries in memory
  index,     \* metadata.json: its entries, if it can be read
  disk,      \* the files of the directory
  pc, entry, text,   \* each thread: its step, its entry, what it will write
  mutex,     \* the threads that hold metadata_file_mutex_
  faults,
  promised,  \* history: entries whose store has returned
  again,     \* history: files stored anew while they were listed
  raced,     \* history: store_metadata ran while another was storing
  spoiled    \* history: the last save of the index was cut short, or killed

diskVars == <<index, disk>>
threadVars == <<pc, entry, text, mutex>>
historyVars == <<promised, again, raced, spoiled>>
vars == <<metadata, diskVars, threadVars, faults, historyVars>>

Entries == Files \cup {Extra}
Readable(E) == [state |-> "readable", entries |-> E]
Unreadable(s) == [state |-> s, entries |-> {}]

TypeOK ==
  /\ metadata \subseteq Entries
  /\ index \in {Readable(E) : E \in SUBSET Entries}
                 \cup {Unreadable(s) : s \in {"absent", "empty", "mixed"}}
  /\ disk \in [Files -> {"absent", "empty", "short", "whole"}]
  /\ pc \in [Threads -> {"idle", "open", "write", "note", "truncate", "save", "down"}]
  /\ entry \in [Threads -> Entries \cup {"start"}]
  /\ text \in [Threads -> SUBSET Entries]
  /\ mutex \in {{}} \cup {{t} : t \in Threads}
  /\ faults \in 0 .. MaxFaults
  /\ promised \subseteq Entries /\ again \subseteq Files
  /\ {raced, spoiled} \subseteq BOOLEAN

Init ==
  /\ metadata = {} /\ index = Unreadable("absent")
  /\ disk = [f \in Files |-> "absent"]
  /\ pc = [t \in Threads |-> "down"]
  /\ entry = [t \in Threads |-> "start"] /\ text = [t \in Threads |-> {}]
  /\ mutex = {} /\ faults = 0
  /\ promised = {} /\ again = {} /\ raced = FALSE /\ spoiled = FALSE

Busy == {t \in Threads : pc[t] \notin {"idle", "down"}}
Saving == {t \in Threads : pc[t] \in {"truncate", "save"}}
Goto(t, step) == pc' = [pc EXCEPT ![t] = step]
Fault == faults < MaxFaults /\ faults' = faults + 1

-----------------------------------------------------------------------------
(* start(): a directory named by the second, the same one if the program   *)
(* was fast.  Its index is written before any thread stores.               *)
Start(t, same) ==
  /\ \A u \in Threads : pc[u] = "down"
  /\ pc' = [u \in Threads |-> IF u = t THEN "truncate" ELSE "down"]
  /\ entry' = [entry EXCEPT ![t] = "start"]
  /\ text' = [u \in Threads |-> {}]
  /\ metadata' = {}
  /\ IF same THEN UNCHANGED diskVars
             ELSE /\ index' = Unreadable("absent")
                  /\ disk' = [f \in Files |-> "absent"]
  /\ promised' = {}
  /\ again' = IF same THEN again ELSE {}
  /\ raced' = (same /\ raced) /\ spoiled' = (same /\ spoiled)
  /\ UNCHANGED <<mutex, faults>>

(* try_store_jpg, _png, _svg, _txt, _path *)
Store(t, f) ==
  /\ pc[t] = "idle"
  /\ mutex = {}
  /\ mutex' = {t}
  /\ entry' = [entry EXCEPT ![t] = f]
  /\ again' = IF f \in metadata THEN again \cup {f} ELSE again
  /\ raced' = (raced \/ \E u \in Busy : entry[u] = Extra)
  /\ Goto(t, "open")
  /\ UNCHANGED <<metadata, diskVars, text, faults, promised, spoiled>>

StoreMetadata(t) ==
  /\ pc[t] = "idle"
  /\ entry' = [entry EXCEPT ![t] = Extra]
  /\ raced' = (raced \/ Busy # {})
  /\ Goto(t, "note")
  /\ UNCHANGED <<metadata, diskVars, text, mutex, faults, promised, again, spoiled>>

\* Mutant: an index that cannot be opened has been emptied all the same.
ThrowEmptied(t) ==
  /\ pc[t] \in {"open", "truncate"}
  /\ Fault
  /\ Goto(t, IF entry[t] = "start" THEN "down" ELSE "idle")
  /\ mutex' = mutex \ {t}
  /\ index' = IF pc[t] = "truncate" THEN Unreadable("empty") ELSE index
  /\ UNCHANGED <<metadata, disk, entry, text, historyVars>>

(* A file cannot be opened, or a stream fails before its end.  The         *)
(* exception goes through the store to its caller; a session that does not *)
(* start ends the program.                                                 *)
Throw(t) ==
  /\ pc[t] \in {"open", "write", "truncate", "save"}
  /\ Fault
  /\ Goto(t, IF entry[t] = "start" THEN "down" ELSE "idle")
  /\ mutex' = mutex \ {t}
  /\ disk' = IF pc[t] = "write" THEN [disk EXCEPT ![entry[t]] = "short"] ELSE disk
  /\ index' = IF pc[t] = "save" THEN Unreadable("empty") ELSE index
  /\ spoiled' = (spoiled \/ pc[t] = "save")
  /\ UNCHANGED <<metadata, entry, text, promised, again, raced>>

\* Mutant: a file that cannot be opened is noted all the same.
OpenFileOrNot(t) ==
  /\ pc[t] = "open"
  /\ \/ /\ disk' = [disk EXCEPT ![entry[t]] = "empty"] /\ Goto(t, "write")
        /\ UNCHANGED faults
     \/ Fault /\ Goto(t, "note") /\ UNCHANGED disk
  /\ UNCHANGED <<metadata, index, entry, text, mutex, historyVars>>

OpenFile(t) ==
  /\ pc[t] = "open"
  /\ disk' = [disk EXCEPT ![entry[t]] = "empty"]
  /\ Goto(t, "write")
  /\ UNCHANGED <<metadata, index, entry, text, mutex, faults, historyVars>>

(* Written by the stream's destructor, which does not throw. *)
WriteFile(t) ==
  /\ pc[t] = "write"
  /\ \/ disk' = [disk EXCEPT ![entry[t]] = "whole"] /\ UNCHANGED faults
     \/ Fault /\ disk' = [disk EXCEPT ![entry[t]] = "short"]
  /\ Goto(t, "note")
  /\ UNCHANGED <<metadata, index, entry, text, mutex, historyVars>>

\* Mutant: the text of the index is made before the entry is added.
NoteLate(t) ==
  /\ pc[t] = "note"
  /\ metadata' = metadata \cup {entry[t]}
  /\ text' = [text EXCEPT ![t] = metadata]
  /\ Goto(t, "truncate")
  /\ UNCHANGED <<diskVars, entry, mutex, faults, historyVars>>

(* add_file_metadata, save_metadata: dump() *)
Note(t) ==
  /\ pc[t] = "note"
  /\ metadata' = metadata \cup {entry[t]}
  /\ text' = [text EXCEPT ![t] = metadata']
  /\ Goto(t, "truncate")
  /\ UNCHANGED <<diskVars, entry, mutex, faults, historyVars>>

Truncate(t) ==
  /\ pc[t] = "truncate"
  /\ index' = Unreadable("empty")
  /\ Goto(t, "save")
  /\ UNCHANGED <<metadata, disk, entry, text, mutex, faults, historyVars>>

(* The index is written over what came into it since it was emptied; after *)
(* a start the other threads come up.                                      *)
Save(t) ==
  /\ pc[t] = "save"
  /\ \/ /\ index' = IF index \in {Unreadable("empty"), Readable(text[t])}
                    THEN Readable(text[t]) ELSE Unreadable("mixed")
        /\ spoiled' = FALSE
        /\ UNCHANGED faults
     \/ Fault /\ index' = Unreadable("empty") /\ spoiled' = TRUE
  /\ pc' = [u \in Threads |-> IF u = t \/ entry[t] = "start" THEN "idle" ELSE pc[u]]
  /\ promised' = promised \cup ({entry[t]} \ {"start"})
  /\ mutex' = mutex \ {t}
  /\ UNCHANGED <<metadata, disk, entry, text, again, raced>>

(* The program is killed, or ends. *)
Kill ==
  /\ \E t \in Threads : pc[t] # "down"
  /\ Fault
  /\ pc' = [t \in Threads |-> "down"]
  /\ mutex' = {}
  /\ spoiled' = (spoiled \/ \E t \in Saving : pc[t] = "save")
  /\ UNCHANGED <<metadata, diskVars, entry, text, promised, again, raced>>

Next ==
  \/ \E t \in Threads :
       \/ \E same \in BOOLEAN : Start(t, same)
       \/ \E f \in Files : Store(t, f)
       \/ StoreMetadata(t) \/ Throw(t) \/ OpenFile(t) \/ WriteFile(t)
       \/ Note(t) \/ Truncate(t) \/ Save(t)
  \/ Kill

Spec == Init /\ [][Next]_vars

-----------------------------------------------------------------------------
(* Properties *)

(* Whatever is refused and whenever the program is killed, the index lists *)
(* no file that was not written to its end by a store of this session;     *)
(* except one that was being stored anew, or that the disk took in part    *)
(* without a word.                                                         *)
ListedFilesAreWhole ==
  \A f \in index.entries \cap Files : disk[f] \in {"whole", "short"} \/ f \in again

(* What a store has returned for stays in the index as long as it can be   *)
(* read, over every later store that fails or is killed; unless a          *)
(* store_metadata ran at the same time as another: it takes no mutex, and  *)
(* may write an index it has made before the other's.                      *)
PromiseKept ==
  index.state = "readable" /\ ~raced => promised \subseteq index.entries

(* The index cannot be read only while it is being saved, or when the save *)
(* was killed or cut short, or when a store_metadata ran with another.     *)
UnreadableExplained ==
  index.state \in {"empty", "mixed"} =>
    raced \/ spoiled \/ \E t \in Threads : pc[t] = "save"

(* What a reader of the folder relies on, in all of its states. *)
FolderKept == ListedFilesAreWhole /\ PromiseKept /\ UnreadableExplained
=============================================================================
