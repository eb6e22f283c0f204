------------------------------ MODULE FakeCamera ------------------------------
(***************************************************************************)
(* romi-camera: FakeCamera.  Its images show a number that counts up.  A   *)
(* recording is a thread that makes images and writes them in a file named *)
(* after the second it was started in.  Calls hold mutex_; the thread does *)
(* not, although it draws on the same image_ and encodes in the same       *)
(* jpeg_ as grab and grab_jpeg.                                            *)
(*                                                                         *)
(* A step is clearing, drawing, encoding or writing an image; what two     *)
(* threads do at once may come out torn, and may end the program when both *)
(* are at jpeg_, which grows.  Being powered up makes no difference: the   *)
(* exceptions for it are constructed, and not thrown.                      *)
(***************************************************************************)
EXTENDS Naturals, Sequences

CONSTANTS
  MaxShots,     \* bound: images
  MaxSeconds    \* bound: the clock

BoundsAssumption == MaxShots \in Nat /\ MaxSeconds \in Nat \ {0}

VARIABLES
  second,
  client,       \* free, draw, encode, copy, answer, join, leave, gone, aborted
  recording, id,
  joinable,     \* thread_ is not null
  recorder,     \* none, test, draw, encode, write, ended
  image, jpeg,  \* {the number that is to be seen}; {} when empty, torn or twice
  number,       \* count_
  open,         \* the file that is open: none or one
  files,        \* what is in each
  kept,         \* history: how much was in it when its recording was stopped
  starts,       \* history: recordings started in each second
  mixed         \* history: an image was grabbed while one was recorded

pictures == <<image, jpeg, number>>
fileVars == <<open, files, kept, starts>>
vars == <<second, client, recording, id, joinable, recorder, pictures, fileVars, mixed>>

Seconds == 1 .. MaxSeconds

Init ==
  /\ second = 1 /\ client = "free" /\ recording = FALSE /\ id = 0
  /\ joinable = FALSE /\ recorder = "none"
  /\ image = {} /\ jpeg = {} /\ number = 0
  /\ open = {} /\ files = [s \in Seconds |-> <<>>]
  /\ kept = [s \in Seconds |-> 0] /\ starts = [s \in Seconds |-> 0]
  /\ mixed = FALSE

Tick ==
  /\ second < MaxSeconds
  /\ second' = second + 1
  /\ UNCHANGED <<client, recording, id, joinable, recorder, pictures, fileVars, mixed>>

-----------------------------------------------------------------------------
(* make_image and make_jpeg, while the other thread is at that stage too,  *)
(* or not.                                                                 *)

Clear == image' = {} /\ UNCHANGED <<jpeg, number>>

Draw(other) ==
  /\ image' \in {{number}} \cup (IF other = "draw" THEN {{}} ELSE {})
  /\ number' = number + 1
  /\ UNCHANGED jpeg

Encode(other) ==
  /\ jpeg' \in {image} \cup (IF other \in {"encode", "write", "answer"} THEN {{}} ELSE {})
  /\ UNCHANGED <<image, number>>

-----------------------------------------------------------------------------
(* record *)

Go(stage) ==
  recorder' = stage /\ UNCHANGED <<second, recording, id, joinable, kept, starts, mixed>>

RecorderLeaves ==
  /\ recorder = "test" /\ ~recording
  /\ Go("ended")
  /\ open' = {}
  /\ UNCHANGED <<client, pictures, files>>

RecorderClears ==
  /\ recorder = "test" /\ recording /\ number < MaxShots
  /\ Go("draw")
  /\ Clear
  /\ UNCHANGED <<client, open, files>>

RecorderDraws ==
  /\ recorder = "draw"
  /\ Go("encode")
  /\ Draw(client)
  /\ UNCHANGED <<client, open, files>>

RecorderEncodes ==
  /\ recorder = "encode"
  /\ Go("write")
  /\ Encode(client)
  /\ client' \in {client} \cup (IF client \in {"encode", "answer"} THEN {"aborted"} ELSE {})
  /\ UNCHANGED <<open, files>>

RecorderWrites ==
  /\ recorder = "write"
  /\ Go("test")
  /\ files' = [f \in Seconds |-> IF f \in open THEN Append(files[f], jpeg) ELSE files[f]]
  /\ UNCHANGED <<client, open, pictures>>

Recorder ==
  /\ client # "aborted"
  /\ RecorderLeaves \/ RecorderClears \/ RecorderDraws \/ RecorderEncodes
       \/ RecorderWrites

-----------------------------------------------------------------------------
(* grab, grab_jpeg *)

Come(stage) ==
  client' = stage /\ UNCHANGED <<second, recording, id, joinable, recorder, fileVars>>

Grab ==
  /\ client = "free" /\ number < MaxShots
  /\ Come("draw")
  /\ Clear
  /\ mixed' = (mixed \/ joinable)

GrabDraws ==
  /\ client = "draw"
  /\ Come("encode") \/ Come("copy")
  /\ Draw(recorder)
  /\ UNCHANGED mixed

GrabEncodes ==
  /\ client = "encode"
  /\ Come("answer") \/ (recorder \in {"encode", "write"} /\ Come("aborted"))
  /\ Encode(recorder)
  /\ UNCHANGED mixed

GrabReturns ==
  /\ client \in {"copy", "answer"}
  /\ Come("free")
  /\ UNCHANGED <<pictures, mixed>>

-----------------------------------------------------------------------------
\* Mutant: the recording that is under way is not looked at.
StartRecordingAgain ==
  /\ client = "free"
  /\ IF joinable
     THEN client' = "aborted" /\ UNCHANGED <<id, open, files, recording, joinable, recorder>>
     ELSE /\ id' = second
          /\ open' = {second} /\ files' = [files EXCEPT ![second] = <<>>]
          /\ recording' = TRUE /\ joinable' = TRUE /\ recorder' = "test"
          /\ UNCHANGED client
  /\ starts' = [starts EXCEPT ![second] = @ + 1]
  /\ UNCHANGED <<second, pictures, kept, mixed>>

\* Mutant: the id of the first recording is kept.
StartRecordingKeepsId ==
  /\ client = "free"
  /\ ~recording
  /\ id' = IF id = 0 THEN second ELSE id
  /\ open' = {id'} /\ files' = [files EXCEPT ![id'] = <<>>]
  /\ recording' = TRUE /\ joinable' = TRUE /\ recorder' = "test"
  /\ starts' = [starts EXCEPT ![second] = @ + 1]
  /\ UNCHANGED <<second, client, pictures, kept, mixed>>

(* It throws when it is recording already; a file of the same second is    *)
(* overwritten.                                                            *)
StartRecording ==
  /\ client = "free"
  /\ ~recording
  /\ starts[second] < 2       \* bound
  /\ id' = second
  /\ open' = {second} /\ files' = [files EXCEPT ![second] = <<>>]
  /\ recording' = TRUE /\ joinable' = TRUE /\ recorder' = "test"
  /\ starts' = [starts EXCEPT ![second] = @ + 1]
  /\ UNCHANGED <<second, client, pictures, kept, mixed>>

\* Mutant: the thread is left to itself.
StopRecordingDetached ==
  /\ client = "free"
  /\ recording
  /\ recording' = FALSE /\ joinable' = FALSE
  /\ UNCHANGED <<second, client, id, recorder, pictures, fileVars, mixed>>

\* Mutant: recording_ stays set.
StopRecordingUntold ==
  /\ client = "free" /\ joinable
  /\ client' = "join"
  /\ UNCHANGED <<second, recording, id, joinable, recorder, pictures, fileVars, mixed>>

(* Any other id makes it throw; when it is not recording it goes on all    *)
(* the same, and joins a null thread.                                      *)
StopRecording ==
  /\ client = "free"
  /\ recording' = FALSE
  /\ client' = IF joinable THEN "join" ELSE "aborted"
  /\ UNCHANGED <<second, id, joinable, recorder, pictures, fileVars, mixed>>

Joined ==
  /\ client \in {"join", "leave"} /\ recorder = "ended"
  /\ client' = IF client = "join" THEN "free" ELSE "gone"
  /\ joinable' = FALSE /\ recorder' = "none"
  /\ kept' = [kept EXCEPT ![id] = Len(files[id])]
  /\ UNCHANGED <<second, recording, id, pictures, open, files, starts, mixed>>

(* ~FakeCamera *)
Destroy ==
  /\ client = "free"
  /\ recording' = FALSE
  /\ client' = IF recording THEN "leave" ELSE "gone"
  /\ UNCHANGED <<second, id, joinable, recorder, pictures, fileVars, mixed>>

Answers == GrabDraws \/ GrabEncodes \/ GrabReturns \/ Joined

Next ==
  \/ Tick \/ Recorder \/ Grab \/ Answers \/ StartRecording \/ StopRecording \/ Destroy

Spec == Init /\ [][Next]_vars

(* The thread and the call that holds the mutex are scheduled.             *)
FairSpec == Spec /\ WF_vars(Recorder) /\ WF_vars(Answers)

-----------------------------------------------------------------------------
Numbers == 0 .. (MaxShots + 2)
Images == {{}} \cup {{n} : n \in Numbers}

TypeOK ==
  /\ second \in Seconds /\ id \in Seconds \cup {0}
  /\ client \in {"free", "draw", "encode", "copy", "answer", "join", "leave", "gone",
                 "aborted"}
  /\ recording \in BOOLEAN /\ joinable \in BOOLEAN /\ mixed \in BOOLEAN
  /\ recorder \in {"none", "test", "draw", "encode", "write", "ended"}
  /\ image \in Images /\ jpeg \in Images /\ number \in Numbers
  /\ open \subseteq Seconds
  /\ files \in [Seconds -> Seq(Images)]
  /\ kept \in [Seconds -> Nat] /\ starts \in [Seconds -> Nat]

(* A file holds what was recorded, each image once and in order, as long   *)
(* as nothing was grabbed in between (make_image takes no mutex).          *)
ShotsInOrder ==
  ~mixed => \A f \in Seconds : \A k \in DOMAIN files[f] : \E n \in Numbers :
              files[f][k] = {n} /\ (k > 1 => files[f][k - 1] = {n - 1})

(* What was recorded when it was stopped stays, unless another recording   *)
(* was started in the same second (new_recording_id).                      *)
FilesKept == \A f \in Seconds : Len(files[f]) >= kept[f] \/ starts[f] > 1

(* Between recordings the file is closed, and no thread is left            *)
(* (stop_recording joins it, and it closes the file).                      *)
RecorderGone ==
  client \in {"free", "gone"} /\ ~recording => open = {} /\ recorder = "none"

(* The program is ended only by a stop_recording when there is nothing to  *)
(* stop, and by a grab_jpeg during a recording; never by starting or       *)
(* destroying.                                                             *)
AbortExplained == client = "aborted" => mixed \/ ~joinable

FilesSound == ShotsInOrder /\ FilesKept /\ RecorderGone

(* stop_recording and the destructor end: nobody waits for the recorder    *)
(* forever.                                                                *)
StopEnds == []<>(client \notin {"join", "leave"})
=============================================================================
