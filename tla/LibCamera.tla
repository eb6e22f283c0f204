------------------------------ MODULE LibCamera ------------------------------
(***************************************************************************)
(* romi-camera: romi::LibCamera.  Clients power the camera, grab images    *)
(* and start and stop recordings, one call at a time (api_mutex_).         *)
(* libcamera's callback delivers frames.  While recording_ is set a frame  *)
(* is copied into memory of the FrameAllocator and queued; the frame       *)
(* thread compresses it and appends it to one of two file buffers; a full  *)
(* buffer is queued; the buffer thread writes it to the open file, and     *)
(* closes the file when it sees that recording_ is off.                    *)
(*                                                                         *)
(* Images have one size; a file buffer takes BufferSize of them.  Flags    *)
(* shared without a lock are read and written whole.  The image buffer     *)
(* lives from power_up to power_down, and is written by the callback and   *)
(* the frame thread without a common lock.  Using it when it is gone, or a *)
(* frame of a pool that has been made anew, or releasing a camera that     *)
(* failed to start, may end the program ("crashed").                       *)
(***************************************************************************)
EXTENDS Integers, Sequences, FiniteSets, SequencesExt

CONSTANTS
  Clients,        \* the threads that call the ICamera interface
  Calls,          \* what they call: a subset of CallNames
  Memory,         \* the frames FrameAllocator hands out (four in the code)
  BufferSize,     \* images a file buffer holds (32 MB in the code)
  MaxShots,       \* bound: frames delivered while recording
  MaxRecordings,  \* bound: recordings started
  MaxPowerUps     \* bound: times the camera is started

CallNames == {"power_up", "power_down", "grab", "start", "stop"}

ASSUME CallsAssumption == Calls \subseteq CallNames
ASSUME SizeAssumption == BufferSize \in Nat \ {0} /\ IsFiniteSet(Memory)
ASSUME BoundsAssumption == {MaxShots, MaxRecordings} \subseteq Nat

VARIABLES
  running, recording,      \* running_, recording_
  started,                 \* init_camera came to its end
  buffered,                \* buffer_ is not null
  api,                     \* who holds api_mutex_: a set of at most one
  pc,                      \* what each client is doing
  phase,                   \* the destructor's progress
  requested, completed,    \* image_requested_, request_completed_
  raw,                     \* what buffer_ holds: a shot, or a Still
  torn,                    \* what befell the image being compressed
  jpeg,                    \* jpeg_
  callback,                \* the frame the callback copies: none or one
  shots, powerUps,
  free,                    \* FrameAllocator::free_, as a set
  stale,                   \* the memory was given back while in use
  queue,                   \* queue_
  frame, framePc,          \* the frame thread
  current, offset, memory, \* file_buffer_current_, _offset_, file_buffer_
  overrun,                 \* a buffer was reused before it was written
  buffers,                 \* buffer_queue_
  item, storePc,           \* the buffer thread
  id, file,                \* the last RecordingID; file_, 0 if null
  files,                   \* what each file holds
  history, drained,        \* images appended; images taken to be written
  since,                   \* images appended before the last start
  clobbered,               \* the frame thread lost what it had in buffer_
  cut                      \* power_up failed, or power_down came too early

apiVars ==
  <<running, started, buffered, recording, api, pc, phase, powerUps, cut>>
imageVars == <<requested, completed, raw, torn, jpeg, clobbered>>
poolVars == <<free, stale, queue, callback, shots>>
frameVars == <<frame, framePc, current, offset, memory, overrun, history>>
storeVars == <<item, storePc, drained>>
fileVars == <<id, file, files, since>>
vars == <<apiVars, imageVars, poolVars, frameVars, buffers, storeVars, fileVars>>

Still == 0         \* the content of a buffer without a whole shot in it: a
                   \* grabbed image, half an image, or nothing yet
NoBuffer == [index |-> 0, length |-> 0]
Blank == [i \in 1..BufferSize |-> Still]   \* a file buffer before its first use

Init ==
  /\ running = FALSE /\ recording = FALSE /\ api = {}
  /\ pc = [c \in Clients |-> "idle"] /\ phase = "alive" /\ powerUps = 0
  /\ requested = FALSE /\ completed = FALSE /\ raw = Still /\ jpeg = Still
  /\ callback = <<>> /\ shots = 0 /\ free = {} /\ stale = FALSE
  /\ queue = <<>> /\ frame = <<>> /\ framePc = "pop"
  /\ current = 0 /\ offset = 0 /\ memory = [i \in {0, 1} |-> Blank]
  /\ overrun = FALSE /\ buffers = <<>> /\ item = NoBuffer /\ storePc = "test"
  /\ id = 0 /\ file = 0 /\ files = [r \in 1..MaxRecordings |-> <<>>]
  /\ history = <<>> /\ drained = <<>> /\ since = 0
  /\ started = FALSE /\ buffered = FALSE /\ torn = "no"
  /\ clobbered = FALSE /\ cut = FALSE

-----------------------------------------------------------------------------
(* The ICamera interface.                                                  *)

CanCall(c, call) ==
  /\ call \in Calls
  /\ phase = "alive"
  /\ pc[c] = "idle"
  /\ api = {}

(* The frames in somebody's hands, and whose. *)
InHand == callback \o queue \o frame
InUse == {InHand[i].memory : i \in 1..Len(InHand)}

(* init_camera frees the pool's memory and makes a new pool of it, even if *)
(* frames of the old one are in use.                                       *)
FreshPool == Memory

FillPool ==
  /\ free' = FreshPool
  /\ stale' = (stale \/ InUse # {})
  /\ UNCHANGED <<queue, callback, shots>>

(* malloc may return the memory freed last, or any other. *)
NewBuffer ==
  /\ raw' \in {raw, Still}
  /\ UNCHANGED <<requested, completed, torn, jpeg, clobbered>>

PowerUp(c) ==
  /\ CanCall(c, "power_up")
  /\ ~running
  /\ powerUps < MaxPowerUps
  /\ running' = TRUE /\ started' = TRUE /\ buffered' = TRUE
  /\ powerUps' = powerUps + 1
  /\ FillPool
  /\ NewBuffer
  /\ UNCHANGED <<recording, api, pc, phase, cut>>
  /\ UNCHANGED <<frameVars, buffers, storeVars, fileVars>>

(* init_camera throws, before or after the pool and the image buffer are   *)
(* made; running_ is set.                                                  *)
PowerUpFails(c) ==
  /\ CanCall(c, "power_up")
  /\ ~running
  /\ running' = TRUE
  /\ cut' = TRUE
  /\ \/ FillPool /\ NewBuffer /\ buffered' \in BOOLEAN
     \/ UNCHANGED <<poolVars, imageVars, buffered>>
  /\ UNCHANGED <<started, recording, api, pc, phase, powerUps>>
  /\ UNCHANGED <<frameVars, buffers, storeVars, fileVars>>

(* camera_->stop() waits for a callback that is running. *)
PowerDown(c) ==
  /\ CanCall(c, "power_down")
  /\ running /\ started
  /\ running' = FALSE
  /\ api' = {c}
  /\ pc' = [pc EXCEPT ![c] = "stopping"]
  /\ UNCHANGED <<recording, started, buffered, phase, powerUps, cut>>
  /\ UNCHANGED <<imageVars, poolVars, frameVars, buffers, storeVars, fileVars>>

(* release_camera takes buffer_ away, from under the frame thread too. *)
FreeBuffer ==
  /\ buffered' = FALSE
  /\ torn' = IF framePc = "converting" THEN "freed" ELSE torn
  /\ clobbered' = (clobbered \/ framePc \in {"converting", "append"})
  /\ UNCHANGED <<requested, completed, raw, jpeg>>

(* release_camera of a camera that did not start: camera_ or allocator_ may *)
(* be null.                                                                *)
ReleaseHalf ==
  /\ running' = FALSE
  /\ phase' \in {phase, "crashed"}
  /\ FreeBuffer
  /\ UNCHANGED <<recording, started, api, pc, powerUps, cut>>
  /\ UNCHANGED <<poolVars, frameVars, buffers, storeVars, fileVars>>

PowerDownHalf(c) ==
  /\ CanCall(c, "power_down")
  /\ running /\ ~started
  /\ ReleaseHalf

CallbackIdle == callback = <<>>

(* Frames are still to be compressed, or to be taken from buffer_. *)
Backlog == queue # <<>> \/ framePc \in {"convert", "converting", "append"}

(* The camera is released, and buffer_ with it. *)
PoweredDown(c) ==
  /\ pc[c] = "stopping"
  /\ CallbackIdle
  /\ api' = {}
  /\ pc' = [pc EXCEPT ![c] = "idle"]
  /\ started' = FALSE
  /\ cut' = (cut \/ Backlog)
  /\ FreeBuffer
  /\ UNCHANGED <<running, recording, phase, powerUps>>
  /\ UNCHANGED <<poolVars, frameVars, buffers, storeVars, fileVars>>

(* grab, grab_jpeg: send_request, then wait on cv_ with api_mutex_ held. *)
Grab(c) ==
  /\ CanCall(c, "grab")
  /\ running
  /\ requested' = TRUE /\ completed' = FALSE
  /\ api' = {c}
  /\ pc' = [pc EXCEPT ![c] = "grab"]
  /\ UNCHANGED <<running, recording, started, buffered, phase, powerUps, cut>>
  /\ UNCHANGED <<raw, torn, jpeg, clobbered>>
  /\ UNCHANGED <<poolVars, frameVars, buffers, storeVars, fileVars>>

Grabbed(c) ==
  /\ pc[c] = "grab"
  /\ completed
  /\ api' = {}
  /\ pc' = [pc EXCEPT ![c] = "idle"]
  /\ UNCHANGED <<running, recording, started, buffered, phase, powerUps, cut>>
  /\ UNCHANGED <<imageVars, poolVars, frameVars, buffers, storeVars, fileVars>>

(* A recording is named after the second it starts in; its file is emptied *)
(* when it is opened.  That one is already recording, or that the file of  *)
(* the last one is still open, is only logged.                             *)
StartRecording(c) ==
  /\ CanCall(c, "start")
  /\ running
  /\ \E r \in {id, id + 1} \cap (1..MaxRecordings) :
       /\ id' = r
       /\ file' = r
       /\ files' = [files EXCEPT ![r] = <<>>]
  /\ recording' = TRUE
  /\ since' = Len(history)
  /\ UNCHANGED <<running, started, buffered, api, pc, phase, powerUps, cut>>
  /\ UNCHANGED <<imageVars, poolVars, frameVars, buffers, storeVars>>

(* That none is recording, or another, is only logged. *)
StopRecording(c) ==
  /\ CanCall(c, "stop")
  /\ recording' = FALSE
  /\ UNCHANGED <<running, started, buffered, api, pc, phase, powerUps, cut>>
  /\ UNCHANGED <<imageVars, poolVars, frameVars, buffers, storeVars, fileVars>>

-----------------------------------------------------------------------------
(* libcamera's callback, process_request_buffer.                           *)

(* A request completes while recording_ is set: alloc, or skip the frame.  *)
Capture ==
  /\ running /\ started /\ recording
  /\ CallbackIdle
  /\ shots < MaxShots
  /\ shots' = shots + 1
  /\ \/ /\ free = {}
        /\ UNCHANGED <<free, callback>>
     \/ \E m \in free :
          /\ callback' = <<[memory |-> m, shot |-> shots + 1]>>
          /\ free' = free \ {m}
  /\ UNCHANGED <<stale, queue>>
  /\ UNCHANGED <<apiVars, imageVars, frameVars, buffers, storeVars, fileVars>>

(* The copy has been made: the frame is queued. *)
Enqueue ==
  /\ ~CallbackIdle
  /\ queue' = queue \o callback
  /\ callback' = <<>>
  /\ UNCHANGED <<free, stale, shots>>
  /\ UNCHANGED <<apiVars, imageVars, frameVars, buffers, storeVars, fileVars>>

(* process_image_data: cv_mutex_ keeps the grab out, but buffer_ is also    *)
(* the frame thread's.  The image is compressed from Compress to Deliver.  *)
Compress ==
  /\ running /\ started /\ ~recording /\ CallbackIdle
  /\ requested
  /\ raw' = Still
  /\ torn' = IF framePc = "converting" /\ torn = "no" THEN "mixed" ELSE torn
  /\ clobbered' = (clobbered \/ framePc \in {"converting", "append"})
  /\ requested' = FALSE
  /\ UNCHANGED <<completed, jpeg>>
  /\ UNCHANGED <<apiVars, poolVars, frameVars, buffers, storeVars, fileVars>>

Compressing == ~requested /\ ~completed /\ \E c \in Clients : pc[c] = "grab"

\* Mutant: request_completed_ is not set.
DeliverUnnoticed ==
  /\ Compressing
  /\ jpeg' = raw
  /\ UNCHANGED <<requested, completed, raw, torn, clobbered>>
  /\ UNCHANGED <<apiVars, poolVars, frameVars, buffers, storeVars, fileVars>>

Deliver ==
  /\ Compressing
  /\ jpeg' = raw
  /\ completed' = TRUE
  /\ UNCHANGED <<requested, raw, torn, clobbered>>
  /\ UNCHANGED <<apiVars, poolVars, frameVars, buffers, storeVars, fileVars>>

-----------------------------------------------------------------------------
(* The frame thread, convert_frames_to_jpeg.                               *)

PopFrame ==
  /\ framePc = "pop"
  /\ queue # <<>>
  /\ frame' = <<Head(queue)>>
  /\ queue' = Tail(queue)
  /\ framePc' = "convert"
  /\ UNCHANGED <<free, stale, callback, shots>>
  /\ UNCHANGED <<current, offset, memory, overrun, history>>
  /\ UNCHANGED <<apiVars, imageVars, buffers, storeVars, fileVars>>

(* convert_to_jpeg: jpeg_bufferinit takes buffer_, which nobody locks, *)
(* and the image is written line by line.                              *)
ConvertBegins ==
  /\ framePc = "convert"
  /\ buffered
  /\ raw' = Still
  /\ torn' = IF Compressing THEN "mixed" ELSE "no"
  /\ clobbered' = (clobbered \/ Compressing)
  /\ framePc' = "converting"
  /\ UNCHANGED <<frame, current, offset, memory, overrun, history>>
  /\ UNCHANGED <<requested, completed, jpeg>>
  /\ UNCHANGED <<apiVars, poolVars, buffers, storeVars, fileVars>>

(* The shot, unless somebody else used buffer_ or freed it meanwhile; the  *)
(* memory of a frame that is no longer in the pool holds anything.         *)
Converted ==
  IF stale THEN 0..shots
  ELSE {frame[1].shot} \cup (IF torn = "no" THEN {} ELSE {raw})

ConvertEnds ==
  /\ framePc = "converting"
  /\ raw' \in Converted
  /\ framePc' = "append"
  /\ UNCHANGED <<frame, current, offset, memory, overrun, history>>
  /\ UNCHANGED <<requested, completed, torn, jpeg, clobbered>>
  /\ UNCHANGED <<apiVars, poolVars, buffers, storeVars, fileVars>>

(* The memory that is about to be used has been freed. *)
NullBuffer == framePc \in {"convert", "append"} /\ ~buffered
FreedBuffer == framePc = "converting" /\ torn = "freed"
FreedFrame ==
  stale /\ (~CallbackIdle \/ framePc \in {"convert", "converting", "free"})

UseAfterFree ==
  /\ NullBuffer \/ FreedBuffer \/ FreedFrame
  /\ phase' = "crashed"
  /\ UNCHANGED <<running, recording, started, buffered, api, pc, powerUps, cut>>
  /\ UNCHANGED <<imageVars, poolVars, frameVars, buffers, storeVars, fileVars>>

(* memcpy into a file buffer: what was there is overwritten. *)
Put(buffer, n, image) == [buffer EXCEPT ![n + 1] = image]

\* Mutant: the room left in the buffer is not checked.
AppendAlways ==
  /\ framePc = "append"
  /\ buffered
  /\ memory' = [memory EXCEPT ![current] = Put(@, offset, raw)]
  /\ offset' = offset + 1
  /\ history' = Append(history, raw)
  /\ framePc' = "free"
  /\ UNCHANGED <<frame, current, overrun>>
  /\ UNCHANGED <<apiVars, imageVars, poolVars, buffers, storeVars, fileVars>>

(* buffer_image, buffer_append. *)
AppendImage ==
  /\ framePc = "append"
  /\ buffered
  /\ offset < BufferSize
  /\ memory' = [memory EXCEPT ![current] = Put(@, offset, raw)]
  /\ offset' = offset + 1
  /\ history' = Append(history, raw)
  /\ framePc' = "free"
  /\ UNCHANGED <<frame, current, overrun>>
  /\ UNCHANGED <<apiVars, imageVars, poolVars, buffers, storeVars, fileVars>>

\* Mutant: the buffers are swapped before the full one is queued.
SwapBuffersFirst ==
  /\ framePc = "append"
  /\ buffered
  /\ offset >= BufferSize
  /\ LET other == 1 - current
     IN  /\ buffers' = Append(buffers, [index |-> other, length |-> offset])
         /\ overrun' = (overrun \/ (storePc = "write" /\ item.index = other)
                          \/ \E i \in 1..Len(buffers) : buffers[i].index = other)
         /\ memory' = [memory EXCEPT ![other] = Put(@, 0, raw)]
         /\ current' = other
  /\ offset' = 1
  /\ history' = Append(history, raw)
  /\ framePc' = "free"
  /\ UNCHANGED frame
  /\ UNCHANGED <<apiVars, imageVars, poolVars, storeVars, fileVars>>

(* The buffer is full: store_buffer_async, swap_buffers, buffer_append.    *)
(* Nothing checks that the other buffer has been written.                  *)
SwapBuffers ==
  /\ framePc = "append"
  /\ buffered
  /\ offset >= BufferSize
  /\ LET other == 1 - current
     IN  /\ buffers' = Append(buffers, [index |-> current, length |-> offset])
         /\ overrun' = (overrun \/ (storePc = "write" /\ item.index = other)
                          \/ \E i \in 1..Len(buffers) : buffers[i].index = other)
         /\ memory' = [memory EXCEPT ![other] = Put(@, 0, raw)]
         /\ current' = other
  /\ offset' = 1
  /\ history' = Append(history, raw)
  /\ framePc' = "free"
  /\ UNCHANGED frame
  /\ UNCHANGED <<apiVars, imageVars, poolVars, storeVars, fileVars>>

\* Mutant: the frame is freed, and kept to be freed again.
FreeFrameTwice ==
  /\ framePc = "free"
  /\ free' = free \cup {frame[1].memory}
  /\ framePc' = "pop"
  /\ UNCHANGED <<frame, stale, queue, callback, shots, current, offset, memory>>
  /\ UNCHANGED <<overrun, history>>
  /\ UNCHANGED <<apiVars, imageVars, buffers, storeVars, fileVars>>

FreeFrame ==
  /\ framePc = "free"
  /\ free' = free \cup {frame[1].memory}
  /\ frame' = <<>>
  /\ framePc' = "pop"
  /\ UNCHANGED <<stale, queue, callback, shots, current, offset, memory>>
  /\ UNCHANGED <<overrun, history>>
  /\ UNCHANGED <<apiVars, imageVars, buffers, storeVars, fileVars>>

(* quitting_frame_thread_ is set and the queue is empty. *)
FrameThreadEnds ==
  /\ framePc = "pop"
  /\ phase = "join1"
  /\ queue = <<>>
  /\ framePc' = "ended"
  /\ UNCHANGED <<frame, current, offset, memory, overrun, history>>
  /\ UNCHANGED <<apiVars, imageVars, poolVars, buffers, storeVars, fileVars>>

-----------------------------------------------------------------------------
(* The buffer thread, store_buffers_to_disk.                               *)

(* The bytes the file gets are those in the buffer when it is written. *)
Written(index, length) == SubSeq(memory[index], 1, length)

(* store_buffer_sync: without a file the images are dropped. *)
ToFile(images) ==
  /\ drained' = drained \o images
  /\ files' = IF file = 0 THEN files ELSE [files EXCEPT ![file] = @ \o images]

PopBuffer ==
  /\ storePc = "test"
  /\ buffers # <<>>
  /\ item' = Head(buffers)
  /\ buffers' = Tail(buffers)
  /\ storePc' = "write"
  /\ UNCHANGED drained
  /\ UNCHANGED <<apiVars, imageVars, poolVars, frameVars, fileVars>>

WriteBuffer ==
  /\ storePc = "write"
  /\ ToFile(Written(item.index, item.length))
  /\ item' = NoBuffer
  /\ storePc' = "close"
  /\ UNCHANGED <<id, file, since>>
  /\ UNCHANGED <<apiVars, imageVars, poolVars, frameVars, buffers>>

\* Mutant: the file is only looked at after a buffer has been written.
NoBufferNoClose ==
  /\ storePc = "test"
  /\ buffers = <<>>
  /\ phase # "join2"
  /\ UNCHANGED vars

NoBufferYet ==
  /\ storePc = "test"
  /\ buffers = <<>>
  /\ phase # "join2"
  /\ storePc' = "close"
  /\ UNCHANGED <<item, drained>>
  /\ UNCHANGED <<apiVars, imageVars, poolVars, frameVars, buffers, fileVars>>

(* Under api_mutex_: the file is closed if nothing is being recorded. *)
CloseIfStopped ==
  /\ storePc = "close"
  /\ api = {}
  /\ file' = IF recording THEN file ELSE 0
  /\ storePc' = "test"
  /\ UNCHANGED <<item, drained, id, files, since>>
  /\ UNCHANGED <<apiVars, imageVars, poolVars, frameVars, buffers>>

\* Mutant: the last pass forgets the buffer that is being filled.
BufferThreadEndsEarly ==
  /\ storePc = "test"
  /\ phase = "join2"
  /\ buffers = <<>>
  /\ file' = 0
  /\ storePc' = "ended"
  /\ UNCHANGED <<item, drained, id, files, since>>
  /\ UNCHANGED <<apiVars, imageVars, poolVars, frameVars, buffers>>

(* The last pass: what is left in the current buffer. *)
BufferThreadEnds ==
  /\ storePc = "test"
  /\ phase = "join2"
  /\ buffers = <<>>
  /\ ToFile(Written(current, offset))
  /\ file' = 0
  /\ storePc' = "ended"
  /\ UNCHANGED <<item, id, since>>
  /\ UNCHANGED <<apiVars, imageVars, poolVars, frameVars, buffers>>

-----------------------------------------------------------------------------
(* The destructor, called when no client is inside the camera: it joins    *)
(* the frame thread, then the buffer thread, then powers down.             *)
Quit(from, to, joined) ==
  /\ phase = from
  /\ joined
  /\ phase' = to
  /\ UNCHANGED <<running, recording, started, buffered, api, pc, powerUps, cut>>
  /\ UNCHANGED <<imageVars, poolVars, frameVars, buffers, storeVars, fileVars>>

\* Mutant: the destructor powers down first.
DestroyPoweredDown ==
  /\ phase = "alive"
  /\ \A c \in Clients : pc[c] = "idle"
  /\ CallbackIdle
  /\ phase' = "join1"
  /\ running' = FALSE /\ started' = FALSE
  /\ FreeBuffer
  /\ UNCHANGED <<recording, api, pc, powerUps, cut>>
  /\ UNCHANGED <<poolVars, frameVars, buffers, storeVars, fileVars>>

Destroy == Quit("alive", "join1", \A c \in Clients : pc[c] = "idle")
FrameThreadJoined == Quit("join1", "join2", framePc = "ended")
BufferThreadJoined == Quit("join2", "power_down", storePc = "ended")

Destroyed ==
  /\ phase = "power_down"
  /\ IF running /\ ~started
     THEN ReleaseHalf
     ELSE /\ CallbackIdle
          /\ phase' = "gone"
          /\ running' = FALSE /\ started' = FALSE
          /\ FreeBuffer
          /\ UNCHANGED <<recording, api, pc, powerUps, cut>>
          /\ UNCHANGED <<poolVars, frameVars, buffers, storeVars, fileVars>>

-----------------------------------------------------------------------------
Alive == phase # "crashed"

Client(c) ==
  \/ PowerUp(c) \/ PowerUpFails(c) \/ PowerDown(c) \/ PowerDownHalf(c)
  \/ PoweredDown(c)
  \/ Grab(c) \/ Grabbed(c) \/ StartRecording(c) \/ StopRecording(c)

Callback == Alive /\ (Capture \/ Enqueue \/ Compress \/ Deliver)

FrameThread ==
  Alive /\ (PopFrame \/ ConvertBegins \/ ConvertEnds \/ UseAfterFree
              \/ AppendImage \/ SwapBuffers \/ FreeFrame \/ FrameThreadEnds)

BufferThread ==
  Alive /\ (PopBuffer \/ WriteBuffer \/ NoBufferYet \/ CloseIfStopped
              \/ BufferThreadEnds)

Destructor == Destroy \/ FrameThreadJoined \/ BufferThreadJoined \/ Destroyed

Next ==
  \/ Alive /\ \E c \in Clients : Client(c)
  \/ Callback \/ FrameThread \/ BufferThread \/ Destructor

Spec == Init /\ [][Next]_vars

(* The threads are scheduled and frames keep coming. *)
FairSpec ==
  /\ Spec
  /\ WF_vars(Callback) /\ WF_vars(FrameThread) /\ WF_vars(BufferThread)
  /\ \A c \in Clients : WF_vars(Alive /\ (PoweredDown(c) \/ Grabbed(c)))

-----------------------------------------------------------------------------
Frames == [memory : Memory, shot : 1..MaxShots]
Images == 0..MaxShots

TypeOK ==
  /\ {running, started, buffered, recording, clobbered, cut} \subseteq BOOLEAN
  /\ phase \in {"alive", "join1", "join2", "power_down", "gone", "crashed"}
  /\ api \in SUBSET Clients
  /\ pc \in [Clients -> {"idle", "grab", "stopping"}]
  /\ requested \in BOOLEAN /\ completed \in BOOLEAN
  /\ raw \in Images /\ jpeg \in Images /\ torn \in {"no", "mixed", "freed"}
  /\ shots \in 0..MaxShots
  /\ free \subseteq Memory
  /\ callback \in Seq(Frames) /\ queue \in Seq(Frames) /\ frame \in Seq(Frames)
  /\ current \in {0, 1} /\ offset \in 0..BufferSize
  /\ memory \in [{0, 1} -> Seq(Images)]
  /\ file \in 0..MaxRecordings /\ id \in 0..MaxRecordings
  /\ files \in [1..MaxRecordings -> Seq(Images)]

(* The frame pool: as long as the camera is not powered up anew with       *)
(* frames still queued, no frame has two owners and none leaks.            *)
PoolIntact ==
  ~stale =>
    /\ \A i, j \in 1..Len(InHand) : InHand[i].memory = InHand[j].memory => i = j
    /\ free \cap InUse = {}
    /\ free \cup InUse \in {{}, Memory}

(* Besides, nothing is written past the end of a file buffer: offset_ stays *)
(* within it (TypeOK).                                                     *)
MemorySafe == TypeOK /\ PoolIntact

(* Unless a buffer is reused before it was written, what has been handed   *)
(* to the file, what is being written, what is queued and what is being    *)
(* filled are together all the images, in order.                           *)
Queued == FlattenSeq([i \in 1..Len(buffers) |->
                        Written(buffers[i].index, buffers[i].length)])

Filling == IF storePc = "ended" THEN <<>> ELSE Written(current, offset)

PipelineKeepsOrder ==
  ~overrun =>
    history = drained \o Written(item.index, item.length) \o Queued \o Filling

(* Unless a grab or a release took the image buffer from under the frame   *)
(* thread, or the pool was made anew with frames in use, the files hold    *)
(* the shots in the order in which they were taken, each once, from one    *)
(* file to the next.                                                       *)
Increasing(s) == \A i, j \in 1..Len(s) : i < j => s[i] < s[j]

FilesInOrder ==
  ~overrun /\ ~clobbered /\ ~stale =>
    /\ \A r \in 1..MaxRecordings : Increasing(files[r])
    /\ \A q, r \in 1..MaxRecordings :
         q < r => \A i \in 1..Len(files[q]), j \in 1..Len(files[r]) :
                    files[q][i] < files[r][j]

(* A camera destroyed in the middle of a recording has in its file, at the *)
(* end, every image appended since the recording was started.              *)
DestructorSaves ==
  phase = "gone" /\ recording /\ ~overrun =>
    IsSuffix(SubSeq(history, since + 1, Len(history)), files[id])

(* The threads find their memory: the program only crashes when the camera *)
(* did not start, or was powered down with frames still to be compressed   *)
(* or appended, or was powered up with frames in use.  The destructor,     *)
(* which joins the frame thread before it releases the camera, is safe;    *)
(* so is a grab, and a recording within one power cycle.                   *)
CrashExplained == phase = "crashed" => cut \/ stale

(* A client gets its answer, if the camera did start and nothing is being  *)
(* recorded: a recording takes all the frames, and the grab that waits for *)
(* one keeps everybody from stopping it.                                   *)
CallsReturn ==
  \A c \in Clients :
    pc[c] # "idle" ~> pc[c] = "idle" \/ recording \/ cut \/ ~Alive

(* A stopped recording's file is closed, unless another one is started, or *)
(* clients that grab keep the mutex from the thread that would close it.   *)
StoppedFileCloses ==
  ~recording /\ file # 0 ~> recording \/ file = 0 \/ api # {} \/ ~Alive
=============================================================================
