------------------------------- MODULE USBCamera -------------------------------
(***************************************************************************)
(* romi-camera: romi::USBCamera over camera_v4l.cpp.  The constructor      *)
(* opens the device, asks the driver for buffers, maps them, gives them    *)
(* back to be filled and starts the capture thread.  The thread takes a    *)
(* filled buffer from the driver, converts it to rgb_buffer, returns it,   *)
(* and imports the image, with _mutex in its hands; grab copies the image. *)
(* The destructor joins the thread and deletes the camera.                 *)
(*                                                                         *)
(* Every call of the driver may fail, except those whose result the code   *)
(* does not use; the driver (external) fills the buffers it has.           *)
(***************************************************************************)
EXTENDS Naturals, FiniteSets

CONSTANTS
  Buffers,    \* what the driver grants; at least two in the code
  Tries,      \* camera_capture: how often it waits for an image, 10 in the code
  MaxFaults   \* bound: calls that fail

TriesAssumption == Tries \in Nat \ {0} /\ MaxFaults \in Nat
BuffersAssumption == IsFiniteSet(Buffers)

VARIABLES
  stage,      \* open, init, start, giveup: in the constructor; run: in use;
              \* join, delete: being destroyed; gone; aborted: the program ended
  fd,         \* the device is open
  mapped,     \* the buffers that are mapped
  heap,       \* what camera_t has allocated
  dangling,   \* what it has freed, and still points to
  queued,     \* the driver's buffers
  filled,     \* those of them that have been filled
  taken,      \* the buffer that camera_read has: none or one
  thread,     \* none, test, select, return, import, ended
  tries, error,
  rgb,        \* rgb_buffer: none, new, used (imported already)
  image,      \* _image: none, fresh, seen
  done,
  faults,    \* failed calls
  lost,       \* history: buffers the driver did not take back
  unready     \* history: camera_init or camera_capturestart failed

deviceVars == <<fd, mapped, heap, dangling, lost>>
driverVars == <<queued, filled>>
captureVars == <<taken, thread, tries, error, rgb>>
vars == <<stage, deviceVars, driverVars, captureVars, image, done, faults, unready>>

Init ==
  /\ stage = "open" /\ fd = FALSE /\ mapped = {} /\ heap = {"name"}
  /\ dangling = {} /\ queued = {} /\ filled = {} /\ taken = {}
  /\ thread = "none" /\ tries = 0 /\ error = "unset" /\ rgb = "none"
  /\ image = "none" /\ done = FALSE /\ faults = 0 /\ lost = {} /\ unready = FALSE

Fault == faults < MaxFaults /\ faults' = faults + 1

-----------------------------------------------------------------------------
(* The constructor: new_camera, camera_prepare. *)

Open ==
  /\ stage = "open"
  /\ \/ fd' = TRUE /\ stage' = "init" /\ UNCHANGED faults
     \/ fd' = FALSE /\ stage' = "delete" /\ Fault
  /\ UNCHANGED <<mapped, heap, dangling, lost, driverVars, captureVars, image, done>>
  /\ UNCHANGED unready

(* camera_init with camera_mmapinit. *)
InitDevice ==
  /\ stage = "init"
  /\ stage' = "start"
  /\ mapped' = Buffers
  /\ heap' = heap \cup {"buffers"}
  /\ UNCHANGED <<fd, dangling, lost, driverVars, captureVars, image, done, faults>>
  /\ UNCHANGED unready

(* It may fail before the buffers are mapped, or half-way, or after.       *)
InitFails ==
  /\ stage = "init"
  /\ Fault
  /\ stage' = "giveup" /\ unready' = TRUE
  /\ \E M \in SUBSET Buffers : mapped' = M
  /\ heap' \in {heap \cup {"buffers"}} \cup (IF mapped' = {} THEN {heap} ELSE {})
  /\ UNCHANGED <<fd, dangling, lost, driverVars, captureVars, image, done>>

(* camera_capturestart, start_capture_thread. *)
StartCapture ==
  /\ stage = "start"
  /\ stage' = "run"
  /\ queued' = Buffers
  /\ thread' = "test"
  /\ UNCHANGED <<deviceVars, filled, taken, tries, error, rgb, image, done, faults>>
  /\ UNCHANGED unready

StartFails ==
  /\ stage = "start"
  /\ Fault
  /\ stage' = "giveup" /\ unready' = TRUE
  /\ \E Q \in SUBSET Buffers : queued' = Q
  /\ UNCHANGED <<deviceVars, filled, captureVars, image, done>>

(* camera_close: the driver forgets the buffers; camera_cleanup. *)
Released ==
  /\ fd' = FALSE
  /\ mapped' = {} /\ queued' = {} /\ filled' = {}
  /\ heap' = {} /\ dangling' = dangling \cup heap
  /\ UNCHANGED lost

GiveUp ==
  /\ stage = "giveup"
  /\ Released
  /\ stage' = "delete"
  /\ UNCHANGED <<captureVars, image, done, faults, unready>>

(* delete_camera: close and cleanup, also when they have been called       *)
(* before: what is freed then is read and freed again, which may end the   *)
(* program.                                                                *)
Delete ==
  /\ stage = "delete"
  /\ Released
  /\ stage' \in {"gone"} \cup (IF dangling # {} THEN {"aborted"} ELSE {})
  /\ UNCHANGED <<captureVars, image, done, faults, unready>>

-----------------------------------------------------------------------------
(* The driver fills a buffer (external). *)
Fill ==
  /\ stage \in {"run", "join"}
  /\ \E b \in queued \ filled : filled' = filled \cup {b}
  /\ UNCHANGED <<stage, deviceVars, queued, captureVars, image, done, faults, unready>>

-----------------------------------------------------------------------------
(* The capture thread: run, grab_from_camera, camera_capture. *)

Aborted == stage = "aborted"
Goto(t) == thread' = t /\ UNCHANGED <<stage, deviceVars, image, done, unready>>

Leave ==
  /\ thread = "test" /\ done
  /\ Goto("ended")
  /\ UNCHANGED <<driverVars, taken, tries, error, rgb, faults>>

\* Mutant: the loop does not look at _done.
CaptureAlways ==
  /\ thread = "test"
  /\ Goto("select")
  /\ tries' = 0 /\ error' = "unset"
  /\ UNCHANGED <<driverVars, taken, rgb, faults>>

(* error is not initialised. *)
Capture ==
  /\ thread = "test" /\ ~done
  /\ Goto("select")
  /\ tries' = 0 /\ error' = "unset"
  /\ UNCHANGED <<driverVars, taken, rgb, faults>>

(* select: no image in time. *)
Timeout ==
  /\ thread = "select" /\ tries < Tries
  /\ filled = {}
  /\ Goto("select")
  /\ tries' = tries + 1
  /\ UNCHANGED <<driverVars, taken, error, rgb, faults>>

(* It was interrupted, and is tried again. *)
Interrupted ==
  /\ thread = "select" /\ tries < Tries
  /\ Fault
  /\ Goto("select")
  /\ tries' = tries + 1
  /\ UNCHANGED <<driverVars, taken, error, rgb>>

(* Another error of select. *)
SelectFails ==
  /\ thread = "select" /\ tries < Tries
  /\ Fault
  /\ Goto("test")
  /\ UNCHANGED <<driverVars, taken, tries, error, rgb>>

(* camera_read: there is no buffer after all (EAGAIN), or an error.        *)
ReadFails ==
  /\ thread = "select" /\ tries < Tries
  /\ (filled = {} /\ UNCHANGED faults) \/ (filled # {} /\ Fault)
  /\ Goto("select")
  /\ tries' = tries + 1 /\ error' = "failed"
  /\ UNCHANGED <<driverVars, taken, rgb>>

(* camera_read: VIDIOC_DQBUF and camera_convert, *)
Take(b) ==
  /\ thread = "select" /\ tries < Tries
  /\ b \in filled
  /\ taken' = {b}
  /\ queued' = queued \ {b} /\ filled' = filled \ {b}
  /\ rgb' = "new"
  /\ heap' = heap \cup {"rgb"}
  /\ thread' = "return"
  /\ UNCHANGED <<stage, fd, mapped, dangling, lost, tries, error, image, done, faults>>
  /\ UNCHANGED unready

\* Mutant: the buffer is not given back.
ReturnNot ==
  /\ thread = "return"
  /\ taken' = {}
  /\ Goto("import")
  /\ UNCHANGED <<driverVars, tries, error, rgb, faults>>

(* and VIDIOC_QBUF. *)
Return ==
  /\ thread = "return"
  /\ taken' = {} /\ queued' = queued \cup taken
  /\ Goto("import")
  /\ UNCHANGED <<filled, tries, error, rgb, faults>>

(* The driver does not take the buffer; the loop goes on.                  *)
ReturnFails ==
  /\ thread = "return"
  /\ Fault
  /\ taken' = {} /\ lost' = lost \cup taken
  /\ thread' = "select" /\ tries' = tries + 1 /\ error' = "failed"
  /\ UNCHANGED <<stage, fd, mapped, heap, dangling, driverVars, rgb, image, done>>
  /\ UNCHANGED unready

\* Mutant: the outcome of the tries is not looked at.
OutOfTriesIgnored ==
  /\ thread = "select" /\ tries = Tries
  /\ Goto("test") \/ Goto("import")
  /\ UNCHANGED <<driverVars, taken, tries, error, rgb, faults>>

(* None of the tries has been successful.  If camera_read was never        *)
(* called, error is anything, and zero says that there is an image.        *)
OutOfTries ==
  /\ thread = "select" /\ tries = Tries
  /\ \/ Goto("test")
     \/ error = "unset" /\ Goto("import")
  /\ UNCHANGED <<driverVars, taken, tries, error, rgb, faults>>

\* Mutant: the image is imported the first time only.
ImportOnce ==
  /\ thread = "import"
  /\ IF rgb = "none"
     THEN stage' = "aborted" /\ UNCHANGED <<thread, image, rgb>>
     ELSE /\ thread' = "test" /\ rgb' = "used" /\ UNCHANGED stage
          /\ image' = IF rgb = "new" /\ image = "none" THEN "fresh" ELSE image
  /\ UNCHANGED <<deviceVars, driverVars, taken, tries, error, done, faults, unready>>

(* Image::import, which reads a null pointer when nothing was ever read.   *)
Import ==
  /\ thread = "import"
  /\ IF rgb = "none"
     THEN stage' = "aborted" /\ UNCHANGED <<thread, image, rgb>>
     ELSE /\ thread' = "test" /\ rgb' = "used" /\ UNCHANGED stage
          /\ image' = IF rgb = "new" THEN "fresh" ELSE image
  /\ UNCHANGED <<deviceVars, driverVars, taken, tries, error, done, faults, unready>>

Thread ==
  ~Aborted /\ (Leave \/ Capture \/ Timeout \/ Interrupted \/ SelectFails \/ ReadFails
                 \/ (\E b \in Buffers : Take(b)) \/ Return \/ ReturnFails
                 \/ OutOfTries \/ Import)

-----------------------------------------------------------------------------
(* grab, grab_jpeg: _mutex is free. *)
Grab ==
  /\ stage = "run"
  /\ thread \in {"test", "ended"}
  /\ image' = IF image = "fresh" THEN "seen" ELSE image
  /\ UNCHANGED <<stage, deviceVars, driverVars, captureVars, done, faults, unready>>

\* Mutant: the camera is deleted while the thread is told to end.
DestroyUnjoined ==
  /\ stage = "run"
  /\ done' = TRUE
  /\ stage' = "delete"
  /\ UNCHANGED <<deviceVars, driverVars, captureVars, image, faults, unready>>

(* ~USBCamera: the thread is told and joined. *)
Destroy ==
  /\ stage = "run"
  /\ done' = TRUE
  /\ stage' = "join"
  /\ UNCHANGED <<deviceVars, driverVars, captureVars, image, faults, unready>>

Join ==
  /\ stage = "join"
  /\ thread = "ended"
  /\ stage' = "delete"
  /\ UNCHANGED <<deviceVars, driverVars, captureVars, image, done, faults, unready>>

Construct ==
  Open \/ InitDevice \/ InitFails \/ StartCapture \/ StartFails \/ GiveUp

Next == Construct \/ Fill \/ Thread \/ Grab \/ Destroy \/ Join \/ Delete

Spec == Init /\ [][Next]_vars

(* The thread is scheduled, and the driver fills what it has.              *)
FairSpec == Spec /\ WF_vars(Thread) /\ WF_vars(Fill \/ Join \/ Delete)

-----------------------------------------------------------------------------
TypeOK ==
  /\ stage \in {"open", "init", "start", "giveup", "run", "join", "delete", "gone",
                "aborted"}
  /\ fd \in BOOLEAN /\ done \in BOOLEAN /\ unready \in BOOLEAN
  /\ mapped \cup queued \cup filled \cup taken \cup lost \subseteq Buffers
  /\ heap \cup dangling \subseteq {"name", "buffers", "rgb"}
  /\ thread \in {"none", "test", "select", "return", "import", "ended"}
  /\ tries \in 0 .. Tries /\ error \in {"unset", "failed"}
  /\ rgb \in {"none", "new", "used"} /\ image \in {"none", "fresh", "seen"}
  /\ faults \in 0 .. MaxFaults

(* While images are captured, each buffer is the driver's or the thread's, *)
(* except one for each time that the driver did not take one back          *)
(* (camera_read).                                                          *)
BuffersReturned ==
  stage \in {"run", "join"} =>
    /\ Buffers = queued \cup taken \cup lost
    /\ Cardinality(Buffers) = Cardinality(queued) + Cardinality(taken) + Cardinality(lost)
    /\ Cardinality(lost) <= faults

(* The thread reads buffers and writes rgb_buffer only while they are      *)
(* there: the destructor deletes them after it (~USBCamera).               *)
MemoryThere ==
  thread \in {"select", "return", "import"} /\ ~Aborted =>
    fd /\ mapped = Buffers /\ "buffers" \in heap

(* The program is only ended by a device that failed half-way in the       *)
(* constructor (camera_cleanup is called twice), or by the import of an    *)
(* image before there is one (camera_capture did not read any); whatever   *)
(* fails later.                                                            *)
AbortExplained == Aborted => unready \/ (rgb = "none" /\ error = "unset")

(* Nothing is left: neither the device, nor memory. *)
NothingKept == stage = "gone" => ~fd /\ mapped = {} /\ heap = {}

CameraSafe == BuffersReturned /\ MemoryThere /\ AbortExplained /\ NothingKept

(* An image that has been grabbed is replaced by a newer one, unless the   *)
(* driver has taken none of the buffers back.                              *)
ImagesRenewed ==
  []<>(image # "seen" \/ done \/ lost = Buffers \/ Aborted)

(* The destructor ends, also when no image comes.                          *)
DestructorEnds == []<>(done => stage \in {"gone", "aborted"})
=============================================================================
