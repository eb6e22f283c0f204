---------------------------- MODULE LibCameraProofs ----------------------------
(***************************************************************************)
(* Proofs about LibCamera, for any clients, frames, sizes of the file      *)
(* buffers and any number of recordings.                                   *)
(*                                                                         *)
(* A frame is free, being filled, queued or being compressed (Owned), until *)
(* the pool is made anew over frames in use.  The image buffer is there    *)
(* while the frame thread has something to compress or to append, or       *)
(* power_up failed or power_down came too early (Buffered).                *)
(*                                                                         *)
(* The images: what was appended is what was taken to be written and what  *)
(* the two file buffers hold (Slots, Pipe), in the order of the shots      *)
(* (Waiting, Appended); the files hold it in that order (Kept), the last   *)
(* one all that was taken since its recording was started (Recorded).      *)
(***************************************************************************)
EXTENDS LibCamera, SequenceTheorems, TLAPS

Chunks == [index : {0, 1}, length : 0..BufferSize]

(* What TypeOK does not say of the two threads and their buffers. *)
Threads ==
  /\ Len(callback) <= 1
  /\ framePc \in {"pop", "convert", "converting", "append", "free", "ended"}
  /\ framePc \in {"pop", "ended"} => frame = <<>>
  /\ framePc \in {"convert", "converting", "append", "free"} => Len(frame) = 1
  /\ memory \in [{0, 1} -> [1..BufferSize -> Images]]
  /\ item \in Chunks /\ buffers \in Seq(Chunks)

(* The memory of the frames of a sequence; each has its own. *)
In(s) == {s[i].memory : i \in 1..Len(s)}
Apart(s) == \A i, j \in 1..Len(s) : s[i].memory = s[j].memory => i = j

Owned ==
  ~stale =>
    /\ Apart(queue)
    /\ In(callback) \cap In(queue) = {}
    /\ In(callback) \cap In(frame) = {}
    /\ In(queue) \cap In(frame) = {}
    /\ free \cap (In(callback) \cup In(queue) \cup In(frame)) = {}
    /\ free \cup (In(callback) \cup In(queue) \cup In(frame)) \in {{}, Memory}

(* A client inside holds the lock. *)
Inside == \A c \in Clients : pc[c] # "idle" => api = {c}

(* The image buffer is only missing where that does no harm. *)
Buffered ==
  /\ phase \in {"join2", "power_down", "gone"} => framePc = "ended"
  /\ running /\ ~started => cut
  /\ \A c \in Clients : pc[c] = "stopping" => ~running
  /\ started => buffered
  /\ started /\ ~running => \E c \in Clients : pc[c] = "stopping"
  /\ ~buffered /\ framePc # "ended" /\ (callback # <<>> \/ Backlog) => cut
  /\ FreedBuffer => cut

IInv == TypeOK /\ Threads /\ Owned /\ Inside /\ Buffered /\ CrashExplained

-----------------------------------------------------------------------------
(* Sequences of frames. *)

(* The frames of two sequences are those of one and of the other. *)
LEMMA InConcat ==
  ASSUME NEW s \in Seq(Frames), NEW t \in Seq(Frames)
  PROVE  In(s \o t) = In(s) \cup In(t)
<1>1. Len(s \o t) = Len(s) + Len(t)
  OBVIOUS
<1>2. \A i \in 1..Len(s) : i \in 1..Len(s \o t) /\ (s \o t)[i] = s[i]
  OBVIOUS
<1>3. \A i \in 1..Len(t) : Len(s) + i \in 1..Len(s \o t) /\ (s \o t)[Len(s) + i] = t[i]
  OBVIOUS
<1>4. \A i \in 1..Len(s \o t) : i \in 1..Len(s) \/ i - Len(s) \in 1..Len(t)
  BY <1>1
<1>5. \A i \in 1..Len(s \o t) : i \notin 1..Len(s) => (s \o t)[i] = t[i - Len(s)]
  OBVIOUS
<1>6. In(s) \subseteq In(s \o t) /\ In(t) \subseteq In(s \o t)
  BY <1>2, <1>3 DEF In
<1>7. ASSUME NEW m \in In(s \o t) PROVE m \in In(s) \cup In(t)
  <2>1. PICK i \in 1..Len(s \o t) : m = (s \o t)[i].memory
    BY DEF In
  <2>2. CASE i \in 1..Len(s)
    BY <2>1, <2>2, <1>2 DEF In
  <2>3. CASE i \notin 1..Len(s)
    <3>1. i - Len(s) \in 1..Len(t) /\ m = t[i - Len(s)].memory
      BY <2>1, <2>3, <1>4, <1>5
    <3> QED  BY <3>1 DEF In
  <2> QED  BY <2>2, <2>3
<1> QED  BY <1>6, <1>7

LEMMA InOne ==
  /\ In(<<>>) = {} /\ Apart(<<>>)
  /\ \A x : In(<<x>>) = {x.memory} /\ Apart(<<x>>)
BY DEF In, Apart

LEMMA InEmpty ==
  ASSUME NEW s \in Seq(Frames)
  PROVE  In(s) = {} <=> s = <<>>
<1>1. s = <<>> <=> Len(s) = 0
  BY EmptySeq
<1>2. Len(s) # 0 => s[1].memory \in In(s)
  BY DEF In
<1>3. Len(s) = 0 => In(s) = {}
  BY DEF In
<1> QED  BY <1>1, <1>2, <1>3

(* The first frame and the others. *)
LEMMA InHead ==
  ASSUME NEW s \in Seq(Frames), s # <<>>
  PROVE  /\ Head(s) \in Frames /\ Tail(s) \in Seq(Frames)
         /\ In(s) = {Head(s).memory} \cup In(Tail(s))
         /\ Apart(s) => Apart(Tail(s)) /\ Head(s).memory \notin In(Tail(s))
<1>1. Head(s) \in Frames /\ Tail(s) \in Seq(Frames)
  BY HeadTailProperties
<1>2. Len(s) \in Nat /\ Len(s) # 0 /\ Len(Tail(s)) = Len(s) - 1
  BY EmptySeq
<1>3. \A i \in 1..Len(Tail(s)) : Tail(s)[i] = s[i + 1] /\ i + 1 \in 1..Len(s)
  BY <1>2
<1>4. Head(s) = s[1] /\ 1 \in 1..Len(s)
  BY <1>2
<1>5. {Head(s).memory} \cup In(Tail(s)) \subseteq In(s)
  BY <1>3, <1>4 DEF In
<1>6. ASSUME NEW m \in In(s) PROVE m \in {Head(s).memory} \cup In(Tail(s))
  <2>1. PICK i \in 1..Len(s) : m = s[i].memory
    BY DEF In
  <2>2. CASE i = 1
    BY <2>1, <2>2, <1>4
  <2>3. CASE i # 1
    <3>1. i - 1 \in 1..Len(Tail(s)) /\ (i - 1) + 1 = i
      BY <2>3, <1>2
    <3>2. Tail(s)[i - 1] = s[i]
      BY <3>1, <1>3
    <3> QED  BY <3>1, <3>2, <2>1 DEF In
  <2> QED  BY <2>2, <2>3
<1>7. ASSUME Apart(s) PROVE Apart(Tail(s))
  BY <1>3, <1>7, <1>2 DEF Apart
<1>8. ASSUME Apart(s) PROVE Head(s).memory \notin In(Tail(s))
  <2> SUFFICES ASSUME NEW i \in 1..Len(Tail(s)), Tail(s)[i].memory = Head(s).memory
               PROVE  FALSE
    BY DEF In
  <2>1. s[i + 1].memory = s[1].memory /\ i + 1 \in 1..Len(s) /\ i + 1 # 1
    BY <1>3, <1>4
  <2> QED  BY <2>1, <1>4, <1>8 DEF Apart
<1> QED  BY <1>1, <1>5, <1>6, <1>7, <1>8

LEMMA ApartConcat ==
  ASSUME NEW s \in Seq(Frames), NEW t \in Seq(Frames),
         Apart(s), Apart(t), In(s) \cap In(t) = {}
  PROVE  Apart(s \o t)
<1>1. Len(s \o t) = Len(s) + Len(t)
  OBVIOUS
<1>2. \A i \in 1..Len(s) : (s \o t)[i] = s[i]
  OBVIOUS
<1>3. \A i \in 1..Len(s \o t) : i \notin 1..Len(s) =>
        i - Len(s) \in 1..Len(t) /\ (s \o t)[i] = t[i - Len(s)]
  OBVIOUS
<1>4. \A i \in 1..Len(s) : s[i].memory \in In(s)
  BY DEF In
<1>5. \A i \in 1..Len(t) : t[i].memory \in In(t)
  BY DEF In
<1> SUFFICES ASSUME NEW i \in 1..Len(s \o t), NEW j \in 1..Len(s \o t),
                    (s \o t)[i].memory = (s \o t)[j].memory
             PROVE  i = j
  BY DEF Apart
<1>6. CASE i \in 1..Len(s) /\ j \in 1..Len(s)
  BY <1>2, <1>6 DEF Apart
<1>7. CASE i \in 1..Len(s) /\ j \notin 1..Len(s)
  BY <1>2, <1>3, <1>4, <1>5, <1>7
<1>8. CASE i \notin 1..Len(s) /\ j \in 1..Len(s)
  BY <1>2, <1>3, <1>4, <1>5, <1>8
<1>9. CASE i \notin 1..Len(s) /\ j \notin 1..Len(s)
  <2>1. i - Len(s) \in 1..Len(t) /\ j - Len(s) \in 1..Len(t)
    BY <1>3, <1>9
  <2>2. t[i - Len(s)].memory = t[j - Len(s)].memory
    BY <1>3, <1>9
  <2>3. i - Len(s) = j - Len(s)
    BY <2>1, <2>2 DEF Apart
  <2> QED  BY <2>3
<1> QED  BY <1>6, <1>7, <1>8, <1>9

(* A sequence of at most one frame. *)
LEMMA Single ==
  ASSUME NEW s \in Seq(Frames), Len(s) <= 1
  PROVE  /\ Apart(s)
         /\ s # <<>> => Len(s) = 1 /\ s[1] \in Frames /\ s = <<s[1]>>
                        /\ In(s) = {s[1].memory}
<1>1. Len(s) \in Nat /\ (s = <<>> <=> Len(s) = 0)
  BY EmptySeq
<1>2. Apart(s)
  BY <1>1 DEF Apart
<1>3. Len(s) = 1 => s[1] \in Frames /\ s = <<s[1]>>
  OBVIOUS
<1>4. Len(s) = 1 => In(s) = {s[1].memory}
  BY DEF In
<1>5. s # <<>> => Len(s) = 1
  BY <1>1
<1> QED  BY <1>2, <1>3, <1>4, <1>5

LEMMA OneFrame ==
  ASSUME TypeOK, Len(frame) = 1
  PROVE  /\ frame[1] \in Frames /\ frame[1].memory \in Memory
         /\ frame[1].shot \in 1..MaxShots
         /\ frame # <<>> /\ In(frame) = {frame[1].memory}
<1>1. frame \in Seq(Frames) /\ Len(frame) <= 1
  BY DEF TypeOK
<1>2. frame # <<>>
  BY EmptySeq
<1>3. frame[1] \in Frames /\ In(frame) = {frame[1].memory}
  BY <1>1, <1>2, Single
<1>4. \A x \in Frames : x.memory \in Memory /\ x.shot \in 1..MaxShots
  BY DEF Frames
<1> QED  BY <1>2, <1>3, <1>4

(* The pool that Owned describes part by part is intact. *)
LEMMA OwnedIntact ==
  ASSUME TypeOK, Threads, Owned
  PROVE  PoolIntact
<1> SUFFICES ASSUME ~stale PROVE
      /\ Apart(InHand)
      /\ free \cap In(InHand) = {}
      /\ free \cup In(InHand) \in {{}, Memory}
  BY DEF PoolIntact, InUse, In, Apart
<1>0. callback \in Seq(Frames) /\ queue \in Seq(Frames) /\ frame \in Seq(Frames)
  BY DEF TypeOK
<1>1. Len(callback) <= 1 /\ Len(frame) <= 1
  <2>1. frame = <<>> => Len(frame) = 0
    BY <1>0, EmptySeq
  <2>2. frame = <<>> \/ Len(frame) = 1
    BY Zenon DEF Threads
  <2>3. Len(frame) <= 1
    <3>1. CASE frame = <<>>
      BY <2>1, <3>1
    <3>2. CASE Len(frame) = 1
      BY <3>2
    <3> QED  BY <2>2, <3>1, <3>2
  <2>4. Len(callback) <= 1
    BY DEF Threads
  <2> QED  BY <2>3, <2>4
<1>2. Apart(callback) /\ Apart(frame) /\ Apart(queue)
  BY <1>0, <1>1, Single DEF Owned
<1>3. callback \o queue \in Seq(Frames) /\ In(callback \o queue) = In(callback) \cup In(queue)
  BY <1>0, InConcat
<1>4. In(InHand) = In(callback) \cup In(queue) \cup In(frame)
  BY <1>0, <1>3, InConcat DEF InHand
<1>5. Apart(callback \o queue)
  BY <1>0, <1>2, ApartConcat DEF Owned
<1>6. In(callback \o queue) \cap In(frame) = {}
  BY <1>3 DEF Owned
<1>7. Apart(InHand)
  BY <1>0, <1>2, <1>3, <1>5, <1>6, ApartConcat DEF InHand
<1> QED  BY <1>4, <1>7 DEF Owned

-----------------------------------------------------------------------------
THEOREM Initially == Init => IInv
<1> SUFFICES ASSUME Init PROVE IInv
  OBVIOUS
<1> USE BoundsAssumption, SizeAssumption DEF Init
<1>1. <<>> \in Seq(Frames) /\ <<>> \in Seq(Images) /\ <<>> \in Seq(Chunks) /\ Len(<<>>) = 0
  BY EmptySeq
<1>2. Still \in Images /\ NoBuffer \in Chunks
  BY DEF Still, Images, NoBuffer, Chunks
<1>3. Blank \in [1..BufferSize -> Images] /\ Blank \in Seq(Images)
  BY <1>2 DEF Blank
<1>4. TypeOK
  <2>1. memory \in [{0, 1} -> Seq(Images)] /\ files \in [1..MaxRecordings -> Seq(Images)]
    BY <1>1, <1>3
  <2>2. {running, started, buffered, recording, clobbered, cut} \subseteq BOOLEAN
    OBVIOUS
  <2>3. shots \in 0..MaxShots /\ file \in 0..MaxRecordings /\ id \in 0..MaxRecordings
    OBVIOUS
  <2>4. /\ phase \in {"alive", "join1", "join2", "power_down", "gone", "crashed"}
        /\ api \in SUBSET Clients /\ pc \in [Clients -> {"idle", "grab", "stopping"}]
        /\ requested \in BOOLEAN /\ completed \in BOOLEAN
        /\ torn \in {"no", "mixed", "freed"} /\ free \subseteq Memory
    OBVIOUS
  <2>5. /\ raw \in Images /\ jpeg \in Images
        /\ callback \in Seq(Frames) /\ queue \in Seq(Frames) /\ frame \in Seq(Frames)
    BY <1>1, <1>2
  <2>6. current \in {0, 1} /\ offset \in 0..BufferSize
    OBVIOUS
  <2> QED  BY <2>1, <2>2, <2>3, <2>4, <2>5, <2>6, Zenon DEF TypeOK
<1>5. Threads
  BY <1>1, <1>2, <1>3 DEF Threads
<1>6. Owned
  BY InOne DEF Owned
<1>7. Inside /\ Buffered /\ CrashExplained
  BY DEF Inside, Buffered, CrashExplained, Backlog, FreedBuffer
<1> QED  BY <1>4, <1>5, <1>6, <1>7 DEF IInv

-----------------------------------------------------------------------------
(* What has a type: by the clients and the destructor *)
LEMMA FreeBufferTypes ==
  ASSUME TypeOK, FreeBuffer
  PROVE  /\ buffered' \in BOOLEAN /\ clobbered' \in BOOLEAN
         /\ torn' \in {"no", "mixed", "freed"}
         /\ UNCHANGED <<requested, completed, raw, jpeg>>
BY DEF FreeBuffer, TypeOK

LEMMA ClientTypes ==
  ASSUME TypeOK, Threads, NEW c \in Clients, Client(c)
  PROVE  TypeOK' /\ Threads'
<1> USE DEF CanCall, apiVars, imageVars, poolVars, frameVars, storeVars, fileVars
<1>0. NewBuffer => raw' \in Images
  BY BoundsAssumption DEF NewBuffer, Still, Images, TypeOK
<1>1. CASE PowerUp(c)
  BY <1>0, <1>1 DEF PowerUp, NewBuffer, FillPool, FreshPool, TypeOK, Threads
<1>2. CASE PowerUpFails(c)
  BY <1>0, <1>2 DEF PowerUpFails, NewBuffer, FillPool, FreshPool, TypeOK, Threads
<1>3. CASE PowerDown(c)
  BY <1>3 DEF PowerDown, TypeOK, Threads
<1>4. CASE PowerDownHalf(c)
  <2>1. /\ buffered' \in BOOLEAN /\ clobbered' \in BOOLEAN
        /\ torn' \in {"no", "mixed", "freed"} /\ running' = FALSE
        /\ UNCHANGED <<requested, completed, raw, jpeg>>
    BY <1>4, FreeBufferTypes DEF PowerDownHalf, ReleaseHalf
  <2>2. /\ UNCHANGED <<started, recording, cut, api, pc, poolVars, frameVars, buffers,
                       storeVars, fileVars>>
        /\ phase' \in {phase, "crashed"}
    BY <1>4 DEF PowerDownHalf, ReleaseHalf
  <2>3. Threads'
    BY <2>2 DEF Threads
  <2> QED  BY <2>1, <2>2, <2>3 DEF TypeOK
<1>5. CASE PoweredDown(c)
  <2>1. Backlog \in BOOLEAN
    BY DEF Backlog
  <2>2. cut' \in BOOLEAN
    BY <1>5, <2>1 DEF PoweredDown, TypeOK
  <2>3. pc' \in [Clients -> {"idle", "grab", "stopping"}]
    BY <1>5 DEF PoweredDown, TypeOK
  <2>4. /\ buffered' \in BOOLEAN /\ clobbered' \in BOOLEAN
        /\ torn' \in {"no", "mixed", "freed"} /\ started' = FALSE /\ api' = {}
        /\ UNCHANGED <<requested, completed, raw, jpeg>>
    BY <1>5, FreeBufferTypes DEF PoweredDown
  <2>5. UNCHANGED <<running, recording, phase, poolVars, frameVars, buffers,
                    storeVars, fileVars>>
    BY <1>5 DEF PoweredDown
  <2>6. Threads'
    BY <2>5 DEF Threads
  <2> QED  BY <2>2, <2>3, <2>4, <2>5, <2>6 DEF TypeOK
<1>6. CASE Grab(c)
  BY <1>6 DEF Grab, TypeOK, Threads
<1>7. CASE Grabbed(c)
  BY <1>7 DEF Grabbed, TypeOK, Threads
<1>8. CASE StartRecording(c)
  <2>1. <<>> \in Seq(Images)
    BY EmptySeq
  <2>2. id' \in 0..MaxRecordings /\ file' \in 0..MaxRecordings
    BY <1>8, BoundsAssumption DEF StartRecording
  <2>3. files' \in [1..MaxRecordings -> Seq(Images)]
    BY <1>8, <2>1 DEF StartRecording, TypeOK
  <2> QED  BY <1>8, <2>2, <2>3 DEF StartRecording, TypeOK, Threads
<1>9. CASE StopRecording(c)
  BY <1>9 DEF StopRecording, TypeOK, Threads
<1> QED
  BY <1>1, <1>2, <1>3, <1>4, <1>5, <1>6, <1>7, <1>8, <1>9 DEF Client

LEMMA DestructorTypes ==
  ASSUME TypeOK, Threads, Destructor
  PROVE  TypeOK' /\ Threads'
<1> USE DEF apiVars, imageVars, poolVars, frameVars, storeVars, fileVars
<1>1. CASE Destroy \/ FrameThreadJoined \/ BufferThreadJoined
  BY <1>1 DEF Destroy, FrameThreadJoined, BufferThreadJoined, Quit, TypeOK, Threads
<1>2. CASE Destroyed
  BY <1>2, FreeBufferTypes DEF Destroyed, ReleaseHalf, TypeOK, Threads
<1> QED  BY <1>1, <1>2 DEF Destructor

(* by the callback *)
LEMMA CallbackTypes ==
  ASSUME TypeOK, Threads, Callback
  PROVE  TypeOK' /\ Threads'
<1> USE BoundsAssumption
    DEF apiVars, imageVars, poolVars, frameVars, storeVars, fileVars
<1>1. CASE Capture
  <2>1. shots' \in 0..MaxShots /\ shots + 1 \in 1..MaxShots
    BY <1>1 DEF Capture, TypeOK
  <2>2. callback' \in Seq(Frames) /\ Len(callback') <= 1 /\ free' \subseteq Memory
    <3>1. CASE UNCHANGED <<free, callback>>
      BY <3>1 DEF TypeOK, Threads
    <3>2. ASSUME NEW m \in free, callback' = <<[memory |-> m, shot |-> shots + 1]>>,
                 free' = free \ {m}
          PROVE  callback' \in Seq(Frames) /\ Len(callback') <= 1 /\ free' \subseteq Memory
      <4>1. [memory |-> m, shot |-> shots + 1] \in Frames
        BY <2>1 DEF TypeOK, Frames
      <4> QED  BY <4>1, <3>2 DEF TypeOK
    <3> QED  BY <1>1, <3>1, <3>2 DEF Capture
  <2> QED  BY <1>1, <2>1, <2>2 DEF Capture, TypeOK, Threads
<1>2. CASE Enqueue
  <2>1. queue' \in Seq(Frames) /\ callback' \in Seq(Frames) /\ Len(callback') <= 1
    BY <1>2, EmptySeq DEF Enqueue, TypeOK
  <2> QED  BY <1>2, <2>1 DEF Enqueue, TypeOK, Threads
<1>3. CASE Compress
  <2>1. /\ raw' \in Images /\ clobbered' \in BOOLEAN
        /\ torn' \in {"no", "mixed", "freed"}
    BY <1>3 DEF Compress, Still, Images, TypeOK
  <2> QED  BY <1>3, <2>1 DEF Compress, TypeOK, Threads
<1>4. CASE Deliver
  BY <1>4 DEF Deliver, TypeOK, Threads
<1> QED  BY <1>1, <1>2, <1>3, <1>4 DEF Callback

(* by the frame thread *)
LEMMA FrameThreadTypes ==
  ASSUME TypeOK, Threads, FrameThread
  PROVE  TypeOK' /\ Threads'
<1> USE BoundsAssumption, SizeAssumption
    DEF apiVars, imageVars, poolVars, frameVars, storeVars, fileVars
<1>1. CASE PopFrame
  <2>1. frame' \in Seq(Frames) /\ Len(frame') = 1 /\ queue' \in Seq(Frames)
    BY <1>1, HeadTailProperties DEF PopFrame, TypeOK
  <2> QED  BY <1>1, <2>1 DEF PopFrame, TypeOK, Threads
<1>2. CASE ConvertBegins
  <2>1. Len(frame) = 1
    BY <1>2 DEF ConvertBegins, Threads
  <2>2. raw' \in Images /\ torn' \in {"no", "mixed", "freed"} /\ clobbered' \in BOOLEAN
    BY <1>2 DEF ConvertBegins, Compressing, Still, Images, TypeOK
  <2> QED  BY <1>2, <2>1, <2>2 DEF ConvertBegins, TypeOK, Threads
<1>3. CASE ConvertEnds
  <2>1. Len(frame) = 1
    BY <1>3 DEF ConvertEnds, Threads
  <2>2. raw' \in Images
    <3>1. frame[1].shot \in Images
      BY <2>1, OneFrame DEF Images
    <3>2. 0..shots \subseteq Images
      BY DEF Images, TypeOK
    <3>3. Converted \subseteq Images
      BY <3>1, <3>2 DEF Converted, TypeOK
    <3> QED  BY <1>3, <3>3 DEF ConvertEnds
  <2> QED  BY <1>3, <2>1, <2>2 DEF ConvertEnds, TypeOK, Threads
<1>8. CASE UseAfterFree
  BY <1>8 DEF UseAfterFree, TypeOK, Threads
<1>4. CASE AppendImage
  <2>1. offset' \in 0..BufferSize /\ offset + 1 \in 1..BufferSize
    BY <1>4, SMTT(20) DEF AppendImage, TypeOK
  <2>2. memory' \in [{0, 1} -> [1..BufferSize -> Images]]
    BY <1>4, <2>1 DEF AppendImage, Put, TypeOK, Threads
  <2>3. [1..BufferSize -> Images] \subseteq Seq(Images)
    OBVIOUS
  <2>4. memory' \in [{0, 1} -> Seq(Images)]
    BY <2>2, <2>3
  <2>5. Len(frame) = 1
    BY <1>4 DEF AppendImage, Threads
  <2> QED  BY <1>4, <2>1, <2>2, <2>4, <2>5 DEF AppendImage, TypeOK, Threads
<1>5. CASE SwapBuffers
  <2>1. 1 - current \in {0, 1} /\ current' = 1 - current /\ offset' \in 0..BufferSize
    BY <1>5 DEF SwapBuffers, TypeOK
  <2>2. memory' \in [{0, 1} -> [1..BufferSize -> Images]]
    <3>1. memory' = [memory EXCEPT ![1 - current] = Put(@, 0, raw)]
      BY <1>5 DEF SwapBuffers
    <3>2. Put(memory[1 - current], 0, raw) \in [1..BufferSize -> Images]
      BY <2>1 DEF Put, TypeOK, Threads
    <3> QED  BY <3>1, <3>2 DEF Threads
  <2>3. [1..BufferSize -> Images] \subseteq Seq(Images)
    OBVIOUS
  <2>4. memory' \in [{0, 1} -> Seq(Images)]
    BY <2>2, <2>3
  <2>5. buffers' \in Seq(Chunks)
    <3>1. [index |-> current, length |-> offset] \in Chunks
      BY DEF Chunks, TypeOK
    <3> QED  BY <1>5, <3>1, AppendProperties DEF SwapBuffers, Threads
  <2>6. Len(frame) = 1
    BY <1>5 DEF SwapBuffers, Threads
  <2> QED  BY <1>5, <2>1, <2>2, <2>4, <2>5, <2>6 DEF SwapBuffers, TypeOK, Threads
<1>6. CASE FreeFrame
  <2>1. Len(frame) = 1
    BY <1>6 DEF FreeFrame, Threads
  <2>2. frame[1].memory \in Memory
    BY <2>1, OneFrame
  <2>3. <<>> \in Seq(Frames)
    BY EmptySeq
  <2> QED  BY <1>6, <2>2, <2>3 DEF FreeFrame, TypeOK, Threads
<1>7. CASE FrameThreadEnds
  BY <1>7 DEF FrameThreadEnds, TypeOK, Threads
<1> QED
  BY <1>1, <1>2, <1>3, <1>4, <1>5, <1>6, <1>7, <1>8 DEF FrameThread

(* What is written to a file are images. *)
LEMMA WrittenImages ==
  ASSUME TypeOK, Threads, NEW i \in {0, 1}, NEW n \in 0..BufferSize
  PROVE  Written(i, n) \in Seq(Images)
<1>1. \A k \in 1..n : memory[i][k] \in Images
  BY SizeAssumption DEF Threads
<1>2. n \in Int
  BY SizeAssumption
<1> QED  BY <1>1, <1>2, SubSeqProperties DEF Written

LEMMA ToFileTypes ==
  ASSUME TypeOK, NEW images \in Seq(Images), ToFile(images)
  PROVE  files' \in [1..MaxRecordings -> Seq(Images)]
<1>1. CASE file = 0
  BY <1>1 DEF ToFile, TypeOK
<1>2. CASE file # 0
  <2>1. file \in 1..MaxRecordings
    BY <1>2, BoundsAssumption DEF TypeOK
  <2>2. files[file] \o images \in Seq(Images)
    <3>1. files[file] \in Seq(Images)
      BY <2>1 DEF TypeOK
    <3> QED  BY <3>1, ConcatProperties
  <2>3. files' = [files EXCEPT ![file] = @ \o images]
    BY <1>2 DEF ToFile
  <2> QED  BY <2>1, <2>2, <2>3 DEF TypeOK
<1> QED  BY <1>1, <1>2

(* and by the buffer thread. *)
LEMMA BufferThreadTypes ==
  ASSUME TypeOK, Threads, BufferThread
  PROVE  TypeOK' /\ Threads'
<1> USE BoundsAssumption, SizeAssumption
    DEF apiVars, imageVars, poolVars, frameVars, storeVars, fileVars
<1>1. CASE PopBuffer
  <2>1. item' \in Chunks /\ buffers' \in Seq(Chunks)
    BY <1>1, HeadTailProperties DEF PopBuffer, Threads
  <2> QED  BY <1>1, <2>1, SMTT(20) DEF PopBuffer, TypeOK, Threads
<1>2. CASE WriteBuffer
  <2>1. item.index \in {0, 1} /\ item.length \in 0..BufferSize
    BY DEF Threads, Chunks
  <2>2. files' \in [1..MaxRecordings -> Seq(Images)]
    BY <1>2, <2>1, WrittenImages, ToFileTypes DEF WriteBuffer
  <2>3. NoBuffer \in Chunks
    BY DEF NoBuffer, Chunks
  <2> QED  BY <1>2, <2>2, <2>3 DEF WriteBuffer, TypeOK, Threads
<1>3. CASE NoBufferYet
  BY <1>3 DEF NoBufferYet, TypeOK, Threads
<1>4. CASE CloseIfStopped
  BY <1>4, SMTT(20) DEF CloseIfStopped, TypeOK, Threads
<1>5. CASE BufferThreadEnds
  <2>1. files' \in [1..MaxRecordings -> Seq(Images)]
    BY <1>5, WrittenImages, ToFileTypes DEF BufferThreadEnds, TypeOK
  <2> QED  BY <1>5, <2>1, SMTT(20) DEF BufferThreadEnds, TypeOK, Threads
<1> QED  BY <1>1, <1>2, <1>3, <1>4, <1>5 DEF BufferThread

LEMMA TypesKept ==
  ASSUME TypeOK, Threads, [Next]_vars
  PROVE  TypeOK' /\ Threads'
<1>1. CASE UNCHANGED vars
  BY <1>1 DEF vars, apiVars, imageVars, poolVars, frameVars, storeVars, fileVars,
              TypeOK, Threads
<1> QED
  BY <1>1, ClientTypes, DestructorTypes, CallbackTypes, FrameThreadTypes,
     BufferThreadTypes DEF Next

-----------------------------------------------------------------------------
(* The frame pool. *)
LEMMA InUseIs ==
  ASSUME TypeOK
  PROVE  InUse = In(callback) \cup In(queue) \cup In(frame)
<1>0. callback \in Seq(Frames) /\ queue \in Seq(Frames) /\ frame \in Seq(Frames)
  BY DEF TypeOK
<1>1. callback \o queue \in Seq(Frames) /\ In(callback \o queue) = In(callback) \cup In(queue)
  BY <1>0, InConcat
<1>2. In(InHand) = In(callback) \cup In(queue) \cup In(frame)
  BY <1>0, <1>1, InConcat DEF InHand
<1> QED  BY <1>2 DEF InUse, In

LEMMA FillPoolOwned ==
  ASSUME TypeOK, Threads, Owned, FillPool, UNCHANGED frame
  PROVE  Owned'
<1> SUFFICES ASSUME ~stale' PROVE Owned'
  BY DEF Owned
<1>1. InUse = {} /\ ~stale
  BY DEF FillPool
<1>2. InUse = In(callback) \cup In(queue) \cup In(frame)
  BY InUseIs
<1>3. In(callback) = {} /\ In(queue) = {} /\ In(frame) = {}
  BY <1>1, <1>2
<1>4. UNCHANGED <<callback, queue, frame>> /\ free' = Memory
  BY DEF FillPool, FreshPool
<1>5. Apart(queue)
  BY <1>1 DEF Owned
<1> QED  BY <1>3, <1>4, <1>5 DEF Owned

LEMMA CaptureOwned ==
  ASSUME TypeOK, Owned, Capture
  PROVE  Owned'
<1>1. UNCHANGED <<stale, queue, frame>> /\ callback = <<>>
  BY DEF Capture, CallbackIdle, frameVars
<1>2. CASE UNCHANGED <<free, callback>>
  BY <1>1, <1>2 DEF Owned
<1>3. ASSUME NEW m \in free, free' = free \ {m},
             callback' = <<[memory |-> m, shot |-> shots + 1]>>
      PROVE  Owned'
  <2>1. In(callback) = {} /\ In(callback') = {m}
    BY <1>1, <1>3, InOne
  <2> QED  BY <1>1, <1>3, <2>1 DEF Owned
<1> QED  BY <1>2, <1>3 DEF Capture

LEMMA EnqueueOwned ==
  ASSUME TypeOK, Threads, Owned, Enqueue
  PROVE  Owned'
<1>1. UNCHANGED <<stale, free, frame>> /\ callback' = <<>> /\ queue' = queue \o callback
  BY DEF Enqueue, frameVars
<1>2. callback \in Seq(Frames) /\ queue \in Seq(Frames) /\ Len(callback) <= 1
  BY DEF TypeOK, Threads
<1>3. In(callback') = {} /\ In(queue') = In(queue) \cup In(callback)
  BY <1>1, <1>2, InConcat, InOne
<1>4. ~stale => Apart(queue')
  BY <1>1, <1>2, Single, ApartConcat DEF Owned
<1> QED  BY <1>1, <1>3, <1>4 DEF Owned

LEMMA PopFrameOwned ==
  ASSUME TypeOK, Threads, Owned, PopFrame
  PROVE  Owned'
<1>1. /\ UNCHANGED <<stale, free, callback>> /\ queue # <<>>
      /\ frame' = <<Head(queue)>> /\ queue' = Tail(queue) /\ frame = <<>>
  BY DEF PopFrame, Threads
<1>2. queue \in Seq(Frames)
  BY DEF TypeOK
<1>3. In(frame) = {} /\ In(frame') = {Head(queue).memory}
  BY <1>1, InOne
<1>4. /\ In(queue) = {Head(queue).memory} \cup In(queue')
      /\ ~stale => Apart(queue') /\ Head(queue).memory \notin In(queue')
  BY <1>1, <1>2, InHead DEF Owned
<1> QED  BY <1>1, <1>3, <1>4 DEF Owned

LEMMA FreeFrameOwned ==
  ASSUME TypeOK, Threads, Owned, FreeFrame
  PROVE  Owned'
<1>1. /\ UNCHANGED <<stale, queue, callback>> /\ frame' = <<>> /\ Len(frame) = 1
      /\ free' = free \cup {frame[1].memory}
  BY DEF FreeFrame, Threads
<1>2. In(frame) = {frame[1].memory} /\ In(frame') = {}
  BY <1>1, OneFrame, InOne
<1> QED  BY <1>1, <1>2 DEF Owned

LEMMA OwnedKept ==
  ASSUME TypeOK, Threads, Owned, [Next]_vars
  PROVE  Owned'
<1>1. CASE UNCHANGED <<stale, free, queue, callback, frame>>
  BY <1>1 DEF Owned
<1>2. ASSUME NEW c \in Clients, Client(c) PROVE Owned'
  <2>1. CASE FillPool /\ UNCHANGED frame
    BY <2>1, FillPoolOwned
  <2> QED
    BY <1>1, <1>2, <2>1
    DEF Client, PowerUp, PowerUpFails, PowerDown, PowerDownHalf, ReleaseHalf,
        PoweredDown, Grab, Grabbed, StartRecording, StopRecording, poolVars, frameVars
<1>3. CASE Callback
  BY <1>1, <1>3, CaptureOwned, EnqueueOwned
  DEF Callback, Compress, Deliver, poolVars, frameVars
<1>4. CASE FrameThread
  BY <1>1, <1>4, PopFrameOwned, FreeFrameOwned
  DEF FrameThread, ConvertBegins, ConvertEnds, UseAfterFree, AppendImage, SwapBuffers,
      FrameThreadEnds, poolVars, frameVars
<1>5. CASE BufferThread
  BY <1>1, <1>5
  DEF BufferThread, PopBuffer, WriteBuffer, NoBufferYet, CloseIfStopped,
      BufferThreadEnds, poolVars, frameVars
<1>6. CASE Destructor
  BY <1>1, <1>6
  DEF Destructor, Destroy, FrameThreadJoined, BufferThreadJoined, Quit, Destroyed,
      ReleaseHalf, poolVars, frameVars
<1>7. CASE UNCHANGED vars
  BY <1>1, <1>7 DEF vars, poolVars, frameVars
<1> QED  BY <1>2, <1>3, <1>4, <1>5, <1>6, <1>7 DEF Next

-----------------------------------------------------------------------------
(* The image buffer. *)
Guarded == Inside /\ Buffered /\ CrashExplained

LEMMA ClientGuarded ==
  ASSUME TypeOK, Guarded, NEW c \in Clients, Client(c)
  PROVE  Guarded'
<1> USE DEF Guarded, CanCall, frameVars, poolVars, imageVars, CallbackIdle, Backlog,
            FreeBuffer, NewBuffer, FreedBuffer
<1>1. CASE PowerUp(c)
  BY <1>1 DEF PowerUp, FillPool, Inside, Buffered, CrashExplained
<1>2. CASE PowerUpFails(c)
  <2>1. Inside' /\ CrashExplained'
    BY <1>2 DEF PowerUpFails, Inside, CrashExplained
  <2>2. /\ phase' \in {"join2", "power_down", "gone"} => framePc' = "ended"
        /\ \A d \in Clients : pc'[d] = "stopping" => FALSE
    BY <1>2 DEF PowerUpFails, Inside, Buffered
  <2>3. cut' = TRUE
    BY <1>2 DEF PowerUpFails
  <2>4. started' => FALSE
    BY <1>2 DEF PowerUpFails, Buffered, Inside
  <2> QED  BY <2>1, <2>2, <2>3, <2>4 DEF Buffered
<1>3. CASE PowerDown(c)
  <2>1. Inside'
    BY <1>3 DEF PowerDown, Inside, TypeOK
  <2>2. Buffered' /\ CrashExplained'
    BY <1>3 DEF PowerDown, Inside, Buffered, CrashExplained, TypeOK
  <2> QED  BY <2>1, <2>2
<1>4. CASE PowerDownHalf(c)
  BY <1>4 DEF PowerDownHalf, ReleaseHalf, Inside, Buffered, CrashExplained
<1>5. CASE PoweredDown(c)
  BY <1>5 DEF PoweredDown, Inside, Buffered, CrashExplained, TypeOK
<1>6. CASE Grab(c)
  BY <1>6 DEF Grab, Inside, Buffered, CrashExplained, TypeOK
<1>7. CASE Grabbed(c)
  BY <1>7 DEF Grabbed, Inside, Buffered, CrashExplained, TypeOK
<1>8. CASE StartRecording(c)
  BY <1>8 DEF StartRecording, Inside, Buffered, CrashExplained
<1>9. CASE StopRecording(c)
  BY <1>9 DEF StopRecording, Inside, Buffered, CrashExplained
<1> QED
  BY <1>1, <1>2, <1>3, <1>4, <1>5, <1>6, <1>7, <1>8, <1>9 DEF Client

LEMMA GuardedKept ==
  ASSUME TypeOK, Guarded, [Next]_vars
  PROVE  Guarded'
<1> USE DEF apiVars, frameVars, poolVars, imageVars, CallbackIdle, Backlog, FreeBuffer,
            FreedBuffer, FreedFrame, NullBuffer
<1>1. CASE Callback
  BY <1>1 DEF Callback, Capture, Enqueue, Compress, Deliver,
              Guarded, Inside, Buffered, CrashExplained
<1>2. CASE FrameThread
  BY <1>2 DEF FrameThread, PopFrame, ConvertBegins, ConvertEnds, UseAfterFree, AppendImage,
              SwapBuffers, FreeFrame, FrameThreadEnds,
              Guarded, Inside, Buffered, CrashExplained
<1>3. CASE BufferThread
  BY <1>3 DEF BufferThread, PopBuffer, WriteBuffer, NoBufferYet, CloseIfStopped,
              BufferThreadEnds, Guarded, Inside, Buffered, CrashExplained
<1>4. CASE Destructor
  BY <1>4 DEF Destructor, Destroy, FrameThreadJoined, BufferThreadJoined, Quit,
              Destroyed, ReleaseHalf, Guarded, Inside, Buffered, CrashExplained
<1>5. CASE UNCHANGED vars
  BY <1>5 DEF vars, Guarded, Inside, Buffered, CrashExplained
<1> QED  BY <1>1, <1>2, <1>3, <1>4, <1>5, ClientGuarded DEF Next

-----------------------------------------------------------------------------
(* The two threads, the pool and the image buffer stay as described.       *)
THEOREM Invariance == Spec => []IInv
<1>1. IInv /\ [Next]_vars => IInv'
  BY TypesKept, OwnedKept, GuardedKept DEF IInv, Guarded
<1> QED  BY <1>1, Initially, PTL DEF Spec

(* No frame has two owners and none leaks; nothing is written past the end *)
(* of a file buffer (FrameAllocator, LibCamera::buffer_append).            *)
THEOREM Memories == Spec => []MemorySafe
<1>1. IInv => MemorySafe
  BY OwnedIntact DEF IInv, MemorySafe
<1> QED  BY <1>1, Invariance, PTL

(* The program crashes for a power_up that failed, a power_down with       *)
(* frames still to be compressed or appended, or a power_up that remade    *)
(* the pool with frames in use, only (LibCamera::convert_frames_to_jpeg,   *)
(* buffer_append, release_camera, FrameAllocator::clear).                  *)
THEOREM Crashes == Spec => []CrashExplained
<1>1. IInv => CrashExplained
  BY DEF IInv
<1> QED  BY <1>1, Invariance, PTL

-----------------------------------------------------------------------------
(* The order of the images.  As long as no buffer is reused before it was   *)
(* written, at most one waits or is being written, and the other is being   *)
(* filled (Slots); so what was appended is what was taken to be written,    *)
(* what is still to be written and what is being filled (Pipe).             *)

Pending == IF storePc = "write" THEN Written(item.index, item.length)
           ELSE IF buffers # <<>> THEN Written(buffers[1].index, buffers[1].length)
           ELSE <<>>

Slots ==
  /\ storePc \in {"test", "write", "close", "ended"}
  /\ storePc # "write" => item = NoBuffer
  /\ storePc = "ended" => /\ framePc = "ended" /\ buffers = <<>>
                          /\ phase \notin {"alive", "join1"}
  /\ phase \in {"power_down", "gone"} => storePc = "ended"
  /\ ~overrun => /\ Len(buffers) <= 1
                 /\ storePc = "write" => buffers = <<>> /\ item.index = 1 - current
                 /\ buffers # <<>> => buffers[1].index = 1 - current

Pipe ==
  /\ history \in Seq(Images) /\ drained \in Seq(Images)
  /\ ~overrun => history = (drained \o Pending) \o Filling

(* What is written of a file buffer. *)
LEMMA FirstOnes ==
  ASSUME NEW f \in [1..BufferSize -> Images], NEW m \in 0..BufferSize
  PROVE  /\ SubSeq(f, 1, m) \in Seq(Images) /\ Len(SubSeq(f, 1, m)) = m
         /\ \A k \in 1..m : SubSeq(f, 1, m)[k] = f[k]
<1>1. \A k \in 1..m : f[k] \in Images
  BY SizeAssumption
<1>2. m \in Int /\ (1 <= m => m - 1 + 1 = m) /\ (~(1 <= m) => m = 0)
  BY SizeAssumption
<1>3. /\ SubSeq(f, 1, m) \in Seq(Images)
      /\ Len(SubSeq(f, 1, m)) = IF 1 <= m THEN m - 1 + 1 ELSE 0
      /\ \A k \in 1..(m - 1 + 1) : SubSeq(f, 1, m)[k] = f[1 + k - 1]
  BY <1>1, <1>2, SubSeqProperties
<1> QED  BY <1>2, <1>3

LEMMA FirstIs ==
  ASSUME NEW x \in Images, NEW f \in [1..BufferSize -> Images], f[1] = x
  PROVE  SubSeq(f, 1, 1) = <<x>>
<1>1. 1 \in 0..BufferSize
  BY SizeAssumption
<1>2. /\ SubSeq(f, 1, 1) \in Seq(Images) /\ Len(SubSeq(f, 1, 1)) = 1
      /\ \A k \in 1..1 : SubSeq(f, 1, 1)[k] = f[k]
  BY <1>1, FirstOnes
<1>3. <<x>> \in Seq(Images) /\ Len(<<x>>) = 1 /\ <<x>>[1] = x
  OBVIOUS
<1>4. \A k \in 1..Len(<<x>>) : SubSeq(f, 1, 1)[k] = <<x>>[k]
  BY <1>2, <1>3
<1> QED  BY <1>2, <1>3, <1>4, SeqEqual

LEMMA OneMore ==
  ASSUME NEW f \in [1..BufferSize -> Images], NEW x \in Images,
         NEW m \in 0..BufferSize, m < BufferSize
  PROVE  /\ Put(f, m, x) \in [1..BufferSize -> Images]
         /\ SubSeq(Put(f, m, x), 1, m + 1) = Append(SubSeq(f, 1, m), x)
<1> DEFINE g == Put(f, m, x)
<1>1. m + 1 \in 0..BufferSize /\ m + 1 \in 1..BufferSize
  BY SizeAssumption
<1>2. /\ g \in [1..BufferSize -> Images] /\ g[m + 1] = x
      /\ \A k \in 1..m : g[k] = f[k]
  BY <1>1, SizeAssumption DEF Put
<1> HIDE DEF g
<1>3. /\ SubSeq(g, 1, m + 1) \in Seq(Images) /\ Len(SubSeq(g, 1, m + 1)) = m + 1
      /\ \A k \in 1..(m + 1) : SubSeq(g, 1, m + 1)[k] = g[k]
  BY <1>1, <1>2, FirstOnes
<1>4. /\ SubSeq(f, 1, m) \in Seq(Images) /\ Len(SubSeq(f, 1, m)) = m
      /\ \A k \in 1..m : SubSeq(f, 1, m)[k] = f[k]
  BY FirstOnes
<1>5. /\ Append(SubSeq(f, 1, m), x) \in Seq(Images)
      /\ Len(Append(SubSeq(f, 1, m), x)) = m + 1
      /\ \A k \in 1..m : Append(SubSeq(f, 1, m), x)[k] = f[k]
      /\ Append(SubSeq(f, 1, m), x)[m + 1] = x
  BY <1>4, AppendProperties
<1>6. \A k \in 1..(m + 1) : SubSeq(g, 1, m + 1)[k] = Append(SubSeq(f, 1, m), x)[k]
  BY <1>2, <1>3, <1>5, SizeAssumption
<1>7. SubSeq(g, 1, m + 1) = Append(SubSeq(f, 1, m), x)
  BY <1>3, <1>5, <1>6, SeqEqual
<1> QED  BY <1>2, <1>7 DEF g

LEMMA SlotsKept ==
  ASSUME IInv, Slots, [Next]_vars
  PROVE  Slots'
<1> USE DEF apiVars, imageVars, poolVars, frameVars, storeVars, fileVars, IInv
<1>1. CASE UNCHANGED vars
  BY <1>1 DEF vars, Slots
<1>2. ASSUME NEW c \in Clients, Alive /\ Client(c) PROVE Slots'
  <2>1. UNCHANGED <<storePc, item, framePc, buffers, overrun, current>>
    BY <1>2
    DEF Client, PowerUp, PowerUpFails, PowerDown, PowerDownHalf, ReleaseHalf,
        PoweredDown, Grab, Grabbed, StartRecording, StopRecording
  <2>2. phase = "alive" => phase' \in {"alive", "crashed"}
    BY <1>2
    DEF Client, PowerUp, PowerUpFails, PowerDown, PowerDownHalf, ReleaseHalf,
        PoweredDown, Grab, Grabbed, StartRecording, StopRecording
  <2>3. phase' \in {phase, "crashed"}
    BY <1>2
    DEF Client, PowerUp, PowerUpFails, PowerDown, PowerDownHalf, ReleaseHalf,
        PoweredDown, Grab, Grabbed, StartRecording, StopRecording
  <2> QED  BY <2>1, <2>3 DEF Slots
<1>3. CASE Callback
  <2>1. UNCHANGED <<storePc, item, framePc, buffers, overrun, current, phase>>
    BY <1>3 DEF Callback, Capture, Enqueue, Compress, Deliver
  <2> QED  BY <2>1 DEF Slots
<1>4. CASE SwapBuffers
  <2>1. /\ UNCHANGED <<storePc, item, phase>> /\ framePc = "append" /\ framePc' = "free"
        /\ current' = 1 - current
        /\ buffers' = Append(buffers, [index |-> current, length |-> offset])
    BY <1>4 DEF SwapBuffers
  <2>2. /\ overrun \in BOOLEAN => (~overrun' => ~overrun)
        /\ ~overrun' => ~overrun /\ ~(storePc = "write" /\ item.index = 1 - current)
        /\ ~overrun' => \A k \in 1..Len(buffers) : buffers[k].index # 1 - current
    BY <1>4 DEF SwapBuffers
  <2>3. ~overrun' => storePc # "write" /\ buffers = <<>>
    <3>1. buffers # <<>> => 1 \in 1..Len(buffers)
      BY EmptySeq DEF Threads
    <3> QED  BY <2>2, <3>1 DEF Slots
  <2>4. ~overrun' => /\ buffers' = <<[index |-> current, length |-> offset]>>
                     /\ Len(buffers') = 1 /\ buffers'[1].index = current
    BY <2>1, <2>3
  <2>5. 1 - current' = current
    BY <2>1 DEF TypeOK
  <2>6. storePc # "ended"
    BY <2>1 DEF Slots
  <2>7. phase' \notin {"power_down", "gone"}
    BY <2>1, <2>6 DEF Slots
  <2> QED  BY <2>1, <2>3, <2>4, <2>5, <2>6, <2>7 DEF Slots
<1>5. ASSUME FrameThread, ~SwapBuffers PROVE Slots'
  <2>1. UNCHANGED <<storePc, item, buffers, overrun, current>>
    BY <1>5 DEF FrameThread, PopFrame, ConvertBegins, ConvertEnds, UseAfterFree, AppendImage,
                FreeFrame, FrameThreadEnds
  <2>2. phase' \in {phase, "crashed"} /\ (framePc = "ended" => framePc' = "ended")
    BY <1>5 DEF FrameThread, PopFrame, ConvertBegins, ConvertEnds, UseAfterFree, AppendImage,
                FreeFrame, FrameThreadEnds
  <2> QED  BY <2>1, <2>2 DEF Slots
<1>6. CASE PopBuffer
  <2>1. /\ UNCHANGED <<phase, framePc, overrun, current>>
        /\ storePc = "test" /\ storePc' = "write" /\ buffers # <<>>
        /\ item' = buffers[1] /\ buffers' = Tail(buffers)
    BY <1>6 DEF PopBuffer, Threads
  <2>2. ~overrun => Len(buffers) = 1 /\ Tail(buffers) = <<>>
    <3>1. ~overrun => Len(buffers) = 1
      <4>1. Len(buffers) \in Nat /\ Len(buffers) # 0
        BY <2>1, EmptySeq DEF Threads
      <4>2. ~overrun => Len(buffers) <= 1
        BY DEF Slots
      <4> QED  BY <4>1, <4>2
    <3>2. Len(buffers) = 1 => Len(Tail(buffers)) = 0 /\ Tail(buffers) \in Seq(Chunks)
      BY <2>1, HeadTailProperties DEF Threads
    <3>3. Len(buffers) = 1 => Tail(buffers) = <<>>
      BY <3>2, EmptySeq
    <3> QED  BY <3>1, <3>3
  <2>3. Len(<<>>) = 0
    BY EmptySeq
  <2> QED  BY <2>1, <2>2, <2>3 DEF Slots
<1>7. CASE WriteBuffer
  BY <1>7 DEF WriteBuffer, Slots
<1>8. CASE NoBufferYet \/ CloseIfStopped
  BY <1>8 DEF NoBufferYet, CloseIfStopped, Slots
<1>9. CASE BufferThreadEnds
  BY <1>9 DEF BufferThreadEnds, Slots, Buffered
<1>10. CASE Destructor
  <2>1. UNCHANGED <<storePc, item, framePc, buffers, overrun, current>>
    BY <1>10 DEF Destructor, Destroy, FrameThreadJoined, BufferThreadJoined, Quit,
                 Destroyed, ReleaseHalf
  <2>2. /\ phase' \in {"power_down", "gone"} => storePc = "ended"
        /\ storePc = "ended" => phase' \notin {"alive", "join1"}
    BY <1>10 DEF Destructor, Destroy, FrameThreadJoined, BufferThreadJoined, Quit,
                 Destroyed, ReleaseHalf, Slots
  <2> QED  BY <2>1, <2>2 DEF Slots
<1> QED
  BY <1>1, <1>2, <1>3, <1>4, <1>5, <1>6, <1>7, <1>8, <1>9, <1>10
  DEF Next, BufferThread, FrameThread

(* A file buffer and a part of it that can be written. *)
LEMMA BufferParts ==
  ASSUME TypeOK, Threads
  PROVE  /\ Pending \in Seq(Images) /\ Filling \in Seq(Images)
         /\ Written(current, offset) \in Seq(Images)
         /\ Written(item.index, item.length) \in Seq(Images)
<1>1. item.index \in {0, 1} /\ item.length \in 0..BufferSize
  BY DEF Threads, Chunks
<1>2. buffers # <<>> => /\ buffers[1].index \in {0, 1}
                        /\ buffers[1].length \in 0..BufferSize
  <2>1. buffers # <<>> => 1 \in 1..Len(buffers)
    BY EmptySeq DEF Threads
  <2>2. buffers # <<>> => buffers[1] \in Chunks
    BY <2>1 DEF Threads
  <2> QED  BY <2>2 DEF Chunks
<1>3. Written(current, offset) \in Seq(Images)
  BY WrittenImages DEF TypeOK
<1>4. Written(item.index, item.length) \in Seq(Images)
  BY <1>1, WrittenImages
<1>5. buffers # <<>> => Written(buffers[1].index, buffers[1].length) \in Seq(Images)
  BY <1>2, WrittenImages
<1>6. <<>> \in Seq(Images)
  BY EmptySeq
<1> QED  BY <1>3, <1>4, <1>5, <1>6 DEF Pending, Filling

(* The buffer that is not being filled stays as it is. *)
LEMMA AppendPipe ==
  ASSUME IInv, Slots, Pipe, AppendImage
  PROVE  Pipe'
<1>1. /\ framePc = "append" /\ offset < BufferSize /\ offset' = offset + 1
      /\ memory' = [memory EXCEPT ![current] = Put(@, offset, raw)]
      /\ history' = Append(history, raw)
      /\ UNCHANGED <<current, overrun, buffers, item, storePc, drained>>
  BY DEF AppendImage, storeVars
<1>2. /\ current \in {0, 1} /\ offset \in 0..BufferSize /\ raw \in Images
      /\ memory \in [{0, 1} -> [1..BufferSize -> Images]]
      /\ storePc # "ended" /\ memory[current] \in [1..BufferSize -> Images]
  BY <1>1 DEF IInv, TypeOK, Threads, Slots
<1>3. /\ SubSeq(Put(memory[current], offset, raw), 1, offset + 1)
           = Append(SubSeq(memory[current], 1, offset), raw)
  BY <1>1, <1>2, OneMore
<1>4. memory'[current] = Put(memory[current], offset, raw) /\ memory'[1 - current] = memory[1 - current]
  BY <1>1, <1>2
<1>5. Filling' = Append(Filling, raw)
  BY <1>1, <1>2, <1>3, <1>4 DEF Filling, Written
<1>6. ~overrun => Pending' = Pending
  BY <1>1, <1>4 DEF Pending, Written, Slots
<1>7. Pending \in Seq(Images) /\ Filling \in Seq(Images)
  BY BufferParts DEF IInv
<1>8. /\ history \in Seq(Images) /\ drained \in Seq(Images)
      /\ ~overrun => history = (drained \o Pending) \o Filling
  BY DEF Pipe
<1>9. (drained \o Pending) \o Append(Filling, raw) = Append((drained \o Pending) \o Filling, raw)
  <2>1. drained \o Pending \in Seq(Images)
    BY <1>7, <1>8, ConcatProperties
  <2>2. (drained \o Pending) \o Filling \in Seq(Images) /\ <<raw>> \in Seq(Images)
    BY <1>2, <1>7, <2>1, ConcatProperties
  <2>3. /\ Append(Filling, raw) = Filling \o <<raw>>
        /\ Append((drained \o Pending) \o Filling, raw) = ((drained \o Pending) \o Filling) \o <<raw>>
    BY <1>2, <1>7, <2>2, AppendIsConcat
  <2> QED  BY <1>7, <2>1, <2>2, <2>3, ConcatAssociative
<1>10. history' \in Seq(Images)
  BY <1>1, <1>2, <1>8, AppendProperties
<1> QED  BY <1>1, <1>5, <1>6, <1>8, <1>9, <1>10 DEF Pipe

LEMMA SwapPipe ==
  ASSUME IInv, Slots, Pipe, Slots', SwapBuffers
  PROVE  Pipe'
<1>1. /\ framePc = "append" /\ offset' = 1 /\ current' = 1 - current
      /\ memory' = [memory EXCEPT ![1 - current] = Put(@, 0, raw)]
      /\ history' = Append(history, raw)
      /\ buffers' = Append(buffers, [index |-> current, length |-> offset])
      /\ UNCHANGED <<item, storePc, drained>>
  BY DEF SwapBuffers, storeVars
<1>2. /\ current \in {0, 1} /\ offset \in 0..BufferSize /\ raw \in Images
      /\ memory \in [{0, 1} -> [1..BufferSize -> Images]]
      /\ storePc # "ended" /\ 1 - current \in {0, 1}
      /\ memory[1 - current] \in [1..BufferSize -> Images]
      /\ buffers \in Seq(Chunks)
  BY <1>1 DEF IInv, TypeOK, Threads, Slots
<1>3. memory'[1 - current] = Put(memory[1 - current], 0, raw) /\ memory'[current] = memory[current]
  BY <1>1, <1>2
<1>4. Filling' = <<raw>>
  <2>1. /\ Put(memory[1 - current], 0, raw) \in [1..BufferSize -> Images]
        /\ Put(memory[1 - current], 0, raw)[1] = raw
    BY <1>2, SizeAssumption DEF Put
  <2> QED  BY <1>1, <1>2, <1>3, <2>1, FirstIs DEF Filling, Written
<1>5. ~overrun' => ~overrun /\ storePc # "write" /\ buffers = <<>>
  <2>1. ~overrun' => ~overrun
    BY DEF SwapBuffers
  <2>2. ~overrun' => Len(buffers') <= 1 /\ (storePc' = "write" => buffers' = <<>>)
    BY DEF Slots
  <2>3. Len(buffers') = Len(buffers) + 1 /\ Len(<<>>) = 0
    BY <1>1, <1>2, EmptySeq, AppendProperties
  <2>4. Len(buffers) \in Nat
    BY <1>2
  <2>5. buffers' # <<>>
    BY <2>3, <2>4
  <2>6. ~overrun' => Len(buffers) = 0
    BY <2>2, <2>3, <2>4
  <2> QED  BY <1>1, <1>2, <2>1, <2>2, <2>5, <2>6, EmptySeq
<1>6. ~overrun' => Pending = <<>> /\ Pending' = Filling
  <2>1. Filling = SubSeq(memory[current], 1, offset)
    BY <1>2 DEF Filling, Written
  <2>2. buffers = <<>> => buffers' # <<>> /\ buffers'[1] = [index |-> current, length |-> offset]
    BY <1>1, <1>2
  <2>3. buffers = <<>> => buffers' # <<>> /\ buffers'[1].index = current /\ buffers'[1].length = offset
    BY <2>2
  <2>4. ~overrun' => Pending = <<>>
    BY <1>5 DEF Pending
  <2>5. ~overrun' => Pending' = Written(buffers[1].index, buffers[1].length)'
    BY <1>1, <1>5, <2>3 DEF Pending
  <2>6. ~overrun' => Pending' = SubSeq(memory'[current], 1, offset)
    BY <1>5, <2>3, <2>5 DEF Written
  <2> QED  BY <1>3, <2>1, <2>4, <2>6
<1>7. Filling \in Seq(Images)
  BY BufferParts DEF IInv
<1>8. /\ history \in Seq(Images) /\ drained \in Seq(Images)
      /\ ~overrun => history = (drained \o Pending) \o Filling
  BY DEF Pipe
<1>9. ~overrun' => history' = (drained' \o Pending') \o Filling'
  <2> SUFFICES ASSUME ~overrun' PROVE history' = (drained' \o Pending') \o Filling'
    OBVIOUS
  <2>1. drained \o <<>> = drained
    BY <1>8, ConcatEmptySeq
  <2>2. history = drained \o Filling
    BY <1>5, <1>6, <1>8, <2>1
  <2> QED  BY <1>1, <1>2, <1>4, <1>6, <1>8, <2>2, AppendIsConcat
<1>10. history' \in Seq(Images)
  BY <1>1, <1>2, <1>8, AppendProperties
<1> QED  BY <1>1, <1>8, <1>9, <1>10 DEF Pipe

LEMMA PopPipe ==
  ASSUME IInv, Slots, Pipe, PopBuffer
  PROVE  Pipe'
<1>1. /\ UNCHANGED <<memory, current, offset, overrun, history, drained>>
      /\ storePc = "test" /\ storePc' = "write" /\ buffers # <<>>
      /\ item' = buffers[1]
  BY DEF PopBuffer, Threads, frameVars, IInv
<1>2. Pending' = Pending /\ Filling' = Filling
  BY <1>1 DEF Pending, Filling, Written
<1> QED  BY <1>1, <1>2 DEF Pipe

LEMMA WritePipe ==
  ASSUME IInv, Slots, Pipe, WriteBuffer
  PROVE  Pipe'
<1>1. /\ UNCHANGED <<memory, current, offset, overrun, history, buffers>>
      /\ storePc = "write" /\ storePc' = "close"
      /\ drained' = drained \o Written(item.index, item.length)
  BY DEF WriteBuffer, ToFile, frameVars
<1>2. Pending = Written(item.index, item.length) /\ Filling' = Filling
  BY <1>1 DEF Pending, Filling, Written
<1>3. ~overrun => Pending' = <<>>
  BY <1>1 DEF Slots, Pending
<1>4. drained \o Pending \in Seq(Images)
  BY BufferParts, ConcatProperties DEF IInv, Pipe
<1>5. (drained \o Pending) \o <<>> = drained \o Pending
  BY <1>4, ConcatEmptySeq
<1> QED  BY <1>1, <1>2, <1>3, <1>4, <1>5 DEF Pipe

LEMMA EndPipe ==
  ASSUME IInv, Slots, Pipe, BufferThreadEnds
  PROVE  Pipe'
<1>1. /\ UNCHANGED <<memory, current, offset, overrun, history, buffers>>
      /\ storePc = "test" /\ storePc' = "ended" /\ buffers = <<>>
      /\ drained' = drained \o Written(current, offset)
  BY DEF BufferThreadEnds, ToFile, frameVars
<1>2. /\ Pending = <<>> /\ Pending' = <<>> /\ Filling' = <<>>
      /\ Filling = Written(current, offset)
  BY <1>1 DEF Pending, Filling
<1>3. drained \in Seq(Images) /\ Filling \in Seq(Images)
  BY BufferParts DEF IInv, Pipe
<1>4. drained \o Filling \in Seq(Images) /\ drained \o <<>> = drained
  BY <1>3, ConcatProperties, ConcatEmptySeq
<1>5. ((drained \o Filling) \o <<>>) \o <<>> = drained \o Filling
  BY <1>4, ConcatEmptySeq
<1> QED  BY <1>1, <1>2, <1>4, <1>5 DEF Pipe

LEMMA PipeKept ==
  ASSUME IInv, Slots, Pipe, Slots', [Next]_vars
  PROVE  Pipe'
<1>1. CASE UNCHANGED <<history, drained, overrun, storePc, item, buffers, memory,
                       current, offset>>
  BY <1>1 DEF Pipe, Pending, Filling, Written
<1>2. ASSUME NEW c \in Clients, Client(c) PROVE Pipe'
  BY <1>1, <1>2
  DEF Client, PowerUp, PowerUpFails, PowerDown, PowerDownHalf, ReleaseHalf,
      PoweredDown, Grab, Grabbed, StartRecording, StopRecording, frameVars, storeVars
<1>3. CASE Callback
  BY <1>1, <1>3 DEF Callback, Capture, Enqueue, Compress, Deliver, frameVars, storeVars
<1>4. ASSUME FrameThread, ~AppendImage, ~SwapBuffers PROVE Pipe'
  BY <1>1, <1>4
  DEF FrameThread, PopFrame, ConvertBegins, ConvertEnds, UseAfterFree, FreeFrame,
      FrameThreadEnds, frameVars, storeVars
<1>5. CASE NoBufferYet \/ CloseIfStopped
  <2>1. storePc # "write" /\ storePc' # "write" /\ storePc # "ended" /\ storePc' # "ended"
    BY <1>5 DEF NoBufferYet, CloseIfStopped
  <2>2. UNCHANGED <<history, drained, overrun, buffers, memory, current, offset>>
    BY <1>5 DEF NoBufferYet, CloseIfStopped, frameVars
  <2>3. Pending' = Pending /\ Filling' = Filling
    BY <2>1, <2>2 DEF Pending, Filling, Written
  <2> QED  BY <2>2, <2>3 DEF Pipe
<1>6. CASE Destructor
  BY <1>1, <1>6
  DEF Destructor, Destroy, FrameThreadJoined, BufferThreadJoined, Quit, Destroyed,
      ReleaseHalf, frameVars, storeVars
<1>7. CASE UNCHANGED vars
  BY <1>1, <1>7 DEF vars, frameVars, storeVars
<1> QED
  BY <1>2, <1>3, <1>4, <1>5, <1>6, <1>7, AppendPipe, SwapPipe, PopPipe, WritePipe,
     EndPipe
  DEF Next, FrameThread, BufferThread

(* What is queued is one buffer or none. *)
LEMMA FlattenFew ==
  /\ \A s : Len(s) = 0 => FlattenSeq(s) = s
  /\ \A s : Len(s) = 1 => FlattenSeq(s) = s[1]
<1>1. \A s : Len(s) = 0 => FlattenSeq(s) = s
  BY DEF FlattenSeq
<1>2. ASSUME NEW s, Len(s) = 1 PROVE FlattenSeq(s) = s[1]
  <2> DEFINE Is(f) == f = [i \in 1..1 |-> IF i = 1 THEN s[i] ELSE f[i - 1] \o s[i]]
             f == [i \in 1..1 |-> s[1]]
  <2>1. Is(f)
    OBVIOUS
  <2>2. \A g : Is(g) => g[1] = s[1]
    OBVIOUS
  <2> HIDE DEF f
  <2>3. Is(CHOOSE g : Is(g))
    BY <2>1
  <2>4. (CHOOSE g : Is(g))[1] = s[1]
    BY <2>2, <2>3
  <2> QED  BY <1>2, <2>4 DEF FlattenSeq
<1> QED  BY <1>1, <1>2

LEMMA AtMostOne == \A x \in Nat : x # 0 /\ x <= 1 => x = 1
OBVIOUS

LEMMA PipelineIs ==
  ASSUME IInv, Slots, Pipe
  PROVE  PipelineKeepsOrder
<1> SUFFICES ASSUME ~overrun
             PROVE  history = ((drained \o Written(item.index, item.length)) \o Queued) \o Filling
  BY DEF PipelineKeepsOrder
<1>1. Len(buffers) <= 1 /\ Len(buffers) \in Nat /\ (buffers = <<>> <=> Len(buffers) = 0)
  BY EmptySeq DEF Slots, IInv, Threads
<1> DEFINE q == [k \in 1..Len(buffers) |-> Written(buffers[k].index, buffers[k].length)]
<1>2. Queued = FlattenSeq(q) /\ q \in Seq({q[k] : k \in 1..Len(buffers)}) /\ Len(q) = Len(buffers)
  BY <1>1 DEF Queued
<1>3. buffers = <<>> => Queued = <<>>
  <2>1. buffers = <<>> => Len(q) = 0 /\ q = <<>>
    BY <1>1, <1>2, EmptySeq
  <2> QED  BY <1>2, <2>1, FlattenFew
<1>4. buffers # <<>> => Queued = Written(buffers[1].index, buffers[1].length)
  <2>1. ASSUME buffers # <<>> PROVE Len(buffers) = 1
    <3>1. Len(buffers) # 0
      BY <1>1, <2>1, Zenon
    <3>2. Len(buffers) \in Nat /\ Len(buffers) <= 1
      BY <1>1, Zenon
    <3> QED  BY <3>1, <3>2, AtMostOne, Zenon
  <2>2. buffers # <<>> => Len(q) = 1 /\ q[1] = Written(buffers[1].index, buffers[1].length)
    BY <1>2, <2>1
  <2> QED  BY <1>2, <2>2, FlattenFew
<1>5. storePc # "write" => Written(item.index, item.length) = <<>>
  <2>1. storePc # "write" => item.length = 0 /\ item.index = 0
    BY DEF Slots, NoBuffer
  <2>2. SubSeq(memory[0], 1, 0) = <<>>
    BY SubSeqEmpty
  <2> QED  BY <2>1, <2>2 DEF Written
<1>6. drained \in Seq(Images) /\ Written(item.index, item.length) \in Seq(Images)
  BY BufferParts DEF IInv, Pipe
<1>7. drained \o <<>> = drained /\ drained \o Written(item.index, item.length) \in Seq(Images)
  BY <1>6, ConcatEmptySeq, ConcatProperties
<1>8. history = (drained \o Pending) \o Filling
  BY DEF Pipe
<1>9. CASE storePc = "write"
  <2>1. buffers = <<>> /\ Pending = Written(item.index, item.length)
    BY <1>9 DEF Slots, Pending
  <2>2. (drained \o Written(item.index, item.length)) \o <<>>
          = drained \o Written(item.index, item.length)
    BY <1>7, ConcatEmptySeq
  <2> QED  BY <1>3, <1>8, <2>1, <2>2
<1>10. CASE storePc # "write"
  <2>1. Pending = Queued
    BY <1>3, <1>4, <1>10 DEF Pending
  <2> QED  BY <1>5, <1>7, <1>8, <1>10, <2>1
<1> QED  BY <1>9, <1>10

-----------------------------------------------------------------------------
(* The order of the shots: those that are on their way follow each other    *)
(* and those that were appended (Ordered).                                  *)

Values(s) == {s[k] : k \in 1..Len(s)}
Shots(s) == {s[k].shot : k \in 1..Len(s)}
Rising(s) == \A k, l \in 1..Len(s) : k < l => s[k].shot < s[l].shot
Below(S, T) == \A x \in S, y \in T : x < y
Coming ==
  IF framePc \in {"convert", "converting", "append"} THEN Shots(frame) ELSE {}

Waiting ==
  /\ Rising(queue)
  /\ Below(Coming, Shots(queue)) /\ Below(Coming, Shots(callback))
  /\ Below(Shots(queue), Shots(callback))
  /\ \A x \in Coming \cup Shots(queue) \cup Shots(callback) : x <= shots

Whole == ~clobbered /\ ~stale     \* nobody else wrote or freed the images

Appended ==
  Whole =>
    /\ Increasing(history)
    /\ Below(Values(history), Coming)
    /\ Below(Values(history), Shots(queue))
    /\ Below(Values(history), Shots(callback))
    /\ framePc = "converting" => torn = "no"
    /\ framePc = "append" => raw = frame[1].shot
    /\ \A x \in Values(history) : x <= shots

Ordered == Waiting /\ Appended

LEMMA ValuesConcat ==
  ASSUME NEW s \in Seq(Images), NEW t \in Seq(Images)
  PROVE  /\ s \o t \in Seq(Images)
         /\ Values(s \o t) = Values(s) \cup Values(t)
         /\ Values(s) \subseteq Images
         /\ Increasing(s \o t) <=>
              Increasing(s) /\ Increasing(t) /\ Below(Values(s), Values(t))
<1>1. /\ s \o t \in Seq(Images) /\ Len(s \o t) = Len(s) + Len(t)
      /\ Len(s) \in Nat /\ Len(t) \in Nat
  OBVIOUS
<1>2. \A i \in 1..Len(s) : i \in 1..Len(s \o t) /\ (s \o t)[i] = s[i]
  OBVIOUS
<1>3. \A i \in 1..Len(t) : Len(s) + i \in 1..Len(s \o t) /\ (s \o t)[Len(s) + i] = t[i]
  OBVIOUS
<1>4. \A i \in 1..Len(s \o t) : i \notin 1..Len(s) =>
        i - Len(s) \in 1..Len(t) /\ (s \o t)[i] = t[i - Len(s)]
  OBVIOUS
<1>5. Values(s) \subseteq Values(s \o t) /\ Values(t) \subseteq Values(s \o t)
  BY <1>2, <1>3 DEF Values
<1>6. ASSUME NEW m \in Values(s \o t) PROVE m \in Values(s) \cup Values(t)
  <2>1. PICK i \in 1..Len(s \o t) : m = (s \o t)[i]
    BY DEF Values
  <2>2. CASE i \in 1..Len(s)
    BY <2>1, <2>2, <1>2 DEF Values
  <2>3. CASE i \notin 1..Len(s)
    BY <2>1, <2>3, <1>4 DEF Values
  <2> QED  BY <2>2, <2>3
<1>7. Values(s) \subseteq Images
  BY DEF Values
<1>8. ASSUME Increasing(s \o t)
      PROVE  Increasing(s) /\ Increasing(t) /\ Below(Values(s), Values(t))
  <2>1. \A i, j \in 1..Len(s \o t) : i < j => (s \o t)[i] < (s \o t)[j]
    BY <1>8 DEF Increasing
  <2>2. Increasing(s)
    BY <1>2, <2>1 DEF Increasing
  <2>3. ASSUME NEW i \in 1..Len(t), NEW j \in 1..Len(t), i < j PROVE t[i] < t[j]
    <3>1. Len(s) + i < Len(s) + j
      BY <1>1, <2>3
    <3> QED  BY <1>3, <2>1, <3>1
  <2>4. ASSUME NEW i \in 1..Len(s), NEW j \in 1..Len(t) PROVE s[i] < t[j]
    <3>1. i < Len(s) + j
      BY <1>1
    <3> QED  BY <1>2, <1>3, <2>1, <3>1
  <2> QED  BY <2>2, <2>3, <2>4 DEF Increasing, Below, Values
<1>9. ASSUME Increasing(s), Increasing(t), Below(Values(s), Values(t))
      PROVE  Increasing(s \o t)
  <2> SUFFICES ASSUME NEW i \in 1..Len(s \o t), NEW j \in 1..Len(s \o t), i < j
               PROVE  (s \o t)[i] < (s \o t)[j]
    BY DEF Increasing
  <2>1. CASE j \in 1..Len(s)
    <3>1. i \in 1..Len(s)
      BY <2>1, <1>1
    <3> QED  BY <2>1, <3>1, <1>2, <1>9 DEF Increasing
  <2>2. CASE j \notin 1..Len(s) /\ i \in 1..Len(s)
    <3>1. s[i] \in Values(s) /\ t[j - Len(s)] \in Values(t)
      BY <2>2, <1>4 DEF Values
    <3> QED  BY <2>2, <3>1, <1>2, <1>4, <1>9 DEF Below
  <2>3. CASE j \notin 1..Len(s) /\ i \notin 1..Len(s)
    <3>1. i - Len(s) \in 1..Len(t) /\ j - Len(s) \in 1..Len(t) /\ i - Len(s) < j - Len(s)
      BY <2>3, <1>1, <1>4
    <3>2. t[i - Len(s)] < t[j - Len(s)]
      BY <3>1, <1>9 DEF Increasing
    <3> QED  BY <2>3, <3>2, <1>4
  <2> QED  BY <2>1, <2>2, <2>3
<1> QED  BY <1>1, <1>5, <1>6, <1>7, <1>8, <1>9

LEMMA ShotsOne ==
  /\ Shots(<<>>) = {} /\ \A x : Shots(<<x>>) = {x.shot}
  /\ Values(<<>>) = {} /\ \A x : Values(<<x>>) = {x} /\ Increasing(<<x>>)
  /\ Increasing(<<>>) /\ Rising(<<>>)
BY DEF Shots, Values, Increasing, Rising

(* Frames added at the end. *)
LEMMA ShotsConcat ==
  ASSUME NEW s \in Seq(Frames), NEW t \in Seq(Frames), Len(t) <= 1
  PROVE  /\ Shots(s \o t) = Shots(s) \cup Shots(t)
         /\ Rising(s) /\ Below(Shots(s), Shots(t)) => Rising(s \o t)
<1>1. /\ Len(s \o t) = Len(s) + Len(t) /\ Len(s) \in Nat /\ Len(t) \in Nat
  OBVIOUS
<1>2. \A i \in 1..Len(s) : i \in 1..Len(s \o t) /\ (s \o t)[i] = s[i]
  OBVIOUS
<1>3. \A i \in 1..Len(t) : Len(s) + i \in 1..Len(s \o t) /\ (s \o t)[Len(s) + i] = t[i]
  OBVIOUS
<1>4. \A i \in 1..Len(s \o t) : i \notin 1..Len(s) =>
        i - Len(s) \in 1..Len(t) /\ (s \o t)[i] = t[i - Len(s)]
  OBVIOUS
<1>5. Shots(s) \subseteq Shots(s \o t) /\ Shots(t) \subseteq Shots(s \o t)
  BY <1>2, <1>3 DEF Shots
<1>6. ASSUME NEW m \in Shots(s \o t) PROVE m \in Shots(s) \cup Shots(t)
  <2>1. PICK i \in 1..Len(s \o t) : m = (s \o t)[i].shot
    BY DEF Shots
  <2>2. CASE i \in 1..Len(s)
    BY <2>1, <2>2, <1>2 DEF Shots
  <2>3. CASE i \notin 1..Len(s)
    BY <2>1, <2>3, <1>4 DEF Shots
  <2> QED  BY <2>2, <2>3
<1>7. ASSUME Rising(s), Below(Shots(s), Shots(t)) PROVE Rising(s \o t)
  <2> SUFFICES ASSUME NEW i \in 1..Len(s \o t), NEW j \in 1..Len(s \o t), i < j
               PROVE  (s \o t)[i].shot < (s \o t)[j].shot
    BY DEF Rising
  <2>0. i \in 1..Len(s)
    BY <1>1
  <2>1. CASE j \in 1..Len(s)
    BY <2>0, <2>1, <1>2, <1>7 DEF Rising
  <2>2. CASE j \notin 1..Len(s)
    <3>1. s[i].shot \in Shots(s) /\ t[j - Len(s)].shot \in Shots(t)
      BY <2>0, <2>2, <1>4 DEF Shots
    <3> QED  BY <2>0, <2>2, <3>1, <1>2, <1>4, <1>7 DEF Below
  <2> QED  BY <2>1, <2>2
<1> QED  BY <1>5, <1>6, <1>7

(* The first frame and the others. *)
LEMMA ShotsHead ==
  ASSUME NEW s \in Seq(Frames), s # <<>>
  PROVE  /\ Shots(s) = {Head(s).shot} \cup Shots(Tail(s))
         /\ Rising(s) => Rising(Tail(s)) /\ Below({Head(s).shot}, Shots(Tail(s)))
<1>2. Len(s) \in Nat /\ Len(s) # 0 /\ Len(Tail(s)) = Len(s) - 1
  BY EmptySeq
<1>3. \A i \in 1..Len(Tail(s)) : Tail(s)[i] = s[i + 1] /\ i + 1 \in 1..Len(s)
  BY <1>2
<1>4. Head(s) = s[1] /\ 1 \in 1..Len(s)
  BY <1>2
<1>5. {Head(s).shot} \cup Shots(Tail(s)) \subseteq Shots(s)
  BY <1>3, <1>4 DEF Shots
<1>6. ASSUME NEW m \in Shots(s) PROVE m \in {Head(s).shot} \cup Shots(Tail(s))
  <2>1. PICK i \in 1..Len(s) : m = s[i].shot
    BY DEF Shots
  <2>2. CASE i = 1
    BY <2>1, <2>2, <1>4
  <2>3. CASE i # 1
    <3>1. i - 1 \in 1..Len(Tail(s)) /\ (i - 1) + 1 = i
      BY <2>3, <1>2
    <3>2. Tail(s)[i - 1] = s[i]
      BY <3>1, <1>3
    <3> QED  BY <3>1, <3>2, <2>1 DEF Shots
  <2> QED  BY <2>2, <2>3
<1>7. ASSUME Rising(s) PROVE Rising(Tail(s))
  <2>1. ASSUME NEW i \in 1..Len(Tail(s)), NEW j \in 1..Len(Tail(s)), i < j
        PROVE  Tail(s)[i].shot < Tail(s)[j].shot
    <3>1. i + 1 < j + 1
      BY <2>1, <1>2
    <3> QED  BY <1>3, <1>7, <3>1 DEF Rising
  <2> QED  BY <2>1 DEF Rising
<1>8. ASSUME Rising(s) PROVE Below({Head(s).shot}, Shots(Tail(s)))
  <2> SUFFICES ASSUME NEW i \in 1..Len(Tail(s)) PROVE Head(s).shot < Tail(s)[i].shot
    BY DEF Below, Shots
  <2>1. i + 1 \in 1..Len(s) /\ 1 < i + 1
    BY <1>3
  <2> QED  BY <1>3, <1>4, <1>8, <2>1 DEF Rising
<1> QED  BY <1>5, <1>6, <1>7, <1>8

(* A shot is a number. *)
LEMMA ShotNumbers ==
  ASSUME TypeOK
  PROVE  /\ Shots(queue) \subseteq Int /\ Shots(callback) \subseteq Int
         /\ Coming \subseteq Int /\ shots \in Int
         /\ Pipe => Values(history) \subseteq Int
<1>1. \A x \in Frames : x.shot \in Int
  BY DEF Frames
<1>2. \A s \in Seq(Frames) : Shots(s) \subseteq Int
  <2> SUFFICES ASSUME NEW s \in Seq(Frames), NEW k \in 1..Len(s) PROVE s[k].shot \in Int
    BY DEF Shots
  <2>1. s[k] \in Frames
    OBVIOUS
  <2> QED  BY <1>1, <2>1
<1>3. Pipe => Values(history) \subseteq Images
  <2>1. <<>> \in Seq(Images)
    BY EmptySeq
  <2> QED  BY <2>1, ValuesConcat DEF Pipe
<1>4. Images \subseteq Int /\ shots \in Int
  BY BoundsAssumption DEF Images, TypeOK
<1>5. Coming \subseteq Int
  BY <1>2 DEF TypeOK, Coming
<1> QED  BY <1>2, <1>3, <1>4, <1>5 DEF TypeOK

LEMMA CaptureOrdered ==
  ASSUME IInv, Pipe, Ordered, Capture
  PROVE  Ordered'
<1>1. /\ UNCHANGED <<Whole, history, raw, torn, frame, framePc, queue>>
      /\ shots' = shots + 1 /\ callback = <<>>
      /\ callback' = <<>> \/ \E m \in free : callback' = <<[memory |-> m, shot |-> shots + 1]>>
  BY DEF Capture, CallbackIdle, imageVars, frameVars, Whole
<1>2. Shots(callback') \subseteq {shots + 1} /\ Shots(callback) = {}
  BY <1>1, ShotsOne
<1>3. UNCHANGED Coming /\ shots \in Int
  BY <1>1, ShotNumbers DEF Coming, IInv
<1>4. \A x \in Int : x <= shots => x < shots + 1 /\ x <= shots + 1
  BY <1>3
<1>5. Shots(queue) \subseteq Int /\ Coming \subseteq Int /\ Values(history) \subseteq Int
  BY ShotNumbers DEF IInv
<1>6. \A x \in Coming \cup Shots(queue) : x < shots + 1 /\ x <= shots + 1
  BY <1>4, <1>5 DEF Ordered, Waiting
<1>7. Below(Coming, Shots(callback')) /\ Below(Shots(queue), Shots(callback'))
  BY <1>2, <1>6 DEF Below
<1>8. Waiting'
  BY <1>1, <1>2, <1>3, <1>6, <1>7 DEF Ordered, Waiting
<1>9. Whole => \A x \in Values(history) : x < shots + 1 /\ x <= shots + 1
  BY <1>4, <1>5 DEF Ordered, Appended
<1>10. Whole => Below(Values(history), Shots(callback'))
  BY <1>2, <1>9 DEF Below
<1>11. Appended'
  BY <1>1, <1>3, <1>9, <1>10 DEF Ordered, Appended
<1> QED  BY <1>8, <1>11 DEF Ordered

LEMMA EnqueueOrdered ==
  ASSUME IInv, Ordered, Enqueue
  PROVE  Ordered'
<1>1. /\ UNCHANGED <<Whole, history, raw, torn, frame, framePc, shots>>
      /\ queue' = queue \o callback /\ callback' = <<>>
  BY DEF Enqueue, imageVars, frameVars, Whole
<1>2. queue \in Seq(Frames) /\ callback \in Seq(Frames) /\ Len(callback) <= 1
  BY DEF IInv, TypeOK, Threads
<1>3. /\ Shots(queue') = Shots(queue) \cup Shots(callback) /\ Shots(callback') = {}
      /\ Rising(queue')
  BY <1>1, <1>2, ShotsConcat, ShotsOne DEF Ordered, Waiting
<1>4. UNCHANGED Coming
  BY <1>1 DEF Coming
<1>5. Waiting'
  BY <1>1, <1>3, <1>4 DEF Ordered, Waiting, Below
<1>6. Whole => /\ Below(Values(history), Shots(queue) \cup Shots(callback))
               /\ Below(Values(history), {})
  BY DEF Ordered, Appended, Below
<1>7. Appended'
  BY <1>1, <1>3, <1>4, <1>6 DEF Ordered, Appended
<1> QED  BY <1>5, <1>7 DEF Ordered

LEMMA PopFrameOrdered ==
  ASSUME IInv, Ordered, PopFrame
  PROVE  Ordered'
<1>1. /\ UNCHANGED <<Whole, history, callback, shots>> /\ queue # <<>>
      /\ framePc' = "convert" /\ frame' = <<Head(queue)>> /\ queue' = Tail(queue)
  BY DEF PopFrame, imageVars, Whole
<1>2. queue \in Seq(Frames)
  BY DEF IInv, TypeOK
<1>3. /\ Shots(queue) = {Head(queue).shot} \cup Shots(queue')
      /\ Rising(queue') /\ Below({Head(queue).shot}, Shots(queue'))
  BY <1>1, <1>2, ShotsHead DEF Ordered, Waiting
<1>4. Coming' = {Head(queue).shot}
  BY <1>1, ShotsOne DEF Coming
<1>5. Waiting'
  BY <1>1, <1>3, <1>4 DEF Ordered, Waiting, Below
<1>6. Appended'
  BY <1>1, <1>3, <1>4 DEF Ordered, Appended, Below
<1> QED  BY <1>5, <1>6 DEF Ordered

(* The shot that is being compressed is appended. *)
LEMMA AppendOrdered ==
  ASSUME IInv, Pipe, Ordered, AppendImage \/ SwapBuffers
  PROVE  Ordered'
<1>1. /\ UNCHANGED <<Whole, callback, queue, shots>> /\ framePc = "append"
      /\ framePc' = "free" /\ history' = Append(history, raw)
  BY DEF AppendImage, SwapBuffers, imageVars, poolVars, Whole
<1>2. /\ history \in Seq(Images) /\ raw \in Images /\ <<raw>> \in Seq(Images)
      /\ history' = history \o <<raw>>
  BY <1>1, AppendIsConcat DEF IInv, TypeOK, Pipe
<1>3. /\ Values(history') = Values(history) \cup {raw}
      /\ Increasing(history) /\ Below(Values(history), {raw}) => Increasing(history')
  <2>1. /\ Values(history \o <<raw>>) = Values(history) \cup Values(<<raw>>)
        /\ Increasing(history) /\ Increasing(<<raw>>) /\ Below(Values(history), Values(<<raw>>))
             => Increasing(history \o <<raw>>)
    BY <1>2, ValuesConcat
  <2> QED  BY <1>2, <2>1, ShotsOne
<1>4. Coming' = {}
  BY <1>1 DEF Coming
<1>5. Waiting'
  BY <1>1, <1>4 DEF Ordered, Waiting, Below
<1>6. Whole => raw \in Coming
  <2>1. Len(frame) = 1
    BY <1>1 DEF IInv, Threads
  <2>2. frame[1].shot \in Shots(frame)
    BY <2>1 DEF Shots
  <2> QED  BY <1>1, <2>2 DEF Ordered, Appended, Coming
<1>7. Whole => /\ Increasing(history')
               /\ \A x \in Values(history') : x <= shots
  BY <1>3, <1>6 DEF Ordered, Waiting, Appended, Below
<1>8. Whole => /\ Below(Values(history'), Shots(queue))
               /\ Below(Values(history'), Shots(callback))
  BY <1>3, <1>6 DEF Ordered, Waiting, Appended, Below
<1>9. Below(Values(history'), {})
  BY DEF Below
<1>10. Appended'
  BY <1>1, <1>4, <1>7, <1>8, <1>9 DEF Appended
<1> QED  BY <1>5, <1>10 DEF Ordered

LEMMA OrderedKept ==
  ASSUME IInv, Pipe, Ordered, [Next]_vars
  PROVE  Ordered'
<1>1. ASSUME UNCHANGED <<queue, callback, shots, history>>,
             Coming' \subseteq Coming,
             Whole' => Whole,
             Whole' => framePc' # "converting" \/ torn' = "no",
             Whole' => framePc' # "append" \/ raw' = frame'[1].shot
      PROVE  Ordered'
  <2>1. Waiting'
    BY <1>1 DEF Ordered, Waiting, Below
  <2>2. Appended'
    BY <1>1 DEF Ordered, Appended, Below
  <2> QED  BY <2>1, <2>2 DEF Ordered
<1>2. CASE UNCHANGED <<queue, callback, shots, history, clobbered, stale, raw, torn,
                       frame, framePc>>
  <2>1. Coming' = Coming /\ Whole' = Whole
    BY <1>2 DEF Coming, Whole
  <2> QED  BY <1>1, <1>2, <2>1 DEF Ordered, Appended
<1>3. ASSUME FreeBuffer, UNCHANGED <<queue, callback, shots, history, stale, frame, framePc>>
      PROVE  Ordered'
  <2>1. Coming' = Coming
    BY <1>3 DEF Coming
  <2>2. Whole' => Whole /\ framePc \notin {"converting", "append"}
    BY <1>3 DEF FreeBuffer, Whole
  <2> QED  BY <1>1, <1>3, <2>1, <2>2
<1>4. ASSUME FillPool, NewBuffer, UNCHANGED <<history, frame, framePc>>
      PROVE  Ordered'
  <2>1. UNCHANGED <<queue, callback, shots, history>> /\ Coming' = Coming
    BY <1>4 DEF FillPool, Coming
  <2>2. Whole' => Whole /\ InUse = {}
    BY <1>4 DEF FillPool, NewBuffer, Whole
  <2>3. InUse = {} => framePc \notin {"converting", "append"}
    <3>1. In(frame) \subseteq InUse
      BY InUseIs DEF IInv
    <3>2. framePc \in {"converting", "append"} => In(frame) = {frame[1].memory}
      BY OneFrame DEF IInv, Threads
    <3> QED  BY <3>1, <3>2
  <2> QED  BY <1>1, <1>4, <2>1, <2>2, <2>3
<1>5. ASSUME NEW c \in Clients, Client(c) PROVE Ordered'
  <2>1. CASE PowerUp(c) \/ PowerUpFails(c)
    BY <1>2, <1>4, <2>1 DEF PowerUp, PowerUpFails, frameVars, imageVars, poolVars
  <2>2. CASE PowerDownHalf(c) \/ PoweredDown(c)
    BY <1>3, <2>2 DEF PowerDownHalf, ReleaseHalf, PoweredDown, frameVars, poolVars
  <2>3. CASE \/ PowerDown(c) \/ Grab(c) \/ Grabbed(c) \/ StartRecording(c)
             \/ StopRecording(c)
    BY <1>2, <2>3
    DEF PowerDown, Grab, Grabbed, StartRecording, StopRecording, frameVars,
        imageVars, poolVars
  <2> QED  BY <1>5, <2>1, <2>2, <2>3 DEF Client
<1>6. CASE Compress
  <2>1. /\ UNCHANGED <<queue, callback, shots, history, stale, frame, framePc>>
        /\ clobbered' = (clobbered \/ framePc \in {"converting", "append"})
    BY <1>6 DEF Compress, poolVars, frameVars
  <2>2. Coming' = Coming
    BY <2>1 DEF Coming
  <2>3. Whole' => Whole /\ framePc \notin {"converting", "append"}
    BY <2>1 DEF Whole
  <2> QED  BY <1>1, <2>1, <2>2, <2>3
<1>7. CASE Deliver
  BY <1>2, <1>7 DEF Deliver, poolVars, frameVars
<1>8. CASE ConvertBegins
  <2>1. /\ UNCHANGED <<queue, callback, shots, history, frame, stale>>
        /\ framePc = "convert" /\ framePc' = "converting"
        /\ torn' = (IF Compressing THEN "mixed" ELSE "no")
        /\ clobbered' = (clobbered \/ Compressing)
    BY <1>8 DEF ConvertBegins, poolVars
  <2>2. Coming' = Coming
    BY <2>1 DEF Coming
  <2>3. Whole' => Whole /\ torn' = "no"
    BY <2>1 DEF Whole
  <2> QED  BY <1>1, <2>1, <2>2, <2>3
<1>9. CASE ConvertEnds
  <2>1. /\ UNCHANGED <<queue, callback, shots, history, frame, clobbered, stale>>
        /\ framePc = "converting" /\ framePc' = "append" /\ raw' \in Converted
    BY <1>9 DEF ConvertEnds, poolVars
  <2>2. Coming' = Coming
    BY <2>1 DEF Coming
  <2>3. Whole' => Whole /\ raw' = frame[1].shot
    BY <2>1 DEF Whole, Converted, Ordered, Appended
  <2> QED  BY <1>1, <2>1, <2>2, <2>3
<1>10. CASE FreeFrame \/ FrameThreadEnds
  <2>1. /\ UNCHANGED <<queue, callback, shots, history, clobbered, stale>>
        /\ framePc' \in {"pop", "ended"}
    BY <1>10 DEF FreeFrame, FrameThreadEnds, poolVars, imageVars
  <2>2. Coming' = {} /\ Whole' = Whole
    BY <2>1 DEF Coming, Whole
  <2> QED  BY <1>1, <2>1, <2>2
<1>11. CASE UseAfterFree
  BY <1>2, <1>11 DEF UseAfterFree, poolVars, frameVars, imageVars
<1>12. CASE BufferThread
  BY <1>2, <1>12
  DEF BufferThread, PopBuffer, WriteBuffer, NoBufferYet, CloseIfStopped,
      BufferThreadEnds, poolVars, frameVars, imageVars
<1>13. CASE Destructor
  <2>1. CASE Destroyed
    BY <1>3, <2>1 DEF Destroyed, ReleaseHalf, poolVars, frameVars
  <2>2. CASE Destroy \/ FrameThreadJoined \/ BufferThreadJoined
    BY <1>2, <2>2
    DEF Destroy, FrameThreadJoined, BufferThreadJoined, Quit, poolVars, frameVars,
        imageVars
  <2> QED  BY <1>13, <2>1, <2>2 DEF Destructor
<1>14. CASE UNCHANGED vars
  BY <1>2, <1>14 DEF vars, frameVars, poolVars, imageVars
<1> QED
  BY <1>5, <1>6, <1>7, <1>8, <1>9, <1>10, <1>11, <1>12, <1>13, <1>14, CaptureOrdered,
     EnqueueOrdered, PopFrameOrdered, AppendOrdered
  DEF Next, Callback, FrameThread

-----------------------------------------------------------------------------
(* The files: only the last one grows, by what follows all that is there.   *)
Kept ==
  /\ file \in {0, id}
  /\ \A r \in 1..MaxRecordings : id < r => files[r] = <<>>
  /\ \A r \in 1..MaxRecordings : Values(files[r]) \subseteq Values(drained)
  /\ FilesInOrder

FilesRise ==
  /\ \A r \in 1..MaxRecordings : Increasing(files[r])
  /\ \A q, r \in 1..MaxRecordings : q < r => Below(Values(files[q]), Values(files[r]))

LEMMA RiseInOrder == FilesInOrder <=> (~overrun /\ Whole => FilesRise)
<1>1. ASSUME NEW s, NEW t
      PROVE  Below(Values(s), Values(t)) <=>
               \A i \in 1..Len(s), j \in 1..Len(t) : s[i] < t[j]
  BY DEF Values, Below
<1> DEFINE Under(q, r) == \A i \in 1..Len(files[q]), j \in 1..Len(files[r]) :
                            files[q][i] < files[r][j]
<1>2. \A q, r : Below(Values(files[q]), Values(files[r])) <=> Under(q, r)
  BY <1>1
<1>3. FilesInOrder <=>
        (~overrun /\ Whole =>
           /\ \A r \in 1..MaxRecordings : Increasing(files[r])
           /\ \A q, r \in 1..MaxRecordings : q < r => Under(q, r))
  BY DEF FilesInOrder, Whole
<1> HIDE DEF Under
<1> QED  BY <1>2, <1>3 DEF FilesRise

(* What is written follows what was written before. *)
LEMMA WrittenFollows ==
  ASSUME IInv, Ordered, Pipe, ~overrun, Whole
  PROVE  Increasing(drained)
<1>1. /\ drained \in Seq(Images) /\ Pending \in Seq(Images) /\ Filling \in Seq(Images)
      /\ drained \o Pending \in Seq(Images)
  BY BufferParts, ConcatProperties DEF IInv, Pipe
<1>2. history = (drained \o Pending) \o Filling /\ Increasing(history)
  BY DEF Pipe, Ordered, Appended
<1>3. Increasing(drained \o Pending)
  BY <1>1, <1>2, ValuesConcat
<1> QED  BY <1>1, <1>3, ValuesConcat

(* What goes to the file. *)
LEMMA ToFileKept ==
  ASSUME IInv, Kept, Pipe, Pipe', IInv', Ordered', NEW w \in Seq(Images), ToFile(w),
         UNCHANGED <<id, overrun, clobbered, stale>>, file' \in {0, file}
  PROVE  Kept'
<1>1. /\ drained \in Seq(Images) /\ drained' = drained \o w
      /\ files \in [1..MaxRecordings -> Seq(Images)] /\ file \in {0, id}
      /\ id \in 0..MaxRecordings /\ MaxRecordings \in Nat
  BY BoundsAssumption DEF Pipe, ToFile, IInv, TypeOK, Kept
<1>2. Values(drained') = Values(drained) \cup Values(w)
  BY <1>1, ValuesConcat
<1>3. CASE file = 0
  <2>1. files' = files
    BY <1>3 DEF ToFile
  <2>2. /\ file' \in {0, id'}
        /\ \A r \in 1..MaxRecordings : id' < r => files'[r] = <<>>
        /\ FilesInOrder'
    BY <1>3, <2>1 DEF Kept, FilesInOrder
  <2>3. \A r \in 1..MaxRecordings : Values(files'[r]) \subseteq Values(drained')
    BY <1>2, <2>1 DEF Kept
  <2> QED  BY <2>2, <2>3 DEF Kept
<1>4. CASE file # 0
  <2>1. file = id /\ id \in 1..MaxRecordings /\ files[id] \in Seq(Images)
    BY <1>1, <1>4
  <2>2. \A r \in 1..MaxRecordings :
          files'[r] = IF r = id THEN files[id] \o w ELSE files[r]
    BY <1>1, <1>4, <2>1 DEF ToFile
  <2>3. Values(files[id] \o w) = Values(files[id]) \cup Values(w)
    BY <2>1, ValuesConcat
  <2>4. \A r \in 1..MaxRecordings : Values(files'[r]) \subseteq Values(drained')
    BY <1>2, <2>2, <2>3, <2>1 DEF Kept
  <2>5. \A r \in 1..MaxRecordings : id < r => files'[r] = <<>>
    BY <1>1, <2>1, <2>2 DEF Kept
  <2>6. ASSUME ~overrun', Whole' PROVE FilesRise'
    <3>1. FilesRise
      BY <2>6, RiseInOrder DEF Kept, Whole
    <3>2. Increasing(drained')
      <4>1. (IInv /\ Ordered /\ Pipe /\ ~overrun /\ Whole => Increasing(drained))'
        BY WrittenFollows, PTL
      <4> QED  BY <2>6, <4>1
    <3>3. Increasing(w) /\ Below(Values(drained), Values(w))
      BY <1>1, <3>2, ValuesConcat
    <3>4. Below(Values(files[id]), Values(w)) /\ Increasing(files[id])
      BY <2>1, <3>1, <3>3 DEF Kept, Below, FilesRise
    <3>5. Increasing(files[id] \o w)
      BY <2>1, <3>3, <3>4, ValuesConcat
    <3>6. \A r \in 1..MaxRecordings : Increasing(files'[r])
      BY <2>2, <3>1, <3>5 DEF FilesRise
    <3>7. ASSUME NEW q \in 1..MaxRecordings, NEW r \in 1..MaxRecordings, q < r
          PROVE  Below(Values(files'[q]), Values(files'[r]))
      <4>1. CASE r = id
        <5>1. q # id /\ files'[q] = files[q] /\ files'[r] = files[id] \o w
          <6>1. q # id
            BY <3>7, <4>1
          <6> QED  BY <2>2, <4>1, <6>1
        <5>2. Below(Values(files[q]), Values(files[id]))
          BY <2>1, <3>1, <3>7, <4>1 DEF FilesRise
        <5>3. Below(Values(files[q]), Values(w))
          BY <3>3 DEF Kept, Below
        <5> QED  BY <2>3, <5>1, <5>2, <5>3 DEF Below
      <4>2. CASE r # id /\ q # id
        BY <2>2, <3>1, <3>7, <4>2 DEF FilesRise
      <4>3. CASE q = id
        <5>1. files'[r] = <<>>
          BY <2>5, <3>7, <4>3
        <5> QED  BY <5>1, ShotsOne DEF Below
      <4> QED  BY <4>1, <4>2, <4>3
    <3> QED  BY <3>6, <3>7 DEF FilesRise
  <2>7. FilesInOrder'
    <3>1. (FilesInOrder <=> (~overrun /\ Whole => FilesRise))'
      BY RiseInOrder, PTL
    <3> QED  BY <2>6, <3>1
  <2>8. file' \in {0, id'}
    BY <2>1
  <2> QED  BY <2>4, <2>5, <2>7, <2>8 DEF Kept
<1> QED  BY <1>3, <1>4

(* A file that is opened is empty. *)
LEMMA StartKept ==
  ASSUME IInv, Kept, NEW c \in Clients, StartRecording(c)
  PROVE  Kept'
<1>1. PICK r \in {id, id + 1} \cap (1..MaxRecordings) :
        id' = r /\ file' = r /\ files' = [files EXCEPT ![r] = <<>>]
  BY DEF StartRecording
<1>2. UNCHANGED <<drained, overrun, Whole>>
  BY DEF StartRecording, frameVars, storeVars, imageVars, poolVars, Whole
<1>3. /\ files \in [1..MaxRecordings -> Seq(Images)] /\ id \in Int
      /\ \A q \in 1..MaxRecordings : files'[q] = IF q = r THEN <<>> ELSE files[q]
  BY <1>1, BoundsAssumption DEF IInv, TypeOK
<1>4. \A q \in 1..MaxRecordings : id' < q => files'[q] = <<>>
  BY <1>1, <1>3 DEF Kept
<1>5. \A q \in 1..MaxRecordings : Values(files'[q]) \subseteq Values(drained')
  BY <1>2, <1>3, ShotsOne DEF Kept
<1>6. ASSUME ~overrun', Whole' PROVE FilesRise'
  <2>1. FilesRise
    BY <1>2, <1>6, RiseInOrder DEF Kept
  <2> QED  BY <1>3, <2>1, ShotsOne DEF FilesRise, Below
<1>7. FilesInOrder'
  <2>1. (FilesInOrder <=> (~overrun /\ Whole => FilesRise))'
    BY RiseInOrder, PTL
  <2> QED  BY <1>6, <2>1
<1> QED  BY <1>1, <1>4, <1>5, <1>7 DEF Kept

LEMMA KeptKept ==
  ASSUME IInv, Slots, Pipe, Ordered, Kept, IInv', Pipe', Ordered', [Next]_vars
  PROVE  Kept'
<1>1. ASSUME UNCHANGED <<id, files, drained>>, file' \in {0, file},
             ~overrun' => ~overrun, Whole' => Whole
      PROVE  Kept'
  BY <1>1 DEF Kept, FilesInOrder, Whole
<1>2. ASSUME NEW c \in Clients, Client(c) PROVE Kept'
  <2>1. CASE StartRecording(c)
    BY <2>1, StartKept
  <2>2. CASE PowerUp(c) \/ PowerUpFails(c) \/ PowerDownHalf(c) \/ PoweredDown(c)
    <3>1. UNCHANGED <<id, files, file, drained, overrun>>
      BY <2>2
      DEF PowerUp, PowerUpFails, PowerDownHalf, ReleaseHalf, PoweredDown, frameVars,
          storeVars, fileVars
    <3>2. Whole' => Whole
      BY <2>2
      DEF PowerUp, PowerUpFails, PowerDownHalf, ReleaseHalf, PoweredDown, FillPool,
          NewBuffer, FreeBuffer, imageVars, poolVars, Whole
    <3> QED  BY <1>1, <3>1, <3>2
  <2>3. CASE PowerDown(c) \/ Grab(c) \/ Grabbed(c) \/ StopRecording(c)
    BY <1>1, <2>3
    DEF PowerDown, Grab, Grabbed, StopRecording, frameVars, imageVars, poolVars,
        storeVars, fileVars, Whole
  <2> QED  BY <1>2, <2>1, <2>2, <2>3 DEF Client
<1>3. CASE Callback
  <2>1. UNCHANGED <<id, files, file, drained, overrun>>
    BY <1>3
    DEF Callback, Capture, Enqueue, Compress, Deliver, frameVars, storeVars, fileVars
  <2>2. Whole' => Whole
    BY <1>3
    DEF Callback, Capture, Enqueue, Compress, Deliver, imageVars, poolVars, Whole
  <2> QED  BY <1>1, <2>1, <2>2
<1>4. CASE FrameThread
  <2>1. UNCHANGED <<id, files, file, drained>>
    BY <1>4
    DEF FrameThread, PopFrame, ConvertBegins, ConvertEnds, UseAfterFree, AppendImage,
        SwapBuffers, FreeFrame, FrameThreadEnds, storeVars, fileVars
  <2>2. Whole' => Whole
    BY <1>4
    DEF FrameThread, PopFrame, ConvertBegins, ConvertEnds, UseAfterFree, AppendImage,
        SwapBuffers, FreeFrame, FrameThreadEnds, imageVars, poolVars, Whole
  <2>3. ~overrun' => ~overrun
    <3>1. CASE SwapBuffers
      BY <3>1 DEF SwapBuffers
    <3>2. CASE ~SwapBuffers
      BY <1>4, <3>2
      DEF FrameThread, PopFrame, ConvertBegins, ConvertEnds, UseAfterFree, AppendImage,
          FreeFrame, FrameThreadEnds, frameVars
    <3> QED  BY <3>1, <3>2
  <2> QED  BY <1>1, <2>1, <2>2, <2>3
<1>5. CASE PopBuffer \/ NoBufferYet \/ CloseIfStopped
  BY <1>1, <1>5
  DEF PopBuffer, NoBufferYet, CloseIfStopped, imageVars, poolVars, frameVars,
      fileVars, Whole
<1>6. CASE WriteBuffer
  <2>1. /\ ToFile(Written(item.index, item.length))
        /\ UNCHANGED <<id, file, overrun, clobbered, stale>>
    BY <1>6 DEF WriteBuffer, imageVars, poolVars, frameVars
  <2> QED  BY <2>1, BufferParts, ToFileKept DEF IInv
<1>7. CASE BufferThreadEnds
  <2>1. /\ ToFile(Written(current, offset)) /\ file' = 0
        /\ UNCHANGED <<id, overrun, clobbered, stale>>
    BY <1>7 DEF BufferThreadEnds, imageVars, poolVars, frameVars
  <2> QED  BY <2>1, BufferParts, ToFileKept DEF IInv
<1>8. CASE Destructor
  <2>1. UNCHANGED <<id, files, file, drained, overrun>>
    BY <1>8
    DEF Destructor, Destroy, FrameThreadJoined, BufferThreadJoined, Quit, Destroyed,
        ReleaseHalf, frameVars, storeVars, fileVars
  <2>2. Whole' => Whole
    BY <1>8
    DEF Destructor, Destroy, FrameThreadJoined, BufferThreadJoined, Quit, Destroyed,
        ReleaseHalf, FreeBuffer, imageVars, poolVars, Whole
  <2> QED  BY <1>1, <2>1, <2>2
<1>9. CASE UNCHANGED vars
  BY <1>1, <1>9 DEF vars, imageVars, poolVars, frameVars, storeVars, fileVars, Whole
<1> QED
  BY <1>2, <1>3, <1>4, <1>5, <1>6, <1>7, <1>8, <1>9 DEF Next, BufferThread

-----------------------------------------------------------------------------
(* t ends with what s has after its first m elements.                       *)
Saved(s, m, t) ==
  \A k \in (m + 1)..Len(s) : /\ k + (Len(t) - Len(s)) \in 1..Len(t)
                             /\ t[k + (Len(t) - Len(s))] = s[k]

LEMMA SavedMore ==
  ASSUME NEW s \in Seq(Images), NEW t \in Seq(Images), NEW w \in Seq(Images),
         NEW m \in Nat, Saved(s, m, t)
  PROVE  Saved(s \o w, m, t \o w)
<1>1. /\ Len(s) \in Nat /\ Len(t) \in Nat /\ Len(w) \in Nat
      /\ Len(s \o w) = Len(s) + Len(w) /\ Len(t \o w) = Len(t) + Len(w)
  OBVIOUS
<1>2. /\ \A k \in 1..Len(s) : (s \o w)[k] = s[k]
      /\ \A k \in 1..Len(t) : (t \o w)[k] = t[k]
      /\ \A k \in 1..Len(w) : (s \o w)[Len(s) + k] = w[k] /\ (t \o w)[Len(t) + k] = w[k]
  OBVIOUS
<1> SUFFICES ASSUME NEW k \in (m + 1)..Len(s \o w)
             PROVE  /\ k + (Len(t \o w) - Len(s \o w)) \in 1..Len(t \o w)
                    /\ (t \o w)[k + (Len(t \o w) - Len(s \o w))] = (s \o w)[k]
  BY DEF Saved
<1>3. Len(t \o w) - Len(s \o w) = Len(t) - Len(s)
  BY <1>1
<1>4. CASE k <= Len(s)
  <2>1. k \in (m + 1)..Len(s) /\ k \in 1..Len(s)
    BY <1>1, <1>4
  <2>2. k + (Len(t) - Len(s)) \in 1..Len(t) /\ t[k + (Len(t) - Len(s))] = s[k]
    BY <2>1 DEF Saved
  <2>3. k + (Len(t) - Len(s)) \in 1..Len(t \o w)
    BY <2>2, <1>1
  <2> QED  BY <1>2, <1>3, <2>1, <2>2, <2>3
<1>5. CASE ~(k <= Len(s))
  <2>1. /\ k - Len(s) \in 1..Len(w) /\ Len(s) + (k - Len(s)) = k
        /\ k + (Len(t) - Len(s)) = Len(t) + (k - Len(s))
        /\ k + (Len(t) - Len(s)) \in 1..Len(t \o w)
    BY <1>1, <1>5
  <2>2. /\ (s \o w)[Len(s) + (k - Len(s))] = w[k - Len(s)]
        /\ (t \o w)[Len(t) + (k - Len(s))] = w[k - Len(s)]
    BY <1>2, <2>1, Zenon
  <2> QED  BY <1>3, <2>1, <2>2, Zenon
<1> QED  BY <1>4, <1>5, Zenon

LEMMA SavedIsSuffix ==
  ASSUME NEW s \in Seq(Images), NEW t \in Seq(Images), NEW m \in Nat, Saved(s, m, t)
  PROVE  IsSuffix(SubSeq(s, m + 1, Len(s)), t)
<1> DEFINE e == SubSeq(s, m + 1, Len(s))
           l == Len(e)
<1>1. Len(s) \in Nat /\ Len(t) \in Nat
  OBVIOUS
<1>2. /\ e \in Seq(Images) /\ l = IF m + 1 <= Len(s) THEN Len(s) - (m + 1) + 1 ELSE 0
      /\ \A k \in 1..(Len(s) - (m + 1) + 1) : e[k] = s[(m + 1) + k - 1]
  <2>1. \A k \in (m + 1)..Len(s) : s[k] \in Images
    OBVIOUS
  <2>2. m + 1 \in Int /\ Len(s) \in Int
    OBVIOUS
  <2> QED  BY <2>1, <2>2, SubSeqProperties
<1>3. /\ l \in Nat /\ (l # 0 => l = Len(s) - m)
      /\ \A k \in 1..l : e[k] = s[m + k]
  BY <1>1, <1>2
<1> HIDE DEF e
<1>4. l <= Len(t)
  <2>1. CASE l = 0
    BY <1>1, <2>1
  <2>2. CASE l # 0
    <3>1. m + 1 \in (m + 1)..Len(s)
      BY <1>1, <1>3, <2>2
    <3>2. m + 1 + (Len(t) - Len(s)) \in 1..Len(t)
      BY <3>1 DEF Saved
    <3> QED  BY <1>1, <1>3, <2>2, <3>2
  <2> QED  BY <2>1, <2>2
<1> DEFINE re == Reverse(e)
           rt == Reverse(t)
<1>5. /\ re \in Seq(Images) /\ Len(re) = l
      /\ \A k \in 1..l : re[k] = e[(l - k) + 1]
  <2>1. \A k \in 1..l : e[(l - k) + 1] \in Images
    BY <1>2, <1>3
  <2>2. re = [k \in 1..l |-> e[(l - k) + 1]]
    BY DEF Reverse
  <2> QED  BY <1>3, <2>1, <2>2
<1>6. /\ rt \in Seq(Images) /\ Len(rt) = Len(t)
      /\ \A k \in 1..Len(t) : rt[k] = t[(Len(t) - k) + 1]
  <2>1. \A k \in 1..Len(t) : t[(Len(t) - k) + 1] \in Images
    BY <1>1
  <2>2. rt = [k \in 1..Len(t) |-> t[(Len(t) - k) + 1]]
    BY DEF Reverse
  <2> QED  BY <1>1, <2>1, <2>2
<1>7. ASSUME NEW k \in 1..l PROVE re[k] = rt[k]
  <2>0. l # 0 /\ l = Len(s) - m /\ k \in Nat /\ 1 <= k /\ k <= l
    BY <1>3
  <2>1. /\ Len(s) - k + 1 \in (m + 1)..Len(s) /\ k \in 1..Len(t)
        /\ Len(s) - k + 1 + (Len(t) - Len(s)) = (Len(t) - k) + 1
        /\ (l - k) + 1 \in 1..l /\ m + ((l - k) + 1) = Len(s) - k + 1
    BY <1>1, <1>4, <2>0
  <2>2. t[(Len(t) - k) + 1] = s[Len(s) - k + 1]
    <3>1. t[Len(s) - k + 1 + (Len(t) - Len(s))] = s[Len(s) - k + 1]
      BY <2>1, Zenon DEF Saved
    <3> QED  BY <2>1, <3>1, Zenon
  <2>3. re[k] = s[m + ((l - k) + 1)]
    BY <1>3, <1>5, <2>1
  <2> QED  BY <1>6, <2>1, <2>2, <2>3
<1> HIDE DEF re, rt
<1>8. SubSeq(re, 1, l) = SubSeq(rt, 1, l)
  <2>1. /\ SubSeq(re, 1, l) \in Seq(Images) /\ Len(SubSeq(re, 1, l)) = l
        /\ \A k \in 1..l : SubSeq(re, 1, l)[k] = re[k]
    <3>1. \A k \in 1..l : re[k] \in Images
      BY <1>5
    <3>2. 1 \in Int /\ l \in Int /\ l - 1 + 1 = l /\ (~(1 <= l) => l = 0)
          /\ \A k \in 1..l : 1 + k - 1 = k
      BY <1>3
    <3> QED  BY <3>1, <3>2, SubSeqProperties
  <2>2. /\ SubSeq(rt, 1, l) \in Seq(Images) /\ Len(SubSeq(rt, 1, l)) = l
        /\ \A k \in 1..l : SubSeq(rt, 1, l)[k] = rt[k]
    <3>1. \A k \in 1..l : rt[k] \in Images
      BY <1>1, <1>3, <1>4, <1>6
    <3>2. 1 \in Int /\ l \in Int /\ l - 1 + 1 = l /\ (~(1 <= l) => l = 0)
          /\ \A k \in 1..l : 1 + k - 1 = k
      BY <1>3
    <3> QED  BY <3>1, <3>2, SubSeqProperties
  <2> QED  BY <1>7, <2>1, <2>2, SeqEqual
<1>9. IsPrefix(re, rt)
  BY <1>4, <1>5, <1>6, <1>8 DEF IsPrefix
<1> QED  BY <1>9 DEF IsSuffix, re, rt, e

(* The file of a recording ends with what was appended since its start, as  *)
(* far as it was taken to be written.                                       *)
Recorded ==
  /\ since \in Nat
  /\ recording /\ ~overrun =>
       /\ id \in 1..MaxRecordings
       /\ storePc # "ended" => file = id
       /\ Saved(drained, since, files[id])

LEMMA ToFileRecorded ==
  ASSUME IInv, Pipe, Recorded, NEW w \in Seq(Images), ToFile(w), storePc # "ended",
         UNCHANGED <<id, since, recording, overrun>>, file' = file \/ storePc' = "ended"
  PROVE  Recorded'
<1>1. /\ drained \in Seq(Images) /\ drained' = drained \o w /\ since \in Nat
      /\ files \in [1..MaxRecordings -> Seq(Images)] /\ MaxRecordings \in Nat
  BY BoundsAssumption DEF Pipe, ToFile, IInv, TypeOK, Recorded
<1> SUFFICES ASSUME recording, ~overrun
             PROVE  /\ id \in 1..MaxRecordings
                    /\ storePc' # "ended" => file' = id
                    /\ Saved(drained', since, files'[id])
  BY <1>1 DEF Recorded
<1>2. id \in 1..MaxRecordings /\ file = id /\ Saved(drained, since, files[id])
  BY DEF Recorded
<1>3. file # 0 /\ files[id] \in Seq(Images)
  BY <1>1, <1>2
<1>4. files'[id] = files[id] \o w
  BY <1>1, <1>2, <1>3 DEF ToFile
<1>5. Saved(drained', since, files'[id])
  BY <1>1, <1>2, <1>3, <1>4, SavedMore
<1> QED  BY <1>2, <1>5

LEMMA StartRecorded ==
  ASSUME IInv, Slots, Pipe, Recorded, NEW c \in Clients, StartRecording(c)
  PROVE  Recorded'
<1>1. PICK r \in {id, id + 1} \cap (1..MaxRecordings) :
        id' = r /\ file' = r /\ files' = [files EXCEPT ![r] = <<>>]
  BY DEF StartRecording
<1>2. UNCHANGED <<drained, overrun, storePc>> /\ since' = Len(history)
  BY DEF StartRecording, frameVars, storeVars
<1>3. /\ history \in Seq(Images) /\ drained \in Seq(Images) /\ drained \o Pending \in Seq(Images)
      /\ Pending \in Seq(Images) /\ Filling \in Seq(Images)
  BY BufferParts, ConcatProperties DEF IInv, Pipe
<1>4. Len(history) \in Nat /\ Len(drained) \in Nat
  BY <1>3
<1>5. ~overrun => Len(drained) <= Len(history)
  <2>1. /\ Len((drained \o Pending) \o Filling) = Len(drained \o Pending) + Len(Filling)
        /\ Len(drained \o Pending) = Len(drained) + Len(Pending)
        /\ Len(Pending) \in Nat /\ Len(Filling) \in Nat
    BY <1>3, ConcatProperties
  <2>2. Len(drained) <= Len((drained \o Pending) \o Filling)
    BY <1>4, <2>1
  <2> QED  BY <2>2 DEF Pipe
<1>6. ~overrun => (Len(history) + 1)..Len(drained) = {}
  BY <1>4, <1>5
<1>7. ~overrun => Saved(drained', since', files'[id'])
  BY <1>2, <1>6 DEF Saved
<1> QED  BY <1>1, <1>2, <1>4, <1>7 DEF Recorded

LEMMA RecordedKept ==
  ASSUME IInv, Slots, Pipe, Recorded, [Next]_vars
  PROVE  Recorded'
<1>1. ASSUME UNCHANGED <<id, files, drained, since>>, recording' => recording,
             ~overrun' => ~overrun,
             file' = file \/ recording' = FALSE, storePc = "ended" => storePc' = "ended"
      PROVE  Recorded'
  BY <1>1 DEF Recorded
<1>2. ASSUME NEW c \in Clients, Client(c) PROVE Recorded'
  <2>1. CASE StartRecording(c)
    BY <2>1, StartRecorded
  <2>2. CASE StopRecording(c)
    BY <1>1, <2>2 DEF StopRecording, fileVars, storeVars, frameVars
  <2>3. CASE Grab(c) \/ Grabbed(c) \/ PowerUp(c) \/ PowerUpFails(c)
    BY <1>1, <2>3
    DEF PowerUp, PowerUpFails, Grab, Grabbed, fileVars, storeVars, frameVars
  <2>4. CASE PowerDown(c) \/ PowerDownHalf(c) \/ PoweredDown(c)
    BY <1>1, <2>4
    DEF PowerDown, PowerDownHalf, ReleaseHalf, PoweredDown, fileVars, storeVars,
        frameVars
  <2> QED  BY <1>2, <2>1, <2>2, <2>3, <2>4 DEF Client
<1>3. CASE Callback
  <2>1. UNCHANGED <<id, files, file, drained, since, recording, overrun, storePc>>
    BY <1>3
    DEF Callback, Capture, Enqueue, Compress, Deliver, apiVars, frameVars, storeVars,
        fileVars
  <2> QED  BY <1>1, <2>1
<1>4. CASE FrameThread
  <2>1. UNCHANGED <<id, files, file, drained, since, recording, storePc>>
    BY <1>4
    DEF FrameThread, PopFrame, ConvertBegins, ConvertEnds, UseAfterFree, AppendImage, SwapBuffers,
        FreeFrame, FrameThreadEnds, apiVars, storeVars, fileVars
  <2>2. ~overrun' => ~overrun
    <3>1. CASE SwapBuffers
      BY <3>1 DEF SwapBuffers
    <3>2. CASE ~SwapBuffers
      BY <1>4, <3>2
      DEF FrameThread, PopFrame, ConvertBegins, ConvertEnds, UseAfterFree, AppendImage,
          FreeFrame, FrameThreadEnds, frameVars
    <3> QED  BY <3>1, <3>2
  <2> QED  BY <1>1, <2>1, <2>2
<1>5. CASE PopBuffer \/ NoBufferYet
  BY <1>1, <1>5 DEF PopBuffer, NoBufferYet, apiVars, frameVars, fileVars
<1>6. CASE CloseIfStopped
  <2>1. /\ UNCHANGED <<id, files, drained, since, recording, overrun>>
        /\ storePc = "close" /\ file' = IF recording THEN file ELSE 0
    BY <1>6 DEF CloseIfStopped, apiVars, frameVars
  <2>2. recording \in BOOLEAN
    BY DEF IInv, TypeOK
  <2> QED  BY <1>1, <2>1, <2>2
<1>7. CASE WriteBuffer
  <2>1. /\ ToFile(Written(item.index, item.length)) /\ storePc = "write"
        /\ UNCHANGED <<id, file, since, recording, overrun>>
    BY <1>7 DEF WriteBuffer, apiVars, frameVars
  <2> QED  BY <2>1, BufferParts, ToFileRecorded DEF IInv
<1>8. CASE BufferThreadEnds
  <2>1. /\ ToFile(Written(current, offset)) /\ storePc = "test" /\ storePc' = "ended"
        /\ UNCHANGED <<id, since, recording, overrun>>
    BY <1>8 DEF BufferThreadEnds, apiVars, frameVars
  <2> QED  BY <2>1, BufferParts, ToFileRecorded DEF IInv
<1>9. CASE Destructor
  <2>1. UNCHANGED <<id, files, file, drained, since, recording, overrun, storePc>>
    BY <1>9
    DEF Destructor, Destroy, FrameThreadJoined, BufferThreadJoined, Quit, Destroyed,
        ReleaseHalf, frameVars, storeVars, fileVars
  <2> QED  BY <1>1, <2>1
<1>10. CASE UNCHANGED vars
  BY <1>1, <1>10 DEF vars, apiVars, frameVars, storeVars, fileVars
<1> QED
  BY <1>2, <1>3, <1>4, <1>5, <1>6, <1>7, <1>8, <1>9, <1>10 DEF Next, BufferThread

LEMMA RecordedSaves ==
  ASSUME IInv, Slots, Pipe, Recorded
  PROVE  DestructorSaves
<1> SUFFICES ASSUME phase = "gone", recording, ~overrun
             PROVE  IsSuffix(SubSeq(history, since + 1, Len(history)), files[id])
  BY DEF DestructorSaves
<1>1. storePc = "ended" /\ buffers = <<>>
  BY DEF Slots
<1>2. Pending = <<>> /\ Filling = <<>>
  BY <1>1 DEF Pending, Filling
<1>3. drained \in Seq(Images) /\ history = (drained \o <<>>) \o <<>>
  BY <1>2 DEF Pipe
<1>4. history = drained
  BY <1>3, ConcatEmptySeq
<1>5. since \in Nat /\ id \in 1..MaxRecordings /\ Saved(drained, since, files[id])
  BY DEF Recorded
<1>6. files[id] \in Seq(Images)
  BY <1>5 DEF IInv, TypeOK
<1> QED  BY <1>3, <1>4, <1>5, <1>6, SavedIsSuffix

-----------------------------------------------------------------------------
OrderInv == IInv /\ Slots /\ Pipe /\ Ordered /\ Kept /\ Recorded

LEMMA OrderInitially == Init => OrderInv
<1> SUFFICES ASSUME Init PROVE OrderInv
  OBVIOUS
<1>1. IInv
  BY Initially
<1>2. <<>> \in Seq(Images) /\ Len(<<>>) = 0 /\ <<>> \o <<>> = <<>>
  <2>1. <<>> \in Seq(Images)
    BY EmptySeq
  <2> QED  BY <2>1, ConcatEmptySeq, EmptySeq
<1>3. Slots
  BY <1>2 DEF Init, Slots
<1>4. Filling = <<>> /\ Pending = <<>>
  <2>1. SubSeq(memory[0], 1, 0) = <<>>
    BY SubSeqEmpty
  <2> QED  BY <2>1 DEF Init, Filling, Pending, Written
<1>5. Pipe
  BY <1>2, <1>4 DEF Init, Pipe
<1>6. Coming = {} /\ Shots(queue) = {} /\ Shots(callback) = {} /\ Values(history) = {}
  BY ShotsOne DEF Init, Coming
<1>7. Ordered
  BY <1>6, ShotsOne DEF Init, Ordered, Waiting, Appended, Below
<1>8. \A r \in 1..MaxRecordings : files[r] = <<>>
  BY DEF Init
<1>9. FilesRise
  BY <1>8, ShotsOne DEF FilesRise, Below
<1>10. Kept
  BY <1>8, <1>9, ShotsOne, RiseInOrder DEF Init, Kept
<1>11. Recorded
  BY DEF Init, Recorded
<1> QED  BY <1>1, <1>3, <1>5, <1>7, <1>10, <1>11 DEF OrderInv

THEOREM OrderInvariance == Spec => []OrderInv
<1>1. ASSUME OrderInv, [Next]_vars PROVE OrderInv'
  <2>1. IInv'
    BY <1>1, TypesKept, OwnedKept, GuardedKept DEF OrderInv, IInv, Guarded
  <2>2. Slots'
    BY <1>1, SlotsKept DEF OrderInv
  <2>3. Pipe'
    BY <1>1, <2>2, PipeKept DEF OrderInv
  <2>4. Ordered'
    BY <1>1, OrderedKept DEF OrderInv
  <2>5. Kept'
    BY <1>1, <2>1, <2>3, <2>4, KeptKept DEF OrderInv
  <2>6. Recorded'
    BY <1>1, RecordedKept DEF OrderInv
  <2> QED  BY <2>1, <2>2, <2>3, <2>4, <2>5, <2>6 DEF OrderInv
<1> QED  BY <1>1, OrderInitially, PTL DEF Spec

(* Unless a buffer is reused before it was written, what was taken to be    *)
(* written, what is written, queued and filled is all that was appended, in *)
(* order (LibCamera::buffer_image, swap_buffers, store_buffers_to_disk).    *)
THEOREM PipelineInOrder == Spec => []PipelineKeepsOrder
<1>1. OrderInv => PipelineKeepsOrder
  BY PipelineIs DEF OrderInv
<1> QED  BY <1>1, OrderInvariance, PTL

(* And unless a grab or a release took the image buffer meanwhile, or the   *)
(* pool was remade with frames in use, the files hold the shots in the      *)
(* order in which they were taken, each once (LibCamera::                   *)
(* process_request_buffer, convert_frames_to_jpeg, store_buffer_sync).      *)
THEOREM ShotsInOrder == Spec => []FilesInOrder
<1>1. OrderInv => FilesInOrder
  BY DEF OrderInv, Kept
<1> QED  BY <1>1, OrderInvariance, PTL

(* The destructor leaves no image of the recording behind                   *)
(* (LibCamera::~LibCamera, store_buffers_to_disk).                          *)
THEOREM NothingLost == Spec => []DestructorSaves
<1>1. OrderInv => DestructorSaves
  BY RecordedSaves DEF OrderInv
<1> QED  BY <1>1, OrderInvariance, PTL
=============================================================================
