------------------------- MODULE MyuvcCaptureProofs -------------------------
(***************************************************************************)
(* Proofs about a capture session, for any number of buffers and URBs, any *)
(* length of a frame, any faults and any number of lost packets.  What is  *)
(* proved of the buffer queue on its own is brought in here by showing     *)
(* that the session uses it as its module allows.                          *)
(***************************************************************************)
EXTENDS MyuvcCapture, FiniteSetTheorems, TLAPS

(* The queue of the session, with what is proved of it. *)
QP == INSTANCE MyuvcQueueProofs WITH PayloadLens <- {1}

-----------------------------------------------------------------------------
(* The camera's frame numbers: it counts modulo their number, which is not 0. *)
LEMMA FrameNumbers ==
  /\ Cardinality(Frames) \in Nat \ {0}
  /\ \A f : f \in Frames <=> f \in 0 .. Cardinality(Frames) - 1
  /\ 0 \in Frames
<1>1. Cardinality(Frames) \in Nat
  BY CaptureAssumption, FS_CardinalityType
<1>2. Cardinality(Frames) # 0
  BY CaptureAssumption, FS_EmptySet
<1>3. \A f : f \in Frames <=> f \in 0 .. Cardinality(Frames) - 1
  BY CaptureAssumption
<1> QED
  BY <1>1, <1>2, <1>3

(* The camera stays within a frame and within its frame numbers. *)
LEMMA SendNextType ==
  ASSUME TypeOK, SendNext
  PROVE  frame' \in Frames /\ sent' \in 0 .. PktsPerFrame - 1
<1>1. CASE sent + 1 < PktsPerFrame
  BY <1>1, CaptureAssumption DEF TypeOK, SendNext
<1>2. CASE ~(sent + 1 < PktsPerFrame)
  <2>1. frame \in Nat /\ Cardinality(Frames) \in Nat \ {0}
    BY FrameNumbers DEF TypeOK
  <2>2. (frame + 1) % Cardinality(Frames) \in 0 .. Cardinality(Frames) - 1
    BY <2>1
  <2> QED
    BY <2>2, <1>2, FrameNumbers, CaptureAssumption DEF SendNext
<1> QED
  BY <1>1, <1>2

(***************************************************************************)
(* When the driver is loaded nothing is in flight and the camera is at the *)
(* start of a frame.                                                       *)
(***************************************************************************)
LEMMA InitEstablishes == Init => SInv
  BY CaptureAssumption, FrameNumbers
  DEF Init, SInv, TypeOK, SessionInStep, DmaHasMemory, NoBufferLeaked,
      U!Init, U!QuietWhenIdle, U!None, U!Held, Q!Init

(***************************************************************************)
(* VIDIOC_STREAMON leaves URBs in flight only at the streaming setting,    *)
(* also when it fails half way.                                            *)
(***************************************************************************)
LEMMA StreamonQuiet ==
  ASSUME U!QuietWhenIdle, U!Streamon, inflight \subseteq Urbs
  PROVE  U!QuietWhenIdle' /\ inflight' \subseteq Urbs
<1>1. ASSUME NEW r \in U!AfterSetInterface(U!Streaming, inflight)
      PROVE  r.flying \subseteq Urbs /\ (r.alt = 0 => r.flying = {})
  BY <1>1 DEF U!AfterSetInterface, U!Streaming, U!QuietWhenIdle
<1>2. CASE U!StreamonNoMemory
  BY <1>1, <1>2 DEF U!StreamonNoMemory, U!QuietWhenIdle
<1>3. ASSUME NEW new \in U!NewUrbs, NEW done \in 0 .. NUrbs - 1, U!StreamonSubmitFails(new, done)
      PROVE  U!QuietWhenIdle' /\ inflight' \subseteq Urbs
  <2>1. PICK r \in U!AfterSetInterface(U!Streaming, inflight) :
          /\ r.alt = 0 => done = 0
          /\ altsetting' = r.alt
          /\ inflight' = r.flying \cup { new[i] : i \in 1 .. done }
    BY <1>3 DEF U!StreamonSubmitFails
  <2>2. done = 0 => { new[i] : i \in 1 .. done } = {}
    OBVIOUS
  <2>3. { new[i] : i \in 1 .. done } \subseteq Urbs
    BY CaptureAssumption DEF U!NewUrbs, U!Slots, U!Unused
  <2> QED
    BY <1>1, <2>1, <2>2, <2>3 DEF U!QuietWhenIdle
<1>4. ASSUME NEW new \in U!NewUrbs, U!StreamonStarts(new)
      PROVE  U!QuietWhenIdle' /\ inflight' \subseteq Urbs
  <2>1. U!Held(new) \subseteq Urbs
    BY DEF U!Held, U!NewUrbs, U!Slots, U!Unused
  <2> QED
    BY <1>1, <1>4, <2>1 DEF U!StreamonStarts, U!Streaming, U!QuietWhenIdle
<1> QED
  BY <1>2, <1>3, <1>4 DEF U!Streamon

(***************************************************************************)
(* The arrays hold no pointer when VIDIOC_STREAMON is called, so that it   *)
(* loses none, and those it leaves are to all the buffers there are.  What *)
(* it finds in flight has no buffer any more, which takes an earlier       *)
(* STREAMON that failed.                                                   *)
(***************************************************************************)
LEMMA StreamonBuffers ==
  ASSUME urb = U!None, urb_buffer = urb, NoBufferLeaked, DmaHasMemory, U!Streamon
  PROVE  /\ urb_buffer' = urb'
         /\ allocated' = U!Held(urb_buffer')
         /\ urb' # U!None => inflight' \subseteq allocated' \/ "streamon" \in mishaps
<1>1. U!Held(U!None) = {} /\ allocated = {}
  BY DEF U!Held, U!None, NoBufferLeaked
<1>2. CASE U!StreamonNoMemory
  BY <1>1, <1>2 DEF U!StreamonNoMemory
<1>3. ASSUME NEW new \in U!NewUrbs, NEW done \in 0 .. NUrbs - 1, U!StreamonSubmitFails(new, done)
      PROVE  urb_buffer' = urb' /\ allocated' = U!Held(urb_buffer') /\ urb' = U!None
  BY <1>1, <1>3 DEF U!StreamonSubmitFails
<1>4. ASSUME NEW new \in U!NewUrbs, U!StreamonStarts(new)
      PROVE  /\ urb_buffer' = urb'
             /\ allocated' = U!Held(urb_buffer')
             /\ inflight' \subseteq allocated' \/ "streamon" \in mishaps
  <2>1. PICK r \in U!AfterSetInterface(U!Streaming, inflight) :
          inflight' = r.flying \cup U!Held(new)
    BY <1>4 DEF U!StreamonStarts
  <2>2. r.flying \subseteq inflight
    BY DEF U!AfterSetInterface
  <2>3. urb' = new /\ urb_buffer' = new /\ allocated' = U!Held(new)
    BY <1>1, <1>4 DEF U!StreamonStarts
  <2> QED
    BY <1>1, <2>1, <2>2, <2>3 DEF DmaHasMemory
<1> QED
  BY <1>2, <1>3, <1>4 DEF U!Streamon

(***************************************************************************)
(* Buffers are requested when the arrays are empty; STREAMOFF leaves only  *)
(* URBs in flight that the arrays did not know, and none when the setting  *)
(* is back at 0; the other steps add no URB.                               *)
(***************************************************************************)
LEMMA NextPreserves == SInv /\ [Next]_vars => SInv'
<1> SUFFICES ASSUME SInv, [Next]_vars PROVE SInv'
  OBVIOUS
<1> USE DEF SInv, queueVars, urbVars, cameraVars
<1>0. ASSUME UNCHANGED <<count, urbVars, mishaps, app>>, TypeOK' PROVE SInv'
  BY <1>0 DEF SessionInStep, DmaHasMemory, NoBufferLeaked, U!QuietWhenIdle, U!Held, U!None
<1>1. CASE UNCHANGED vars
  BY <1>0, <1>1 DEF vars, TypeOK
<1>2. ASSUME NEW n \in 0 .. MaxBufs, AppRequest(n) PROVE SInv'
  <2>1. /\ urb = U!None /\ urb_buffer = U!None /\ urb' = U!None /\ urb_buffer' = U!None
        /\ UNCHANGED <<inflight, allocated, altsetting>>
    BY <1>2 DEF AppRequest, U!Reqbufs, U!arrays, SessionInStep
  <2>2. TypeOK' /\ U!QuietWhenIdle' /\ NoBufferLeaked'
    BY <1>2, <2>1 DEF AppRequest, TypeOK, SessionInStep, U!QuietWhenIdle, NoBufferLeaked, U!Held
  <2>3. SessionInStep'
    BY <1>2, <2>1, <2>2, CaptureAssumption DEF AppRequest, Q!Reqbufs, SessionInStep, U!None
  <2>4. DmaHasMemory'
    BY <1>2, <2>1 DEF AppRequest, DmaHasMemory, SessionInStep, U!QuietWhenIdle
  <2> QED
    BY <2>2, <2>3, <2>4
<1>3. ASSUME NEW b \in Q!Buffers, AppQbuf(b) PROVE SInv'
  BY <1>0, <1>3 DEF AppQbuf, Q!Qbuf, TypeOK
<1>4. ASSUME NEW b \in Q!Buffers, AppDqbuf(b) PROVE SInv'
  BY <1>0, <1>4 DEF AppDqbuf, Q!Dqbuf, TypeOK
<1>5. CASE AppStreamon
  <2>1. U!QuietWhenIdle' /\ inflight' \subseteq Urbs
    BY <1>5, StreamonQuiet DEF AppStreamon, TypeOK, SessionInStep
  <2>2. /\ urb_buffer' = urb' /\ NoBufferLeaked'
        /\ urb' # U!None => inflight' \subseteq allocated' \/ "streamon" \in mishaps
    BY <1>5, StreamonBuffers DEF AppStreamon, SessionInStep, NoBufferLeaked, U!Held
  <2>3. DmaHasMemory'
    BY <1>5, <2>2 DEF AppStreamon, DmaHasMemory
  <2>4. TypeOK'
    BY <1>5, <2>1, CaptureAssumption DEF AppStreamon, TypeOK
  <2>5. SessionInStep'
    BY <1>5, <2>1, <2>2 DEF AppStreamon, SessionInStep, U!None
  <2> QED
    BY <2>2, <2>3, <2>4, <2>5
<1>6. CASE AppStreamoff
  <2>1. PICK r \in U!AfterSetInterface(0, inflight \ U!Held(urb)) :
          altsetting' = r.alt /\ inflight' = r.flying
    BY <1>6 DEF AppStreamoff, U!Streamoff
  <2>2. /\ inflight' \subseteq inflight \ U!Held(urb)
        /\ altsetting' = 0 => inflight' = {}
    BY <2>1 DEF U!AfterSetInterface, SessionInStep, U!QuietWhenIdle
  <2>3. allocated' = {} /\ urb' = U!None /\ urb_buffer' = U!None
    BY <1>6 DEF AppStreamoff, U!Streamoff, NoBufferLeaked
  <2>4. DmaHasMemory'
    BY <1>6, <2>2, <2>3 DEF AppStreamoff, DmaHasMemory, NoBufferLeaked, SessionInStep
  <2>5. NoBufferLeaked'
    BY <2>3 DEF NoBufferLeaked, U!Held, U!None
  <2>6. TypeOK'
    BY <1>6, <2>2 DEF AppStreamoff, TypeOK
  <2>7. SessionInStep'
    BY <1>6, <2>2, <2>3 DEF AppStreamoff, SessionInStep, U!QuietWhenIdle, U!None
  <2> QED
    BY <2>4, <2>5, <2>6, <2>7
<1>7. ASSUME NEW p, Q!VideoComplete(p) PROVE count' = count
  BY <1>7 DEF Q!VideoComplete, Q!PacketSkipped, Q!PacketNoBuffer, Q!PacketOutOfSync,
              Q!PacketNewFrame, Q!PacketStored, Q!vars, Q!queueVars
<1>8. CASE Arrives
  BY <1>0, <1>7, <1>8, SendNextType DEF Arrives, TypeOK
<1>9. CASE IsLost
  BY <1>0, <1>7, <1>9, SendNextType, CaptureAssumption DEF IsLost, TypeOK
<1>10. ASSUME NEW u \in inflight, U!NotResubmitted(u), UNCHANGED <<count, mishaps, app>>, TypeOK'
       PROVE  SInv'
  BY <1>10 DEF U!NotResubmitted, U!arrays, SessionInStep, DmaHasMemory, NoBufferLeaked,
               U!QuietWhenIdle, U!Held, U!None
<1>11. CASE UrbNotResubmitted
  BY <1>7, <1>10, <1>11, SendNextType DEF UrbNotResubmitted, U!NotResubmitted, TypeOK
<1>12. CASE UrbFails
  BY <1>10, <1>12, SendNextType, CaptureAssumption DEF UrbFails, U!NotResubmitted, TypeOK
<1>13. CASE CompletesOnZeroedHead
  BY <1>0, <1>13 DEF CompletesOnZeroedHead, Q!FollowZeroedHead, Q!queueVars, TypeOK
<1> QED
  BY <1>1, <1>2, <1>3, <1>4, <1>5, <1>6, <1>8, <1>9, <1>11, <1>12, <1>13 DEF Next

(* Where the application is tells, at every moment, what the driver has. *)
THEOREM SessionInvariant == Spec => []SInv
  BY InitEstablishes, NextPreserves, PTL DEF Spec

(***************************************************************************)
(* No completion finds zeroed list heads unless both STREAMON and          *)
(* STREAMOFF failed in that order of calls: whatever else fails, and       *)
(* however often, one of the two catches what the other has left behind.   *)
(***************************************************************************)
THEOREM NeverDmaWithoutBuffers == Spec => []NoDmaWithoutBuffers
<1>1. SInv => NoDmaWithoutBuffers
  <2> SUFFICES ASSUME SInv, inflight # {}, count = 0 PROVE mishaps = {"streamon", "streamoff"}
    BY DEF NoDmaWithoutBuffers
  <2>1. app = "closed" /\ urb_buffer = U!None /\ altsetting # 0
    BY DEF SInv, TypeOK, SessionInStep, U!QuietWhenIdle
  <2>2. allocated = {}
    BY <2>1 DEF SInv, NoBufferLeaked, U!Held, U!None
  <2> QED
    BY <2>1, <2>2 DEF SInv, TypeOK, SessionInStep, DmaHasMemory
<1> QED
  BY <1>1, SessionInvariant, PTL

(***************************************************************************)
(* The camera only ever writes into allocated transfer buffers, unless     *)
(* STREAMON has failed and freed those of the URBs in flight.              *)
(***************************************************************************)
THEOREM DmaAlwaysHasMemory == Spec => []DmaHasMemory
<1>1. SInv => DmaHasMemory
  BY DEF SInv
<1> QED
  BY <1>1, SessionInvariant, PTL

(* Whatever fails, the arrays know every transfer buffer that is allocated. *)
THEOREM BuffersNeverLeaked == Spec => []NoBufferLeaked
<1>1. SInv => NoBufferLeaked
  BY DEF SInv
<1> QED
  BY <1>1, SessionInvariant, PTL

-----------------------------------------------------------------------------
(* The packets of the camera are packets the decoder of MyuvcQueue knows. *)
LEMMA CameraPackets ==
  ASSUME TypeOK, NEW kind \in {"ok", "bad"}
  PROVE  Packet(kind) \in Q!Packets
<1>1. frame \in Frames /\ frame \in Nat
  BY FrameNumbers DEF TypeOK
<1>2. frame % 2 \in {0, 1}
  BY <1>1
<1>3. (sent = 0) \in BOOLEAN /\ (EofSent /\ sent + 1 = PktsPerFrame) \in BOOLEAN
  OBVIOUS
<1> QED
  BY <1>1, <1>2, <1>3, Zenon DEF Packet, Q!Packets

(* Every step of the session is a step of the queue, or leaves it alone. *)
LEMMA StepOfQueue ==
  ASSUME TypeOK, [Next]_vars
  PROVE  [Q!Next]_(Q!vars)
<1> USE DEF Q!Next
<1>0. CASE UNCHANGED queueVars
  BY <1>0 DEF queueVars, Q!vars, Q!queueVars, Q!fidVars
<1>1. CASE UNCHANGED vars
  BY <1>0, <1>1 DEF vars
<1>2. ASSUME NEW n \in 0 .. MaxBufs, AppRequest(n) PROVE Q!Next
  BY <1>2 DEF AppRequest
<1>3. ASSUME NEW b \in Q!Buffers, AppQbuf(b) PROVE Q!Next
  BY <1>3 DEF AppQbuf
<1>4. ASSUME NEW b \in Q!Buffers, AppDqbuf(b) PROVE Q!Next
  BY <1>4 DEF AppDqbuf
<1>5. CASE AppStreamon \/ AppStreamoff \/ UrbFails
  BY <1>5, <1>0 DEF AppStreamon, AppStreamoff, UrbFails
<1>6. CASE Arrives \/ UrbNotResubmitted
  BY <1>6, CameraPackets DEF Arrives, UrbNotResubmitted
<1>7. CASE IsLost
  BY <1>7, CameraPackets DEF IsLost
<1>8. CASE CompletesOnZeroedHead
  BY <1>8 DEF CompletesOnZeroedHead
<1> QED
  BY <1>1, <1>2, <1>3, <1>4, <1>5, <1>6, <1>7, <1>8 DEF Next

(***************************************************************************)
(* A capture session does to the buffer queue only what MyuvcQueue allows, *)
(* so that everything proved of the queue holds in it.                     *)
(***************************************************************************)
LEMMA SessionUsesQueue == Spec => Q!Spec
<1>1. Init => Q!Init
  BY DEF Init
<1>2. SInv /\ [Next]_vars => [Q!Next]_(Q!vars)
  BY StepOfQueue DEF SInv
<1> QED
  BY <1>1, <1>2, SessionInvariant, PTL DEF Spec, Q!Spec

-----------------------------------------------------------------------------
(***************************************************************************)
(* QP is the same queue as Q: the invariant proved in MyuvcQueueProofs     *)
(* holds in a session.                                                     *)
(***************************************************************************)
LEMMA QueueInvariantHolds == Spec => []QP!IInv
<1>1. Q!Spec => QP!Spec
  BY PTL
  DEF Q!Spec, Q!Init, Q!Next, Q!vars, Q!queueVars, Q!fidVars, Q!Buffers, Q!Reqbufs, Q!Qbuf, Q!Dqbuf,
      Q!FollowZeroedHead, Q!Packets, Q!VideoComplete, Q!PacketSkipped, Q!PacketNoBuffer,
      Q!PacketOutOfSync, Q!PacketNewFrame, Q!PacketStored, Q!MayQueue, Q!MayDequeue,
      Q!list_add_tail, Q!NewFid, Q!InSync, Q!StartsNewFrame, Q!Maxlen, Q!Nbytes, Q!Completes,
      QP!Spec, QP!Init, QP!Next, QP!vars, QP!queueVars, QP!fidVars, QP!Buffers, QP!Reqbufs, QP!Qbuf,
      QP!Dqbuf, QP!FollowZeroedHead, QP!Packets, QP!VideoComplete, QP!PacketSkipped,
      QP!PacketNoBuffer, QP!PacketOutOfSync, QP!PacketNewFrame, QP!PacketStored, QP!MayQueue,
      QP!MayDequeue, QP!list_add_tail, QP!NewFid, QP!InSync, QP!StartsNewFrame, QP!Maxlen,
      QP!Nbytes, QP!Completes
<1>2. QP!QueueAssumption
  BY CaptureAssumption, FrameNumbers DEF QP!QueueAssumption
<1>3. QP!Spec => []QP!IInv
  BY <1>2, QP!QueueInvariant
<1> QED
  BY <1>1, <1>3, SessionUsesQueue, PTL

(***************************************************************************)
(* What the decoder relies on: only the first buffer of irqqueue can be    *)
(* partly filled, and a buffer that is not started is empty.               *)
(***************************************************************************)
LEMMA FillingIsFirst ==
  ASSUME QP!IInv
  PROVE  /\ state \in [Q!Buffers -> Q!States]
         /\ bytesused \in [Q!Buffers -> 0 .. Length]
         /\ content \in [Q!Buffers -> SUBSET Q!Data]
         /\ ip2970 \in BOOLEAN
         /\ last_fid \in {-1, 0, 1}
         /\ irqqueue # <<>> => /\ Head(irqqueue) \in Q!Buffers
                               /\ state[Head(irqqueue)] \in {"QUEUED", "ACTIVE"}
         /\ \A b \in Q!Buffers : state[b] = "ACTIVE" => irqqueue # <<>> /\ b = Head(irqqueue)
         /\ \A b \in Q!Buffers : state[b] = "QUEUED" => bytesused[b] = 0 /\ content[b] = {}
<1> USE DEF Q!Buffers, QP!Buffers, Q!States, QP!States, Q!Data, QP!Data
<1>0. QP!QueueAssumption
  BY CaptureAssumption, FrameNumbers DEF QP!QueueAssumption
<1>1. /\ state \in [Q!Buffers -> Q!States]
      /\ bytesused \in [Q!Buffers -> 0 .. Length]
      /\ content \in [Q!Buffers -> SUBSET Q!Data]
      /\ ip2970 \in BOOLEAN /\ last_fid \in {-1, 0, 1}
      /\ Len(mainqueue) \in Nat
  BY DEF QP!IInv, QP!TypeOK
<1>2. ASSUME irqqueue # <<>>
      PROVE  /\ Head(irqqueue) \in Q!Buffers
             /\ state[Head(irqqueue)] \in {"QUEUED", "ACTIVE"}
             /\ \A b \in Q!Buffers : state[b] = "ACTIVE" => b = Head(irqqueue)
  BY <1>0, <1>2, QP!HeadOfIrqqueue
<1>3. ASSUME NEW b \in Q!Buffers, state[b] = "ACTIVE", irqqueue = <<>>
      PROVE  FALSE
  <2>1. PICK i \in 1 .. Len(mainqueue) : mainqueue[i] = b
    BY <1>3 DEF QP!IInv, QP!StateTellsPlace
  <2>2. i = QP!Ready + 1
    BY <1>3, <2>1 DEF QP!IInv, QP!StateTellsPlace
  <2>3. QP!Ready = Len(mainqueue)
    BY <1>1, <1>3 DEF QP!Ready
  <2> QED
    BY <1>1, <2>2, <2>3
<1>4. \A b \in Q!Buffers : state[b] = "QUEUED" => bytesused[b] = 0 /\ content[b] = {}
  BY DEF QP!IInv, QP!FidTracks
<1> QED
  BY <1>1, <1>2, <1>3, <1>4

(***************************************************************************)
(* Within a frame the FID the driver computes is the one it remembers; at  *)
(* its start an ip2970 always changes it.                                  *)
(***************************************************************************)
LEMMA FidWithinFrame ==
  ASSUME QP!IInv, TypeOK, FrameInStep, Undisturbed, altsetting # 0
  PROVE  /\ sent > 0 => Q!NewFid(Packet("ok")) = last_fid
         /\ sent = 0 /\ ip2970 => Q!NewFid(Packet("ok")) # last_fid
         /\ Q!NewFid(Packet("ok")) = IF ~ip2970 THEN frame % 2
                                     ELSE IF sent # 0 THEN fid
                                     ELSE IF last_fid # 0 THEN 0 ELSE 1
<1>1. sent \in Nat
  BY DEF TypeOK
<1>2. Q!NewFid(Packet("ok")) = IF ~ip2970 THEN frame % 2
                               ELSE IF sent # 0 THEN fid
                               ELSE IF last_fid # 0 THEN 0 ELSE 1
  BY DEF Q!NewFid, Packet
<1> QED
  BY <1>1, <1>2, FillingIsFirst DEF FrameInStep

(* What a packet brings to a buffer that has the rest of its frame so far. *)
LEMMA PacketFits ==
  ASSUME EofSent, PktsPerFrame <= Length, TypeOK,
         NEW b \in Q!Buffers, bytesused[b] = sent
  PROVE  /\ Q!Nbytes(Packet("ok"), b) = 1
         /\ Q!Completes(Packet("ok"), b) <=> sent + 1 = PktsPerFrame
<1>1. sent \in Nat /\ sent + 1 <= PktsPerFrame /\ PktsPerFrame \in Nat /\ Length \in Nat
  BY CaptureAssumption DEF TypeOK
<1>2. Packet("ok").len = 1 /\ (Packet("ok").eof <=> sent + 1 = PktsPerFrame)
  BY DEF Packet
<1>3. Q!Maxlen(b) \in Int /\ 1 <= Q!Maxlen(b)
  BY <1>1 DEF Q!Maxlen
<1>4. Q!Nbytes(Packet("ok"), b) = 1
  BY <1>2, <1>3 DEF Q!Nbytes
<1>5. ~(Packet("ok").len > Q!Maxlen(b)) /\ bytesused[b] + Q!Nbytes(Packet("ok"), b) # 0
  BY <1>1, <1>2, <1>3, <1>4
<1> QED
  BY <1>2, <1>4, <1>5 DEF Q!Completes

(***************************************************************************)
(* The next packet of the camera is decoded.  It is the next one of the    *)
(* frame that is being stored, or the first of a frame, or it is dropped   *)
(* because the decoder has missed the start of its frame.                  *)
(***************************************************************************)
LEMMA DecodedPreserves ==
  ASSUME EofSent, PktsPerFrame <= Length, QP!IInv, SInv, FInv,
         inflight # {}, Q!VideoComplete(Packet("ok")), SendNext,
         UNCHANGED <<altsetting, losses, mishaps, app>>
  PROVE  FInv'
<1> SUFFICES ASSUME Undisturbed PROVE FInv'
  BY DEF Undisturbed, FInv, FrameInStep, WholeFrames
<1>0. altsetting # 0 /\ app # "ready"
  BY DEF SInv, SessionInStep, U!QuietWhenIdle, Undisturbed
<1> DEFINE p == Packet("ok")
           h == Head(irqqueue)
<1>1. /\ sent \in Nat /\ sent + 1 <= PktsPerFrame /\ PktsPerFrame \in Nat
      /\ app # "ready" /\ app' = app
  BY <1>0, CaptureAssumption DEF SInv, TypeOK
<1>2. /\ sent + 1 < PktsPerFrame => sent' = sent + 1 /\ frame' = frame
      /\ sent + 1 = PktsPerFrame => sent' = 0
  BY <1>1 DEF SendNext
<1>3. /\ sent > 0 => Q!NewFid(p) = last_fid
      /\ sent = 0 /\ ip2970 => Q!NewFid(p) # last_fid
      /\ Q!NewFid(p) = IF ~ip2970 THEN frame % 2
                       ELSE IF sent # 0 THEN fid
                       ELSE IF last_fid # 0 THEN 0 ELSE 1
  BY <1>0, FidWithinFrame DEF SInv, FInv
<1>4. Q!VideoComplete(p)
  OBVIOUS
<1>5. ~Q!PacketSkipped(p)
  BY DEF Q!PacketSkipped, Packet
<1>6. CASE Q!PacketNoBuffer(p)
  <2>1. /\ \A b \in Q!Buffers : state[b] # "ACTIVE"
        /\ fid' = Q!NewFid(p) /\ last_fid' = Q!NewFid(p)
        /\ state' = state /\ bytesused' = bytesused /\ content' = content /\ ip2970' = ip2970
    BY <1>6, FillingIsFirst DEF Q!PacketNoBuffer, Q!queueVars
  <2>2. FrameInStep'
    BY <1>1, <1>2, <1>3, <2>1 DEF FrameInStep
  <2> QED
    BY <2>1, <2>2 DEF FInv, WholeFrames
<1>7. CASE Q!PacketOutOfSync(p)
  <2>1. /\ \A b \in Q!Buffers : state[b] # "ACTIVE"
        /\ fid' = Q!NewFid(p) /\ last_fid' = last_fid /\ Q!NewFid(p) = last_fid
        /\ state' = state /\ bytesused' = bytesused /\ content' = content /\ ip2970' = ip2970
    BY <1>7, FillingIsFirst DEF Q!PacketOutOfSync, Q!InSync, Q!queueVars
  <2>2. FrameInStep'
    BY <1>1, <1>2, <1>3, <2>1 DEF FrameInStep
  <2> QED
    BY <2>1, <2>2 DEF FInv, WholeFrames
<1>8. ~Q!PacketNewFrame(p)
  <2> SUFFICES ASSUME Q!PacketNewFrame(p) PROVE FALSE
    OBVIOUS
  <2>1. h \in Q!Buffers /\ state[h] \in {"QUEUED", "ACTIVE"}
        /\ Q!NewFid(p) # last_fid /\ bytesused[h] # 0
    BY FillingIsFirst DEF Q!PacketNewFrame, Q!StartsNewFrame
  <2>2. state[h] = "ACTIVE"
    BY <2>1, FillingIsFirst
  <2> QED
    BY <1>3, <2>1, <2>2 DEF FInv, FrameInStep
<1>9. CASE Q!PacketStored(p)
  <2> DEFINE data == [frame |-> p.frame, fid |-> Q!NewFid(p), soi |-> p.soi /\ ip2970]
  <2>1. /\ irqqueue # <<>> /\ Q!InSync(p, h)
        /\ bytesused' = [bytesused EXCEPT ![h] = @ + Q!Nbytes(p, h)]
        /\ content' = [content EXCEPT ![h] = IF Q!Nbytes(p, h) = 0 THEN @ ELSE @ \cup {data}]
        /\ state' = [state EXCEPT ![h] = IF Q!Completes(p, h) THEN "DONE" ELSE "ACTIVE"]
        /\ fid' = Q!NewFid(p) /\ last_fid' = Q!NewFid(p) /\ ip2970' = ip2970
    BY <1>9 DEF Q!PacketStored
  <2>2. /\ state \in [Q!Buffers -> Q!States]
        /\ bytesused \in [Q!Buffers -> 0 .. Length]
        /\ content \in [Q!Buffers -> SUBSET Q!Data]
        /\ h \in Q!Buffers /\ state[h] \in {"QUEUED", "ACTIVE"}
        /\ \A b \in Q!Buffers : state[b] = "ACTIVE" => b = h
        /\ state[h] = "QUEUED" => bytesused[h] = 0 /\ content[h] = {}
    BY <2>1, FillingIsFirst
  <2>3. bytesused[h] = sent /\ \A x \in content[h] : x.frame = frame
    <3>1. CASE state[h] = "ACTIVE"
      BY <2>2, <3>1 DEF FInv, FrameInStep
    <3>2. CASE state[h] = "QUEUED"
      <4>1. ~(sent > 0)
        BY <1>3, <2>1, <3>2 DEF Q!InSync
      <4> QED
        BY <1>1, <2>2, <3>2, <4>1
    <3> QED
      BY <2>2, <3>1, <3>2
  <2>4. Q!Nbytes(p, h) = 1 /\ (Q!Completes(p, h) <=> sent + 1 = PktsPerFrame)
    BY <2>2, <2>3, PacketFits DEF SInv
  <2>5. data.frame = frame
    BY DEF Packet
  <2>6. /\ bytesused'[h] = sent + 1
        /\ content'[h] = content[h] \cup {data}
        /\ state'[h] = IF Q!Completes(p, h) THEN "DONE" ELSE "ACTIVE"
        /\ \A b \in Q!Buffers : b # h => /\ bytesused'[b] = bytesused[b]
                                         /\ content'[b] = content[b]
                                         /\ state'[b] = state[b]
    <3> HIDE DEF data, p
    <3> QED
      BY <2>1, <2>2, <2>3, <2>4
  <2>7. \A x \in content'[h] : x.frame = frame
    <3> HIDE DEF data
    <3> QED
      BY <2>3, <2>5, <2>6
  <2>8. (sent' > 0) => last_fid' = (IF ip2970' THEN fid' ELSE frame' % 2)
    BY <1>1, <1>2, <1>3, <2>1
  <2>9. ASSUME NEW b \in Q!Buffers, state'[b] = "ACTIVE"
        PROVE  /\ app' # "ready" /\ sent' > 0 /\ bytesused'[b] = sent'
               /\ \A x \in content'[b] : x.frame = frame'
    <3>1. b = h /\ ~Q!Completes(p, h)
      BY <2>2, <2>6, <2>9
    <3>2. sent' = sent + 1 /\ frame' = frame
      BY <1>1, <1>2, <2>4, <3>1
    <3> QED
      BY <1>1, <2>6, <2>7, <3>1, <3>2
  <2>10. ASSUME NEW b \in Q!Buffers, state'[b] = "DONE"
         PROVE  bytesused'[b] = PktsPerFrame /\ \A x, y \in content'[b] : x.frame = y.frame
    <3>1. CASE b = h
      BY <2>4, <2>6, <2>7, <2>10, <3>1
    <3>2. CASE b # h
      BY <2>6, <2>10, <3>2 DEF FInv, WholeFrames
    <3> QED
      BY <3>1, <3>2
  <2>11. FrameInStep'
    BY <2>8, <2>9 DEF FrameInStep
  <2>12. WholeFrames'
    BY <2>10 DEF WholeFrames
  <2> QED
    BY <2>11, <2>12 DEF FInv
<1> QED
  BY <1>4, <1>5, <1>6, <1>7, <1>8, <1>9 DEF Q!VideoComplete

(***************************************************************************)
(* The other steps of a session: STREAMON starts a new frame, but only     *)
(* after REQBUFS has left no buffer partly filled.                         *)
(***************************************************************************)
LEMMA FramePreserves ==
  ASSUME EofSent, ~KeepsBuffers, PktsPerFrame <= Length,
         QP!IInv, SInv, FInv, [Next]_vars
  PROVE  FInv'
<1> USE DEF queueVars, urbVars, cameraVars
<1>0. CASE UNCHANGED vars
  BY <1>0 DEF vars, FInv, FrameInStep, WholeFrames, Undisturbed
<1>1. ASSUME NEW n \in 0 .. MaxBufs, AppRequest(n) PROVE FInv'
  <2>1. \A b \in Q!Buffers : state'[b] = "IDLE"
    BY <1>1 DEF AppRequest, Q!Reqbufs
  <2>2. WholeFrames'
    BY <2>1 DEF WholeFrames
  <2>3. CASE altsetting = 0
    BY <1>1, <2>1, <2>2, <2>3 DEF AppRequest, U!Reqbufs, FInv, FrameInStep
  <2>4. CASE altsetting # 0
    BY <1>1, <2>2, <2>4 DEF AppRequest, SInv, SessionInStep, FInv, FrameInStep, Undisturbed
  <2> QED
    BY <2>3, <2>4
<1>2. ASSUME NEW b \in Q!Buffers, AppQbuf(b) PROVE FInv'
  <2>1. /\ state'[b] = "QUEUED"
        /\ \A c \in Q!Buffers : c # b => /\ state'[c] = state[c]
                                         /\ bytesused'[c] = bytesused[c]
                                         /\ content'[c] = content[c]
        /\ UNCHANGED <<fid, last_fid, ip2970, frame, sent, altsetting, losses, mishaps, app>>
    BY <1>2, FillingIsFirst DEF AppQbuf, Q!Qbuf, Q!fidVars
  <2> QED
    BY <2>1 DEF FInv, FrameInStep, WholeFrames, Undisturbed
<1>3. ASSUME NEW b \in Q!Buffers, AppDqbuf(b) PROVE FInv'
  <2>1. /\ state'[b] = "IDLE"
        /\ \A c \in Q!Buffers : c # b => state'[c] = state[c]
        /\ UNCHANGED <<bytesused, content, fid, last_fid, ip2970, frame, sent, altsetting,
                       losses, mishaps, app>>
    BY <1>3, FillingIsFirst DEF AppDqbuf, Q!Dqbuf, Q!fidVars
  <2> QED
    BY <2>1 DEF FInv, FrameInStep, WholeFrames, Undisturbed
<1>4. CASE AppStreamon
  <2>1. Undisturbed' => Undisturbed /\ altsetting = 0 /\ sent' = 0
    BY <1>4 DEF AppStreamon, Undisturbed, SInv, SessionInStep
  <2> QED
    BY <1>4, <2>1 DEF AppStreamon, FInv, FrameInStep, WholeFrames
<1>5. CASE AppStreamoff
  <2>1. Undisturbed' => Undisturbed /\ altsetting' = 0
    BY <1>5 DEF AppStreamoff, Undisturbed
  <2> QED
    BY <1>5, <2>1 DEF AppStreamoff, FInv, FrameInStep, WholeFrames
<1>6. CASE Arrives
  BY <1>6, DecodedPreserves DEF Arrives
<1>7. CASE UrbNotResubmitted
  BY <1>7, DecodedPreserves DEF UrbNotResubmitted, U!NotResubmitted
<1>8. CASE IsLost \/ UrbFails
  <2>1. ~Undisturbed'
    BY <1>8 DEF IsLost, UrbFails, Undisturbed, SInv, TypeOK
  <2> QED
    BY <2>1 DEF FInv, FrameInStep, WholeFrames
<1>9. CASE CompletesOnZeroedHead
  BY <1>9 DEF CompletesOnZeroedHead, Q!FollowZeroedHead, Q!queueVars, Q!fidVars,
              FInv, FrameInStep, WholeFrames, Undisturbed
<1> QED
  BY <1>0, <1>1, <1>2, <1>3, <1>4, <1>5, <1>6, <1>7, <1>8, <1>9 DEF Next

(***************************************************************************)
(* With a camera that marks the end of every frame, buffers large enough   *)
(* for a frame and an application that asks for its buffers anew after     *)
(* STREAMOFF, every buffer the application gets holds one whole frame,     *)
(* however long the queue was dry and however often URBs were not          *)
(* submitted again, STREAMON failed or streaming was stopped in the middle *)
(* of a frame, until a packet is lost or STREAMOFF fails.                  *)
(***************************************************************************)
THEOREM AlwaysWholeFrames ==
  ASSUME EofSent, ~KeepsBuffers, PktsPerFrame <= Length
  PROVE  Spec => []WholeFrames
<1>1. Init => FInv
  BY DEF Init, Q!Init, FInv, FrameInStep, WholeFrames
<1>2. QP!IInv /\ SInv /\ FInv /\ [Next]_vars => FInv'
  BY FramePreserves
<1>3. FInv => WholeFrames
  BY DEF FInv
<1> QED
  BY <1>1, <1>2, <1>3, SessionInvariant, QueueInvariantHolds, PTL DEF Spec
=============================================================================
