---------------------------- MODULE MyuvcCapture ----------------------------
(***************************************************************************)
(* A capture session with the USB camera driver, myuvc/10_th/uvc.c:        *)
(* MyuvcQueue and MyuvcUrb, the camera whose packets the URBs bring, and   *)
(* an application that makes the calls in the order uvc.c numbers them     *)
(* (A7 REQBUFS, A10 QBUF, A11 STREAMON, A12 poll, A13 DQBUF, A15 QBUF      *)
(* again, A17 STREAMOFF, A18 close), as often as it likes.                 *)
(*                                                                         *)
(* Each step of a component is an action of its module; what is new here   *)
(* is when it can happen.  A packet only reaches the decoder while a URB   *)
(* is in flight, and the application only calls what its last result       *)
(* allows.                                                                 *)
(***************************************************************************)
EXTENDS Integers, Sequences, FiniteSets

CONSTANTS
  MaxBufs, Length, Frames, NUrbs, Urbs, NULL,
  PktsPerFrame,   (* packets the camera sends for a frame, one byte each    *)
  EofSent,        (* the camera sets EOF in the last packet of a frame      *)
  MaxLoss,        (* how many packets may be lost or arrive damaged         *)
  Faults,         (* what may fail: "urb", a URB or its resubmission;       *)
                  (* "streamon", VIDIOC_STREAMON; "streamoff", the return   *)
                  (* to setting 0 in VIDIOC_STREAMOFF                       *)
  KeepsBuffers    (* after STREAMOFF the application may start again        *)
                  (* without VIDIOC_REQBUFS                                 *)

VARIABLES
  count, state, bytesused, mainqueue, irqqueue, fid, last_fid, oops, ip2970, content,
  urb, urb_buffer, inflight, allocated, altsetting,
  frame, sent,    (* the camera: number of the frame, packets of it sent    *)
  losses,         (* packets that were lost so far                          *)
  mishaps,        (* the ioctls that failed since buffers were last         *)
                  (* requested with the camera at setting 0                 *)
  app             (* where the application is                               *)

ASSUME CaptureAssumption ==
  /\ MaxBufs \in Nat \ {0} /\ Length \in Nat \ {0}
  /\ NUrbs \in Nat \ {0} /\ IsFiniteSet(Urbs) /\ NULL \notin Urbs
  /\ PktsPerFrame \in Nat \ {0}
  /\ EofSent \in BOOLEAN /\ KeepsBuffers \in BOOLEAN
  /\ MaxLoss \in Nat
  /\ Faults \subseteq {"urb", "streamon", "streamoff"}
  /\ IsFiniteSet(Frames) /\ Frames # {}
  /\ Cardinality(Frames) % 2 = 0 /\ Frames = 0 .. Cardinality(Frames) - 1

Q == INSTANCE MyuvcQueue WITH PayloadLens <- {1}
U == INSTANCE MyuvcUrb WITH mem <- count > 0

queueVars == <<count, state, bytesused, mainqueue, irqqueue, fid, last_fid, oops, ip2970, content>>
urbVars == <<urb, urb_buffer, inflight, allocated, altsetting>>
cameraVars == <<frame, sent>>
vars == <<queueVars, urbVars, cameraVars, losses, mishaps, app>>

TypeOK ==
  /\ frame \in Frames
  /\ sent \in 0 .. PktsPerFrame - 1
  /\ losses \in 0 .. MaxLoss
  /\ inflight \subseteq Urbs
  /\ mishaps \subseteq {"streamon", "streamoff"}
  /\ app \in {"closed", "ready", "streaming", "failed"}

Init ==
  /\ Q!Init
  /\ U!Init
  /\ frame = 0 /\ sent = 0
  /\ losses = 0
  /\ mishaps = {}
  /\ app = "closed"

-----------------------------------------------------------------------------
(* The application *)

(* A7: n buffers are allocated, and cleared with the URB pointers. *)
AppRequest(n) ==
  /\ app = "closed"
  /\ Q!Reqbufs(n)
  /\ U!Reqbufs(n)
  /\ app' = IF n > 0 THEN "ready" ELSE "closed"
  /\ mishaps' = IF altsetting = 0 THEN {} ELSE mishaps
  /\ UNCHANGED <<cameraVars, losses>>

(* A10 and A15 *)
AppQbuf(b) ==
  /\ app \in {"ready", "streaming"}
  /\ Q!Qbuf(b)
  /\ UNCHANGED <<urbVars, cameraVars, losses, mishaps, app>>

(***************************************************************************)
(* A11.  A camera that is switched from setting 0 to the streaming setting *)
(* starts with a new frame; one that was never switched back may be        *)
(* anywhere.                                                               *)
(***************************************************************************)
AppStreamon ==
  /\ app = "ready"
  /\ UNCHANGED queueVars
  /\ U!Streamon
  /\ app' = IF urb' # U!None THEN "streaming" ELSE "failed"
  /\ "streamon" \in Faults \/ app' = "streaming"
  /\ mishaps' = IF app' = "failed" THEN mishaps \cup {"streamon"} ELSE mishaps
  /\ frame' \in Frames
  /\ sent' \in IF altsetting = 0 THEN {0} ELSE 0 .. PktsPerFrame - 1
  /\ UNCHANGED losses

(* A12 and A13: poll has said that the first buffer of mainqueue is DONE. *)
AppDqbuf(b) ==
  /\ app = "streaming"
  /\ Q!Dqbuf(b)
  /\ UNCHANGED <<urbVars, cameraVars, losses, mishaps, app>>

(***************************************************************************)
(* A17, and A18 after a failed STREAMON.  The queue is left as it is.  The *)
(* result of usb_set_interface is ignored: when it fails, the camera is    *)
(* left at the streaming setting, and with it the URBs that are known to   *)
(* nobody.                                                                 *)
(***************************************************************************)
AppStreamoff ==
  /\ app \in {"streaming", "failed"}
  /\ UNCHANGED queueVars
  /\ U!Streamoff
  /\ "streamoff" \in Faults \/ altsetting' = 0
  /\ mishaps' = IF altsetting' = 0 THEN mishaps ELSE mishaps \cup {"streamoff"}
  /\ app' \in IF KeepsBuffers THEN {"closed", "ready"} ELSE {"closed"}
  /\ UNCHANGED <<cameraVars, losses>>

-----------------------------------------------------------------------------
(* The camera *)

(* Every frame is a JPEG file, so its first packet has the marker. *)
Packet(kind) ==
  [kind |-> kind, frame |-> frame, fid |-> frame % 2, soi |-> sent = 0, len |-> 1,
   eof |-> EofSent /\ sent + 1 = PktsPerFrame]

SendNext ==
  IF sent + 1 < PktsPerFrame
  THEN sent' = sent + 1 /\ frame' = frame
  ELSE sent' = 0 /\ frame' = (frame + 1) % Cardinality(Frames)

(***************************************************************************)
(* The next packet of the camera arrives in a URB; the handler decodes it  *)
(* and submits the URB again.                                              *)
(***************************************************************************)
Arrives ==
  /\ inflight # {}
  /\ Q!VideoComplete(Packet("ok"))
  /\ SendNext
  /\ UNCHANGED <<urbVars, losses, mishaps, app>>

(* The packet is lost, or arrives damaged. *)
IsLost ==
  /\ losses < MaxLoss
  /\ inflight # {}
  /\ Q!VideoComplete(Packet("bad"))
  /\ SendNext
  /\ losses' = losses + 1
  /\ UNCHANGED <<urbVars, mishaps, app>>

(* The handler decodes the packet and cannot submit the URB again. *)
UrbNotResubmitted ==
  /\ "urb" \in Faults
  /\ Q!VideoComplete(Packet("ok"))
  /\ \E u \in inflight : U!NotResubmitted(u)
  /\ SendNext
  /\ UNCHANGED <<losses, mishaps, app>>

(***************************************************************************)
(* A URB completes with an error: the handler returns before it looks at   *)
(* the queue, and neither decodes what the URB has brought nor submits it  *)
(* again.  Packets lost before this one, in the same URB, are IsLost.      *)
(***************************************************************************)
UrbFails ==
  /\ "urb" \in Faults
  /\ losses < MaxLoss
  /\ UNCHANGED queueVars
  /\ \E u \in inflight : U!NotResubmitted(u)
  /\ SendNext
  /\ losses' = losses + 1
  /\ UNCHANGED <<mishaps, app>>

(* A URB completes, and the handler takes the zeroed list head for a list. *)
CompletesOnZeroedHead ==
  /\ inflight # {}
  /\ Q!FollowZeroedHead
  /\ UNCHANGED <<urbVars, cameraVars, losses, mishaps, app>>

Next ==
  \/ \E n \in 0 .. MaxBufs : AppRequest(n)
  \/ \E b \in Q!Buffers : AppQbuf(b) \/ AppDqbuf(b)
  \/ AppStreamon
  \/ AppStreamoff
  \/ Arrives
  \/ IsLost
  \/ UrbNotResubmitted
  \/ UrbFails
  \/ CompletesOnZeroedHead

Spec == Init /\ [][Next]_vars

(***************************************************************************)
(* The host controller polls the camera in every USB frame, so packets     *)
(* keep coming while a URB is in flight; the application's loop queues     *)
(* every buffer it has dequeued.                                           *)
(***************************************************************************)
FairSpec ==
  /\ Spec
  /\ WF_vars(Arrives)
  /\ \A b \in Q!Buffers : WF_vars(AppQbuf(b))

-----------------------------------------------------------------------------
(* Properties *)

(***************************************************************************)
(* It takes two failures for a URB to be in flight while the list heads    *)
(* are zero, where its completion brings the kernel down: STREAMON has to  *)
(* fail half way, which leaves URBs that are known to nobody, and          *)
(* STREAMOFF has to fail to bring the camera back to setting 0, which      *)
(* would have cancelled them.                                              *)
(***************************************************************************)
NoDmaWithoutBuffers ==
  inflight # {} /\ count = 0 => mishaps = {"streamon", "streamoff"}

(***************************************************************************)
(* The camera only writes into transfer buffers that are allocated, unless *)
(* a STREAMON that failed has freed those of the URBs it had submitted.    *)
(***************************************************************************)
DmaHasMemory == inflight \subseteq allocated \/ "streamon" \in mishaps

(***************************************************************************)
(* No transfer buffer is lost, although VIDIOC_REQBUFS clears the pointers *)
(* and VIDIOC_STREAMON overwrites them: whatever failed before, the        *)
(* arrays know every buffer that is allocated, and STREAMOFF frees it.     *)
(***************************************************************************)
NoBufferLeaked == allocated = U!Held(urb_buffer)

(* No packet was lost, and STREAMOFF has always brought the camera back to setting 0. *)
Undisturbed == losses = 0 /\ "streamoff" \notin mishaps

(***************************************************************************)
(* Every buffer that is handed to the application holds one whole frame,   *)
(* every packet of it, although the queue runs dry in the middle of a      *)
(* frame, URBs are not submitted again, the application starts and stops,  *)
(* and last_fid survives both: until a packet is lost, or a STREAMOFF      *)
(* leaves the camera at the streaming setting, from where the next         *)
(* STREAMON takes it up in the middle of a frame.                          *)
(***************************************************************************)
WholeFrames ==
  Undisturbed =>
    \A b \in Q!Buffers :
      state[b] = "DONE" =>
        /\ bytesused[b] = PktsPerFrame
        /\ \A x, y \in content[b] : x.frame = y.frame

(***************************************************************************)
(* While the application streams, every buffer keeps circulating: it is    *)
(* filled, again and again, also after the decoder has lost the frame      *)
(* boundary because no buffer was queued, and as long as a single URB is   *)
(* left: one that is not submitted again never comes back, and with the    *)
(* last of them the stream stands still.                                   *)
(***************************************************************************)
Circulates ==
  \A b \in Q!Buffers :
    (app = "streaming" /\ b < count) ~> (state[b] = "DONE" \/ app # "streaming" \/ inflight = {})

-----------------------------------------------------------------------------
(* Why they hold *)

(* Where the application is tells what the driver has. *)
SessionInStep ==
  /\ app # "closed" => count > 0
  /\ app # "streaming" => urb = U!None
  /\ urb_buffer = urb
  /\ app \in {"closed", "ready"} /\ altsetting # 0 => "streamoff" \in mishaps
  /\ U!QuietWhenIdle

(***************************************************************************)
(* How far the camera is tells what the decoder has: within a frame it     *)
(* remembers the frame's FID, and a buffer that is being filled has every  *)
(* packet of the frame so far.                                             *)
(***************************************************************************)
FrameInStep ==
  Undisturbed =>
    /\ altsetting # 0 /\ sent > 0 => last_fid = IF ip2970 THEN fid ELSE frame % 2
    /\ \A b \in Q!Buffers :
         state[b] = "ACTIVE" =>
           /\ app # "ready" /\ sent > 0
           /\ bytesused[b] = sent
           /\ \A x \in content[b] : x.frame = frame

(* Inductive in every session ... *)
SInv == TypeOK /\ SessionInStep /\ DmaHasMemory /\ NoBufferLeaked

(* ... and in one in which every frame ends with EOF. *)
FInv == FrameInStep /\ WholeFrames
=============================================================================
