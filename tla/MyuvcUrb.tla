------------------------------ MODULE MyuvcUrb ------------------------------
(***************************************************************************)
(* The URBs of the USB camera driver, myuvc/10_th/uvc.c: allocated and     *)
(* submitted by VIDIOC_STREAMON, resubmitted by the completion handler,    *)
(* killed and freed by VIDIOC_STREAMOFF and close.                         *)
(*                                                                         *)
(* The driver knows its URBs only by the arrays myuvc_queue.urb[] and      *)
(* urb_buffer[]; VIDIOC_REQBUFS clears them together with the rest of      *)
(* myuvc_queue.  A URB the USB core has in flight keeps itself alive, but  *)
(* not the transfer buffer it points to.                                   *)
(*                                                                         *)
(* The ioctls modelled here run under the mutex of v4l2_ioctl (only        *)
(* VIDIOC_DQBUF, which touches no URB, does not) and are one step each:    *)
(* what a completion does between two of their statements, it can as well  *)
(* do before or after them.                                                *)
(***************************************************************************)
EXTENDS Integers, FiniteSets

CONSTANTS
  NUrbs,   (* MYUVC_URBS, 5 in the code                                     *)
  Urbs,    (* identities of URBs, each with the transfer buffer set for it; *)
           (* finite, as memory is: an allocation fails when none is left   *)
  NULL

ASSUME UrbAssumption ==
  /\ NUrbs \in Nat \ {0}
  /\ IsFiniteSet(Urbs)
  /\ NULL \notin Urbs

VARIABLES
  urb,         (* myuvc_queue.urb[]                                         *)
  urb_buffer,  (* myuvc_queue.urb_buffer[], as the URB it was allocated for *)
  inflight,    (* URBs the USB core holds                                   *)
  allocated,   (* URBs whose transfer buffer is allocated                   *)
  altsetting,  (* of the streaming interface: 0 has no endpoint             *)
  mem          (* myuvc_queue.mem # NULL                                    *)

arrays == <<urb, urb_buffer>>
vars == <<arrays, inflight, allocated, altsetting, mem>>

Slots == 1 .. NUrbs

(* myuvc_streaming_bAlternateSetting *)
Streaming == 5

None == [i \in Slots |-> NULL]

(* The URBs an array holds a pointer to. *)
Held(f) == { f[i] : i \in Slots } \ {NULL}

(* An identity is free for allocation when nothing of it is left. *)
Unused == Urbs \ (inflight \cup allocated \cup Held(urb))

TypeOK ==
  /\ urb \in [Slots -> Urbs \cup {NULL}]
  /\ urb_buffer \in [Slots -> Urbs \cup {NULL}]
  /\ inflight \subseteq Urbs
  /\ allocated \subseteq Urbs
  /\ altsetting \in {0, Streaming}
  /\ mem \in BOOLEAN

Init ==
  /\ urb = None
  /\ urb_buffer = None
  /\ inflight = {}
  /\ allocated = {}
  /\ altsetting = 0
  /\ mem = FALSE

-----------------------------------------------------------------------------
(* One slip away: the URBs of the old setting are not cancelled. *)
AfterSetInterfaceNoFlush(alt, flying) ==
  { [alt |-> altsetting, flying |-> flying], [alt |-> alt, flying |-> flying] }

(***************************************************************************)
(* usb_set_interface: the request may fail and then changes nothing; uvc.c *)
(* ignores the result.  When it succeeds, the USB core cancels every URB   *)
(* on the endpoints of the old setting before it returns.                  *)
(***************************************************************************)
AfterSetInterface(alt, flying) ==
  { [alt |-> altsetting, flying |-> flying], [alt |-> alt, flying |-> {}] }

(***************************************************************************)
(* myuvc_alloc_init_urbs overwrites the arrays from slot 1 on with new     *)
(* URBs.  It stops at the first slot for which the buffer or the URB       *)
(* cannot be allocated and frees, with myuvc_uninit_urbs, whatever the     *)
(* arrays hold then; the slots after it still hold old pointers.  uvc.c    *)
(* prints the error and goes on: usb_submit_urb(NULL) fails, and there is  *)
(* nothing left to free.                                                   *)
(***************************************************************************)
OldAfter(k) == { urb_buffer[i] : i \in k + 1 .. NUrbs } \ {NULL}

StreamonNoMemory ==
  \E k \in Slots : \E r \in AfterSetInterface(Streaming, inflight) :
    /\ altsetting' = r.alt
    /\ inflight' = r.flying
    /\ allocated' = allocated \ OldAfter(k)
    /\ urb' = None
    /\ urb_buffer' = None
    /\ UNCHANGED mem

(* One slip away: i <= MYUVC_URBS in the loop. *)
NewUrbsOneMore == { f \in [0 .. NUrbs -> Unused] : \A i, j \in 0 .. NUrbs : f[i] = f[j] => i = j }

(***************************************************************************)
(* All slots get a new URB, and the pointers they held before are lost.    *)
(* Then the URBs are submitted in order; with altsetting 0 there is no     *)
(* endpoint and the first submission fails.  After a failure               *)
(* myuvc_uninit_urbs frees the new URBs and buffers, those already         *)
(* submitted included.                                                     *)
(***************************************************************************)
NewUrbs == { f \in [Slots -> Unused] : \A i, j \in Slots : f[i] = f[j] => i = j }

StreamonSubmitFails(new, done) ==
  \E r \in AfterSetInterface(Streaming, inflight) :
    /\ r.alt = 0 => done = 0
    /\ altsetting' = r.alt
    /\ inflight' = r.flying \cup { new[i] : i \in 1 .. done }
    /\ urb' = None
    /\ urb_buffer' = None
    /\ UNCHANGED <<allocated, mem>>

StreamonStarts(new) ==
  \E r \in AfterSetInterface(Streaming, inflight) :
    /\ r.alt = Streaming
    /\ altsetting' = r.alt
    /\ inflight' = r.flying \cup Held(new)
    /\ allocated' = allocated \cup Held(new)
    /\ urb' = new
    /\ urb_buffer' = new
    /\ UNCHANGED mem

Streamon ==
  \/ StreamonNoMemory
  \/ \E new \in NewUrbs :
       \/ \E done \in 0 .. NUrbs - 1 : StreamonSubmitFails(new, done)
       \/ StreamonStarts(new)

(* One slip away: urb_buffer[i] is freed and not set to NULL. *)
StreamoffKeepsPointers ==
  /\ \E r \in AfterSetInterface(0, inflight \ Held(urb)) :
       /\ altsetting' = r.alt
       /\ inflight' = r.flying
  /\ allocated' = allocated \ Held(urb_buffer)
  /\ urb' = None
  /\ UNCHANGED <<urb_buffer, mem>>

(* One slip away: the URBs are freed without being killed. *)
StreamoffNoKill ==
  /\ \E r \in AfterSetInterface(0, inflight) :
       /\ altsetting' = r.alt
       /\ inflight' = r.flying
  /\ allocated' = allocated \ Held(urb_buffer)
  /\ urb' = None
  /\ urb_buffer' = None
  /\ UNCHANGED mem

(* myuvc_vidioc_streamoff, which myuvc_close calls too: kill, free, altsetting 0. *)
Streamoff ==
  /\ \E r \in AfterSetInterface(0, inflight \ Held(urb)) :
       /\ altsetting' = r.alt
       /\ inflight' = r.flying
  /\ allocated' = allocated \ Held(urb_buffer)
  /\ urb' = None
  /\ urb_buffer' = None
  /\ UNCHANGED mem

(***************************************************************************)
(* VIDIOC_REQBUFS: myuvc_free_buffers clears all of myuvc_queue when there *)
(* is memory to free, and so does the allocation of got > 0 new buffers.   *)
(***************************************************************************)
Reqbufs(got) ==
  /\ mem' = (got > 0)
  /\ IF mem \/ got > 0
     THEN urb' = None /\ urb_buffer' = None
     ELSE UNCHANGED arrays
  /\ UNCHANGED <<inflight, allocated, altsetting>>

(***************************************************************************)
(* A URB completes.  With status 0 the handler resubmits it, which may     *)
(* fail; with any other status it returns at once.                         *)
(***************************************************************************)
Resubmitted(u) ==
  /\ u \in inflight
  /\ UNCHANGED vars

NotResubmitted(u) ==
  /\ u \in inflight
  /\ inflight' = inflight \ {u}
  /\ UNCHANGED <<arrays, allocated, altsetting, mem>>

Next ==
  \/ Streamon
  \/ Streamoff
  \/ \E got \in {0, 1} : Reqbufs(got)
  \/ \E u \in Urbs : Resubmitted(u) \/ NotResubmitted(u)

Spec == Init /\ [][Next]_vars

-----------------------------------------------------------------------------
(* Properties *)

(***************************************************************************)
(* Whatever the order of ioctls and wherever STREAMON fails, the pointers  *)
(* in the arrays are good: a slot has both a URB and its buffer or         *)
(* neither, no URB is in two slots, and what myuvc_uninit_urbs would free  *)
(* is allocated, so nothing is freed twice.                                *)
(***************************************************************************)
PointersGood ==
  /\ \A i \in Slots : urb_buffer[i] = urb[i]
  /\ \A i, j \in Slots : urb[i] = urb[j] /\ urb[i] # NULL => i = j
  /\ Held(urb_buffer) \subseteq allocated

(***************************************************************************)
(* When the interface is back at setting 0 nothing is in flight, not even  *)
(* URBs whose pointers were lost in REQBUFS or in a second STREAMON: it is *)
(* usb_set_interface that cancels those.                                   *)
(***************************************************************************)
QuietWhenIdle == altsetting = 0 => inflight = {}

(* The inductive invariant. *)
UInv == TypeOK /\ PointersGood /\ QuietWhenIdle
=============================================================================
