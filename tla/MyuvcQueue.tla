----------------------------- MODULE MyuvcQueue -----------------------------
(***************************************************************************)
(* The buffer queue of the USB camera driver, myuvc/10_th/uvc.c: the pool  *)
(* of frame buffers, the two lists they travel on, and the decoder of the  *)
(* isochronous packets that fills them.                                    *)
(*                                                                         *)
(* A buffer the application has queued is on both lists.  The completion   *)
(* handler myuvc_video_complete fills the first buffer of irqqueue and     *)
(* takes it off that list when a frame is complete; VIDIOC_DQBUF takes the *)
(* first buffer of mainqueue, provided it is DONE.                         *)
(*                                                                         *)
(* The steps are the ioctls and one iteration of the handler's packet      *)
(* loop.  On the uniprocessor this driver is written for, no ioctl runs    *)
(* inside the handler, so its local variable buf is always the first       *)
(* buffer of irqqueue, or NULL when that list is empty.  (What becomes of  *)
(* an ioctl the handler interrupts is the subject of MyuvcIrqRace.)        *)
(*                                                                         *)
(* Packets arrive in any order and with any contents: MyuvcCapture         *)
(* composes this module with a camera that sends frames, with the URBs     *)
(* that carry them and with the application.                               *)
(***************************************************************************)
EXTENDS Integers, Sequences, FiniteSets

CONSTANTS
  MaxBufs,      (* size of myuvc_queue.buffer[], 32 in the code             *)
  Length,       (* buf.length: the room in a buffer, fmt.pix.sizeimage      *)
  PayloadLens,  (* the payload sizes a packet can have (len - src[0])       *)
  Frames        (* numbers of the camera's frames; they name a packet's data*)

ASSUME QueueAssumption ==
  /\ MaxBufs \in Nat \ {0}
  /\ Length \in Nat \ {0}
  /\ PayloadLens \subseteq Nat
  /\ Frames \subseteq Nat

VARIABLES
  count,        (* myuvc_queue.count; 0 also stands for zeroed list heads   *)
  state,        (* buffer[i].state                                          *)
  bytesused,    (* buffer[i].buf.bytesused                                  *)
  mainqueue,    (* indices of the buffers on myuvc_queue.mainqueue          *)
  irqqueue,     (* indices of the buffers on myuvc_queue.irqqueue           *)
  fid,          (* static fid of the completion handler                     *)
  last_fid,     (* FID of the last packet that was accepted, initially -1   *)
  oops,         (* the kernel has followed a zeroed list head               *)
  ip2970,       (* idVendor = 0x1B3B: FID is derived from JPEG headers      *)
  content       (* history: whose data a buffer holds, as a set of Data     *)

queueVars == <<count, state, bytesused, mainqueue, irqqueue, content>>
fidVars == <<fid, last_fid>>
vars == <<queueVars, fidVars, oops, ip2970>>

-----------------------------------------------------------------------------
(* Buffer indices, buffer states and packets. *)

Buffers == 0 .. MaxBufs - 1

(* VIDEOBUF_ERROR is never assigned anywhere in the driver. *)
States == {"IDLE", "QUEUED", "ACTIVE", "DONE"}

(***************************************************************************)
(* A packet as the loop sees it.  kind "ok" is a packet the loop accepts,  *)
(* "bad" one that it skips: iso_frame_desc.status < 0, a header shorter    *)
(* than 2 or longer than the packet, or the error bit set.  soi: bytes 12  *)
(* to 14 are a JPEG start-of-image marker, whatever the length of the      *)
(* header is; only the packets of an ip2970 are looked at for one.  The    *)
(* camera toggles FID with every frame.                                    *)
(***************************************************************************)
Packets == { p \in [kind : {"ok", "bad"}, frame : Frames, fid : {0, 1},
                    eof : BOOLEAN, soi : BOOLEAN, len : PayloadLens] :
               p.fid = p.frame % 2 }

(* What a stored packet leaves behind; fid is the one the driver computed. *)
Data == [frame : Frames, fid : {0, 1}, soi : BOOLEAN]

TypeOK ==
  /\ count \in 0 .. MaxBufs
  /\ state \in [Buffers -> States]
  /\ bytesused \in [Buffers -> 0 .. Length]
  /\ mainqueue \in Seq(Buffers)
  /\ irqqueue \in Seq(Buffers)
  /\ fid \in {0, 1}
  /\ last_fid \in {-1, 0, 1}
  /\ oops \in BOOLEAN
  /\ ip2970 \in BOOLEAN
  /\ content \in [Buffers -> SUBSET Data]

(* The module's statics are zero when the driver is loaded. *)
Init ==
  /\ count = 0
  /\ state = [b \in Buffers |-> "IDLE"]
  /\ bytesused = [b \in Buffers |-> 0]
  /\ mainqueue = <<>>
  /\ irqqueue = <<>>
  /\ fid = 0
  /\ last_fid = -1
  /\ oops = FALSE
  /\ ip2970 \in BOOLEAN
  /\ content = [b \in Buffers |-> {}]

-----------------------------------------------------------------------------
(* VIDIOC_REQBUFS, VIDIOC_QBUF, VIDIOC_DQBUF *)

(***************************************************************************)
(* myuvc_vidioc_reqbufs: the old buffers are freed first, whatever their   *)
(* state.  n is the number the application gets: vmalloc_32 may fail for   *)
(* the number asked for and succeed for any smaller one, or for none       *)
(* (-ENOMEM, which leaves the queue as a request for 0 does).              *)
(***************************************************************************)
Reqbufs(n) ==
  /\ ~oops
  /\ count' = n
  /\ state' = [b \in Buffers |-> "IDLE"]
  /\ bytesused' = [b \in Buffers |-> 0]
  /\ mainqueue' = <<>>
  /\ irqqueue' = <<>>
  /\ content' = [b \in Buffers |-> {}]
  /\ UNCHANGED <<fidVars, oops, ip2970>>

(* One slip away: list_add puts the buffer at the head of the list. *)
list_add(s, b) == <<b>> \o s

list_add_tail(s, b) == Append(s, b)

(* One slip away: only a buffer that is being filled is refused. *)
MayQueueUnlessActive(b) == b < count /\ state[b] # "ACTIVE"

MayQueue(b) == b < count /\ state[b] = "IDLE"

(* myuvc_vidioc_qbuf; every early return leaves the queue as it is. *)
Qbuf(b) ==
  /\ ~oops
  /\ MayQueue(b)
  /\ state' = [state EXCEPT ![b] = "QUEUED"]
  /\ bytesused' = [bytesused EXCEPT ![b] = 0]
  /\ content' = [content EXCEPT ![b] = {}]
  /\ mainqueue' = list_add_tail(mainqueue, b)
  /\ irqqueue' = list_add_tail(irqqueue, b)
  /\ UNCHANGED <<count, fidVars, oops, ip2970>>

(* One slip away: the states fall through to the DONE case. *)
MayDequeueAny(b) == TRUE

MayDequeue(b) == state[b] = "DONE"

(* myuvc_vidioc_dqbuf: only the first buffer of mainqueue, only when DONE. *)
Dqbuf(b) ==
  /\ ~oops
  /\ count > 0
  /\ mainqueue # <<>>
  /\ b = Head(mainqueue)
  /\ MayDequeue(b)
  /\ state' = [state EXCEPT ![b] = "IDLE"]
  /\ mainqueue' = Tail(mainqueue)
  /\ UNCHANGED <<count, bytesused, irqqueue, content, fidVars, oops, ip2970>>

(***************************************************************************)
(* DQBUF, poll and the completion handler take the list heads for          *)
(* initialised.  Before the first REQBUFS, and after one that freed the    *)
(* buffers and allocated none, they are zero: list_empty is false and      *)
(* list_first_entry yields a bad pointer.                                  *)
(***************************************************************************)
FollowZeroedHead ==
  /\ ~oops
  /\ count = 0
  /\ oops' = TRUE
  /\ UNCHANGED <<queueVars, fidVars, ip2970>>

-----------------------------------------------------------------------------
(* myuvc_video_complete, one iteration of the packet loop *)

(* One slip away: the FID bit of an ip2970 packet is believed. *)
NewFidFromBit(p) == p.fid

(***************************************************************************)
(* The FID the driver works with.  For the ip2970 it flips on a packet     *)
(* that starts a JPEG image and otherwise keeps its last value.            *)
(***************************************************************************)
NewFid(p) ==
  IF ~ip2970 THEN p.fid
  ELSE IF ~p.soi THEN fid
  ELSE IF last_fid # 0 THEN 0 ELSE 1

(* One slip away: any packet may start a fresh buffer. *)
InSyncAlways(p, b) == TRUE

(* One slip away: only the first packet of all starts a frame. *)
InSyncOnce(p, b) == state[b] = "ACTIVE" \/ last_fid = -1

(* The buffer is being filled, or this packet is the first of a frame.     *)
InSync(p, b) == state[b] = "ACTIVE" \/ NewFid(p) # last_fid

(* One slip away: only EOF ends a frame. *)
StartsNewFrameNever(p, b) == FALSE

(* The packet is of another frame than the data in the buffer.             *)
StartsNewFrame(p, b) == NewFid(p) # last_fid /\ bytesused[b] # 0

Maxlen(b) == Length - bytesused[b]

(* One slip away: min(len, maxlen) is forgotten. *)
NbytesUnbounded(p, b) == p.len

Nbytes(p, b) == IF p.len <= Maxlen(b) THEN p.len ELSE Maxlen(b)

(* One slip away: EOF in an empty payload completes an empty buffer. *)
CompletesEmpty(p, b) == p.len > Maxlen(b) \/ p.eof

(* The packet completes the buffer: it overflows it, or EOF is set.        *)
Completes(p, b) ==
  \/ p.len > Maxlen(b)
  \/ p.eof /\ bytesused[b] + Nbytes(p, b) # 0

(* An invalid packet is skipped before anything is assigned. *)
PacketSkipped(p) ==
  /\ ~oops
  /\ count > 0
  /\ p.kind = "bad"
  /\ UNCHANGED vars

(***************************************************************************)
(* buf == NULL: only the FID is remembered.  (The first assignment to dest *)
(* in the loop reads through buf before this test; its value is never used *)
(* and the compiler removes the read.)                                     *)
(***************************************************************************)
PacketNoBuffer(p) ==
  /\ ~oops
  /\ count > 0
  /\ p.kind = "ok"
  /\ irqqueue = <<>>
  /\ fid' = NewFid(p)
  /\ last_fid' = NewFid(p)
  /\ UNCHANGED <<queueVars, oops, ip2970>>

(* The buffer is fresh and the packet is from the middle of a frame. *)
PacketOutOfSync(p) ==
  /\ ~oops
  /\ count > 0
  /\ p.kind = "ok"
  /\ irqqueue # <<>>
  /\ ~InSync(p, Head(irqqueue))
  /\ fid' = NewFid(p)
  /\ UNCHANGED <<queueVars, last_fid, oops, ip2970>>

(***************************************************************************)
(* The packet starts a frame while the buffer still holds the one before:  *)
(* the buffer is DONE.  The loop goes on to the next packet without having *)
(* stored this one and without having set last_fid.                        *)
(***************************************************************************)
PacketNewFrame(p) ==
  /\ ~oops
  /\ count > 0
  /\ p.kind = "ok"
  /\ irqqueue # <<>>
  /\ InSync(p, Head(irqqueue))
  /\ StartsNewFrame(p, Head(irqqueue))
  /\ state' = [state EXCEPT ![Head(irqqueue)] = "DONE"]
  /\ irqqueue' = Tail(irqqueue)
  /\ fid' = NewFid(p)
  /\ UNCHANGED <<count, bytesused, mainqueue, content, last_fid, oops, ip2970>>

(* The payload is copied into the buffer, which may complete it. *)
PacketStored(p) ==
  /\ ~oops
  /\ count > 0
  /\ p.kind = "ok"
  /\ irqqueue # <<>>
  /\ LET b    == Head(irqqueue)
         data == [frame |-> p.frame, fid |-> NewFid(p), soi |-> p.soi /\ ip2970]
     IN /\ InSync(p, b)
        /\ ~StartsNewFrame(p, b)
        /\ bytesused' = [bytesused EXCEPT ![b] = @ + Nbytes(p, b)]
        /\ content' = [content EXCEPT ![b] = IF Nbytes(p, b) = 0 THEN @ ELSE @ \cup {data}]
        /\ state' = [state EXCEPT ![b] = IF Completes(p, b) THEN "DONE" ELSE "ACTIVE"]
        /\ irqqueue' = IF Completes(p, b) THEN Tail(irqqueue) ELSE irqqueue
  /\ fid' = NewFid(p)
  /\ last_fid' = NewFid(p)
  /\ UNCHANGED <<count, mainqueue, oops, ip2970>>

VideoComplete(p) ==
  \/ PacketSkipped(p)
  \/ PacketNoBuffer(p)
  \/ PacketOutOfSync(p)
  \/ PacketNewFrame(p)
  \/ PacketStored(p)

Next ==
  \/ \E n \in 0 .. MaxBufs : Reqbufs(n)
  \/ \E b \in Buffers : Qbuf(b)
  \/ \E b \in Buffers : Dqbuf(b)
  \/ FollowZeroedHead
  \/ \E p \in Packets : VideoComplete(p)

Spec == Init /\ [][Next]_vars

-----------------------------------------------------------------------------
(* Properties *)

NoDuplicates(s) == \A i, j \in 1 .. Len(s) : s[i] = s[j] => i = j

(* Number of buffers that are DONE and wait on mainqueue for DQBUF. *)
Ready == Len(mainqueue) - Len(irqqueue)

(***************************************************************************)
(* The two lists agree, although qbuf, dqbuf and the completion handler    *)
(* each change them on their own: mainqueue is the DONE buffers followed   *)
(* by exactly irqqueue.  So the buffer DQBUF and poll look at is never one *)
(* that is still being filled while a later one is ready.                  *)
(***************************************************************************)
ListsAgree ==
  /\ Ready >= 0
  /\ \A i \in 1 .. Len(irqqueue) : mainqueue[Ready + i] = irqqueue[i]
  /\ NoDuplicates(mainqueue)

(***************************************************************************)
(* A buffer's state says where it is: DONE exactly on the ready part of    *)
(* mainqueue, QUEUED or ACTIVE exactly on irqqueue, ACTIVE only at its     *)
(* head, IDLE (the application's) on no list.  A buffer that was           *)
(* dequeued can therefore never be written by the completion handler.      *)
(***************************************************************************)
StateTellsPlace ==
  /\ \A i \in 1 .. Len(mainqueue) :
       /\ mainqueue[i] < count
       /\ (state[mainqueue[i]] = "DONE") <=> (i <= Ready)
       /\ state[mainqueue[i]] = "ACTIVE" => i = Ready + 1
  /\ \A b \in Buffers :
       state[b] = "IDLE" <=> \A i \in 1 .. Len(mainqueue) : mainqueue[i] # b

(***************************************************************************)
(* Which frames of the camera can end up in one buffer, whatever packets   *)
(* are lost, corrupt or short, and however often the queue runs dry.  With *)
(* a camera that toggles FID, two consecutive frames never: only frames an *)
(* even distance apart, all packets of those between them being lost.  The *)
(* ip2970 has no usable FID, and a frame whose header packet is lost is    *)
(* added to the one before it; but two frames of which the driver saw the  *)
(* headers are never joined.                                               *)
(***************************************************************************)
FramesNotJoined ==
  \A b \in Buffers : \A x, y \in content[b] :
    IF ip2970 THEN x.soi /\ y.soi => x = y
              ELSE x.frame % 2 = y.frame % 2

(***************************************************************************)
(* A buffer handed to the application is not empty: an EOF or a change of  *)
(* FID completes a buffer only if bytesused # 0.                           *)
(***************************************************************************)
DoneNotEmpty == \A b \in Buffers : state[b] = "DONE" => bytesused[b] > 0

(***************************************************************************)
(* From the moment a buffer is DONE, its size and data change only when    *)
(* the application, having dequeued it, queues it again, or calls REQBUFS. *)
(***************************************************************************)
DataStable ==
  [][ \A b \in Buffers :
        state[b] \in {"DONE", "IDLE"} /\ bytesused[b] # 0
        => \/ bytesused'[b] = bytesused[b] /\ content'[b] = content[b]
           \/ state[b] = "IDLE" /\ state'[b] = "QUEUED"
           \/ \E n \in 0 .. MaxBufs : Reqbufs(n) ]_vars

(***************************************************************************)
(* ip2970: a JPEG header is only ever stored at the start of a buffer,     *)
(* although the FID bit of the packets is ignored and fid is toggled by    *)
(* the headers themselves.                                                 *)
(***************************************************************************)
HeaderFirst ==
  [][ ip2970 =>
        \A b \in Buffers :
          (\E x \in content'[b] \ content[b] : x.soi) => content[b] = {} ]_vars

(***************************************************************************)
(* Why FramesNotJoined holds: a buffer not yet started is empty, and       *)
(* the data in the buffer being filled carries last_fid, although last_fid *)
(* also changes while there is no buffer and survives REQBUFS.             *)
(***************************************************************************)
FidTracks ==
  \A b \in Buffers :
    /\ bytesused[b] = 0 <=> content[b] = {}
    /\ state[b] = "QUEUED" => bytesused[b] = 0
    /\ state[b] = "ACTIVE" => \A x \in content[b] : x.fid = last_fid

(***************************************************************************)
(* All data in a buffer was stored under one value of fid, which is the    *)
(* camera's own frame ID unless the camera is an ip2970.                   *)
(***************************************************************************)
OneFid ==
  \A b \in Buffers :
    /\ \A x, y \in content[b] : x.fid = y.fid
    /\ ~ip2970 => \A x \in content[b] : x.fid = x.frame % 2

(* The inductive invariant: each part relies on the others. *)
IInv ==
  /\ TypeOK
  /\ ListsAgree
  /\ StateTellsPlace
  /\ OneFid
  /\ FramesNotJoined
  /\ DoneNotEmpty
  /\ FidTracks

FQ == INSTANCE FrameQueue WITH
        Image   <- SUBSET Data,
        None    <- {},
        queue   <- mainqueue,
        ready   <- Ready,
        image   <- content

(***************************************************************************)
(* The two lists, the buffer states and the frame IDs of uvc.c implement   *)
(* the single queue of FrameQueue: buffers are filled, and come back from  *)
(* DQBUF, in the order in which QBUF got them.                             *)
(***************************************************************************)
ImplementsFrameQueue == FQ!Spec
=============================================================================
