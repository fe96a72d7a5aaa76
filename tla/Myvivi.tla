------------------------------- MODULE Myvivi -------------------------------
(***************************************************************************)
(* The virtual camera, myvivi/6_th/vivi.c, with the videobuf code of the   *)
(* kernel that keeps its queue (linux-3.4.2, videobuf-core.c and           *)
(* videobuf-vmalloc.c, an ext_lock of NULL).                               *)
(*                                                                         *)
(* A buffer is on two lists.  The stream list of videobuf decides which    *)
(* buffer VIDIOC_DQBUF and poll wait for; myvivi_vb_local_queue decides    *)
(* which one the timer fills.  The timer fills it only if somebody waits   *)
(* for that very buffer.  It takes no lock; on the one processor of the    *)
(* board it cannot run inside a section that holds irqlock, and it is one  *)
(* step here.                                                              *)
(*                                                                         *)
(* One application makes its calls one after the other; allocations        *)
(* succeed.  A call that is refused changes nothing and is left out.       *)
(***************************************************************************)
EXTENDS Integers, Sequences, SequencesExt, FiniteSets

CONSTANTS
  MaxBufs,   (* VIDEO_MAX_FRAME                                             *)
  Sizes,     (* sizes of an image that VIDIOC_S_FMT accepts, in pages       *)
  MapLens,   (* lengths of a mapping the application asks for, in pages     *)
  MaxStrays, (* how many old mappings of buffers that were mapped again the *)
             (* application keeps                                           *)
  NULL

ASSUME MyviviAssumption ==
  /\ MaxBufs \in Nat \ {0}
  /\ Sizes \subseteq Nat \ {0}
  /\ MapLens \subseteq Nat \ {0}
  /\ MaxStrays \in Nat
  /\ NULL \notin 0 .. MaxBufs - 1

VARIABLES
  timer,      (* myvivi_timer is pending: the device is open                *)
  sizeimage,  (* myvivi_format.fmt.pix.sizeimage, 0 before VIDIOC_S_FMT     *)
  count,      (* q->bufs[0 .. count - 1] are allocated                      *)
  memory,     (* the memory type of these                                   *)
  bsize,      (* vb->bsize of all of them                                   *)
  state,      (* vb->state                                                  *)
  map,        (* length of vb->map, and with it of the memory at mem->vaddr; *)
              (* 0 for NULL                                                 *)
  strays,     (* mappings that are no buffer's vb->map any more             *)
  size,       (* vb->size                                                   *)
  stream,     (* q->stream                                                  *)
  streaming,  (* q->streaming                                               *)
  reading,    (* q->reading                                                 *)
  read_buf,   (* q->read_buf                                                *)
  local,      (* myvivi_vb_local_queue                                      *)
  call,       (* the call in which the application sleeps ...               *)
  on,         (* ... and the vb->done it sleeps on, NULL for q->wait        *)
  broken,     (* the kernel has written where it must not, or a BUG_ON      *)
  misused     (* history: since open the application has left the beaten    *)
              (* path of MMAP buffers (see CarefulIsSafe)                   *)

bufVars == <<count, memory, bsize>>
queueVars == <<stream, streaming, reading, read_buf, local>>
vars == <<timer, sizeimage, bufVars, state, map, strays, size, queueVars, call, on, broken, misused>>

Buffers == 0 .. MaxBufs - 1
Allocated == 0 .. count - 1

TypeOK ==
  /\ timer \in BOOLEAN /\ streaming \in BOOLEAN /\ reading \in BOOLEAN
  /\ broken \in BOOLEAN /\ misused \in BOOLEAN
  /\ sizeimage \in Sizes \cup {0} /\ bsize \in Sizes \cup {0}
  /\ count \in 0 .. MaxBufs
  /\ memory \in {"MMAP", "USERPTR"}
  /\ state \in [Buffers -> {"NEEDS_INIT", "PREPARED", "QUEUED", "DONE", "IDLE"}]
  /\ map \in [Buffers -> MapLens \cup {0}]
  /\ strays \in 0 .. MaxStrays
  /\ size \in [Buffers -> Sizes \cup {0}]
  /\ stream \in Seq(Buffers) /\ local \in Seq(Buffers)
  /\ read_buf \in Buffers \cup {NULL}
  /\ call \in {"none", "dqbuf", "poll"}
  /\ on \in Buffers \cup {NULL}

Init ==
  /\ timer = FALSE
  /\ sizeimage = 0
  /\ count = 0 /\ memory = "MMAP" /\ bsize = 0
  /\ state = [b \in Buffers |-> "NEEDS_INIT"]
  /\ map = [b \in Buffers |-> 0]
  /\ strays = 0
  /\ size = [b \in Buffers |-> 0]
  /\ stream = <<>> /\ streaming = FALSE /\ reading = FALSE /\ read_buf = NULL
  /\ local = <<>>
  /\ call = "none" /\ on = NULL
  /\ broken = FALSE /\ misused = FALSE

(* The application has the device open and is not inside a call. *)
Calls == timer /\ call = "none" /\ ~broken

(***************************************************************************)
(* What is left of a list when the entries that are not in S are removed:  *)
(* SelectSeq, by the places of what stays.                                 *)
(***************************************************************************)
Sublist(s, S) ==
  LET Places == {i \in 1 .. Len(s) : s[i] \in S}
  IN  [k \in 1 .. Cardinality(Places) |->
         s[CHOOSE i \in Places : Cardinality({j \in Places : j <= i}) = k]]

InState(st) == {b \in Buffers : state[b] = st}

-----------------------------------------------------------------------------
(* The callbacks of the driver and what videobuf does with them *)

(* myvivi_buffer_prepare: vb->size is the size of the format of now. *)
Prepare(bs) ==
  size' = [b \in Buffers |-> IF b \in bs THEN sizeimage ELSE size[b]]

(* One slip away: list_add, so the newest buffer comes first. *)
BufferQueueFront(bs) == local' = Reverse(bs) \o local

(* myvivi_buffer_queue for the buffers bs, in this order. *)
BufferQueue(bs) == local' = local \o bs

(***************************************************************************)
(* videobuf_queue_cancel: every QUEUED buffer leaves the list of the       *)
(* driver, and myvivi_buffer_release makes all of them NEEDS_INIT.         *)
(***************************************************************************)
Cancel ==
  /\ local' = Sublist(local, Buffers \ (Allocated \cap InState("QUEUED")))
  /\ state' = [b \in Buffers |-> "NEEDS_INIT"]
  /\ stream' = <<>> /\ streaming' = FALSE /\ reading' = FALSE

(* __videobuf_free lets the buffers go. *)
CanFree == ~streaming /\ ~reading /\ \A b \in Allocated : map[b] = 0

(* One slip away: the loop over the new buffers runs once too often. *)
MmapSetupOneMore(n, mem, len) ==
  /\ CanFree
  /\ count' = n + 1 /\ memory' = mem /\ bsize' = len
  /\ map' = [b \in Buffers |-> 0]

(* __videobuf_mmap_setup, after __videobuf_free: n new buffers *)
MmapSetup(n, mem, len) ==
  /\ CanFree
  /\ count' = n /\ memory' = mem /\ bsize' = len
  /\ map' = [b \in Buffers |-> 0]

(* buffers first .. n - 1, in this order *)
Ascending(first, n) == [i \in 1 .. n - first |-> first + i - 1]

-----------------------------------------------------------------------------
(* open and close *)

Open ==
  /\ ~timer /\ ~broken
  /\ timer' = TRUE
  /\ count' = 0 /\ UNCHANGED <<memory, bsize>>
  /\ stream' = <<>> /\ streaming' = FALSE /\ reading' = FALSE /\ read_buf' = NULL
  /\ misused' = FALSE
  /\ UNCHANGED <<sizeimage, state, map, strays, size, local, call, on, broken>>

(***************************************************************************)
(* A second open: the queue is initialised under the feet of the first,    *)
(* and add_timer stops the kernel, for the timer is pending.               *)
(***************************************************************************)
OpenAgain ==
  /\ timer /\ ~broken
  /\ broken' = TRUE /\ misused' = TRUE
  /\ UNCHANGED <<timer, sizeimage, bufVars, state, map, strays, size, queueVars, call, on>>

(* One slip away: only the timer and the buffers go. *)
CloseForgetsStop ==
  /\ Calls
  /\ strays = 0 /\ \A b \in Allocated : map[b] = 0
  /\ timer' = FALSE
  /\ count' = 0 /\ UNCHANGED <<memory, bsize>>
  /\ state' = [b \in Buffers |-> "NEEDS_INIT"]
  /\ UNCHANGED <<sizeimage, map, strays, size, queueVars, call, on, broken, misused>>

(***************************************************************************)
(* myvivi_close, when the last mapping of the file is gone: videobuf_stop  *)
(* cancels what runs, and videobuf_mmap_free then frees the buffers.       *)
(***************************************************************************)
Close ==
  /\ Calls
  /\ strays = 0 /\ \A b \in Allocated : map[b] = 0
  /\ timer' = FALSE
  /\ IF streaming \/ reading
     THEN Cancel
     ELSE state' = [b \in Buffers |-> "NEEDS_INIT"] /\ UNCHANGED <<stream, streaming, reading, local>>
  /\ read_buf' = IF reading THEN NULL ELSE read_buf
  /\ count' = 0 /\ UNCHANGED <<memory, bsize>>
  /\ UNCHANGED <<sizeimage, map, strays, size, call, on, broken, misused>>

-----------------------------------------------------------------------------
(* ioctl and mmap *)

(* VIDIOC_S_FMT is never refused because buffers exist. *)
SFmt(s) ==
  /\ Calls
  /\ sizeimage' = s
  /\ misused' = (misused \/ (count > 0 /\ s > bsize))
  /\ UNCHANGED <<timer, bufVars, state, map, strays, size, queueVars, call, on, broken>>

(* VIDIOC_REQBUFS *)
Reqbufs(n, mem) ==
  /\ Calls
  /\ ~streaming /\ stream = <<>>
  /\ MmapSetup(n, mem, sizeimage)
  /\ state' = [b \in Buffers |-> "NEEDS_INIT"]
  /\ size' = [b \in Buffers |-> 0]
  /\ UNCHANGED <<timer, sizeimage, strays, queueVars, call, on, broken, misused>>

(***************************************************************************)
(* The buffer an offset leads to is the first that has it: all buffers     *)
(* have offset 0 when they were requested before VIDIOC_S_FMT.             *)
(***************************************************************************)
Addressed(b) == b \in Allocated /\ memory = "MMAP" /\ (bsize = 0 => b = 0)

(***************************************************************************)
(* mmap: memory for the buffer is allocated here, as long as the mapping   *)
(* and not as long as the buffer.  The memory and the mapping the buffer   *)
(* had before are forgotten.                                               *)
(***************************************************************************)
Mmap(b, len) ==
  /\ Calls
  /\ Addressed(b)
  /\ strays' = IF map[b] = 0 THEN strays ELSE strays + 1
  /\ strays' <= MaxStrays
  /\ map' = [map EXCEPT ![b] = len]
  /\ misused' = (misused \/ len < bsize)
  /\ UNCHANGED <<timer, sizeimage, bufVars, state, size, queueVars, call, on, broken>>

(* One slip away: the stream is not cancelled first. *)
MunmapGoesOn(b) ==
  /\ Calls
  /\ b \in Allocated /\ map[b] > 0
  /\ map' = [map EXCEPT ![b] = 0]
  /\ misused' = (misused \/ (~streaming /\ stream # <<>>))
  /\ UNCHANGED <<timer, sizeimage, bufVars, state, strays, size, queueVars, call, on, broken>>

(* videobuf_vm_close: a running stream is cancelled, the memory is freed. *)
Munmap(b) ==
  /\ Calls
  /\ b \in Allocated /\ map[b] > 0
  /\ IF streaming THEN Cancel ELSE UNCHANGED <<stream, streaming, reading, local, state>>
  /\ map' = [map EXCEPT ![b] = 0]
  /\ misused' = (misused \/ (~streaming /\ stream # <<>>))
  /\ UNCHANGED <<timer, sizeimage, bufVars, strays, size, read_buf, call, on, broken>>

(* videobuf_vm_close for a mapping that is no buffer's any more: its memory is lost. *)
MunmapStray ==
  /\ Calls
  /\ strays > 0
  /\ IF streaming THEN Cancel ELSE UNCHANGED <<stream, streaming, reading, local, state>>
  /\ strays' = strays - 1
  /\ UNCHANGED <<timer, sizeimage, bufVars, map, size, read_buf, call, on, broken, misused>>

(* VIDIOC_QBUF *)
Qbuf(b) ==
  /\ Calls
  /\ ~reading
  /\ b \in Allocated /\ state[b] \in {"NEEDS_INIT", "IDLE"}
  /\ memory = "MMAP" => map[b] > 0
  /\ Prepare({b})
  /\ stream' = Append(stream, b)
  /\ IF streaming
     THEN BufferQueue(<<b>>) /\ state' = [state EXCEPT ![b] = "QUEUED"]
     ELSE UNCHANGED local /\ state' = [state EXCEPT ![b] = "PREPARED"]
  /\ misused' = (misused \/ memory = "USERPTR")
  /\ UNCHANGED <<timer, sizeimage, bufVars, map, strays, streaming, reading, read_buf, call, on, broken>>

(* VIDIOC_STREAMON *)
Streamon ==
  /\ Calls
  /\ ~reading /\ ~streaming
  /\ streaming' = TRUE
  /\ BufferQueue(Sublist(stream, InState("PREPARED")))
  /\ state' = [b \in Buffers |-> IF b \in InState("PREPARED") THEN "QUEUED" ELSE state[b]]
  /\ UNCHANGED <<timer, sizeimage, bufVars, map, strays, size, stream, reading, read_buf, call, on,
                 broken, misused>>

(* VIDIOC_STREAMOFF *)
Streamoff ==
  /\ Calls
  /\ streaming
  /\ Cancel
  /\ UNCHANGED <<timer, sizeimage, bufVars, map, strays, size, read_buf, call, on, broken, misused>>

-----------------------------------------------------------------------------
(* VIDIOC_DQBUF and poll *)

(* The end of videobuf_dqbuf *)
Take(b) ==
  /\ state[b] = "DONE"
  /\ state' = [state EXCEPT ![b] = "IDLE"]
  /\ stream' = Sublist(stream, Buffers \ {b})

(* VIDIOC_DQBUF of a buffer that is ready *)
Dqbuf ==
  /\ Calls
  /\ streaming /\ stream # <<>>
  /\ Take(Head(stream))
  /\ UNCHANGED <<timer, sizeimage, bufVars, map, strays, size, streaming, reading, read_buf, local,
                 call, on, broken, misused>>

(* VIDIOC_DQBUF that sleeps: on the first buffer of the stream, if there is one. *)
DqbufSleeps ==
  /\ Calls
  /\ streaming
  /\ stream # <<>> => state[Head(stream)] = "QUEUED"
  /\ call' = "dqbuf"
  /\ on' = IF stream = <<>> THEN NULL ELSE Head(stream)
  /\ UNCHANGED <<timer, sizeimage, bufVars, state, map, strays, size, queueVars, broken, misused>>

DqbufWakes ==
  /\ call = "dqbuf" /\ on # NULL /\ ~broken
  /\ Take(on)
  /\ call' = "none" /\ on' = NULL
  /\ UNCHANGED <<timer, sizeimage, bufVars, map, strays, size, streaming, reading, read_buf, local,
                 broken, misused>>

(* poll of a stream *)
PollSleeps ==
  /\ Calls
  /\ streaming /\ stream # <<>>
  /\ state[Head(stream)] # "DONE"
  /\ call' = "poll" /\ on' = Head(stream)
  /\ UNCHANGED <<timer, sizeimage, bufVars, state, map, strays, size, queueVars, broken, misused>>

(***************************************************************************)
(* poll when nothing streams: __videobuf_read_start allocates buffers for  *)
(* read(), to which myvivi_buffer_prepare gives no memory, and queues them *)
(* all.  Prepared buffers that were on q->stream are freed and stay on it. *)
(***************************************************************************)
PollStartsReading ==
  /\ Calls
  /\ ~streaming /\ ~reading
  /\ MmapSetup(MaxBufs, "USERPTR", sizeimage)
  /\ Prepare(Buffers)
  /\ state' = [b \in Buffers |-> "QUEUED"]
  /\ reading' = TRUE
  /\ BufferQueue(Ascending(0, MaxBufs))
  /\ read_buf' = 0
  /\ stream' = Ascending(1, MaxBufs)
  /\ call' = "poll" /\ on' = 0
  /\ broken' = (stream # <<>>) /\ misused' = TRUE
  /\ UNCHANGED <<timer, sizeimage, strays, streaming>>

(* poll again, while the first buffer of read() is not filled *)
PollReading ==
  /\ Calls
  /\ reading
  /\ state[read_buf] # "DONE"
  /\ call' = "poll" /\ on' = read_buf
  /\ UNCHANGED <<timer, sizeimage, bufVars, state, map, strays, size, queueVars, broken, misused>>

PollWakes ==
  /\ call = "poll" /\ ~broken
  /\ state[on] = "DONE"
  /\ call' = "none" /\ on' = NULL
  /\ UNCHANGED <<timer, sizeimage, bufVars, state, map, strays, size, queueVars, broken, misused>>

(* A signal, or the timeout of select(). *)
GivesUp ==
  /\ call # "none" /\ ~broken
  /\ call' = "none" /\ on' = NULL
  /\ UNCHANGED <<timer, sizeimage, bufVars, state, map, strays, size, queueVars, broken, misused>>

-----------------------------------------------------------------------------
(* The timer *)

(* memset(vbuf, 0xff, vb->size) writes into the memory of the buffer. *)
FillFits(b) == size[b] > 0 => memory = "MMAP" /\ size[b] <= map[b]

(* One slip away: the newest buffer of the list is filled. *)
TimerFunctionLast ==
  /\ timer /\ ~broken
  /\ local # <<>> /\ call # "none" /\ on = Head(local)
  /\ broken' = ~FillFits(Last(local))
  /\ state' = [state EXCEPT ![Last(local)] = "DONE"]
  /\ local' = Front(local)
  /\ UNCHANGED <<timer, sizeimage, bufVars, map, strays, size, stream, streaming, reading, read_buf,
                 call, on, misused>>

(***************************************************************************)
(* myvivi_timer_function, when the first buffer of the local queue is      *)
(* waited for.  Otherwise it only starts the timer again.                  *)
(***************************************************************************)
TimerFunction ==
  /\ timer /\ ~broken
  /\ local # <<>> /\ call # "none" /\ on = Head(local)
  /\ broken' = ~FillFits(Head(local))
  /\ state' = [state EXCEPT ![Head(local)] = "DONE"]
  /\ local' = Tail(local)
  /\ UNCHANGED <<timer, sizeimage, bufVars, map, strays, size, stream, streaming, reading, read_buf,
                 call, on, misused>>

Next ==
  \/ Open \/ OpenAgain \/ Close
  \/ \E s \in Sizes : SFmt(s)
  \/ \E n \in 1 .. MaxBufs, mem \in {"MMAP", "USERPTR"} : Reqbufs(n, mem)
  \/ \E b \in Buffers, len \in MapLens : Mmap(b, len)
  \/ \E b \in Buffers : Munmap(b) \/ Qbuf(b)
  \/ MunmapStray
  \/ Streamon \/ Streamoff
  \/ Dqbuf \/ DqbufSleeps \/ DqbufWakes
  \/ PollSleeps \/ PollStartsReading \/ PollReading \/ PollWakes
  \/ GivesUp
  \/ TimerFunction

Spec == Init /\ [][Next]_vars

(***************************************************************************)
(* The timer starts itself again after every tick, and a process that has  *)
(* been woken up is scheduled.  Nothing makes a signal or a timeout come.  *)
(***************************************************************************)
FairSpec == Spec /\ WF_vars(TimerFunction) /\ WF_vars(DqbufWakes) /\ WF_vars(PollWakes)

-----------------------------------------------------------------------------
(* Properties *)

(* What videobuf holds for the driver, in the order it was queued. *)
Pipeline == (IF read_buf = NULL THEN <<>> ELSE <<read_buf>>) \o stream

(***************************************************************************)
(* The list of the timer is always the QUEUED part of the list of          *)
(* videobuf, in the same order: two lists that are changed by different    *)
(* code agree on which buffer is next, through STREAMON after QBUF,        *)
(* STREAMOFF, munmap in the middle of a stream, and the read() mode that   *)
(* poll starts.  myvivi_vb_local_queue itself is never cleared.            *)
(***************************************************************************)
ListsAgree == ~broken => local = Sublist(Pipeline, InState("QUEUED"))

(***************************************************************************)
(* After STREAMOFF, munmap or close the timer holds no buffer, so that     *)
(* del_timer and kfree leave nothing behind which the next open would find *)
(* in the static list.                                                     *)
(***************************************************************************)
QuietWhenStopped == local # <<>> => timer /\ (streaming \/ reading)

(***************************************************************************)
(* The timer writes only into the memory of a buffer if, since it opened   *)
(* the device alone, the application has used MMAP buffers, mapped them in *)
(* full, polled only while streaming, unmapped nothing between QBUF and    *)
(* STREAMON and set no larger format while it had buffers: the conditions  *)
(* neither vivi.c nor videobuf enforces.                                   *)
(***************************************************************************)
CarefulIsSafe == broken => misused

(***************************************************************************)
(* An application that waits for a buffer, in VIDIOC_DQBUF or in poll,     *)
(* gets it, although the timer fills a buffer only while somebody waits on *)
(* that buffer and VIDIOC_DQBUF and poll choose theirs from the other      *)
(* list.                                                                   *)
(***************************************************************************)
WaiterServed == (call # "none" /\ on # NULL) ~> (call = "none" \/ broken)

(***************************************************************************)
(* The virtual camera keeps the promise of a capture driver that FrameQueue *)
(* states, as the USB camera does: buffers are filled in the order in      *)
(* which they were queued, come back in that order, and are not changed    *)
(* after that.  Poll's read() mode is, to that contract, an empty queue.   *)
(***************************************************************************)
Contract == INSTANCE FrameQueue WITH
  Image <- {"none", "white"},
  None <- "none",
  queue <- IF reading THEN <<>> ELSE stream,
  ready <- IF reading THEN 0 ELSE Cardinality({i \in 1 .. Len(stream) : state[stream[i]] = "DONE"}),
  image <- [b \in Buffers |-> IF ~reading /\ state[b] \in {"DONE", "IDLE"} THEN "white" ELSE "none"]

KeepsContract == Contract!Spec

-----------------------------------------------------------------------------
(* Why they hold *)

(***************************************************************************)
(* A buffer is filled only while the application waits for it, and it      *)
(* waits for the oldest.  So at most that one is filled, and the list of   *)
(* the timer is all of the list of videobuf or all but its first entry.    *)
(***************************************************************************)
OneAhead ==
  /\ \A i \in 1 .. Len(local) : state[local[i]] = "QUEUED"
  /\ \/ local = Pipeline
     \/ Pipeline # <<>> /\ local = Tail(Pipeline) /\ state[Head(Pipeline)] = "DONE"

(* No buffer is on the list of videobuf twice, and all are allocated. *)
EachOnce ==
  /\ \A i, j \in 1 .. Len(Pipeline) : Pipeline[i] = Pipeline[j] => i = j
  /\ timer => \A i \in 1 .. Len(Pipeline) : Pipeline[i] \in Allocated

(***************************************************************************)
(* A stream and read() exclude each other; while there is neither, what    *)
(* was queued is prepared and no more, and nothing has been filled.        *)
(***************************************************************************)
ModesExclude ==
  /\ reading <=> read_buf # NULL
  /\ ~(streaming /\ reading)
  /\ streaming \/ reading => timer /\ OneAhead
  /\ ~streaming /\ ~reading =>
       /\ local = <<>>
       /\ \A b \in Buffers : state[b] \in {"NEEDS_INIT", "PREPARED"}
       /\ timer => \A i \in 1 .. Len(stream) : state[stream[i]] = "PREPARED"
       /\ ~timer => \A b \in Buffers : state[b] = "NEEDS_INIT"

(* Who waits for a buffer waits for the oldest. *)
WaitsForOldest ==
  /\ call # "none" => timer
  /\ call = "dqbuf" => streaming
  /\ call = "poll" => on # NULL
  /\ call # "none" /\ on # NULL => Pipeline # <<>> /\ on = Head(Pipeline)

(* What an application that is careful has mapped or queued has room for an image. *)
RoomForImage ==
  timer /\ ~misused =>
    /\ ~reading
    /\ count > 0 => sizeimage <= bsize
    /\ \A b \in Allocated : map[b] = 0 \/ bsize <= map[b]
    /\ \A i \in 1 .. Len(stream) :
         memory = "MMAP" /\ map[stream[i]] > 0 /\ size[stream[i]] <= bsize

(* The inductive invariant: nothing happens once broken is set. *)
VInv ==
  /\ TypeOK /\ QuietWhenStopped /\ CarefulIsSafe
  /\ ~broken => EachOnce /\ ModesExclude /\ WaitsForOldest /\ RoomForImage
=============================================================================
