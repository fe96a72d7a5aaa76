----------------------------- MODULE FrameQueue -----------------------------
(***************************************************************************)
(* What a capture driver promises about its buffers (the streaming I/O     *)
(* contract behind VIDIOC_QBUF and VIDIOC_DQBUF), with one queue and no    *)
(* list, state or frame ID.                                                *)
(*                                                                         *)
(* Buffers are filled in the order they were queued and come back in that  *)
(* order.  Only the oldest unfilled one is ever written, and what it holds *)
(* is fixed when it becomes ready, and not empty.                          *)
(***************************************************************************)
EXTENDS Integers, Sequences

CONSTANTS Buffers, Image, None

VARIABLES
  queue,   (* buffers the driver holds, oldest first                       *)
  ready,   (* how many at the front are filled                             *)
  image    (* what a buffer holds                                          *)

vars == <<queue, ready, image>>

Init ==
  /\ queue = <<>>
  /\ ready = 0
  /\ image = [b \in Buffers |-> None]

(* All buffers are given back at once and lose their contents. *)
Reset ==
  /\ queue' = <<>>
  /\ ready' = 0
  /\ image' = [b \in Buffers |-> None]

Enqueue(b) ==
  /\ \A i \in 1 .. Len(queue) : queue[i] # b
  /\ queue' = Append(queue, b)
  /\ image' = [image EXCEPT ![b] = None]
  /\ UNCHANGED ready

(* Data arrives for the oldest unfilled buffer, and for no other. *)
DataArrives ==
  /\ ready < Len(queue)
  /\ image' \in [Buffers -> Image]
  /\ \A b \in Buffers : b # queue[ready + 1] => image'[b] = image[b]

Write ==
  /\ DataArrives
  /\ UNCHANGED <<queue, ready>>

(* The data completes the buffer, which is not empty then. *)
Fill ==
  /\ DataArrives
  /\ image'[queue[ready + 1]] # None
  /\ ready' = ready + 1
  /\ UNCHANGED queue

Dequeue ==
  /\ ready > 0
  /\ queue' = Tail(queue)
  /\ ready' = ready - 1
  /\ UNCHANGED image

Next ==
  \/ Reset
  \/ \E b \in Buffers : Enqueue(b)
  \/ Write
  \/ Fill
  \/ Dequeue

Spec == Init /\ [][Next]_vars
=============================================================================
