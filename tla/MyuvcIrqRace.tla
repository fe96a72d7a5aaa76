---------------------------- MODULE MyuvcIrqRace ----------------------------
(***************************************************************************)
(* irqqueue of myuvc/10_th/uvc.c pointer by pointer.  VIDIOC_QBUF appends  *)
(* to it with list_add_tail, the completion handler removes from it with   *)
(* list_del, and no lock is taken on either side.                          *)
(*                                                                         *)
(* MyuvcQueue takes the list for a sequence and QBUF for one step.  Here   *)
(* the completion interrupt may arrive between any two pointer writes of   *)
(* QBUF; the handler then runs to its end before QBUF goes on.  (This is   *)
(* the one processor of the S3C2440.  On two processors the handler and    *)
(* the ioctls also run side by side, which is not modelled.)               *)
(*                                                                         *)
(* mainqueue is only used by the ioctls and stays a sequence.  What is in  *)
(* the packets is left out: each one may store data or complete a frame.   *)
(***************************************************************************)
EXTENDS Integers, Sequences, FiniteSets, SequencesExt

CONSTANTS
  Buffers,   (* the buffers VIDIOC_REQBUFS allocated                        *)
  HEAD,      (* &myuvc_queue.irqqueue                                       *)
  POISON     (* LIST_POISON1, LIST_POISON2, and NULL in a fresh buffer      *)

ASSUME RaceAssumption ==
  /\ IsFiniteSet(Buffers)
  /\ HEAD \notin Buffers
  /\ POISON \notin Buffers \cup {HEAD}

VARIABLES
  next, prev,  (* the list_head in each buffer, and the one of the queue    *)
  state,       (* buffer[i].state                                           *)
  mainqueue,
  qpc,         (* where QBUF is in list_add_tail: "user" when not in it     *)
  new, last,   (* its arguments new and prev                                *)
  hpc,         (* where the handler is: "out" when it does not run          *)
  buf,         (* its variable buf; HEAD stands for NULL                    *)
  torn         (* history: the entry QBUF was linking to has been removed   *)

queueVars == <<state, mainqueue>>
qbufVars == <<qpc, new, last>>
handlerVars == <<hpc, buf, torn>>
vars == <<next, prev, queueVars, qbufVars, handlerVars>>

Nodes == Buffers \cup {HEAD}

TypeOK ==
  /\ next \in [Nodes -> Nodes \cup {POISON}] /\ next[HEAD] \in Nodes
  /\ prev \in [Nodes -> Nodes \cup {POISON}] /\ prev[HEAD] \in Nodes
  /\ state \in [Buffers -> {"IDLE", "QUEUED", "ACTIVE", "DONE"}]
  /\ mainqueue \in Seq(Buffers)
  /\ qpc \in {"user", "add1", "add2", "add3"}
  /\ new \in Nodes
  /\ last \in Nodes \cup {POISON}
  /\ hpc \in {"out", "loop", "unlink"}
  /\ buf \in Nodes
  /\ torn \in BOOLEAN

(* The queue after REQBUFS; INIT_LIST_HEAD has run. *)
Init ==
  /\ next = [x \in Nodes |-> IF x = HEAD THEN HEAD ELSE POISON]
  /\ prev = next
  /\ state = [b \in Buffers |-> "IDLE"]
  /\ mainqueue = <<>>
  /\ qpc = "user" /\ new = HEAD /\ last = HEAD
  /\ hpc = "out" /\ buf = HEAD /\ torn = FALSE

(* An ioctl does not run while the handler does. *)
ProcessRuns == hpc = "out"

-----------------------------------------------------------------------------
(* VIDIOC_QBUF and VIDIOC_DQBUF *)

(* One slip away: list_add_tail with the arguments of list_add. *)
QbufAtHead(b) ==
  /\ ProcessRuns
  /\ qpc = "user"
  /\ state[b] = "IDLE"
  /\ state' = [state EXCEPT ![b] = "QUEUED"]
  /\ mainqueue' = Append(mainqueue, b)
  /\ new' = b
  /\ last' = HEAD
  /\ qpc' = "add1"
  /\ UNCHANGED <<next, prev, handlerVars>>

(* Up to the second list_add_tail, which has read head->prev. *)
Qbuf(b) ==
  /\ ProcessRuns
  /\ qpc = "user"
  /\ state[b] = "IDLE"
  /\ state' = [state EXCEPT ![b] = "QUEUED"]
  /\ mainqueue' = Append(mainqueue, b)
  /\ new' = b
  /\ last' = prev[HEAD]
  /\ qpc' = "add1"
  /\ UNCHANGED <<next, prev, handlerVars>>

(* next->prev = new *)
ListAdd1 ==
  /\ ProcessRuns
  /\ qpc = "add1"
  /\ prev' = [prev EXCEPT ![HEAD] = new]
  /\ qpc' = "add2"
  /\ UNCHANGED <<next, queueVars, new, last, handlerVars>>

(* new->next = next; new->prev = prev *)
ListAdd2 ==
  /\ ProcessRuns
  /\ qpc = "add2"
  /\ next' = [next EXCEPT ![new] = HEAD]
  /\ prev' = [prev EXCEPT ![new] = last]
  /\ qpc' = "add3"
  /\ UNCHANGED <<queueVars, new, last, handlerVars>>

(* prev->next = new, and QBUF returns *)
ListAdd3 ==
  /\ ProcessRuns
  /\ qpc = "add3"
  /\ last \in Nodes
  /\ next' = [next EXCEPT ![last] = new]
  /\ qpc' = "user"
  /\ new' = HEAD
  /\ last' = HEAD
  /\ UNCHANGED <<prev, queueVars, handlerVars>>

Dqbuf ==
  /\ ProcessRuns
  /\ qpc = "user"
  /\ mainqueue # <<>>
  /\ state[Head(mainqueue)] = "DONE"
  /\ state' = [state EXCEPT ![Head(mainqueue)] = "IDLE"]
  /\ mainqueue' = Tail(mainqueue)
  /\ UNCHANGED <<next, prev, qbufVars, handlerVars>>

-----------------------------------------------------------------------------
(* myuvc_video_complete *)

(* A URB completes: the handler takes the first buffer of irqqueue. *)
Interrupt ==
  /\ hpc = "out"
  /\ hpc' = "loop"
  /\ buf' = next[HEAD]
  /\ UNCHANGED <<next, prev, queueVars, qbufVars, torn>>

(* A packet is stored in buf, which is not completed by it. *)
Store ==
  /\ hpc = "loop"
  /\ buf \in Buffers
  /\ state' = [state EXCEPT ![buf] = "ACTIVE"]
  /\ UNCHANGED <<next, prev, mainqueue, qbufVars, handlerVars>>

(* One slip away: the buffer is not taken off the list. *)
FinishKeepsOnList ==
  /\ hpc = "loop"
  /\ buf \in Buffers
  /\ state' = [state EXCEPT ![buf] = "DONE"]
  /\ UNCHANGED <<next, prev, mainqueue, qbufVars, handlerVars>>

(* A packet completes buf. *)
Finish ==
  /\ hpc = "loop"
  /\ buf \in Buffers
  /\ state' = [state EXCEPT ![buf] = "DONE"]
  /\ hpc' = "unlink"
  /\ UNCHANGED <<next, prev, mainqueue, qbufVars, buf, torn>>

(* One slip away: buf is not advanced to the next buffer. *)
ListDelSameBuf ==
  /\ hpc = "unlink"
  /\ {next[buf], prev[buf]} \subseteq Nodes
  /\ prev' = [prev EXCEPT ![next[buf]] = prev[buf], ![buf] = POISON]
  /\ next' = [next EXCEPT ![prev[buf]] = next[buf], ![buf] = POISON]
  /\ hpc' = "loop"
  /\ UNCHANGED <<queueVars, qbufVars, buf, torn>>

(* list_del(&buf->irq), then the next buffer of irqqueue. *)
ListDel ==
  /\ hpc = "unlink"
  /\ {next[buf], prev[buf]} \subseteq Nodes
  /\ prev' = [prev EXCEPT ![next[buf]] = prev[buf], ![buf] = POISON]
  /\ next' = [next EXCEPT ![prev[buf]] = next[buf], ![buf] = POISON]
  /\ buf' = next'[HEAD]
  /\ hpc' = "loop"
  /\ torn' = (torn \/ (qpc # "user" /\ buf = last))
  /\ UNCHANGED <<queueVars, qbufVars>>

(* The last packet; the URB is submitted again. *)
Return ==
  /\ hpc = "loop"
  /\ hpc' = "out"
  /\ buf' = HEAD
  /\ UNCHANGED <<next, prev, queueVars, qbufVars, torn>>

Next ==
  \/ \E b \in Buffers : Qbuf(b)
  \/ ListAdd1 \/ ListAdd2 \/ ListAdd3
  \/ Dqbuf
  \/ Interrupt \/ Store \/ Finish \/ ListDel \/ Return

Spec == Init /\ [][Next]_vars

-----------------------------------------------------------------------------
(* Properties *)

N == Cardinality(Nodes)

(* The node that is k hops from HEAD along the pointers ptr. *)
Hop(ptr, k) ==
  LET h[i \in 0 .. k] == IF i = 0 THEN HEAD
                         ELSE IF h[i - 1] \in Nodes THEN ptr[h[i - 1]] ELSE POISON
  IN h[k]

(* The buffers list_for_each would visit; they end where the list closes. *)
Chain(ptr) ==
  LET len == CHOOSE n \in 0 .. N :
               /\ \A k \in 1 .. n : Hop(ptr, k) # HEAD
               /\ n = N \/ Hop(ptr, n + 1) = HEAD
  IN [ k \in 1 .. len |-> Hop(ptr, k) ]

(* Number of buffers of mainqueue that are not among those on irqqueue. *)
Ready == Len(mainqueue) - Len(Chain(next))

(***************************************************************************)
(* Between ioctls, and with the handler not running, irqqueue is the       *)
(* sequence MyuvcQueue takes it for: mainqueue is the DONE buffers and     *)
(* then irqqueue, in the same order forwards and backwards.  So a buffer   *)
(* whose state is QUEUED is on the incoming queue and will be filled.      *)
(***************************************************************************)
ListIsQueue ==
  qpc = "user" /\ hpc = "out" =>
    /\ Ready >= 0
    /\ \A i \in 1 .. Len(mainqueue) : state[mainqueue[i]] = "DONE" <=> i <= Ready
    /\ \A i \in 1 .. Len(Chain(next)) : mainqueue[Ready + i] = Chain(next)[i]
    /\ Chain(prev) = Reverse(Chain(next))

(***************************************************************************)
(* The one thing that breaks it: a completion inside QBUF that removes the *)
(* very entry list_add_tail has read as the last one.  Any other           *)
(* completion in the middle of QBUF, between whichever two pointer writes  *)
(* it falls, leaves the list as MyuvcQueue takes it.                       *)
(***************************************************************************)
OnlyTornListsBreak == ~torn => ListIsQueue

(***************************************************************************)
(* Neither list_del in the handler nor list_add_tail in QBUF ever writes   *)
(* through the poisoned pointers of a buffer that is on no list.           *)
(***************************************************************************)
NeverFollowsPoison ==
  /\ hpc = "unlink" => {next[buf], prev[buf]} \subseteq Nodes
  /\ qpc # "user" => last \in Nodes

(***************************************************************************)
(* A buffer that is DONE or that the application has dequeued is not found *)
(* on irqqueue by the next completion, so it is never filled a second time *)
(* under the application's eyes, even if QBUF was interrupted.             *)
(***************************************************************************)
FinishedIsOffList ==
  hpc = "out" => \A i \in 1 .. Len(Chain(next)) :
                   Chain(next)[i] \in Buffers /\ state[Chain(next)[i]] \in {"QUEUED", "ACTIVE"}

-----------------------------------------------------------------------------
(* Why they hold *)

(* The i-th buffer of s; the head of the list is before the first and after the last. *)
At(s, i) == IF i \in 1 .. Len(s) THEN s[i] ELSE HEAD

(***************************************************************************)
(* Forwards from HEAD there is always a good list of distinct buffers,     *)
(* linked in both directions, that wait to be filled; the handler works on *)
(* its first one.                                                          *)
(***************************************************************************)
Linked(s) ==
  /\ \A i, j \in 1 .. Len(s) : s[i] = s[j] => i = j
  /\ \A i \in 0 .. Len(s) : next[At(s, i)] = At(s, i + 1)
  /\ \A i \in 1 .. Len(s) : prev[s[i]] = At(s, i - 1)
  /\ \A i \in 1 .. Len(s) : state[s[i]] \in {"QUEUED", "ACTIVE"} \/ (i = 1 /\ hpc = "unlink")

HandlerAtFirst ==
  /\ hpc # "out" => buf = next[HEAD]
  /\ hpc = "unlink" => buf \in Buffers /\ state[buf] = "DONE"

(***************************************************************************)
(* What list_add_tail takes for the last entry is the last entry; it can   *)
(* only be wrong once a list was torn, and then the list is empty, so that *)
(* nothing is linked into the middle of it.                                *)
(***************************************************************************)
Ends(s, x) == x = At(s, Len(s)) \/ (torn /\ s = <<>> /\ x \in Nodes)

QbufAtEnd(s) ==
  /\ qpc = "user" => Ends(s, prev[HEAD])
  /\ qpc # "user" =>
       /\ new \in Buffers /\ state[new] = "QUEUED"
       /\ \A i \in 1 .. Len(s) : s[i] # new
       /\ Ends(s, last)
  /\ qpc \in {"add2", "add3"} /\ last = At(s, Len(s)) => prev[HEAD] = new
  /\ qpc = "add3" => next[new] = HEAD /\ prev[new] = last

(* As long as no list was torn, mainqueue is the DONE buffers, then the list. *)
Queued(s) == IF qpc = "user" THEN s ELSE Append(s, new)

Done(s) == Len(mainqueue) - Len(Queued(s))

InOrder(s) ==
  ~torn =>
    /\ Done(s) >= 0
    /\ \A i \in 1 .. Done(s) : state[mainqueue[i]] = "DONE"
    /\ \A i \in 1 .. Len(Queued(s)) : mainqueue[Done(s) + i] = Queued(s)[i]
    /\ \A i, j \in 1 .. Len(mainqueue) : mainqueue[i] = mainqueue[j] => i = j

(* irqqueue is s, whatever QBUF and the handler are in the middle of. *)
IrqqueueIs(s) == Linked(s) /\ QbufAtEnd(s) /\ InOrder(s)

(* The inductive invariant. *)
RInv == TypeOK /\ HandlerAtFirst /\ \E s \in Seq(Buffers) : IrqqueueIs(s)
=============================================================================
