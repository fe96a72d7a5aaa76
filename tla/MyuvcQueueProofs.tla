-------------------------- MODULE MyuvcQueueProofs --------------------------
(***************************************************************************)
(* Proofs about the buffer queue of the USB camera driver, for any number  *)
(* and size of buffers, any payload sizes and any stream of packets.       *)
(***************************************************************************)
EXTENDS MyuvcQueue, SequenceTheorems, TLAPS

(***************************************************************************)
(* When the driver is loaded both lists are empty, no buffer holds data    *)
(* and every part of the invariant holds.                                  *)
(***************************************************************************)
LEMMA InitEstablishes == Init => IInv
<1> SUFFICES ASSUME Init PROVE IInv
  OBVIOUS
<1>1. TypeOK
  BY QueueAssumption DEF Init, TypeOK, Buffers, States
<1>2. ListsAgree /\ StateTellsPlace
  BY DEF Init, ListsAgree, StateTellsPlace, NoDuplicates, Ready, Buffers
<1>3. OneFid /\ FramesNotJoined /\ DoneNotEmpty /\ FidTracks
  BY DEF Init, OneFid, FramesNotJoined, DoneNotEmpty, FidTracks, Buffers
<1> QED
  BY <1>1, <1>2, <1>3 DEF IInv

(***************************************************************************)
(* VIDIOC_REQBUFS frees whatever there was and starts with empty lists;    *)
(* only the frame IDs survive it.                                          *)
(***************************************************************************)
LEMMA ReqbufsPreserves ==
  ASSUME IInv, NEW n \in 0 .. MaxBufs, Reqbufs(n)
  PROVE  IInv'
<1>1. TypeOK'
  BY QueueAssumption DEF IInv, Reqbufs, TypeOK, Buffers, States, fidVars
<1>2. ListsAgree' /\ StateTellsPlace'
  BY DEF Reqbufs, ListsAgree, StateTellsPlace, NoDuplicates, Ready, Buffers
<1>3. OneFid' /\ FramesNotJoined' /\ DoneNotEmpty' /\ FidTracks'
  BY DEF Reqbufs, OneFid, FramesNotJoined, DoneNotEmpty, FidTracks, Buffers
<1> QED
  BY <1>1, <1>2, <1>3 DEF IInv

(***************************************************************************)
(* VIDIOC_QBUF appends an IDLE buffer, which is on neither list, to the    *)
(* end of both, so the DONE part of mainqueue does not move.               *)
(***************************************************************************)
LEMMA QbufPreserves ==
  ASSUME IInv, NEW b \in Buffers, Qbuf(b)
  PROVE  IInv'
<1> USE DEF IInv, Qbuf, MayQueue, list_add_tail, fidVars
<1>0. /\ mainqueue \in Seq(Buffers) /\ irqqueue \in Seq(Buffers)
      /\ state \in [Buffers -> States] /\ count \in Int
      /\ Len(mainqueue) \in Nat /\ Len(irqqueue) \in Nat
  BY DEF TypeOK
<1>1. /\ mainqueue' \in Seq(Buffers)
      /\ Len(mainqueue') = Len(mainqueue) + 1
      /\ \A i \in 1 .. Len(mainqueue) : mainqueue'[i] = mainqueue[i]
      /\ mainqueue'[Len(mainqueue) + 1] = b
  BY <1>0, AppendProperties
<1>2. /\ irqqueue' \in Seq(Buffers)
      /\ Len(irqqueue') = Len(irqqueue) + 1
      /\ \A i \in 1 .. Len(irqqueue) : irqqueue'[i] = irqqueue[i]
      /\ irqqueue'[Len(irqqueue) + 1] = b
  BY <1>0, AppendProperties
<1>3. Ready' = Ready
  BY <1>0, <1>1, <1>2 DEF Ready
<1>4. TypeOK'
  BY <1>1, <1>2, QueueAssumption DEF TypeOK, States
<1>5. \A i \in 1 .. Len(mainqueue) : mainqueue[i] # b
  BY DEF StateTellsPlace
<1>6. ListsAgree'
  <2>1. NoDuplicates(mainqueue)'
    BY <1>0, <1>1, <1>5 DEF ListsAgree, NoDuplicates
  <2>2. \A i \in 1 .. Len(irqqueue') : mainqueue'[Ready' + i] = irqqueue'[i]
    <3> SUFFICES ASSUME NEW i \in 1 .. Len(irqqueue')
                 PROVE  mainqueue'[Ready + i] = irqqueue'[i]
      BY <1>3
    <3>1. CASE i = Len(irqqueue) + 1
      <4>1. Ready + i = Len(mainqueue) + 1
        BY <3>1, <1>0 DEF Ready
      <4> QED
        BY <4>1, <3>1, <1>1, <1>2
    <3>2. CASE i # Len(irqqueue) + 1
      <4>1. i \in 1 .. Len(irqqueue)
        BY <3>2, <1>0, <1>2
      <4>2. Ready + i \in 1 .. Len(mainqueue)
        BY <4>1, <1>0 DEF Ready, ListsAgree
      <4> QED
        BY <4>1, <4>2, <1>1, <1>2 DEF ListsAgree
    <3> QED
      BY <3>1, <3>2
  <2> QED
    BY <2>1, <2>2, <1>3 DEF ListsAgree
<1>7. StateTellsPlace'
  <2>1. ASSUME NEW i \in 1 .. Len(mainqueue')
        PROVE  /\ mainqueue'[i] < count'
               /\ (state'[mainqueue'[i]] = "DONE") <=> (i <= Ready')
               /\ state'[mainqueue'[i]] = "ACTIVE" => i = Ready' + 1
    <3>1. CASE i = Len(mainqueue) + 1
      BY <3>1, <1>0, <1>1, <1>3 DEF Ready
    <3>2. CASE i # Len(mainqueue) + 1
      <4>1. i \in 1 .. Len(mainqueue) /\ mainqueue[i] \in Buffers
        BY <3>2, <1>0, <1>1, ElementOfSeq
      <4> QED
        BY <4>1, <1>0, <1>1, <1>3, <1>5 DEF StateTellsPlace
    <3> QED
      BY <3>1, <3>2
  <2>2. ASSUME NEW c \in Buffers
        PROVE  state'[c] = "IDLE" <=> \A i \in 1 .. Len(mainqueue') : mainqueue'[i] # c
    <3>1. CASE c = b
      BY <3>1, <1>0, <1>1
    <3>2. CASE c # b
      BY <3>2, <1>0, <1>1 DEF StateTellsPlace
    <3> QED
      BY <3>1, <3>2
  <2> QED
    BY <2>1, <2>2 DEF StateTellsPlace
<1>8. OneFid' /\ FramesNotJoined' /\ DoneNotEmpty' /\ FidTracks'
  BY <1>0 DEF OneFid, FramesNotJoined, DoneNotEmpty, FidTracks, TypeOK
<1> QED
  BY <1>4, <1>6, <1>7, <1>8

-----------------------------------------------------------------------------
(***************************************************************************)
(* The first buffer of irqqueue is the first buffer of mainqueue that is   *)
(* not DONE; it is QUEUED or ACTIVE and no other buffer is ACTIVE.         *)
(***************************************************************************)
LEMMA HeadOfIrqqueue ==
  ASSUME IInv, irqqueue # <<>>
  PROVE  /\ Head(irqqueue) \in Buffers
         /\ Ready \in Nat
         /\ Ready + 1 \in 1 .. Len(mainqueue)
         /\ mainqueue[Ready + 1] = Head(irqqueue)
         /\ state[Head(irqqueue)] \in {"QUEUED", "ACTIVE"}
         /\ \A c \in Buffers : state[c] = "ACTIVE" => c = Head(irqqueue)
<1>0. /\ mainqueue \in Seq(Buffers) /\ irqqueue \in Seq(Buffers)
      /\ state \in [Buffers -> States]
      /\ Len(mainqueue) \in Nat /\ Len(irqqueue) \in Nat
  BY DEF IInv, TypeOK
<1>1. Len(irqqueue) > 0 /\ Head(irqqueue) = irqqueue[1] /\ Head(irqqueue) \in Buffers
  BY <1>0, HeadTailProperties
<1>2. Ready \in Nat /\ Ready + 1 \in 1 .. Len(mainqueue)
  BY <1>0, <1>1 DEF IInv, ListsAgree, Ready
<1>3. mainqueue[Ready + 1] = Head(irqqueue)
  BY <1>0, <1>1, <1>2 DEF IInv, ListsAgree
<1>4. state[Head(irqqueue)] # "DONE" /\ state[Head(irqqueue)] # "IDLE"
  BY <1>1, <1>2, <1>3 DEF IInv, StateTellsPlace
<1>5. ASSUME NEW c \in Buffers, state[c] = "ACTIVE"
      PROVE  c = Head(irqqueue)
  <2>1. PICK i \in 1 .. Len(mainqueue) : mainqueue[i] = c
    BY <1>5 DEF IInv, StateTellsPlace
  <2>2. i = Ready + 1
    BY <2>1, <1>5 DEF IInv, StateTellsPlace
  <2> QED
    BY <2>1, <2>2, <1>3
<1> QED
  BY <1>0, <1>1, <1>2, <1>3, <1>4, <1>5 DEF States

(***************************************************************************)
(* When the first buffer of irqqueue becomes DONE and leaves that list,    *)
(* the lists still agree and the states still tell the places.             *)
(***************************************************************************)
LEMMA CompletionKeepsLists ==
  ASSUME IInv, irqqueue # <<>>,
         irqqueue' = Tail(irqqueue),
         state' = [state EXCEPT ![Head(irqqueue)] = "DONE"],
         mainqueue' = mainqueue, count' = count
  PROVE  ListsAgree' /\ StateTellsPlace' /\ irqqueue' \in Seq(Buffers)
<1> DEFINE h == Head(irqqueue)
<1>0. /\ mainqueue \in Seq(Buffers) /\ irqqueue \in Seq(Buffers)
      /\ state \in [Buffers -> States]
      /\ Len(mainqueue) \in Nat /\ Len(irqqueue) \in Nat
      /\ h \in Buffers
  BY HeadTailProperties DEF IInv, TypeOK
<1>1. /\ Len(irqqueue') = Len(irqqueue) - 1
      /\ irqqueue' \in Seq(Buffers)
      /\ \A i \in 1 .. Len(irqqueue') : irqqueue'[i] = irqqueue[i + 1]
  BY <1>0, HeadTailProperties
<1>2. Ready \in Nat /\ Ready' = Ready + 1
  BY <1>0, <1>1, HeadOfIrqqueue DEF Ready
<1>3. ListsAgree'
  <2>1. ASSUME NEW i \in 1 .. Len(irqqueue')
        PROVE  mainqueue'[Ready' + i] = irqqueue'[i]
    <3>1. i + 1 \in 1 .. Len(irqqueue)
      BY <1>0, <1>1
    <3>2. mainqueue[Ready + (i + 1)] = irqqueue[i + 1]
      BY <3>1 DEF IInv, ListsAgree
    <3> QED
      BY <3>2, <1>1, <1>2
  <2> QED
    BY <2>1, <1>0, <1>2 DEF IInv, ListsAgree, NoDuplicates
<1>4. StateTellsPlace'
  <2>1. ASSUME NEW i \in 1 .. Len(mainqueue)
        PROVE  /\ mainqueue[i] < count
               /\ (state'[mainqueue[i]] = "DONE") <=> (i <= Ready + 1)
               /\ state'[mainqueue[i]] = "ACTIVE" => i = Ready + 2
    <3>0. mainqueue[i] \in Buffers
      BY <1>0, ElementOfSeq
    <3>1. CASE i = Ready + 1
      BY <3>1, <3>0, <1>0, <1>2, HeadOfIrqqueue DEF IInv, StateTellsPlace
    <3>2. CASE i # Ready + 1
      <4>1. mainqueue[i] # h
        BY <3>2, <1>2, HeadOfIrqqueue DEF IInv, ListsAgree, NoDuplicates
      <4>2. state'[mainqueue[i]] = state[mainqueue[i]]
        BY <4>1, <3>0, <1>0
      <4>3. state[mainqueue[i]] # "ACTIVE"
        BY <3>2 DEF IInv, StateTellsPlace
      <4>4. (state[mainqueue[i]] = "DONE") <=> (i <= Ready)
        BY DEF IInv, StateTellsPlace
      <4>5. mainqueue[i] < count
        BY DEF IInv, StateTellsPlace
      <4> QED
        BY <3>2, <4>2, <4>3, <4>4, <4>5, <1>2
    <3> QED
      BY <3>1, <3>2
  <2>2. ASSUME NEW c \in Buffers
        PROVE  state'[c] = "IDLE" <=> \A i \in 1 .. Len(mainqueue) : mainqueue[i] # c
    <3>1. CASE c = h
      BY <3>1, <1>0, HeadOfIrqqueue
    <3>2. CASE c # h
      BY <3>2, <1>0 DEF IInv, StateTellsPlace
    <3> QED
      BY <3>1, <3>2
  <2> QED
    BY <2>1, <2>2, <1>2 DEF StateTellsPlace
<1> QED
  BY <1>1, <1>3, <1>4

(***************************************************************************)
(* A step that may start the first buffer of irqqueue but leaves both      *)
(* lists alone keeps them in agreement with the states.                    *)
(***************************************************************************)
LEMMA ActivationKeepsLists ==
  ASSUME IInv, irqqueue # <<>>,
         irqqueue' = irqqueue,
         state' = [state EXCEPT ![Head(irqqueue)] = "ACTIVE"],
         mainqueue' = mainqueue, count' = count
  PROVE  ListsAgree' /\ StateTellsPlace'
<1> DEFINE h == Head(irqqueue)
<1>0. /\ mainqueue \in Seq(Buffers) /\ state \in [Buffers -> States]
      /\ h \in Buffers /\ Ready' = Ready
  BY HeadOfIrqqueue DEF IInv, TypeOK, Ready
<1>1. ListsAgree'
  BY <1>0 DEF IInv, ListsAgree, NoDuplicates
<1>2. ASSUME NEW i \in 1 .. Len(mainqueue)
      PROVE  /\ mainqueue[i] < count
             /\ (state'[mainqueue[i]] = "DONE") <=> (i <= Ready)
             /\ state'[mainqueue[i]] = "ACTIVE" => i = Ready + 1
  <2>0. mainqueue[i] \in Buffers
    BY <1>0, ElementOfSeq
  <2>1. CASE i = Ready + 1
    BY <2>1, <2>0, <1>0, HeadOfIrqqueue DEF IInv, StateTellsPlace
  <2>2. CASE i # Ready + 1
    <3>1. mainqueue[i] # h
      BY <2>2, HeadOfIrqqueue DEF IInv, ListsAgree, NoDuplicates
    <3> QED
      BY <3>1, <2>0, <1>0 DEF IInv, StateTellsPlace
  <2> QED
    BY <2>1, <2>2
<1>3. ASSUME NEW c \in Buffers
      PROVE  state'[c] = "IDLE" <=> \A i \in 1 .. Len(mainqueue) : mainqueue[i] # c
  <2>1. CASE c = h
    BY <2>1, <1>0, HeadOfIrqqueue
  <2>2. CASE c # h
    BY <2>2, <1>0 DEF IInv, StateTellsPlace
  <2> QED
    BY <2>1, <2>2
<1> QED
  BY <1>0, <1>1, <1>2, <1>3 DEF StateTellsPlace

-----------------------------------------------------------------------------
(***************************************************************************)
(* VIDIOC_DQBUF takes the first buffer of mainqueue.  It is DONE, so it is *)
(* not on irqqueue, and what remains of mainqueue still ends in irqqueue.  *)
(***************************************************************************)
LEMMA DqbufPreserves ==
  ASSUME IInv, NEW b \in Buffers, Dqbuf(b)
  PROVE  IInv'
<1> USE DEF IInv, Dqbuf, MayDequeue, fidVars
<1>0. /\ mainqueue \in Seq(Buffers) /\ irqqueue \in Seq(Buffers)
      /\ state \in [Buffers -> States]
      /\ Len(mainqueue) \in Nat /\ Len(irqqueue) \in Nat
      /\ Len(mainqueue) > 0 /\ b = mainqueue[1]
  BY HeadTailProperties DEF TypeOK
<1>1. /\ mainqueue' \in Seq(Buffers)
      /\ Len(mainqueue') = Len(mainqueue) - 1
      /\ \A i \in 1 .. Len(mainqueue') : mainqueue'[i] = mainqueue[i + 1]
  BY <1>0, HeadTailProperties
<1>2. Ready \in Nat /\ Ready >= 1 /\ Ready' = Ready - 1
  BY <1>0, <1>1 DEF Ready, StateTellsPlace, ListsAgree
<1>3. \A i \in 1 .. Len(mainqueue') : mainqueue'[i] # b
  BY <1>0, <1>1 DEF ListsAgree, NoDuplicates
<1>4. TypeOK'
  BY <1>0, <1>1 DEF TypeOK, States
<1>5. ListsAgree'
  <2>1. NoDuplicates(mainqueue)'
    <3> SUFFICES ASSUME NEW i \in 1 .. Len(mainqueue'), NEW j \in 1 .. Len(mainqueue'),
                        mainqueue'[i] = mainqueue'[j]
                 PROVE  i = j
      BY DEF NoDuplicates
    <3>1. mainqueue[i + 1] = mainqueue[j + 1]
      BY <1>1
    <3>2. i + 1 \in 1 .. Len(mainqueue) /\ j + 1 \in 1 .. Len(mainqueue)
      BY <1>0, <1>1
    <3>3. i + 1 = j + 1
      BY <3>1, <3>2 DEF ListsAgree, NoDuplicates
    <3> QED
      BY <3>3
  <2>2. ASSUME NEW i \in 1 .. Len(irqqueue)
        PROVE  mainqueue'[Ready' + i] = irqqueue[i]
    <3>1. Ready' + i \in 1 .. Len(mainqueue')
      BY <1>0, <1>1, <1>2 DEF Ready
    <3>2. mainqueue'[Ready' + i] = mainqueue[Ready + i]
      BY <3>1, <1>1, <1>2
    <3> QED
      BY <3>2 DEF ListsAgree
  <2>3. irqqueue' = irqqueue /\ Ready' >= 0
    BY <1>2
  <2> QED
    BY <2>1, <2>2, <2>3 DEF ListsAgree, NoDuplicates
<1>6. StateTellsPlace'
  <2>1. ASSUME NEW i \in 1 .. Len(mainqueue')
        PROVE  /\ mainqueue'[i] < count
               /\ (state'[mainqueue'[i]] = "DONE") <=> (i <= Ready')
               /\ state'[mainqueue'[i]] = "ACTIVE" => i = Ready' + 1
    <3>1. i + 1 \in 1 .. Len(mainqueue) /\ mainqueue'[i] = mainqueue[i + 1]
      BY <1>0, <1>1
    <3>2. mainqueue'[i] \in Buffers /\ mainqueue'[i] # b
      BY <1>1, <1>3, ElementOfSeq
    <3>3. state'[mainqueue'[i]] = state[mainqueue[i + 1]]
      BY <3>1, <3>2, <1>0
    <3> QED
      BY <3>1, <3>3, <1>2 DEF StateTellsPlace
  <2>2. ASSUME NEW c \in Buffers
        PROVE  state'[c] = "IDLE" <=> \A i \in 1 .. Len(mainqueue') : mainqueue'[i] # c
    <3>1. CASE c = b
      BY <3>1, <1>0, <1>3
    <3>2. CASE c # b
      <4>1. state'[c] = state[c]
        BY <3>2, <1>0
      <4>2. ASSUME NEW i \in 1 .. Len(mainqueue), mainqueue[i] = c
            PROVE  \E k \in 1 .. Len(mainqueue') : mainqueue'[k] = c
        <5>1. i - 1 \in 1 .. Len(mainqueue')
          BY <4>2, <3>2, <1>0, <1>1
        <5>2. mainqueue'[i - 1] = c
          BY <5>1, <4>2, <1>1
        <5> QED
          BY <5>1, <5>2
      <4>3. ASSUME NEW i \in 1 .. Len(mainqueue'), mainqueue'[i] = c
            PROVE  \E k \in 1 .. Len(mainqueue) : mainqueue[k] = c
        <5>1. i + 1 \in 1 .. Len(mainqueue)
          BY <1>0, <1>1
        <5> QED
          BY <5>1, <4>3, <1>1
      <4> QED
        BY <4>1, <4>2, <4>3 DEF StateTellsPlace
    <3> QED
      BY <3>1, <3>2
  <2> QED
    BY <2>1, <2>2 DEF StateTellsPlace
<1>7. OneFid' /\ FramesNotJoined' /\ DoneNotEmpty' /\ FidTracks'
  BY <1>0 DEF OneFid, FramesNotJoined, DoneNotEmpty, FidTracks
<1> QED
  BY <1>4, <1>5, <1>6, <1>7

(***************************************************************************)
(* Once the kernel has followed a zeroed list head the queue is not        *)
(* changed any more.                                                       *)
(***************************************************************************)
LEMMA FollowZeroedHeadPreserves ==
  ASSUME IInv, FollowZeroedHead
  PROVE  IInv'
BY DEF IInv, FollowZeroedHead, queueVars, fidVars, TypeOK, ListsAgree, NoDuplicates,
       Ready, StateTellsPlace, OneFid, FramesNotJoined, DoneNotEmpty, FidTracks

-----------------------------------------------------------------------------
(* The completion handler. *)

(***************************************************************************)
(* The frame ID the handler computes is 0 or 1 for both kinds of camera.   *)
(***************************************************************************)
LEMMA NewFidType ==
  ASSUME TypeOK, NEW p \in Packets
  PROVE  NewFid(p) \in {0, 1}
BY DEF TypeOK, NewFid, Packets

(***************************************************************************)
(* Without a buffer the handler only remembers the frame ID; no buffer is  *)
(* ACTIVE then, so there is none whose data last_fid could disagree with.  *)
(***************************************************************************)
LEMMA PacketNoBufferPreserves ==
  ASSUME IInv, NEW p \in Packets, PacketNoBuffer(p)
  PROVE  IInv'
<1> USE DEF IInv, PacketNoBuffer, queueVars
<1>1. TypeOK'
  BY NewFidType DEF TypeOK
<1>2. ListsAgree' /\ StateTellsPlace' /\ OneFid' /\ FramesNotJoined' /\ DoneNotEmpty'
  BY DEF ListsAgree, NoDuplicates, Ready, StateTellsPlace, OneFid, FramesNotJoined, DoneNotEmpty
<1>3. \A b \in Buffers : state[b] # "ACTIVE"
  BY DEF StateTellsPlace, Ready, TypeOK
<1>4. FidTracks'
  BY <1>3 DEF FidTracks
<1> QED
  BY <1>1, <1>2, <1>4

(***************************************************************************)
(* A packet from the middle of a frame changes fid alone when the first    *)
(* buffer is fresh.                                                        *)
(***************************************************************************)
LEMMA PacketOutOfSyncPreserves ==
  ASSUME IInv, NEW p \in Packets, PacketOutOfSync(p)
  PROVE  IInv'
<1> USE DEF IInv, PacketOutOfSync, queueVars
<1>1. TypeOK'
  BY NewFidType DEF TypeOK
<1>2. ListsAgree' /\ StateTellsPlace'
  BY DEF ListsAgree, NoDuplicates, Ready, StateTellsPlace
<1>3. OneFid' /\ FramesNotJoined' /\ DoneNotEmpty' /\ FidTracks'
  BY DEF OneFid, FramesNotJoined, DoneNotEmpty, FidTracks
<1> QED
  BY <1>1, <1>2, <1>3

(***************************************************************************)
(* A packet of the next frame completes a buffer that is not empty and     *)
(* changes neither its data nor last_fid.                                  *)
(***************************************************************************)
LEMMA PacketNewFramePreserves ==
  ASSUME IInv, NEW p \in Packets, PacketNewFrame(p)
  PROVE  IInv'
<1> USE DEF PacketNewFrame, StartsNewFrame
<1>1. ListsAgree' /\ StateTellsPlace' /\ irqqueue' \in Seq(Buffers)
  BY CompletionKeepsLists
<1>2. Head(irqqueue) \in Buffers
  BY HeadOfIrqqueue
<1>3. TypeOK'
  BY <1>1, <1>2, NewFidType DEF IInv, TypeOK, States
<1>4. OneFid' /\ FramesNotJoined'
  BY DEF IInv, OneFid, FramesNotJoined
<1>5. DoneNotEmpty'
  BY <1>2 DEF IInv, DoneNotEmpty, TypeOK
<1>6. FidTracks'
  BY <1>2 DEF IInv, FidTracks, TypeOK
<1> QED
  BY <1>1, <1>3, <1>4, <1>5, <1>6 DEF IInv

(***************************************************************************)
(* Data is only stored in a buffer whose data carries the same frame ID,   *)
(* never beyond the room it has, and the buffer becomes DONE only with     *)
(* data in it.                                                             *)
(***************************************************************************)
LEMMA PacketStoredPreserves ==
  ASSUME IInv, NEW p \in Packets, PacketStored(p)
  PROVE  IInv'
<1> DEFINE h == Head(irqqueue)
           nbytes == Nbytes(p, h)
           data == [frame |-> p.frame, fid |-> NewFid(p), soi |-> p.soi /\ ip2970]
<1>0. /\ h \in Buffers
      /\ state \in [Buffers -> States] /\ bytesused \in [Buffers -> 0 .. Length]
      /\ content \in [Buffers -> SUBSET Data]
      /\ p.len \in Nat /\ p.frame \in Frames /\ p.soi \in BOOLEAN
      /\ ip2970 \in BOOLEAN
      /\ NewFid(p) \in {0, 1}
      /\ state[h] \in {"QUEUED", "ACTIVE"}
      /\ \A c \in Buffers : state[c] = "ACTIVE" => c = h
      /\ irqqueue # <<>>
  BY HeadOfIrqqueue, NewFidType, QueueAssumption DEF IInv, TypeOK, PacketStored, Packets
<1>1. /\ bytesused' = [bytesused EXCEPT ![h] = @ + nbytes]
      /\ content' = [content EXCEPT ![h] =
                       IF nbytes = 0 THEN @ ELSE @ \cup {data}]
      /\ state' = [state EXCEPT ![h] = IF Completes(p, h) THEN "DONE" ELSE "ACTIVE"]
      /\ irqqueue' = IF Completes(p, h) THEN Tail(irqqueue) ELSE irqqueue
      /\ last_fid' = NewFid(p) /\ fid' = NewFid(p)
      /\ count' = count /\ mainqueue' = mainqueue /\ oops' = oops /\ ip2970' = ip2970
  BY DEF PacketStored
<1>2. /\ nbytes \in 0 .. Length
      /\ bytesused[h] + nbytes \in 0 .. Length
      /\ p.len > Length - bytesused[h] => bytesused[h] + nbytes = Length
      /\ p.len <= Length - bytesused[h] => nbytes = p.len
  BY <1>0, QueueAssumption DEF Nbytes, Maxlen
<1>3. ListsAgree' /\ StateTellsPlace' /\ irqqueue' \in Seq(Buffers)
  <2>1. CASE Completes(p, h)
    BY <2>1, <1>0, <1>1, CompletionKeepsLists
  <2>2. CASE ~Completes(p, h)
    <3>1. irqqueue' = irqqueue /\ state' = [state EXCEPT ![h] = "ACTIVE"]
      BY <2>2, <1>1
    <3>2. irqqueue' \in Seq(Buffers)
      BY <3>1 DEF IInv, TypeOK
    <3> QED
      BY <3>1, <3>2, <1>0, <1>1, ActivationKeepsLists
  <2> QED
    BY <2>1, <2>2
<1>4. TypeOK'
  <2>1. bytesused' \in [Buffers -> 0 .. Length] /\ state' \in [Buffers -> States]
    BY <1>0, <1>1, <1>2 DEF States
  <2>2. content' \in [Buffers -> SUBSET Data]
    BY <1>0, <1>1 DEF Data
  <2> QED
    BY <2>1, <2>2, <1>0, <1>1, <1>3 DEF IInv, TypeOK
<1>5. \A x \in content[h] : x.fid = NewFid(p)
  <2>1. CASE state[h] = "ACTIVE" /\ NewFid(p) = last_fid
    BY <2>1, <1>0 DEF IInv, FidTracks
  <2>2. CASE bytesused[h] = 0
    BY <2>2, <1>0 DEF IInv, FidTracks
  <2> QED
    BY <2>1, <2>2 DEF PacketStored, InSync, StartsNewFrame
<1>6. \A x \in content'[h] : x.fid = NewFid(p)
  BY <1>0, <1>1, <1>5
<1>7. \A c \in Buffers \ {h} :
        /\ content'[c] = content[c] /\ bytesused'[c] = bytesused[c]
        /\ state'[c] = state[c] /\ state[c] # "ACTIVE"
  BY <1>0, <1>1
<1>8. OneFid'
  <2>1. ~ip2970 => \A x \in content'[h] : x.fid = x.frame % 2
    BY <1>0, <1>1 DEF IInv, OneFid, NewFid, Packets
  <2> QED
    BY <2>1, <1>1, <1>6, <1>7 DEF IInv, OneFid
<1>9. FramesNotJoined'
  <2>1. CASE ~ip2970
    <3>1. \A b \in Buffers : \A x, y \in content'[b] : x.frame % 2 = y.frame % 2
      BY <2>1, <1>1, <1>8 DEF OneFid
    <3> QED
      BY <3>1, <2>1, <1>1 DEF FramesNotJoined
  <2>2. CASE ip2970
    <3>1. \A c \in Buffers : \A x, y \in content[c] : x.soi /\ y.soi => x = y
      BY <2>2 DEF IInv, FramesNotJoined
    <3>2. p.soi => content[h] = {}
      <4> SUFFICES ASSUME p.soi PROVE content[h] = {}
        OBVIOUS
      <4>1. NewFid(p) # last_fid
        BY <2>2 DEF NewFid, IInv, TypeOK
      <4>2. bytesused[h] = 0
        BY <4>1 DEF PacketStored, StartsNewFrame
      <4> QED
        BY <4>2, <1>0 DEF IInv, FidTracks
    <3>3. \A x, y \in content'[h] : x.soi /\ y.soi => x = y
      BY <3>1, <3>2, <1>0, <1>1
    <3> QED
      BY <3>1, <3>3, <2>2, <1>1, <1>7 DEF FramesNotJoined
  <2> QED
    BY <2>1, <2>2, <1>0
<1>10. DoneNotEmpty'
  <2>1. state'[h] = "DONE" => bytesused'[h] > 0
    BY <1>0, <1>1, <1>2, QueueAssumption DEF Completes, Maxlen, Nbytes
  <2> QED
    BY <2>1, <1>7 DEF IInv, DoneNotEmpty
<1>11. FidTracks'
  <2>1. bytesused'[h] = 0 <=> content'[h] = {}
    <3>1. CASE nbytes = 0
      BY <3>1, <1>0, <1>1 DEF IInv, FidTracks
    <3>2. CASE nbytes # 0
      <4>1. bytesused'[h] # 0
        BY <3>2, <1>0, <1>1, <1>2
      <4>2. data \in content'[h]
        BY <3>2, <1>0, <1>1
      <4> QED
        BY <4>1, <4>2
    <3> QED
      BY <3>1, <3>2
  <2>2. state'[h] # "QUEUED"
    BY <1>0, <1>1
  <2> QED
    BY <2>1, <2>2, <1>1, <1>6, <1>7 DEF IInv, FidTracks
<1> QED
  BY <1>3, <1>4, <1>8, <1>9, <1>10, <1>11 DEF IInv

-----------------------------------------------------------------------------
(***************************************************************************)
(* Every ioctl and every iteration of the packet loop preserves the        *)
(* invariant.                                                              *)
(***************************************************************************)
LEMMA NextPreserves == IInv /\ [Next]_vars => IInv'
<1> SUFFICES ASSUME IInv, [Next]_vars PROVE IInv'
  OBVIOUS
<1>1. ASSUME NEW n \in 0 .. MaxBufs, Reqbufs(n) PROVE IInv'
  BY <1>1, ReqbufsPreserves
<1>2. ASSUME NEW b \in Buffers, Qbuf(b) PROVE IInv'
  BY <1>2, QbufPreserves
<1>3. ASSUME NEW b \in Buffers, Dqbuf(b) PROVE IInv'
  BY <1>3, DqbufPreserves
<1>4. CASE FollowZeroedHead
  BY <1>4, FollowZeroedHeadPreserves
<1>5. ASSUME NEW p \in Packets, VideoComplete(p) PROVE IInv'
  <2>1. CASE PacketNoBuffer(p)
    BY <2>1, PacketNoBufferPreserves
  <2>2. CASE PacketOutOfSync(p)
    BY <2>2, PacketOutOfSyncPreserves
  <2>3. CASE PacketNewFrame(p)
    BY <2>3, PacketNewFramePreserves
  <2>4. CASE PacketStored(p)
    BY <2>4, PacketStoredPreserves
  <2>5. CASE UNCHANGED vars
    BY <2>5 DEF vars, queueVars, fidVars, IInv, TypeOK, ListsAgree, NoDuplicates, Ready,
                StateTellsPlace, OneFid, FramesNotJoined, DoneNotEmpty, FidTracks
  <2> QED
    BY <1>5, <2>1, <2>2, <2>3, <2>4, <2>5 DEF VideoComplete, PacketSkipped
<1>6. CASE UNCHANGED vars
  BY <1>6 DEF vars, queueVars, fidVars, IInv, TypeOK, ListsAgree, NoDuplicates, Ready,
              StateTellsPlace, OneFid, FramesNotJoined, DoneNotEmpty, FidTracks
<1> QED
  BY <1>1, <1>2, <1>3, <1>4, <1>5, <1>6 DEF Next

(***************************************************************************)
(* The inductive invariant of uvc.c's queue holds in every reachable       *)
(* state.                                                                  *)
(***************************************************************************)
THEOREM QueueInvariant == Spec => []IInv
<1> QED
  BY InitEstablishes, NextPreserves, PTL DEF Spec

(***************************************************************************)
(* mainqueue is always the DONE buffers followed by irqqueue: the lists of *)
(* qbuf, dqbuf and the completion handler never drift apart.               *)
(***************************************************************************)
THEOREM ListsAlwaysAgree == Spec => []ListsAgree
<1>1. IInv => ListsAgree
  BY DEF IInv
<1> QED
  BY <1>1, QueueInvariant, PTL

(***************************************************************************)
(* A buffer of the application is on no list, a DONE one not on irqqueue.  *)
(***************************************************************************)
THEOREM StateAlwaysTellsPlace == Spec => []StateTellsPlace
<1>1. IInv => StateTellsPlace
  BY DEF IInv
<1> QED
  BY <1>1, QueueInvariant, PTL

(***************************************************************************)
(* The completion handler never joins two frames of the camera that the    *)
(* packets it accepted told apart: by FID, or for the ip2970 by a header.  *)
(***************************************************************************)
THEOREM FramesNeverJoined == Spec => []FramesNotJoined
<1>1. IInv => FramesNotJoined
  BY DEF IInv
<1> QED
  BY <1>1, QueueInvariant, PTL

-----------------------------------------------------------------------------
(***************************************************************************)
(* What the application dequeued stays as it is until it queues the buffer *)
(* again or calls REQBUFS.                                                 *)
(***************************************************************************)
THEOREM DataAlwaysStable == Spec => DataStable
<1> DEFINE Stable(b) ==
      state[b] \in {"DONE", "IDLE"} /\ bytesused[b] # 0
      => \/ bytesused'[b] = bytesused[b] /\ content'[b] = content[b]
         \/ state[b] = "IDLE" /\ state'[b] = "QUEUED"
         \/ \E n \in 0 .. MaxBufs : Reqbufs(n)
<1>1. ASSUME IInv, Next PROVE \A b \in Buffers : Stable(b)
  <2> SUFFICES ASSUME NEW b \in Buffers PROVE Stable(b)
    OBVIOUS
  <2>0. state \in [Buffers -> States] /\ bytesused \in [Buffers -> 0 .. Length]
        /\ content \in [Buffers -> SUBSET Data]
    BY <1>1 DEF IInv, TypeOK
  <2>1. CASE \E n \in 0 .. MaxBufs : Reqbufs(n)
    BY <2>1
  <2>2. ASSUME NEW c \in Buffers, Qbuf(c) PROVE Stable(b)
    BY <2>2, <2>0 DEF Qbuf, MayQueue
  <2>3. ASSUME NEW c \in Buffers, Dqbuf(c) PROVE Stable(b)
    BY <2>3 DEF Dqbuf
  <2>4. CASE FollowZeroedHead
    BY <2>4 DEF FollowZeroedHead, queueVars
  <2>5. ASSUME NEW p \in Packets, VideoComplete(p) PROVE Stable(b)
    <3>1. CASE PacketStored(p)
      <4>1. irqqueue # <<>>
        BY <3>1 DEF PacketStored
      <4>2. CASE b = Head(irqqueue)
        BY <4>1, <4>2, <1>1, HeadOfIrqqueue
      <4>3. CASE b # Head(irqqueue)
        BY <4>3, <3>1, <2>0 DEF PacketStored
      <4> QED
        BY <4>2, <4>3
    <3>2. CASE ~PacketStored(p)
      BY <3>2, <2>5 DEF VideoComplete, PacketSkipped, PacketNoBuffer, PacketOutOfSync,
                        PacketNewFrame, vars, queueVars
    <3> QED
      BY <3>1, <3>2
  <2> QED
    BY <1>1, <2>1, <2>2, <2>3, <2>4, <2>5 DEF Next
<1>2. IInv /\ [Next]_vars => [\A b \in Buffers : Stable(b)]_vars
  BY <1>1
<1> QED
  BY <1>2, QueueInvariant, PTL DEF Spec, DataStable

-----------------------------------------------------------------------------
(***************************************************************************)
(* last_fid is the frame id of the packets that are in the buffer being    *)
(* filled, so the toggle test of the completion handler compares the next  *)
(* packet with the frame it would be added to.                             *)
(***************************************************************************)
THEOREM FidAlwaysTracks == Spec => []FidTracks
<1>1. IInv => FidTracks
  BY DEF IInv
<1> QED
  BY <1>1, QueueInvariant, PTL

(***************************************************************************)
(* The type invariant, with the bound it puts on bytesused: the completion *)
(* handler never writes more than buf.length bytes into a buffer, whatever *)
(* the camera sends.                                                       *)
(***************************************************************************)
THEOREM QueueTypeOK == Spec => []TypeOK
<1>1. IInv => TypeOK
  BY DEF IInv
<1> QED
  BY <1>1, QueueInvariant, PTL

(***************************************************************************)
(* Neither EOF in an empty packet nor a change of FID hands an empty       *)
(* buffer to the application.                                              *)
(***************************************************************************)
THEOREM NeverDoneEmpty == Spec => []DoneNotEmpty
<1>1. IInv => DoneNotEmpty
  BY DEF IInv
<1> QED
  BY <1>1, QueueInvariant, PTL

(***************************************************************************)
(* The handler's own frame IDs for the ip2970 put a JPEG header only at    *)
(* the start of a buffer: a header makes NewFid differ from last_fid, and  *)
(* then a buffer that has data is completed and not written.               *)
(***************************************************************************)
THEOREM HeaderAlwaysFirst == Spec => HeaderFirst
<1> DEFINE Headed(b) == (\E x \in content'[b] \ content[b] : x.soi) => content[b] = {}
<1>1. ASSUME IInv, Next, ip2970, NEW b \in Buffers PROVE Headed(b)
  <2>0. /\ content \in [Buffers -> SUBSET Data] /\ bytesused \in [Buffers -> 0 .. Length]
        /\ last_fid \in {-1, 0, 1}
    BY <1>1 DEF IInv, TypeOK
  <2>1. ASSUME NEW n \in 0 .. MaxBufs, Reqbufs(n) PROVE Headed(b)
    BY <2>1 DEF Reqbufs
  <2>2. ASSUME NEW c \in Buffers, Qbuf(c) PROVE Headed(b)
    BY <2>2, <2>0 DEF Qbuf
  <2>3. ASSUME NEW p \in Packets, VideoComplete(p) PROVE Headed(b)
    <3>1. CASE PacketStored(p)
      <4>1. CASE b = Head(irqqueue)
        <5> SUFFICES ASSUME NEW x \in content'[b], x \notin content[b], x.soi
                     PROVE  content[b] = {}
          OBVIOUS
        <5>1. x = [frame |-> p.frame, fid |-> NewFid(p), soi |-> p.soi /\ ip2970]
          BY <3>1, <4>1, <2>0 DEF PacketStored
        <5>2. p.soi
          BY <5>1
        <5>3. NewFid(p) # last_fid
          BY <5>2, <1>1, <2>0 DEF NewFid
        <5>4. bytesused[b] = 0
          BY <5>3, <3>1, <4>1 DEF PacketStored, StartsNewFrame
        <5> QED
          BY <5>4, <1>1 DEF IInv, FidTracks
      <4>2. CASE b # Head(irqqueue)
        BY <4>2, <3>1, <2>0 DEF PacketStored
      <4> QED
        BY <4>1, <4>2
    <3>2. CASE ~PacketStored(p)
      BY <3>2, <2>3 DEF VideoComplete, PacketSkipped, PacketNoBuffer, PacketOutOfSync,
                        PacketNewFrame, vars, queueVars
    <3> QED
      BY <3>1, <3>2
  <2>4. CASE FollowZeroedHead \/ \E c \in Buffers : Dqbuf(c)
    BY <2>4 DEF FollowZeroedHead, queueVars, Dqbuf
  <2> QED
    BY <1>1, <2>1, <2>2, <2>3, <2>4 DEF Next
<1>2. IInv /\ [Next]_vars => [ip2970 => \A b \in Buffers : Headed(b)]_vars
  BY <1>1
<1> QED
  BY <1>2, QueueInvariant, PTL DEF Spec, HeaderFirst

-----------------------------------------------------------------------------
(***************************************************************************)
(* The driver's two lists, buffer states and frame IDs implement the       *)
(* single queue of FrameQueue: buffers are filled and returned in the      *)
(* order VIDIOC_QBUF got them.                                             *)
(***************************************************************************)
THEOREM QueueImplementsFrameQueue == Spec => ImplementsFrameQueue
<1>1. Init => FQ!Init
  BY DEF Init, FQ!Init, Ready
<1>2. ASSUME IInv, [Next]_vars PROVE [FQ!Next]_(FQ!vars)
  <2>0. /\ mainqueue \in Seq(Buffers) /\ irqqueue \in Seq(Buffers)
        /\ Len(mainqueue) \in Nat /\ Len(irqqueue) \in Nat
        /\ content \in [Buffers -> SUBSET Data]
        /\ state \in [Buffers -> States]
    BY <1>2 DEF IInv, TypeOK
  <2>1. ASSUME NEW n \in 0 .. MaxBufs, Reqbufs(n) PROVE FQ!Reset
    BY <2>1 DEF Reqbufs, FQ!Reset, Ready
  <2>2. ASSUME NEW b \in Buffers, Qbuf(b) PROVE FQ!Enqueue(b)
    <3>1. Ready' = Ready
      BY <2>0, <2>2, AppendProperties DEF Qbuf, list_add_tail, Ready
    <3>2. \A i \in 1 .. Len(mainqueue) : mainqueue[i] # b
      BY <1>2, <2>2 DEF IInv, StateTellsPlace, Qbuf, MayQueue
    <3> QED
      BY <3>1, <3>2, <2>2 DEF Qbuf, list_add_tail, FQ!Enqueue
  <2>3. ASSUME NEW b \in Buffers, Dqbuf(b) PROVE FQ!Dequeue
    <3>1. Len(mainqueue') = Len(mainqueue) - 1 /\ Len(mainqueue) > 0 /\ b = mainqueue[1]
      BY <2>0, <2>3, HeadTailProperties DEF Dqbuf
    <3>2. Ready' = Ready - 1
      BY <3>1, <2>0, <2>3 DEF Dqbuf, Ready
    <3>3. Ready > 0
      BY <3>1, <2>0, <2>3, <1>2 DEF Dqbuf, MayDequeue, IInv, StateTellsPlace, Ready
    <3> QED
      BY <3>2, <3>3, <2>3 DEF Dqbuf, FQ!Dequeue
  <2>4. ASSUME NEW p \in Packets, VideoComplete(p) PROVE [FQ!Next]_(FQ!vars)
    <3> DEFINE h == Head(irqqueue)
    <3>1. CASE PacketSkipped(p) \/ PacketNoBuffer(p) \/ PacketOutOfSync(p)
      BY <3>1 DEF PacketSkipped, PacketNoBuffer, PacketOutOfSync, vars, queueVars, Ready, FQ!vars
    <3>2. ASSUME irqqueue # <<>>
          PROVE  /\ Ready < Len(mainqueue) /\ mainqueue[Ready + 1] = h /\ h \in Buffers
                 /\ Ready \in Int
                 /\ Len(Tail(irqqueue)) = Len(irqqueue) - 1
      BY <3>2, <2>0, <1>2, HeadOfIrqqueue, HeadTailProperties
    <3>3. CASE PacketNewFrame(p)
      <4>1. Ready < Len(mainqueue) /\ mainqueue[Ready + 1] = h /\ h \in Buffers
        BY <3>2, <3>3 DEF PacketNewFrame
      <4>2. Ready' = Ready + 1
        BY <3>2, <3>3, <2>0 DEF PacketNewFrame, Ready
      <4>3. content[h] # {}
        BY <3>3, <4>1, <1>2 DEF PacketNewFrame, StartsNewFrame, IInv, FidTracks
      <4>4. content' = content
        BY <3>3 DEF PacketNewFrame
      <4>5. FQ!Fill
        BY <3>3, <4>1, <4>2, <4>3, <4>4, <2>0 DEF PacketNewFrame, FQ!Fill, FQ!DataArrives
      <4> QED
        BY <4>5 DEF FQ!Next
    <3>4. CASE PacketStored(p)
      <4>1. Ready < Len(mainqueue) /\ mainqueue[Ready + 1] = h /\ h \in Buffers
        BY <3>2, <3>4 DEF PacketStored
      <4>2. \A b \in Buffers : b # h => content'[b] = content[b]
        BY <3>4, <2>0, <4>1 DEF PacketStored
      <4>3. IInv'
        BY <3>4, <1>2, PacketStoredPreserves
      <4>4. content' \in [Buffers -> SUBSET Data]
        BY <4>3 DEF IInv, TypeOK
      <4>5. CASE Completes(p, h)
        <5>1. Ready' = Ready + 1
          BY <4>5, <3>2, <3>4, <2>0 DEF PacketStored, Ready
        <5>2. state'[h] = "DONE"
          BY <4>5, <3>4, <4>1, <2>0 DEF PacketStored
        <5>3. bytesused'[h] > 0 /\ bytesused'[h] \in Int
          BY <5>2, <4>1, <4>3 DEF IInv, DoneNotEmpty, TypeOK
        <5>4. content'[h] # {}
          BY <5>3, <4>1, <4>3 DEF IInv, FidTracks
        <5>5. FQ!Fill
          BY <5>1, <5>4, <4>1, <4>2, <4>4, <3>4 DEF PacketStored, FQ!Fill, FQ!DataArrives
        <5> QED
          BY <5>5 DEF FQ!Next
      <4>6. CASE ~Completes(p, h)
        <5>1. Ready' = Ready
          BY <4>6, <3>4 DEF PacketStored, Ready
        <5>2. FQ!Write
          BY <5>1, <4>1, <4>2, <4>4, <3>4 DEF PacketStored, FQ!Write, FQ!DataArrives
        <5> QED
          BY <5>2 DEF FQ!Next
      <4> QED
        BY <4>5, <4>6
    <3> QED
      BY <2>4, <3>1, <3>3, <3>4 DEF VideoComplete
  <2>5. CASE FollowZeroedHead \/ UNCHANGED vars
    BY <2>5 DEF FollowZeroedHead, vars, queueVars, Ready, FQ!vars
  <2> QED
    BY <1>2, <2>1, <2>2, <2>3, <2>4, <2>5 DEF Next, FQ!Next
<1> QED
  BY <1>1, <1>2, QueueInvariant, PTL DEF Spec, FQ!Spec, ImplementsFrameQueue
=============================================================================
