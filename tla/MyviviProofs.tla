---------------------------- MODULE MyviviProofs ----------------------------
(***************************************************************************)
(* Proofs about the virtual camera, for any number of buffers and any      *)
(* sizes of an image.                                                      *)
(***************************************************************************)
EXTENDS Myvivi, FiniteSetTheorems, SequenceTheorems, TLAPS

-----------------------------------------------------------------------------
(* Lists *)

(* How many integers there are from a to b. *)
LEMMA IntervalSize ==
  ASSUME NEW a \in Int, NEW b \in Int, a <= b + 1
  PROVE  Cardinality(a .. b) = b - a + 1
<1>1. Cardinality(a .. b) = IF a > b THEN 0 ELSE b - a + 1
  BY FS_Interval
<1>2. CASE a > b
  <2>1. b - a + 1 = 0
    BY <1>2
  <2> QED
    BY <1>1, <1>2, <2>1
<1>3. CASE ~(a > b)
  BY <1>1, <1>3, Zenon
<1> QED
  BY <1>2, <1>3

(***************************************************************************)
(* If the entries that stay are those after the first a, what is left is   *)
(* the list without the first a entries.                                   *)
(***************************************************************************)
LEMMA SublistIsEnd ==
  ASSUME NEW T, NEW s \in Seq(T), NEW S, NEW a \in 0 .. Len(s),
         \A i \in 1 .. Len(s) : s[i] \in S <=> i > a
  PROVE  Sublist(s, S) = [k \in 1 .. Len(s) - a |-> s[a + k]]
<1> DEFINE Places == {i \in 1 .. Len(s) : s[i] \in S}
           Upto(i) == {j \in Places : j <= i}
<1>1. Places = a + 1 .. Len(s)
  OBVIOUS
<1>2. Cardinality(Places) = Len(s) - a
  <2>1. a + 1 \in Int /\ Len(s) \in Int /\ a + 1 <= Len(s) + 1 /\ Len(s) - (a + 1) + 1 = Len(s) - a
    OBVIOUS
  <2>2. Cardinality(a + 1 .. Len(s)) = Len(s) - (a + 1) + 1
    BY <2>1, IntervalSize
  <2> HIDE DEF Places
  <2> QED
    BY <1>1, <2>1, <2>2, Zenon
<1>3. ASSUME NEW i \in Places PROVE Cardinality(Upto(i)) = i - a
  <2>1. Upto(i) = a + 1 .. i
    BY <1>1
  <2>2. a + 1 \in Int /\ i \in Int /\ a + 1 <= i + 1 /\ i - (a + 1) + 1 = i - a
    BY <1>1
  <2>3. Cardinality(a + 1 .. i) = i - (a + 1) + 1
    BY <2>2, IntervalSize
  <2> HIDE DEF Upto
  <2> QED
    BY <2>1, <2>2, <2>3, Zenon
<1>4. ASSUME NEW k \in 1 .. Len(s) - a
      PROVE  (CHOOSE i \in Places : Cardinality(Upto(i)) = k) = a + k
  <2> HIDE DEF Places, Upto
  <2>1. a + k \in Places /\ Cardinality(Upto(a + k)) = k
    BY <1>1, <1>3
  <2>2. \A i \in Places : Cardinality(Upto(i)) = k => i = a + k
    BY <1>1, <1>3
  <2> QED
    BY <2>1, <2>2
<1>5. Sublist(s, S) = [k \in 1 .. Cardinality(Places) |->
                         s[CHOOSE i \in Places : Cardinality(Upto(i)) = k]]
  BY DEF Sublist
<1> HIDE DEF Places, Upto
<1>6. Sublist(s, S) = [k \in 1 .. Len(s) - a |-> s[CHOOSE i \in Places : Cardinality(Upto(i)) = k]]
  BY <1>2, <1>5
<1> QED
  BY <1>4, <1>6

(* Nothing stays. *)
LEMMA SublistNone ==
  ASSUME NEW T, NEW s \in Seq(T), NEW S, \A i \in 1 .. Len(s) : s[i] \notin S
  PROVE  Sublist(s, S) = <<>>
<1>1. Sublist(s, S) = [k \in 1 .. Len(s) - Len(s) |-> s[Len(s) + k]]
  BY SublistIsEnd
<1> QED
  BY <1>1

(* All stay. *)
LEMMA SublistAll ==
  ASSUME NEW T, NEW s \in Seq(T), NEW S, \A i \in 1 .. Len(s) : s[i] \in S
  PROVE  Sublist(s, S) = s
<1>1. Sublist(s, S) = [k \in 1 .. Len(s) - 0 |-> s[0 + k]]
  BY SublistIsEnd
<1> QED
  BY <1>1

(* All but the first stay. *)
LEMMA SublistTail ==
  ASSUME NEW T, NEW s \in Seq(T), s # <<>>, NEW S, \A i \in 1 .. Len(s) : s[i] \in S <=> i # 1
  PROVE  Sublist(s, S) = Tail(s)
<1>1. Len(s) >= 1
  OBVIOUS
<1> DEFINE a == 1
<1>2. a \in 0 .. Len(s) /\ \A i \in 1 .. Len(s) : s[i] \in S <=> i > a
  BY <1>1
<1> HIDE DEF a
<1>3. Sublist(s, S) = [k \in 1 .. Len(s) - a |-> s[a + k]]
  BY <1>2, SublistIsEnd
<1>4. /\ Tail(s) \in Seq(T) /\ Len(Tail(s)) = Len(s) - 1
      /\ \A k \in 1 .. Len(s) - 1 : Tail(s)[k] = s[k + 1]
  BY <1>1
<1>5. /\ Sublist(s, S) \in Seq(T) /\ Len(Sublist(s, S)) = Len(s) - 1
      /\ \A k \in 1 .. Len(s) - 1 : Sublist(s, S)[k] = s[k + 1]
  BY <1>1, <1>3 DEF a
<1> QED
  BY <1>4, <1>5, SeqEqual

(* A list with one more entry at its front. *)
LEMMA OneInFront ==
  ASSUME NEW T, NEW s \in Seq(T), NEW x \in T
  PROVE  /\ <<x>> \o s \in Seq(T) /\ <<x>> \o s # <<>>
         /\ Len(<<x>> \o s) = Len(s) + 1
         /\ Head(<<x>> \o s) = x /\ Tail(<<x>> \o s) = s
         /\ \A i \in 1 .. Len(s) + 1 : (<<x>> \o s)[i] = IF i = 1 THEN x ELSE s[i - 1]
OBVIOUS

LEMMA NoneInFront ==
  ASSUME NEW T, NEW s \in Seq(T)
  PROVE  <<>> \o s = s
OBVIOUS

-----------------------------------------------------------------------------
(* The invariant *)

(* videobuf's list, without and with a buffer of read() in front of it. *)
LEMMA PipelineIs ==
  ASSUME TypeOK
  PROVE  /\ Pipeline \in Seq(Buffers)
         /\ read_buf = NULL => Pipeline = stream
         /\ read_buf # NULL => Pipeline # <<>> /\ Head(Pipeline) = read_buf /\ Tail(Pipeline) = stream
<1>1. stream \in Seq(Buffers)
  BY DEF TypeOK
<1>2. CASE read_buf = NULL
  BY <1>1, <1>2, NoneInFront DEF Pipeline
<1>3. CASE read_buf # NULL
  <2>1. read_buf \in Buffers /\ Pipeline = <<read_buf>> \o stream
    BY <1>3 DEF TypeOK, Pipeline
  <2> QED
    BY <1>1, <1>3, <2>1, OneInFront
<1> QED
  BY <1>2, <1>3

(* The state of the device while it is not open, or has no buffer queued. *)
LEMMA NothingQueued ==
  ASSUME ~streaming, ~reading, read_buf = NULL, stream = <<>>, local = <<>>,
         \A b \in Buffers : state[b] = "NEEDS_INIT", call = "none"
  PROVE  EachOnce /\ ModesExclude /\ WaitsForOldest
<1>1. Pipeline = <<>>
  BY DEF Pipeline
<1>2. EachOnce
  BY <1>1 DEF EachOnce
<1>3. ModesExclude
  BY DEF ModesExclude
<1>4. WaitsForOldest
  BY DEF WaitsForOldest
<1> QED
  BY <1>2, <1>3, <1>4

(* The values most variables start from have their types. *)
LEMMA StartTypes == 0 \in 0 .. MaxBufs /\ 0 \in 0 .. MaxStrays /\ <<>> \in Seq(Buffers)
<1>1. 0 \in 0 .. MaxBufs /\ 0 \in 0 .. MaxStrays
  BY MyviviAssumption
<1> QED
  BY <1>1

(* The driver is loaded: no open device and no buffer. *)
LEMMA InitEstablishes == Init => VInv
<1> SUFFICES ASSUME Init PROVE VInv
  OBVIOUS
<1>1. TypeOK
  BY StartTypes DEF Init, TypeOK
<1>2. QuietWhenStopped /\ CarefulIsSafe
  BY DEF Init, QuietWhenStopped, CarefulIsSafe
<1>3. EachOnce /\ ModesExclude /\ WaitsForOldest
  BY NothingQueued DEF Init
<1>4. RoomForImage
  BY DEF Init, RoomForImage
<1> QED
  BY <1>1, <1>2, <1>3, <1>4 DEF VInv

(***************************************************************************)
(* videobuf_queue_cancel only removes QUEUED buffers, but that leaves      *)
(* nothing on the list of the timer.                                       *)
(***************************************************************************)
LEMMA CancelEmpties ==
  ASSUME VInv, ~broken, streaming \/ reading, Cancel
  PROVE  local' = <<>>
<1>1. timer /\ TypeOK /\ EachOnce /\ OneAhead
  BY DEF VInv, ModesExclude
<1>2. local \in Seq(Buffers) /\ Pipeline \in Seq(Buffers)
  BY <1>1, PipelineIs DEF TypeOK
<1>3. ASSUME NEW i \in 1 .. Len(local) PROVE local[i] \notin Buffers \ (Allocated \cap InState("QUEUED"))
  <2>1. local[i] \in Buffers /\ state[local[i]] = "QUEUED"
    BY <1>1, <1>2 DEF OneAhead
  <2>2. \E j \in 1 .. Len(Pipeline) : local[i] = Pipeline[j]
    <3>1. CASE local = Pipeline
      BY <3>1
    <3>2. CASE Pipeline # <<>> /\ local = Tail(Pipeline)
      <4>1. i + 1 \in 1 .. Len(Pipeline) /\ local[i] = Pipeline[i + 1]
        BY <1>2, <3>2
      <4> QED
        BY <4>1
    <3> QED
      BY <1>1, <3>1, <3>2 DEF OneAhead
  <2>3. local[i] \in Allocated
    BY <1>1, <2>2 DEF EachOnce
  <2> QED
    BY <2>1, <2>3 DEF InState
<1>4. Sublist(local, Buffers \ (Allocated \cap InState("QUEUED"))) = <<>>
  BY <1>2, <1>3, SublistNone
<1> QED
  BY <1>4 DEF Cancel

(* What VIDIOC_STREAMOFF, munmap and close leave of a stream: nothing. *)
LEMMA CancelStops ==
  ASSUME VInv, ~broken, streaming \/ reading, Cancel, call' = "none", read_buf' = NULL
  PROVE  /\ local' = <<>> /\ stream' = <<>> /\ state' \in [Buffers -> {"NEEDS_INIT"}]
         /\ streaming' = FALSE /\ reading' = FALSE
         /\ (EachOnce /\ ModesExclude /\ WaitsForOldest)'
<1>1. local' = <<>>
  BY CancelEmpties
<1>2. /\ stream' = <<>> /\ state' \in [Buffers -> {"NEEDS_INIT"}]
      /\ streaming' = FALSE /\ reading' = FALSE
  BY DEF Cancel
<1>3. Buffers' = Buffers
  BY DEF Buffers
<1>4. Pipeline' = <<>>
  BY <1>2 DEF Pipeline
<1>5. EachOnce'
  BY <1>4 DEF EachOnce
<1>6. ModesExclude'
  BY <1>1, <1>2, <1>3 DEF ModesExclude
<1>7. WaitsForOldest'
  BY DEF WaitsForOldest
<1> QED
  BY <1>1, <1>2, <1>5, <1>6, <1>7

(* myvivi_open starts with an empty queue and nothing on the static list. *)
LEMMA OpenPreserves ==
  ASSUME VInv, Open
  PROVE  VInv'
<1>1. /\ TypeOK /\ QuietWhenStopped /\ ModesExclude /\ WaitsForOldest
      /\ ~broken /\ ~timer
  BY DEF Open, VInv
<1>2. local = <<>> /\ (\A b \in Buffers : state[b] = "NEEDS_INIT") /\ call = "none"
  BY <1>1 DEF QuietWhenStopped, ModesExclude, WaitsForOldest, TypeOK
<1>3. TypeOK'
  BY <1>1, StartTypes DEF Open, TypeOK
<1>4. /\ stream' = <<>> /\ streaming' = FALSE /\ reading' = FALSE /\ read_buf' = NULL
      /\ local' = <<>> /\ state' = state /\ call' = "none" /\ ~broken' /\ count' = 0
  BY <1>1, <1>2 DEF Open
<1>5. Pipeline' = <<>>
  BY <1>4 DEF Pipeline
<1>6. EachOnce'
  BY <1>5 DEF EachOnce
<1>7. ModesExclude'
  BY <1>2, <1>4 DEF ModesExclude, Buffers, Open
<1>8. WaitsForOldest' /\ RoomForImage'
  BY <1>4 DEF WaitsForOldest, RoomForImage, Allocated
<1>9. QuietWhenStopped' /\ CarefulIsSafe'
  BY <1>4 DEF QuietWhenStopped, CarefulIsSafe
<1> QED
  BY <1>3, <1>6, <1>7, <1>8, <1>9 DEF VInv

(* A second open is misuse, and nothing happens after it. *)
LEMMA OpenAgainPreserves ==
  ASSUME VInv, OpenAgain
  PROVE  VInv'
<1>1. TypeOK /\ QuietWhenStopped
  BY DEF VInv
<1>2. broken' = TRUE /\ misused' = TRUE
  BY DEF OpenAgain
<1>3. TypeOK' /\ QuietWhenStopped'
  BY <1>1 DEF OpenAgain, TypeOK, QuietWhenStopped, bufVars, queueVars, Buffers
<1> QED
  BY <1>2, <1>3 DEF VInv, CarefulIsSafe

(* myvivi_close leaves nothing behind that the next open would find. *)
LEMMA ClosePreserves ==
  ASSUME VInv, Close
  PROVE  VInv'
<1>1. /\ TypeOK /\ QuietWhenStopped /\ CarefulIsSafe /\ ModesExclude /\ EachOnce /\ WaitsForOldest
      /\ ~broken /\ timer /\ call = "none"
  BY DEF Close, Calls, VInv
<1>2. /\ timer' = FALSE /\ call' = "none" /\ broken' = broken /\ misused' = misused /\ count' = 0
  BY <1>1 DEF Close
<1>3. RoomForImage' /\ CarefulIsSafe'
  BY <1>1, <1>2 DEF RoomForImage, CarefulIsSafe
<1>4. CASE streaming \/ reading
  <2>1. Cancel /\ read_buf' = NULL
    BY <1>1, <1>4 DEF Close, ModesExclude
  <2>2. /\ local' = <<>> /\ stream' = <<>> /\ state' \in [Buffers -> {"NEEDS_INIT"}]
        /\ streaming' = FALSE /\ reading' = FALSE
        /\ (EachOnce /\ ModesExclude /\ WaitsForOldest)'
    BY <1>1, <1>2, <1>4, <2>1, CancelStops
  <2>3. TypeOK'
    BY <1>1, <1>2, <2>1, <2>2, StartTypes DEF Close, TypeOK
  <2>4. QuietWhenStopped'
    BY <2>2 DEF QuietWhenStopped
  <2> QED
    BY <1>3, <2>2, <2>3, <2>4 DEF VInv
<1>5. CASE ~(streaming \/ reading)
  <2>1. /\ stream' = stream /\ local' = local /\ streaming' = streaming /\ reading' = reading
        /\ state' = [b \in Buffers |-> "NEEDS_INIT"] /\ read_buf' = read_buf
    BY <1>5 DEF Close
  <2>2. local = <<>> /\ read_buf = NULL
    BY <1>1, <1>5 DEF ModesExclude
  <2>3. TypeOK'
    BY <1>1, <1>2, <2>1, StartTypes DEF Close, TypeOK
  <2>4. EachOnce'
    BY <1>1, <1>2, <2>1 DEF EachOnce, Pipeline
  <2>5. ModesExclude'
    BY <1>1, <1>2, <1>5, <2>1, <2>2 DEF ModesExclude
  <2>6. WaitsForOldest' /\ QuietWhenStopped'
    BY <1>2, <2>1, <2>2 DEF WaitsForOldest, QuietWhenStopped
  <2> QED
    BY <1>3, <2>3, <2>4, <2>5, <2>6 DEF VInv
<1> QED
  BY <1>4, <1>5

(* VIDIOC_S_FMT: a format for which the buffers are too small is misuse. *)
LEMMA SFmtPreserves ==
  ASSUME VInv, NEW s \in Sizes, SFmt(s)
  PROVE  VInv'
<1>1. TypeOK /\ ModesExclude /\ EachOnce /\ WaitsForOldest /\ RoomForImage /\ QuietWhenStopped /\ ~broken
  BY DEF SFmt, Calls, VInv
<1>2. /\ misused' \in BOOLEAN /\ (misused' <=> misused \/ (count > 0 /\ s > bsize))
      /\ sizeimage' = s
      /\ UNCHANGED <<timer, bufVars, state, map, strays, size, queueVars, call, on, broken>>
  BY DEF SFmt
<1>3. TypeOK'
  BY <1>1, <1>2 DEF TypeOK, bufVars, queueVars
<1>4. RoomForImage'
  <2> SUFFICES ASSUME timer, ~misused' PROVE RoomForImage'
    BY <1>2 DEF RoomForImage
  <2>1. ~misused /\ (count > 0 => s <= bsize)
    BY <1>1, <1>2, MyviviAssumption DEF TypeOK
  <2> QED
    BY <1>1, <1>2, <2>1 DEF RoomForImage, Allocated, bufVars, queueVars
<1>5. EachOnce' /\ ModesExclude' /\ WaitsForOldest' /\ QuietWhenStopped' /\ CarefulIsSafe'
  BY <1>1, <1>2 DEF EachOnce, ModesExclude, OneAhead, WaitsForOldest, QuietWhenStopped, CarefulIsSafe,
                    Pipeline, Allocated, bufVars, queueVars
<1> QED
  BY <1>3, <1>4, <1>5 DEF VInv

(* VIDIOC_REQBUFS: the new buffers have room for an image of the format of now. *)
LEMMA ReqbufsPreserves ==
  ASSUME VInv, NEW n \in 1 .. MaxBufs, NEW mem \in {"MMAP", "USERPTR"}, Reqbufs(n, mem)
  PROVE  VInv'
<1>1. /\ TypeOK /\ ModesExclude /\ WaitsForOldest /\ RoomForImage
      /\ ~broken /\ timer /\ call = "none" /\ ~streaming /\ ~reading /\ stream = <<>>
  BY DEF Reqbufs, Calls, MmapSetup, CanFree, VInv
<1>2. local = <<>> /\ read_buf = NULL
  BY <1>1 DEF ModesExclude
<1>3. /\ count' = n /\ memory' = mem /\ bsize' = sizeimage /\ map' = [b \in Buffers |-> 0]
      /\ state' = [b \in Buffers |-> "NEEDS_INIT"] /\ size' = [b \in Buffers |-> 0]
      /\ UNCHANGED <<timer, sizeimage, strays, queueVars, call, on, broken, misused>>
  BY DEF Reqbufs, MmapSetup
<1>4. TypeOK'
  <2>1. n \in 0 .. MaxBufs
    BY MyviviAssumption
  <2> QED
    BY <1>1, <1>3, <2>1 DEF TypeOK, queueVars
<1>5. Pipeline' = <<>>
  BY <1>1, <1>2, <1>3 DEF Pipeline, queueVars
<1>6. EachOnce'
  BY <1>5 DEF EachOnce
<1>7. ModesExclude' /\ WaitsForOldest' /\ QuietWhenStopped' /\ CarefulIsSafe'
  BY <1>1, <1>2, <1>3 DEF ModesExclude, WaitsForOldest, QuietWhenStopped, CarefulIsSafe, queueVars
<1>8. RoomForImage'
  <2>1. sizeimage <= sizeimage
    BY <1>1, MyviviAssumption DEF TypeOK
  <2>2. \A b \in Allocated' : map'[b] = 0
    BY <1>3, MyviviAssumption DEF Allocated, Buffers
  <2> QED
    BY <1>1, <1>3, <2>1, <2>2 DEF RoomForImage, queueVars
<1> QED
  BY <1>4, <1>6, <1>7, <1>8 DEF VInv

(* A mapping that is shorter than the buffer is misuse; any other has room for an image. *)
LEMMA MmapPreserves ==
  ASSUME VInv, NEW b \in Buffers, NEW len \in MapLens, Mmap(b, len)
  PROVE  VInv'
<1>1. TypeOK /\ ModesExclude /\ EachOnce /\ WaitsForOldest /\ RoomForImage /\ QuietWhenStopped /\ ~broken
  BY DEF Mmap, Calls, VInv
<1>2. /\ map' = [map EXCEPT ![b] = len]
      /\ misused' \in BOOLEAN /\ (misused' <=> misused \/ len < bsize)
      /\ UNCHANGED <<timer, sizeimage, bufVars, state, size, queueVars, call, on, broken>>
  BY DEF Mmap
<1>3. strays' \in 0 .. MaxStrays
  BY <1>1, MyviviAssumption DEF Mmap, TypeOK
<1>4. TypeOK'
  BY <1>1, <1>2, <1>3 DEF TypeOK, bufVars, queueVars
<1>5. RoomForImage'
  <2> SUFFICES ASSUME timer, ~misused' PROVE RoomForImage'
    BY <1>2 DEF RoomForImage
  <2>1. ~misused /\ bsize <= len /\ len > 0
    BY <1>1, <1>2, MyviviAssumption DEF TypeOK
  <2>2. \A c \in Buffers : map'[c] = IF c = b THEN len ELSE map[c]
    BY <1>1, <1>2 DEF TypeOK
  <2>3. \A i \in 1 .. Len(stream) : stream[i] \in Buffers
    BY <1>1 DEF TypeOK
  <2>4. Allocated \subseteq Buffers /\ Allocated' = Allocated
    BY <1>1, <1>2, MyviviAssumption DEF TypeOK, Allocated, Buffers, bufVars
  <2> QED
    BY <1>1, <1>2, <2>1, <2>2, <2>3, <2>4 DEF RoomForImage, bufVars, queueVars
<1>6. EachOnce' /\ ModesExclude' /\ WaitsForOldest' /\ QuietWhenStopped' /\ CarefulIsSafe'
  BY <1>1, <1>2 DEF EachOnce, ModesExclude, OneAhead, WaitsForOldest, QuietWhenStopped, CarefulIsSafe,
                    Pipeline, Allocated, bufVars, queueVars
<1> QED
  BY <1>4, <1>5, <1>6 DEF VInv

(* munmap stops the stream; between QBUF and STREAMON it is misuse, unless the mapping is a stray. *)
LEMMA MunmapPreserves ==
  ASSUME VInv,
         \/ MunmapStray
         \/ \E b \in Buffers : Munmap(b)
  PROVE  VInv'
<1>1. /\ TypeOK /\ ModesExclude /\ EachOnce /\ WaitsForOldest /\ RoomForImage /\ QuietWhenStopped
      /\ ~broken /\ timer /\ call = "none"
  BY DEF Munmap, MunmapStray, Calls, VInv
<1>2. /\ misused' \in BOOLEAN /\ (misused => misused')
      /\ \A b \in Buffers : map'[b] \in {0, map[b]}
      /\ map' = map \/ (~streaming /\ stream # <<>> => misused')
      /\ map' \in [Buffers -> MapLens \cup {0}] /\ strays' \in 0 .. MaxStrays
      /\ UNCHANGED <<timer, sizeimage, bufVars, size, read_buf, call, on, broken>>
  <2>1. CASE MunmapStray
    BY <1>1, <2>1, MyviviAssumption DEF MunmapStray, TypeOK
  <2>2. ASSUME NEW b \in Buffers, Munmap(b)
        PROVE  /\ misused' = (misused \/ (~streaming /\ stream # <<>>))
               /\ map' = [map EXCEPT ![b] = 0] /\ strays' = strays
               /\ UNCHANGED <<timer, sizeimage, bufVars, size, read_buf, call, on, broken>>
    BY <2>2 DEF Munmap
  <2> QED
    BY <1>1, <2>1, <2>2 DEF TypeOK
<1>3. Allocated \subseteq Buffers /\ Allocated' = Allocated
  BY <1>1, <1>2, MyviviAssumption DEF TypeOK, Allocated, Buffers, bufVars
<1>4. CASE streaming
  <2>1. Cancel /\ read_buf' = NULL
    BY <1>1, <1>2, <1>4 DEF Munmap, MunmapStray, ModesExclude
  <2>2. /\ local' = <<>> /\ stream' = <<>> /\ state' \in [Buffers -> {"NEEDS_INIT"}]
        /\ streaming' = FALSE /\ reading' = FALSE
        /\ (EachOnce /\ ModesExclude /\ WaitsForOldest)'
    BY <1>1, <1>2, <1>4, <2>1, CancelStops
  <2>3. TypeOK'
    BY <1>1, <1>2, <2>2, StartTypes DEF TypeOK, bufVars
  <2>4. QuietWhenStopped' /\ CarefulIsSafe'
    BY <1>1, <1>2, <2>2 DEF QuietWhenStopped, CarefulIsSafe
  <2>5. RoomForImage'
    BY <1>1, <1>2, <1>3, <2>2 DEF RoomForImage, bufVars
  <2> QED
    BY <2>2, <2>3, <2>4, <2>5 DEF VInv
<1>5. CASE ~streaming
  <2>1. UNCHANGED <<stream, streaming, reading, local, state>>
    BY <1>5 DEF Munmap, MunmapStray
  <2>2. TypeOK'
    BY <1>1, <1>2, <2>1 DEF TypeOK, bufVars
  <2>3. RoomForImage'
    <3>1. CASE map' = map
      BY <1>1, <1>2, <1>3, <2>1, <3>1 DEF RoomForImage, bufVars
    <3>2. CASE stream = <<>> \/ misused'
      BY <1>1, <1>2, <1>3, <2>1, <3>2 DEF RoomForImage, bufVars
    <3> QED
      BY <1>2, <1>5, <3>1, <3>2
  <2>4. EachOnce' /\ ModesExclude' /\ WaitsForOldest' /\ QuietWhenStopped' /\ CarefulIsSafe'
    BY <1>1, <1>2, <2>1 DEF EachOnce, ModesExclude, OneAhead, WaitsForOldest, QuietWhenStopped,
                            CarefulIsSafe, Pipeline, Allocated, bufVars
  <2> QED
    BY <2>2, <2>3, <2>4 DEF VInv
<1> QED
  BY <1>4, <1>5

(* VIDIOC_STREAMOFF *)
LEMMA StreamoffPreserves ==
  ASSUME VInv, Streamoff
  PROVE  VInv'
<1>1. /\ TypeOK /\ ModesExclude /\ RoomForImage /\ ~broken /\ timer /\ call = "none" /\ streaming
      /\ Cancel
  BY DEF Streamoff, Calls, VInv
<1>2. UNCHANGED <<timer, sizeimage, bufVars, map, strays, size, read_buf, call, on, broken, misused>>
  BY DEF Streamoff
<1>3. read_buf' = NULL
  BY <1>1, <1>2 DEF ModesExclude
<1>4. /\ local' = <<>> /\ stream' = <<>> /\ state' \in [Buffers -> {"NEEDS_INIT"}]
      /\ streaming' = FALSE /\ reading' = FALSE
      /\ (EachOnce /\ ModesExclude /\ WaitsForOldest)'
  BY <1>1, <1>2, <1>3, CancelStops
<1>5. TypeOK'
  BY <1>1, <1>2, <1>4, StartTypes DEF TypeOK, bufVars
<1>6. QuietWhenStopped' /\ CarefulIsSafe'
  BY <1>1, <1>2, <1>4 DEF QuietWhenStopped, CarefulIsSafe
<1>7. RoomForImage'
  BY <1>1, <1>2, <1>4 DEF RoomForImage, Allocated, bufVars
<1> QED
  BY <1>4, <1>5, <1>6, <1>7 DEF VInv

(* A buffer VIDIOC_QBUF accepts is not on the list of videobuf. *)
LEMMA NotQueuedYet ==
  ASSUME VInv, ~broken, timer, ~reading, NEW b \in Buffers, state[b] \in {"NEEDS_INIT", "IDLE"}
  PROVE  \A i \in 1 .. Len(stream) : stream[i] # b
<1>1. TypeOK /\ ModesExclude
  BY DEF VInv
<1>2. Pipeline = stream /\ stream \in Seq(Buffers)
  BY <1>1, PipelineIs DEF ModesExclude, TypeOK
<1>3. CASE streaming /\ local = stream
  BY <1>1, <1>2, <1>3 DEF ModesExclude, OneAhead
<1>4. CASE streaming /\ stream # <<>> /\ local = Tail(stream) /\ state[Head(stream)] = "DONE"
  <2> SUFFICES ASSUME NEW i \in 1 .. Len(stream) PROVE stream[i] # b
    OBVIOUS
  <2>1. CASE i = 1
    BY <1>2, <1>4, <2>1
  <2>2. CASE i # 1
    <3>1. i - 1 \in 1 .. Len(local) /\ local[i - 1] = stream[i]
      BY <1>2, <1>4, <2>2
    <3>2. state[local[i - 1]] = "QUEUED"
      BY <1>1, <1>4, <3>1 DEF ModesExclude, OneAhead
    <3> QED
      BY <3>1, <3>2
  <2> QED
    BY <2>1, <2>2
<1>5. CASE ~streaming
  BY <1>1, <1>5 DEF ModesExclude
<1> QED
  BY <1>1, <1>2, <1>3, <1>4, <1>5 DEF ModesExclude, OneAhead

(***************************************************************************)
(* VIDIOC_QBUF appends a buffer that is not on the list of videobuf yet,   *)
(* and while streaming appends it to the list of the timer too.            *)
(***************************************************************************)
LEMMA QbufPreserves ==
  ASSUME VInv, NEW b \in Buffers, Qbuf(b)
  PROVE  VInv'
<1>1. /\ TypeOK /\ ModesExclude /\ EachOnce /\ RoomForImage /\ QuietWhenStopped
      /\ ~broken /\ timer /\ call = "none" /\ ~reading
      /\ b \in Allocated /\ state[b] \in {"NEEDS_INIT", "IDLE"} /\ (memory = "MMAP" => map[b] > 0)
  BY DEF Qbuf, Calls, VInv
<1>2. /\ misused' \in BOOLEAN /\ (misused' <=> misused \/ memory = "USERPTR")
      /\ stream' = Append(stream, b)
      /\ size' = [c \in Buffers |-> IF c = b THEN sizeimage ELSE size[c]]
      /\ UNCHANGED <<timer, sizeimage, bufVars, map, strays, streaming, reading, read_buf, call, on, broken>>
  BY DEF Qbuf, Prepare
<1>3. read_buf = NULL /\ Pipeline = stream /\ stream \in Seq(Buffers) /\ local \in Seq(Buffers)
  BY <1>1, PipelineIs DEF ModesExclude, TypeOK
<1>4. stream' \in Seq(Buffers) /\ Pipeline' = Append(stream, b)
  <2>1. stream' \in Seq(Buffers) /\ read_buf' = NULL
    BY <1>2, <1>3
  <2> QED
    BY <1>2, <2>1, NoneInFront DEF Pipeline
<1>5. \A i \in 1 .. Len(stream) : stream[i] # b
  BY <1>1, NotQueuedYet
<1>6. EachOnce'
  <2>1. \A i, j \in 1 .. Len(Append(stream, b)) : Append(stream, b)[i] = Append(stream, b)[j] => i = j
    BY <1>1, <1>3, <1>5 DEF EachOnce
  <2>2. \A i \in 1 .. Len(Append(stream, b)) : Append(stream, b)[i] \in Allocated
    BY <1>1, <1>3 DEF EachOnce
  <2> QED
    BY <1>2, <1>4, <2>1, <2>2 DEF EachOnce, Allocated, bufVars
<1>7. RoomForImage'
  <2> SUFFICES ASSUME ~misused' PROVE RoomForImage'
    BY DEF RoomForImage
  <2>1. ~misused /\ memory = "MMAP" /\ map[b] > 0
    BY <1>1, <1>2 DEF TypeOK
  <2>2. count > 0 /\ sizeimage <= bsize
    BY <1>1, <2>1 DEF RoomForImage, Allocated, TypeOK
  <2>3. \A i \in 1 .. Len(stream) : map[stream[i]] > 0 /\ size[stream[i]] <= bsize /\ stream[i] \in Buffers
    BY <1>1, <1>3, <2>1 DEF RoomForImage
  <2>4. \A i \in 1 .. Len(stream') : stream'[i] = b \/ (i \in 1 .. Len(stream) /\ stream'[i] = stream[i])
    BY <1>2, <1>3
  <2>5. \A i \in 1 .. Len(stream') : map[stream'[i]] > 0 /\ size'[stream'[i]] <= bsize
    BY <1>2, <2>1, <2>2, <2>3, <2>4
  <2> QED
    BY <1>1, <1>2, <2>1, <2>2, <2>5 DEF RoomForImage, Allocated, bufVars
<1>8. WaitsForOldest' /\ CarefulIsSafe'
  BY <1>1, <1>2 DEF WaitsForOldest, CarefulIsSafe
<1>9. size' \in [Buffers -> Sizes \cup {0}]
  BY <1>1, <1>2 DEF TypeOK
<1>10. CASE streaming
  <2>1. local' = local \o <<b>> /\ state' = [state EXCEPT ![b] = "QUEUED"]
    BY <1>10 DEF Qbuf, BufferQueue
  <2>2. local' = Append(local, b) /\ local' \in Seq(Buffers)
    BY <1>3, <2>1
  <2>3. TypeOK'
    BY <1>1, <1>2, <1>4, <1>9, <2>1, <2>2 DEF TypeOK, bufVars
  <2>4. state'[b] = "QUEUED" /\ \A c \in Buffers : c # b => state'[c] = state[c]
    BY <1>1, <2>1 DEF TypeOK
  <2>5. OneAhead'
    <3>1. ASSUME NEW i \in 1 .. Len(local') PROVE state'[local'[i]] = "QUEUED"
      <4>1. local'[i] = b \/ (i \in 1 .. Len(local) /\ local'[i] = local[i])
        BY <1>3, <2>2
      <4>2. \A k \in 1 .. Len(local) : state[local[k]] = "QUEUED" /\ local[k] \in Buffers
        BY <1>1, <1>3, <1>10 DEF ModesExclude, OneAhead
      <4> QED
        BY <2>4, <4>1, <4>2
    <3>2. CASE local = stream
      BY <1>4, <2>2, <3>1, <3>2 DEF OneAhead
    <3>3. CASE stream # <<>> /\ local = Tail(stream) /\ state[Head(stream)] = "DONE"
      <4>1. Append(stream, b) # <<>> /\ Head(Append(stream, b)) = Head(stream)
        BY <1>3, <3>3
      <4>2. Tail(Append(stream, b)) = Append(Tail(stream), b)
        BY <1>3, <3>3
      <4>3. Head(stream) \in Buffers /\ Head(stream) # b
        BY <1>3, <1>5, <3>3
      <4> QED
        BY <1>4, <2>2, <2>4, <3>1, <3>3, <4>1, <4>2, <4>3 DEF OneAhead
    <3> QED
      BY <1>1, <1>3, <1>10, <3>2, <3>3 DEF ModesExclude, OneAhead
  <2>6. ModesExclude' /\ QuietWhenStopped'
    BY <1>1, <1>2, <1>3, <1>10, <2>5 DEF ModesExclude, QuietWhenStopped
  <2> QED
    BY <1>6, <1>7, <1>8, <2>3, <2>6 DEF VInv
<1>11. CASE ~streaming
  <2>1. local' = local /\ state' = [state EXCEPT ![b] = "PREPARED"]
    BY <1>11 DEF Qbuf
  <2>2. TypeOK'
    BY <1>1, <1>2, <1>4, <1>9, <2>1 DEF TypeOK, bufVars
  <2>3. \A c \in Buffers : state'[c] = IF c = b THEN "PREPARED" ELSE state[c]
    BY <1>1, <2>1 DEF TypeOK
  <2>4. \A i \in 1 .. Len(stream') : stream'[i] = b \/ (i \in 1 .. Len(stream) /\ stream'[i] = stream[i])
    BY <1>2, <1>3
  <2>5. \A i \in 1 .. Len(stream) : state[stream[i]] = "PREPARED" /\ stream[i] \in Buffers
    BY <1>1, <1>3, <1>11 DEF ModesExclude
  <2>6. \A i \in 1 .. Len(stream') : state'[stream'[i]] = "PREPARED"
    BY <2>3, <2>4, <2>5
  <2>7. /\ local = <<>> /\ \A c \in Buffers : state'[c] \in {"NEEDS_INIT", "PREPARED"}
    BY <1>1, <1>11, <2>3 DEF ModesExclude
  <2>8. ModesExclude' /\ QuietWhenStopped'
    BY <1>1, <1>2, <1>3, <1>11, <2>1, <2>6, <2>7 DEF ModesExclude, QuietWhenStopped
  <2> QED
    BY <1>6, <1>7, <1>8, <2>2, <2>8 DEF VInv
<1> QED
  BY <1>10, <1>11

(***************************************************************************)
(* VIDIOC_STREAMON gives the timer what is PREPARED, and that is all there *)
(* is on the list of videobuf.                                             *)
(***************************************************************************)
LEMMA StreamonPreserves ==
  ASSUME VInv, Streamon
  PROVE  VInv'
<1>1. /\ TypeOK /\ ModesExclude /\ EachOnce /\ RoomForImage
      /\ ~broken /\ timer /\ call = "none" /\ ~reading /\ ~streaming
  BY DEF Streamon, Calls, VInv
<1>2. /\ streaming' = TRUE /\ local' = local \o Sublist(stream, InState("PREPARED"))
      /\ state' = [b \in Buffers |-> IF b \in InState("PREPARED") THEN "QUEUED" ELSE state[b]]
      /\ UNCHANGED <<timer, sizeimage, bufVars, map, strays, size, stream, reading, read_buf, call, on,
                      broken, misused>>
  BY DEF Streamon, BufferQueue
<1>3. read_buf = NULL /\ Pipeline = stream /\ stream \in Seq(Buffers) /\ local = <<>>
  BY <1>1, PipelineIs DEF ModesExclude, TypeOK
<1>4. \A i \in 1 .. Len(stream) : stream[i] \in InState("PREPARED")
  BY <1>1, <1>3 DEF ModesExclude, InState
<1>5. local' = stream
  <2>1. Sublist(stream, InState("PREPARED")) = stream
    BY <1>3, <1>4, SublistAll
  <2> QED
    BY <1>2, <1>3, <2>1
<1>6. Pipeline' = stream
  BY <1>2, <1>3, NoneInFront DEF Pipeline
<1>7. TypeOK'
  <2>1. state' \in [Buffers -> {"NEEDS_INIT", "PREPARED", "QUEUED", "DONE", "IDLE"}]
    BY <1>1, <1>2 DEF TypeOK
  <2> QED
    BY <1>1, <1>2, <1>3, <1>5, <2>1 DEF TypeOK, bufVars
<1>8. OneAhead'
  <2>1. \A i \in 1 .. Len(stream) : state'[stream[i]] = "QUEUED"
    BY <1>2, <1>3, <1>4
  <2> QED
    BY <1>5, <1>6, <2>1 DEF OneAhead
<1>9. ModesExclude' /\ QuietWhenStopped'
  BY <1>1, <1>2, <1>3, <1>8 DEF ModesExclude, QuietWhenStopped
<1>10. EachOnce'
  BY <1>1, <1>2, <1>3, <1>6 DEF EachOnce, Allocated, bufVars
<1>11. WaitsForOldest' /\ CarefulIsSafe' /\ RoomForImage'
  BY <1>1, <1>2 DEF WaitsForOldest, CarefulIsSafe, RoomForImage, Allocated, bufVars
<1> QED
  BY <1>7, <1>9, <1>10, <1>11 DEF VInv

(***************************************************************************)
(* A buffer of a stream that is DONE is the first of the list of videobuf, *)
(* and the list of the timer is the rest.                                  *)
(***************************************************************************)
LEMMA OnlyFirstIsDone ==
  ASSUME VInv, ~broken, streaming, stream # <<>>, state[Head(stream)] = "DONE"
  PROVE  /\ Pipeline = stream /\ local = Tail(stream)
         /\ Sublist(stream, Buffers \ {Head(stream)}) = Tail(stream)
<1>1. TypeOK /\ ModesExclude /\ EachOnce /\ OneAhead
  BY DEF VInv, ModesExclude
<1>2. read_buf = NULL /\ Pipeline = stream /\ stream \in Seq(Buffers)
  BY <1>1, PipelineIs DEF ModesExclude, TypeOK
<1>3. local # stream
  BY <1>1, <1>2 DEF OneAhead
<1>4. local = Tail(stream)
  BY <1>1, <1>2, <1>3 DEF OneAhead
<1>5. \A i \in 1 .. Len(stream) : stream[i] \in Buffers \ {Head(stream)} <=> i # 1
  BY <1>1, <1>2 DEF EachOnce
<1>6. Sublist(stream, Buffers \ {Head(stream)}) = Tail(stream)
  BY <1>2, <1>5, SublistTail
<1> QED
  BY <1>2, <1>4, <1>6

(* The end of VIDIOC_DQBUF: the first buffer goes, and what is left is QUEUED. *)
LEMMA TakePreserves ==
  ASSUME VInv, ~broken, streaming, stream # <<>>, Take(Head(stream)), call' = "none", on' \in Buffers \cup {NULL},
         UNCHANGED <<timer, sizeimage, bufVars, map, strays, size, streaming, reading, read_buf, local,
                     broken, misused>>
  PROVE  VInv'
<1>1. TypeOK /\ ModesExclude /\ EachOnce /\ OneAhead /\ RoomForImage /\ QuietWhenStopped /\ timer
  BY DEF VInv, ModesExclude
<1>2. /\ state[Head(stream)] = "DONE" /\ state' = [state EXCEPT ![Head(stream)] = "IDLE"]
      /\ stream' = Sublist(stream, Buffers \ {Head(stream)})
  BY DEF Take
<1>3. Pipeline = stream /\ local = Tail(stream) /\ stream' = Tail(stream)
  BY <1>2, OnlyFirstIsDone
<1>4. stream \in Seq(Buffers) /\ Head(stream) \in Buffers /\ Tail(stream) \in Seq(Buffers)
  BY <1>1 DEF TypeOK
<1>5. read_buf' = NULL
  BY <1>1 DEF ModesExclude
<1>6. Pipeline' = Tail(stream)
  BY <1>3, <1>4, <1>5, NoneInFront DEF Pipeline
<1>7. TypeOK'
  BY <1>1, <1>2, <1>3, <1>4 DEF TypeOK, bufVars
<1>8. \A i \in 1 .. Len(Tail(stream)) : i + 1 \in 1 .. Len(stream) /\ Tail(stream)[i] = stream[i + 1]
  BY <1>4
<1>9. EachOnce'
  <2>1. \A i, j \in 1 .. Len(Tail(stream)) : Tail(stream)[i] = Tail(stream)[j] => i = j
    <3> SUFFICES ASSUME NEW i \in 1 .. Len(Tail(stream)), NEW j \in 1 .. Len(Tail(stream)),
                        Tail(stream)[i] = Tail(stream)[j]
                 PROVE  i = j
      OBVIOUS
    <3>1. i + 1 = j + 1
      BY <1>1, <1>3, <1>8 DEF EachOnce
    <3> QED
      BY <3>1
  <2>2. \A i \in 1 .. Len(Tail(stream)) : Tail(stream)[i] \in Allocated
    BY <1>1, <1>3, <1>8 DEF EachOnce
  <2> QED
    BY <1>6, <2>1, <2>2 DEF EachOnce, Allocated, bufVars
<1>10. OneAhead'
  <2>1. ASSUME NEW i \in 1 .. Len(local) PROVE state'[local[i]] = "QUEUED"
    <3>1. state[local[i]] = "QUEUED" /\ local[i] \in Buffers
      BY <1>1, <1>3, <1>4 DEF OneAhead
    <3> QED
      BY <1>1, <1>2, <3>1 DEF TypeOK
  <2> QED
    BY <1>3, <1>6, <2>1 DEF OneAhead
<1>11. ModesExclude' /\ QuietWhenStopped'
  BY <1>1, <1>5, <1>10 DEF ModesExclude, QuietWhenStopped
<1>12. RoomForImage'
  BY <1>1, <1>3, <1>8 DEF RoomForImage, Allocated, bufVars
<1>13. WaitsForOldest' /\ CarefulIsSafe'
  BY DEF WaitsForOldest, CarefulIsSafe
<1> QED
  BY <1>7, <1>9, <1>11, <1>12, <1>13 DEF VInv

(* VIDIOC_DQBUF of a buffer that is ready. *)
LEMMA DqbufPreserves ==
  ASSUME VInv, Dqbuf
  PROVE  VInv'
<1>1. TypeOK
  BY DEF VInv
<1> QED
  BY <1>1, TakePreserves DEF Dqbuf, Calls, TypeOK

(* VIDIOC_DQBUF that has slept takes the buffer it slept on, which is still the first. *)
LEMMA SleptOnFirst ==
  ASSUME VInv, ~broken, call = "dqbuf", on # NULL
  PROVE  streaming /\ stream # <<>> /\ on = Head(stream)
<1>1. TypeOK /\ ModesExclude /\ WaitsForOldest
  BY DEF VInv
<1>2. streaming /\ Pipeline # <<>> /\ on = Head(Pipeline)
  BY <1>1 DEF WaitsForOldest
<1>3. Pipeline = stream
  BY <1>1, <1>2, PipelineIs DEF ModesExclude
<1> QED
  BY <1>2, <1>3

LEMMA DqbufWakesPreserves ==
  ASSUME VInv, DqbufWakes
  PROVE  VInv'
  BY SleptOnFirst, TakePreserves DEF DqbufWakes

(* To fall asleep and to wake up changes nothing but who waits for what. *)
LEMMA OnlyCallChanges ==
  ASSUME VInv, ~broken, call' \in {"none", "dqbuf", "poll"}, on' \in Buffers \cup {NULL}, timer,
         call' = "dqbuf" => streaming,
         call' = "poll" => on' # NULL,
         call' # "none" /\ on' # NULL => Pipeline # <<>> /\ on' = Head(Pipeline),
         UNCHANGED <<timer, sizeimage, bufVars, state, map, strays, size, queueVars, broken, misused>>
  PROVE  VInv'
<1>1. TypeOK /\ ModesExclude /\ EachOnce /\ RoomForImage /\ QuietWhenStopped
  BY DEF VInv
<1>2. TypeOK'
  BY <1>1 DEF TypeOK, bufVars, queueVars
<1>3. Pipeline' = Pipeline
  BY DEF Pipeline, queueVars
<1>4. WaitsForOldest'
  BY <1>3 DEF WaitsForOldest, queueVars
<1>5. EachOnce' /\ ModesExclude' /\ RoomForImage' /\ QuietWhenStopped' /\ CarefulIsSafe'
  BY <1>1, <1>3 DEF EachOnce, ModesExclude, OneAhead, RoomForImage, QuietWhenStopped, CarefulIsSafe,
                    Allocated, bufVars, queueVars
<1> QED
  BY <1>2, <1>4, <1>5 DEF VInv

(* VIDIOC_DQBUF and poll choose the first buffer of the list of videobuf. *)
LEMMA SleepingPreserves ==
  ASSUME VInv, DqbufSleeps \/ PollSleeps \/ PollReading
  PROVE  VInv'
<1>1. TypeOK /\ ModesExclude
  BY DEF VInv, DqbufSleeps, PollSleeps, PollReading, Calls
<1>2. stream \in Seq(Buffers) /\ NULL \notin Buffers
  BY <1>1, MyviviAssumption DEF TypeOK, Buffers
<1>3. stream # <<>> => Head(stream) \in Buffers
  BY <1>2
<1>4. CASE DqbufSleeps
  <2>1. Pipeline = stream
    BY <1>1, <1>4, PipelineIs DEF DqbufSleeps, ModesExclude
  <2>2. on' \in Buffers \cup {NULL}
    BY <1>3, <1>4 DEF DqbufSleeps
  <2>3. on' = NULL \/ (Pipeline # <<>> /\ on' = Head(Pipeline) /\ on' # NULL)
    BY <1>2, <1>3, <1>4, <2>1 DEF DqbufSleeps
  <2> QED
    BY <1>4, <2>2, <2>3, OnlyCallChanges DEF DqbufSleeps, Calls
<1>5. CASE PollSleeps
  <2>1. Pipeline = stream
    BY <1>1, <1>5, PipelineIs DEF PollSleeps, ModesExclude
  <2>2. on' \in Buffers /\ Pipeline # <<>> /\ on' = Head(Pipeline) /\ on' # NULL
    BY <1>2, <1>3, <1>5, <2>1 DEF PollSleeps
  <2> QED
    BY <1>5, <2>2, OnlyCallChanges DEF PollSleeps, Calls
<1>6. CASE PollReading
  <2>1. read_buf # NULL
    BY <1>1, <1>6 DEF PollReading, ModesExclude
  <2>2. on' \in Buffers /\ Pipeline # <<>> /\ on' = Head(Pipeline) /\ on' # NULL
    BY <1>1, <1>6, <2>1, PipelineIs DEF PollReading, TypeOK
  <2> QED
    BY <1>6, <2>2, OnlyCallChanges DEF PollReading, Calls
<1> QED
  BY <1>4, <1>5, <1>6

(* Poll ends, or a call gives up. *)
LEMMA WakingPreserves ==
  ASSUME VInv, PollWakes \/ GivesUp
  PROVE  VInv'
<1>1. ~broken /\ timer
  BY DEF VInv, WaitsForOldest, PollWakes, GivesUp
<1> QED
  BY <1>1, OnlyCallChanges DEF PollWakes, GivesUp

(* The buffers in their order, each once. *)
LEMMA AscendingIs ==
  ASSUME NEW first \in {0, 1}
  PROVE  /\ Ascending(first, MaxBufs) \in Seq(Buffers) /\ Len(Ascending(first, MaxBufs)) = MaxBufs - first
         /\ \A i \in 1 .. MaxBufs - first : Ascending(first, MaxBufs)[i] = first + i - 1
<1>1. MaxBufs - first \in Nat
  BY MyviviAssumption
<1>2. \A i \in 1 .. MaxBufs - first : first + i - 1 \in Buffers
  BY MyviviAssumption DEF Buffers
<1> QED
  BY <1>1, <1>2 DEF Ascending

(***************************************************************************)
(* Poll that starts read() queues all buffers on both lists, the first     *)
(* apart on videobuf's.                                                    *)
(***************************************************************************)
LEMMA PollStartsReadingPreserves ==
  ASSUME VInv, PollStartsReading
  PROVE  VInv'
<1>1. TypeOK /\ ModesExclude /\ ~broken /\ timer /\ ~streaming /\ ~reading
  BY DEF VInv, PollStartsReading, Calls
<1>2. /\ count' = MaxBufs /\ memory' = "USERPTR" /\ bsize' = sizeimage
      /\ map' = [b \in Buffers |-> 0]
      /\ size' = [b \in Buffers |-> sizeimage]
      /\ state' = [b \in Buffers |-> "QUEUED"]
      /\ reading' = TRUE /\ read_buf' = 0
      /\ local' = local \o Ascending(0, MaxBufs) /\ stream' = Ascending(1, MaxBufs)
      /\ call' = "poll" /\ on' = 0
      /\ broken' \in BOOLEAN /\ misused' = TRUE
      /\ UNCHANGED <<timer, sizeimage, strays, streaming>>
  BY DEF PollStartsReading, MmapSetup, Prepare, BufferQueue
<1>3. local' = Ascending(0, MaxBufs)
  <2>1. local = <<>> /\ Ascending(0, MaxBufs) \in Seq(Buffers)
    BY <1>1, AscendingIs DEF ModesExclude
  <2> QED
    BY <1>2, <2>1, NoneInFront
<1>4. 0 \in Buffers /\ NULL \notin Buffers /\ MaxBufs \in 0 .. MaxBufs
  BY MyviviAssumption DEF Buffers
<1>5. /\ stream' \in Seq(Buffers) /\ local' \in Seq(Buffers)
  BY <1>2, <1>3, AscendingIs
<1>6. TypeOK'
  BY <1>1, <1>2, <1>4, <1>5 DEF TypeOK
<1>7. QuietWhenStopped' /\ CarefulIsSafe' /\ RoomForImage'
  BY <1>1, <1>2 DEF QuietWhenStopped, CarefulIsSafe, RoomForImage
<1>8. Pipeline' = <<0>> \o Ascending(1, MaxBufs)
  BY <1>2, <1>4 DEF Pipeline
<1>9. Pipeline' = Ascending(0, MaxBufs)
  <2> DEFINE s == <<0>> \o Ascending(1, MaxBufs)
  <2>1. /\ s \in Seq(Buffers) /\ Len(s) = Len(Ascending(1, MaxBufs)) + 1
        /\ \A i \in 1 .. Len(Ascending(1, MaxBufs)) + 1 : s[i] = IF i = 1 THEN 0 ELSE Ascending(1, MaxBufs)[i - 1]
    BY <1>4, AscendingIs, OneInFront
  <2> HIDE DEF s
  <2>2. Len(s) = MaxBufs
    BY <2>1, AscendingIs, MyviviAssumption
  <2>3. ASSUME NEW i \in 1 .. MaxBufs PROVE s[i] = i - 1
    <3>1. CASE i = 1
      BY <2>1, <2>2, <3>1
    <3>2. CASE i # 1
      <4>1. i - 1 \in 1 .. MaxBufs - 1 /\ 1 + (i - 1) - 1 = i - 1
        BY <3>2, MyviviAssumption
      <4>2. Ascending(1, MaxBufs)[i - 1] = 1 + (i - 1) - 1
        BY <4>1, AscendingIs
      <4> QED
        BY <2>1, <2>2, <3>2, <4>1, <4>2
    <3> QED
      BY <3>1, <3>2
  <2>4. /\ Ascending(0, MaxBufs) \in Seq(Buffers) /\ Len(Ascending(0, MaxBufs)) = MaxBufs
        /\ \A i \in 1 .. MaxBufs : Ascending(0, MaxBufs)[i] = i - 1
    BY AscendingIs, MyviviAssumption
  <2>5. s = Ascending(0, MaxBufs)
    BY <2>1, <2>2, <2>3, <2>4, SeqEqual
  <2> QED
    BY <1>8, <2>5 DEF s
<1>10. /\ Len(Pipeline') = MaxBufs /\ \A i \in 1 .. MaxBufs : Pipeline'[i] = i - 1
  BY <1>9, AscendingIs, MyviviAssumption
<1>11. EachOnce'
  <2>1. \A i, j \in 1 .. MaxBufs : i - 1 = j - 1 => i = j
    BY MyviviAssumption
  <2>2. \A i \in 1 .. MaxBufs : i - 1 \in 0 .. MaxBufs - 1
    BY MyviviAssumption
  <2> QED
    BY <1>2, <1>10, <2>1, <2>2 DEF EachOnce, Allocated
<1>12. OneAhead'
  <2>1. local' = Pipeline'
    BY <1>3, <1>9
  <2>2. \A i \in 1 .. Len(local') : local'[i] \in Buffers
    BY <1>5
  <2> QED
    BY <1>2, <2>1, <2>2 DEF OneAhead
<1>13. ModesExclude'
  BY <1>1, <1>2, <1>4, <1>12 DEF ModesExclude
<1>14. WaitsForOldest'
  <2>1. <<0>> \o Ascending(1, MaxBufs) # <<>> /\ Head(<<0>> \o Ascending(1, MaxBufs)) = 0
    BY <1>4, AscendingIs, OneInFront
  <2> QED
    BY <1>1, <1>2, <1>4, <1>8, <2>1 DEF WaitsForOldest
<1> QED
  BY <1>6, <1>7, <1>11, <1>13, <1>14 DEF VInv

(***************************************************************************)
(* The buffer the timer fills is the first of its list and the one that is *)
(* waited for, the first of the list of videobuf; so the two lists are the *)
(* same before that.                                                       *)
(***************************************************************************)
LEMMA TimerFillsOldest ==
  ASSUME VInv, TimerFunction
  PROVE  /\ streaming \/ reading
         /\ local = Pipeline /\ local # <<>> /\ Head(local) \in Buffers
         /\ \A i \in 1 .. Len(local) : state[local[i]] = "QUEUED"
<1>1. /\ TypeOK /\ QuietWhenStopped /\ ModesExclude /\ EachOnce /\ WaitsForOldest
      /\ local # <<>> /\ call # "none" /\ on = Head(local)
  BY DEF VInv, TimerFunction
<1>2. (streaming \/ reading) /\ OneAhead
  BY <1>1 DEF QuietWhenStopped, ModesExclude
<1>3. local \in Seq(Buffers) /\ Pipeline \in Seq(Buffers) /\ Head(local) \in Buffers
  BY <1>1, PipelineIs DEF TypeOK
<1>4. on # NULL
  BY <1>1, <1>3, MyviviAssumption DEF Buffers
<1>5. Pipeline # <<>> /\ on = Head(Pipeline)
  BY <1>1, <1>4 DEF WaitsForOldest
<1>6. local # Tail(Pipeline)
  <2> SUFFICES ASSUME local = Tail(Pipeline) PROVE FALSE
    OBVIOUS
  <2>1. 2 \in 1 .. Len(Pipeline) /\ 1 \in 1 .. Len(Pipeline) /\ Pipeline[2] = Pipeline[1]
    BY <1>1, <1>3, <1>5
  <2> QED
    BY <1>1, <2>1 DEF EachOnce
<1> QED
  BY <1>1, <1>2, <1>3, <1>6 DEF OneAhead

(* What a careful application has queued is not written past its end. *)
LEMMA CarefulFillFits ==
  ASSUME VInv, TimerFunction, ~misused
  PROVE  FillFits(Head(local))
<1> DEFINE head == Head(local)
<1>1. TypeOK /\ ModesExclude /\ EachOnce /\ RoomForImage /\ timer
  BY DEF VInv, TimerFunction
<1>2. ~reading /\ Pipeline = stream
  BY <1>1, PipelineIs DEF RoomForImage, ModesExclude
<1>3. local = stream /\ stream # <<>> /\ stream \in Seq(Buffers)
  BY <1>1, <1>2, TimerFillsOldest DEF TypeOK
<1>4. 1 \in 1 .. Len(stream) /\ Head(local) = stream[1]
  BY <1>3
<1>5. map[head] \in Nat /\ size[head] \in Nat /\ bsize \in Nat
  <2>1. head \in Buffers
    BY <1>3
  <2>2. map[head] \in MapLens \cup {0} /\ size[head] \in Sizes \cup {0} /\ bsize \in Sizes \cup {0}
    BY <1>1, <2>1 DEF TypeOK
  <2>3. MapLens \subseteq Nat /\ Sizes \subseteq Nat
    BY MyviviAssumption
  <2>4. ASSUME NEW x \in MapLens \cup {0}, NEW y \in Sizes \cup {0}, NEW z \in Sizes \cup {0}
        PROVE  x \in Nat /\ y \in Nat /\ z \in Nat
    BY <2>3
  <2> QED
    BY <2>2, <2>4, Zenon
<1>6. head \in Allocated
  <2>1. Pipeline[1] \in Allocated
    BY <1>1, <1>2, <1>4 DEF EachOnce
  <2> QED
    BY <1>2, <1>3, <1>4, <2>1
<1>7. memory = "MMAP" /\ map[head] > 0 /\ size[head] <= bsize /\ bsize <= map[head]
  BY <1>1, <1>4, <1>5, <1>6 DEF RoomForImage
<1> QED
  BY <1>5, <1>7 DEF FillFits

(* myvivi_timer_function *)
LEMMA TimerFunctionPreserves ==
  ASSUME VInv, TimerFunction
  PROVE  VInv'
<1>1. /\ TypeOK /\ ModesExclude /\ EachOnce /\ WaitsForOldest /\ RoomForImage /\ timer
  BY DEF VInv, TimerFunction
<1>2. /\ broken' \in BOOLEAN /\ (broken' <=> ~FillFits(Head(local)))
      /\ state' = [state EXCEPT ![Head(local)] = "DONE"]
      /\ local' = Tail(local)
      /\ UNCHANGED <<timer, sizeimage, bufVars, map, strays, size, stream, streaming, reading, read_buf,
                      call, on, misused>>
  BY DEF TimerFunction
<1>3. /\ streaming \/ reading
      /\ local = Pipeline /\ local # <<>> /\ Head(local) \in Buffers
      /\ \A i \in 1 .. Len(local) : state[local[i]] = "QUEUED"
  BY TimerFillsOldest
<1>4. local \in Seq(Buffers) /\ Tail(local) \in Seq(Buffers)
  BY <1>1, <1>3 DEF TypeOK
<1>5. TypeOK'
  BY <1>1, <1>2, <1>3, <1>4 DEF TypeOK, bufVars
<1>6. QuietWhenStopped'
  BY <1>1, <1>2, <1>3 DEF QuietWhenStopped
<1>7. CarefulIsSafe'
  BY <1>2, CarefulFillFits DEF CarefulIsSafe
<1>8. Pipeline' = Pipeline
  BY <1>2 DEF Pipeline
<1>9. EachOnce' /\ WaitsForOldest' /\ RoomForImage'
  BY <1>1, <1>2, <1>8 DEF EachOnce, WaitsForOldest, RoomForImage, Allocated, bufVars
<1>10. OneAhead'
  <2>1. ASSUME NEW i \in 1 .. Len(Tail(local)) PROVE state'[Tail(local)[i]] = "QUEUED"
    <3>1. /\ i + 1 \in 1 .. Len(local) /\ 1 \in 1 .. Len(local) /\ i + 1 # 1
          /\ Tail(local)[i] = local[i + 1] /\ local[i + 1] \in Buffers /\ Head(local) = local[1]
      BY <1>3, <1>4
    <3>2. local[i + 1] # local[1]
      BY <1>1, <1>3, <3>1 DEF EachOnce
    <3> QED
      BY <1>1, <1>2, <1>3, <3>1, <3>2 DEF TypeOK
  <2>2. state'[Head(local)] = "DONE"
    BY <1>1, <1>2, <1>3 DEF TypeOK
  <2> QED
    BY <1>2, <1>3, <1>8, <2>1, <2>2 DEF OneAhead
<1>11. ModesExclude'
  BY <1>1, <1>2, <1>3, <1>10 DEF ModesExclude
<1> QED
  BY <1>5, <1>6, <1>7, <1>9, <1>11 DEF VInv

(* Every call and every tick of the timer preserves the invariant. *)
LEMMA NextPreserves == VInv /\ [Next]_vars => VInv'
<1> SUFFICES ASSUME VInv, [Next]_vars PROVE VInv'
  OBVIOUS
<1>1. CASE UNCHANGED vars
  <2>1. /\ UNCHANGED <<timer, sizeimage, count, memory, bsize, state, map, strays, size, call, on>>
        /\ UNCHANGED <<stream, streaming, reading, read_buf, local, broken, misused>>
    BY <1>1 DEF vars, bufVars, queueVars
  <2>2. TypeOK' <=> TypeOK
    BY <2>1 DEF TypeOK
  <2>3. (QuietWhenStopped' <=> QuietWhenStopped) /\ (CarefulIsSafe' <=> CarefulIsSafe)
    BY <2>1 DEF QuietWhenStopped, CarefulIsSafe
  <2>4. EachOnce' <=> EachOnce
    BY <2>1 DEF EachOnce, Pipeline, Allocated
  <2>5. ModesExclude' <=> ModesExclude
    BY <2>1 DEF ModesExclude, OneAhead, Pipeline
  <2>6. (WaitsForOldest' <=> WaitsForOldest) /\ (RoomForImage' <=> RoomForImage)
    BY <2>1 DEF WaitsForOldest, RoomForImage, Pipeline, Allocated
  <2> QED
    BY <2>1, <2>2, <2>3, <2>4, <2>5, <2>6 DEF VInv
<1> QED
  BY <1>1, OpenPreserves, OpenAgainPreserves, ClosePreserves, SFmtPreserves, ReqbufsPreserves,
     MmapPreserves, MunmapPreserves, QbufPreserves, StreamonPreserves, StreamoffPreserves,
     DqbufPreserves, DqbufWakesPreserves, SleepingPreserves, WakingPreserves,
     PollStartsReadingPreserves, TimerFunctionPreserves DEF Next

(* VInv is an invariant of the driver. *)
THEOREM ViviInvariant == Spec => []VInv
  BY InitEstablishes, NextPreserves, PTL DEF Spec

-----------------------------------------------------------------------------
(* The types, with no more buffers on a list or waited for than videobuf has. *)
THEOREM ViviTypeOK == Spec => []TypeOK
<1>1. VInv => TypeOK
  BY DEF VInv
<1> QED
  BY <1>1, ViviInvariant, PTL

(***************************************************************************)
(* After STREAMOFF, munmap or close the static list of the timer is empty, *)
(* for any number of buffers.                                              *)
(***************************************************************************)
THEOREM AlwaysQuietWhenStopped == Spec => []QuietWhenStopped
<1>1. VInv => QuietWhenStopped
  BY DEF VInv
<1> QED
  BY <1>1, ViviInvariant, PTL

(***************************************************************************)
(* The timer never writes outside the memory of a buffer, for any sizes of *)
(* images and buffers, unless the application has misused the driver.      *)
(***************************************************************************)
THEOREM CarefulAlwaysSafe == Spec => []CarefulIsSafe
<1>1. VInv => CarefulIsSafe
  BY DEF VInv
<1> QED
  BY <1>1, ViviInvariant, PTL

(***************************************************************************)
(* The list of the timer is the QUEUED part of the list of videobuf, in    *)
(* the same order, for any number of buffers.                              *)
(***************************************************************************)
THEOREM ViviListsAgree == Spec => []ListsAgree
<1>1. ASSUME VInv PROVE ListsAgree
  <2> SUFFICES ASSUME ~broken PROVE local = Sublist(Pipeline, InState("QUEUED"))
    BY DEF ListsAgree
  <2>1. TypeOK /\ ModesExclude /\ EachOnce
    BY <1>1 DEF VInv
  <2>2. Pipeline \in Seq(Buffers) /\ local \in Seq(Buffers)
    BY <2>1, PipelineIs DEF TypeOK
  <2>3. CASE ~streaming /\ ~reading
    <3>1. local = <<>> /\ \A b \in Buffers : state[b] # "QUEUED"
      BY <2>1, <2>3 DEF ModesExclude
    <3>2. \A i \in 1 .. Len(Pipeline) : Pipeline[i] \notin InState("QUEUED")
      BY <2>2, <3>1 DEF InState
    <3> QED
      BY <2>2, <3>1, <3>2, SublistNone
  <2>4. CASE (streaming \/ reading) /\ local = Pipeline
    <3>1. \A i \in 1 .. Len(Pipeline) : Pipeline[i] \in InState("QUEUED")
      BY <2>1, <2>2, <2>4 DEF ModesExclude, OneAhead, InState
    <3> QED
      BY <2>2, <2>4, <3>1, SublistAll
  <2>5. CASE /\ streaming \/ reading
             /\ Pipeline # <<>> /\ local = Tail(Pipeline) /\ state[Head(Pipeline)] = "DONE"
    <3>1. ASSUME NEW i \in 1 .. Len(Pipeline) PROVE Pipeline[i] \in InState("QUEUED") <=> i # 1
      <4>1. CASE i = 1
        BY <2>2, <2>5, <4>1 DEF InState
      <4>2. CASE i # 1
        <5>1. i - 1 \in 1 .. Len(local) /\ local[i - 1] = Pipeline[i]
          BY <2>2, <2>5, <4>2
        <5>2. state[local[i - 1]] = "QUEUED"
          BY <2>1, <2>5, <5>1 DEF ModesExclude, OneAhead
        <5> QED
          BY <2>2, <4>2, <5>1, <5>2 DEF InState
      <4> QED
        BY <4>1, <4>2
    <3> QED
      BY <2>2, <2>5, <3>1, SublistTail
  <2> QED
    BY <2>1, <2>3, <2>4, <2>5 DEF ModesExclude, OneAhead
<1> QED
  BY <1>1, ViviInvariant, PTL

-----------------------------------------------------------------------------
(* The contract *)

(* How many buffers of a list are DONE, if none is or only the first. *)
LEMMA NoneDone ==
  ASSUME NEW s \in Seq(Buffers), NEW f, \A i \in 1 .. Len(s) : f[s[i]] # "DONE"
  PROVE  Cardinality({i \in 1 .. Len(s) : f[s[i]] = "DONE"}) = 0
<1>1. {i \in 1 .. Len(s) : f[s[i]] = "DONE"} = {}
  OBVIOUS
<1> QED
  BY <1>1, FS_EmptySet, Zenon

LEMMA FirstDone ==
  ASSUME NEW s \in Seq(Buffers), NEW f, s # <<>>, \A i \in 1 .. Len(s) : f[s[i]] = "DONE" <=> i = 1
  PROVE  Cardinality({i \in 1 .. Len(s) : f[s[i]] = "DONE"}) = 1
<1>1. {i \in 1 .. Len(s) : f[s[i]] = "DONE"} = {1}
  OBVIOUS
<1>2. Cardinality({1}) = 1
  BY FS_Singleton
<1> QED
  BY <1>1, <1>2, Zenon

(* The driver takes all buffers back. *)
LEMMA ResetStep ==
  ASSUME reading' \/ stream' = <<>>,
         \A b \in Buffers : reading' \/ state'[b] \notin {"DONE", "IDLE"}
  PROVE  Contract!Reset
<1>1. (IF reading THEN <<>> ELSE stream)' = <<>>
  OBVIOUS
<1>2. (IF reading THEN 0 ELSE Cardinality({i \in 1 .. Len(stream) : state[stream[i]] = "DONE"}))' = 0
  <2>1. CASE reading'
    BY <2>1
  <2>2. CASE stream' = <<>> /\ ~reading'
    <3>1. <<>> \in Seq(Buffers) /\ \A i \in 1 .. Len(<<>>) : state'[<<>>[i]] # "DONE"
      OBVIOUS
    <3>2. Cardinality({i \in 1 .. Len(<<>>) : state'[<<>>[i]] = "DONE"}) = 0
      BY <3>1, NoneDone
    <3> QED
      BY <2>2, <3>2, Zenon
  <2> QED
    BY <2>1, <2>2
<1>3. [b \in Buffers |-> IF ~reading /\ state[b] \in {"DONE", "IDLE"} THEN "white" ELSE "none"]'
      = [b \in Buffers |-> "none"]
  OBVIOUS
<1> QED
  BY <1>1, <1>2, <1>3 DEF Contract!Reset

(* A step the contract does not see. *)
LEMMA UnseenStep ==
  ASSUME reading' = reading, stream' = stream,
         \A b \in Buffers : state'[b] \in {"DONE", "IDLE"} <=> state[b] \in {"DONE", "IDLE"},
         \A i \in 1 .. Len(stream) : state'[stream[i]] = "DONE" <=> state[stream[i]] = "DONE"
  PROVE  UNCHANGED Contract!vars
<1>1. {i \in 1 .. Len(stream') : state'[stream'[i]] = "DONE"} = {i \in 1 .. Len(stream) : state[stream[i]] = "DONE"}
  OBVIOUS
<1>2. Cardinality({i \in 1 .. Len(stream') : state'[stream'[i]] = "DONE"})
      = Cardinality({i \in 1 .. Len(stream) : state[stream[i]] = "DONE"})
  BY <1>1, Zenon
<1>3. [b \in Buffers |-> IF ~reading' /\ state'[b] \in {"DONE", "IDLE"} THEN "white" ELSE "none"]
      = [b \in Buffers |-> IF ~reading /\ state[b] \in {"DONE", "IDLE"} THEN "white" ELSE "none"]
  OBVIOUS
<1> QED
  BY <1>2, <1>3 DEF Contract!vars

(* VIDIOC_QBUF gives the driver a buffer it does not have. *)
LEMMA QbufEnqueues ==
  ASSUME VInv, NEW b \in Buffers, Qbuf(b)
  PROVE  Contract!Enqueue(b)
<1>1. TypeOK /\ ~reading /\ reading' = reading /\ stream' = Append(stream, b)
  BY DEF VInv, Qbuf
<1>2. stream \in Seq(Buffers) /\ \A i \in 1 .. Len(stream) : stream[i] # b
  BY <1>1, NotQueuedYet DEF Qbuf, Calls, TypeOK
<1>3. state'[b] \in {"QUEUED", "PREPARED"} /\ \A c \in Buffers : c # b => state'[c] = state[c]
  BY <1>1 DEF Qbuf, TypeOK
<1>4. {i \in 1 .. Len(stream') : state'[stream'[i]] = "DONE"} = {i \in 1 .. Len(stream) : state[stream[i]] = "DONE"}
  <2>1. Len(stream') = Len(stream) + 1 /\ stream'[Len(stream) + 1] = b
    BY <1>1, <1>2
  <2>2. \A i \in 1 .. Len(stream) : stream'[i] = stream[i] /\ state'[stream'[i]] = state[stream[i]]
    BY <1>1, <1>2, <1>3
  <2>3. \A i \in 1 .. Len(stream) + 1 : i \in 1 .. Len(stream) \/ i = Len(stream) + 1
    BY <1>2
  <2>4. 1 .. Len(stream) \subseteq 1 .. Len(stream) + 1
    BY <1>2
  <2> QED
    BY <1>3, <2>1, <2>2, <2>3, <2>4
<1>5. Cardinality({i \in 1 .. Len(stream') : state'[stream'[i]] = "DONE"})
      = Cardinality({i \in 1 .. Len(stream) : state[stream[i]] = "DONE"})
  BY <1>4, Zenon
<1>6. [c \in Buffers |-> IF ~reading' /\ state'[c] \in {"DONE", "IDLE"} THEN "white" ELSE "none"]
      = [[c \in Buffers |-> IF ~reading /\ state[c] \in {"DONE", "IDLE"} THEN "white" ELSE "none"]
           EXCEPT ![b] = "none"]
  BY <1>1, <1>3
<1> QED
  BY <1>1, <1>2, <1>5, <1>6 DEF Contract!Enqueue

(* VIDIOC_DQBUF takes the oldest buffer, which is filled. *)
LEMMA TakeDequeues ==
  ASSUME VInv, ~broken, streaming, stream # <<>>, Take(Head(stream)), reading' = reading
  PROVE  Contract!Dequeue
<1>1. TypeOK /\ ModesExclude /\ OneAhead /\ EachOnce /\ ~reading
  BY DEF VInv, ModesExclude
<1>2. state[Head(stream)] = "DONE" /\ state' = [state EXCEPT ![Head(stream)] = "IDLE"]
  BY DEF Take
<1>3. Pipeline = stream /\ local = Tail(stream) /\ stream' = Tail(stream)
  BY <1>2, OnlyFirstIsDone DEF Take
<1>4. stream \in Seq(Buffers) /\ Tail(stream) \in Seq(Buffers) /\ Head(stream) \in Buffers
  BY <1>1 DEF TypeOK
<1>5. \A i \in 1 .. Len(Tail(stream)) :
        i + 1 \in 1 .. Len(stream) /\ Tail(stream)[i] = stream[i + 1] /\ Tail(stream)[i] \in Buffers
  BY <1>4
<1>6. \A i \in 1 .. Len(Tail(stream)) : state[Tail(stream)[i]] = "QUEUED"
  BY <1>1, <1>3 DEF OneAhead
<1>7. Cardinality({i \in 1 .. Len(stream) : state[stream[i]] = "DONE"}) = 1
  <2>1. ASSUME NEW i \in 1 .. Len(stream) PROVE state[stream[i]] = "DONE" <=> i = 1
    <3>1. CASE i = 1
      BY <1>2, <1>4, <3>1
    <3>2. CASE i # 1
      <4>1. i - 1 \in 1 .. Len(Tail(stream)) /\ (i - 1) + 1 = i
        BY <1>4, <3>2
      <4> QED
        BY <1>5, <1>6, <3>2, <4>1
    <3> QED
      BY <3>1, <3>2
  <2> QED
    BY <1>4, <2>1, FirstDone
<1>8. Cardinality({i \in 1 .. Len(Tail(stream)) : state'[Tail(stream)[i]] = "DONE"}) = 0
  <2>1. \A i \in 1 .. Len(Tail(stream)) : state'[Tail(stream)[i]] # "DONE"
    BY <1>1, <1>2, <1>4, <1>5, <1>6 DEF TypeOK
  <2> QED
    BY <1>4, <2>1, NoneDone
<1>9. Cardinality({i \in 1 .. Len(stream') : state'[stream'[i]] = "DONE"}) = 0
  BY <1>3, <1>8
<1>10. [c \in Buffers |-> IF ~reading' /\ state'[c] \in {"DONE", "IDLE"} THEN "white" ELSE "none"]
       = [c \in Buffers |-> IF ~reading /\ state[c] \in {"DONE", "IDLE"} THEN "white" ELSE "none"]
  BY <1>1, <1>2, <1>4 DEF TypeOK
<1> DEFINE queue == IF reading THEN <<>> ELSE stream
           ready == IF reading THEN 0 ELSE Cardinality({i \in 1 .. Len(stream) : state[stream[i]] = "DONE"})
           image == [c \in Buffers |-> IF ~reading /\ state[c] \in {"DONE", "IDLE"} THEN "white" ELSE "none"]
<1>11. ready = 1 /\ ready' = 0 /\ queue = stream /\ queue' = Tail(stream) /\ image' = image
  BY <1>1, <1>3, <1>7, <1>9, <1>10, Zenon
<1>12. Contract!Dequeue <=> ready > 0 /\ queue' = Tail(queue) /\ ready' = ready - 1 /\ image' = image
  BY DEF Contract!Dequeue
<1> HIDE DEF queue, ready, image
<1> QED
  BY <1>11, <1>12

(* The timer fills the oldest buffer of a stream, and no other. *)
LEMMA TimerFills ==
  ASSUME VInv, TimerFunction
  PROVE  Contract!Fill \/ UNCHANGED Contract!vars
<1>1. /\ TypeOK /\ ModesExclude /\ EachOnce
      /\ state' = [state EXCEPT ![Head(local)] = "DONE"] /\ stream' = stream /\ reading' = reading
  BY DEF VInv, TimerFunction
<1>2. /\ local = Pipeline /\ local # <<>> /\ Head(local) \in Buffers
      /\ \A i \in 1 .. Len(local) : state[local[i]] = "QUEUED"
  BY TimerFillsOldest
<1>3. CASE reading
  BY <1>1, <1>3 DEF Contract!vars
<1>4. CASE ~reading
  <2>1. local = stream /\ stream \in Seq(Buffers) /\ EachOnce /\ Pipeline = stream
    BY <1>1, <1>2, <1>4, PipelineIs DEF ModesExclude, TypeOK
  <2>2. 1 \in 1 .. Len(stream) /\ 0 < Len(stream) /\ Head(local) = stream[1] /\ stream[1] \in Buffers
    BY <1>2, <2>1
  <2>3. state'[stream[1]] = "DONE" /\ \A c \in Buffers : c # stream[1] => state'[c] = state[c]
    BY <1>1, <2>2 DEF TypeOK
  <2>4. Cardinality({i \in 1 .. Len(stream) : state[stream[i]] = "DONE"}) = 0
    <3>1. \A i \in 1 .. Len(stream) : state[stream[i]] # "DONE"
      BY <1>2, <2>1
    <3> QED
      BY <2>1, <3>1, NoneDone
  <2>5. Cardinality({i \in 1 .. Len(stream) : state'[stream[i]] = "DONE"}) = 1
    <3>1. ASSUME NEW i \in 1 .. Len(stream) PROVE state'[stream[i]] = "DONE" <=> i = 1
      <4>1. CASE i = 1
        BY <2>3, <4>1
      <4>2. CASE i # 1
        <5>1. stream[i] # stream[1] /\ stream[i] \in Buffers
          BY <2>1, <2>2, <4>2 DEF EachOnce
        <5> QED
          BY <1>2, <2>1, <2>3, <4>2, <5>1
      <4> QED
        BY <4>1, <4>2
    <3> QED
      BY <1>2, <2>1, <3>1, FirstDone
  <2>6. Cardinality({i \in 1 .. Len(stream') : state'[stream'[i]] = "DONE"}) = 1
    BY <1>1, <2>5
  <2> DEFINE queue == IF reading THEN <<>> ELSE stream
             ready == IF reading THEN 0 ELSE Cardinality({i \in 1 .. Len(stream) : state[stream[i]] = "DONE"})
             image == [c \in Buffers |-> IF ~reading /\ state[c] \in {"DONE", "IDLE"} THEN "white" ELSE "none"]
  <2>7. image' \in [Buffers -> {"none", "white"}] /\ image'[stream[1]] = "white"
    BY <1>1, <1>4, <2>2, <2>3
  <2>8. \A c \in Buffers : c # stream[1] => image'[c] = image[c]
    BY <1>1, <1>4, <2>3
  <2>9. ready = 0 /\ ready' = 1 /\ queue = stream /\ queue' = stream
    BY <1>1, <1>4, <2>4, <2>6, Zenon
  <2>10. Contract!Fill <=>
           /\ ready < Len(queue)
           /\ image' \in [Buffers -> {"none", "white"}]
           /\ \A c \in Buffers : c # queue[ready + 1] => image'[c] = image[c]
           /\ image'[queue[ready + 1]] # "none"
           /\ ready' = ready + 1
           /\ queue' = queue
    BY DEF Contract!Fill, Contract!DataArrives
  <2> HIDE DEF queue, ready, image
  <2> QED
    BY <2>2, <2>7, <2>8, <2>9, <2>10
<1> QED
  BY <1>3, <1>4

(* The first state of the driver is one of the contract. *)
LEMMA InitContract == Init => Contract!Init
<1> SUFFICES ASSUME Init PROVE Contract!Init
  OBVIOUS
<1>1. ~reading /\ stream = <<>> /\ \A b \in Buffers : state[b] = "NEEDS_INIT"
  BY DEF Init
<1>2. (IF reading THEN 0 ELSE Cardinality({i \in 1 .. Len(stream) : state[stream[i]] = "DONE"})) = 0
  <2>1. stream \in Seq(Buffers) /\ \A i \in 1 .. Len(stream) : state[stream[i]] # "DONE"
    BY <1>1
  <2>2. Cardinality({i \in 1 .. Len(stream) : state[stream[i]] = "DONE"}) = 0
    BY <2>1, NoneDone
  <2> QED
    BY <1>1, <2>2, Zenon
<1>3. (IF reading THEN <<>> ELSE stream) = <<>>
  BY <1>1
<1>4. [b \in Buffers |-> IF ~reading /\ state[b] \in {"DONE", "IDLE"} THEN "white" ELSE "none"]
      = [b \in Buffers |-> "none"]
  BY <1>1
<1> QED
  BY <1>2, <1>3, <1>4 DEF Contract!Init

(* Where the driver stops, or starts anew, all buffers come back. *)
LEMMA StoppingResets ==
  ASSUME VInv,
         \/ Open \/ Streamoff \/ PollStartsReading
         \/ Close /\ (streaming \/ reading)
         \/ MunmapStray /\ streaming
         \/ \E b \in Buffers : Munmap(b) /\ streaming
         \/ \E n \in 1 .. MaxBufs, mem \in {"MMAP", "USERPTR"} : Reqbufs(n, mem)
  PROVE  Contract!Reset
<1>1. CASE Open
  <2>1. \A b \in Buffers : state'[b] = "NEEDS_INIT"
    BY <1>1 DEF VInv, ModesExclude, Open
  <2> QED
    BY <1>1, <2>1, ResetStep DEF Open
<1>2. CASE \E n \in 1 .. MaxBufs, mem \in {"MMAP", "USERPTR"} : Reqbufs(n, mem)
  BY <1>2, ResetStep DEF Reqbufs, queueVars
<1>3. CASE PollStartsReading
  BY <1>3, ResetStep DEF PollStartsReading
<1>4. CASE Cancel
  BY <1>4, ResetStep DEF Cancel
<1> QED
  BY <1>1, <1>2, <1>3, <1>4 DEF Streamoff, Close, Munmap, MunmapStray

(* What the application does before STREAMON, and whether it sleeps, the contract does not see. *)
LEMMA OthersUnseen ==
  ASSUME VInv,
         \/ OpenAgain \/ DqbufSleeps \/ PollSleeps \/ PollReading \/ PollWakes \/ GivesUp \/ Streamon
         \/ Close /\ ~(streaming \/ reading)
         \/ MunmapStray /\ ~streaming
         \/ \E b \in Buffers : (\E len \in MapLens : Mmap(b, len)) \/ (Munmap(b) /\ ~streaming)
         \/ \E s \in Sizes : SFmt(s)
         \/ UNCHANGED vars
  PROVE  UNCHANGED Contract!vars
<1>1. TypeOK
  BY DEF VInv
<1>2. CASE Streamon
  <2>1. reading' = reading /\ stream' = stream
    BY <1>2 DEF Streamon
  <2>2. \A b \in Buffers : state'[b] = state[b] \/ (state[b] = "PREPARED" /\ state'[b] = "QUEUED")
    BY <1>2 DEF Streamon, InState
  <2>3. \A i \in 1 .. Len(stream) : stream[i] \in Buffers
    BY <1>1 DEF TypeOK
  <2> QED
    BY <2>1, <2>2, <2>3, UnseenStep
<1>3. CASE Close /\ ~(streaming \/ reading)
  <2>1. reading' = reading /\ stream' = stream /\ \A b \in Buffers : state'[b] = "NEEDS_INIT"
    BY <1>3 DEF Close
  <2>2. \A b \in Buffers : state[b] \in {"NEEDS_INIT", "PREPARED"}
    BY <1>3 DEF VInv, ModesExclude, Close, Calls
  <2>3. \A i \in 1 .. Len(stream) : stream[i] \in Buffers
    BY <1>1 DEF TypeOK
  <2> QED
    BY <2>1, <2>2, <2>3, UnseenStep
<1>4. CASE UNCHANGED <<reading, stream, state>>
  BY <1>4, UnseenStep
<1> QED
  BY <1>2, <1>3, <1>4
  DEF OpenAgain, DqbufSleeps, PollSleeps, PollReading, PollWakes, GivesUp, Mmap, Munmap, MunmapStray, SFmt, vars, queueVars

(***************************************************************************)
(* The virtual camera, with any number of buffers, keeps the contract of a *)
(* capture driver: whatever the order of calls, ticks and cancellations,   *)
(* each step is one FrameQueue allows, or one it does not see.             *)
(***************************************************************************)
THEOREM ViviKeepsContract == Spec => KeepsContract
<1>1. ASSUME VInv, [Next]_vars PROVE [Contract!Next]_(Contract!vars)
  <2>1. CASE Contract!Reset
    BY <2>1 DEF Contract!Next
  <2>2. CASE \E b \in Buffers : Qbuf(b)
    <3>1. \E b \in Buffers : Contract!Enqueue(b)
      BY <1>1, <2>2, QbufEnqueues
    <3> QED
      BY <3>1 DEF Contract!Next
  <2>3. CASE Dqbuf
    <3>1. Contract!Dequeue
      BY <1>1, <2>3, TakeDequeues DEF Dqbuf, Calls
    <3> QED
      BY <3>1 DEF Contract!Next
  <2>4. CASE DqbufWakes
    <3>1. Contract!Dequeue
      BY <1>1, <2>4, SleptOnFirst, TakeDequeues DEF DqbufWakes
    <3> QED
      BY <3>1 DEF Contract!Next
  <2>5. CASE TimerFunction
    BY <1>1, <2>5, TimerFills DEF Contract!Next
  <2>6. CASE UNCHANGED Contract!vars
    BY <2>6
  <2>7. \/ Open \/ OpenAgain \/ Close \/ Streamon \/ Streamoff \/ Dqbuf \/ DqbufSleeps \/ DqbufWakes
        \/ PollSleeps \/ PollStartsReading \/ PollReading \/ PollWakes \/ GivesUp \/ TimerFunction \/ MunmapStray
        \/ \E s \in Sizes : SFmt(s)
        \/ \E n \in 1 .. MaxBufs, mem \in {"MMAP", "USERPTR"} : Reqbufs(n, mem)
        \/ \E b \in Buffers : (\E len \in MapLens : Mmap(b, len)) \/ Munmap(b)
        \/ \E b \in Buffers : Qbuf(b)
        \/ UNCHANGED vars
    BY <1>1 DEF Next
  <2> QED
    BY <1>1, <2>1, <2>2, <2>3, <2>4, <2>5, <2>6, <2>7, StoppingResets, OthersUnseen
<1> QED
  BY <1>1, InitContract, ViviInvariant, PTL DEF Spec, KeepsContract, Contract!Spec
=============================================================================
