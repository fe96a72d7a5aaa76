-------------------------- MODULE Video2lcdProofs ---------------------------
(***************************************************************************)
(* Proofs about the application, for any number of buffers, any size of    *)
(* the LCD and of the pictures, and any driver that keeps the contract of  *)
(* FrameQueue.                                                             *)
(***************************************************************************)
EXTENDS Video2lcd, TLAPS

-----------------------------------------------------------------------------
(* Arithmetic: what PicZoom is asked for fits the LCD and the picture. *)

(* The defining bounds of the integer quotient. *)
LEMMA DivBounds ==
  ASSUME NEW n \in Nat, NEW c \in Nat \ {0}
  PROVE  n \div c \in Nat /\ c * (n \div c) <= n /\ n < c * (n \div c) + c
OBVIOUS

(* A factor that is not zero can be dropped on both sides. *)
LEMMA CancelFactor ==
  ASSUME NEW x \in Int, NEW y \in Int, NEW c \in Nat \ {0}, c * x <= c * y
  PROVE  x <= y
OBVIOUS

LEMMA TimesMonotone ==
  ASSUME NEW x \in Nat, NEW y \in Nat, NEW c \in Nat, x <= y
  PROVE  c * x <= c * y
OBVIOUS

(***************************************************************************)
(* (int)(a * ((float)b / c)) is the quotient or, when it would be exact    *)
(* and the product is rounded down, one less.                              *)
(***************************************************************************)
LEMMA ScaleBounds ==
  ASSUME NEW a \in Nat \ {0}, NEW b \in Nat \ {0}, NEW c \in Nat \ {0}, a * b > c
  PROVE  /\ Scale(a, b, c) \in Nat
         /\ c * Scale(a, b, c) <= a * b
         /\ a * b <= c * (Scale(a, b, c) + 1)
<1> DEFINE n == a * b
           q == n \div c
<1>1. n \in Nat /\ n > c
  OBVIOUS
<1> HIDE DEF n
<1>2. q \in Nat /\ c * q <= n /\ n < c * q + c
  BY <1>1, DivBounds
<1>3. q >= 1
  BY <1>1, <1>2
<1>4. n % c = 0 => n = c * q
  BY <1>1
<1>5. Scale(a, b, c) = IF roundsDown /\ n % c = 0 THEN q - 1 ELSE q
  BY DEF Scale, n
<1> HIDE DEF q
<1>6. CASE roundsDown /\ n % c = 0
  <2>1. c * (q - 1) = n - c /\ c * ((q - 1) + 1) = n
    BY <1>1, <1>2, <1>4, <1>6
  <2> QED
    BY <1>1, <1>2, <1>3, <1>5, <1>6, <2>1 DEF n
<1>7. CASE ~(roundsDown /\ n % c = 0)
  <2>1. c * (q + 1) = c * q + c
    BY <1>2
  <2> QED
    BY <1>1, <1>2, <1>5, <1>7, <2>1 DEF n
<1> QED
  BY <1>6, <1>7

(* A picture as wide as the LCD, if it is not too high then. *)
LEMMA FitsByWidth ==
  ASSUME NEW W \in Nat \ {0}, NEW H \in Nat \ {0}, NEW w \in Nat \ {0}, NEW h \in Nat \ {0},
         NEW r \in Nat, w * r <= W * h, W * h <= w * (r + 1),
         w > W \/ h > H, r <= H
  PROVE  W <= w /\ r <= h
<1>1. CASE w > W
  <2>1. W * h <= w * h
    BY <1>1, TimesMonotone
  <2>2. w * r <= w * h
    BY <2>1
  <2> QED
    BY <1>1, <2>2, CancelFactor
<1>2. CASE w <= W
  <2>1. r + 1 <= h
    BY <1>2
  <2>2. w * (r + 1) <= w * h
    BY <2>1, TimesMonotone
  <2>3. h * W <= h * w
    BY <2>2
  <2> QED
    BY <2>1, <2>3, CancelFactor
<1> QED
  BY <1>1, <1>2

(* A picture as high as the LCD, because it would be too high otherwise. *)
LEMMA FitsByHeight ==
  ASSUME NEW W \in Nat \ {0}, NEW H \in Nat \ {0}, NEW w \in Nat \ {0}, NEW h \in Nat \ {0},
         NEW r \in Nat, w * r <= W * h, w > W \/ h > H, r > H,
         NEW v \in Nat, h * v <= H * w
  PROVE  v <= W /\ v <= w /\ H <= h
<1>1. w * (H + 1) <= w * r
  BY TimesMonotone
<1>2. w * (H + 1) <= W * h
  <2>1. w * (H + 1) \in Nat /\ w * r \in Nat /\ W * h \in Nat
    OBVIOUS
  <2> QED
    BY <1>1, <2>1
<1>3. w * (H + 1) = w * H + w /\ w * H = H * w /\ W * h = h * W
  OBVIOUS
<1>4. h * v <= h * W
  <2>1. h * v \in Nat /\ H * w \in Nat /\ h * W \in Nat
    OBVIOUS
  <2> QED
    BY <1>2, <1>3, <2>1
<1>5. v <= W
  BY <1>4, CancelFactor
<1>6. h > H
  <2> SUFFICES ASSUME h <= H, w > W PROVE FALSE
    OBVIOUS
  <2>1. W * h <= W * H
    BY TimesMonotone
  <2>2. W * H = H * W /\ H * W <= H * w
    BY TimesMonotone
  <2>3. w * H \in Nat /\ W * h \in Nat /\ W * H \in Nat
    OBVIOUS
  <2> QED
    BY <1>2, <1>3, <2>1, <2>2, <2>3
<1>7. v <= w
  <2>1. w * H <= w * h
    BY <1>6, TimesMonotone
  <2>2. h * v \in Nat /\ H * w \in Nat /\ w * h \in Nat /\ w * h = h * w
    OBVIOUS
  <2>3. h * v <= h * w
    BY <1>3, <2>1, <2>2
  <2> QED
    BY <2>3, CancelFactor
<1> QED
  BY <1>5, <1>6, <1>7

(***************************************************************************)
(* Whatever the camera's picture and the LCD are, what is shown of a       *)
(* picture that is too large is not larger than the LCD nor than the       *)
(* picture was.                                                            *)
(***************************************************************************)
LEMMA ZoomedFits ==
  ASSUME pic \in [frame : Image, w : Nat, h : Nat], <<pic.w, pic.h>> \in VideoSizes, TooLarge
  PROVE  /\ Zoomed \in [frame : Image, w : Nat, h : Nat]
         /\ Zoomed.frame = pic.frame
         /\ Zoomed.w <= LcdWidth /\ Zoomed.h <= LcdHeigt
         /\ Zoomed.w <= pic.w /\ Zoomed.h <= pic.h
<1> DEFINE r == Scale(LcdWidth, pic.h, pic.w)
           v == Scale(LcdHeigt, pic.w, pic.h)
<1>1. /\ LcdWidth \in Nat \ {0} /\ LcdHeigt \in Nat \ {0}
      /\ pic.w \in Nat \ {0} /\ pic.h \in Nat \ {0}
      /\ LcdWidth * pic.h > pic.w /\ LcdHeigt * pic.w > pic.h
  BY Video2lcdAssumption
<1>2. r \in Nat /\ pic.w * r <= LcdWidth * pic.h /\ LcdWidth * pic.h <= pic.w * (r + 1)
  BY <1>1, ScaleBounds
<1>3. v \in Nat /\ pic.h * v <= LcdHeigt * pic.w
  BY <1>1, ScaleBounds
<1>4. pic.w > LcdWidth \/ pic.h > LcdHeigt
  BY DEF TooLarge
<1>5. Zoomed = IF r > LcdHeigt THEN [pic EXCEPT !.w = v, !.h = LcdHeigt]
               ELSE [pic EXCEPT !.w = LcdWidth, !.h = r]
  BY DEF Zoomed
<1> HIDE DEF r, v
<1>6. CASE r > LcdHeigt
  <2>1. v <= LcdWidth /\ v <= pic.w /\ LcdHeigt <= pic.h
    BY <1>1, <1>2, <1>3, <1>4, <1>6, FitsByHeight
  <2>2. Zoomed = [pic EXCEPT !.w = v, !.h = LcdHeigt]
    BY <1>5, <1>6
  <2>3. Zoomed.frame = pic.frame /\ Zoomed.w = v /\ Zoomed.h = LcdHeigt
    BY <2>2
  <2>4. Zoomed \in [frame : Image, w : Nat, h : Nat]
    BY <1>1, <1>3, <2>2
  <2> QED
    BY <1>1, <1>3, <2>1, <2>3, <2>4
<1>7. CASE r <= LcdHeigt
  <2>1. LcdWidth <= pic.w /\ r <= pic.h
    BY <1>1, <1>2, <1>4, <1>7, FitsByWidth
  <2>2. Zoomed = [pic EXCEPT !.w = LcdWidth, !.h = r]
    BY <1>1, <1>2, <1>5, <1>7
  <2>3. Zoomed.frame = pic.frame /\ Zoomed.w = LcdWidth /\ Zoomed.h = r
    BY <2>2
  <2>4. Zoomed \in [frame : Image, w : Nat, h : Nat]
    BY <1>1, <1>2, <2>2
  <2> QED
    BY <1>1, <1>2, <1>7, <2>1, <2>3, <2>4
<1> QED
  BY <1>1, <1>2, <1>6, <1>7

-----------------------------------------------------------------------------
(* The invariant *)

(* When the program starts. *)
LEMMA InitEstablishes == Init => VInv
<1> SUFFICES ASSUME Init PROVE VInv
  OBVIOUS
<1>1. 0 \in Buffers
  BY Video2lcdAssumption DEF Buffers
<1>2. TypeOK
  <2>1. queue \in Seq(Buffers) /\ ready \in 0 .. Len(queue)
    BY DEF Init, D!Init
  <2>2. image \in [Buffers -> Image]
    BY DEF Init, D!Init, Image
  <2>3. pic \in [frame : Image, w : Nat, h : Nat]
    BY DEF Init, NoPicture, Image
  <2>4. screen \in [frame : Image, x : Nat, y : Nat, w : Nat, h : Nat]
    BY DEF Init, Image
  <2> QED
    BY <1>1, <2>1, <2>2, <2>3, <2>4 DEF Init, TypeOK
<1>3. QueueIsSound
  BY DEF Init, D!Init, QueueIsSound
<1> QED
  BY <1>2, <1>3 DEF Init, D!Init, VInv, QueueGrows, LoopKnows, FrameIsStill, NoBufferLost, Works

(* A loop variable that runs through the buffers *)
LEMMA NextIndex ==
  ASSUME NEW n \in Nat \ {0}, NEW k \in 0 .. n - 1
  PROVE  /\ (k + 1) % n \in 0 .. n - 1
         /\ (k + 1) % n = 0 => k + 1 = n
         /\ (k + 1) % n # 0 => (k + 1) % n = k + 1
<1>1. CASE k + 1 = n
  BY <1>1
<1>2. CASE k + 1 < n
  BY <1>2
<1> QED
  BY <1>1, <1>2

(* open, VIDIOC_S_FMT, mmap, the choice of a converter, poll, and every failing call *)
LEMMA CallPreserves ==
  ASSUME VInv,
         OpenDevice \/ SetFormat \/ MapBuffer \/ MapPastArray \/ StartDevice \/ PollFrame \/ CallFails
  PROVE  VInv'
<1>1. UNCHANGED <<queue, ready, image, device, disp, roundsDown, iVideoBufCnt, cur, pic, screen>>
  BY DEF OpenDevice, SetFormat, MapBuffer, MapPastArray, StartDevice, PollFrame, CallFails, driver, setup
<1>2. /\ fmt' \in {"YUYV", "MJPEG", "RGB565", "none"}
      /\ vsize' \in VideoSizes \cup {<<0, 0>>}
      /\ pc' \in {"s_fmt", "reqbufs", "map", "queue", "poll", "dqbuf", "overrun", "exit"}
  BY DEF OpenDevice, SetFormat, MapBuffer, MapPastArray, StartDevice, PollFrame, CallFails, VInv, TypeOK
<1>3. /\ i' \in 0 .. NB_BUFFER
      /\ i' = NB_BUFFER \/ pc' = "overrun" => iVideoBufCnt > NB_BUFFER
      /\ pc' = "map" => queue = <<>> /\ i' < iVideoBufCnt
      /\ pc' = "queue" => queue = <<>> /\ i' = 0 /\ i' < iVideoBufCnt /\ iVideoBufCnt <= NB_BUFFER
  <2>1. /\ NB_BUFFER \in Nat \ {0} /\ iVideoBufCnt \in Nat /\ i \in 0 .. NB_BUFFER
        /\ i = NB_BUFFER \/ pc = "overrun" => iVideoBufCnt > NB_BUFFER
        /\ pc = "map" => queue = <<>> /\ i < iVideoBufCnt
    BY Video2lcdAssumption DEF VInv, TypeOK, QueueGrows
  <2>2. CASE MapBuffer
    <3>1. /\ pc = "map" /\ i < NB_BUFFER
          /\ i' = (i + 1) % iVideoBufCnt /\ pc' = IF i' = 0 THEN "queue" ELSE "map"
      BY <2>2 DEF MapBuffer
    <3>2. /\ i' \in 0 .. iVideoBufCnt - 1
          /\ i' = 0 => i + 1 = iVideoBufCnt
          /\ i' # 0 => i' = i + 1
      BY <2>1, <3>1, NextIndex
    <3> QED
      BY <2>1, <3>1, <3>2
  <2>3. CASE MapPastArray
    BY <2>1, <2>3 DEF MapPastArray
  <2>4. CASE OpenDevice \/ SetFormat \/ StartDevice \/ PollFrame \/ CallFails
    <3>1. i' = i /\ pc' \notin {"map", "queue", "overrun"}
      BY <2>4 DEF OpenDevice, SetFormat, StartDevice, PollFrame, CallFails
    <3> QED
      BY <2>1, <3>1
  <2> QED
    BY <2>2, <2>3, <2>4
<1>4. TypeOK'
  BY <1>1, <1>2, <1>3 DEF VInv, TypeOK
<1>5. QueueIsSound'
  BY <1>1 DEF VInv, QueueIsSound
<1>6. QueueGrows'
  BY <1>1, <1>2, <1>3 DEF VInv, QueueGrows
<1>7. LoopKnows'
  <2>1. pc' = "dqbuf" => device = "streaming"
    <3>1. CASE PollFrame
      <4>1. ready > 0 /\ queue \in Seq(Buffers) /\ ready \in 0 .. Len(queue)
        BY <3>1 DEF PollFrame, VInv, TypeOK
      <4>2. queue # <<>>
        BY <4>1
      <4> QED
        BY <4>2 DEF VInv, QueueGrows
    <3>2. CASE ~PollFrame
      BY <3>2 DEF OpenDevice, SetFormat, MapBuffer, MapPastArray, StartDevice, CallFails
    <3> QED
      BY <3>1, <3>2
  <2> QED
    BY <1>1, <1>2, <2>1 DEF OpenDevice, SetFormat, MapBuffer, MapPastArray, StartDevice, PollFrame,
       CallFails, VInv, LoopKnows, Works
<1>8. FrameIsStill'
  BY <1>2 DEF FrameIsStill, Works
<1>9. NoBufferLost'
  BY <1>1, <1>2 DEF OpenDevice, SetFormat, MapBuffer, MapPastArray, StartDevice, PollFrame, CallFails,
     VInv, NoBufferLost, QueueGrows, Works
<1> QED
  BY <1>4, <1>5, <1>6, <1>7, <1>8, <1>9 DEF VInv

(* VIDIOC_REQBUFS *)
LEMMA RequestBuffersPreserves ==
  ASSUME VInv, RequestBuffers
  PROVE  VInv'
<1>1. queue' = <<>> /\ ready' = 0 /\ image' = [b \in Buffers |-> None]
  BY DEF RequestBuffers, D!Reset
<1>2. UNCHANGED <<device, disp, roundsDown, fmt, vsize, cur, pic, screen>> /\ i' = 0
  BY DEF RequestBuffers, setup
<1>3. NB_BUFFER \in Nat \ {0}
  BY Video2lcdAssumption
<1>4. /\ pc = "reqbufs" /\ pc' \in {"map", "start"} /\ iVideoBufCnt' \in Nat
      /\ pc' = "map" => device = "streaming" /\ iVideoBufCnt' > 0
      /\ pc' = "start" /\ device = "streaming" => iVideoBufCnt' = 0
  <2>1. PICK n \in Grants :
          /\ iVideoBufCnt' = IF device = "readwrite" THEN 1 ELSE n
          /\ pc' = IF device = "streaming" /\ n > 0 THEN "map" ELSE "start"
    BY DEF RequestBuffers
  <2>2. n \in Nat
    BY Video2lcdAssumption
  <2> QED
    BY <2>1, <2>2 DEF RequestBuffers
<1>5. TypeOK'
  <2>1. queue' \in Seq(Buffers) /\ ready' \in 0 .. Len(queue')
    BY <1>1
  <2>2. image' \in [Buffers -> Image]
    BY <1>1 DEF Image
  <2> QED
    BY <1>2, <1>3, <1>4, <2>1, <2>2 DEF VInv, TypeOK
<1>6. QueueIsSound'
  BY <1>1 DEF QueueIsSound
<1>7. QueueGrows' /\ LoopKnows' /\ FrameIsStill' /\ NoBufferLost'
  BY <1>1, <1>2, <1>4 DEF VInv, QueueGrows, LoopKnows, FrameIsStill, NoBufferLost, Works
<1> QED
  BY <1>5, <1>6, <1>7 DEF VInv

(***************************************************************************)
(* VIDIOC_QBUF of a buffer that the driver does not have: its list is      *)
(* sound afterwards, and one longer.                                       *)
(***************************************************************************)
LEMMA EnqueueResult ==
  ASSUME queue \in Seq(Buffers), ready \in 0 .. Len(queue), image \in [Buffers -> Image],
         QueueIsSound, NEW b \in Buffers, D!Enqueue(b)
  PROVE  /\ queue' \in Seq(Buffers) /\ ready' \in 0 .. Len(queue') /\ image' \in [Buffers -> Image]
         /\ Len(queue') = Len(queue) + 1
         /\ QueueIsSound'
<1>1. queue' = Append(queue, b) /\ ready' = ready /\ image' = [image EXCEPT ![b] = None]
      /\ \A k \in 1 .. Len(queue) : queue[k] # b
  BY DEF D!Enqueue
<1>2. queue' \in Seq(Buffers) /\ Len(queue') = Len(queue) + 1 /\ Len(queue) \in Nat
  BY <1>1
<1>3. image' \in [Buffers -> Image]
  BY <1>1 DEF Image
<1>4. /\ \A k \in 1 .. Len(queue) : queue'[k] = queue[k] /\ queue[k] \in Buffers
      /\ queue'[Len(queue) + 1] = b
  BY <1>1
<1>5. QueueIsSound'
  <2>1. ASSUME NEW j \in 1 .. Len(queue'), NEW k \in 1 .. Len(queue'), queue'[j] = queue'[k]
        PROVE  j = k
    BY <1>1, <1>2, <1>4, <2>1 DEF QueueIsSound
  <2>2. ASSUME NEW k \in 1 .. ready'
        PROVE  image'[queue'[k]] # None
    <3>1. k \in 1 .. Len(queue) /\ k \in 1 .. ready
      BY <1>1
    <3>2. image'[queue'[k]] = image[queue[k]]
      BY <1>1, <1>4, <3>1
    <3> QED
      BY <3>1, <3>2 DEF QueueIsSound
  <2> QED
    BY <2>1, <2>2 DEF QueueIsSound
<1> QED
  BY <1>1, <1>2, <1>3, <1>5

(* VIDIOC_QBUF of all buffers *)
LEMMA QueueBufferPreserves ==
  ASSUME VInv, QueueBuffer
  PROVE  VInv'
<1>1. pc = "queue" /\ D!Enqueue(i) /\ i' = (i + 1) % iVideoBufCnt
      /\ pc' = (IF i' = 0 THEN "start" ELSE "queue")
  BY DEF QueueBuffer
<1>2. UNCHANGED <<device, disp, roundsDown, fmt, vsize, iVideoBufCnt, cur, pic, screen>>
  BY DEF QueueBuffer, setup
<1>3. /\ queue' \in Seq(Buffers) /\ ready' \in 0 .. Len(queue') /\ image' \in [Buffers -> Image]
      /\ Len(queue') = Len(queue) + 1
      /\ QueueIsSound'
  <2>1. i \in Buffers
    BY <1>1, Video2lcdAssumption DEF VInv, TypeOK, QueueGrows, Buffers
  <2> QED
    BY <1>1, <2>1, EnqueueResult DEF VInv, TypeOK
<1>4. /\ i' \in 0 .. iVideoBufCnt - 1 /\ i' \in 0 .. NB_BUFFER /\ i' # NB_BUFFER
      /\ iVideoBufCnt \in Nat /\ iVideoBufCnt <= NB_BUFFER
      /\ (i' = 0 => i + 1 = iVideoBufCnt) /\ (i' # 0 => i' = i + 1)
  <2>1. /\ NB_BUFFER \in Nat \ {0} /\ iVideoBufCnt \in Nat /\ iVideoBufCnt <= NB_BUFFER
        /\ i \in Nat /\ i < iVideoBufCnt
    BY <1>1, Video2lcdAssumption DEF VInv, TypeOK, QueueGrows
  <2>2. /\ i' \in 0 .. iVideoBufCnt - 1
        /\ (i' = 0 => i + 1 = iVideoBufCnt) /\ (i' # 0 => i' = i + 1)
    BY <1>1, <2>1, NextIndex
  <2> QED
    BY <2>1, <2>2
<1>5. TypeOK'
  BY <1>1, <1>2, <1>3, <1>4 DEF VInv, TypeOK
<1>6. device = "streaming" /\ Len(queue) = i /\ vsize \in VideoSizes
  BY <1>1 DEF VInv, LoopKnows, QueueGrows
<1>7. QueueGrows'
  BY <1>1, <1>2, <1>3, <1>4, <1>6 DEF QueueGrows
<1>8. LoopKnows' /\ FrameIsStill' /\ NoBufferLost'
  BY <1>1, <1>2, <1>6 DEF LoopKnows, FrameIsStill, NoBufferLost, Works
<1> QED
  BY <1>3, <1>5, <1>7, <1>8 DEF VInv

(* VIDIOC_DQBUF: the buffer has left the driver. *)
LEMMA GetFramePreserves ==
  ASSUME VInv, GetFrame
  PROVE  VInv'
<1>1. /\ pc = "dqbuf" /\ pc' = "convert"
      /\ ready > 0 /\ queue' = Tail(queue) /\ ready' = ready - 1 /\ image' = image
      /\ cur' = Head(queue)
      /\ pic' = [frame |-> image[cur'], w |-> vsize[1], h |-> vsize[2]]
  BY DEF GetFrame, D!Dequeue
<1>2. UNCHANGED <<device, disp, roundsDown, fmt, vsize, iVideoBufCnt, i, screen>>
  BY DEF GetFrame, setup
<1>3. queue \in Seq(Buffers) /\ ready \in 0 .. Len(queue) /\ image \in [Buffers -> Image]
  BY DEF VInv, TypeOK
<1>4. device = "streaming" /\ vsize \in VideoSizes /\ Len(queue) = iVideoBufCnt
  BY <1>1 DEF VInv, LoopKnows, NoBufferLost
<1>5. vsize[1] \in Nat /\ vsize[2] \in Nat
  BY <1>4, Video2lcdAssumption
<1>6. queue # <<>> /\ cur' \in Buffers /\ cur' = queue[1]
  BY <1>1, <1>3
<1>7. /\ queue' \in Seq(Buffers) /\ Len(queue') = Len(queue) - 1
      /\ \A k \in 1 .. Len(queue') : queue'[k] = queue[k + 1] /\ k + 1 \in 1 .. Len(queue)
  BY <1>1, <1>3, <1>6
<1>8. TypeOK'
  <2>1. pic' \in [frame : Image, w : Nat, h : Nat]
    BY <1>1, <1>3, <1>5, <1>6
  <2>2. ready' \in 0 .. Len(queue')
    BY <1>1, <1>3, <1>7
  <2> QED
    BY <1>1, <1>2, <1>6, <1>7, <2>1, <2>2 DEF VInv, TypeOK
<1>9. QueueIsSound'
  <2>1. ASSUME NEW j \in 1 .. Len(queue'), NEW k \in 1 .. Len(queue'), queue'[j] = queue'[k]
        PROVE  j = k
    <3>1. j + 1 = k + 1
      BY <1>7, <2>1 DEF VInv, QueueIsSound
    <3> QED
      BY <3>1
  <2>2. ASSUME NEW k \in 1 .. ready' PROVE image'[queue'[k]] # None
    <3>1. k \in 1 .. Len(queue') /\ k + 1 \in 1 .. ready
      BY <1>1, <1>3, <1>7
    <3> QED
      BY <1>1, <1>7, <3>1 DEF VInv, QueueIsSound
  <2> QED
    BY <2>1, <2>2 DEF QueueIsSound
<1>10. \A k \in 1 .. Len(queue') : queue'[k] # cur'
  <2> SUFFICES ASSUME NEW k \in 1 .. Len(queue'), queue'[k] = cur' PROVE FALSE
    OBVIOUS
  <2>1. queue[k + 1] = queue[1] /\ k + 1 \in 1 .. Len(queue) /\ 1 \in 1 .. Len(queue)
    BY <1>3, <1>6, <1>7
  <2>2. k + 1 = 1
    BY <2>1 DEF VInv, QueueIsSound
  <2> QED
    BY <2>2
<1>11. image'[cur'] # None
  <2>1. 1 \in 1 .. ready
    BY <1>1, <1>3
  <2> QED
    BY <1>1, <1>6, <2>1 DEF VInv, QueueIsSound
<1>12. pic'.frame = image'[cur'] /\ pic'.w = vsize'[1] /\ pic'.h = vsize'[2]
  BY <1>1, <1>2
<1>13. QueueGrows' /\ LoopKnows'
  BY <1>1, <1>2, <1>4, <1>11, <1>12 DEF QueueGrows, LoopKnows, Works
<1>14. FrameIsStill'
  BY <1>1, <1>10, <1>12 DEF FrameIsStill, Works
<1>15. NoBufferLost'
  BY <1>1, <1>2, <1>4, <1>7 DEF NoBufferLost, Works
<1> QED
  BY <1>8, <1>9, <1>13, <1>14, <1>15 DEF VInv

(* read() *)
LEMMA ReadFramePreserves ==
  ASSUME VInv, ReadFrame
  PROVE  VInv'
<1> PICK f \in Image \ {None} :
      /\ image' = [image EXCEPT ![0] = f]
      /\ pic' = [frame |-> f, w |-> vsize[1], h |-> vsize[2]]
  BY DEF ReadFrame
<1>1. pc = "poll" /\ device = "readwrite" /\ cur' = 0 /\ pc' = "convert"
  BY DEF ReadFrame
<1>2. UNCHANGED <<queue, ready, device, disp, roundsDown, fmt, vsize, iVideoBufCnt, i, screen>>
  BY DEF ReadFrame, setup
<1>3. 0 \in Buffers
  BY Video2lcdAssumption DEF Buffers
<1>4. vsize \in VideoSizes /\ vsize[1] \in Nat /\ vsize[2] \in Nat
  BY <1>1, Video2lcdAssumption DEF VInv, LoopKnows
<1>5. image \in [Buffers -> Image]
  BY DEF VInv, TypeOK
<1>6. image' \in [Buffers -> Image] /\ image'[0] = f
  BY <1>3, <1>5
<1>7. TypeOK'
  <2>1. pic' \in [frame : Image, w : Nat, h : Nat]
    BY <1>4
  <2> QED
    BY <1>1, <1>2, <1>3, <1>6, <2>1 DEF VInv, TypeOK
<1>8. QueueIsSound'
  <2>1. ASSUME NEW k \in 1 .. ready PROVE image'[queue[k]] # None
    <3>1. k \in 1 .. Len(queue)
      BY DEF VInv, TypeOK
    <3>2. queue[k] \in Buffers
      BY <3>1 DEF VInv, TypeOK
    <3>3. image[queue[k]] # None
      BY DEF VInv, QueueIsSound
    <3> QED
      BY <1>5, <3>2, <3>3
  <2> QED
    BY <1>2, <2>1 DEF VInv, QueueIsSound
<1>9. QueueGrows' /\ LoopKnows' /\ FrameIsStill' /\ NoBufferLost'
  BY <1>1, <1>2, <1>4, <1>6 DEF QueueGrows, LoopKnows, FrameIsStill, NoBufferLost, Works
<1> QED
  BY <1>7, <1>8, <1>9 DEF VInv

(* The converters leave the driver and its buffers alone. *)
LEMMA ConvertPreserves ==
  ASSUME VInv, Convert
  PROVE  VInv'
<1>1. /\ pc = "convert" /\ pc' \in {"show", "exit"}
      /\ pic' = [pic EXCEPT !.frame = IF fmt = "YUYV" THEN None ELSE image[cur]]
  BY DEF Convert
<1>2. UNCHANGED <<queue, ready, image, device, disp, roundsDown, fmt, vsize, iVideoBufCnt, i, cur, screen>>
  BY DEF Convert, driver, setup
<1>3. pic \in [frame : Image, w : Nat, h : Nat] /\ image[cur] \in Image
  BY DEF VInv, TypeOK
<1>4. pic'.w = pic.w /\ pic'.h = pic.h /\ pic'.frame = IF fmt = "YUYV" THEN None ELSE image[cur]
  BY <1>1, <1>3
<1>5. pic' \in [frame : Image, w : Nat, h : Nat]
  BY <1>1, <1>3 DEF Image
<1>6. TypeOK'
  BY <1>1, <1>2, <1>5 DEF VInv, TypeOK
<1>7. QueueIsSound' /\ QueueGrows'
  BY <1>1, <1>2 DEF VInv, QueueIsSound, QueueGrows
<1>8. LoopKnows'
  BY <1>1, <1>2, <1>4 DEF VInv, LoopKnows, Works
<1>9. FrameIsStill' /\ NoBufferLost'
  BY <1>1, <1>2, <1>4 DEF VInv, FrameIsStill, NoBufferLost, Works
<1> QED
  BY <1>6, <1>7, <1>8, <1>9 DEF VInv

(* Half of what is left over is the margin on either side. *)
LEMMA Centred ==
  ASSUME NEW whole \in Nat, NEW part \in Nat, part <= whole
  PROVE  (whole - part) \div 2 \in Nat /\ (whole - part) \div 2 + part <= whole
OBVIOUS

(* Zoom and PicMerge: the picture fits, so PicMerge does not refuse it. *)
LEMMA ShowPreserves ==
  ASSUME VInv, Show
  PROVE  VInv'
<1> DEFINE p == IF TooLarge THEN Zoomed ELSE pic
           x == (LcdWidth - p.w) \div 2
           y == (LcdHeigt - p.h) \div 2
<1>1. /\ pc = "show" /\ pc' \in {"put", "exit"} /\ pic' = p
      /\ screen' = IF pic.frame # None /\ p.w <= LcdWidth /\ p.h <= LcdHeigt
                   THEN [frame |-> pic.frame, w |-> p.w, h |-> p.h, x |-> x, y |-> y]
                   ELSE screen
  BY DEF Show
<1>2. UNCHANGED <<queue, ready, image, device, disp, roundsDown, fmt, vsize, iVideoBufCnt, i, cur>>
  BY DEF Show, driver, setup
<1>3. /\ vsize \in VideoSizes /\ pic.w = vsize[1] /\ pic.h = vsize[2]
      /\ image[cur] # None /\ (fmt # "YUYV" => pic.frame = image[cur])
  BY <1>1 DEF VInv, LoopKnows, Works
<1>4. /\ pic \in [frame : Image, w : Nat, h : Nat]
      /\ screen \in [frame : Image, x : Nat, y : Nat, w : Nat, h : Nat]
  BY DEF VInv, TypeOK
<1>5. LcdWidth \in Nat /\ LcdHeigt \in Nat
  BY Video2lcdAssumption
<1>6. <<pic.w, pic.h>> \in VideoSizes
  <2>1. vsize \in (Nat \ {0}) \X (Nat \ {0})
    BY <1>3, Video2lcdAssumption
  <2>2. vsize = <<vsize[1], vsize[2]>>
    BY <2>1
  <2> QED
    BY <1>3, <2>2
<1>7. /\ p \in [frame : Image, w : Nat, h : Nat] /\ p.frame = pic.frame
      /\ p.w <= LcdWidth /\ p.h <= LcdHeigt /\ p.w <= pic.w /\ p.h <= pic.h
  <2>1. CASE TooLarge
    BY <1>4, <1>6, <2>1, ZoomedFits
  <2>2. CASE ~TooLarge
    BY <1>4, <1>5, <2>2 DEF TooLarge
  <2> QED
    BY <2>1, <2>2
<1> HIDE DEF p
<1>8. p.w \in Nat /\ p.h \in Nat
  BY <1>7
<1>9. x \in Nat /\ x + p.w <= LcdWidth /\ y \in Nat /\ y + p.h <= LcdHeigt
  BY <1>5, <1>7, <1>8, Centred
<1> HIDE DEF x, y
<1>10. screen' = IF pic.frame # None
                 THEN [frame |-> pic.frame, w |-> p.w, h |-> p.h, x |-> x, y |-> y]
                 ELSE screen
  BY <1>1, <1>7
<1>11. screen' \in [frame : Image, x : Nat, y : Nat, w : Nat, h : Nat]
  <2>1. pic.frame \in Image
    BY <1>4
  <2> QED
    BY <1>4, <1>8, <1>9, <1>10, <2>1
<1>12. TypeOK'
  BY <1>1, <1>2, <1>7, <1>11 DEF VInv, TypeOK
<1>13. QueueIsSound' /\ QueueGrows'
  BY <1>1, <1>2 DEF VInv, QueueIsSound, QueueGrows
<1>14. LoopKnows'
  BY <1>1, <1>2, <1>3 DEF LoopKnows, Works
<1>15. NoBufferLost'
  BY <1>1, <1>2 DEF VInv, NoBufferLost, Works
<1>16. FrameIsStill'
  <2>1. /\ device = "streaming" => \A k \in 1 .. Len(queue) : queue[k] # cur
        /\ pic.frame \in {image[cur], None}
    BY <1>1 DEF VInv, FrameIsStill, Works
  <2>2. ASSUME fmt # "YUYV"
        PROVE  /\ screen'.frame = image[cur]
               /\ screen'.w = p.w /\ screen'.h = p.h
               /\ screen'.w <= vsize[1] /\ screen'.h <= vsize[2]
               /\ screen'.x + screen'.w <= LcdWidth /\ screen'.y + screen'.h <= LcdHeigt
    <3>1. screen' = [frame |-> pic.frame, w |-> p.w, h |-> p.h, x |-> x, y |-> y]
      BY <1>3, <1>10, <2>2
    <3>2. /\ screen'.frame = pic.frame /\ screen'.w = p.w /\ screen'.h = p.h
          /\ screen'.x = x /\ screen'.y = y
      BY <3>1
    <3> QED
      BY <1>3, <1>7, <1>9, <2>2, <3>2
  <2> QED
    BY <1>1, <1>2, <1>7, <2>1, <2>2 DEF FrameIsStill, Works
<1> QED
  BY <1>12, <1>13, <1>14, <1>15, <1>16 DEF VInv

(* VIDIOC_QBUF at the end of the loop, or nothing *)
LEMMA PutFramePreserves ==
  ASSUME VInv, PutFrame
  PROVE  VInv'
<1>1. pc = "put" /\ pc' = "poll"
  BY DEF PutFrame
<1>2. UNCHANGED <<device, disp, roundsDown, fmt, vsize, iVideoBufCnt, i, cur, pic, screen>>
  BY DEF PutFrame, setup
<1>3. /\ queue' \in Seq(Buffers) /\ ready' \in 0 .. Len(queue') /\ image' \in [Buffers -> Image]
      /\ QueueIsSound'
      /\ device = "streaming" => Len(queue') = Len(queue) + 1
  <2>1. CASE device = "streaming"
    BY <2>1, EnqueueResult DEF PutFrame, VInv, TypeOK
  <2>2. CASE device # "streaming"
    BY <2>2 DEF PutFrame, driver, VInv, TypeOK, QueueIsSound
  <2> QED
    BY <2>1, <2>2
<1>4. TypeOK'
  BY <1>1, <1>2, <1>3 DEF VInv, TypeOK
<1>5. QueueGrows' /\ LoopKnows' /\ FrameIsStill'
  BY <1>1, <1>2 DEF PutFrame, driver, VInv, QueueGrows, LoopKnows, FrameIsStill, Works
<1>6. NoBufferLost'
  <2>1. device = "streaming" => Len(queue) = iVideoBufCnt - 1
    BY <1>1 DEF VInv, NoBufferLost, Works
  <2>2. iVideoBufCnt \in Nat
    BY DEF VInv, TypeOK
  <2> QED
    BY <1>1, <1>2, <1>3, <2>1, <2>2 DEF NoBufferLost, Works
<1> QED
  BY <1>3, <1>4, <1>5, <1>6 DEF VInv

(* The driver writes into a buffer, but never into the one that is shown. *)
LEMMA CapturesPreserves ==
  ASSUME VInv, Captures
  PROVE  VInv'
<1> DEFINE b == queue[ready + 1]
<1>1. /\ device = "streaming" /\ pc \in {"poll", "dqbuf", "convert", "show", "put"}
      /\ ready < Len(queue)
      /\ image' \in [Buffers -> Image]
      /\ \A c \in Buffers : c # b => image'[c] = image[c]
      /\ queue' = queue
      /\ \/ ready' = ready
         \/ ready' = ready + 1 /\ image'[b] # None
  BY DEF Captures, D!Write, D!Fill, D!DataArrives
<1>2. UNCHANGED <<device, disp, roundsDown, pc, fmt, vsize, iVideoBufCnt, i, cur, pic, screen>>
  BY DEF Captures, setup
<1>3. queue \in Seq(Buffers) /\ ready \in 0 .. Len(queue) /\ cur \in Buffers
  BY DEF VInv, TypeOK
<1>4. ready + 1 \in 1 .. Len(queue) /\ b \in Buffers
  BY <1>1, <1>3
<1>5. \A k \in 1 .. ready : k \in 1 .. Len(queue) /\ queue[k] \in Buffers /\ queue[k] # b
  <2> SUFFICES ASSUME NEW k \in 1 .. ready
               PROVE  k \in 1 .. Len(queue) /\ queue[k] \in Buffers /\ queue[k] # b
    OBVIOUS
  <2>1. k \in 1 .. Len(queue) /\ k # ready + 1
    BY <1>3
  <2> QED
    BY <1>3, <1>4, <2>1 DEF VInv, QueueIsSound
<1>6. Works => cur # b
  BY <1>1, <1>4 DEF VInv, FrameIsStill
<1>7. Works => image'[cur] = image[cur]
  BY <1>1, <1>3, <1>6
<1> HIDE DEF b
<1>8. TypeOK'
  <2>1. ready' \in 0 .. Len(queue')
    BY <1>1, <1>3
  <2> QED
    BY <1>1, <1>2, <1>3, <2>1 DEF VInv, TypeOK
<1>9. QueueIsSound'
  <2>1. ASSUME NEW k \in 1 .. ready' PROVE image'[queue'[k]] # None
    <3>1. CASE k \in 1 .. ready
      BY <1>1, <1>5, <3>1 DEF VInv, QueueIsSound
    <3>2. CASE k \notin 1 .. ready
      <4>1. k = ready + 1 /\ ready' = ready + 1
        BY <1>1, <1>3, <3>2
      <4> QED
        BY <1>1, <1>3, <4>1 DEF b
    <3> QED
      BY <3>1, <3>2
  <2>2. \A j, k \in 1 .. Len(queue') : queue'[j] = queue'[k] => j = k
    BY <1>1 DEF VInv, QueueIsSound
  <2> QED
    BY <2>1, <2>2 DEF QueueIsSound
<1>10. QueueGrows' /\ NoBufferLost'
  BY <1>1, <1>2 DEF VInv, QueueGrows, NoBufferLost, Works
<1>11. LoopKnows'
  BY <1>1, <1>2, <1>7 DEF VInv, LoopKnows, Works
<1>12. FrameIsStill'
  BY <1>1, <1>2, <1>7 DEF VInv, FrameIsStill, Works
<1> QED
  BY <1>8, <1>9, <1>10, <1>11, <1>12 DEF VInv

(* A step that changes nothing *)
LEMMA StutterPreserves ==
  ASSUME VInv, UNCHANGED vars
  PROVE  VInv'
BY DEF vars, driver, setup, VInv, TypeOK, QueueIsSound, QueueGrows, LoopKnows, FrameIsStill,
   NoBufferLost, Works

(* Every step of the program and of the driver preserves the invariant. *)
LEMMA NextPreserves == VInv /\ [Next]_vars => VInv'
<1> SUFFICES ASSUME VInv, [Next]_vars PROVE VInv'
  OBVIOUS
<1> QED
  BY CallPreserves, RequestBuffersPreserves, QueueBufferPreserves, GetFramePreserves,
     ReadFramePreserves, ConvertPreserves, ShowPreserves, PutFramePreserves, CapturesPreserves,
     StutterPreserves DEF Next

(* The inductive invariant holds in every reachable state. *)
THEOREM ViewerInvariant == Spec => []VInv
BY InitEstablishes, NextPreserves, PTL DEF Spec

(***************************************************************************)
(* The variables keep their types, whatever number of buffers the driver   *)
(* grants: the loop of v4l2.c that fills pucVideBuf leaves the array only  *)
(* when that number is larger than NB_BUFFER.  A picture is never placed   *)
(* left of or above the LCD.                                               *)
(***************************************************************************)
THEOREM ViewerTypeOK == Spec => []TypeOK
<1>1. VInv => TypeOK
  BY DEF VInv
<1> QED
  BY <1>1, ViewerInvariant, PTL

(***************************************************************************)
(* For every LCD, every size of picture and every number of buffers: the   *)
(* frame on which main.c works does not change under it, and it is shown   *)
(* whole, inside the LCD and not enlarged.                                 *)
(***************************************************************************)
THEOREM FrameAlwaysStill == Spec => []FrameIsStill
<1>1. VInv => FrameIsStill
  BY DEF VInv
<1> QED
  BY <1>1, ViewerInvariant, PTL

(* No path through the loop of main.c keeps a buffer from the driver. *)
THEOREM BuffersNeverLost == Spec => []NoBufferLost
<1>1. VInv => NoBufferLost
  BY DEF VInv
<1> QED
  BY <1>1, ViewerInvariant, PTL
=============================================================================
