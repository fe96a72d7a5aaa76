----------------------------- MODULE Video2lcd ------------------------------
(***************************************************************************)
(* The application, video2lcd/Test: it opens a camera, gets its frames     *)
(* through the V4L2 calls of video/v4l2.c, converts, shrinks and centres   *)
(* them, and copies them into the frame buffer of the LCD (main.c).        *)
(*                                                                         *)
(* The driver on the other side of the calls is FrameQueue, the contract   *)
(* that myuvc and myvivi are shown to keep.  The application works in the  *)
(* very memory the driver fills (pucVideBuf[i] is a mapping), so between   *)
(* VIDIOC_DQBUF and VIDIOC_QBUF the two must not meet.                     *)
(*                                                                         *)
(* A picture is the frame it shows and its size; a frame is a number, and  *)
(* a JPEG that cannot be decoded.  Every frame has the size that           *)
(* VIDIOC_S_FMT has answered.                                              *)
(***************************************************************************)
EXTENDS Integers, Sequences

CONSTANTS
  NB_BUFFER,
  Grants,               (* numbers of buffers VIDIOC_REQBUFS may answer     *)
  LcdWidth, LcdHeigt,   (* spelled as in main.c                             *)
  VideoSizes,           (* sizes <<width, height>> the camera can answer    *)
  Frames                (* numbers that tell frames apart                   *)

(* No picture is so flat or so thin that it shrinks to nothing. *)
ASSUME Video2lcdAssumption ==
  /\ NB_BUFFER \in Nat \ {0}
  /\ Grants \subseteq Nat
  /\ LcdWidth \in Nat \ {0} /\ LcdHeigt \in Nat \ {0}
  /\ \A s \in VideoSizes :
       /\ s \in (Nat \ {0}) \X (Nat \ {0})
       /\ LcdWidth * s[2] > s[1] /\ LcdHeigt * s[1] > s[2]
  /\ Frames \subseteq Nat

(* The buffers that pucVideBuf has room for *)
Buffers == 0 .. NB_BUFFER - 1

VARIABLES
  queue, ready, image,  (* the driver: see FrameQueue                       *)
  device,               (* what the camera offers: "streaming", "readwrite" *)
                        (* or "none" of the two                             *)
  disp,                 (* pixel format of the LCD, "none" if it is another *)
  roundsDown,           (* (int) of a float product that should be whole    *)
                        (* gives one less                                   *)
  pc,                   (* the next call of the application                 *)
  fmt,                  (* ptVideoDevice->iPixelFormat                      *)
  vsize,                (* ptVideoDevice->iWidth, iHeight                   *)
  iVideoBufCnt,         (* the driver's answer to VIDIOC_REQBUFS            *)
  i,                    (* the loop variable of V4l2InitDevice              *)
  cur,                  (* iVideoBufCurIndex                                *)
  pic,                  (* *ptVideoBufCur                                   *)
  screen                (* what the LCD shows, and where                    *)

driver == <<queue, ready, image>>
setup == <<device, disp, roundsDown>>
vars == <<driver, setup, pc, fmt, vsize, iVideoBufCnt, i, cur, pic, screen>>

None == [id |-> -1, ok |-> FALSE]
Image == [id : Frames, ok : BOOLEAN] \cup {None}

D == INSTANCE FrameQueue

NoPicture == [frame |-> None, w |-> 0, h |-> 0]

(***************************************************************************)
(* Types, and the index of pucVideBuf: the loop that maps the buffers      *)
(* leaves the array only when the driver granted more than NB_BUFFER.      *)
(***************************************************************************)
TypeOK ==
  /\ queue \in Seq(Buffers) /\ ready \in 0 .. Len(queue)
  /\ image \in [Buffers -> Image]
  /\ device \in {"streaming", "readwrite", "none"}
  /\ disp \in {"RGB565", "RGB32", "none"}
  /\ roundsDown \in BOOLEAN
  /\ pc \in {"open", "s_fmt", "reqbufs", "map", "queue", "start", "poll", "dqbuf",
             "convert", "show", "put", "overrun", "exit"}
  /\ fmt \in {"YUYV", "MJPEG", "RGB565", "none"}
  /\ vsize \in VideoSizes \cup {<<0, 0>>}
  /\ iVideoBufCnt \in Nat
  /\ i \in 0 .. NB_BUFFER
  /\ i = NB_BUFFER \/ pc = "overrun" => iVideoBufCnt > NB_BUFFER
  /\ cur \in Buffers
  /\ pic \in [frame : Image, w : Nat, h : Nat]
  /\ screen \in [frame : Image, x : Nat, y : Nat, w : Nat, h : Nat]

Init ==
  /\ D!Init
  /\ device \in {"streaming", "readwrite", "none"}
  /\ disp \in {"RGB565", "RGB32", "none"}
  /\ roundsDown \in BOOLEAN
  /\ pc = "open"
  /\ fmt = "none" /\ vsize = <<0, 0>>
  /\ iVideoBufCnt = 0 /\ i = 0 /\ cur = 0
  /\ pic = NoPicture
  /\ screen = [frame |-> None, x |-> 0, y |-> 0, w |-> 0, h |-> 0]

-----------------------------------------------------------------------------
(* V4l2InitDevice *)

(* open, VIDIOC_QUERYCAP, and VIDIOC_ENUM_FMT until a format is supported *)
OpenDevice ==
  /\ pc = "open"
  /\ fmt' \in {"YUYV", "MJPEG", "RGB565"}
  /\ pc' = "s_fmt"
  /\ UNCHANGED <<driver, setup, vsize, iVideoBufCnt, i, cur, pic, screen>>

(* VIDIOC_S_FMT asks for the size of the LCD and takes what it gets. *)
SetFormat ==
  /\ pc = "s_fmt"
  /\ vsize' \in VideoSizes
  /\ pc' = "reqbufs"
  /\ UNCHANGED <<driver, setup, fmt, iVideoBufCnt, i, cur, pic, screen>>

(***************************************************************************)
(* VIDIOC_REQBUFS: any result but 0 is an error, the number of buffers     *)
(* that myuvc returns included.  The driver may grant none, fewer than     *)
(* NB_BUFFER or more.  A camera for read() only gets one buffer of the     *)
(* application's own, a camera that can do neither gets none.              *)
(***************************************************************************)
RequestBuffers ==
  /\ pc = "reqbufs"
  /\ D!Reset
  /\ \E n \in Grants :
       /\ iVideoBufCnt' = IF device = "readwrite" THEN 1 ELSE n
       /\ pc' = IF device = "streaming" /\ n > 0 THEN "map" ELSE "start"
  /\ i' = 0
  /\ UNCHANGED <<setup, fmt, vsize, cur, pic, screen>>

(* One slip away: i <= iVideoBufCnt. *)
MapBufferOneMore ==
  /\ pc = "map" /\ i < NB_BUFFER
  /\ i' = (i + 1) % (iVideoBufCnt + 1)
  /\ pc' = IF i' = 0 THEN "queue" ELSE "map"
  /\ UNCHANGED <<driver, setup, fmt, vsize, iVideoBufCnt, cur, pic, screen>>

(* VIDIOC_QUERYBUF and mmap of one buffer *)
MapBuffer ==
  /\ pc = "map" /\ i < NB_BUFFER
  /\ i' = (i + 1) % iVideoBufCnt
  /\ pc' = IF i' = 0 THEN "queue" ELSE "map"
  /\ UNCHANGED <<driver, setup, fmt, vsize, iVideoBufCnt, cur, pic, screen>>

(***************************************************************************)
(* The same for a buffer that pucVideBuf has no room for: its address is   *)
(* written over ptOPr or over what follows tVideoDevice on the stack of    *)
(* main, and what the program does then is not followed.                   *)
(***************************************************************************)
MapPastArray ==
  /\ pc = "map" /\ i >= NB_BUFFER
  /\ pc' = "overrun"
  /\ UNCHANGED <<driver, setup, fmt, vsize, iVideoBufCnt, i, cur, pic, screen>>

(* VIDIOC_QBUF of one buffer *)
QueueBuffer ==
  /\ pc = "queue"
  /\ D!Enqueue(i)
  /\ i' = (i + 1) % iVideoBufCnt
  /\ pc' = IF i' = 0 THEN "start" ELSE "queue"
  /\ UNCHANGED <<setup, fmt, vsize, iVideoBufCnt, cur, pic, screen>>

(* GetVideoConvertForFormats finds a converter, V4l2StartDevice *)
StartDevice ==
  /\ pc = "start"
  /\ pc' = IF disp = "none" THEN "exit" ELSE "poll"
  /\ UNCHANGED <<driver, setup, fmt, vsize, iVideoBufCnt, i, cur, pic, screen>>

-----------------------------------------------------------------------------
(* The loop of main *)

(* V4l2GetFrameForStreaming, unless the camera is for read(): poll without a timeout ... *)
PollFrame ==
  /\ pc = "poll" /\ device # "readwrite"
  /\ ready > 0
  /\ pc' = "dqbuf"
  /\ UNCHANGED <<driver, setup, fmt, vsize, iVideoBufCnt, i, cur, pic, screen>>

(* ... and VIDIOC_DQBUF *)
GetFrame ==
  /\ pc = "dqbuf"
  /\ D!Dequeue
  /\ cur' = Head(queue)
  /\ pic' = [frame |-> image[cur'], w |-> vsize[1], h |-> vsize[2]]
  /\ pc' = "convert"
  /\ UNCHANGED <<setup, fmt, vsize, iVideoBufCnt, i, screen>>

(* V4l2GetFrameForReadWrite: the driver copies a frame into the buffer. *)
ReadFrame ==
  /\ pc = "poll" /\ device = "readwrite"
  /\ \E f \in Image \ {None} :
       /\ image' = [image EXCEPT ![0] = f]
       /\ pic' = [frame |-> f, w |-> vsize[1], h |-> vsize[2]]
  /\ cur' = 0
  /\ pc' = "convert"
  /\ UNCHANGED <<queue, ready, setup, fmt, vsize, iVideoBufCnt, i, screen>>

(***************************************************************************)
(* The converters.  tConvertBuf.iPixelFormat stays 0, so Yuv2RgbConvert    *)
(* takes neither branch and Rgb2RgbConvert ends in its last line; only     *)
(* Mjpeg2RgbConvert does not look at it.                                   *)
(***************************************************************************)
ConvertFails ==
  CASE fmt = "MJPEG"  -> ~image[cur].ok
    [] fmt = "RGB565" -> disp # "RGB565"
    [] fmt = "YUYV"   -> FALSE

Convert ==
  /\ pc = "convert"
  /\ pc' = IF ConvertFails THEN "exit" ELSE "show"
  /\ pic' = [pic EXCEPT !.frame = IF fmt = "YUYV" THEN None ELSE image[cur]]
  /\ UNCHANGED <<driver, setup, fmt, vsize, iVideoBufCnt, i, cur, screen>>

(* (int)(a * ((float)b / c)) *)
Scale(a, b, c) ==
  LET q == (a * b) \div c IN IF roundsDown /\ (a * b) % c = 0 THEN q - 1 ELSE q

TooLarge == pic.w > LcdWidth \/ pic.h > LcdHeigt

(* One slip away: only the width is looked at. *)
ZoomedWidthOnly ==
  [pic EXCEPT !.w = LcdWidth, !.h = Scale(LcdWidth, pic.h, pic.w)]

(* The picture after PicZoom: the width of the LCD, or its height. *)
Zoomed ==
  LET h == Scale(LcdWidth, pic.h, pic.w) IN
    IF h > LcdHeigt
    THEN [pic EXCEPT !.w = Scale(LcdHeigt, pic.w, pic.h), !.h = LcdHeigt]
    ELSE [pic EXCEPT !.w = LcdWidth, !.h = h]

(***************************************************************************)
(* Zoom, PicMerge and the flush, which finds the pixels already in the     *)
(* frame buffer.  PicMerge refuses a picture that is larger than the LCD,  *)
(* and nobody looks at what it returns.  A picture without pixel data is   *)
(* read through a null pointer by PicZoom; PicMerge copies lines of no     *)
(* bytes.                                                                  *)
(***************************************************************************)
Show ==
  /\ pc = "show"
  /\ LET p == IF TooLarge THEN Zoomed ELSE pic IN
       /\ screen' = IF pic.frame # None /\ p.w <= LcdWidth /\ p.h <= LcdHeigt
                    THEN [frame |-> pic.frame, w |-> p.w, h |-> p.h,
                          x |-> (LcdWidth - p.w) \div 2, y |-> (LcdHeigt - p.h) \div 2]
                    ELSE screen
       /\ pic' = p
  /\ pc' = IF pic.frame = None /\ TooLarge THEN "exit" ELSE "put"
  /\ UNCHANGED <<driver, setup, fmt, vsize, iVideoBufCnt, i, cur>>

(* One slip away: a frame that was not shown is not given back. *)
PutFrameIfShown ==
  /\ pc = "put"
  /\ IF device = "streaming" /\ pic.frame # None THEN D!Enqueue(cur) ELSE UNCHANGED driver
  /\ pc' = "poll"
  /\ UNCHANGED <<setup, fmt, vsize, iVideoBufCnt, i, cur, pic, screen>>

(* V4l2PutFrameForStreaming is VIDIOC_QBUF, that for read() does nothing. *)
PutFrame ==
  /\ pc = "put"
  /\ IF device = "streaming" THEN D!Enqueue(cur) ELSE UNCHANGED driver
  /\ pc' = "poll"
  /\ UNCHANGED <<setup, fmt, vsize, iVideoBufCnt, i, cur, pic, screen>>

(* A call fails: main returns, and the process ends. *)
CallFails ==
  /\ pc \notin {"convert", "show", "overrun", "exit"}
  /\ pc' = "exit"
  /\ UNCHANGED <<driver, setup, fmt, vsize, iVideoBufCnt, i, cur, pic, screen>>

(* The driver, once VIDIOC_STREAMON has been called *)
Captures ==
  /\ pc \in {"poll", "dqbuf", "convert", "show", "put"} /\ device = "streaming"
  /\ D!Write \/ D!Fill
  /\ UNCHANGED <<setup, pc, fmt, vsize, iVideoBufCnt, i, cur, pic, screen>>

Next ==
  \/ OpenDevice \/ SetFormat \/ RequestBuffers \/ MapBuffer \/ MapPastArray \/ QueueBuffer \/ StartDevice
  \/ PollFrame \/ GetFrame \/ ReadFrame \/ Convert \/ Show \/ PutFrame
  \/ CallFails
  \/ Captures

Spec == Init /\ [][Next]_vars

(***************************************************************************)
(* The process is scheduled, and the driver goes on to fill what it is     *)
(* given (for myuvc that is Circulates of MyuvcCapture, for myvivi         *)
(* WaiterServed of Myvivi).                                                *)
(***************************************************************************)
FairSpec ==
  /\ Spec
  /\ WF_vars(PollFrame \/ GetFrame \/ ReadFrame \/ Convert \/ Show \/ PutFrame)
  /\ WF_vars(Captures /\ ready' > ready)

-----------------------------------------------------------------------------
(* Properties *)

Works == pc \in {"convert", "show", "put"}

(***************************************************************************)
(* From VIDIOC_DQBUF to VIDIOC_QBUF the picture on which the application   *)
(* works is still: the driver does not have its buffer, and what is shown  *)
(* in the end is the frame that was dequeued, whole, inside the LCD and    *)
(* never larger than the camera sent it.  (A YUYV camera shows nothing.)   *)
(***************************************************************************)
FrameIsStill ==
  Works =>
    /\ device = "streaming" => \A k \in 1 .. Len(queue) : queue[k] # cur
    /\ pic.frame \in {image[cur], None}
    /\ pc = "put" /\ fmt # "YUYV" =>
         /\ screen.frame = image[cur]
         /\ screen.w = pic.w /\ screen.h = pic.h
         /\ screen.w <= vsize[1] /\ screen.h <= vsize[2]
         /\ screen.x + screen.w <= LcdWidth /\ screen.y + screen.h <= LcdHeigt

(***************************************************************************)
(* The driver never runs out of buffers, on any path through the loop: it  *)
(* has all it granted while the application waits in poll, and all but the *)
(* one on which the application works otherwise.                           *)
(***************************************************************************)
NoBufferLost ==
  device = "streaming" =>
    /\ pc \in {"poll", "dqbuf"} => Len(queue) = iVideoBufCnt
    /\ Works => Len(queue) = iVideoBufCnt - 1

(* There is something for poll or read() to wait for. *)
CanDeliver == device = "readwrite" \/ (device = "streaming" /\ iVideoBufCnt > 0)

(***************************************************************************)
(* The loop goes on: every wait for a frame ends with a frame given back,  *)
(* unless a call fails or a frame cannot be decoded, if only the driver    *)
(* granted one buffer.  (With none, poll waits for ever.)                  *)
(***************************************************************************)
Refreshes == (pc = "poll" /\ CanDeliver) ~> (pc \in {"put", "exit"})

-----------------------------------------------------------------------------
(* The inductive invariant of Video2lcdProofs *)

(* The driver has no buffer twice, and the filled ones hold a frame. *)
QueueIsSound ==
  /\ \A j, k \in 1 .. Len(queue) : queue[j] = queue[k] => j = k
  /\ \A k \in 1 .. ready : image[queue[k]] # None

(* How many buffers the driver has got, before the loop is entered. *)
QueueGrows ==
  /\ device # "streaming" => queue = <<>>
  /\ pc = "map" => queue = <<>> /\ i < iVideoBufCnt
  /\ pc = "queue" => Len(queue) = i /\ i < iVideoBufCnt /\ iVideoBufCnt <= NB_BUFFER
  /\ pc = "start" /\ device = "streaming" => Len(queue) = iVideoBufCnt

(* What the application knows at each point of the loop. *)
LoopKnows ==
  /\ pc \in {"reqbufs", "map", "queue", "start", "poll", "dqbuf", "convert", "show", "put"} =>
       vsize \in VideoSizes
  /\ pc = "dqbuf" => device = "streaming"
  /\ pc \in {"map", "queue"} => device = "streaming"
  /\ Works => image[cur] # None
  /\ pc \in {"convert", "show"} => pic.w = vsize[1] /\ pic.h = vsize[2]
  /\ pc = "show" /\ fmt # "YUYV" => pic.frame = image[cur]

VInv == TypeOK /\ QueueIsSound /\ QueueGrows /\ LoopKnows /\ FrameIsStill /\ NoBufferLost
=============================================================================
