# Verification of the drivers in USB_CAMERA

The repository is a course on Linux video and sound drivers for the S3C2440
(one ARM processor) and the applications that use them, next to a copy of
linux-3.4.2.  Each driver is developed in numbered steps; the highest number is
the finished one.  This directory holds TLA+ models of the finished drivers,
TLC configurations for small instances, and TLAPS proofs.

The core is the USB camera driver `src/myuvc/10_th/uvc.c`, modelled in seven
modules.  Beside it stand the virtual camera `src/myvivi/6_th/vivi.c` and the
application `src/video2lcd/Test`.  All three meet in one abstract specification,
FrameQueue: the two drivers are shown to keep it, and the application is checked
on top of it.

## Inventory

| Component | State it keeps | Operations | Status |
|---|---|---|---|
| myuvc buffer queue, `uvc.c` 236-400, 600-829, 982-1018 | `myuvc_queue.buffer[]` (state, bytesused), the lists `mainqueue` and `irqqueue`, the statics `fid` and `last_fid` | REQBUFS, QBUF, DQBUF, poll; the packet loop of `myuvc_video_complete` | MyuvcQueue, FrameQueue, MyuvcQueueProofs |
| myuvc list operations | the `list_head`s in each buffer | `list_add_tail` in QBUF, `list_del` in the handler | MyuvcIrqRace, MyuvcIrqRaceProofs |
| myuvc URBs, 832-978, 1030-1049 | `urb[]`, `urb_buffer[]`, what the USB core holds, the alternate setting | STREAMON, STREAMOFF, close, resubmission | MyuvcUrb, MyuvcUsbProofs |
| myuvc buffer memory, 182-350, 1265-1344 | `myuvc_format`, `mem`, `buf_size`, `vma_use_count`, the page tables of the application | S_FMT, REQBUFS, QUERYBUF, mmap, `vm_open`, `vm_close` | MyuvcBuffers, MyuvcBuffersProofs |
| myuvc brightness, 1059-1227 | the camera's register | QUERYCTRL, G_CTRL, S_CTRL | MyuvcCtrl, MCMyuvcCtrl, MyuvcUsbProofs |
| a capture session | all of the above | the calls `uvc.c` numbers A7 to A18, in that order | MyuvcCapture, MCMyuvcCapture, MyuvcCaptureProofs |
| myuvc probe, disconnect, stream negotiation, 431-597, 917-942, 1389-1518 | `cnt` (twice), `myuvc_vdev`, `myuvc_udev`, the interface numbers, `myuvc_params` | insmod, rmmod, probe, disconnect, PROBE/COMMIT requests, STREAMON, open, close | MyuvcDevice, MyuvcDeviceProofs |
| myvivi, `src/myvivi/6_th/vivi.c` with `videobuf-core.c`, `videobuf-vmalloc.c` | videobuf's `stream` list and buffer states, `myvivi_vb_local_queue`, the timer, the format | open, close, S_FMT, REQBUFS, mmap, munmap, QBUF, STREAMON, STREAMOFF, DQBUF, poll, the timer function | Myvivi, FrameQueue, MyviviProofs |
| video2lcd, `src/video2lcd/Test` | V4L2 state of the application, the current picture, the frame buffer of the LCD | InitDevice, StartDevice, GetFrame, Convert, zoom and merge, PutFrame | Video2lcd, MCVideo2lcd, Video2lcdProofs |
| CMOS OV7740, `src/CMOS/5_th/cmos_ov7740_drv.c` | | | not modelled, see below |
| ALSA UDA1341, `src/Alsa/8_th` | | | not modelled, see below |
| linux-3.4.2 | | | vendored; only what the drivers call is modelled |

How the parts interact.  The application calls the ioctls.  The V4L2 core runs them
under a mutex, all but DQBUF (`v4l2-dev.c` 350-363); on one processor, and with DQBUF
not sleeping in the driver, that makes no difference to an application that makes one
call after the other, and the models have one.  STREAMON submits URBs; when one
completes, the host controller's interrupt runs `myuvc_video_complete`, which decodes up
to 32 isochronous packets into the first buffer of `irqqueue`, wakes the application
when a frame is complete and submits the URB again.  The ioctls and the handler share
`myuvc_queue` without a lock.  REQBUFS clears the whole of `myuvc_queue`: lists, states,
mapping counts and the pointers to the URBs, but not `fid` and `last_fid`, which are
statics outside of it.  Probe and disconnect know a camera only by how often they have
been called, and share `myuvc_params` with STREAMON.

In myvivi a timer takes the place of the interrupt.  videobuf, in the kernel, keeps
the order of the buffers and decides whom DQBUF and poll wait for; the driver
keeps a second list, from which the timer fills a buffer only while somebody
waits on it.  video2lcd works directly in the mapped buffers, and gives each back
when it has been shown.

What is hard.  The interrupt that arrives in the middle of an ioctl; packets
that are lost, among them the ones that mark a frame boundary; state that
survives a restart, or is cleared while somebody else still relies on it;
STREAMON failing at the third of five URBs; REQBUFS at the wrong moment; a queue
that runs dry; cameras that come and go, while the node is open or probe is still
negotiating; two lists that have to agree; waiting for a buffer nobody will fill;
arithmetic on sizes and signs.  `PROJECT.json` lists each at its
line, under `hazards`, with the properties that are about it.

## Modules

**MyuvcQueue** models the queue.  A step is an ioctl or one iteration of the packet
loop; each path through the loop is an action (`PacketSkipped`,
`PacketNoBuffer`, `PacketOutOfSync`, `PacketNewFrame`, `PacketStored`) and
`VideoComplete` is their disjunction.  The handler's variable `buf` needs no
variable: after each iteration it is the first buffer of `irqqueue`.  A packet is
a record: whether it is accepted, its FID and EOF bits, the length of its
payload, the number of the frame it belongs to and whether a JPEG header is
found in it.  Any packet may arrive at any time, so loss, repetition and
reordering need no action of their own.  The history variable `content` says of
which frames a buffer has data.  `ip2970` is fixed in the initial state: for
cameras with that chip the driver makes up the FID from the JPEG headers.
`oops` is set when the kernel follows a list head that REQBUFS has left zero;
nothing is said about what comes after.

**FrameQueue** is what the queue promises, without lists, states or FIDs: buffers
are filled and come back in the order they were queued, only the oldest
unfilled one is ever written, and what it holds is fixed, and not empty, when it
becomes ready.  MyuvcQueue implements it with `queue <- mainqueue`,
`ready <- Len(mainqueue) - Len(irqqueue)`, `image <- content`.

**MyuvcIrqRace** takes `irqqueue` pointer by pointer.  QBUF is four steps, with
the pointer writes of `__list_add` in the order of `list.h`, and the handler can
start between any two of them; the handler then runs to its end, as an interrupt
does on one processor.  It shows how far the sequence in MyuvcQueue can be
trusted.

**MyuvcUrb** models the URB arrays, the URBs the USB core holds and the transfer
buffers that are allocated.  `AfterSetInterface` is `usb_set_interface`, which may
fail (its result is ignored) and otherwise cancels what is in flight on the old
setting.  STREAMON has an action for each way it can end.

**MyuvcBuffers** models the block behind the buffers and the pages a mapping
shows.  `PAGE_ALIGN`, the offsets, the search in mmap and the pages it takes, from the
offset of the buffer it found, are computed as the code does.  An application may ask
mmap for any number of whole pages, up to one more than a buffer can have.

**MyuvcCtrl** has the two loops `myuvc_get_le_value` and `myuvc_set_le_value` with
the 8-bit mask, the shifts and the sign extension as the code has them, and the
three ioctls with transfers that may fail.  The bytes of the uninitialised
`data[2]` are chosen from `Stack`.  **MCMyuvcCtrl** holds the values for the run.

**MyuvcCapture** composes MyuvcQueue and MyuvcUrb (`Q == INSTANCE MyuvcQueue`,
`U == INSTANCE MyuvcUrb WITH mem <- count > 0`) with a camera that sends
`PktsPerFrame` packets per frame, and an application that makes the numbered
calls.  A packet only arrives while a URB is in flight.  STREAMON may fail at any URB;
STREAMOFF may fail to bring the camera back to setting 0, which nobody notices
(`uvc.c` 1046); a URB may complete with an error, which loses what it brought
(`UrbFails`, 627-635), or be decoded and not be submitted again (`UrbNotResubmitted`,
826-828).  The history variable `mishaps` says which of the two ioctls have failed
since REQBUFS was last called at setting 0.  **MCMyuvcCapture** holds the symmetry of
the URBs for the run.

**MyuvcDevice** models what the two counters do.  The USB core works through a list
of jobs, `todo`: a camera that is plugged in is probed once per interface, one that
is pulled out is disconnected once per interface and then freed; insmod and rmmod
do the same for every camera that is there, in any order.  `probe_cnt` and
`disc_cnt` are the static `cnt`s, and decide alone when the node is registered
(`Registers`) and freed (`Unregisters`).  The three messages of the negotiation are
steps of their own, in probe and in STREAMON, because each sleeps; a message may
fail (`Faults`) and always fails on a device that is on its way out.  Interface numbers
are records that say whose they are: they stay the first camera's while `myuvc_udev`
becomes that of every camera probed, and a message with another camera's number may
succeed or not (`Addressed`).  `video_device_alloc` and `video_register_device` may fail
too; the first is a null pointer in probe, the second leaves a `video_device` without a
node.  A camera is
named by the frame size it answers, and `Packets` computes the packets per URB from
it.  What becomes of single URBs is left to MyuvcUrb.  `UsesFreed` is any call that
reaches a freed `video_device` or `usb_device`; nothing is said about what comes
after.

**Myvivi** models the driver together with the videobuf functions it calls, since
neither makes sense alone: `stream` is videobuf's list, `local` the list of the timer.
A call that has to wait is split in two (`DqbufSleeps`, `DqbufWakes`; `PollSleeps`,
`PollWakes`), with `on` the buffer it waits on; everything else runs under videobuf's
lock and is one step.  `PollStartsReading` is what poll does when nothing streams:
videobuf then prepares buffers for `read()`, for which this driver has no memory.
`broken` is set when the timer writes outside of a buffer or a second open restarts a
pending timer, and `misused` when the application has done one of the things vivi.c
relies on it not to do.  `map` is the length of a mapping: videobuf allocates as much as
the application maps, and does not compare it with the size of the buffer, so a mapping
that is shorter is one of those things.  A buffer that is mapped again leaves its old
mapping behind (`strays`), whose `munmap` still cancels the queue.  Allocations of kernel
memory succeed.  Buffers it fills are "white", as the `memset` makes them.

**Video2lcd** models `main` and `video/v4l2.c` call by call, with FrameQueue
(`D == INSTANCE FrameQueue`) as the driver: `D!Enqueue`, `D!Dequeue` and `D!Reset` are
QBUF, DQBUF and REQBUFS, and `D!Write` and `D!Fill` happen whenever the driver likes.
A picture is the frame it shows and its size; `Convert` says which converter yields
one; `Scale` is the float product of `main`, which may come out one too small when
it should be whole (`roundsDown`).  The driver may grant any number of buffers
(`Grants`): none, after which poll waits for ever; fewer than `NB_BUFFER`; or more, and
then the loop that maps them writes past `pucVideBuf` (`MapPastArray`), after which the
program is not followed.  A camera can do streaming, `read()` or neither.
**MCVideo2lcd** holds the sizes for the run.

**MyuvcQueueProofs**, **MyuvcBuffersProofs**, **MyuvcIrqRaceProofs**,
**MyuvcCaptureProofs**, **MyuvcDeviceProofs**, **MyviviProofs** and **Video2lcdProofs**
hold the theorems about the modules they are named after; **MyuvcUsbProofs** has those
about the two modules of USB transfers, MyuvcUrb and MyuvcCtrl, and extends both (which
is why the names of MyuvcCtrl say `CtrlInit`, `CtrlSpec`).  The invariants they prove
inductive stand in those modules, under "Why they hold", where TLC can check them too.

A definition whose comment says "One slip away" is not part of the model: it is
the definition below it with a plausible mistake, kept to show that the
properties notice it.

## Runs

| Run | Shows |
|---|---|
| queue | `ListsAgree`, `StateTellsPlace`: the lists never drift apart although three functions change them, and a buffer's state says where it is. `FramesNotJoined`, `FidTracks`: with a camera that toggles FID, two consecutive frames never end up in one buffer, whatever is lost; with the ip2970, whose FID the driver makes up from the JPEG headers, a frame whose header packet is lost is added to the one before it, but two frames whose headers were seen are never joined. `DoneNotEmpty`. `DataStable`: nothing touches a finished buffer until it is queued again. `HeaderFirst` for the ip2970. `ImplementsFrameQueue`. |
| urbs | `PointersGood`: wherever STREAMON fails, nothing is freed twice and no slot is half filled. `QuietWhenIdle`: at setting 0 nothing is in flight, not even URBs whose pointers were lost. |
| irqqueue | `OnlyTornListsBreak`: a completion in the middle of QBUF is harmless unless it removes the very entry that QBUF has read as the last. `NeverFollowsPoison`, `FinishedIsOffList`: even then no poisoned pointer is written through and no finished buffer is filled again. |
| session | `WholeFrames`: with EOF, every buffer the application gets is one whole frame, although the queue runs dry, sessions start and stop, STREAMON fails, URBs are not submitted again and `last_fid` survives all of it; until a packet is lost (a URB that completes with an error loses packets) or STREAMOFF leaves the camera at the streaming setting. `NoDmaWithoutBuffers`: it takes a failed STREAMON and a failed STREAMOFF for a completion to find zeroed list heads. `DmaHasMemory`: only a failed STREAMON frees a transfer buffer under a URB in flight. `NoBufferLeaked`: the arrays know every transfer buffer that is allocated, although REQBUFS clears and STREAMON overwrites them. |
| session_live | `Circulates`: with a camera that never sets EOF, with lost packets and with restarts that keep the old queue, every buffer is filled again while streaming goes on and one URB is left; a URB that fails is never submitted again. |
| mappings | `MappedIsFilled`: a mapping shows the pages the handler writes for its buffer and none of another. `MappedFlagTrue`: the MAPPED flag is right unless something was mapped during REQBUFS. |
| brightness | `ReadsBack`, `RangeIsReal`: 16-bit values survive the byte loops in both directions. |
| device | `NodeHasDevice`: as long as there is a node it leads to a device that exists, and both interface numbers belong to one camera that exists, however many come and go; it is the device the node leads to until a second camera is probed. `FreedOnce`. `NodeUntilFirstUnplug`: what the counters do guarantee: a `video_device` from the first camera to the first unplugging, and none after that until the module is loaded again. `StreamMatches`: an undisturbed stream runs on the camera it was negotiated with, in URBs sized for the frame that camera is committed to, although STREAMON ignores failing messages; the size is not claimed for a camera that is addressed with the interface number of another. |
| myvivi | `ListsAgree`: the list of the timer is always the QUEUED part of videobuf's list. `QuietWhenStopped`: nothing is left on the static list after STREAMOFF, munmap or close. `CarefulIsSafe`: the timer never writes outside a buffer unless the application misused the driver. `WaiterServed`: DQBUF and poll end. `KeepsContract`: the driver implements FrameQueue. |
| viewer | `TypeOK`: the index of `pucVideBuf` leaves the array only when the driver granted more than `NB_BUFFER` buffers. `FrameIsStill`: what the application works on is not the driver's, and what it shows is the frame it dequeued, inside the LCD. `NoBufferLost`, `Refreshes`: every path through the loop gives the buffer back, and the loop goes on if a single buffer was granted. |

Two runs show where the code does not do what a document says; the findings in
`PROJECT.json` quote it.

| Run | What happens |
|---|---|
| irqqueue_buffer_lost | QBUF has read the last entry; the handler finishes and removes it; QBUF links the new buffer behind it. The buffer is QUEUED and on no list the handler will find. |
| unplug_while_open | The camera is pulled out while the node is open; the second `myuvc_disconnect` frees the `video_device` at once, and the next call of the application, `close` included, goes through it. |

Other disagreements with the documentation were met while modelling and have no run of
their own.  When a URB cannot be submitted, STREAMON frees the transfer buffers of those
already in flight (the exception in `DmaHasMemory`).  If the application then closes and
`usb_set_interface` fails in STREAMOFF, these URBs stay in flight over a queue that the
next REQBUFS clears (the exception in `NoDmaWithoutBuffers`).  Once a second camera is
plugged in, the driver sends it messages for the interfaces of the first.  REQBUFS with
count 0 does not end the transfers.  A camera that never sets EOF loses the first packet
of every frame, and STREAMOFF leaves a half-filled buffer for the next session:
`WholeFrames` is therefore checked for a camera with EOF and sessions that begin with
REQBUFS.  Once the commit message alone fails, the camera keeps its old frame and
STREAMON does not notice: `StreamMatches` is checked with every fault but "set".
REQBUFS of myuvc returns the number of buffers, which video2lcd takes for an error, and
video2lcd maps with `PROT_READ` alone, which videobuf refuses (`videobuf-core.c` 1185):
the application runs on neither driver of this repository, and Video2lcd is about one
that accepts its calls. A driver that grants more than four buffers, as
`vidioc-reqbufs.xml` 68-71 allows, makes it overrun `pucVideBuf`.  A YUYV picture is
never shown, since `main` does not say which format it wants.

### Bounds

*queue*: two buffers, so that one can be filled while the other is done, queued or with
the application; room for two bytes and payloads of 0, 1 and 3, so that a packet can be
empty, fit, fill up and overflow; three frames, two of which share a FID, since FIDs
tell only neighbours apart.  *urbs*: two slots and enough URBs for two STREAMONs whose
pointers were lost.  *irqqueue*: three buffers, so that the entry being removed can be
first, last or between.  *session*: two buffers, two slots and a third URB for those
that are known to nobody, three packets per frame (first, middle, last), two frames, so
that each packet's neighbours are another frame's, and one loss, after which
`WholeFrames` claims nothing; URBs are interchangeable (`UrbSymmetry`). *session_live*:
two URBs, so that one can be left, two packets per frame and one that may be lost; whole
frames are missed while the queue is dry or the stream is stopped, after which the FID
may be the one from before.  *mappings*: three buffers, four mappings, pages of four
bytes and images of ten, so that a buffer is three pages, the last of them partly used,
and mappings of one to four pages are asked for.  *brightness*: all pairs of nine bytes
around the places where a sign or a carry can go wrong.  *device*: two cameras, whose
frames need fewer packets than the limit and more, and six calls of probe between two
insmod: three pluggings, so that a camera can come back after the counters have passed
two. *myvivi*: three buffers, so that there is one between the first and the last; two
sizes of images and of mappings, so that a mapping can be too short, fit and be too
long; one old mapping.  *viewer*: room for two buffers and grants of none to three;
pictures that fit the LCD, are as large as it, and are larger in one or both directions.
The frame counter of the camera wraps at an even number, so FIDs keep alternating; the
losses are bounded by `MaxLoss`, as without a bound every packet may be lost.

Deadlock is not checked in *queue*, *session*, *device*, *myvivi* and *viewer*: after
`oops`, after `broken` and after the process has ended or has left its array nothing
happens any more, and in *device* `MaxCnt` ends the pluggings.

### Fairness

`FairSpec` of MyuvcCapture has two assumptions.  Packets keep arriving while a URB is in flight:
the host controller polls an isochronous endpoint in every USB frame, and the
handler submits the URB again.  The application queues a buffer it holds: that is
the loop A13 to A15.  DQBUF, STREAMOFF and REQBUFS get no fairness; an
application may stop dequeuing, and `Circulates` does not need it to go on.

`FairSpec` of Myvivi: the timer starts itself again on every path
(`mod_timer` at `out:`), and a process that has been woken is scheduled.  Signals and
timeouts (`GivesUp`) get no fairness.

`FairSpec` of Video2lcd: the process is scheduled, and the driver fills what it was
given, which is `Circulates` for myuvc and `WaiterServed` for myvivi.

## Proofs

MyuvcQueueProofs proves, for any number and size of buffers, any payload sizes
and frame numbers and both kinds of camera:

- `QueueInvariant`: `Spec => []IInv`;
- `QueueTypeOK`, `ListsAlwaysAgree`, `StateAlwaysTellsPlace`, `FramesNeverJoined`,
  `FidAlwaysTracks`, `NeverDoneEmpty`: the invariants that follow from it;
- `DataAlwaysStable`, `HeaderAlwaysFirst`: action properties;
- `QueueImplementsFrameQueue`: the refinement, each step of the driver mapped to a
  step of FrameQueue or a stutter.

The only assumption is `QueueAssumption`: there is at least one buffer and room
for at least one byte, and payload sizes and frame numbers are naturals.

None of the properties is inductive alone, and `IInv` is their conjunction.
`ListsAgree` needs `StateTellsPlace` to know that the buffer DQBUF takes is not on
`irqqueue`; `StateTellsPlace` needs `ListsAgree` to know that the buffer the handler
completes is the first on `mainqueue` that is not DONE.  `FramesNotJoined` needs
that a buffer holds data of one FID as the handler computes it (`OneFid`), and this
`FidTracks`: what the buffer being filled holds carries `last_fid`, and a buffer that
has not been started is empty.  For that `StateTellsPlace` is needed again: when
`last_fid` changes without a buffer, `irqqueue` is empty and no buffer is ACTIVE.
The lemmas `HeadOfIrqqueue`, `CompletionKeepsLists` and `ActivationKeepsLists` carry
the part about sequences; there is one lemma per action, and `NextPreserves`
combines them.

For MyuvcUrb, MyuvcUsbProofs proves `UrbTypeOK`, `PointersAlwaysGood` and
`AlwaysQuietWhenIdle` for any number of URBs and any amount of memory, from
`UrbAssumption` (at least one slot; NULL is not a URB).  The invariant is `UInv`, the type
invariant with the two properties:
`QuietWhenIdle` is what makes a STREAMON harmless whose `usb_set_interface` fails at
setting 0, and `PointersGood` is restored by every exit of STREAMON since each leaves
the arrays either empty or full.

Video2lcdProofs proves `ViewerInvariant`, and from it `ViewerTypeOK`, `FrameAlwaysStill`
and `BuffersNeverLost`, for any size of the array, any number of buffers the driver may
grant, any LCD and any picture sizes that do not shrink to nothing
(`Video2lcdAssumption`).  `VInv` adds to the properties
that the driver has no buffer twice and that its filled ones hold a frame
(`QueueIsSound`), how many buffers it has while they are being queued (`QueueGrows`), and
what the application knows at each point of the loop (`LoopKnows`).  The arithmetic,
that a zoomed picture fits the LCD and is not larger than the camera's however the
product is rounded, is in the lemmas `ScaleBounds`, `FitsByWidth`, `FitsByHeight` and
`ZoomedFits`; `Scale` multiplies two variables, so the steps that need it state the
products they compare.

MyuvcIrqRaceProofs proves `PoisonNeverFollowed`, `FinishedAlwaysOffList` and
`AlwaysOnlyTornListsBreak` for any finite set of buffers.  `RInv` (`RaceInvariant`) says
that some sequence of distinct buffers is linked in both directions behind `HEAD`
(`Linked`), that QBUF, at whichever of its writes it was interrupted, is about to link
behind the last of them (`QbufAtEnd`), that the handler works on the first
(`HandlerAtFirst`), and that `mainqueue` is the finished buffers and then that sequence
(`InOrder`).  The reason why a torn list is not worse than a lost buffer is in `Ends`: QBUF
can be wrong about the last entry only when that entry was also the first, so the
list it spoils is empty.  `Chain`, the walk along the pointers, is shown to be that
sequence with the least step at which the two could differ (`LeastNumber`,
`HopFollows`, `ListIsShort`, `ChainFollows`); this is the only place where something
like an induction over a list is needed.

MyuvcCaptureProofs proves `NeverDmaWithoutBuffers`, `DmaAlwaysHasMemory` and
`BuffersNeverLeaked`, whatever fails, whatever is lost and whether or not the application
asks for its buffers anew.  `SInv` (`SessionInvariant`) ties the point the application has
reached to the buffers and URBs there are (`SessionInStep`): outside of a stream the arrays
are empty, and before STREAMON the camera is at setting 0, where nothing is in flight,
unless STREAMOFF has failed.  The lemma `SessionUsesQueue` shows that a session is a
behaviour of MyuvcQueue, so that the queue's `IInv` holds in it and need not be proved
again.  On top of it `AlwaysWholeFrames` needs `FrameInStep`: until something is lost or
STREAMOFF fails, a buffer that is being filled has every packet of the current frame so
far, and `last_fid` is that frame's.  Its hypotheses are the conditions under which the
code keeps the promise at all: EOF is sent, a frame fits a buffer, and a session begins
with REQBUFS; the paragraph on disagreements above says what happens otherwise.
`CaptureAssumption` asks for an even number of frame numbers, so that FIDs alternate when
the counter wraps.

MyuvcBuffersProofs proves `BuffersTypeOK`, `MappedAlwaysFilled` and `MappedFlagAlwaysTrue`
for any page size, image size, number of buffers and finite set of mappings.  `BInv`
(`BuffersInvariant`) adds that the buffers lie side by side in whole pages
(`SideBySide`), that `vma_use_count` lags behind the number of mappings by at most those
that REQBUFS has forgotten (`UseCounted`), and that there are none of those unless
something is orphaned (`StaleIsOrphaned`).

For MyuvcCtrl, MyuvcUsbProofs proves `AlwaysReadsBack` and `RangeAlwaysReal` for every
range of 16-bit values, every value an application may ask for and every content of the
stack.  The two loops run over two bytes, so the lemmas unfold them and show what masks
and shifts come to in arithmetic; `CInv` (`CtrlInvariant`) adds that the camera never
takes a value out of its range (`CameraInRange`).

MyuvcDeviceProofs proves `DeviceTypeOK`, `NodeAlwaysHasDevice`, `AlwaysFreedOnce`,
`NodeAlwaysUntilFirstUnplug` and `StreamAlwaysMatches` for any cameras, any bound on the calls
of probe and any set of failing calls, except that for the last the commit must
not fail (the paragraph on disagreements says why).  The properties
speak of the counters, and the counters make sense only with the jobs of the USB core:
`DInv` (`DeviceInvariant`) says what the counters tell of the node (`CountersTell`), that
probing and disconnecting are never mixed in `todo` (`JobsInOrder`), that a counter is
odd only in the middle of a job (`CountersInStep`), that the node ends before a device
goes (`NodeGoesFirst`), and for the stream who may have one (`StreamNeedsUser`) and what
`myuvc_params` holds after each message (`NegotiationInStep`).

MyviviProofs proves `ViviTypeOK`, `ViviListsAgree`, `AlwaysQuietWhenStopped`,
`CarefulAlwaysSafe` and, through FrameQueue, `ViviKeepsContract` for any number of
buffers and any sizes of images and mappings, from `MyviviAssumption` (there is a
buffer, sizes are positive, NULL is not a buffer).  That two lists kept by different
code agree has a simple reason, which `VInv` (`ViviInvariant`) states: the timer fills a
buffer only while somebody waits for it, who waits waits for the oldest
(`WaitsForOldest`), so never more than the oldest is filled and the timer's list is the
whole of videobuf's or all but its first entry (`OneAhead`).  For that no buffer may be
on the list twice (`EachOnce`); a stream and `read()` must exclude each other, and
outside of both nothing may be filled (`ModesExclude`), which is also what makes
STREAMON hand over the whole list and `videobuf_queue_cancel`, which only removes QUEUED
buffers, leave nothing behind.  `RoomForImage` is what an application must not have
spoiled for the timer to stay inside the buffers.  Lists are cut with `Sublist`, which
is `SelectSeq` by position; what the proofs need of it is in `SublistIsEnd`.  In the
refinement each call is a step of FrameQueue or unseen by it; `ready` is 0 or 1
(`NoneDone`, `FirstDone`).

## Only model-checked

Liveness (`Circulates`, `WaiterServed`, `Refreshes`), which is out of the prover's reach.  Every
other property of the passing runs is also a theorem.

## Not modelled

- Two processors.  The target has one; there the handler cannot run beside an
  ioctl, only inside it.
- A completion inside REQBUFS, between the `memset` and `INIT_LIST_HEAD`.  It needs
  a URB in flight, and in sessions that make the numbered calls there is one then only
  after STREAMON and STREAMOFF have both failed.
- Two threads that call the ioctls of myuvc at the same time, DQBUF beside another.
- More than 32 buffers: REQBUFS does not limit the number to the size of
  `buffer[]`.  The model takes requests up to `MaxBufs`.
- The bytes.  The model knows how many were stored and of which frame.  Left out
  with them: the repair of a damaged ip2970 header, which shifts the payload by
  one byte through a scratch buffer.
- The first `dest = ...` of the packet loop reads through `buf` before it is
  compared with NULL.  The value is never used, so the compiler drops the read;
  in a build without optimisation an empty queue would be an oops.
- Pixels.  A picture in Video2lcd is a frame and its size.  The pool of video memory
  in `disp_manager.c` is not used by `main`.
- The fields of the streaming parameters other than the frame and its size, and
  their byte order in the message.
- Format enumeration and other ioctls that answer with constants, `printk`s.
- The CMOS driver.  The last step in the repository does not compile (two statements
  of REQBUFS have no semicolon), and REQBUFS runs on into its own error labels, so
  that it frees what it has allocated and fails on every path.  There is no
  program here whose behaviours could be checked.
- The sound driver, which does not compile either and has several empty callbacks.
- The earlier numbered steps of each driver.

## Plan

The parts the repository's finished drivers have are modelled, checked and, liveness
apart, proved.  What could follow:

- the CMOS and sound drivers, once they compile;
- the loops that copy and repair bytes (the ip2970 header, the converters of
  video2lcd), as algorithms over small arrays of their own;
- two processors: the handler of MyuvcIrqRace beside QBUF instead of inside it.
