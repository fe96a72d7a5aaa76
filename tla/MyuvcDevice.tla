---------------------------- MODULE MyuvcDevice -----------------------------
(***************************************************************************)
(* The life of the device in myuvc/10_th/uvc.c: cameras are plugged in and *)
(* out, the module is loaded and unloaded, and myuvc_probe and             *)
(* myuvc_disconnect find out by counting their calls what to do.  One      *)
(* application opens the node and starts streams; STREAMON and the probe   *)
(* negotiate through the same variable myuvc_params and may overlap,       *)
(* because every control message sleeps.                                   *)
(*                                                                         *)
(* The USB core works off one plugging, unplugging, insmod or rmmod after  *)
(* the other.  A camera is named by the dwMaxVideoFrameSize it answers for *)
(* the frame that the driver asks for.  What becomes of the URBs is the    *)
(* subject of MyuvcUrb: here they all run, or none does.                   *)
(***************************************************************************)
EXTENDS Integers, Sequences, FiniteSets

CONSTANTS
  Cameras,     (* numbers: the largest frame of the camera, in bytes        *)
  Default,     (* the same for the frame a camera is at before it is asked  *)
  PSize,       (* wMaxPacketSize                                            *)
  MaxPackets,  (* 32 in the code                                            *)
  Faults,      (* what can fail: the messages "try", "get" and "set", and   *)
               (* "alloc", "register": the functions that make the node     *)
  MaxCnt,      (* bound on the calls of myuvc_probe between two insmod      *)
  NULL

ASSUME MyuvcDeviceAssumption ==
  /\ Cameras \subseteq Nat \ {0} /\ IsFiniteSet(Cameras) /\ Default \in Nat \ {0}
  /\ PSize \in Nat \ {0} /\ MaxPackets \in Nat \ {0} /\ MaxCnt \in Nat
  /\ Faults \subseteq {"try", "get", "set", "alloc", "register"}
  /\ NULL \notin Cameras

VARIABLES
  loaded,      (* the module is loaded                                      *)
  present,     (* the usb_device structures that exist                      *)
  todo,        (* the jobs of the USB core; the first one is in progress    *)
  probe_cnt,   (* the static cnt of myuvc_probe ...                         *)
  disc_cnt,    (* ... and that of myuvc_disconnect                          *)
  udev,        (* myuvc_udev                                                *)
  control_intf, streaming_intf,  (* the numbers: whose they are, and of what *)
  vdev,        (* *myuvc_vdev: "none"; "null", "allocated" or "registered", *)
               (* as far as the probe came with it; "freed", or "twice"     *)
  params,      (* myuvc_params: bFrameIndex and dwMaxVideoFrameSize         *)
  probe, commit,  (* the two controls of every camera: the frame in them    *)
  app,         (* where the application is                                  *)
  stream,      (* the camera and the packets per URB of the running stream  *)
  broken,      (* freed memory, or a null pointer, has been used            *)
  unplugged,   (* history: a camera was unplugged since insmod              *)
  overlap      (* history: the USB core was at work since STREAMON          *)

statics == <<probe_cnt, disc_cnt, control_intf, streaming_intf, vdev>>
camera == <<probe, commit>>
user == <<app, stream, broken>>
vars == <<loaded, present, todo, statics, udev, params, camera, user, unplugged, overlap>>

Frame == {"none", "default", "wanted"}
Interface == [cam : Cameras, kind : {"control", "streaming"}]
VideoDevice == {"none", "null", "allocated", "registered", "freed", "twice"}
NoParams == [frame |-> "none", size |-> 0]

Probing == {"probe_control", "probe_streaming", "try", "get", "set"}
Parting == {"disconnect_control", "disconnect_streaming"}
Jobs == [op : Probing \cup Parting \cup {"gone", "unload"}, cam : Cameras \cup {NULL}]
Job(op, c) == [op |-> op, cam |-> c]

TypeOK ==
  /\ loaded \in BOOLEAN /\ broken \in BOOLEAN /\ unplugged \in BOOLEAN /\ overlap \in BOOLEAN
  /\ present \subseteq Cameras
  /\ todo \in Seq(Jobs)
  /\ probe_cnt \in Nat /\ disc_cnt \in Nat
  /\ udev \in Cameras \cup {NULL}
  /\ control_intf \in Interface \cup {NULL} /\ streaming_intf \in Interface \cup {NULL}
  /\ vdev \in VideoDevice
  /\ params \in [frame : Frame, size : Cameras \cup {0, Default}]
  /\ probe \in [Cameras -> Frame] /\ commit \in [Cameras -> Frame]
  /\ app \in {"closed", "open", "get", "set", "urbs"}
  /\ stream \in [cam : Cameras, packets : 1 .. MaxPackets] \cup {NULL}

Init ==
  /\ loaded = FALSE /\ present = {} /\ todo = <<>>
  /\ probe_cnt = 0 /\ disc_cnt = 0
  /\ udev = NULL /\ control_intf = NULL /\ streaming_intf = NULL
  /\ vdev = "none"
  /\ params = NoParams
  /\ probe = [c \in Cameras |-> "default"] /\ commit = [c \in Cameras |-> "none"]
  /\ app = "closed" /\ stream = NULL
  /\ broken = FALSE /\ unplugged = FALSE /\ overlap = FALSE

-----------------------------------------------------------------------------
(* What the USB core is asked to do *)

(* The members of a set in every order *)
AllOrders(S) == {s \in [1 .. Cardinality(S) -> S] : \A j, k \in DOMAIN s : s[j] = s[k] => j = k}

(* A camera is plugged in. *)
Plug(c) ==
  /\ todo = <<>> /\ c \notin present
  /\ probe_cnt + 2 <= MaxCnt
  /\ present' = present \cup {c}
  /\ probe' = [probe EXCEPT ![c] = "default"] /\ commit' = [commit EXCEPT ![c] = "none"]
  /\ todo' = IF loaded THEN <<Job("probe_control", c)>> ELSE <<>>
  /\ UNCHANGED <<loaded, statics, udev, params, user, unplugged, overlap>>

(* A camera is pulled out. *)
Unplug(c) ==
  /\ todo = <<>> /\ c \in present
  /\ todo' = IF loaded THEN <<Job("disconnect_control", c), Job("gone", c)>> ELSE <<Job("gone", c)>>
  /\ unplugged' = TRUE
  /\ UNCHANGED <<loaded, present, statics, udev, params, camera, user, overlap>>

(* insmod: the static variables are new, and every camera is probed. *)
Insmod ==
  /\ todo = <<>> /\ ~loaded
  /\ 2 * Cardinality(present) <= MaxCnt
  /\ loaded' = TRUE
  /\ probe_cnt' = 0 /\ disc_cnt' = 0
  /\ udev' = NULL /\ control_intf' = NULL /\ streaming_intf' = NULL /\ vdev' = "none"
  /\ params' = NoParams
  /\ \E s \in AllOrders(present) :
       todo' = [k \in 1 .. Cardinality(present) |-> Job("probe_control", s[k])]
  /\ unplugged' = FALSE
  /\ UNCHANGED <<present, camera, user, overlap>>

(* rmmod, which an open file prevents: myuvc_exit *)
Rmmod ==
  /\ todo = <<>> /\ loaded /\ app = "closed"
  /\ \E s \in AllOrders(present) :
       todo' = [k \in 1 .. Cardinality(present) + 1 |->
                  IF k \in DOMAIN s THEN Job("disconnect_control", s[k]) ELSE Job("unload", NULL)]
  /\ UNCHANGED <<loaded, present, statics, udev, params, camera, user, unplugged, overlap>>

-----------------------------------------------------------------------------
(* The negotiation, in probe and in STREAMON; nobody looks at its results. *)

(* The camera the driver talks to is not on its way out. *)
Attached == \A k \in DOMAIN todo : todo[k].op = "gone" => todo[k].cam # udev

(***************************************************************************)
(* The messages go to myuvc_udev with the number of the streaming          *)
(* interface of the first camera.  If that is another camera, its          *)
(* interface of that number may be anything, or not be there.              *)
(***************************************************************************)
Addressed == streaming_intf.cam = udev

Succeeds(msg) ==
  IF ~Attached THEN {FALSE} ELSE IF msg \in Faults \/ ~Addressed THEN BOOLEAN ELSE {TRUE}

SizeFor(c, f) == CASE f = "wanted" -> c [] f = "default" -> Default [] f = "none" -> 0

(* One slip away: the old answer of the camera is not cleared. *)
TryParamsKeeps ==
  /\ params' = [params EXCEPT !.frame = "wanted"]
  /\ \E ok \in Succeeds("try") :
       probe' = IF ok THEN [probe EXCEPT ![udev] = "wanted"] ELSE probe
  /\ UNCHANGED commit

(* myuvc_try_streaming_params clears the parameters and proposes a frame. *)
TryParams ==
  /\ params' = [frame |-> "wanted", size |-> 0]
  /\ \E ok \in Succeeds("try") :
       probe' = IF ok THEN [probe EXCEPT ![udev] = "wanted"] ELSE probe
  /\ UNCHANGED commit

(* myuvc_get_streaming_params reads what the camera makes of it. *)
GetParams ==
  /\ \E ok \in Succeeds("get") :
       params' = IF ok THEN [frame |-> probe[udev], size |-> SizeFor(udev, probe[udev])] ELSE params
  /\ UNCHANGED camera

(* myuvc_set_streaming_params commits it. *)
SetParams ==
  /\ \E ok \in Succeeds("set") :
       commit' = IF ok THEN [commit EXCEPT ![udev] = params.frame] ELSE commit
  /\ UNCHANGED <<params, probe>>

-----------------------------------------------------------------------------
(* The USB core at work *)

(* A core that has died in myuvc_probe does nothing any more. *)
Works(ops) ==
  /\ todo # <<>> /\ Head(todo).op \in ops /\ vdev # "null"
  /\ overlap' = (overlap \/ app \in {"get", "set", "urbs"} \/ stream # NULL)

Continue(op) == todo' = [todo EXCEPT ![1].op = op]
Done == todo' = Tail(todo)

(* One slip away: every second call finds a camera complete. *)
RegistersEverySecond(cnt) == cnt % 2 = 0

(* The number of the call of myuvc_probe in which a node is registered. *)
Registers(cnt) == cnt = 2

(* What becomes of a new video_device *)
NewNode == {v \in {"null", "allocated", "registered"} :
              /\ v = "null" => "alloc" \in Faults
              /\ v = "allocated" => "register" \in Faults}

(***************************************************************************)
(* myuvc_probe, which is called for the control interface of a camera and  *)
(* then for its streaming interface, up to the negotiation.  It looks      *)
(* neither at the result of video_register_device, so that there may be no *)
(* node, nor at that of video_device_alloc: then it writes through a null  *)
(* pointer, and the thread of the USB core dies with the device locked.    *)
(***************************************************************************)
Probe ==
  /\ Works({"probe_control", "probe_streaming"})
  /\ LET kind == IF Head(todo).op = "probe_control" THEN "control" ELSE "streaming"
         intf == [cam |-> Head(todo).cam, kind |-> kind] IN
       /\ probe_cnt' = probe_cnt + 1
       /\ udev' = Head(todo).cam
       /\ control_intf' = IF probe_cnt' = 1 THEN intf ELSE control_intf
       /\ streaming_intf' = IF probe_cnt' = 2 THEN intf ELSE streaming_intf
       /\ vdev' \in IF Registers(probe_cnt') THEN NewNode ELSE {vdev}
       /\ broken' = (broken \/ vdev' = "null")
       /\ \/ Registers(probe_cnt') /\ vdev' = "null" /\ UNCHANGED todo
          \/ Registers(probe_cnt') /\ vdev' # "null" /\ Continue("try")
          \/ ~Registers(probe_cnt') /\ kind = "control" /\ Continue("probe_streaming")
          \/ ~Registers(probe_cnt') /\ kind = "streaming" /\ Done
  /\ UNCHANGED <<loaded, present, disc_cnt, params, camera, app, stream, unplugged>>

(* The rest of myuvc_probe; an ioctl may come between any two messages. *)
ProbeNegotiates ==
  /\ \/ Works({"try"}) /\ TryParams /\ Continue("get")
     \/ Works({"get"}) /\ GetParams /\ Continue("set")
     \/ Works({"set"}) /\ SetParams /\ Done
  /\ UNCHANGED <<loaded, present, statics, udev, user, unplugged>>

(* One slip away: off by one. *)
UnregistersLate(cnt) == cnt = 3

(* One slip away: every second call finds a camera complete. *)
UnregistersEverySecond(cnt) == cnt % 2 = 0

(* The number of the call of myuvc_disconnect in which the node goes. *)
Unregisters(cnt) == cnt = 2

(* The probe has got a video_device, whether or not it became a node. *)
Allocated == vdev \in {"allocated", "registered"}

(***************************************************************************)
(* The URBs of the interface are ended by the core, and then               *)
(* myuvc_disconnect is called.  It frees the video_device at once, whoever *)
(* has it open.                                                            *)
(***************************************************************************)
Disconnect ==
  /\ Works(Parting)
  /\ LET last == Head(todo).op = "disconnect_streaming" IN
       /\ stream' = IF last /\ stream # NULL /\ stream.cam = Head(todo).cam THEN NULL ELSE stream
       /\ IF last THEN Done ELSE Continue("disconnect_streaming")
  /\ disc_cnt' = disc_cnt + 1
  /\ vdev' = CASE ~Unregisters(disc_cnt') -> vdev
               [] Unregisters(disc_cnt') /\ Allocated -> "freed"
               [] OTHER -> "twice"
  /\ UNCHANGED <<loaded, present, probe_cnt, udev, control_intf, streaming_intf, params, camera,
                 app, broken, unplugged>>

(* The usb_device is freed: the driver holds no reference to it. *)
DeviceGone ==
  /\ Works({"gone"})
  /\ present' = present \ {Head(todo).cam}
  /\ Done
  /\ UNCHANGED <<loaded, statics, udev, params, camera, user, unplugged>>

Unload ==
  /\ Works({"unload"})
  /\ loaded' = FALSE
  /\ Done
  /\ UNCHANGED <<present, statics, udev, params, camera, user, unplugged>>

-----------------------------------------------------------------------------
(* The application *)

core == <<loaded, present, todo, statics, udev, unplugged>>

(* open, which fails once rmmod has begun *)
Open ==
  /\ app = "closed" /\ vdev = "registered" /\ ~broken
  /\ \A k \in DOMAIN todo : todo[k].op # "unload"
  /\ app' = "open"
  /\ UNCHANGED <<core, params, camera, stream, broken, overlap>>

(* An ioctl or close gets as far as the driver. *)
Calls == app = "open" /\ vdev = "registered" /\ ~broken

(* STREAMON (a second one, on a running stream, is in MyuvcUrb): the three messages ... *)
StreamonTry ==
  /\ Calls /\ udev \in present /\ stream = NULL
  /\ TryParams
  /\ app' = "get" /\ overlap' = FALSE
  /\ UNCHANGED <<core, stream, broken>>

StreamonGet ==
  /\ app = "get" /\ udev \in present /\ ~broken
  /\ GetParams
  /\ app' = "set"
  /\ UNCHANGED <<core, stream, broken, overlap>>

StreamonSet ==
  /\ app = "set" /\ udev \in present /\ ~broken
  /\ SetParams
  /\ app' = "urbs"
  /\ UNCHANGED <<core, stream, broken, overlap>>

(* One slip away: as many packets as the frame needs. *)
PacketsUncapped(size) == (size + PSize - 1) \div PSize

(* npackets of myuvc_alloc_init_urbs *)
Packets(size) ==
  LET n == (size + PSize - 1) \div PSize IN IF n > MaxPackets THEN MaxPackets ELSE n

(***************************************************************************)
(* ... and the URBs.  usb_submit_urb refuses a URB without packets, and a  *)
(* device that is unplugged; STREAMON may also fail for want of memory, of *)
(* bandwidth or of the interface setting (MyuvcUrb).                       *)
(***************************************************************************)
StreamonUrbs ==
  /\ app = "urbs" /\ udev \in present /\ ~broken
  /\ \/ stream' = NULL
     \/ /\ Packets(params.size) # 0 /\ Attached
        /\ stream' = [cam |-> udev, packets |-> Packets(params.size)]
  /\ app' = "open"
  /\ UNCHANGED <<core, params, camera, broken, overlap>>

(* STREAMOFF *)
Streamoff ==
  /\ Calls /\ udev \in present
  /\ stream' = NULL
  /\ UNCHANGED <<core, params, camera, app, broken, overlap>>

(* close ends with STREAMOFF. *)
Close ==
  /\ Calls /\ udev \in present
  /\ stream' = NULL
  /\ app' = "closed"
  /\ UNCHANGED <<core, params, camera, broken, overlap>>

(* A call that looks at a video_device or a usb_device which has been freed *)
UsesFreed ==
  /\ ~broken
  /\ \/ app = "open" /\ (vdev # "registered" \/ udev \notin present)
     \/ app \in {"get", "set", "urbs"} /\ udev \notin present
  /\ broken' = TRUE
  /\ UNCHANGED <<core, params, camera, app, stream, overlap>>

Next ==
  \/ \E c \in Cameras : Plug(c) \/ Unplug(c)
  \/ Insmod \/ Rmmod
  \/ Probe \/ ProbeNegotiates \/ Disconnect \/ DeviceGone \/ Unload
  \/ Open \/ StreamonTry \/ StreamonGet \/ StreamonSet \/ StreamonUrbs \/ Streamoff \/ Close
  \/ UsesFreed

Spec == Init /\ [][Next]_vars

-----------------------------------------------------------------------------
(* Properties *)

(***************************************************************************)
(* As long as there is a node, myuvc_udev is a device that exists, and the *)
(* interface numbers are those of one camera, which exists too, however    *)
(* many come and go: nothing but the two counters connects the node with a *)
(* device.  That camera is myuvc_udev until a second one is probed; from   *)
(* then on the driver talks to the last camera with the numbers of the     *)
(* first.  With this, a node that is opened after an unplugging is never   *)
(* one that leads to freed memory.                                         *)
(***************************************************************************)
NodeHasDevice ==
  Allocated =>
    /\ loaded /\ udev \in present
    /\ \E c \in present :
         /\ control_intf = [cam |-> c, kind |-> "control"]
         /\ streaming_intf = [cam |-> c, kind |-> "streaming"]
         /\ probe_cnt = 2 => udev = c

(***************************************************************************)
(* The video_device is never freed twice, nor freed before it is there,    *)
(* although myuvc_disconnect does not look whether there is one.           *)
(***************************************************************************)
FreedOnce == vdev # "twice"

(***************************************************************************)
(* Whenever the USB core rests there is a video_device (and a node, if it  *)
(* could be registered) exactly if there is a camera and none has been     *)
(* unplugged since insmod: the counters do not go back, so the second life *)
(* of a camera, or the other of two cameras, is without a node until the   *)
(* module is loaded again.                                                 *)
(***************************************************************************)
NodeUntilFirstUnplug ==
  loaded /\ todo = <<>> => (Allocated <=> present # {} /\ ~unplugged)

(***************************************************************************)
(* A stream that the USB core did not disturb runs on the camera with      *)
(* which it was negotiated, and, unless that camera is addressed with the  *)
(* numbers of another, in URBs made for the very frame it is committed to, *)
(* although STREAMON ignores what the messages return: a message that      *)
(* fails leaves either no size at all, and usb_submit_urb refuses, or a    *)
(* size and a frame that belong together.  (The commit alone must not      *)
(* fail, "set" \notin Faults: the camera would stay with its old frame and *)
(* STREAMON would not notice.)  Disturbed or not, no URB is in flight on a *)
(* device that is gone.                                                    *)
(***************************************************************************)
StreamMatches ==
  stream # NULL =>
    /\ stream.cam \in present
    /\ ~overlap =>
         /\ stream.cam = udev
         /\ Addressed => stream.packets = Packets(SizeFor(udev, commit[udev]))

(***************************************************************************)
(* What the kernel asks of a driver: a video_device stays until its last   *)
(* user is gone, and a usb_device as long as a driver may use it.          *)
(***************************************************************************)
NeverUsesFreed == ~broken

-----------------------------------------------------------------------------
(* Why they hold *)

Has(op) == \E k \in DOMAIN todo : todo[k].op = op
First(ops) == todo # <<>> /\ todo[1].op \in ops
Streaming == app \in {"get", "set", "urbs"}

(* What the counters tell of the node, and of the interfaces *)
CountersTell ==
  /\ probe_cnt < 2 => vdev = "none" /\ disc_cnt = 0
  /\ probe_cnt >= 2 =>
       IF disc_cnt < 2 THEN vdev \in {"null", "allocated", "registered"} ELSE vdev = "freed"
  /\ probe_cnt >= 1 =>
       /\ udev \in Cameras
       /\ \E c \in Cameras :
            /\ control_intf = [cam |-> c, kind |-> "control"]
            /\ probe_cnt >= 2 => streaming_intf = [cam |-> c, kind |-> "streaming"]
            /\ probe_cnt <= 2 => udev = c

(* The USB core never probes and disconnects in the same job. *)
JobsInOrder ==
  \A k \in DOMAIN todo :
    /\ k > 1 => todo[k].op \in {"probe_control", "disconnect_control", "gone", "unload"}
    /\ todo[k].op \in Probing =>
         loaded /\ todo[k].cam \in present /\ \A j \in DOMAIN todo : todo[j].op \in Probing
    /\ todo[k].op \in Parting => loaded /\ probe_cnt >= 2
    /\ todo[k].op = "unload" => loaded /\ app = "closed"
    /\ todo[k].op \in {"gone", "unload"} => k = Len(todo)

(* A counter is odd, or short of 2, only where the job in progress says so. *)
CountersInStep ==
  /\ loaded /\ present # {} /\ probe_cnt = 0 => First({"probe_control"})
  /\ probe_cnt = 1 => First({"probe_streaming"}) /\ todo[1].cam = udev
  /\ vdev = "null" => First({"probe_streaming"})
  /\ disc_cnt = 1 => First({"disconnect_streaming"})
  /\ First({"probe_streaming"}) => probe_cnt >= 1
  /\ First({"disconnect_streaming"}) => disc_cnt >= 1

(* The first unplugging or rmmod ends the node before a device goes. *)
NodeGoesFirst ==
  /\ Allocated /\ (Has("gone") \/ Has("unload")) => First(Parting)
  /\ loaded /\ unplugged => disc_cnt >= 2 \/ First(Parting)
  /\ loaded /\ ~unplugged /\ (disc_cnt # 0 \/ First(Parting)) => Has("unload")

(* Nobody is in the driver while it is not loaded, and nothing runs. *)
StreamNeedsUser ==
  /\ ~loaded => app = "closed"
  /\ app # "open" => stream = NULL
  /\ stream # NULL =>
       /\ stream.cam \in present
       /\ \A k \in DOMAIN todo : todo[k].op = "gone" /\ todo[k].cam = stream.cam =>
            First(Parting) /\ todo[1].cam = stream.cam

(***************************************************************************)
(* How far a STREAMON that the USB core has not disturbed has come.  The   *)
(* commit must not fail for the last two.                                  *)
(***************************************************************************)
NegotiationInStep ==
  ~overlap =>
    /\ Streaming => udev \in present
    /\ app = "get" => params.size = 0
    /\ app = "set" => params.size \in {0, SizeFor(udev, params.frame)}
    /\ app = "urbs" /\ "set" \notin Faults /\ Addressed =>
         ~Attached \/ params.size \in {0, SizeFor(udev, commit[udev])}
    /\ stream # NULL =>
         /\ stream.cam = udev
         /\ "set" \notin Faults /\ Addressed => stream.packets = Packets(SizeFor(udev, commit[udev]))

(* The inductive invariant *)
DInv ==
  /\ TypeOK /\ CountersTell /\ JobsInOrder /\ CountersInStep
  /\ NodeHasDevice /\ NodeGoesFirst /\ StreamNeedsUser /\ NegotiationInStep
=============================================================================
