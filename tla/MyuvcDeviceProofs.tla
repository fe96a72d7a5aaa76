------------------------- MODULE MyuvcDeviceProofs --------------------------
(***************************************************************************)
(* Proofs about MyuvcDevice, for every finite set of cameras, every packet *)
(* size and every bound on the calls of myuvc_probe.                       *)
(***************************************************************************)
EXTENDS MyuvcDevice, FiniteSetTheorems, TLAPS

(***************************************************************************)
(* The jobs of the USB core                                                *)
(***************************************************************************)
Ops == Probing \cup Parting \cup {"gone", "unload"}

LEMMA JobType ==
  ASSUME NEW op \in Ops, NEW c \in Cameras \cup {NULL}
  PROVE  Job(op, c) \in Jobs /\ Job(op, c).op = op /\ Job(op, c).cam = c
  BY DEF Job, Jobs, Ops

(* The first job makes way for the next. *)
LEMMA DoneJobs ==
  ASSUME todo \in Seq(Jobs), todo # <<>>, Done
  PROVE  /\ todo' \in Seq(Jobs) /\ Len(todo') = Len(todo) - 1
         /\ Len(todo) \in Nat \ {0} /\ DOMAIN todo = 1 .. Len(todo) /\ DOMAIN todo' = 1 .. Len(todo')
         /\ Head(todo) = todo[1]
         /\ \A k \in DOMAIN todo' : k + 1 \in DOMAIN todo /\ todo'[k] = todo[k + 1]
         /\ \A k \in DOMAIN todo : k > 1 => k - 1 \in DOMAIN todo' /\ todo'[k - 1] = todo[k]
         /\ todo' # <<>> => 1 \in DOMAIN todo' /\ 2 \in DOMAIN todo /\ todo'[1] = todo[2]
<1>1. todo' = Tail(todo)
  BY DEF Done
<1>2. Len(todo) \in Nat \ {0} /\ DOMAIN todo = 1 .. Len(todo)
  OBVIOUS
<1>3. todo' \in Seq(Jobs) /\ Len(todo') = Len(todo) - 1 /\ DOMAIN todo' = 1 .. Len(todo')
  BY <1>1
<1>4. \A k \in 1 .. Len(todo') : todo'[k] = todo[k + 1]
  BY <1>1
<1>5. todo' # <<>> => Len(todo') > 0
  BY <1>3
<1> QED
  BY <1>2, <1>3, <1>4, <1>5

(* The first job goes on as op. *)
LEMMA ContinueJobs ==
  ASSUME todo \in Seq(Jobs), todo # <<>>, NEW op \in Ops, Continue(op)
  PROVE  /\ todo' \in Seq(Jobs) /\ Len(todo') = Len(todo) /\ todo' # <<>>
         /\ Len(todo) \in Nat \ {0} /\ DOMAIN todo = 1 .. Len(todo) /\ DOMAIN todo' = DOMAIN todo
         /\ Head(todo) = todo[1] /\ 1 \in DOMAIN todo
         /\ todo'[1].op = op /\ todo'[1].cam = todo[1].cam
         /\ \A k \in DOMAIN todo : k # 1 => todo'[k] = todo[k]
<1>1. todo' = [todo EXCEPT ![1].op = op]
  BY DEF Continue
<1>2. Len(todo) \in Nat \ {0} /\ DOMAIN todo = 1 .. Len(todo) /\ 1 \in DOMAIN todo
  OBVIOUS
<1>3. todo[1] \in Jobs
  BY <1>2
<1> DEFINE j == [todo[1] EXCEPT !.op = op]
<1>4. j \in Jobs /\ j.op = op /\ j.cam = todo[1].cam
  BY <1>3 DEF Jobs, Ops
<1>5. todo' = [todo EXCEPT ![1] = j]
  BY <1>1
<1> HIDE DEF j
<1>6. todo'[1] = j /\ \A k \in DOMAIN todo : k # 1 => todo'[k] = todo[k]
  BY <1>2, <1>5
<1>7. todo' \in Seq(Jobs) /\ Len(todo') = Len(todo) /\ DOMAIN todo' = DOMAIN todo
  BY <1>2, <1>4, <1>5
<1> QED
  BY <1>2, <1>4, <1>6, <1>7

(* A list of jobs made in one go *)
LEMMA MadeJobs ==
  ASSUME NEW n \in Nat, NEW f, f \in [1 .. n -> Jobs]
  PROVE  f \in Seq(Jobs) /\ Len(f) = n /\ DOMAIN f = 1 .. n /\ (f = <<>> <=> n = 0)
  OBVIOUS

LEMMA OneOrTwoJobs ==
  ASSUME NEW x \in Jobs, NEW y \in Jobs
  PROVE  /\ <<>> \in Seq(Jobs) /\ DOMAIN <<>> = {}
         /\ <<x>> \in Seq(Jobs) /\ <<x>> # <<>> /\ DOMAIN <<x>> = {1} /\ <<x>>[1] = x /\ Len(<<x>>) = 1
         /\ <<x, y>> \in Seq(Jobs) /\ <<x, y>> # <<>> /\ DOMAIN <<x, y>> = {1, 2}
         /\ <<x, y>>[1] = x /\ <<x, y>>[2] = y /\ Len(<<x, y>>) = 2
  OBVIOUS

(* The members of present in some order *)
LEMMA OrdersType ==
  ASSUME TypeOK, NEW s \in AllOrders(present)
  PROVE  /\ Cardinality(present) \in Nat
         /\ s \in [1 .. Cardinality(present) -> present] /\ DOMAIN s = 1 .. Cardinality(present)
         /\ present # {} => Cardinality(present) # 0
<1>1. IsFiniteSet(present)
  BY MyuvcDeviceAssumption, FS_Subset DEF TypeOK
<1> QED
  BY <1>1, FS_CardinalityType, FS_EmptySet DEF AllOrders

-----------------------------------------------------------------------------
(***************************************************************************)
(* The inductive invariant holds initially, and the application keeps it.  *)
(***************************************************************************)
LEMMA InitEstablishes == Init => DInv
<1> SUFFICES ASSUME Init PROVE DInv
  OBVIOUS
<1>1. TypeOK
  <2>1. params \in [frame : Frame, size : Cameras \cup {0, Default}]
    BY DEF Init, NoParams, Frame
  <2>2. probe \in [Cameras -> Frame] /\ commit \in [Cameras -> Frame]
    BY DEF Init, Frame
  <2>3. todo \in Seq(Jobs) /\ probe_cnt \in Nat /\ disc_cnt \in Nat
    BY DEF Init
  <2> QED
    BY <2>1, <2>2, <2>3 DEF Init, TypeOK, VideoDevice
<1>2. CountersTell /\ NodeHasDevice /\ NodeGoesFirst /\ CountersInStep
  BY DEF Init, CountersTell, NodeHasDevice, NodeGoesFirst, CountersInStep, First, Has, Allocated
<1>3. JobsInOrder /\ StreamNeedsUser /\ NegotiationInStep
  BY DEF Init, JobsInOrder, StreamNeedsUser, NegotiationInStep, Streaming, Addressed
<1> QED
  BY <1>1, <1>2, <1>3 DEF DInv

(* No call of the application changes what the USB core works with. *)
LEMMA UserLeavesCore ==
  ASSUME DInv, UNCHANGED core, app = "closed" => ~Has("unload")
  PROVE  /\ CountersTell' /\ JobsInOrder' /\ CountersInStep' /\ NodeHasDevice' /\ NodeGoesFirst'
<1>0. /\ UNCHANGED <<loaded, present, todo, udev, unplugged>>
      /\ UNCHANGED <<probe_cnt, disc_cnt, control_intf, streaming_intf, vdev>>
  BY DEF core, statics
<1>1. CountersTell' /\ CountersInStep' /\ NodeHasDevice' /\ NodeGoesFirst'
  BY <1>0 DEF DInv, CountersTell, CountersInStep, NodeHasDevice, NodeGoesFirst, First, Has, Allocated
<1>2. \A k \in DOMAIN todo : todo[k].op # "unload"
  BY DEF DInv, JobsInOrder, Has
<1>3. JobsInOrder'
  BY <1>0, <1>2 DEF DInv, JobsInOrder
<1> QED
  BY <1>1, <1>3

LEMMA OpenPreserves == ASSUME DInv, Open PROVE DInv'
<1>0. /\ UNCHANGED <<loaded, present, todo, udev, unplugged, params, probe, commit, stream, broken, overlap>>
      /\ UNCHANGED <<probe_cnt, disc_cnt, control_intf, streaming_intf, vdev>>
  BY DEF Open, core, statics, camera
<1>1. TypeOK'
  BY <1>0 DEF DInv, TypeOK, Open
<1>2. CountersTell' /\ JobsInOrder' /\ CountersInStep' /\ NodeHasDevice' /\ NodeGoesFirst'
  BY UserLeavesCore DEF Open, Has
<1>3. loaded /\ stream = NULL /\ app' = "open"
  BY DEF DInv, Open, NodeHasDevice, StreamNeedsUser, Allocated
<1>4. StreamNeedsUser' /\ NegotiationInStep'
  BY <1>0, <1>3 DEF StreamNeedsUser, NegotiationInStep, Streaming, Addressed
<1> QED
  BY <1>1, <1>2, <1>4 DEF DInv

(* The camera that the driver talks to while STREAMON runs *)
LEMMA SizeForType ==
  ASSUME NEW c \in Cameras, NEW f \in Frame
  PROVE  SizeFor(c, f) \in Cameras \cup {0, Default} /\ SizeFor(c, f) \in Nat
  BY MyuvcDeviceAssumption DEF SizeFor, Frame

LEMMA TryType == ASSUME TypeOK, TryParams, udev \in Cameras
  PROVE  /\ params' \in [frame : Frame, size : Cameras \cup {0, Default}] /\ params'.size = 0
         /\ probe' \in [Cameras -> Frame] /\ commit' = commit
  BY DEF TypeOK, TryParams, Frame

LEMMA GetType == ASSUME TypeOK, GetParams, udev \in Cameras
  PROVE  /\ params' \in [frame : Frame, size : Cameras \cup {0, Default}]
         /\ params' = params \/ params'.size = SizeFor(udev, params'.frame)
         /\ probe' = probe /\ commit' = commit
<1>1. /\ probe' = probe /\ commit' = commit
      /\ params' = params \/ params' = [frame |-> probe[udev], size |-> SizeFor(udev, probe[udev])]
  BY DEF GetParams, camera
<1>2. probe[udev] \in Frame /\ SizeFor(udev, probe[udev]) \in Cameras \cup {0, Default}
  BY SizeForType DEF TypeOK
<1> QED
  BY <1>1, <1>2 DEF TypeOK

LEMMA SetType == ASSUME TypeOK, SetParams, udev \in Cameras
  PROVE  /\ commit' \in [Cameras -> Frame] /\ params' = params /\ probe' = probe
         /\ "set" \notin Faults /\ Attached /\ Addressed => commit'[udev] = params.frame
<1>1. params.frame \in Frame /\ commit \in [Cameras -> Frame]
  BY DEF TypeOK
<1>2. params' = params /\ probe' = probe
  BY DEF SetParams
<1>3. commit' = commit \/ commit' = [commit EXCEPT ![udev] = params.frame]
  BY DEF SetParams
<1>4. "set" \notin Faults /\ Attached /\ Addressed => Succeeds("set") = {TRUE}
  BY DEF Succeeds
<1>5. "set" \notin Faults /\ Attached /\ Addressed => commit' = [commit EXCEPT ![udev] = params.frame]
  <2>1. PICK ok \in Succeeds("set") :
          commit' = IF ok THEN [commit EXCEPT ![udev] = params.frame] ELSE commit
    BY DEF SetParams
  <2>2. "set" \notin Faults /\ Attached /\ Addressed => ok = TRUE
    BY <2>1, <1>4
  <2> QED
    BY <2>1, <2>2, Zenon
<1> QED
  BY <1>1, <1>2, <1>3, <1>5

LEMMA StreamonTryPreserves == ASSUME DInv, StreamonTry PROVE DInv'
<1>0. /\ UNCHANGED <<loaded, present, todo, udev, unplugged, stream, broken>>
      /\ UNCHANGED <<probe_cnt, disc_cnt, control_intf, streaming_intf, vdev>>
      /\ app = "open" /\ udev \in present /\ stream = NULL /\ app' = "get" /\ overlap' = FALSE
      /\ TypeOK /\ udev \in Cameras
  BY DEF StreamonTry, Calls, core, statics, DInv, TypeOK
<1>1. TypeOK'
  BY <1>0, TryType DEF TypeOK, StreamonTry
<1>2. CountersTell' /\ JobsInOrder' /\ CountersInStep' /\ NodeHasDevice' /\ NodeGoesFirst'
  BY <1>0, UserLeavesCore DEF StreamonTry
<1>3. loaded
  BY <1>0 DEF DInv, StreamNeedsUser
<1>4. StreamNeedsUser' /\ NegotiationInStep'
  BY <1>0, <1>3, TryType DEF StreamonTry, StreamNeedsUser, NegotiationInStep, Addressed
<1> QED
  BY <1>1, <1>2, <1>4 DEF DInv

LEMMA StreamonGetPreserves == ASSUME DInv, StreamonGet PROVE DInv'
<1>0. /\ UNCHANGED <<loaded, present, todo, udev, unplugged, stream, broken, overlap>>
      /\ UNCHANGED <<probe_cnt, disc_cnt, control_intf, streaming_intf, vdev>>
      /\ app = "get" /\ udev \in present /\ stream = NULL /\ app' = "set" /\ loaded
      /\ TypeOK /\ udev \in Cameras
  BY DEF StreamonGet, core, statics, DInv, TypeOK, StreamNeedsUser
<1>1. TypeOK'
  BY <1>0, GetType DEF TypeOK, StreamonGet
<1>2. CountersTell' /\ JobsInOrder' /\ CountersInStep' /\ NodeHasDevice' /\ NodeGoesFirst'
  BY <1>0, UserLeavesCore DEF StreamonGet
<1>3. ~overlap => params.size = 0
  BY <1>0 DEF DInv, NegotiationInStep, Addressed
<1>4. StreamNeedsUser'
  BY <1>0 DEF StreamNeedsUser
<1>5. params' = params \/ params'.size = SizeFor(udev, params'.frame)
  BY <1>0, GetType DEF StreamonGet
<1>6. ~overlap => params'.size \in {0, SizeFor(udev', params'.frame)}
  BY <1>0, <1>3, <1>5
<1>7. NegotiationInStep'
  BY <1>0, <1>6 DEF NegotiationInStep, Addressed
<1> QED
  BY <1>1, <1>2, <1>4, <1>7 DEF DInv

LEMMA StreamonSetPreserves == ASSUME DInv, StreamonSet PROVE DInv'
<1>0. /\ UNCHANGED <<loaded, present, todo, udev, unplugged, stream, broken, overlap>>
      /\ UNCHANGED <<probe_cnt, disc_cnt, control_intf, streaming_intf, vdev>>
      /\ app = "set" /\ udev \in present /\ stream = NULL /\ app' = "urbs" /\ loaded
      /\ TypeOK /\ udev \in Cameras
  BY DEF StreamonSet, core, statics, DInv, TypeOK, StreamNeedsUser
<1>1. TypeOK'
  BY <1>0, SetType DEF TypeOK, StreamonSet
<1>2. CountersTell' /\ JobsInOrder' /\ CountersInStep' /\ NodeHasDevice' /\ NodeGoesFirst'
  BY <1>0, UserLeavesCore DEF StreamonSet
<1>3. ~overlap => params.size \in {0, SizeFor(udev, params.frame)}
  BY <1>0 DEF DInv, NegotiationInStep, Addressed
<1>4. StreamNeedsUser'
  BY <1>0 DEF StreamNeedsUser
<1>5. params' = params /\ ("set" \notin Faults /\ Attached /\ Addressed => commit'[udev] = params.frame)
  BY <1>0, SetType DEF StreamonSet
<1>6. (Attached' <=> Attached) /\ (Addressed' <=> Addressed)
  BY <1>0 DEF Attached, Addressed
<1>7. ~overlap /\ "set" \notin Faults /\ Addressed' =>
        ~Attached' \/ params'.size \in {0, SizeFor(udev', commit'[udev'])}
  BY <1>0, <1>3, <1>5, <1>6
<1>8. NegotiationInStep'
  BY <1>0, <1>7 DEF NegotiationInStep
<1> QED
  BY <1>1, <1>2, <1>4, <1>8 DEF DInv

(* A URB has at least one packet and at most MaxPackets. *)
LEMMA PacketsType ==
  ASSUME NEW n \in Nat
  PROVE  Packets(n) \in 0 .. MaxPackets /\ Packets(0) = 0
<1> DEFINE q(m) == (m + PSize - 1) \div PSize
<1>1. PSize \in Nat \ {0} /\ MaxPackets \in Nat \ {0}
  BY MyuvcDeviceAssumption
<1>2. n + PSize - 1 \in Nat /\ 0 + PSize - 1 \in Nat
  BY <1>1
<1>3. q(n) \in Nat /\ q(0) = 0
  BY <1>1, <1>2
<1> HIDE DEF q
<1>4. Packets(n) = IF q(n) > MaxPackets THEN MaxPackets ELSE q(n)
  BY DEF Packets, q
<1>5. Packets(0) = IF q(0) > MaxPackets THEN MaxPackets ELSE q(0)
  BY DEF Packets, q
<1> QED
  BY <1>1, <1>3, <1>4, <1>5

LEMMA StreamonUrbsPreserves == ASSUME DInv, StreamonUrbs PROVE DInv'
<1>0. /\ UNCHANGED <<loaded, present, todo, udev, unplugged, params, probe, commit, broken, overlap>>
      /\ UNCHANGED <<probe_cnt, disc_cnt, control_intf, streaming_intf, vdev>>
      /\ app = "urbs" /\ udev \in present /\ app' = "open" /\ loaded
      /\ TypeOK /\ udev \in Cameras /\ params.size \in Nat
  BY MyuvcDeviceAssumption DEF StreamonUrbs, core, statics, camera, DInv, TypeOK, StreamNeedsUser
<1>1. stream' = NULL
      \/ /\ Attached /\ Packets(params.size) # 0 /\ Packets(params.size) \in 1 .. MaxPackets
         /\ stream' = [cam |-> udev, packets |-> Packets(params.size)]
  BY <1>0, PacketsType DEF StreamonUrbs
<1>2. TypeOK'
  BY <1>0, <1>1 DEF TypeOK
<1>3. CountersTell' /\ JobsInOrder' /\ CountersInStep' /\ NodeHasDevice' /\ NodeGoesFirst'
  BY <1>0, UserLeavesCore DEF StreamonUrbs
<1>4. StreamNeedsUser'
  BY <1>0, <1>1 DEF StreamNeedsUser, Attached
<1>5. NegotiationInStep'
  <2> SUFFICES ASSUME ~overlap, stream' # NULL, "set" \notin Faults, Addressed
      PROVE stream'.packets = Packets(SizeFor(udev, commit[udev]))
    BY <1>0, <1>1 DEF NegotiationInStep, Streaming, Addressed
  <2>1. params.size \in {0, SizeFor(udev, commit[udev])}
    BY <1>0, <1>1 DEF DInv, NegotiationInStep, Addressed
  <2>2. params.size # 0
    BY <1>1, PacketsType
  <2> QED
    BY <2>1, <2>2, <1>1
<1> QED
  BY <1>2, <1>3, <1>4, <1>5 DEF DInv

(* STREAMOFF, close, and a call that uses freed memory *)
LEMMA EndingPreserves ==
  ASSUME DInv, Streamoff \/ Close \/ UsesFreed
  PROVE  DInv'
<1>0. /\ UNCHANGED <<loaded, present, todo, udev, unplugged, params, probe, commit, overlap>>
      /\ UNCHANGED <<probe_cnt, disc_cnt, control_intf, streaming_intf, vdev>>
      /\ app # "closed" /\ loaded
  BY DEF Streamoff, Close, UsesFreed, Calls, core, statics, camera, DInv, StreamNeedsUser
<1>1. \/ app = "open" /\ stream' = NULL /\ app' \in {"open", "closed"} /\ broken' = broken
      \/ stream' = stream /\ app' = app /\ broken' = TRUE
  BY DEF Streamoff, Close, UsesFreed, Calls
<1>2. TypeOK'
  <2>1. /\ loaded' \in BOOLEAN /\ broken' \in BOOLEAN
        /\ unplugged' \in BOOLEAN /\ overlap' \in BOOLEAN
    BY <1>0, <1>1 DEF DInv, TypeOK
  <2>2. app' \in {"closed", "open", "get", "set", "urbs"}
    BY <1>1 DEF DInv, TypeOK
  <2>3. stream' \in [cam : Cameras, packets : 1 .. MaxPackets] \cup {NULL}
    BY <1>1 DEF DInv, TypeOK
  <2> QED
    BY <1>0, <2>1, <2>2, <2>3 DEF DInv, TypeOK
<1>3. CountersTell' /\ JobsInOrder' /\ CountersInStep' /\ NodeHasDevice' /\ NodeGoesFirst'
  BY <1>0, UserLeavesCore DEF Streamoff, Close, UsesFreed
<1>4. StreamNeedsUser' /\ NegotiationInStep'
  <2>1. CASE app' \in {"open", "closed"} /\ stream' = NULL
    BY <2>1, <1>0 DEF StreamNeedsUser, NegotiationInStep, Streaming, Addressed
  <2>2. CASE stream' = stream /\ app' = app
    BY <2>2, <1>0 DEF DInv, StreamNeedsUser, NegotiationInStep, Streaming, First, Attached, Addressed
  <2> QED
    BY <2>1, <2>2, <1>1
<1> QED
  BY <1>2, <1>3, <1>4 DEF DInv

-----------------------------------------------------------------------------
(***************************************************************************)
(* New work for the USB core                                               *)
(***************************************************************************)
LEMMA PlugPreserves == ASSUME DInv, NEW c \in Cameras, Plug(c) PROVE DInv'
<1>0. /\ UNCHANGED <<loaded, udev, unplugged, params, app, stream, broken, overlap>>
      /\ UNCHANGED <<probe_cnt, disc_cnt, control_intf, streaming_intf, vdev>>
      /\ todo = <<>> /\ c \notin present /\ present' = present \cup {c}
      /\ TypeOK
  BY DEF Plug, statics, user, DInv
<1> DEFINE j == Job("probe_control", c)
<1>1. j \in Jobs /\ j.op = "probe_control" /\ j.cam = c
  BY JobType DEF Ops, Probing
<1> HIDE DEF j
<1>2. \/ loaded /\ todo' = <<j>> /\ DOMAIN todo' = {1} /\ todo' # <<>> /\ todo'[1] = j
      \/ ~loaded /\ todo' = <<>> /\ DOMAIN todo' = {}
  BY <1>1, OneOrTwoJobs DEF Plug, j
<1>3. /\ probe' \in [Cameras -> Frame] /\ commit' \in [Cameras -> Frame]
      /\ \A d \in present : commit'[d] = commit[d]
  BY <1>0 DEF Plug, TypeOK, Frame
<1>4. TypeOK'
  <2>1. todo' \in Seq(Jobs)
    BY <1>1, <1>2, OneOrTwoJobs
  <2> QED
    BY <2>1, <1>0, <1>3 DEF TypeOK
<1>5. CountersTell' /\ NodeHasDevice'
  BY <1>0 DEF DInv, CountersTell, NodeHasDevice, Allocated
<1>6. JobsInOrder'
  BY <1>0, <1>1, <1>2 DEF JobsInOrder, Probing, Parting
<1>7. CountersInStep'
  BY <1>0, <1>1, <1>2 DEF DInv, CountersInStep, First
<1>8. NodeGoesFirst'
  <2>1. ~Has("unload") /\ ~First(Parting)
    BY <1>0 DEF Has, First
  <2>2. loaded => (unplugged => disc_cnt >= 2) /\ (~unplugged => disc_cnt = 0)
    BY <2>1 DEF DInv, NodeGoesFirst, Allocated
  <2>3. ~Has("unload")' /\ ~Has("gone")' /\ ~First(Parting)'
    BY <1>1, <1>2 DEF Has, First, Parting
  <2> QED
    BY <2>2, <2>3, <1>0 DEF NodeGoesFirst, Allocated
<1>9. StreamNeedsUser'
  BY <1>0, <1>1, <1>2 DEF DInv, StreamNeedsUser
<1>10. NegotiationInStep'
  <2> SUFFICES ASSUME ~overlap PROVE NegotiationInStep'
    BY <1>0 DEF NegotiationInStep
  <2>1. stream # NULL => udev \in present
    BY <1>0 DEF DInv, NegotiationInStep, StreamNeedsUser, Addressed
  <2>2. Streaming \/ stream # NULL => commit'[udev] = commit[udev]
    BY <2>1, <1>0, <1>3 DEF DInv, NegotiationInStep
  <2>3. Attached
    BY <1>0 DEF Attached
  <2>4. (Streaming' <=> Streaming) /\ (Addressed' <=> Addressed)
    BY <1>0 DEF Streaming, Addressed
  <2>5. app = "urbs" /\ "set" \notin Faults /\ Addressed => params.size \in {0, SizeFor(udev, commit[udev])}
    BY <2>3 DEF DInv, NegotiationInStep
  <2>6. app = "urbs" /\ "set" \notin Faults /\ Addressed => params'.size \in {0, SizeFor(udev', commit'[udev'])}
    BY <2>2, <2>5, <1>0 DEF Streaming
  <2>7. stream # NULL => /\ stream'.cam = udev'
                         /\ "set" \notin Faults /\ Addressed => stream'.packets = Packets(SizeFor(udev', commit'[udev']))
    BY <2>2, <1>0 DEF DInv, NegotiationInStep
  <2>8. /\ Streaming => udev \in present
        /\ app = "get" => params.size = 0
        /\ app = "set" => params.size \in {0, SizeFor(udev, params.frame)}
    BY DEF DInv, NegotiationInStep
  <2> QED
    BY <2>4, <2>6, <2>7, <2>8, <1>0 DEF NegotiationInStep
<1> QED
  BY <1>4, <1>5, <1>6, <1>7, <1>8, <1>9, <1>10 DEF DInv

LEMMA UnplugPreserves == ASSUME DInv, NEW c \in Cameras, Unplug(c) PROVE DInv'
<1>0. /\ UNCHANGED <<loaded, present, udev, params, probe, commit, app, stream, broken, overlap>>
      /\ UNCHANGED <<probe_cnt, disc_cnt, control_intf, streaming_intf, vdev>>
      /\ todo = <<>> /\ c \in present /\ unplugged' = TRUE
      /\ TypeOK
  BY DEF Unplug, statics, camera, user, DInv
<1> DEFINE j == Job("disconnect_control", c)
           g == Job("gone", c)
<1>1. /\ j \in Jobs /\ j.op = "disconnect_control" /\ j.cam = c
      /\ g \in Jobs /\ g.op = "gone" /\ g.cam = c
  BY JobType DEF Ops, Parting
<1> HIDE DEF j, g
<1>2. \/ /\ loaded /\ todo' = <<j, g>> /\ DOMAIN todo' = {1, 2} /\ todo' # <<>>
         /\ todo'[1] = j /\ todo'[2] = g /\ Len(todo') = 2
      \/ /\ ~loaded /\ todo' = <<g>> /\ DOMAIN todo' = {1} /\ todo' # <<>>
         /\ todo'[1] = g /\ Len(todo') = 1
  BY <1>1, OneOrTwoJobs DEF Unplug, j, g
<1>3. TypeOK'
  <2>1. todo' \in Seq(Jobs)
    <3>1. <<j, g>> \in Seq(Jobs) /\ <<g>> \in Seq(Jobs)
      BY <1>1, OneOrTwoJobs
    <3> QED
      BY <3>1, <1>2
  <2> QED
    BY <2>1, <1>0 DEF TypeOK
<1>4. CountersTell' /\ NodeHasDevice'
  BY <1>0 DEF DInv, CountersTell, NodeHasDevice, Allocated
<1>5. loaded => probe_cnt >= 2
  BY <1>0 DEF DInv, CountersInStep, First, TypeOK
<1>6. JobsInOrder'
  BY <1>0, <1>1, <1>2, <1>5 DEF JobsInOrder, Probing, Parting
<1>7. CountersInStep'
  BY <1>0, <1>1, <1>2, <1>5 DEF DInv, CountersInStep, First
<1>8. NodeGoesFirst'
  BY <1>0, <1>1, <1>2 DEF DInv, NodeGoesFirst, NodeHasDevice, First, Has, Parting, Allocated
<1>9. StreamNeedsUser'
  BY <1>0, <1>1, <1>2 DEF DInv, StreamNeedsUser, First, Parting
<1>10. NegotiationInStep'
  <2>1. Attached
    BY <1>0 DEF Attached
  <2>2. Streaming' <=> Streaming
    BY <1>0 DEF Streaming
  <2> QED
    BY <2>1, <2>2, <1>0 DEF DInv, NegotiationInStep, Addressed
<1> QED
  BY <1>3, <1>4, <1>6, <1>7, <1>8, <1>9, <1>10 DEF DInv

LEMMA InsmodPreserves == ASSUME DInv, Insmod PROVE DInv'
<1>0. /\ UNCHANGED <<present, probe, commit, app, stream, broken, overlap>>
      /\ todo = <<>> /\ ~loaded /\ loaded' /\ loaded' = TRUE /\ unplugged' = FALSE
      /\ probe_cnt' = 0 /\ disc_cnt' = 0 /\ vdev' = "none" /\ udev' = NULL
      /\ control_intf' = NULL /\ streaming_intf' = NULL
      /\ TypeOK
  BY DEF Insmod, camera, user, DInv
<1>1. PICK s \in AllOrders(present) :
        todo' = [k \in 1 .. Cardinality(present) |-> Job("probe_control", s[k])]
  BY DEF Insmod
<1>2. /\ Cardinality(present) \in Nat /\ (present # {} => Cardinality(present) # 0)
      /\ s \in [1 .. Cardinality(present) -> present] /\ present \subseteq Cameras
  BY <1>0, OrdersType DEF TypeOK
<1>3. \A k \in 1 .. Cardinality(present) :
        todo'[k] \in Jobs /\ todo'[k].op = "probe_control" /\ todo'[k].cam \in present
  <2> TAKE k \in 1 .. Cardinality(present)
  <2>1. todo'[k] = Job("probe_control", s[k]) /\ s[k] \in present /\ s[k] \in Cameras
    BY <1>1, <1>2
  <2>2. "probe_control" \in Ops
    BY DEF Ops, Probing
  <2>3. s[k] \in Cameras \cup {NULL}
    BY <2>1
  <2>4. /\ Job("probe_control", s[k]) \in Jobs /\ Job("probe_control", s[k]).op = "probe_control"
        /\ Job("probe_control", s[k]).cam = s[k]
    BY <2>2, <2>3, JobType
  <2> QED
    BY <2>1, <2>4
<1>4. /\ todo' \in Seq(Jobs) /\ DOMAIN todo' = 1 .. Cardinality(present)
      /\ todo' = <<>> <=> Cardinality(present) = 0
  <2>1. todo' \in [1 .. Cardinality(present) -> Jobs]
    BY <1>1, <1>3
  <2> QED
    BY <2>1, <1>2, MadeJobs
<1>5. TypeOK'
  <2>1. params' \in [frame : Frame, size : Cameras \cup {0, Default}]
    BY DEF Insmod, NoParams, Frame
  <2>2. /\ udev' \in Cameras \cup {NULL} /\ probe_cnt' \in Nat /\ disc_cnt' \in Nat
        /\ control_intf' \in Interface \cup {NULL} /\ streaming_intf' \in Interface \cup {NULL}
        /\ vdev' \in VideoDevice
        /\ loaded' \in BOOLEAN /\ unplugged' \in BOOLEAN
    BY <1>0 DEF VideoDevice
  <2> QED
    BY <2>1, <2>2, <1>0, <1>4 DEF TypeOK
<1>6. CountersTell' /\ NodeHasDevice'
  BY <1>0 DEF CountersTell, NodeHasDevice, Allocated
<1>7. JobsInOrder'
  BY <1>0, <1>3, <1>4 DEF JobsInOrder, Probing, Parting
<1>8. present # {} => todo' # <<>>
  BY <1>2, <1>4
<1>9. todo' # <<>> => todo'[1].op = "probe_control"
  <2>1. todo' # <<>> => 1 \in 1 .. Cardinality(present)
    BY <1>2, <1>4
  <2> QED
    BY <2>1, <1>3
<1>10. CountersInStep'
  <2>1. ~First({"probe_streaming"})' /\ ~First({"disconnect_streaming"})'
    BY <1>9 DEF First
  <2>2. present # {} => First({"probe_control"})'
    BY <1>8, <1>9 DEF First
  <2> QED
    <3>1. present' = present /\ probe_cnt' = 0 /\ disc_cnt' = 0
      BY <1>0
    <3>2. probe_cnt' # 1 /\ disc_cnt' # 1 /\ vdev' # "null"
      BY <3>1, <1>0
    <3> QED
      BY <3>1, <3>2, <2>1, <2>2, Zenon DEF CountersInStep
<1>11. NodeGoesFirst'
  BY <1>0, <1>3, <1>4, <1>9 DEF NodeGoesFirst, First, Has, Parting, Allocated
<1>12. StreamNeedsUser' /\ NegotiationInStep'
  BY <1>0 DEF DInv, StreamNeedsUser, NegotiationInStep, Streaming, Addressed
<1> QED
  BY <1>5, <1>6, <1>7, <1>10, <1>11, <1>12 DEF DInv

LEMMA RmmodPreserves == ASSUME DInv, Rmmod PROVE DInv'
<1>0. /\ UNCHANGED <<loaded, present, udev, params, probe, commit, app, stream, broken, unplugged, overlap>>
      /\ UNCHANGED <<probe_cnt, disc_cnt, control_intf, streaming_intf, vdev>>
      /\ todo = <<>> /\ loaded /\ app = "closed" /\ TypeOK
  BY DEF Rmmod, statics, camera, user, DInv
<1>1. PICK s \in AllOrders(present) :
        todo' = [k \in 1 .. Cardinality(present) + 1 |->
                   IF k \in DOMAIN s THEN Job("disconnect_control", s[k]) ELSE Job("unload", NULL)]
  BY DEF Rmmod
<1>n. PICK n \in Nat : n = Cardinality(present)
  BY <1>0, OrdersType
<1>2. /\ present # {} => n # 0
      /\ DOMAIN s = 1 .. n /\ s \in [1 .. n -> present] /\ present \subseteq Cameras
      /\ \A k \in 1 .. n + 1 : k \in 1 .. n \/ k = n + 1
      /\ n + 1 \in 1 .. n + 1 /\ n + 1 \notin 1 .. n /\ \A k \in 1 .. n : k \in 1 .. n + 1
      /\ present = {} => n = 0
  BY <1>0, <1>n, OrdersType, FS_EmptySet DEF TypeOK
<1>u. \A k \in 1 .. n + 1 :
        todo'[k] = IF k \in 1 .. n THEN Job("disconnect_control", s[k]) ELSE Job("unload", NULL)
  BY <1>1, <1>n, <1>2
<1>v. todo' = [k \in 1 .. n + 1 |-> todo'[k]]
  BY <1>1, <1>n
<1>3. /\ \A k \in 1 .. n : todo'[k] \in Jobs /\ todo'[k].op = "disconnect_control"
      /\ todo'[n + 1] \in Jobs /\ todo'[n + 1].op = "unload"
  <2>1. "disconnect_control" \in Ops /\ "unload" \in Ops
    BY DEF Ops, Parting
  <2>2. ASSUME NEW k \in 1 .. n PROVE todo'[k] \in Jobs /\ todo'[k].op = "disconnect_control"
    <3>1. todo'[k] = Job("disconnect_control", s[k]) /\ s[k] \in Cameras \cup {NULL}
      BY <1>u, <1>2
    <3>2. Job("disconnect_control", s[k]) \in Jobs /\ Job("disconnect_control", s[k]).op = "disconnect_control"
      BY <3>1, <2>1, JobType
    <3> QED
      BY <3>1, <3>2
  <2>3. todo'[n + 1] = Job("unload", NULL)
    BY <1>u, <1>2
  <2>4. Job("unload", NULL) \in Jobs /\ Job("unload", NULL).op = "unload"
    BY <2>1, JobType
  <2> QED
    BY <2>2, <2>3, <2>4
<1>4. todo' \in Seq(Jobs) /\ DOMAIN todo' = 1 .. n + 1 /\ Len(todo') = n + 1 /\ todo' # <<>>
  <2>1. todo' \in [1 .. n + 1 -> Jobs]
    BY <1>v, <1>2, <1>3
  <2> QED
    BY <2>1, MadeJobs
<1>5. \A k \in DOMAIN todo' :
        todo'[k].op = "disconnect_control" \/ (k = Len(todo') /\ todo'[k].op = "unload")
  <2> TAKE k \in DOMAIN todo'
  <2>1. k \in 1 .. n \/ k = n + 1
    BY <1>2, <1>4
  <2> QED
    BY <2>1, <1>3, <1>4
<1>6. 1 \in DOMAIN todo' /\ (present # {} => todo'[1].op = "disconnect_control")
  <2>1. 1 \in 1 .. n + 1 /\ (present # {} => 1 \in 1 .. n)
    BY <1>2
  <2> QED
    BY <2>1, <1>3, <1>4
<1>7. TypeOK'
  BY <1>0, <1>4 DEF TypeOK
<1>8. CountersTell' /\ NodeHasDevice'
  BY <1>0 DEF DInv, CountersTell, NodeHasDevice, Allocated
<1>9. /\ ~First({"probe_control"}) /\ ~First({"probe_streaming"}) /\ ~First({"disconnect_streaming"})
      /\ ~First(Parting)
  BY <1>0 DEF First
<1>10. /\ present # {} => probe_cnt >= 2
       /\ probe_cnt # 1 /\ disc_cnt # 1
       /\ present # {} => probe_cnt # 0
  <2>1. (present # {} => probe_cnt # 0) /\ probe_cnt # 1 /\ disc_cnt # 1
    BY <1>0, <1>9 DEF DInv, CountersInStep
  <2> QED
    BY <2>1, <1>0 DEF TypeOK
<1>11. JobsInOrder'
  <2> SUFFICES ASSUME NEW k \in DOMAIN todo'
      PROVE /\ todo'[k].op \in {"disconnect_control", "unload"}
            /\ todo'[k].op \in Parting => probe_cnt' >= 2
            /\ todo'[k].op = "unload" => k = Len(todo')
    BY <1>0 DEF JobsInOrder, Probing
  <2>1. todo'[k].op = "disconnect_control" => present # {}
    <3>1. CASE present = {}
      <4>1. k = n + 1
        BY <3>1, <1>2, <1>4
      <4> QED
        BY <4>1, <1>3
    <3> QED
      BY <3>1
  <2> QED
    BY <2>1, <1>0, <1>5, <1>10 DEF Parting
<1>12. /\ ~First({"probe_streaming"})' /\ ~First({"disconnect_streaming"})'
       /\ present # {} => First(Parting)'
  BY <1>4, <1>5, <1>6 DEF First, Parting
<1>13. CountersInStep'
  <2>1. vdev' # "null"
    BY <1>0, <1>9 DEF DInv, CountersInStep
  <2> QED
    BY <2>1, <1>0, <1>10, <1>12, Zenon DEF CountersInStep
<1>14. Has("unload")'
  BY <1>2, <1>3, <1>4 DEF Has
<1>15. NodeGoesFirst'
  BY <1>0, <1>9, <1>12, <1>14 DEF DInv, NodeGoesFirst, NodeHasDevice, Allocated
<1>16. StreamNeedsUser' /\ NegotiationInStep'
  BY <1>0 DEF DInv, StreamNeedsUser, NegotiationInStep, Streaming, Addressed
<1> QED
  BY <1>7, <1>8, <1>11, <1>13, <1>15, <1>16 DEF DInv

-----------------------------------------------------------------------------
(***************************************************************************)
(* The USB core at work                                                    *)
(***************************************************************************)
LEMMA WorksOnFirst ==
  ASSUME TypeOK, NEW ops, Works(ops)
  PROVE  /\ todo # <<>> /\ 1 \in DOMAIN todo /\ Head(todo) = todo[1] /\ todo[1].op \in ops
         /\ todo[1] \in Jobs /\ First(ops) /\ overlap' \in BOOLEAN /\ vdev # "null"
<1>1. /\ todo \in Seq(Jobs) /\ todo # <<>> /\ Head(todo).op \in ops /\ overlap' \in BOOLEAN
      /\ vdev # "null"
  BY DEF TypeOK, Works
<1>2. 1 \in DOMAIN todo /\ Head(todo) = todo[1] /\ todo[1] \in Jobs
  BY <1>1
<1> QED
  BY <1>1, <1>2 DEF First

(* A STREAMON, or a stream, that is under way counts as disturbed. *)
LEMMA WorksDisturbs ==
  ASSUME NEW ops, Works(ops), app' = app, stream' = stream \/ stream' = NULL
  PROVE  NegotiationInStep'
<1>1. ~overlap' => app \notin {"get", "set", "urbs"} /\ stream = NULL
  BY DEF Works
<1>2. ~overlap' => app' \notin {"get", "set", "urbs"} /\ stream' = NULL
  BY <1>1
<1> QED
  BY <1>2 DEF NegotiationInStep, Streaming, Addressed

(* While a camera is probed there are no other jobs than probing. *)
LEMMA ProbingJobs ==
  ASSUME DInv, NEW ops, Works(ops), ops \subseteq Probing,
         Done \/ todo' = todo \/ \E op \in Probing : Continue(op),
         UNCHANGED <<loaded, present>>
  PROVE  /\ loaded /\ todo[1].cam \in present /\ todo' \in Seq(Jobs)
         /\ JobsInOrder'
         /\ ~Has("gone") /\ ~Has("unload") /\ ~First(Parting)
         /\ ~Has("gone")' /\ ~Has("unload")' /\ ~First(Parting)'
         /\ Done /\ todo' # <<>> => todo'[1].op = "probe_control"
<1>1. TypeOK /\ todo \in Seq(Jobs) /\ todo # <<>> /\ 1 \in DOMAIN todo /\ todo[1].op \in Probing
  BY WorksOnFirst DEF DInv, TypeOK
<1>2. \A k \in DOMAIN todo : todo[k].op \in Probing
  BY <1>1 DEF DInv, JobsInOrder
<1>3. /\ loaded
      /\ \A k \in DOMAIN todo : todo[k].cam \in present /\ (k > 1 => todo[k].op = "probe_control")
  BY <1>1, <1>2 DEF DInv, JobsInOrder, Probing
<1>4. /\ todo' \in Seq(Jobs)
      /\ \A k \in DOMAIN todo' : todo'[k].op \in Probing /\ todo'[k].cam \in present
                                 /\ (k > 1 => todo'[k].op = "probe_control")
      /\ Done /\ todo' # <<>> => todo'[1].op = "probe_control"
      /\ todo' # <<>> => 1 \in DOMAIN todo'
  <2>1. CASE Done
    <3>1. \A k \in DOMAIN todo' : todo'[k].op = "probe_control" /\ todo'[k].cam \in present
      <4> TAKE k \in DOMAIN todo'
      <4>1. k + 1 \in DOMAIN todo /\ todo'[k] = todo[k + 1] /\ k + 1 > 1
        BY <2>1, <1>1, DoneJobs
      <4> QED
        BY <4>1, <1>3
    <3>2. todo' \in Seq(Jobs) /\ (todo' # <<>> => 1 \in DOMAIN todo')
      BY <2>1, <1>1, DoneJobs
    <3> QED
      BY <3>1, <3>2 DEF Probing
  <2>2. ASSUME NEW op \in Probing, Continue(op), ~Done
        PROVE  /\ todo' \in Seq(Jobs) /\ 1 \in DOMAIN todo'
               /\ \A k \in DOMAIN todo' : todo'[k].op \in Probing /\ todo'[k].cam \in present
                                          /\ (k > 1 => todo'[k].op = "probe_control")
    <3>1. op \in Ops
      BY DEF Ops
    <3>2. /\ todo' \in Seq(Jobs) /\ DOMAIN todo' = DOMAIN todo
          /\ todo'[1].op = op /\ todo'[1].cam = todo[1].cam
          /\ \A k \in DOMAIN todo : k # 1 => todo'[k] = todo[k]
      BY <3>1, <2>2, <1>1, ContinueJobs
    <3>3. /\ todo'[1].op \in Probing /\ todo'[1].cam \in present /\ 1 \in DOMAIN todo'
      BY <3>2, <1>1, <1>3
    <3>5. ~(1 > 1)
      OBVIOUS
    <3>4. ASSUME NEW k \in DOMAIN todo', k # 1
          PROVE  todo'[k].op \in Probing /\ todo'[k].cam \in present /\ (k > 1 => todo'[k].op = "probe_control")
      BY <3>2, <3>4, <1>2, <1>3
    <3> QED
      BY <3>2, <3>3, <3>4, <3>5, Zenon
  <2>3. CASE todo' = todo /\ ~Done
    BY <2>3, <1>1, <1>2, <1>3
  <2> QED
    BY <2>1, <2>2, <2>3
<1>5. JobsInOrder'
  BY <1>3, <1>4 DEF JobsInOrder, Probing, Parting
<1>6. ~Has("gone") /\ ~Has("unload") /\ ~First(Parting)
  BY <1>1, <1>2 DEF Has, First, Probing, Parting
<1>7. ~Has("gone")' /\ ~Has("unload")' /\ ~First(Parting)'
  BY <1>4 DEF Has, First, Probing, Parting
<1> QED
  BY <1>1, <1>3, <1>4, <1>5, <1>6, <1>7

(***************************************************************************)
(* myuvc_probe: the counter passes 2 in the call for the streaming         *)
(* interface of the first camera, and in no other.                         *)
(***************************************************************************)
LEMMA ProbePreserves == ASSUME DInv, Probe PROVE DInv'
<1>0. /\ UNCHANGED <<loaded, present, disc_cnt, params, probe, commit, app, stream, unplugged>>
      /\ Works({"probe_control", "probe_streaming"}) /\ TypeOK
  BY DEF Probe, camera, user, DInv
<1>1. /\ todo \in Seq(Jobs) /\ todo # <<>> /\ 1 \in DOMAIN todo /\ Head(todo) = todo[1]
      /\ todo[1].op \in {"probe_control", "probe_streaming"}
      /\ overlap' \in BOOLEAN /\ vdev # "null"
  BY <1>0, WorksOnFirst DEF TypeOK
<1>t. probe_cnt \in Nat /\ disc_cnt \in Nat /\ disc_cnt' = disc_cnt
  BY <1>0 DEF TypeOK
<1>2. PICK kind \in {"control", "streaming"} :
      /\ todo[1].op = "probe_control" => kind = "control"
      /\ todo[1].op = "probe_streaming" => kind = "streaming"
      /\ probe_cnt' = probe_cnt + 1
      /\ udev' = todo[1].cam
      /\ control_intf' = IF probe_cnt' = 1 THEN [cam |-> todo[1].cam, kind |-> kind] ELSE control_intf
      /\ streaming_intf' = IF probe_cnt' = 2 THEN [cam |-> todo[1].cam, kind |-> kind] ELSE streaming_intf
      /\ vdev' \in IF probe_cnt' = 2 THEN NewNode ELSE {vdev}
      /\ broken' = (broken \/ vdev' = "null")
      /\ \/ probe_cnt' = 2 /\ vdev' = "null" /\ todo' = todo
         \/ probe_cnt' = 2 /\ vdev' # "null" /\ Continue("try")
         \/ probe_cnt' # 2 /\ kind = "control" /\ Continue("probe_streaming")
         \/ probe_cnt' # 2 /\ kind = "streaming" /\ Done
  <2> DEFINE i == IF todo[1].op = "probe_control" THEN "control" ELSE "streaming"
  <2>1. i \in {"control", "streaming"}
    OBVIOUS
  <2> WITNESS i \in {"control", "streaming"}
  <2> QED
    BY <1>1 DEF Probe, Registers
<1>s. /\ todo[1].op = "probe_control" => kind = "control"
      /\ todo[1].op = "probe_streaming" => kind = "streaming"
      /\ probe_cnt' = probe_cnt + 1
  BY <1>2, Zenon
<1>v. /\ probe_cnt' = 2 => vdev' \in {"null", "allocated", "registered"}
      /\ probe_cnt' # 2 => vdev' = vdev
      /\ broken' \in BOOLEAN
  BY <1>0, <1>2 DEF NewNode, TypeOK
<1>3. "try" \in Probing /\ "probe_streaming" \in Probing /\ "probe_control" \in Probing
  BY DEF Probing
<1>4. Done \/ todo' = todo \/ \E op \in Probing : Continue(op)
  BY <1>2, <1>3
<1>5. /\ loaded /\ todo[1].cam \in present /\ todo' \in Seq(Jobs)
      /\ JobsInOrder'
      /\ ~Has("gone") /\ ~Has("unload") /\ ~First(Parting)
      /\ ~Has("gone")' /\ ~Has("unload")' /\ ~First(Parting)'
      /\ Done /\ todo' # <<>> => todo'[1].op = "probe_control"
  BY <1>0, <1>3, <1>4, ProbingJobs
(* Which call it is *)
<1>6. /\ todo[1].op = "probe_control" => probe_cnt # 1
      /\ todo[1].op = "probe_streaming" => probe_cnt >= 1
      /\ disc_cnt # 1
  BY <1>1 DEF DInv, CountersInStep, First
<1>7. /\ probe_cnt = 0 => kind = "control"
      /\ probe_cnt = 1 => kind = "streaming"
  BY <1>1, <1>s, <1>6
<1>c. /\ probe_cnt = 0 \/ probe_cnt = 1 \/ probe_cnt >= 2
      /\ probe_cnt' = probe_cnt + 1 /\ probe_cnt' \in Nat
  BY <1>t, <1>s
<1>d. udev' \in Cameras /\ udev' \in present
  BY <1>0, <1>2, <1>5 DEF TypeOK
<1>8. /\ CountersTell'
      /\ probe_cnt = 1 => NodeHasDevice'
  <2>0. /\ control_intf' = IF probe_cnt' = 1 THEN [cam |-> todo[1].cam, kind |-> kind] ELSE control_intf
        /\ streaming_intf' = IF probe_cnt' = 2 THEN [cam |-> todo[1].cam, kind |-> kind] ELSE streaming_intf
        /\ udev' = todo[1].cam
    BY <1>2
  <2>1. CASE probe_cnt = 0
    <3>1. probe_cnt' = 1 /\ vdev' = "none" /\ disc_cnt' = 0
      BY <2>1, <1>t, <1>c, <1>v DEF DInv, CountersTell
    <3>2. control_intf' = [cam |-> udev', kind |-> "control"]
      BY <3>1, <2>0, <2>1, <1>7
    <3> QED
      BY <3>1, <3>2, <2>1, <1>d DEF CountersTell
  <2>2. CASE probe_cnt = 1
    <3>1. PICK c \in Cameras : control_intf = [cam |-> c, kind |-> "control"] /\ udev = c
      BY <2>2 DEF DInv, CountersTell
    <3>2. todo[1].cam = c
      BY <3>1, <2>2 DEF DInv, CountersInStep
    <3>3. probe_cnt' = 2 /\ disc_cnt' = 0
      BY <2>2, <1>t, <1>c DEF DInv, CountersTell
    <3>4. /\ control_intf' = [cam |-> c, kind |-> "control"]
          /\ streaming_intf' = [cam |-> c, kind |-> "streaming"] /\ udev' = c
      BY <3>1, <3>2, <3>3, <2>0, <2>2, <1>7
    <3>5. CountersTell'
      BY <3>3, <3>4, <1>v, <1>d DEF CountersTell
    <3>6. NodeHasDevice'
      BY <3>4, <1>0, <1>5, <1>d DEF NodeHasDevice
    <3> QED
      BY <3>5, <3>6
  <2>3. CASE probe_cnt >= 2
    <3>1. PICK c \in Cameras : /\ control_intf = [cam |-> c, kind |-> "control"]
                               /\ streaming_intf = [cam |-> c, kind |-> "streaming"]
      BY <2>3, <1>t DEF DInv, CountersTell
    <3>2. probe_cnt' > 2 /\ vdev' = vdev
      BY <2>3, <1>t, <1>c, <1>v
    <3>3. control_intf' = control_intf /\ streaming_intf' = streaming_intf
      BY <3>2, <2>0, <1>c
    <3>4. IF disc_cnt < 2 THEN vdev \in {"null", "allocated", "registered"} ELSE vdev = "freed"
      BY <2>3 DEF DInv, CountersTell
    <3>5. ~(probe_cnt' < 2) /\ ~(probe_cnt' <= 2) /\ probe_cnt # 1
      BY <3>2, <2>3, <1>c, <1>t
    <3> QED
      BY <3>1, <3>2, <3>3, <3>4, <3>5, <1>t, <1>d DEF CountersTell
  <2> QED
    BY <2>1, <2>2, <2>3, <1>c, <1>t
<1>9. TypeOK'
  <2>1. vdev' \in VideoDevice
    BY <1>0, <1>v DEF TypeOK, VideoDevice
  <2>2. control_intf' \in Interface \cup {NULL} /\ streaming_intf' \in Interface \cup {NULL}
    BY <1>0, <1>2, <1>d DEF TypeOK, Interface
  <2> QED
    BY <2>1, <2>2, <1>0, <1>1, <1>5, <1>c, <1>d, <1>v DEF TypeOK
<1>10. NodeHasDevice'
  <2>1. CASE probe_cnt = 0
    <3>1. vdev' = "none"
      BY <2>1, <1>c, <1>8 DEF CountersTell
    <3> QED
      BY <3>1 DEF NodeHasDevice, Allocated
  <2>2. CASE probe_cnt >= 2
    <3>1. probe_cnt' # 1 /\ probe_cnt' # 2 /\ vdev' = vdev
      BY <2>2, <1>c, <1>t, <1>v
    <3>2. control_intf' = control_intf /\ streaming_intf' = streaming_intf
      BY <3>1, <1>2
    <3> QED
      BY <3>1, <3>2, <1>0, <1>d DEF DInv, NodeHasDevice, Allocated
  <2> QED
    BY <2>1, <2>2, <1>8, <1>c
<1>11. CountersInStep'
  <2>0. CASE probe_cnt' = 2 /\ todo' = todo
    <3>1. kind = "streaming" /\ probe_cnt' >= 1 /\ disc_cnt' # 1
      BY <2>0, <1>c, <1>t, <1>6, <1>7
    <3>2. First({"probe_streaming"})' /\ ~First({"disconnect_streaming"})'
      BY <3>1, <2>0, <1>1, <1>s DEF First
    <3>3. probe_cnt' # 0 /\ probe_cnt' # 1
      BY <2>0
    <3> QED
      BY <3>1, <3>2, <3>3, Zenon DEF CountersInStep
  <2>1. CASE probe_cnt' = 2 /\ vdev' # "null" /\ Continue("try")
    <3>1. todo' # <<>> /\ todo'[1].op = "try"
      BY <2>1, <1>1, <1>3, ContinueJobs DEF Ops
    <3>2. ~First({"probe_streaming"})' /\ ~First({"disconnect_streaming"})'
      BY <3>1 DEF First
    <3>0. probe_cnt' = 2
      BY <2>1, Zenon
    <3>3. probe_cnt' # 0 /\ probe_cnt' # 1 /\ disc_cnt' # 1 /\ vdev' # "null"
      BY <3>0, <2>1, <1>6, <1>t
    <3> QED
      BY <3>2, <3>3, Zenon DEF CountersInStep
  <2>2. CASE probe_cnt' # 2 /\ kind = "control" /\ Continue("probe_streaming")
    <3>1. todo' # <<>> /\ todo'[1].op = "probe_streaming"
      BY <2>2, <1>1, <1>3, ContinueJobs DEF Ops
    <3>2. First({"probe_streaming"})' /\ ~First({"disconnect_streaming"})'
      BY <3>1 DEF First
    <3>3. probe_cnt' # 0 /\ disc_cnt' # 1 /\ probe_cnt' >= 1 /\ vdev' # "null"
      BY <2>2, <1>1, <1>6, <1>c, <1>t, <1>v
    <3>4. todo'[1].cam = udev'
      BY <2>2, <1>1, <1>2, <1>3, ContinueJobs DEF Ops
    <3> QED
      BY <3>2, <3>3, <3>4, Zenon DEF CountersInStep
  <2>3. CASE probe_cnt' # 2 /\ kind = "streaming" /\ Done
    <3>1. todo' # <<>> => todo'[1].op = "probe_control"
      BY <2>3, <1>5
    <3>2. ~First({"probe_streaming"})' /\ ~First({"disconnect_streaming"})'
      BY <3>1 DEF First
    <3>3. probe_cnt # 0
      BY <2>3, <1>7
    <3>4. probe_cnt' # 0 /\ probe_cnt' # 1 /\ disc_cnt' # 1 /\ vdev' # "null"
      BY <3>3, <2>3, <1>1, <1>6, <1>c, <1>t, <1>v
    <3> QED
      BY <3>2, <3>4, Zenon DEF CountersInStep
  <2> QED
    BY <2>0, <2>1, <2>2, <2>3, <1>2
<1>12. NodeGoesFirst'
  BY <1>0, <1>5 DEF DInv, NodeGoesFirst, Allocated
<1>13. StreamNeedsUser'
  BY <1>0, <1>5 DEF DInv, StreamNeedsUser, Has
<1>14. NegotiationInStep'
  BY <1>0, WorksDisturbs
<1> QED
  BY <1>5, <1>8, <1>9, <1>10, <1>11, <1>12, <1>13, <1>14 DEF DInv

(* The messages that myuvc_probe sends *)
LEMMA ProbeNegotiatesPreserves == ASSUME DInv, ProbeNegotiates PROVE DInv'
<1>0. /\ UNCHANGED <<loaded, present, udev, app, stream, broken, unplugged>>
      /\ UNCHANGED <<probe_cnt, disc_cnt, control_intf, streaming_intf, vdev>>
      /\ TypeOK
  BY DEF ProbeNegotiates, statics, user, DInv
<1>1. PICK ops \in {{"try"}, {"get"}, {"set"}} : Works(ops)
  BY DEF ProbeNegotiates
<1>2. ops \subseteq Probing /\ "get" \in Probing /\ "set" \in Probing
  BY <1>1 DEF Probing
<1>3. /\ todo \in Seq(Jobs) /\ todo # <<>> /\ 1 \in DOMAIN todo
      /\ todo[1].op \in {"try", "get", "set"} /\ overlap' \in BOOLEAN /\ vdev # "null"
      /\ probe_cnt \in Nat /\ disc_cnt \in Nat
  BY <1>0, <1>1, WorksOnFirst DEF TypeOK
<1>4. (TryParams /\ Continue("get")) \/ (GetParams /\ Continue("set")) \/ (SetParams /\ Done)
  BY DEF ProbeNegotiates
<1>5. Done \/ todo' = todo \/ \E op \in Probing : Continue(op)
  BY <1>2, <1>4
<1>6. /\ loaded /\ todo[1].cam \in present /\ todo' \in Seq(Jobs)
      /\ JobsInOrder'
      /\ ~Has("gone") /\ ~Has("unload") /\ ~First(Parting)
      /\ ~Has("gone")' /\ ~Has("unload")' /\ ~First(Parting)'
      /\ Done /\ todo' # <<>> => todo'[1].op = "probe_control"
  BY <1>0, <1>1, <1>2, <1>5, ProbingJobs
<1>7. probe_cnt >= 2 /\ disc_cnt # 1 /\ udev \in Cameras
  <2>1. probe_cnt # 0 /\ probe_cnt # 1 /\ disc_cnt # 1
    BY <1>3, <1>6 DEF DInv, CountersInStep, First
  <2> QED
    BY <2>1, <1>3 DEF DInv, CountersTell
<1>8. TypeOK'
  <2>1. /\ params' \in [frame : Frame, size : Cameras \cup {0, Default}]
        /\ probe' \in [Cameras -> Frame] /\ commit' \in [Cameras -> Frame]
    <3>1. CASE TryParams
      BY <3>1, <1>0, <1>7, TryType DEF TypeOK
    <3>2. CASE GetParams
      BY <3>2, <1>0, <1>7, GetType DEF TypeOK
    <3>3. CASE SetParams
      BY <3>3, <1>0, <1>7, SetType DEF TypeOK
    <3> QED
      BY <3>1, <3>2, <3>3, <1>4
  <2> QED
    BY <2>1, <1>0, <1>3, <1>6 DEF TypeOK
<1>9. CountersTell' /\ NodeHasDevice'
  BY <1>0 DEF DInv, CountersTell, NodeHasDevice, Allocated
<1>10. todo' # <<>> => todo'[1].op \in {"get", "set", "probe_control"}
  <2>1. CASE Done
    BY <2>1, <1>6
  <2>2. ASSUME NEW op \in {"get", "set"}, Continue(op) PROVE todo'[1].op = op
    <3>1. op \in Ops
      BY DEF Ops, Probing
    <3> QED
      BY <3>1, <2>2, <1>3, ContinueJobs
  <2> QED
    BY <2>1, <2>2, <1>4
<1>11. CountersInStep'
  <2>1. ~First({"probe_streaming"})' /\ ~First({"disconnect_streaming"})'
    BY <1>10 DEF First
  <2>2. probe_cnt' # 0 /\ probe_cnt' # 1 /\ disc_cnt' # 1 /\ vdev' # "null"
    BY <1>0, <1>3, <1>7
  <2> QED
    BY <2>1, <2>2, Zenon DEF CountersInStep
<1>12. NodeGoesFirst'
  BY <1>0, <1>6 DEF DInv, NodeGoesFirst, Allocated
<1>13. StreamNeedsUser'
  BY <1>0, <1>6 DEF DInv, StreamNeedsUser, Has
<1>14. NegotiationInStep'
  BY <1>0, <1>1, WorksDisturbs
<1> QED
  BY <1>6, <1>8, <1>9, <1>11, <1>12, <1>13, <1>14 DEF DInv

(***************************************************************************)
(* The other jobs, and what becomes of them: a job that is done leaves the *)
(* rest in order, and there is nothing to be probed in it.                 *)
(***************************************************************************)
LEMMA LeavingJobs ==
  ASSUME DInv, NEW ops, Works(ops), ops \cap Probing = {}
  PROVE  /\ \A k \in DOMAIN todo : todo[k].op \notin Probing
         /\ Done => /\ todo' \in Seq(Jobs)
                    /\ DOMAIN todo' = 1 .. Len(todo') /\ Len(todo') = Len(todo) - 1
                    /\ \A k \in DOMAIN todo' :
                         /\ todo'[k] = todo[k + 1] /\ k + 1 \in DOMAIN todo
                         /\ todo'[k].op \in {"disconnect_control", "gone", "unload"}
                    /\ \A op : Has(op) => todo[1].op = op \/ Has(op)'
                    /\ \A op : Has(op)' => Has(op)
                    /\ todo' # <<>> => 1 \in DOMAIN todo'
<1>1. TypeOK /\ todo \in Seq(Jobs) /\ todo # <<>> /\ 1 \in DOMAIN todo /\ todo[1].op \notin Probing
  BY WorksOnFirst DEF DInv, TypeOK
<1>2. \A k \in DOMAIN todo : todo[k].op \notin Probing
  BY <1>1 DEF DInv, JobsInOrder
<1>3. ASSUME Done
      PROVE  /\ todo' \in Seq(Jobs)
             /\ DOMAIN todo' = 1 .. Len(todo') /\ Len(todo') = Len(todo) - 1
             /\ \A k \in DOMAIN todo' :
                  /\ todo'[k] = todo[k + 1] /\ k + 1 \in DOMAIN todo
                  /\ todo'[k].op \in {"disconnect_control", "gone", "unload"}
             /\ \A op : Has(op) => todo[1].op = op \/ Has(op)'
             /\ \A op : Has(op)' => Has(op)
             /\ todo' # <<>> => 1 \in DOMAIN todo'
  <2>1. /\ todo' \in Seq(Jobs) /\ Len(todo') = Len(todo) - 1
        /\ Len(todo) \in Nat \ {0} /\ DOMAIN todo = 1 .. Len(todo) /\ DOMAIN todo' = 1 .. Len(todo')
        /\ \A k \in DOMAIN todo' : k + 1 \in DOMAIN todo /\ todo'[k] = todo[k + 1]
        /\ \A k \in DOMAIN todo : k > 1 => k - 1 \in DOMAIN todo' /\ todo'[k - 1] = todo[k]
        /\ todo' # <<>> => 1 \in DOMAIN todo'
    BY <1>1, <1>3, DoneJobs
  <2>2. \A k \in DOMAIN todo' : k + 1 > 1
    BY <2>1
  <2>3. \A k \in DOMAIN todo : k > 1 => todo[k].op \in {"disconnect_control", "gone", "unload"}
    BY <1>2 DEF DInv, JobsInOrder, Probing
  <2>4. \A k \in DOMAIN todo' : todo'[k].op \in {"disconnect_control", "gone", "unload"}
    BY <2>1, <2>2, <2>3
  <2>5. \A k \in DOMAIN todo : k = 1 \/ k > 1
    BY <2>1
  <2>6. ASSUME NEW op, Has(op), todo[1].op # op PROVE Has(op)'
    <3>1. PICK k \in DOMAIN todo : todo[k].op = op
      BY <2>6 DEF Has
    <3>2. k - 1 \in DOMAIN todo' /\ todo'[k - 1] = todo[k]
      BY <3>1, <2>1, <2>5, <2>6
    <3> QED
      BY <3>1, <3>2 DEF Has
  <2>7. ASSUME NEW op, Has(op)' PROVE Has(op)
    BY <2>1, <2>7 DEF Has
  <2> QED
    BY <2>1, <2>4, <2>6, <2>7
<1> QED
  BY <1>2, <1>3

(* A job that is done keeps the rest in order. *)
LEMMA RestInOrder ==
  ASSUME DInv, NEW ops, Works(ops), ops \cap Probing = {}, Done, UNCHANGED <<probe_cnt, app>>,
         loaded' = loaded \/ todo' = <<>>
  PROVE  JobsInOrder'
<1>1. TypeOK /\ todo \in Seq(Jobs) /\ Len(todo) \in Nat
  BY DEF DInv, TypeOK
<1>2. /\ DOMAIN todo' = 1 .. Len(todo') /\ Len(todo') = Len(todo) - 1
      /\ \A k \in DOMAIN todo' :
           /\ todo'[k] = todo[k + 1] /\ k + 1 \in DOMAIN todo
           /\ todo'[k].op \in {"disconnect_control", "gone", "unload"}
  BY LeavingJobs
<1>3. todo' = <<>> => DOMAIN todo' = {}
  BY <1>2
<1> SUFFICES ASSUME NEW k \in DOMAIN todo'
    PROVE /\ todo'[k].op \in Parting => loaded' /\ probe_cnt' >= 2
          /\ todo'[k].op = "unload" => loaded' /\ app' = "closed"
          /\ todo'[k].op \in {"gone", "unload"} => k = Len(todo')
  BY <1>2 DEF JobsInOrder, Probing
<1>4. k \in Int /\ todo'[k] = todo[k + 1] /\ k + 1 \in DOMAIN todo /\ loaded' = loaded
  BY <1>2, <1>3
<1>5. /\ todo[k + 1].op = "unload" => loaded /\ app = "closed"
      /\ todo[k + 1].op \in {"gone", "unload"} => k + 1 = Len(todo)
  BY <1>4 DEF DInv, JobsInOrder
<1>6. todo[k + 1].op \in Parting => loaded /\ probe_cnt >= 2
  BY <1>4 DEF DInv, JobsInOrder
<1> QED
  BY <1>1, <1>2, <1>4, <1>5, <1>6

(***************************************************************************)
(* myuvc_disconnect: the counter passes 2 in the call for the streaming    *)
(* interface of the first camera that goes, when there is a node.          *)
(***************************************************************************)
LEMMA DisconnectPreserves == ASSUME DInv, Disconnect PROVE DInv'
<1>0. /\ UNCHANGED <<loaded, present, udev, params, probe, commit, app, broken, unplugged>>
      /\ UNCHANGED <<probe_cnt, control_intf, streaming_intf>>
      /\ Works(Parting) /\ TypeOK
      /\ probe_cnt \in Nat /\ disc_cnt \in Nat /\ disc_cnt' = disc_cnt + 1
  BY DEF Disconnect, camera, DInv, TypeOK
<1>1. /\ todo \in Seq(Jobs) /\ todo # <<>> /\ 1 \in DOMAIN todo /\ Head(todo) = todo[1]
      /\ todo[1].op \in Parting /\ overlap' \in BOOLEAN /\ First(Parting) /\ vdev # "null"
  BY <1>0, WorksOnFirst DEF TypeOK
<1>2. Parting \cap Probing = {} /\ "disconnect_streaming" \in Parting
  BY DEF Parting, Probing
<1>3. /\ \/ todo[1].op = "disconnect_streaming" /\ Done
         \/ todo[1].op = "disconnect_control" /\ Continue("disconnect_streaming")
      /\ \/ stream' = stream /\ ~(/\ todo[1].op = "disconnect_streaming" /\ stream # NULL
                                   /\ stream.cam = todo[1].cam)
         \/ stream' = NULL
  BY <1>1 DEF Disconnect, Parting
<1>4. loaded /\ probe_cnt >= 2
  BY <1>1 DEF DInv, JobsInOrder
<1>5. /\ todo[1].op = "disconnect_control" => disc_cnt # 1
      /\ todo[1].op = "disconnect_streaming" => disc_cnt >= 1
  BY <1>1 DEF DInv, CountersInStep, First
<1>6. /\ CountersTell' /\ vdev' # "null" /\ vdev' \in VideoDevice
      /\ Allocated' => Allocated /\ disc_cnt' < 2
  <2>1. IF disc_cnt < 2 THEN vdev \in {"allocated", "registered"} ELSE vdev = "freed"
    BY <1>1, <1>4 DEF DInv, CountersTell
  <2>2. /\ IF disc_cnt' < 2 THEN vdev' \in {"allocated", "registered"} ELSE vdev' = "freed"
        /\ disc_cnt # 1 => vdev' = vdev
    <3>1. CASE disc_cnt = 1
      <4>1. Allocated /\ Unregisters(disc_cnt')
        BY <3>1, <2>1, <1>0 DEF Unregisters, Allocated
      <4>2. vdev' = "freed"
        BY <4>1 DEF Disconnect
      <4> QED
        BY <4>2, <3>1, <1>0
    <3>2. CASE disc_cnt # 1
      <4>1. ~Unregisters(disc_cnt')
        BY <3>2, <1>0 DEF Unregisters
      <4>2. vdev' = vdev
        BY <4>1 DEF Disconnect
      <4> QED
        BY <4>2, <3>2, <2>1, <1>0
    <3> QED
      BY <3>1, <3>2
  <2>3. PICK c \in Cameras :
          /\ control_intf = [cam |-> c, kind |-> "control"]
          /\ streaming_intf = [cam |-> c, kind |-> "streaming"]
          /\ probe_cnt <= 2 => udev = c
          /\ udev \in Cameras
    BY <1>0, <1>4 DEF DInv, CountersTell
  <2>4. vdev' # "null" /\ vdev' \in VideoDevice
    BY <2>2 DEF VideoDevice
  <2>5. Allocated' => Allocated /\ disc_cnt' < 2
    BY <2>1, <2>2, <1>0 DEF Allocated
  <2>6. ~(probe_cnt' < 2)
    BY <1>0, <1>4
  <2> QED
    BY <2>2, <2>3, <2>4, <2>5, <2>6, <1>0 DEF CountersTell
<1>7. todo' \in Seq(Jobs)
  <2>1. CASE Done
    BY <2>1, <1>1, DoneJobs
  <2>2. CASE Continue("disconnect_streaming")
    BY <2>2, <1>1, <1>2, ContinueJobs DEF Ops
  <2> QED
    BY <2>1, <2>2, <1>3
<1>8. TypeOK'
  <2>1. vdev' \in VideoDevice
    BY <1>6 DEF CountersTell
  <2>2. disc_cnt' \in Nat
    BY <1>0
  <2>3. stream' \in [cam : Cameras, packets : 1 .. MaxPackets] \cup {NULL}
    BY <1>0, <1>3 DEF TypeOK
  <2> QED
    BY <2>1, <2>2, <2>3, <1>0, <1>1, <1>7 DEF TypeOK
<1>9. NodeHasDevice'
  BY <1>0, <1>6 DEF DInv, NodeHasDevice
<1>10. NegotiationInStep'
  BY <1>0, <1>3, WorksDisturbs
(* The two calls of one camera *)
<1>11. CASE todo[1].op = "disconnect_control" /\ Continue("disconnect_streaming")
  <2>1. /\ todo' # <<>> /\ Len(todo') = Len(todo) /\ DOMAIN todo' = DOMAIN todo
        /\ todo'[1].op = "disconnect_streaming" /\ todo'[1].cam = todo[1].cam
        /\ \A k \in DOMAIN todo : k # 1 => todo'[k] = todo[k]
    BY <1>1, <1>2, <1>11, ContinueJobs DEF Ops
  <2>2. First({"disconnect_streaming"})' /\ First(Parting)' /\ ~First({"probe_streaming"})'
    BY <2>1 DEF First, Parting
  <2>3. \A k \in DOMAIN todo : todo[k].op \notin Probing
    BY <1>0, <1>2, LeavingJobs
  <2>4. JobsInOrder'
    <3> SUFFICES ASSUME NEW k \in DOMAIN todo'
        PROVE /\ k > 1 => todo'[k].op \in {"probe_control", "disconnect_control", "gone", "unload"}
              /\ todo'[k].op \notin Probing
              /\ todo'[k].op = "unload" => app' = "closed"
              /\ todo'[k].op \in {"gone", "unload"} => k = Len(todo')
      BY <1>0, <1>4 DEF JobsInOrder
    <3>1. CASE k = 1
      BY <3>1, <2>1 DEF Probing
    <3>2. CASE k # 1
      BY <3>2, <2>1, <2>3, <1>0 DEF DInv, JobsInOrder
    <3> QED
      BY <3>1, <3>2
  <2>5. CountersInStep'
    <3>1. disc_cnt' >= 1 /\ probe_cnt' # 0 /\ probe_cnt' # 1
      BY <1>0, <1>4
    <3> QED
      BY <2>2, <3>1, <1>6, Zenon DEF CountersInStep
  <2>6. Has("unload") => Has("unload")'
    BY <2>1, <1>11 DEF Has
  <2>7. NodeGoesFirst'
    BY <2>2, <2>6, <1>0, <1>1 DEF DInv, NodeGoesFirst, Allocated
  <2>8. StreamNeedsUser'
    <3>1. \A k \in DOMAIN todo' : todo'[k].op = "gone" => todo[k].op = "gone" /\ todo'[k].cam = todo[k].cam
      BY <2>1
    <3> QED
      BY <3>1, <2>1, <2>2, <1>0, <1>3 DEF DInv, StreamNeedsUser
  <2> QED
    BY <2>4, <2>5, <2>7, <2>8, <1>6, <1>8, <1>9, <1>10 DEF DInv
<1>12. CASE todo[1].op = "disconnect_streaming" /\ Done
  <2>1. disc_cnt >= 1 /\ disc_cnt' >= 2 /\ disc_cnt' # 1
    BY <1>0, <1>5, <1>12
  <2>2. /\ \A k \in DOMAIN todo' :
             /\ todo'[k] = todo[k + 1] /\ k + 1 \in DOMAIN todo
             /\ todo'[k].op \in {"disconnect_control", "gone", "unload"}
        /\ \A op : Has(op) => todo[1].op = op \/ Has(op)'
        /\ todo' # <<>> => 1 \in DOMAIN todo'
    BY <1>0, <1>2, <1>12, LeavingJobs
  <2>3. JobsInOrder'
    BY <1>0, <1>2, <1>12, RestInOrder
  <2>4. CountersInStep'
    <3>1. ~First({"disconnect_streaming"})' /\ ~First({"probe_streaming"})'
      BY <2>2 DEF First
    <3>2. probe_cnt' # 0 /\ probe_cnt' # 1
      BY <1>0, <1>4
    <3> QED
      BY <2>1, <3>1, <3>2, <1>6, Zenon DEF CountersInStep
  <2>5. Has("unload") => Has("unload")'
    BY <2>2, <1>12
  <2>6. ~Allocated'
    BY <1>0, <1>6, <2>1
  <2>7. NodeGoesFirst'
    BY <2>1, <2>5, <2>6, <1>0, <1>1 DEF DInv, NodeGoesFirst
  <2>8. StreamNeedsUser'
    <3> SUFFICES ASSUME stream' # NULL
        PROVE \A k \in DOMAIN todo' : ~(todo'[k].op = "gone" /\ todo'[k].cam = stream'.cam)
      BY <1>0, <1>3 DEF DInv, StreamNeedsUser
    <3>1. stream' = stream /\ stream.cam # todo[1].cam
      BY <1>3, <1>12
    <3> QED
      BY <3>1, <2>2 DEF DInv, StreamNeedsUser
  <2> QED
    BY <2>3, <2>4, <2>7, <2>8, <1>6, <1>8, <1>9, <1>10 DEF DInv
<1> QED
  BY <1>3, <1>11, <1>12

(* When the usb_device goes the node is gone, or was never there. *)
LEMMA DeviceGonePreserves == ASSUME DInv, DeviceGone PROVE DInv'
<1>0. /\ UNCHANGED <<loaded, udev, params, probe, commit, app, stream, broken, unplugged>>
      /\ UNCHANGED <<probe_cnt, disc_cnt, control_intf, streaming_intf, vdev>>
      /\ Works({"gone"}) /\ TypeOK /\ Done
  BY DEF DeviceGone, statics, camera, user, DInv
<1>1. /\ todo \in Seq(Jobs) /\ todo # <<>> /\ 1 \in DOMAIN todo /\ Head(todo) = todo[1]
      /\ todo[1].op = "gone" /\ overlap' \in BOOLEAN
  BY <1>0, WorksOnFirst DEF TypeOK
<1>2. present' = present \ {todo[1].cam} /\ {"gone"} \cap Probing = {}
  BY <1>1 DEF DeviceGone, Probing
<1>3. todo' = <<>> /\ todo' \in Seq(Jobs) /\ DOMAIN todo' = {}
  <2>1. Len(todo) = 1
    BY <1>1 DEF DInv, JobsInOrder
  <2>2. todo' \in Seq(Jobs) /\ Len(todo') = 0
    BY <2>1, <1>0, <1>1, DoneJobs
  <2> QED
    BY <2>2
<1>4. /\ ~First({"probe_control"}) /\ ~First({"probe_streaming"}) /\ ~First({"disconnect_streaming"})
      /\ ~First(Parting) /\ Has("gone")
  BY <1>1 DEF First, Has, Parting
<1>5. ~Has("unload")
  BY <1>1 DEF DInv, JobsInOrder, Has
<1>6. ~Allocated /\ vdev # "null" /\ (loaded /\ unplugged => disc_cnt >= 2) /\ (loaded /\ ~unplugged => disc_cnt = 0)
  BY <1>0, <1>4, <1>5, WorksOnFirst DEF DInv, NodeGoesFirst
<1>7. TypeOK'
  BY <1>0, <1>1, <1>2, <1>3 DEF TypeOK
<1>8. CountersTell' /\ NodeHasDevice'
  BY <1>0, <1>6 DEF DInv, CountersTell, NodeHasDevice, Allocated
<1>9. JobsInOrder'
  BY <1>3 DEF JobsInOrder
<1>10. CountersInStep'
  <2>1. probe_cnt # 1 /\ disc_cnt # 1 /\ (loaded /\ present # {} => probe_cnt # 0)
    BY <1>4 DEF DInv, CountersInStep
  <2>2. present' # {} => present # {}
    BY <1>2
  <2> QED
    BY <2>1, <2>2, <1>0, <1>3, <1>6 DEF CountersInStep, First
<1>11. NodeGoesFirst'
  BY <1>0, <1>3, <1>6 DEF NodeGoesFirst, Has, First, Allocated
<1>12. StreamNeedsUser'
  <2>1. stream # NULL => stream.cam # todo[1].cam
    BY <1>1, <1>4 DEF DInv, StreamNeedsUser
  <2> QED
    BY <2>1, <1>0, <1>2, <1>3 DEF DInv, StreamNeedsUser
<1>13. NegotiationInStep'
  BY <1>0, WorksDisturbs
<1> QED
  BY <1>7, <1>8, <1>9, <1>10, <1>11, <1>12, <1>13 DEF DInv

LEMMA UnloadPreserves == ASSUME DInv, Unload PROVE DInv'
<1>0. /\ UNCHANGED <<present, udev, params, probe, commit, app, stream, broken, unplugged>>
      /\ UNCHANGED <<probe_cnt, disc_cnt, control_intf, streaming_intf, vdev>>
      /\ Works({"unload"}) /\ TypeOK /\ Done /\ loaded' = FALSE
  BY DEF Unload, statics, camera, user, DInv
<1>1. /\ todo \in Seq(Jobs) /\ todo # <<>> /\ 1 \in DOMAIN todo
      /\ todo[1].op = "unload" /\ overlap' \in BOOLEAN
  BY <1>0, WorksOnFirst DEF TypeOK
<1>2. todo' = <<>> /\ todo' \in Seq(Jobs) /\ DOMAIN todo' = {}
  <2>1. Len(todo) = 1
    BY <1>1 DEF DInv, JobsInOrder
  <2>2. todo' \in Seq(Jobs) /\ Len(todo') = 0
    BY <2>1, <1>0, <1>1, DoneJobs
  <2> QED
    BY <2>2
<1>3. /\ ~First({"probe_streaming"}) /\ ~First({"disconnect_streaming"})
      /\ ~First(Parting) /\ Has("unload")
  BY <1>1 DEF First, Has, Parting
<1>4. ~Allocated /\ vdev # "null" /\ app = "closed"
  BY <1>0, <1>1, <1>3, WorksOnFirst DEF DInv, NodeGoesFirst, JobsInOrder
<1>5. TypeOK'
  <2>1. /\ loaded' \in BOOLEAN /\ broken' \in BOOLEAN
        /\ unplugged' \in BOOLEAN /\ overlap' \in BOOLEAN
    BY <1>0, <1>1 DEF TypeOK
  <2> QED
    BY <1>0, <1>2, <2>1 DEF TypeOK
<1>6. CountersTell' /\ NodeHasDevice'
  BY <1>0, <1>4 DEF DInv, CountersTell, NodeHasDevice, Allocated
<1>7. JobsInOrder'
  BY <1>2 DEF JobsInOrder
<1>8. CountersInStep'
  <2>1. probe_cnt # 1 /\ disc_cnt # 1
    BY <1>3 DEF DInv, CountersInStep
  <2> QED
    BY <2>1, <1>0, <1>2, <1>4 DEF CountersInStep, First
<1>9. NodeGoesFirst'
  BY <1>0, <1>2, <1>4 DEF NodeGoesFirst, Has, First, Allocated
<1>10. StreamNeedsUser'
  BY <1>0, <1>2, <1>4 DEF DInv, StreamNeedsUser
<1>11. NegotiationInStep'
  BY <1>0, WorksDisturbs
<1> QED
  BY <1>5, <1>6, <1>7, <1>8, <1>9, <1>10, <1>11 DEF DInv

LEMMA NextPreserves == DInv /\ [Next]_vars => DInv'
<1>1. ASSUME DInv, UNCHANGED vars PROVE DInv'
  <2>0. /\ UNCHANGED <<loaded, present, todo, udev, params, probe, commit, app, stream, broken>>
        /\ UNCHANGED <<probe_cnt, disc_cnt, control_intf, streaming_intf, vdev, unplugged, overlap>>
    BY <1>1 DEF vars, statics, camera, user
  <2>1. TypeOK' /\ CountersTell' /\ JobsInOrder' /\ CountersInStep'
    BY <1>1, <2>0 DEF DInv, TypeOK, CountersTell, JobsInOrder, CountersInStep, First
  <2>2. NodeHasDevice' /\ NodeGoesFirst' /\ StreamNeedsUser'
    BY <1>1, <2>0 DEF DInv, NodeHasDevice, NodeGoesFirst, StreamNeedsUser, First, Has, Allocated
  <2>3. NegotiationInStep'
    BY <1>1, <2>0 DEF DInv, NegotiationInStep, Streaming, Attached, Addressed
  <2> QED
    BY <2>1, <2>2, <2>3 DEF DInv
<1> QED
  BY <1>1, PlugPreserves, UnplugPreserves, InsmodPreserves, RmmodPreserves, ProbePreserves,
     ProbeNegotiatesPreserves, DisconnectPreserves, DeviceGonePreserves, UnloadPreserves,
     OpenPreserves, StreamonTryPreserves, StreamonGetPreserves, StreamonSetPreserves,
     StreamonUrbsPreserves, EndingPreserves DEF Next

(* DInv is an invariant of the life of the device. *)
THEOREM DeviceInvariant == Spec => []DInv
<1> QED
  BY InitEstablishes, NextPreserves, PTL DEF Spec

-----------------------------------------------------------------------------
(* The static variables of uvc.c keep their types, whatever is plugged in or out. *)
THEOREM DeviceTypeOK == Spec => []TypeOK
<1>1. DInv => TypeOK
  BY DEF DInv
<1> QED
  BY <1>1, DeviceInvariant, PTL

(***************************************************************************)
(* As long as there is a node, myuvc_udev exists, and so does the camera   *)
(* whose interface numbers the driver uses; the two are one camera until a *)
(* second one is probed.  For any number of cameras and calls of probe.    *)
(***************************************************************************)
THEOREM NodeAlwaysHasDevice == Spec => []NodeHasDevice
<1>1. DInv => NodeHasDevice
  BY DEF DInv
<1> QED
  BY <1>1, DeviceInvariant, PTL

(* myuvc_disconnect frees a video_device once, and never one that is not there. *)
THEOREM AlwaysFreedOnce == Spec => []FreedOnce
<1>1. DInv => FreedOnce
  BY DEF DInv, CountersTell, FreedOnce, TypeOK
<1> QED
  BY <1>1, DeviceInvariant, PTL

(***************************************************************************)
(* Between two jobs of the USB core there is a video_device exactly from   *)
(* the first camera on until the first unplugging since insmod.            *)
(***************************************************************************)
THEOREM NodeAlwaysUntilFirstUnplug == Spec => []NodeUntilFirstUnplug
<1>1. ASSUME DInv PROVE NodeUntilFirstUnplug
  <2> SUFFICES ASSUME loaded, todo = <<>> PROVE Allocated <=> present # {} /\ ~unplugged
    BY DEF NodeUntilFirstUnplug
  <2>1. ~First({"probe_control"}) /\ ~First({"probe_streaming"}) /\ ~First(Parting) /\ ~Has("unload")
    BY DEF First, Has
  <2>2. (unplugged => disc_cnt >= 2) /\ (~unplugged => disc_cnt = 0)
    BY <1>1, <2>1 DEF DInv, NodeGoesFirst, Allocated
  <2>3. probe_cnt \in Nat /\ disc_cnt \in Nat /\ probe_cnt # 1 /\ (present # {} => probe_cnt # 0)
    BY <1>1, <2>1 DEF DInv, CountersInStep, TypeOK
  <2>n. vdev # "null"
    BY <1>1, <2>1 DEF DInv, CountersInStep
  <2>4. Allocated => present # {} /\ disc_cnt < 2
    BY <1>1, <2>3 DEF DInv, NodeHasDevice, CountersTell, Allocated
  <2>5. present # {} /\ disc_cnt = 0 => Allocated
    BY <1>1, <2>3, <2>n DEF DInv, CountersTell, Allocated
  <2> QED
    BY <2>2, <2>3, <2>4, <2>5
<1> QED
  BY <1>1, DeviceInvariant, PTL

(***************************************************************************)
(* A stream the USB core left alone fits the camera it runs on, unless the *)
(* driver addresses it with the numbers of another, and no URB is in       *)
(* flight on a device that is gone, if a commit that reaches the camera    *)
(* does not fail; the other two messages may.                              *)
(***************************************************************************)
THEOREM StreamAlwaysMatches ==
  ASSUME "set" \notin Faults
  PROVE  Spec => []StreamMatches
<1>1. DInv => StreamMatches
  BY DEF DInv, StreamNeedsUser, NegotiationInStep, StreamMatches, Addressed
<1> QED
  BY <1>1, DeviceInvariant, PTL
=============================================================================
