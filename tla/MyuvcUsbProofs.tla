--------------------------- MODULE MyuvcUsbProofs ---------------------------
(***************************************************************************)
(* Proofs about what myuvc/10_th/uvc.c transfers over USB: the URBs that   *)
(* carry the video, for any number of URBs and any amount of memory to     *)
(* allocate them from, and the control transfers of the brightness, for    *)
(* every value an application may set, every range a camera may have and   *)
(* whatever was on the stack.                                              *)
(***************************************************************************)
EXTENDS MyuvcUrb, MyuvcCtrl, SequenceTheorems, TLAPS

-----------------------------------------------------------------------------
(* The URBs *)

(***************************************************************************)
(* A failed usb_set_interface leaves the setting and what is in flight; a  *)
(* successful one empties the latter.                                      *)
(***************************************************************************)
LEMMA SetInterfaceResult ==
  ASSUME NEW alt, NEW flying, NEW r \in AfterSetInterface(alt, flying)
  PROVE  \/ r.alt = altsetting /\ r.flying = flying
         \/ r.alt = alt /\ r.flying = {}
BY DEF AfterSetInterface

(* When the driver is loaded, it knows no URB and none is in flight. *)
LEMMA UrbInitEstablishes == Init => UInv
<1> SUFFICES ASSUME Init PROVE UInv
  OBVIOUS
<1>1. TypeOK
  BY DEF Init, TypeOK, None, Streaming
<1>2. PointersGood /\ QuietWhenIdle
  BY DEF Init, PointersGood, QuietWhenIdle, None, Held
<1> QED
  BY <1>1, <1>2 DEF UInv

(* Arrays without pointers are good, whatever is allocated. *)
LEMMA NoneIsGood ==
  ASSUME urb' = None, urb_buffer' = None
  PROVE  PointersGood' /\ urb' \in [Slots -> Urbs \cup {NULL}]
                       /\ urb_buffer' \in [Slots -> Urbs \cup {NULL}]
BY DEF PointersGood, None, Held

(***************************************************************************)
(* VIDIOC_STREAMON without memory ends with empty arrays; the interface    *)
(* keeps setting 0, with nothing in flight, or nothing of the old setting  *)
(* is left in flight.                                                      *)
(***************************************************************************)
LEMMA StreamonNoMemoryPreserves ==
  ASSUME UInv, StreamonNoMemory
  PROVE  UInv'
<1>1. PICK k \in Slots, r \in AfterSetInterface(Streaming, inflight) :
        /\ altsetting' = r.alt /\ inflight' = r.flying
        /\ allocated' = allocated \ OldAfter(k)
        /\ urb' = None /\ urb_buffer' = None /\ mem' = mem
  BY DEF StreamonNoMemory
<1>2. \/ altsetting' = altsetting /\ inflight' = inflight
      \/ altsetting' = Streaming /\ inflight' = {}
  BY <1>1, SetInterfaceResult
<1>3. TypeOK'
  BY <1>1, <1>2, NoneIsGood DEF UInv, TypeOK
<1>4. QuietWhenIdle'
  BY <1>2 DEF UInv, QuietWhenIdle, Streaming
<1> QED
  BY <1>1, <1>3, <1>4, NoneIsGood DEF UInv

(***************************************************************************)
(* VIDIOC_STREAMON that cannot submit all URBs leaves some in flight only  *)
(* if the streaming setting was selected.                                  *)
(***************************************************************************)
LEMMA StreamonSubmitFailsPreserves ==
  ASSUME UInv, NEW new \in NewUrbs, NEW done \in 0 .. NUrbs - 1, StreamonSubmitFails(new, done)
  PROVE  UInv'
<1>1. PICK r \in AfterSetInterface(Streaming, inflight) :
        /\ r.alt = 0 => done = 0
        /\ altsetting' = r.alt
        /\ inflight' = r.flying \cup { new[i] : i \in 1 .. done }
        /\ urb' = None /\ urb_buffer' = None
        /\ allocated' = allocated /\ mem' = mem
  BY DEF StreamonSubmitFails
<1>2. \/ r.alt = altsetting /\ r.flying = inflight
      \/ r.alt = Streaming /\ r.flying = {}
  BY SetInterfaceResult
<1>3. { new[i] : i \in 1 .. done } \subseteq Urbs
  <2>1. \A i \in 1 .. done : i \in Slots
    BY UrbAssumption DEF Slots
  <2> QED
    BY <2>1 DEF NewUrbs, Unused
<1>4. TypeOK'
  BY <1>1, <1>2, <1>3, NoneIsGood DEF UInv, TypeOK
<1>5. QuietWhenIdle'
  <2> SUFFICES ASSUME altsetting' = 0 PROVE inflight' = {}
    BY DEF QuietWhenIdle
  <2>1. done = 0 /\ { new[i] : i \in 1 .. done } = {}
    BY <1>1
  <2>2. r.flying = {}
    BY <1>1, <1>2 DEF UInv, QuietWhenIdle
  <2> QED
    BY <1>1, <2>1, <2>2
<1> QED
  BY <1>1, <1>4, <1>5, NoneIsGood DEF UInv

(* A complete VIDIOC_STREAMON fills every slot with a URB of its own. *)
LEMMA StreamonStartsPreserves ==
  ASSUME UInv, NEW new \in NewUrbs, StreamonStarts(new)
  PROVE  UInv'
<1>1. PICK r \in AfterSetInterface(Streaming, inflight) :
        /\ r.alt = Streaming /\ altsetting' = r.alt
        /\ inflight' = r.flying \cup Held(new)
        /\ allocated' = allocated \cup Held(new)
        /\ urb' = new /\ urb_buffer' = new /\ mem' = mem
  BY DEF StreamonStarts
<1>2. r.flying \subseteq Urbs
  BY SetInterfaceResult DEF UInv, TypeOK
<1>3. new \in [Slots -> Urbs] /\ \A i, j \in Slots : new[i] = new[j] => i = j
  BY DEF NewUrbs, Unused
<1>4. Held(new) \subseteq Urbs
  BY <1>3 DEF Held
<1>5. TypeOK'
  BY <1>1, <1>2, <1>3, <1>4 DEF UInv, TypeOK
<1>6. PointersGood'
  BY <1>1, <1>3 DEF PointersGood, Held
<1>7. QuietWhenIdle'
  BY <1>1 DEF QuietWhenIdle, Streaming
<1> QED
  BY <1>5, <1>6, <1>7 DEF UInv

(***************************************************************************)
(* VIDIOC_STREAMOFF empties the arrays.  URBs it does not know stay in     *)
(* flight only if usb_set_interface fails, and then not at setting 0.      *)
(***************************************************************************)
LEMMA StreamoffPreserves ==
  ASSUME UInv, Streamoff
  PROVE  UInv'
<1>1. PICK r \in AfterSetInterface(0, inflight \ Held(urb)) :
        altsetting' = r.alt /\ inflight' = r.flying
  BY DEF Streamoff
<1>2. \/ altsetting' = altsetting /\ inflight' = inflight \ Held(urb)
      \/ altsetting' = 0 /\ inflight' = {}
  BY <1>1, SetInterfaceResult
<1>3. urb' = None /\ urb_buffer' = None /\ mem' = mem /\ allocated' \subseteq allocated
  BY DEF Streamoff
<1>4. TypeOK'
  BY <1>2, <1>3, NoneIsGood DEF UInv, TypeOK
<1>5. QuietWhenIdle'
  BY <1>2 DEF UInv, QuietWhenIdle
<1> QED
  BY <1>3, <1>4, <1>5, NoneIsGood DEF UInv

(* VIDIOC_REQBUFS clears both arrays or neither. *)
LEMMA ReqbufsPreserves ==
  ASSUME UInv, NEW n \in {0, 1}, Reqbufs(n)
  PROVE  UInv'
<1>1. \/ urb' = None /\ urb_buffer' = None
      \/ urb' = urb /\ urb_buffer' = urb_buffer
  BY DEF Reqbufs, arrays
<1>2. /\ inflight' = inflight /\ allocated' = allocated /\ altsetting' = altsetting
      /\ mem' \in BOOLEAN
  BY DEF Reqbufs
<1>3. TypeOK' /\ PointersGood'
  <2>1. CASE urb' = None /\ urb_buffer' = None
    BY <2>1, <1>2, NoneIsGood DEF UInv, TypeOK
  <2>2. CASE urb' = urb /\ urb_buffer' = urb_buffer
    BY <2>2, <1>2 DEF UInv, TypeOK, PointersGood, Held
  <2> QED
    BY <1>1, <2>1, <2>2
<1> QED
  BY <1>2, <1>3 DEF UInv, QuietWhenIdle

(* A URB that is not submitted again leaves the arrays alone. *)
LEMMA NotResubmittedPreserves ==
  ASSUME UInv, NEW u \in Urbs, NotResubmitted(u)
  PROVE  UInv'
<1>1. /\ urb' = urb /\ urb_buffer' = urb_buffer /\ allocated' = allocated
      /\ altsetting' = altsetting /\ mem' = mem /\ inflight' = inflight \ {u}
  BY DEF NotResubmitted, arrays
<1>2. TypeOK' /\ PointersGood'
  BY <1>1 DEF UInv, TypeOK, PointersGood, Held
<1>3. QuietWhenIdle'
  BY <1>1 DEF UInv, QuietWhenIdle
<1> QED
  BY <1>2, <1>3 DEF UInv

(* Every ioctl and every completion preserves the invariant. *)
LEMMA UrbNextPreserves == UInv /\ [Next]_vars => UInv'
<1> SUFFICES ASSUME UInv, [Next]_vars PROVE UInv'
  OBVIOUS
<1>1. CASE Streamon
  BY <1>1, StreamonNoMemoryPreserves, StreamonSubmitFailsPreserves, StreamonStartsPreserves
     DEF Streamon
<1>2. CASE Streamoff
  BY <1>2, StreamoffPreserves
<1>3. CASE \E n \in {0, 1} : Reqbufs(n)
  BY <1>3, ReqbufsPreserves
<1>4. CASE \E u \in Urbs : NotResubmitted(u)
  BY <1>4, NotResubmittedPreserves
<1>5. CASE UNCHANGED vars \/ \E u \in Urbs : Resubmitted(u)
  <2>1. UNCHANGED vars
    BY <1>5 DEF Resubmitted
  <2> QED
    BY <2>1 DEF vars, arrays, UInv, TypeOK, PointersGood, QuietWhenIdle, Held
<1> QED
  BY <1>1, <1>2, <1>3, <1>4, <1>5 DEF Next

(* The inductive invariant of the URB arrays holds in every reachable state. *)
THEOREM UrbInvariant == Spec => []UInv
BY UrbInitEstablishes, UrbNextPreserves, PTL DEF Spec

(* The arrays, and the sets of URBs, keep their types. *)
THEOREM UrbTypeOK == Spec => []TypeOK
<1>1. UInv => TypeOK
  BY DEF UInv
<1> QED
  BY <1>1, UrbInvariant, PTL

(***************************************************************************)
(* However many URBs there are and wherever STREAMON fails, what the       *)
(* driver would free next is allocated and is held by one slot alone: no   *)
(* order of STREAMON, STREAMOFF, REQBUFS and completions frees it twice.   *)
(***************************************************************************)
THEOREM PointersAlwaysGood == Spec => []PointersGood
<1>1. UInv => PointersGood
  BY DEF UInv
<1> QED
  BY <1>1, UrbInvariant, PTL

(***************************************************************************)
(* Once the interface is back at setting 0 nothing is in flight, known to  *)
(* the driver or not.                                                      *)
(***************************************************************************)
THEOREM AlwaysQuietWhenIdle == Spec => []QuietWhenIdle
<1>1. UInv => QuietWhenIdle
  BY DEF UInv
<1> QED
  BY <1>1, UrbInvariant, PTL

-----------------------------------------------------------------------------
(* The brightness control *)

(* In both iterations the mask is a whole byte. *)
LEMMA MaskIsByte == Mask(0) = 255 /\ Mask(1) = 255
<1>1. 2 ^ 16 = 65536 /\ 2 ^ 8 = 256
  OBVIOUS
<1>2. Bits(0) = 16 /\ Bits(1) = 8
  BY DEF Bits
<1>3. Mask(0) = (2 ^ 16 - 1) % 256 /\ Mask(1) = (2 ^ 8 - 1) % 256
  BY <1>2, Zenon DEF Mask
<1>4. (65536 - 1) % 256 = 255 /\ (256 - 1) % 256 = 255
  OBVIOUS
<1> QED
  BY <1>1, <1>3, <1>4

(* A number is made of its low byte and the rest. *)
LEMMA LowByte ==
  ASSUME NEW x \in Int
  PROVE  x % 256 \in Byte /\ x \div 256 \in Int /\ x = 256 * (x \div 256) + (x % 256)
  BY DEF Byte

(***************************************************************************)
(* myuvc_get_le_value reads two bytes as the camera means them: the first  *)
(* is the low one, and the sign is that of 16 bits.                        *)
(***************************************************************************)
LEMMA GetIsSigned16 ==
  ASSUME NEW data, data[1] \in Byte, data[2] \in Byte
  PROVE  myuvc_get_le_value(data) = Signed16(data) /\ Signed16(data) \in Int16
<1> DEFINE term(i) == And(data[i], Mask(i - 1)) * 2 ^ (8 * (i - 1))
           Sums(v) == v = [ i \in 0 .. 2 |-> IF i = 0 THEN 0 ELSE v[i - 1] + term(i) ]
           sums == [ i \in 0 .. 2 |-> IF i = 0 THEN 0
                                      ELSE IF i = 1 THEN 0 + term(1) ELSE (0 + term(1)) + term(2) ]
           loop == CHOOSE v : Sums(v)
<1>1. Sums(sums)
  OBVIOUS
<1>2. Sums(loop)
  <2> HIDE DEF Sums
  <2> QED
    BY <1>1
<1>3. myuvc_get_le_value(data) = SignExtend(loop[2])
  BY DEF myuvc_get_le_value
<1>4. loop[2] = (0 + term(1)) + term(2)
  <2> HIDE DEF term, loop
  <2> QED
    BY <1>2
<1>5. term(1) = data[1] /\ term(2) = data[2] * 256
  <2>1. 2 ^ (8 * (1 - 1)) = 1 /\ 2 ^ (8 * (2 - 1)) = 256
    OBVIOUS
  <2>2. And(data[1], Mask(1 - 1)) = data[1] /\ And(data[2], Mask(2 - 1)) = data[2]
    BY MaskIsByte DEF And, Byte
  <2> QED
    BY <2>1, <2>2 DEF Byte
<1>6. loop[2] = data[1] + 256 * data[2]
  <2> HIDE DEF term, loop
  <2> QED
    BY <1>4, <1>5 DEF Byte
<1>7. SignExtend(data[1] + 256 * data[2]) = Signed16(data) /\ Signed16(data) \in Int16
  <2>1. 2 ^ 15 = 32768 /\ 2 ^ 16 = 65536
    OBVIOUS
  <2>2. PICK l \in 0 .. 255, h \in 0 .. 255 : l = data[1] /\ h = data[2]
    BY DEF Byte
  <2>3. h >= 128 <=> l + 256 * h >= 32768
    OBVIOUS
  <2>4. SignExtend(l + 256 * h) = IF h >= 128 THEN (l + 256 * h) - 65536 ELSE l + 256 * h
    BY <2>1, <2>3 DEF SignExtend
  <2>5. Signed16(data) = IF h >= 128 THEN (l + 256 * h) - 65536 ELSE l + 256 * h
    BY <2>2 DEF Signed16
  <2>6. Signed16(data) \in Int16
    BY <2>3, <2>5 DEF Int16
  <2> QED
    BY <2>2, <2>4, <2>5, <2>6
<1> QED
  <2> HIDE DEF loop
  <2> QED
    BY <1>3, <1>6, <1>7

(***************************************************************************)
(* myuvc_set_le_value stores the two low bytes of a value; what the bytes  *)
(* held before is gone.                                                    *)
(***************************************************************************)
LEMMA SetStoresBytes ==
  ASSUME NEW v \in Int, NEW junk \in [1 .. 2 -> Byte]
  PROVE  /\ myuvc_set_le_value(v, junk) \in [1 .. 2 -> Byte]
         /\ myuvc_set_le_value(v, junk)[1] = v % 256
         /\ myuvc_set_le_value(v, junk)[2] = (v \div 256) % 256
<1>1. Shifted(v, 0) = v /\ Shifted(v, 1) = v \div 256
  <2>1. 2 ^ (8 * 0) = 1 /\ 2 ^ (8 * 1) = 256
    OBVIOUS
  <2> QED
    BY <2>1 DEF Shifted
<1>2. And(junk[1], Mask(0)) = junk[1] /\ And(junk[2], Mask(1)) = junk[2]
  BY MaskIsByte DEF And, Byte
<1>3. And(v, Mask(0)) = v % 256 /\ And(v \div 256, Mask(1)) = (v \div 256) % 256
  BY MaskIsByte DEF And
<1>4. v % 256 \in Byte /\ (v \div 256) % 256 \in Byte
  BY LowByte
<1>5. junk[1] \in Int /\ junk[2] \in Int
  BY DEF Byte
<1>6. ASSUME NEW i \in 1 .. 2
      PROVE  myuvc_set_le_value(v, junk)[i]
               = (junk[i] - And(junk[i], Mask(i - 1))) + And(Shifted(v, i - 1), Mask(i - 1))
  BY DEF myuvc_set_le_value
<1>7. /\ myuvc_set_le_value(v, junk)[1] = v % 256
      /\ myuvc_set_le_value(v, junk)[2] = (v \div 256) % 256
  BY <1>1, <1>2, <1>3, <1>4, <1>5, <1>6 DEF Byte
<1>8. ASSUME NEW i \in 1 .. 2 PROVE myuvc_set_le_value(v, junk)[i] \in Byte
  BY <1>4, <1>7
<1>9. myuvc_set_le_value(v, junk)
        = [ i \in 1 .. 2 |-> myuvc_set_le_value(v, junk)[i] ]
  BY DEF myuvc_set_le_value
<1> QED
  BY <1>7, <1>8, <1>9

(* The two low bytes of a 16-bit value, read with their sign, are the value. *)
LEMMA TwoBytesTell ==
  ASSUME NEW v \in Int16, NEW data, data[1] = v % 256, data[2] = (v \div 256) % 256
  PROVE  Signed16(data) = v
<1>1. v \in Int /\ v >= -32768 /\ v <= 32767
  BY DEF Int16
<1>2. PICK q \in Int, r \in 0 .. 255 : v = 256 * q + r /\ q = v \div 256 /\ r = v % 256
  BY <1>1, LowByte DEF Byte
<1>3. q \in -128 .. 127
  BY <1>1, <1>2
<1>4. q % 256 = IF q >= 0 THEN q ELSE q + 256
  BY <1>3
<1> QED
  BY <1>1, <1>2, <1>3, <1>4 DEF Signed16

(* What the driver makes of a camera's answer is the number the camera meant. *)
LEMMA GetSent ==
  ASSUME NEW v \in Int16
  PROVE  myuvc_get_le_value(Sent(v)) = v
<1>1. v \in Int
  BY DEF Int16
<1>2. Sent(v)[1] = v % 256 /\ Sent(v)[2] = (v \div 256) % 256
  BY DEF Sent
<1>3. Sent(v)[1] \in Byte /\ Sent(v)[2] \in Byte
  BY <1>1, <1>2, LowByte
<1>4. Signed16(Sent(v)) = v
  BY <1>2, TwoBytesTell
<1> QED
  BY <1>3, <1>4, GetIsSigned16

-----------------------------------------------------------------------------
(* Before the first ioctl nothing is set, nothing read, and the camera is at 0. *)
LEMMA CtrlInitEstablishes == CtrlInit => CInv
<1> SUFFICES ASSUME CtrlInit PROVE CInv
  OBVIOUS
<1>1. CtrlTypeOK
  BY DEF CtrlInit, CtrlTypeOK, Byte
<1> QED
  BY <1>1 DEF CtrlInit, CInv, CameraInRange, ReadsBack, RangeIsReal

(***************************************************************************)
(* VIDIOC_S_CTRL says it has set a value only when the camera has taken    *)
(* it, and the camera takes only what is in its range.                     *)
(***************************************************************************)
LEMMA SCtrlPreserves ==
  ASSUME CInv, SCtrl
  PROVE  CInv'
<1>1. PICK junk \in [1 .. 2 -> Stack] :
        LET data == myuvc_set_le_value(value, junk)
        IN /\ \/ /\ Signed16(data) \in Min .. Max
                 /\ cur' = data
                 /\ res' \in {"ok", "EIO"}
              \/ /\ UNCHANGED cur
                 /\ res' = "EIO"
           /\ UNCHANGED <<value, got>>
  BY DEF SCtrl
<1> DEFINE data == myuvc_set_le_value(value, junk)
<1>2. value \in Int /\ junk \in [1 .. 2 -> Byte]
  <2>1. value \in Values /\ Values \subseteq Int
    BY CtrlAssumption DEF CInv, CtrlTypeOK
  <2>2. Stack \subseteq Byte
    BY CtrlAssumption
  <2> QED
    BY <2>1, <2>2
<1>3. data \in [1 .. 2 -> Byte] /\ data[1] = value % 256 /\ data[2] = (value \div 256) % 256
  BY <1>2, SetStoresBytes
<1>4. value \in Int16 => Signed16(data) = value /\ myuvc_get_le_value(data) = value
  BY <1>3, TwoBytesTell, GetIsSigned16
<1> HIDE DEF data
<1>5. \/ Signed16(data) \in Min .. Max /\ cur' = data /\ res' \in {"ok", "EIO"}
      \/ cur' = cur /\ res' = "EIO"
  BY <1>1 DEF data
<1>6. value' = value /\ got' = got
  BY <1>1
<1>7. CtrlTypeOK'
  BY <1>3, <1>5, <1>6 DEF CInv, CtrlTypeOK
<1>8. CameraInRange' /\ RangeIsReal'
  BY <1>5, <1>6 DEF CInv, CameraInRange, RangeIsReal, Signed16
<1>9. ReadsBack'
  <2>1. CASE cur' = data
    BY <1>4, <1>6, <2>1 DEF ReadsBack
  <2>2. CASE res' = "EIO"
    BY <2>2 DEF ReadsBack
  <2> QED
    BY <1>5, <2>1, <2>2
<1> QED
  BY <1>7, <1>8, <1>9 DEF CInv

(* VIDIOC_G_CTRL reads what the camera has, or nothing. *)
LEMMA GCtrlPreserves ==
  ASSUME CInv, GCtrl
  PROVE  CInv'
<1>1. UNCHANGED <<value, cur, res>>
  BY DEF GCtrl
<1>2. CameraInRange' /\ ReadsBack'
  BY <1>1 DEF CInv, CameraInRange, ReadsBack
<1>3. CASE got' = got
  BY <1>1, <1>2, <1>3 DEF CInv, CtrlTypeOK, RangeIsReal
<1>4. CASE got' = <<myuvc_get_le_value(cur)>>
  <2>1. myuvc_get_le_value(cur) = Signed16(cur) /\ Signed16(cur) \in Int16
    BY GetIsSigned16 DEF CInv, CtrlTypeOK
  <2>2. got' \in Seq(Int16) /\ Len(got') = 1 /\ got'[1] = Signed16(cur)
    BY <1>4, <2>1
  <2>3. cur = <<0, 0>> => Signed16(cur) = 0
    BY DEF Signed16
  <2>4. 0 \in Min .. Max => Signed16(cur) \in Min .. Max
    BY <2>3 DEF CInv, CameraInRange
  <2>5. RangeIsReal'
    BY <2>2, <2>4 DEF RangeIsReal
  <2> QED
    BY <1>1, <1>2, <2>2, <2>5 DEF CInv, CtrlTypeOK
<1> QED
  BY <1>3, <1>4 DEF GCtrl

(***************************************************************************)
(* VIDIOC_QUERYCTRL reads as many of the camera's four answers as arrive,  *)
(* each of them as the number the camera meant.                            *)
(***************************************************************************)
LEMMA QueryCtrlPreserves ==
  ASSUME CInv, QueryCtrl
  PROVE  CInv'
<1>1. PICK n \in 0 .. 4 :
        got' = [ i \in 1 .. n |-> myuvc_get_le_value(Sent(<<Min, Max, Step, Def>>[i])) ]
  BY DEF QueryCtrl
<1>2. UNCHANGED <<value, cur, res>>
  BY DEF QueryCtrl
<1>0. /\ Min \in Int16 /\ Max \in Int16 /\ Step \in Int16 /\ Def \in Int16
      /\ Min <= Max
  BY CtrlAssumption
<1>3. ASSUME NEW i \in 1 .. 4
      PROVE  /\ <<Min, Max, Step, Def>>[i] \in Int16
             /\ myuvc_get_le_value(Sent(<<Min, Max, Step, Def>>[i])) = <<Min, Max, Step, Def>>[i]
  <2>1. <<Min, Max, Step, Def>>[i] \in Int16
    BY <1>0, i = 1 \/ i = 2 \/ i = 3 \/ i = 4
  <2> QED
    BY <2>1, GetSent
<1>4. got' = [ i \in 1 .. n |-> <<Min, Max, Step, Def>>[i] ]
  BY <1>1, <1>3
<1>5. got' \in Seq(Int16) /\ Len(got') = n
  BY <1>3, <1>4
<1>6. \A i \in 1 .. n : got'[i] = <<Min, Max, Step, Def>>[i]
  BY <1>4
<1>7. RangeIsReal'
  <2>1. Min \in Int /\ Max \in Int /\ Min <= Max
    BY <1>0 DEF Int16
  <2>2. n = 4 => got'[1] = Min /\ got'[2] = Max
    BY <1>6
  <2>3. n = 1 => got'[1] = Min
    BY <1>6
  <2> QED
    BY <1>5, <2>1, <2>2, <2>3 DEF RangeIsReal
<1> QED
  BY <1>2, <1>5, <1>7 DEF CInv, CtrlTypeOK, CameraInRange, ReadsBack

(* Each part of the invariant survives every ioctl. *)
LEMMA CtrlNextPreserves == CInv /\ [CtrlNext]_ctrlVars => CInv'
<1> SUFFICES ASSUME CInv, [CtrlNext]_ctrlVars PROVE CInv'
  OBVIOUS
<1>1. CASE UNCHANGED ctrlVars
  BY <1>1 DEF ctrlVars, CInv, CtrlTypeOK, CameraInRange, ReadsBack, RangeIsReal
<1> QED
  BY <1>1, SCtrlPreserves, GCtrlPreserves, QueryCtrlPreserves DEF CtrlNext

(* The camera, the application and the driver agree on the value. *)
THEOREM CtrlInvariant == CtrlSpec => []CInv
  BY CtrlInitEstablishes, CtrlNextPreserves, PTL DEF CtrlSpec

(***************************************************************************)
(* Every 16-bit value that S_CTRL reports as set is what the camera has    *)
(* and what G_CTRL reads back, sign included: the two loops are inverse to *)
(* each other, whatever the bytes on the stack were.                       *)
(***************************************************************************)
THEOREM AlwaysReadsBack == CtrlSpec => []ReadsBack
<1>1. CInv => ReadsBack
  BY DEF CInv
<1> QED
  BY <1>1, CtrlInvariant, PTL

(***************************************************************************)
(* For every range a camera can have, also a negative one, QUERYCTRL tells *)
(* the application that range and G_CTRL gives it a value within.          *)
(***************************************************************************)
THEOREM RangeAlwaysReal == CtrlSpec => []RangeIsReal
<1>1. CInv => RangeIsReal
  BY DEF CInv
<1> QED
  BY <1>1, CtrlInvariant, PTL
=============================================================================
