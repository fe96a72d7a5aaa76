----------------------------- MODULE MyuvcCtrl -----------------------------
(***************************************************************************)
(* The brightness control of myuvc/10_th/uvc.c: VIDIOC_QUERYCTRL,          *)
(* VIDIOC_G_CTRL and VIDIOC_S_CTRL, the loops that take a 16-bit value to  *)
(* two little-endian bytes and back, and the control transfers that carry  *)
(* them, each of which may fail.                                           *)
(*                                                                         *)
(* The application sets one value, once or again and again, and reads the  *)
(* control back.  The camera takes a value in its range, and stalls the    *)
(* transfer for any other.                                                 *)
(***************************************************************************)
EXTENDS Integers, Sequences

CONSTANTS
  Values,      (* the values of v4l2_control.value that are tried           *)
  Stack,       (* what the bytes of the uninitialised data[2] may be        *)
  Min, Max,    (* the camera's answers to GET_MIN, GET_MAX, GET_RES and     *)
  Step, Def    (* GET_DEF                                                   *)

Byte == 0 .. 255
Int16 == -(2 ^ 15) .. 2 ^ 15 - 1

ASSUME CtrlAssumption ==
  /\ Values \subseteq Int
  /\ Stack \subseteq Byte
  /\ {Min, Max, Step, Def} \subseteq Int16
  /\ Min <= Max

VARIABLES
  value,     (* the value the application asks for                          *)
  cur,       (* the camera's brightness, as the two bytes GET_CUR sends     *)
  res,       (* what the last S_CTRL returned: "none", "ok" or "EIO"        *)
  got        (* what the last ioctl that reads has put into its argument:   *)
             (* one value for G_CTRL, up to four for QUERYCTRL              *)

ctrlVars == <<value, cur, res, got>>

-----------------------------------------------------------------------------
(* The loops; iteration i handles byte i + 1 with 16 - 8 * i bits to go. *)

Bits(i) == 16 - 8 * i

(* mask is a __u8: ((1 << bits) - 1) loses all but its low byte. *)
Mask(i) == (2 ^ Bits(i) - 1) % 256

(* x & mask, where mask is 2^k - 1. *)
And(x, mask) == x % (mask + 1)

(* One slip away: the sign is not extended. *)
SignExtendNot(v) == v

(* value |= -(value & (1 << 15)) *)
SignExtend(v) == IF v >= 2 ^ 15 THEN v - 2 ^ 16 ELSE v

myuvc_get_le_value(data) ==
  LET v[i \in 0 .. 2] ==
        IF i = 0 THEN 0 ELSE v[i - 1] + And(data[i], Mask(i - 1)) * 2 ^ (8 * (i - 1))
  IN SignExtend(v[2])

(* One slip away: the value is not shifted for the second byte. *)
ShiftedNot(v, i) == v

(* value >>= 8 after each byte; a __s32 is shifted arithmetically. *)
Shifted(v, i) == v \div 2 ^ (8 * i)

(* data[i] = (data[i] & ~mask) | (value & mask) *)
myuvc_set_le_value(v, data) ==
  [ i \in 1 .. 2 |-> (data[i] - And(data[i], Mask(i - 1)))
                     + And(Shifted(v, i - 1), Mask(i - 1)) ]

-----------------------------------------------------------------------------
CtrlTypeOK ==
  /\ value \in Values
  /\ cur \in [1 .. 2 -> Byte]
  /\ res \in {"none", "ok", "EIO"}
  /\ got \in Seq(Int16) /\ Len(got) <= 4

(* The camera's own reading of the two bytes. *)
Signed16(data) ==
  LET v == data[1] + 256 * data[2] IN IF data[2] >= 128 THEN v - 65536 ELSE v

CtrlInit ==
  /\ value \in Values
  /\ cur = <<0, 0>>
  /\ res = "none"
  /\ got = <<>>

(***************************************************************************)
(* VIDIOC_S_CTRL.  The camera takes what is in its range.  The transfer    *)
(* may also fail on the way, before or after the camera has seen it.       *)
(***************************************************************************)
SCtrl ==
  \E junk \in [1 .. 2 -> Stack] :
    LET data == myuvc_set_le_value(value, junk)
        ok   == Signed16(data) \in Min .. Max
    IN /\ \/ /\ ok
             /\ cur' = data
             /\ res' \in {"ok", "EIO"}
          \/ /\ UNCHANGED cur
             /\ res' = "EIO"
       /\ UNCHANGED <<value, got>>

(* VIDIOC_G_CTRL; on failure its argument keeps its value. *)
GCtrl ==
  /\ got' \in { <<myuvc_get_le_value(cur)>>, got }
  /\ UNCHANGED <<value, cur, res>>

(* The two bytes the camera sends for v. *)
Sent(v) == << v % 256, (v \div 256) % 256 >>

(***************************************************************************)
(* VIDIOC_QUERYCTRL clears its argument and fills in one answer after the  *)
(* other; it gives up at the first transfer that fails.                    *)
(***************************************************************************)
QueryCtrl ==
  /\ \E answered \in 0 .. 4 :
       got' = [ i \in 1 .. answered |-> myuvc_get_le_value(Sent(<<Min, Max, Step, Def>>[i])) ]
  /\ UNCHANGED <<value, cur, res>>

CtrlNext == SCtrl \/ GCtrl \/ QueryCtrl

CtrlSpec == CtrlInit /\ [][CtrlNext]_ctrlVars

-----------------------------------------------------------------------------
(* Properties *)

(***************************************************************************)
(* A value in the 16-bit range that S_CTRL has reported as set is what     *)
(* the camera has and what G_CTRL reads back, sign included, whatever was  *)
(* on the stack.                                                           *)
(***************************************************************************)
ReadsBack ==
  res = "ok" /\ value \in Int16 =>
    Signed16(cur) = value /\ myuvc_get_le_value(cur) = value

(***************************************************************************)
(* The application that asks for a control it has queried gets numbers in  *)
(* the range the query told it: a camera whose minimum is negative is not  *)
(* taken for one with a huge minimum, by either ioctl.                     *)
(***************************************************************************)
RangeIsReal ==
  /\ Len(got) = 4 => got[1] = Min /\ got[2] = Max
  /\ Len(got) = 1 /\ 0 \in Min .. Max => got[1] \in Min .. Max

-----------------------------------------------------------------------------
(* Why they hold *)

(* The camera never takes a value that is out of its range. *)
CameraInRange == cur = <<0, 0>> \/ Signed16(cur) \in Min .. Max

(* The inductive invariant. *)
CInv == CtrlTypeOK /\ CameraInRange /\ ReadsBack /\ RangeIsReal
=============================================================================
