----------------------------- MODULE MCMyuvcCtrl -----------------------------
(* Values for the constants of MyuvcCtrl. *)
EXTENDS MyuvcCtrl

(* The bytes around every place where a carry or a sign can go wrong. *)
EdgeBytes == {0, 1, 2, 126, 127, 128, 129, 254, 255}

(* All signed 16-bit values made of two of them. *)
EdgeValues == { 256 * h + l - (IF h >= 128 THEN 65536 ELSE 0) : h, l \in EdgeBytes }

WidestMin == -32768
==============================================================================
