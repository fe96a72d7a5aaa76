--------------------------- MODULE MCMyuvcCapture ---------------------------
(* The URBs of a capture session are alike: which is which does not matter. *)
EXTENDS MyuvcCapture, TLC

UrbSymmetry == Permutations(Urbs)
=============================================================================
