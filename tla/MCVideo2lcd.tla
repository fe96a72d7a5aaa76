----------------------------- MODULE MCVideo2lcd ----------------------------
(***************************************************************************)
(* Video2lcd for TLC: pictures that fit the LCD, that are exactly as large *)
(* and that are larger in one or both directions.                          *)
(***************************************************************************)
EXTENDS Video2lcd

MCVideoSizes == {<<2, 2>>, <<4, 3>>, <<8, 6>>, <<5, 2>>, <<3, 5>>}
=============================================================================
