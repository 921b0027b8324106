---------------------------- MODULE MCMapPicker ----------------------------
(***************************************************************************)
(* MapPicker with three places.  The point the code reads is not the       *)
(* middle of the map: with the camera at c it reads b.                     *)
(***************************************************************************)
EXTENDS MapPicker

CONSTANTS a, b, c

MCAtPoint == (a :> a) @@ (b :> b) @@ (c :> b)

=============================================================================
