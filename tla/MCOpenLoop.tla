------------------------------- MODULE MCOpenLoop ------------------------------
(* The instance of OpenLoop for TLC: a speed of each sign (the shell passes on *)
(* any number it is given) and 0, the positive one no multiple of the ramp's   *)
(* step; a move too short to brake from it and one long enough.                *)
EXTENDS OpenLoop

AllSpeeds == {-2, 0, 5}
AllLengths == {1, -5}
================================================================================
