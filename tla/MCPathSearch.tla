---------------------------- MODULE MCPathSearch ----------------------------
(* Searches between nine nodes of a grid of twenty-five: at the border and   *)
(* inside, in line, on a diagonal and neither, near and far.                 *)
EXTENDS PathSearch

MCEnds == [x : {0, 3, 4}, y : {0, 1, 4}]
=============================================================================
