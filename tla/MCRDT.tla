-------------------------------- MODULE MCRDT -------------------------------
(* A small instance of RDT: an empty file (one empty packet), one chunk, and *)
(* three chunks with a repeated value, so that a duplicate accepted as new   *)
(* data or a swap is visible and a window of two has to slide.               *)
EXTENDS RDT

MCFiles == {<<>>, <<1>>, <<1, 2, 1>>}
=============================================================================
