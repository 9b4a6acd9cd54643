------------------------------- MODULE MCAecp -------------------------------
(* AecpController and its refinement; the cfg file gives the constants.    *)
EXTENDS AecpRefinement
=============================================================================
