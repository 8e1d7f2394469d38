--------------------------- MODULE MCRejectionLog ---------------------------
(***************************************************************************)
(* RejectionLog with five interchangeable tasks: enough for two lines      *)
(* allowed an interval apart, written out of order, with rejections        *)
(* swallowed before, between and after them.                               *)
(***************************************************************************)
EXTENDS RejectionLog, TLC

Symmetry == Permutations(Tasks)
=============================================================================
