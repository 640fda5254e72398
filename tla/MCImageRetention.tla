-------------------------- MODULE MCImageRetention --------------------------
(***************************************************************************)
(* Instance of ImageRetention for TLC: with two commits the same one can   *)
(* be built twice, rolled back to and fall out of a window of one image.   *)
(***************************************************************************)
EXTENDS ImageRetention, TLC

Symmetry == Permutations(Commits)
=============================================================================
