--------------------------- MODULE MCTimedWakelock ---------------------------
(* Instance of TimedWakelock for TLC: the posters are interchangeable. *)
EXTENDS TimedWakelock, TLC

PosterSymmetry == Permutations(Posters)
=============================================================================
