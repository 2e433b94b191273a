--------------------------- MODULE MCContentScript ---------------------------
(* ContentScript with two categories that share a video, and symmetric runs. *)
EXTENDS ContentScript, TLC

CONSTANTS v1, v2, c1, c2

SharedVideos == c1 :> {v1} @@ c2 :> {v1, v2}

Symmetry == Permutations(Runs) \cup Permutations(Clicks)
=============================================================================
