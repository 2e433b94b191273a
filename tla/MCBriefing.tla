----------------------------- MODULE MCBriefing -----------------------------
(***************************************************************************)
(* Briefing with interchangeable videos and requests: no constant or       *)
(* property names one of them and no liveness property is checked.         *)
(***************************************************************************)
EXTENDS Briefing

Symmetry == Permutations(Videos) \cup Permutations(Requests)
=============================================================================
