--------------------------- MODULE MCTweakMarkers ---------------------------
(***************************************************************************)
(* Two tweaks, a profile, a service with two start types and a startup     *)
(* entry with two commands.                                                *)
(***************************************************************************)
EXTENDS TweakMarkers, TLC

Symmetry == Permutations(Tweaks) \cup Permutations(Commands)

=============================================================================
