------------------------- MODULE MCAdaptiveSampler -------------------------
(* Instances of AdaptiveSampler for TLC. *)
EXTENDS AdaptiveSampler, TLC

\* Nothing tells one collector from another.
Symmetry == Permutations(Collectors)
=============================================================================
