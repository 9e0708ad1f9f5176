---------------------------- MODULE MCWorldReview ----------------------------
(* WorldReview for TLC: anchors and uploaders are interchangeable.          *)
EXTENDS WorldReview, TLC

Symmetry == Permutations(Anchors) \cup Permutations(Uploaders)
=============================================================================
