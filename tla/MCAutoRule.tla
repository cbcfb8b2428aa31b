----------------------------- MODULE MCAutoRule -----------------------------
(* Instances of AutoRule for TLC. *)
EXTENDS AutoRule, TLC

CONSTANTS i1, i2, d1, d2, r1, r2

\* Primary keys and processes are interchangeable, and so are detectors treated alike.
AllSymmetry == Permutations({i1, i2}) \cup Permutations({d1, d2}) \cup Permutations({r1, r2})
============================================================================
