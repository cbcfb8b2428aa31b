----------------------------- MODULE MCTraffic -----------------------------
(* Traffic for TLC: the threads are interchangeable. *)
EXTENDS Traffic, TLC

Symmetry == Permutations(Threads)

=============================================================================
