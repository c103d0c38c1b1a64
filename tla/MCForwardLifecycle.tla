-------------------------- MODULE MCForwardLifecycle --------------------------
(* ForwardLifecycle for TLC: attempts are interchangeable, and so are resources. *)
EXTENDS ForwardLifecycle, TLC

Symmetry == Permutations(Attempts) \cup Permutations(Guards)
================================================================================
