------------------------ MODULE MCDiscoverableBalancer ------------------------
(* DiscoverableBalancer for TLC: requests, keys and starts are interchangeable. *)
EXTENDS DiscoverableBalancer, TLC

Symmetry == Permutations(Requests) \cup Permutations(Keys \ BadTargets)
            \cup Permutations(Starters)
================================================================================
