---------------------------- MODULE MCAuthority ----------------------------
(* Authority on small instances. *)
EXTENDS AuthorityInvariant, TLC

CONSTANTS r1, r2, a1, a2, w1, p1, p2, t1, t2

Symmetry == Permutations(Requests) \cup Permutations(Admins)
=============================================================================
