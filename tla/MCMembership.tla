---------------------------- MODULE MCMembership ----------------------------
(* Instances of Membership for TLC. *)
EXTENDS Membership, TLC

CONSTANTS creator, u1, u2, i1, i2, r1, r2

\* Invites and requests are interchangeable, and so are the other users.
Symmetry ==
  Permutations({u1, u2}) \cup Permutations({i1, i2}) \cup Permutations({r1, r2})
=============================================================================
