---------------------------- MODULE MCOnboarding ----------------------------
(* Small instances of Onboarding for TLC. *)
EXTENDS Onboarding, TLC

CONSTANTS s1, s2, u1, u2, l1, l2, l3, a1, a2, c1, c2, v1, v2

Symmetry ==
  Permutations(Submission) \cup Permutations(User) \cup Permutations(Link)
    \cup Permutations(Actor) \cup Permutations(Clerk) \cup Permutations(Visitor)
=============================================================================
