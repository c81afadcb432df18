--------------------------- MODULE MCRunAdmission ---------------------------
(* Small instances of RunAdmission for TLC. *)
EXTENDS RunAdmission, TLC

CONSTANTS q1, q2, q3, k1, k2, k3, small, large, r1, r2, d1

SmallAndLarge == [b \in Body |-> IF b = large THEN 2 ELSE 1]

Interchangeable == Permutations({q1, q2, q3}) \cup Permutations({k1, k2, k3})
                     \cup Permutations({r1, r2})
=============================================================================
