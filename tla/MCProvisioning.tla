--------------------------- MODULE MCProvisioning ---------------------------
(* Small instances of Provisioning for TLC. *)
EXTENDS Provisioning, TLC

CONSTANTS w1, w2

Interchangeable == Permutations({w1, w2})
=============================================================================
