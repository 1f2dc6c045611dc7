--------------------------- MODULE MCResendLimiter ---------------------------
(* Small instances of ResendLimiter for TLC. *)
EXTENDS ResendLimiter, TLC

Symmetric == Permutations(Key)
=============================================================================
