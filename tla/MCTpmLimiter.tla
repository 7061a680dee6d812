----------------------------- MODULE MCTpmLimiter -----------------------------
(* TLC instance of TpmLimiter: the requests are interchangeable, and no
   liveness property is checked, so their permutations may be identified. *)
EXTENDS TpmLimiter, TLC

RequestSymmetry == Permutations(Requests)
=============================================================================
