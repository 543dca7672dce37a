----------------------------- MODULE MCErasureApi -----------------------------
(***************************************************************************)
(* Instances of ErasureApi for TLC: three calls that use at most two       *)
(* customers and two idempotency keys.                                     *)
(***************************************************************************)
EXTENDS ErasureApi, TLC

CONSTANTS c1, c2, c3, alice, bob, k1, k2

TwoCalls == {c1, c2}
ThreeCalls == {c1, c2, c3}
TwoCustomers == {alice, bob}
TwoKeys == {k1, k2}

Symmetry == Permutations(ThreeCalls) \cup Permutations(TwoCustomers) \cup Permutations(TwoKeys)
=============================================================================
