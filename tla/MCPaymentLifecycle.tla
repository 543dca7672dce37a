------------------------- MODULE MCPaymentLifecycle -------------------------
(* Two calls with one key, two refunds: half and half, or half and all.     *)
EXTENDS PaymentLifecycle

CONSTANTS first, second, r1, r2

Same == [c \in Calls |-> 1]
Other == [c \in Calls |-> IF c = first THEN 1 ELSE 2]
Halves == [r \in Refunds |-> 1]
HalfAndAll == [r \in Refunds |-> IF r = r1 THEN 1 ELSE 2]
Case(outc, mod, bodies, amounts) ==
  [outcome |-> outc, mode |-> mod, hash |-> bodies, size |-> amounts]

TestTokens ==
  {Case("succeeded", "standard", Same, Halves), Case("succeeded", "standard", Other, HalfAndAll),
   Case("succeeded", "stale", Same, HalfAndAll), Case("failed", "standard", Same, Halves),
   Case("timeout", "standard", Same, Halves)}
Overlapping == {Case("succeeded", "standard", Same, HalfAndAll)}
=============================================================================
