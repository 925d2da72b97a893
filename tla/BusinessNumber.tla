--------------------------- MODULE BusinessNumber ---------------------------
(***************************************************************************)
(* A business registration number and what is known of it: the checksum of *)
(* services/nts_client.py and the tax office it asks.                      *)
(***************************************************************************)
EXTENDS Integers, FiniteSets

Digit == 0..9
Number == [1..10 -> Digit]

(* The weights are 1, 3, 7, 1, 3, 7, 1, 3, 5.                              *)
WeightedSum(n) ==
  (n[1] + n[4] + n[7]) + 3 * (n[2] + n[5] + n[8]) + 7 * (n[3] + n[6]) + 5 * n[9]

(* Variant for the mutation checks: without the carry of the ninth digit.  *)
PlainTotal(n) == WeightedSum(n)

Total(n) == WeightedSum(n) + (n[9] * 5) \div 10

ChecksumHolds(n) == (10 - (Total(n) % 10)) % 10 = n[10]

(* One digit is wrong.                                                     *)
OneDigitApart(m, n) == Cardinality({i \in 1..10 : m[i] # n[i]}) = 1

(* The tax office knows which businesses operate.  When there is no key,   *)
(* the office does not answer or answers with an error, the checksum alone *)
(* decides.                                                                *)
IsOperating(n, answered, operating) ==
  IF answered THEN n \in operating ELSE ChecksumHolds(n)
=============================================================================
