--------------------------- MODULE MCVerification ---------------------------
(* Instances of Verification for TLC.                                      *)
EXTENDS Verification

CONSTANTS u1, p1, s1, s2

OneUser == {u1}
OnePhone == {p1}
TwoSessions == {s1, s2}

(* A number that operates, and a typing error in its ninth digit: their    *)
(* weighted sums, but for the carry, leave the same check digit.           *)
Sound == <<1, 2, 3, 4, 5, 6, 7, 8, 1, 5>>
Mistyped == [Sound EXCEPT ![9] = 3]
Numbers == {Sound, Mistyped}
Open == {Sound}

MayBeKilled == {"killed"}
=============================================================================
