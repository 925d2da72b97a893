------------------------ MODULE ProfileCompleteness ------------------------
(***************************************************************************)
(* services/profile_completeness.py: how complete a profile is, in per     *)
(* cent, and what that allows its owner to do.  A profile is the set of    *)
(* its fields that pass their check (not empty, 20 characters of text, a   *)
(* positive rate, a verified number in place of a phone).                  *)
(***************************************************************************)
EXTENDS Integers, Functions

InstructorWeight ==
  [display_name |-> 20, phone |-> 10, bio |-> 15, experience_years |-> 10,
   categories |-> 10, available_regions |-> 15,
   hourly_rate_min |-> 10, hourly_rate_max |-> 10]

StudioWeight ==
  [business_name |-> 25, phone |-> 10, description |-> 20,
   address |-> 15, region |-> 15, categories |-> 15]

WeightOf(weight, fields) == SumFunctionOnSet(weight, fields)

(* int(completed_weight / total_weight * 100)                              *)
Percentage(weight, filled) ==
  (WeightOf(weight, filled) * 100) \div WeightOf(weight, DOMAIN weight)

Threshold(action) == IF action = "offer" THEN 90 ELSE 70

Allowed(weight, filled, action) ==
  Percentage(weight, filled) >= Threshold(action)
=============================================================================
