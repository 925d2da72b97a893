----------------------------- MODULE TrustScore -----------------------------
(***************************************************************************)
(* services/trust_score.py: the trust score of a user, from what is known  *)
(* of the user.  Averages of ratings are in hundredths, as the column      *)
(* Numeric(3, 2) has them; no review is an average of 0.                   *)
(***************************************************************************)
EXTENDS Integers, ProfileCompleteness

IdentityPoints(user) ==
  (IF user.phone THEN 10 ELSE 0)
  + (IF user.role = "instructor" \/ user.business THEN 10 ELSE 0)

ContractPoints(completed) ==
  CASE completed >= 11 -> 25
    [] completed >= 6 /\ completed < 11 -> 18
    [] completed >= 2 /\ completed < 6 -> 12
    [] completed = 1 -> 5
    [] completed < 1 -> 0

(* int((average - 2.0) * 5) in floating point: three averages come out     *)
(* just below the integer they stand for.                                  *)
BelowInteger == {240, 280, 460}

(* Variant for the mutation checks: without the floor of 0.                *)
NegativePoints(average) ==
  IF average = 0 THEN 0 ELSE ((average - 200) * 5) \div 100

RatingPoints(average) ==
  IF average < 200 THEN 0
  ELSE ((average - 200) * 5) \div 100
       - (IF average \in BelowInteger THEN 1 ELSE 0)

(* Days since last_active_at, which is set when the account is made and    *)
(* never again.                                                            *)
ActivityPoints(idleDays) ==
  CASE idleDays <= 3 -> 10
    [] idleDays > 3 /\ idleDays <= 7 -> 7
    [] idleDays > 7 /\ idleDays <= 14 -> 4
    [] idleDays > 14 /\ idleDays <= 30 -> 2
    [] idleDays > 30 -> 0

CertificationPoints(user) ==
  CASE user.role = "instructor" ->
         IF user.certificates >= 3 THEN 15 ELSE user.certificates * 5
    [] user.role = "studio" -> IF user.business THEN 15 ELSE 0

AgePoints(ageDays) ==
  CASE ageDays >= 180 -> 5
    [] ageDays >= 90 /\ ageDays < 180 -> 3
    [] ageDays >= 30 /\ ageDays < 90 -> 1
    [] ageDays < 30 -> 0

WeightsOf(role) ==
  IF role = "instructor" THEN InstructorWeight ELSE StudioWeight

(* 15 points for a complete profile, for every set of filled fields.       *)
CompletenessPoints ==
  [role \in {"instructor", "studio"} |->
     [filled \in SUBSET DOMAIN WeightsOf(role) |->
        (Percentage(WeightsOf(role), filled) * 15) \div 100]]

(* A verified phone counts as a filled field (profile_completeness.py).    *)
Filled(user) == user.filled \cup (IF user.phone THEN {"phone"} ELSE {})

TotalPoints(user, average) ==
  IdentityPoints(user)
  + CompletenessPoints[user.role][Filled(user)]
  + ContractPoints(user.completed)
  + RatingPoints(average)
  + ActivityPoints(user.age)
  + CertificationPoints(user)
  - 20 * user.noShows
  + AgePoints(user.age)

Score(user, average) ==
  LET total == TotalPoints(user, average)
  IN IF total < 0 THEN 0 ELSE IF total > 100 THEN 100 ELSE total

Level(score) ==
  CASE score < 40 -> "sprout"
    [] score >= 40 /\ score < 60 -> "verified"
    [] score >= 60 /\ score < 80 -> "expert"
    [] score >= 80 -> "master"
=============================================================================
