------------------------------ MODULE Matching ------------------------------
(***************************************************************************)
(* services/matching.py: how well an instructor matches a job post, and    *)
(* which posts are shown.  Regions and certificates are texts; all that is *)
(* asked of two of them is whether they are equal or one contains the      *)
(* other.  The code divides in floating point; what is written here in     *)
(* whole numbers is what it computes wherever that is exact, as it is on   *)
(* all values the instances use.                                           *)
(***************************************************************************)
EXTENDS Integers, FiniteSets

CONSTANTS
  Word,    \* names of regions and certificates
  Similar  \* pairs of different words of which one contains the other

ASSUME MatchingAssumption ==
  /\ Similar \subseteq Word \X Word
  /\ \A p \in Similar : <<p[2], p[1]>> \in Similar

NoWord == "none"     \* the post names no region
NoRate == 0          \* hourly_rate_min or _max is not given

Weight == [region |-> 30, experience |-> 25, certifications |-> 25, rate |-> 20]

Alike(v, w) == v = w \/ <<v, w>> \in Similar

RegionScore(instructor, job) ==
  IF job.region = NoWord \/ job.region \in instructor.regions THEN 100
  ELSE IF \E r \in instructor.regions : Alike(r, job.region) THEN 70
  ELSE 0

ExperienceScore(instructor, job) ==
  IF instructor.experience >= job.experience THEN 100
  ELSE (instructor.experience * 100) \div job.experience

CertificationScore(instructor, job) ==
  IF job.certifications = {} THEN 100
  ELSE LET met == {c \in job.certifications :
                     \E d \in instructor.certifications : Alike(c, d)}
       IN (Cardinality(met) * 100) \div Cardinality(job.certifications)

(* Variant for the mutation checks: the ratio upside down.                 *)
InverseRateScore(instructor, job) ==
  IF job.rate >= instructor.min \/ job.rate = 0 THEN 100
  ELSE (instructor.min * 100) \div job.rate

(* A post that pays more than the most an instructor asks is as good as    *)
(* one in the range, also where that most is less than the least: no       *)
(* schema and no service compares hourly_rate_max with hourly_rate_min.    *)
PaysBeyond(instructor, job) ==
  instructor.max # NoRate /\ job.rate > instructor.max
RateScore(instructor, job) ==
  IF job.rate >= instructor.min \/ PaysBeyond(instructor, job) THEN 100
  ELSE (job.rate * 100) \div instructor.min

(* Variant for the mutation checks: rounded up.                            *)
CeilingPercent(n) == (n + 99) \div 100

(* round(): to the nearest, a half to the even neighbour.                  *)
RoundPercent(n) ==
  LET q == n \div 100
      r == n % 100
  IN IF r > 50 \/ (r = 50 /\ q % 2 = 1) THEN q + 1 ELSE q

TotalScore(instructor, job) ==
  RoundPercent(Weight.region * RegionScore(instructor, job)
               + Weight.experience * ExperienceScore(instructor, job)
               + Weight.certifications * CertificationScore(instructor, job)
               + Weight.rate * RateScore(instructor, job))

Label(score) ==
  CASE score >= 90 -> "Perfect Match"
    [] score >= 75 /\ score < 90 -> "Great Match"
    [] score >= 60 /\ score < 75 -> "Good Match"
    [] score >= 40 /\ score < 60 -> "Fair Match"
    [] score < 40 -> "Low Match"

(* Posted less than a day before its class, times in hours.                *)
Urgent(posted, class) == class - posted < 24 /\ class - posted >= 0

(* GET /job-posts/for-me/with-matching: the open posts that match well     *)
(* enough.  The order in which they are shown (premium studios first, then *)
(* by score, then the newest) is left out.                                 *)
Listing(instructor, posts, least) ==
  LET scored == {[id |-> j.id, premium |-> j.premium,
                  urgent |-> Urgent(j.posted, j.class),
                  score |-> TotalScore(instructor, j),
                  label |-> Label(TotalScore(instructor, j))] : j \in posts}
  IN {shown \in scored : shown.score >= least}
=============================================================================
