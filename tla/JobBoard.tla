------------------------------ MODULE JobBoard ------------------------------
(***************************************************************************)
(* What an instructor is shown: the open posts with their matching scores  *)
(* (endpoints/job_posts.py over services/matching.py) and the sessions of  *)
(* a weekly contract (endpoints/contracts.py over                          *)
(* services/recurring_schedule.py), while the profile is edited, posts are *)
(* edited and days pass.                                                   *)
(***************************************************************************)
EXTENDS Integers, FiniteSets, Matching, RecurringSchedule

CONSTANTS
  Regions,     \* the words that are names of regions
  Certificates,
  Years,       \* of experience
  Rates,       \* hourly rates
  Posts,       \* what a studio may make of its post: records without an id
  PostId,
  Least,       \* the min_match_score that is asked for
  Schedules,   \* records of start, end and weekdays
  LastDay

ASSUME JobBoardAssumption ==
  /\ Regions \cup Certificates \subseteq Word
  /\ Years \cup Rates \subseteq Nat
  /\ Least \in 0..100
  /\ \A j \in Posts : /\ {j.experience, j.rate} \subseteq Nat
                      /\ IsFiniteSet(j.certifications)
  /\ \A w \in Schedules : {w.start, w.end} \subseteq Nat /\ w.weekdays \subseteq 1..7
  /\ LastDay \in Nat

VARIABLES
  profile,   \* of the instructor
  post,      \* the open posts
  contract,  \* the weekly contract of the instructor
  today

vars == <<profile, post, contract, today>>

(* PUT /instructors/me sets the fields that are sent.                      *)
EditProfile(p) ==
  /\ profile' = p
  /\ UNCHANGED <<post, contract, today>>

Edits ==
  {[profile EXCEPT !.regions = r] : r \in SUBSET Regions}
  \cup {[profile EXCEPT !.experience = y] : y \in Years}
  \cup {[profile EXCEPT !.certifications = c] : c \in SUBSET Certificates}
  \cup {[profile EXCEPT !.min = m] : m \in Rates \cup {NoRate}}
  \cup {[profile EXCEPT !.max = m] : m \in Rates \cup {NoRate}}

UpdatePost(id, j) ==
  /\ post' = [post EXCEPT ![id] = j]
  /\ UNCHANGED <<profile, contract, today>>

AgreeOn(w) ==
  /\ contract' = w
  /\ UNCHANGED <<profile, post, today>>

DayPasses ==
  /\ today < LastDay
  /\ today' = today + 1
  /\ UNCHANGED <<profile, post, contract>>

WithId(id) ==
  [id |-> id, region |-> post[id].region, experience |-> post[id].experience,
   certifications |-> post[id].certifications, rate |-> post[id].rate,
   premium |-> post[id].premium, posted |-> post[id].posted,
   class |-> post[id].class]
Shown == Listing(profile, {WithId(id) : id \in PostId}, Least)

(* GET /contracts/{id}/schedule                                            *)
Dates == RecurringDates(contract.start, contract.end, contract.weekdays)
NextShown == NextSession(today, contract.weekdays, contract.end)

Init ==
  /\ profile \in [regions : {{}}, experience : Years, certifications : {{}},
                  min : {NoRate}, max : {NoRate}]
  /\ post \in [PostId -> Posts]
  /\ contract \in Schedules
  /\ today = 0

Next ==
  \/ \E p \in Edits : EditProfile(p)
  \/ \E id \in PostId, j \in Posts : UpdatePost(id, j)
  \/ \E w \in Schedules : AgreeOn(w)
  \/ DayPasses

Spec == Init /\ [][Next]_vars

-----------------------------------------------------------------------------
Profile == [regions : SUBSET Regions, experience : Years,
            certifications : SUBSET Certificates,
            min : Rates \cup {NoRate}, max : Rates \cup {NoRate}]

TypeOK ==
  /\ profile \in Profile
  /\ post \in [PostId -> Posts]
  /\ contract \in Schedules
  /\ today \in 0..LastDay

Improves(old, new) ==
  /\ old.regions \subseteq new.regions
  /\ old.experience <= new.experience
  /\ old.certifications \subseteq new.certifications
  /\ new.min <= old.min
  /\ old.max # NoRate => new.max # NoRate /\ new.max <= old.max

(* Whoever learns, moves further or asks for less is shown no post fewer   *)
(* and no post with a lower score (the branches and roundings of           *)
(* matching.py:31-103, the filter of job_posts.py:187).                    *)
BetterNeverHurts ==
  [][profile' # profile /\ Improves(profile, profile') =>
       \A before \in Shown : \E after \in Shown' :
         after.id = before.id /\ after.score >= before.score]_vars

(* A full score means the region that is asked for and, within two per     *)
(* cent, the experience, the certificates and the rate: four truncations   *)
(* and a rounding lose no more (matching.py:31-103).  The rate is all that *)
(* the code asks of it: near the least the instructor asks, or above the   *)
(* most, which may be far below the least where somebody has so entered    *)
(* it.  Boosting a premium member by 1.3 would break this; the code does   *)
(* not do it.                                                              *)
FullScoreIsDeserved ==
  \A shown \in Shown :
    shown.score = 100 =>
      LET j == post[shown.id]
          met == {c \in j.certifications :
                    \E d \in profile.certifications : Alike(c, d)}
      IN /\ j.region = NoWord \/ j.region \in profile.regions
         /\ 100 * profile.experience >= 98 * j.experience
         /\ 100 * Cardinality(met) >= 98 * Cardinality(j.certifications)
         /\ 100 * j.rate >= 98 * profile.min \/ PaysBeyond(profile, j)

(* From the first day of a contract on, the next session shown is the      *)
(* first of its dates that has not passed, and there is none exactly when  *)
(* all have: eight days are enough to find it (recurring_schedule.py:62).  *)
NextIsTheFirst ==
  today >= contract.start =>
    LET left == {date \in Dates : date >= today}
    IN IF left = {} THEN NextShown = NoDate
       ELSE NextShown \in left /\ \A date \in left : NextShown <= date
=====
