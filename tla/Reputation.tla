----------------------------- MODULE Reputation -----------------------------
(***************************************************************************)
(* What users think of each other and what the platform thinks of them:    *)
(* services/review.py, which keeps the average rating of every profile,    *)
(* and the trust score, which is computed from it and from the rest of     *)
(* what is known of the user (endpoints/reviews.py, endpoints/trust.py).   *)
(***************************************************************************)
EXTENDS Integers, FiniteSets, Functions, TrustScore

CONSTANTS
  User,
  Role,         \* instructor or studio
  Contract,
  Between,      \* the two users of each contract
  Past,         \* how many contracts a user has completed before
  Author,       \* the users who write reviews
  Refresher,    \* the users who ask for their score again
  Rating,       \* the ratings that are given, among 1..5
  Editor,       \* the users whose profile, phone and record change
  Field,        \* the fields each of them fills in
  MaxCertificates,
  MaxNoShows,
  Day,          \* by how many days time advances
  MaxAge,
  Session,
  Faults        \* "killed": a worker may die between two commits

ASSUME ReputationAssumption ==
  /\ Role \in [User -> {"instructor", "studio"}]
  /\ Between \in [Contract -> SUBSET User]
  /\ \A c \in Contract : Cardinality(Between[c]) = 2
  /\ Past \in [User -> Nat]
  /\ Rating \subseteq 1..5
  /\ Author \cup Refresher \cup Editor \subseteq User
  /\ \A u \in User : Field[u] \subseteq DOMAIN WeightsOf(Role[u])
  /\ {MaxCertificates, MaxNoShows, Day, MaxAge} \subseteq Nat
  /\ Faults \subseteq {"killed"}

VARIABLES
  completed,  \* the contracts that are completed
  review,     \* table reviews
  profile,    \* rating_average and review_count of each profile
  fact,       \* what else is known of each user
  trust,      \* users.trust_score and users.trust_level
  basis,      \* history: what each score was computed from, if it was
  refreshed,  \* _trust_refresh_timestamps: who has refreshed this hour
  session     \* what each request has read and still has to do

vars == <<completed, review, profile, fact, trust, basis, refreshed, session>>

NoReview == 0
Reviewers(c) == IF c \in completed THEN Between[c] ELSE {}
Reviewee(c, author) == CHOOSE u \in Between[c] : u # author
Reviews(u) ==
  {r \in Contract \X User : /\ r[2] \in Between[r[1]]
                            /\ Reviewee(r[1], r[2]) = u
                            /\ review[r[1]][r[2]] # NoReview}

(* avg() and count() over the reviews of a user in a table.                *)
Sum(u) == SumFunction([r \in Reviews(u) |-> review[r[1]][r[2]]])
Measured(u) ==
  LET n == Cardinality(Reviews(u))
  IN [average |-> IF n = 0 THEN 0 ELSE (200 * Sum(u) + n) \div (2 * n),
      count |-> n]

Idle == [at |-> "idle"]

At(s, where) == session[s].at = where
Become(s, plan) == session' = [session EXCEPT ![s] = plan]
Subject(s) == Reviewee(session[s].contract, session[s].author)

(* Variant for the mutation checks: a count that never goes down.          *)
CountKept(s, now) ==
  LET measured == session[s].measured
  IN [average |-> measured.average,
      count |-> IF measured.count < now.count THEN now.count
                                              ELSE measured.count]

(* Only columns whose value differs from the one loaded are written.       *)
Written(s, now) ==
  LET loaded == session[s].loaded
      measured == session[s].measured
  IN [average |-> IF measured.average = loaded.average
                    THEN now.average ELSE measured.average,
      count |-> IF measured.count = loaded.count
                  THEN now.count ELSE measured.count]
StoreRating(s) ==
  profile' = [profile EXCEPT ![Subject(s)] = Written(s, @)]

-----------------------------------------------------------------------------
(* Reviews.  The session does not flush before it queries, so the average  *)
(* is measured without what the request itself is about to write.          *)

Measuring(s, step, c, a, r) ==
  LET u == Reviewee(c, a)
  IN Become(s, [at |-> step, contract |-> c, author |-> a, rating |-> r,
                loaded |-> profile[u], measured |-> Measured(u)])

CreateReview(s, c, a, r) ==
  /\ At(s, "idle")
  /\ a \in Reviewers(c)
  /\ review[c][a] = NoReview
  /\ Measuring(s, "create", c, a, r)
  /\ UNCHANGED <<completed, review, profile, fact, trust, basis, refreshed>>

(* The unique constraint on contract and reviewer has the last word.       *)
CommitReview(s) ==
  /\ At(s, "create")
  /\ LET c == session[s].contract
         a == session[s].author
     IN IF review[c][a] = NoReview
          THEN /\ review' = [review EXCEPT ![c][a] = session[s].rating]
               /\ StoreRating(s)
          ELSE UNCHANGED <<review, profile>>
  /\ Become(s, Idle)
  /\ UNCHANGED <<completed, fact, trust, basis, refreshed>>

UpdateReview(s, c, a, r) ==
  /\ At(s, "idle")
  /\ a \in Between[c]
  /\ review[c][a] # NoReview
  /\ Measuring(s, "update", c, a, r)
  /\ UNCHANGED <<completed, review, profile, fact, trust, basis, refreshed>>

(* An update of a row that was deleted meanwhile fails.                    *)
CommitUpdate(s) ==
  /\ At(s, "update")
  /\ LET c == session[s].contract
         a == session[s].author
     IN IF review[c][a] # NoReview
          THEN /\ review' = [review EXCEPT ![c][a] = session[s].rating]
               /\ StoreRating(s)
          ELSE UNCHANGED <<review, profile>>
  /\ Become(s, Idle)
  /\ UNCHANGED <<completed, fact, trust, basis, refreshed>>

DeleteReview(s, c, a) ==
  /\ At(s, "idle")
  /\ a \in Between[c]
  /\ review[c][a] # NoReview
  /\ Become(s, [at |-> "delete", contract |-> c, author |-> a])
  /\ UNCHANGED <<completed, review, profile, fact, trust, basis, refreshed>>

(* The deletion is committed by itself, then the average is measured.      *)
CommitDelete(s) ==
  /\ At(s, "delete")
  /\ review' = [review EXCEPT ![session[s].contract][session[s].author] =
                  NoReview]
  /\ Become(s, [session[s] EXCEPT !.at = "measure"])
  /\ UNCHANGED <<completed, profile, fact, trust, basis, refreshed>>

MeasureAgain(s) ==
  /\ At(s, "measure")
  /\ Become(s, [at |-> "rate", contract |-> session[s].contract,
                author |-> session[s].author, loaded |-> profile[Subject(s)],
                measured |-> Measured(Subject(s))])
  /\ UNCHANGED <<completed, review, profile, fact, trust, basis, refreshed>>

CommitRating(s) ==
  /\ At(s, "rate")
  /\ StoreRating(s)
  /\ Become(s, Idle)
  /\ UNCHANGED <<completed, review, fact, trust, basis, refreshed>>

-----------------------------------------------------------------------------
(* The trust score.                                                        *)

Completed(u) == Past[u] + Cardinality({c \in completed : u \in Between[c]})
Known(u) ==
  [role |-> fact[u].role, phone |-> fact[u].phone,
   business |-> fact[u].business, filled |-> fact[u].filled,
   certificates |-> fact[u].certificates, noShows |-> fact[u].noShows,
   age |-> fact[u].age, completed |-> Completed(u)]
Seen(u) == [known |-> Known(u), average |-> profile[u].average]

(* POST /trust-score/refresh, once per hour and process.                   *)
RefreshTrust(s, u) ==
  /\ At(s, "idle")
  /\ u \notin refreshed
  /\ Become(s, [at |-> "refresh", user |-> u, seen |-> Seen(u)])
  /\ UNCHANGED <<completed, review, profile, fact, trust, basis, refreshed>>

CommitTrust(s) ==
  /\ At(s, "refresh")
  /\ LET u == session[s].user
         seen == session[s].seen
         score == Score(seen.known, seen.average)
     IN /\ trust' = [trust EXCEPT ![u] = [score |-> score,
                                          level |-> Level(score)]]
        /\ basis' = [basis EXCEPT ![u] = {seen}]
        /\ refreshed' = refreshed \cup {u}
  /\ Become(s, Idle)
  /\ UNCHANGED <<completed, review, profile, fact>>

-----------------------------------------------------------------------------
(* What the scores are computed from, changed by other parts.              *)

Change(u, f) ==
  /\ f # fact[u]
  /\ fact' = [fact EXCEPT ![u] = f]
  /\ UNCHANGED <<completed, review, profile, trust, basis, refreshed, session>>

VerifyPhone(u) == Change(u, [fact[u] EXCEPT !.phone = TRUE])
VerifyBusiness(u) ==
  /\ fact[u].role = "studio"
  /\ Change(u, [fact[u] EXCEPT !.business = TRUE])
EditProfile(u, fields, n) ==
  Change(u, [fact[u] EXCEPT !.filled = fields, !.certificates = n])
NoShow(u) ==
  /\ fact[u].noShows < MaxNoShows
  /\ Change(u, [fact[u] EXCEPT !.noShows = @ + 1])

Complete(c) ==
  /\ c \notin completed
  /\ completed' = completed \cup {c}
  /\ UNCHANGED <<review, profile, fact, trust, basis, refreshed, session>>

DaysPass ==
  /\ \A u \in Editor : fact[u].age + Day <= MaxAge
  /\ fact' = [u \in User |-> IF u \in Editor
                               THEN [fact[u] EXCEPT !.age = @ + Day]
                               ELSE fact[u]]
  /\ refreshed' = {}
  /\ UNCHANGED <<completed, review, profile, trust, basis, session>>

(* An hour passes, or a process answers that keeps no such time stamp.     *)
HourPasses ==
  /\ refreshed # {}
  /\ refreshed' = {}
  /\ UNCHANGED <<completed, review, profile, fact, trust, basis, session>>

Killed(s) ==
  /\ "killed" \in Faults
  /\ session[s] # Idle
  /\ Become(s, Idle)
  /\ UNCHANGED <<completed, review, profile, fact, trust, basis, refreshed>>

Init ==
  /\ completed = {}
  /\ review = [c \in Contract |-> [a \in User |-> NoReview]]
  /\ profile = [u \in User |-> [average |-> 0, count |-> 0]]
  /\ fact = [u \in User |->
               [role |-> Role[u], phone |-> FALSE, business |-> FALSE,
                filled |-> {}, certificates |-> 0, noShows |-> 0, age |-> 0]]
  /\ trust = [u \in User |-> [score |-> 40, level |-> "sprout"]]
  /\ basis = [u \in User |-> {}]
  /\ refreshed = {}
  /\ session = [s \in Session |-> Idle]

Next ==
  \/ \E s \in Session, c \in Contract, a \in Author :
       \/ \E r \in Rating : CreateReview(s, c, a, r) \/ UpdateReview(s, c, a, r)
       \/ DeleteReview(s, c, a)
  \/ \E s \in Session :
       \/ CommitReview(s) \/ CommitUpdate(s)
       \/ CommitDelete(s) \/ MeasureAgain(s) \/ CommitRating(s)
       \/ \E u \in Refresher : RefreshTrust(s, u)
       \/ CommitTrust(s) \/ Killed(s)
  \/ \E u \in Editor :
       \/ VerifyPhone(u) \/ NoShow(u)
       \/ \E fields \in SUBSET Field[u], n \in 0..MaxCertificates :
            EditProfile(u, fields, n)
  \/ \E u \in User : VerifyBusiness(u)
  \/ \E c \in Contract : Complete(c)
  \/ DaysPass \/ HourPasses

Spec == Init /\ [][Next]_vars

-----------------------------------------------------------------------------
(* The rows of reviews, and the plans of requests.                         *)
Reviewed == {r \in Contract \X User : review[r[1]][r[2]] # NoReview}

RowsInv ==
  /\ review \in [Contract -> [User -> Rating \cup {NoReview}]]
  /\ IsFiniteSet(Reviewed)
  /\ DOMAIN profile = User

PlansInv ==
  /\ DOMAIN session = Session
  /\ \A s \in Session :
       session[s].at \in {"create", "update", "delete", "measure", "rate"} =>
         /\ session[s].contract \in Contract
         /\ session[s].author \in Between[session[s].contract]
         /\ session[s].at \in {"create", "update"} => session[s].rating \in Rating

(* While requests follow one another, a request that is about to write a   *)
(* rating has read the profile as it is and counted the reviews there are. *)
CurrentInv ==
  \A s \in Session :
    session[s].at \in {"create", "update", "rate"} =>
      /\ session[s].loaded = profile[Subject(s)]
      /\ session[s].measured.count = Cardinality(Reviews(Subject(s)))

MeasuredInv == RowsInv /\ PlansInv /\ CurrentInv

OneAtATime == \A s, t \in Session : s = t

(* What scores are computed from are numbers, and fields that have a       *)
(* weight, whatever overlaps.                                              *)
Facts(u) ==
  [role : {Role[u]}, phone : BOOLEAN, business : BOOLEAN,
   filled : SUBSET Field[u], certificates : Nat, noShows : Nat, age : Nat]

KnownInv ==
  /\ RowsInv
  /\ PlansInv
  /\ IsFiniteSet(completed)
  /\ DOMAIN fact = User
  /\ \A u \in User : fact[u] \in Facts(u) /\ profile[u].average \in Int
  /\ \A s \in Session :
       session[s].at \in {"create", "update", "rate"} =>
         session[s].measured.average \in Int

(* What a score can be computed from, and what of it is never taken back.  *)
Sights(u) ==
  [known : [role : {Role[u]}, phone : BOOLEAN, business : BOOLEAN,
            filled : SUBSET Field[u], certificates : Nat, noShows : Nat,
            age : Nat, completed : Nat],
   average : Int]

Outlasts(new, old) ==
  /\ old.known.phone => new.known.phone
  /\ old.known.business => new.known.business
  /\ old.known.completed <= new.known.completed
  /\ old.known.age <= new.known.age

(* A score that was computed is the one of its basis.  While requests      *)
(* follow one another, what a request has read is no older than the basis. *)
ScoredInv ==
  /\ DOMAIN trust = User /\ DOMAIN basis = User
  /\ \A u \in User : \A old \in basis[u] :
       /\ old \in Sights(u)
       /\ trust[u].score = Score(old.known, old.average)
       /\ Outlasts(Seen(u), old)
  /\ \A s \in Session :
       session[s].at = "refresh" =>
         /\ session[s].user \in User
         /\ session[s].seen \in Sights(session[s].user)
         /\ Outlasts(Seen(session[s].user), session[s].seen)
         /\ \A old \in basis[session[s].user] : Outlasts(session[s].seen, old)

(* As long as requests follow one another, a count that is written to a    *)
(* profile is the number of its reviews, or one less: a count is made      *)
(* before the insert it goes with is flushed (review.py:83-87), and after  *)
(* the deletion it goes with is committed (228-237).  So the next request  *)
(* mends the count that a worker left who died after it deleted a review.  *)
CountRecovers ==
  [][\A u \in User : profile'[u] # profile[u] =>
       profile'[u].count \in {Cardinality(Reviews(u))',
                               Cardinality(Reviews(u))' - 1}]_vars

(* The stored score of a user (users.trust_score) falls only for a cause   *)
(* that came up since it was last computed: a no-show, a lower average, a  *)
(* field or a certificate that is gone, or time without any activity.  A   *)
(* first review, however bad, costs no points.  The 40 points that the     *)
(* column starts with (user.py:37) were not computed, and the first        *)
(* refresh may take them.                                                  *)
NeverFallsUnearned ==
  [][\A u \in User : \A old \in basis[u], new \in basis'[u] :
       trust'[u].score < trust[u].score =>
         \/ new.known.noShows > old.known.noShows
         \/ new.average < old.average
         \/ ~(old.known.filled \subseteq new.known.filled)
         \/ new.known.certificates < old.known.certificates
         \/ new.known.age > old.known.age]_vars
=============================================================================
