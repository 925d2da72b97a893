------------------------------ MODULE HiringDb ------------------------------
(***************************************************************************)
(* The tables of hiring - job posts, applications, offers, contracts, the  *)
(* users' daily counters - and the transactions a request has ahead of it. *)
(*                                                                         *)
(* A request keeps the rows it has read (identity map, no expiry on        *)
(* commit, no row lock) and writes what it computed from them; only the    *)
(* columns it changed go into the UPDATE.  Unique columns and foreign keys *)
(* are enforced by the database when it commits.                           *)
(***************************************************************************)
EXTENDS Integers, FiniteSets

CONSTANTS
  Post,        \* ids of job posts
  Instructor,  \* instructors: they apply
  Viewer,      \* studio users: they look at profiles of instructors
  Offer,       \* ids of offers
  Session,     \* requests that may be open at the same time
  Premium,     \* users with membership_tier "premium"
  Limit,       \* FREE_DAILY_APPLICATIONS, FREE_DAILY_PROFILE_VIEWS
  LastDay,     \* the last day of the run
  Faults       \* "killed": a worker process dies with its requests

User == Instructor \cup Viewer
Slot == Post \X Instructor   \* an application is about a post and by somebody

NoOffer == [status |-> "none"]
NoPost == [status |-> "none"]
NoApplication == [status |-> "none"]
Direct == <<>>               \* an offer that answers no application

ASSUME HiringAssumption ==
  /\ IsFiniteSet(Instructor)
  /\ Limit \in Nat \ {0}
  /\ LastDay \in Nat
  /\ Premium \subseteq User
  /\ Faults \subseteq {"killed"}
  /\ Direct \notin Slot

VARIABLES
  post,         \* table job_posts
  application,  \* table applications (job_post_id, instructor_id are unique)
  offer,        \* table offers (application_id is unique)
  late,         \* the offers past their expires_at
  contracts,    \* table contracts: the number of rows of each offer
  usage,        \* users.daily_*_today, last_usage_reset_date, last_viewed
  tracked,      \* table daily_usage_limits, by user and usage_date
  today,        \* the date
  session       \* what each request has read and still has to do

tables == <<post, application, offer, contracts, usage, tracked>>
clock == <<late, today>>
vars == <<tables, clock, session>>

-----------------------------------------------------------------------------
(* Rows.                                                                   *)

PostStatus == {"open", "closed", "filled"}
ApplicationStatus == {"pending", "accepted", "rejected", "withdrawn"}
OfferStatus == {"pending", "accepted", "rejected", "expired"}
Counter == {"application", "profile_view"}

PostRow == [status : PostStatus, count : Nat]
ApplicationRow == [status : ApplicationStatus, created : 0..LastDay]
OfferRow == [status : OfferStatus, application : Slot \cup {Direct}]

(* used: the counters; viewed: last_viewed_profiles.                       *)
UsageRow == [day : 0..LastDay, used : [Counter -> Nat],
             viewed : SUBSET Instructor]
NothingUsed == [c \in Counter |-> 0]
Unused(day) == [day |-> day, used |-> NothingUsed, viewed |-> {}]

-----------------------------------------------------------------------------
(* What a request still has to do.  A plan is what it will write.          *)

NoSlot == <<>>
NoWrite == -1   \* a column or a row that stays as it is

(* A user's counters: the row the request has loaded, the row it wants.    *)
UsagePlan == [at : {"usage"}, user : User, loaded : UsageRow, wanted : UsageRow,
              counter : Counter, seen : Nat, slot : Slot \cup {NoSlot},
              count : Nat]
ResetPlan == [at : {"reset"}, user : User, loaded : UsageRow, wanted : UsageRow]
InsertPlan == [at : {"insert"}, slot : Slot, count : Nat,
               seen : Nat \cup {NoWrite}, day : 0..LastDay]
RecountPlan == [at : {"recount"}, slot : Slot]
WithdrawPlan == [at : {"withdraw"}, slot : Slot, count : Nat \cup {NoWrite}]
OfferPlan == [at : {"offer"}, offer : Offer, application : Slot \cup {Direct}]
AnswerPlan == [at : {"reread", "answer"}, offer : Offer,
               status : OfferStatus \ {"pending"}, writeApplication : BOOLEAN]
ContractPlan == [at : {"contract"}, offer : Offer]

Idle == [at |-> "idle"]
Plan == UsagePlan \cup ResetPlan \cup InsertPlan \cup RecountPlan
          \cup WithdrawPlan \cup OfferPlan \cup AnswerPlan \cup ContractPlan

At(s, where) == session[s].at = where
IsIdle(s) == At(s, "idle")
Become(s, plan) == session' = [session EXCEPT ![s] = plan]

(* A request that has read what it needs and goes on to its transactions.  *)
Begin(s, plan) ==
  /\ IsIdle(s)
  /\ Become(s, plan)
  /\ UNCHANGED <<tables, clock>>

(* The database refuses a transaction: all of it is rolled back.           *)
Refuse(s) == Become(s, Idle) /\ UNCHANGED tables

(* Columns of a user's row that the request did not change stay as others  *)
(* have left them.                                                         *)
Merge(row, loaded, wanted) ==
  [day    |-> IF wanted.day = loaded.day THEN row.day ELSE wanted.day,
   used   |-> [c \in Counter |-> IF wanted.used[c] = loaded.used[c]
                                   THEN row.used[c] ELSE wanted.used[c]],
   viewed |-> IF wanted.viewed = loaded.viewed THEN row.viewed
              ELSE wanted.viewed]

OfferOf(slot) == {o \in Offer : offer[o] # NoOffer /\ offer[o].application = slot}

(* Ids are drawn anew: not those of rows, nor of plans.                    *)
NewPost(j) ==
  /\ post[j] = NoPost
  /\ \A s \in Session : session[s].at \in {"usage", "insert"} =>
       \A i \in Instructor : session[s].slot # <<j, i>>
NewOffer(o) ==
  /\ offer[o] = NoOffer
  /\ \A s \in Session : At(s, "offer") => session[s].offer # o

-----------------------------------------------------------------------------
(* Transactions.                                                           *)

(* Variants for the mutation checks: constraints the migration left out.   *)
CommitInsertAnyway(s) ==
  /\ At(s, "insert")
  /\ post[session[s].slot[1]] # NoPost
  /\ UNCHANGED clock
  /\ LET p == session[s] IN
       /\ application' = [application EXCEPT ![p.slot] =
                            [status |-> "pending", created |-> today]]
       /\ post' = [post EXCEPT ![p.slot[1]].count = p.count + 1]
       /\ Become(s, Idle)
       /\ UNCHANGED <<offer, contracts, usage, tracked>>
CommitOfferAnyway(s) ==
  /\ At(s, "offer")
  /\ UNCHANGED clock
  /\ LET p == session[s] IN
       /\ offer' = [offer EXCEPT ![p.offer] =
                      [status |-> "pending", application |-> p.application]]
       /\ Become(s, Idle)
       /\ UNCHANGED <<post, application, contracts, usage, tracked>>
CommitContractAnyway(s) ==
  /\ At(s, "contract")
  /\ UNCHANGED clock
  /\ contracts' = [contracts EXCEPT ![session[s].offer] = @ + 1]
  /\ Become(s, Idle)
  /\ UNCHANGED <<post, application, offer, usage, tracked>>

(* A user's row of a day and a counter is inserted if none was seen - the  *)
(* unique constraint refuses a second one - or else updated.  The day is   *)
(* that of the request's look at the clock, also when midnight has passed. *)
Trackable(u, day, c, seen) == seen = 0 => tracked[<<u, day>>][c] = 0
Track(u, day, c, seen) ==
  tracked' = [tracked EXCEPT ![<<u, day>>][c] = seen + 1]

(* Variant for the mutation checks: the post is counted with the usage.    *)
CommitUsageAndCount(s) ==
  /\ At(s, "usage")
  /\ UNCHANGED clock
  /\ LET p == session[s] IN
       /\ usage' = [usage EXCEPT ![p.user] = Merge(@, p.loaded, p.wanted)]
       /\ Track(p.user, p.wanted.day, p.counter, p.seen)
       /\ post' = [post EXCEPT ![p.slot[1]].count = p.count + 1]
       /\ Become(s, [at |-> "insert", slot |-> p.slot, count |-> p.count,
                     seen |-> NoWrite, day |-> p.wanted.day])
  /\ UNCHANGED <<application, offer, contracts>>

(* check_and_increment_usage and track_profile_view commit on their own;   *)
(* an application goes on to its INSERT.                                   *)
CommitUsage(s) ==
  /\ At(s, "usage")
  /\ UNCHANGED clock
  /\ LET p == session[s] IN
     IF ~Trackable(p.user, p.wanted.day, p.counter, p.seen) THEN Refuse(s)
     ELSE /\ usage' = [usage EXCEPT ![p.user] = Merge(@, p.loaded, p.wanted)]
          /\ Track(p.user, p.wanted.day, p.counter, p.seen)
          /\ Become(s, IF p.counter = "profile_view" THEN Idle
                       ELSE [at |-> "insert", slot |-> p.slot,
                             count |-> p.count, seen |-> NoWrite,
                             day |-> p.wanted.day])
          /\ UNCHANGED <<post, application, offer, contracts>>

CommitReset(s) ==
  /\ At(s, "reset")
  /\ UNCHANGED clock
  /\ LET p == session[s] IN
       usage' = [usage EXCEPT ![p.user] = Merge(@, p.loaded, p.wanted)]
  /\ Become(s, Idle)
  /\ UNCHANGED <<post, application, offer, contracts, tracked>>

(* The application and the new count of its post are one transaction.      *)
CommitInsert(s) ==
  /\ At(s, "insert")
  /\ UNCHANGED clock
  /\ LET p == session[s] IN
     IF \/ application[p.slot] # NoApplication
        \/ post[p.slot[1]] = NoPost
        \/ p.seen # NoWrite /\ ~Trackable(p.slot[2], p.day, "application", p.seen)
       THEN Refuse(s)
       ELSE /\ application' = [application EXCEPT ![p.slot] =
                                 [status |-> "pending", created |-> today]]
            /\ post' = [post EXCEPT ![p.slot[1]].count = p.count + 1]
            /\ IF p.seen = NoWrite THEN UNCHANGED tracked
               ELSE Track(p.slot[2], p.day, "application", p.seen)
            /\ Become(s, Idle)
            /\ UNCHANGED <<offer, contracts, usage>>

(* Variant for the mutation checks: counted down at the commit.            *)
CommitWithdrawCounting(s) ==
  /\ At(s, "withdraw")
  /\ UNCHANGED clock
  /\ LET p == session[s] IN
       /\ application' = [application EXCEPT ![p.slot].status = "withdrawn"]
       /\ post' = [post EXCEPT ![p.slot[1]].count = @ - 1]
  /\ Become(s, Idle)
  /\ UNCHANGED <<offer, contracts, usage, tracked>>

CommitWithdraw(s) ==
  /\ At(s, "withdraw")
  /\ UNCHANGED clock
  /\ LET p == session[s] IN
       /\ application' = [application EXCEPT ![p.slot].status = "withdrawn"]
       /\ post' = IF p.count = NoWrite THEN post
                  ELSE [post EXCEPT ![p.slot[1]].count = p.count]
  /\ Become(s, Idle)
  /\ UNCHANGED <<offer, contracts, usage, tracked>>

CommitOffer(s) ==
  /\ At(s, "offer")
  /\ UNCHANGED clock
  /\ LET p == session[s] IN
     IF p.application # Direct /\ OfferOf(p.application) # {} THEN Refuse(s)
     ELSE /\ offer' = [offer EXCEPT ![p.offer] =
                         [status |-> "pending", application |-> p.application]]
          /\ Become(s, Idle)
          /\ UNCHANGED <<post, application, contracts, usage, tracked>>

CommitAnswer(s) ==
  /\ At(s, "answer")
  /\ UNCHANGED clock
  /\ LET p == session[s] IN
       /\ offer' = [offer EXCEPT ![p.offer].status = p.status]
       /\ application' =
            IF p.writeApplication
              THEN [application EXCEPT ![offer[p.offer].application].status =
                      p.status]
              ELSE application
  /\ Become(s, Idle)
  /\ UNCHANGED <<post, contracts, usage, tracked>>

CommitContract(s) ==
  /\ At(s, "contract")
  /\ UNCHANGED clock
  /\ LET o == session[s].offer IN
     IF contracts[o] # 0 THEN Refuse(s)
     ELSE /\ contracts' = [contracts EXCEPT ![o] = @ + 1]
          /\ Become(s, Idle)
          /\ UNCHANGED <<post, application, offer, usage, tracked>>

(* A process dies with its requests: what they have not committed is lost. *)
Killed(s) ==
  /\ "killed" \in Faults
  /\ ~IsIdle(s)
  /\ Become(s, Idle)
  /\ UNCHANGED <<tables, clock>>
=============================================================================
