--------------------------- MODULE HiringPlatform ---------------------------
(***************************************************************************)
(* Hiring: the requests of instructors and studios over the same tables,   *)
(* from the post to the contract.                                          *)
(***************************************************************************)
EXTENDS HiringService

Init ==
  /\ post = [j \in Post |-> NoPost]
  /\ application = [slot \in Slot |-> NoApplication]
  /\ offer = [o \in Offer |-> NoOffer]
  /\ late = {}
  /\ contracts = [o \in Offer |-> 0]
  /\ usage = [u \in User |-> Unused(0)]
  /\ tracked = [row \in User \X (0..LastDay) |-> NothingUsed]
  /\ today = 0
  /\ session = [s \in Session |-> Idle]

PostRequest(s) ==
  \E j \in Post : \/ CreatePost(s, j)
                  \/ \E status \in PostStatus : UpdatePost(s, j, status)
                  \/ DeletePost(s, j)

InstructorRequest(s) ==
  \/ \E j \in Post, i \in Instructor : Apply(s, j, i) \/ Withdraw(s, j, i)
  \/ \E o \in Offer, answer \in {"accepted", "rejected"} : Answer(s, o, answer)

UsageRequest(s) ==
  \E u \in User : UsageStatus(s, u) \/ \E i \in Instructor : ViewProfile(s, u, i)

OfferRequest(s) ==
  \E o \in Offer : \/ CreateContract(s, o)
                   \/ \E slot \in Slot \cup {Direct} : CreateOffer(s, o, slot)

Proceed(s) ==
  \/ CommitUsage(s) \/ CommitReset(s) \/ CommitInsert(s) \/ ReadCount(s)
  \/ CommitWithdraw(s) \/ CommitOffer(s) \/ ReadApplication(s)
  \/ CommitAnswer(s) \/ CommitContract(s)

Next ==
  \/ \E s \in Session : \/ PostRequest(s) \/ InstructorRequest(s)
                        \/ UsageRequest(s) \/ OfferRequest(s)
                        \/ Proceed(s) \/ Killed(s)
  \/ \E o \in Offer : OfferLapses(o)
  \/ NextDay

Spec == Init /\ [][Next]_vars

-----------------------------------------------------------------------------
TypeOK ==
  /\ post \in [Post -> PostRow \cup {NoPost}]
  /\ application \in [Slot -> ApplicationRow \cup {NoApplication}]
  /\ offer \in [Offer -> OfferRow \cup {NoOffer}]
  /\ late \in SUBSET Offer
  /\ contracts \in [Offer -> Nat]
  /\ usage \in [User -> UsageRow]
  /\ tracked \in [User \X (0..LastDay) -> [Counter -> Nat]]
  /\ today \in 0..LastDay
  /\ session \in [Session -> Plan \cup {Idle}]

(***************************************************************************)
(* Properties that hold however requests interleave and processes die.     *)
(***************************************************************************)

(* No application has two offers: OfferService.create looks for one before *)
(* it inserts, two studio requests may both find none, and the unique      *)
(* application_id decides.                                                 *)
OneOfferPerApplication ==
  \A o, q \in Offer :
    /\ offer[o] # NoOffer
    /\ offer[q] # NoOffer
    /\ offer[o].application # Direct
    /\ offer[o].application = offer[q].application
    => o = q

(* No offer has two contracts, whoever asks for one at the same time, and  *)
(* a contract is of an offer somebody has answered.                        *)
OneContractPerOffer ==
  \A o \in Offer :
    /\ contracts[o] <= 1
    /\ contracts[o] = 1 => offer[o] # NoOffer /\ offer[o].status # "pending"

(* application_count never exceeds the applications the post has: updates  *)
(* get lost, but a count that was read is never ahead of what was there.   *)
Applicants(j) == {i \in Instructor : application[<<j, i>>] # NoApplication}
CountOf(j) == IF post[j] = NoPost THEN 0 ELSE post[j].count
CountIsEarned == \A j \in Post : CountOf(j) <= Cardinality(Applicants(j))

(* An application is made once: what became of it is never overwritten by  *)
(* applying again (ApplicationService.create, two clicks).                 *)
NeverAgain ==
  [][\A slot \in Slot : application[slot] # NoApplication =>
       application'[slot] = application[slot]
         \/ application'[slot].status # "pending"]_vars

(***************************************************************************)
(* What makes them inductive: the plans of the requests.                   *)
(***************************************************************************)

HasOffer(o) == offer[o] # NoOffer
Applied(slot) == application[slot] # NoApplication

(* A plan is about rows that exist, or that do not exist yet; only an      *)
(* offer that answers an application goes on to it, and never because its  *)
(* time is over.                                                           *)
Founded(p) ==
  /\ p.at \in {"reread", "answer", "contract"} => HasOffer(p.offer)
  /\ p.at = "contract" => offer[p.offer].status # "pending"
  /\ p.at = "reread" \/ (p.at = "answer" /\ p.writeApplication) =>
       offer[p.offer].application # Direct /\ p.status # "expired"
  /\ p.at \in {"recount", "withdraw"} => Applied(p.slot)
  /\ p.at = "usage" /\ p.counter = "application" => p.slot # NoSlot
  /\ p.at = "offer" =>
       /\ ~HasOffer(p.offer)
       /\ p.application # Direct => Applied(p.application)
PlansFounded == \A s \in Session : Founded(session[s])

(* Offers that are being inserted have ids of their own.                   *)
OffersApart ==
  \A s, r \in Session :
    At(s, "offer") /\ At(r, "offer") /\ session[s].offer = session[r].offer
      => s = r

(* A count that will be written was read from a post that had as many      *)
(* applications.                                                           *)
Counting(p) == \/ p.at = "usage" /\ p.slot # NoSlot
               \/ p.at = "insert"
               \/ p.at = "withdraw" /\ p.count # NoWrite
Earned(p) == Counting(p) => p.count <= Cardinality(Applicants(p.slot[1]))
PlansEarned == \A s \in Session : Earned(session[s])

RowsFounded ==
  /\ \A o \in Offer : HasOffer(o) /\ offer[o].application # Direct =>
       Applied(offer[o].application)
  /\ \A slot \in Slot : Applied(slot) => post[slot[1]] # NoPost

HiringInv ==
  /\ TypeOK
  /\ OneOfferPerApplication
  /\ OneContractPerOffer
  /\ CountIsEarned
  /\ PlansFounded
  /\ OffersApart
  /\ PlansEarned
  /\ RowsFounded

(***************************************************************************)
(* Properties of requests that do not overlap.                             *)
(***************************************************************************)

(* application_count follows the applications: unless an offer is being    *)
(* answered, which may bring back a withdrawn one, the count of a post     *)
(* changes exactly as the number of those not withdrawn.                   *)
Standing(j) == Cardinality({i \in Applicants(j) :
                              application[<<j, i>>].status # "withdrawn"})
CountFollows ==
  [][\A j \in Post : offer' = offer =>
       CountOf(j)' - CountOf(j) = Standing(j)' - Standing(j)]_vars

(* Over any days in a row a free user applies at most Limit times a day,   *)
(* whatever was withdrawn, refused or lost in between, and once more if a  *)
(* midnight comes before them: a request may use up the attempt of one day *)
(* and insert its application on the next (daily_usage.py:94, application. *)
(* py:95).                                                                 *)
AppliedIn(i, first, last) ==
  {j \in Post : application[<<j, i>>] # NoApplication
                  /\ application[<<j, i>>].created \in first..last}
Carried(first) == IF first = 0 THEN 0 ELSE 1
UsageAccounts ==
  \A i \in Instructor \ Premium :
    \A last \in 0..today : \A first \in 0..last :
      Cardinality(AppliedIn(i, first, last)) <=
        Limit * (last - first + 1) + Carried(first)

(* The counters of free users and the rows kept for analytics agree: on    *)
(* the day the counters are of, and after it nothing is used, also while a *)
(* request that began the day before has still to commit.                  *)
TrackedAgrees ==
  \A u \in User \ Premium : \A day \in usage[u].day..LastDay :
    tracked[<<u, day>>] =
      IF day = usage[u].day THEN usage[u].used ELSE NothingUsed

(* The tables implement Recruitment.  An offer is accepted in time if it   *)
(* was when the request looked.                                            *)
Accepting(o) == \E s \in Session : /\ session[s].at \in {"reread", "answer"}
                                   /\ session[s].offer = o
                                   /\ session[s].status = "accepted"
Promise == INSTANCE Recruitment WITH
  posted    <- {j \in Post : post[j] # NoPost},
  open      <- {j \in Post : post[j] # NoPost /\ post[j].status = "open"},
  candidate <- [slot \in Slot |-> application[slot].status],
  proposal  <- [o \in Offer |->
                 [state |-> IF HasOffer(o) THEN offer[o].status ELSE "unmade",
                  for   |-> IF HasOffer(o) THEN offer[o].application ELSE <<>>]],
  lapsed    <- {o \in late : /\ HasOffer(o) /\ offer[o].status = "pending"
                            /\ ~Accepting(o)},
  agreed    <- {o \in Offer : contracts[o] # 0}

RecruitmentSpec == Promise!Spec

(***************************************************************************)
(* What makes the refinement inductive, for requests that do not overlap:  *)
(* a plan rests on what is still so, and offers that lapse were made.      *)
(***************************************************************************)

OneAtATime == \A s, r \in Session : s = r

Ready(slot) == /\ post[slot[1]] # NoPost
               /\ post[slot[1]].status = "open"
               /\ ~Applied(slot)
Waiting(slot) == Applied(slot) /\ application[slot].status = "pending"

Current(p) ==
  /\ p.at = "usage" /\ p.counter = "application" => Ready(p.slot)
  /\ p.at = "insert" => Ready(p.slot)
  /\ p.at \in {"recount", "withdraw"} => Waiting(p.slot)
  /\ p.at = "offer" /\ p.application # Direct =>
       Waiting(p.application) /\ OfferOf(p.application) = {}
  /\ p.at \in {"reread", "answer"} => offer[p.offer].status = "pending"
  /\ p.at = "contract" => offer[p.offer].status = "accepted"
  /\ p.at = "answer" /\ ~p.writeApplication =>
       \/ p.status = "expired"
       \/ offer[p.offer].application = Direct
       \/ application[offer[p.offer].application].status = p.status
PlansCurrent == \A s \in Session : Current(session[s])

LateMade == \A o \in late : HasOffer(o)

SerialInv == HiringInv /\ PlansCurrent /\ LateMade

(***************************************************************************)
(* What makes UsageAccounts, TrackedAgrees and CountFollows inductive for  *)
(* requests that do not overlap: a plan about counters rests on what is in *)
(* the tables, and whoever goes on to an INSERT has been charged for it.   *)
(***************************************************************************)

Spent(u) == IF usage[u].day = today THEN usage[u].used["application"] ELSE 0

(* The counters as the request has read them on the day it looked.         *)
Read(p) == OnDay(p.loaded, p.wanted.day).used

Due(p) ==
  /\ p.at \in {"usage", "reset"} =>
       /\ p.loaded = usage[p.user]
       /\ p.loaded.day <= p.wanted.day
       /\ p.wanted.day <= today
  /\ p.at = "reset" => p.wanted.used = Read(p)
  /\ p.at = "usage" =>
       /\ p.user \notin Premium
       /\ p.seen = tracked[<<p.user, p.wanted.day>>][p.counter]
       /\ Read(p)[p.counter] < Limit
       /\ p.wanted.used = [Read(p) EXCEPT ![p.counter] = @ + 1]
       /\ p.counter = "application" => p.slot[2] = p.user
  /\ p.at = "insert" /\ p.slot[2] \notin Premium => p.seen = NoWrite

(* An attempt of i that is, or will be, charged to a day that is over or   *)
(* charged already, and whose application is still to come.                *)
Carries(p, i) == \/ p.at = "insert" /\ p.slot[2] = i
                 \/ /\ p.at = "usage"
                    /\ p.counter = "application"
                    /\ p.user = i
                    /\ p.wanted.day < today
Carrying(i) == \E s \in Session : Carries(session[s], i)

Accounted(i, first) ==
  Cardinality(AppliedIn(i, first, today)) + (IF Carrying(i) THEN 1 ELSE 0)
    <= Limit * (today - first) + Spent(i) + Carried(first)
Balanced ==
  \A i \in Instructor \ Premium : \A first \in 0..today : Accounted(i, first)

UsageInv ==
  /\ UsageAccounts
  /\ TrackedAgrees
  /\ \A u \in User : usage[u].day <= today
  /\ \A u \in User \ Premium : Spent(u) <= Limit
  /\ \A i \in Instructor, first, last \in 0..LastDay :
       IsFiniteSet(AppliedIn(i, first, last))
  /\ Balanced
  /\ \A slot \in Slot : Applied(slot) => application[slot].created <= today
  /\ \A s \in Session : Due(session[s])

(* The count of a post covers the applications that wait, and is as the    *)
(* request has read it.                                                    *)
Pending(j) == {i \in Instructor : Waiting(<<j, i>>)}
Counted(p) ==
  /\ (p.at = "usage" /\ p.slot # NoSlot) \/ p.at = "insert" =>
       p.count = CountOf(p.slot[1])
  /\ p.at = "withdraw" => p.count + 1 = CountOf(p.slot[1])

TallyInv ==
  /\ \A j \in Post : Cardinality(Pending(j)) <= CountOf(j)
  /\ \A s \in Session : Counted(session[s])
=============================================================================
