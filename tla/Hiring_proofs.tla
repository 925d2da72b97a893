--------------------------- MODULE Hiring_proofs ---------------------------
(***************************************************************************)
(* Proofs about hiring, for any posts, users, offers and requests, any     *)
(* limits, and with processes dying between the commits of a request.      *)
(* While requests do not overlap, its tables implement Recruitment, the    *)
(* count of a post follows its applications and the counters of a day      *)
(* account for them.                                                       *)
(***************************************************************************)
EXTENDS HiringPlatform, FiniteSetTheorems, TLAPS

-----------------------------------------------------------------------------
(* What a request still has to do is of the kind that its step says.       *)
LEMMA PlanKinds ==
  ASSUME NEW s \in Session, session \in [Session -> Plan \cup {Idle}]
  PROVE  /\ At(s, "usage") => session[s] \in UsagePlan
         /\ At(s, "reset") => session[s] \in ResetPlan
         /\ At(s, "insert") => session[s] \in InsertPlan
         /\ At(s, "recount") => session[s] \in RecountPlan
         /\ At(s, "withdraw") => session[s] \in WithdrawPlan
         /\ At(s, "offer") => session[s] \in OfferPlan
         /\ At(s, "reread") \/ At(s, "answer") => session[s] \in AnswerPlan
         /\ At(s, "contract") => session[s] \in ContractPlan
<1>1. PICK p \in Plan \cup {Idle} : p = session[s]
  OBVIOUS
<1>2. \A q \in UsagePlan : q.at = "usage"
  BY DEF UsagePlan
<1>3. \A q \in ResetPlan : q.at = "reset"
  BY DEF ResetPlan
<1>4. \A q \in InsertPlan : q.at = "insert"
  BY DEF InsertPlan
<1>5. \A q \in RecountPlan : q.at = "recount"
  BY DEF RecountPlan
<1>6. \A q \in WithdrawPlan : q.at = "withdraw"
  BY DEF WithdrawPlan
<1>7. \A q \in OfferPlan : q.at = "offer"
  BY DEF OfferPlan
<1>8. \A q \in AnswerPlan : q.at \in {"reread", "answer"}
  BY DEF AnswerPlan
<1>9. \A q \in ContractPlan : q.at = "contract"
  BY DEF ContractPlan
<1>10. Idle.at = "idle"
  BY DEF Idle
<1> QED BY <1>1, <1>2, <1>3, <1>4, <1>5, <1>6, <1>7, <1>8, <1>9, <1>10
        DEF At, Plan

(* A request becomes one with a plan, or ends.                             *)
LEMMA BecomeType ==
  ASSUME NEW s \in Session, session \in [Session -> Plan \cup {Idle}],
         NEW plan \in Plan \cup {Idle}, Become(s, plan)
  PROVE  session' \in [Session -> Plan \cup {Idle}]
BY DEF Become

(* Rows that are there have columns.                                       *)
LEMMA Rows ==
  ASSUME TypeOK
  PROVE  /\ \A j \in Post : post[j] # NoPost => post[j] \in PostRow
         /\ \A o \in Offer : HasOffer(o) => offer[o] \in OfferRow
         /\ \A slot \in Slot : Applied(slot) => application[slot] \in ApplicationRow
BY DEF TypeOK, HasOffer, Applied

(* The counters of a day that has begun are counters.                      *)
LEMMA UsageTypes ==
  ASSUME TypeOK, NEW u \in User
  PROVE  /\ usage[u] \in UsageRow
         /\ Refreshed(u) \in UsageRow
         /\ \A c \in Counter : /\ Charged(u, c) \in UsageRow
                               /\ tracked[<<u, today>>][c] \in Nat
         /\ \A loaded, wanted \in UsageRow :
              Merge(usage[u], loaded, wanted) \in UsageRow
<1>1. usage[u] \in UsageRow /\ today \in 0..LastDay
  BY DEF TypeOK
<1>2. NothingUsed \in [Counter -> Nat]
  BY DEF NothingUsed
<1>3. Unused(today) \in UsageRow
  BY <1>1, <1>2 DEF Unused, UsageRow
<1>4. Refreshed(u) \in UsageRow
  BY <1>1, <1>3 DEF Refreshed, OnDay
<1>5. \A row \in UsageRow : \A c \in Counter :
        [row EXCEPT !.used[c] = @ + 1] \in UsageRow
  BY DEF UsageRow
<1>6. \A c \in Counter : Charged(u, c) \in UsageRow
  BY <1>4, <1>5 DEF Charged
<1>7. ASSUME NEW loaded \in UsageRow, NEW wanted \in UsageRow
      PROVE  Merge(usage[u], loaded, wanted) \in UsageRow
  BY <1>1 DEF Merge, UsageRow
<1>8. \A c \in Counter : tracked[<<u, today>>][c] \in Nat
  BY <1>1 DEF TypeOK
<1> QED BY <1>1, <1>4, <1>6, <1>7, <1>8

(* Counting a use keeps the rows for analytics.                            *)
LEMMA TrackType ==
  ASSUME TypeOK, NEW u \in User, NEW day \in 0..LastDay, NEW c \in Counter,
         NEW seen \in Nat, Track(u, day, c, seen)
  PROVE  tracked' \in [User \X (0..LastDay) -> [Counter -> Nat]]
BY DEF TypeOK, Track

-----------------------------------------------------------------------------
(* Types.                                                                  *)

(* A request that only goes on with a plan keeps the types.                *)
LEMMA PlanningType ==
  ASSUME TypeOK, NEW s \in Session, NEW plan \in Plan \cup {Idle},
         Become(s, plan), UNCHANGED <<tables, clock>>
  PROVE  TypeOK'
BY BecomeType DEF TypeOK, tables, clock

(* The studio's requests about a post keep the types.                      *)
LEMMA PostType ==
  ASSUME TypeOK, NEW s \in Session, PostRequest(s)
  PROVE  TypeOK'
<1> PICK j \in Post : \/ CreatePost(s, j)
                      \/ \E status \in PostStatus : UpdatePost(s, j, status)
                      \/ DeletePost(s, j)
  BY DEF PostRequest
<1>1. CASE CreatePost(s, j)
  <2>1. [status |-> "open", count |-> 0] \in PostRow
    BY DEF PostRow, PostStatus
  <2> QED BY <1>1, <2>1 DEF CreatePost, TypeOK, clock
<1>2. ASSUME NEW status \in PostStatus, UpdatePost(s, j, status)
      PROVE  TypeOK'
  <2>1. [post[j] EXCEPT !.status = status] \in PostRow
    BY <1>2, Rows DEF UpdatePost, PostRow
  <2> QED BY <1>2, <2>1 DEF UpdatePost, TypeOK, clock
<1>3. CASE DeletePost(s, j)
  BY <1>3 DEF DeletePost, TypeOK, clock
<1> QED BY <1>1, <1>2, <1>3

(* A request that begins has a plan.                                       *)
LEMMA BeginType ==
  ASSUME TypeOK, NEW s \in Session,
         InstructorRequest(s) \/ UsageRequest(s) \/ OfferRequest(s)
  PROVE  TypeOK'
<1>0. "application" \in Counter /\ "profile_view" \in Counter
  BY DEF Counter
<1>1. ASSUME NEW j \in Post, NEW i \in Instructor, Apply(s, j, i)
      PROVE  TypeOK'
  <2>1. <<j, i>> \in Slot /\ i \in User
    BY DEF Slot, User
  <2>2. post[j].count \in Nat
    BY <1>1, Rows DEF Apply, PostRow
  <2>3. ToUse(i, "application", Charged(i, "application"), <<j, i>>,
              post[j].count) \in Plan
    BY <1>0, <2>1, <2>2, UsageTypes DEF ToUse, UsagePlan, Plan
  <2>4. [at |-> "insert", slot |-> <<j, i>>, count |-> post[j].count,
         seen |-> tracked[<<i, today>>]["application"], day |-> today] \in Plan
    <3>1. tracked[<<i, today>>]["application"] \in Nat /\ today \in 0..LastDay
      BY <1>0, <2>1, UsageTypes DEF TypeOK
    <3> QED BY <2>1, <2>2, <3>1 DEF InsertPlan, Plan
  <2> QED BY <1>1, <2>3, <2>4, PlanningType DEF Apply, Begin
<1>2. ASSUME NEW j \in Post, NEW i \in Instructor, Withdraw(s, j, i)
      PROVE  TypeOK'
  <2>1. [at |-> "recount", slot |-> <<j, i>>] \in Plan
    BY DEF RecountPlan, Plan, Slot
  <2> QED BY <1>2, <2>1, PlanningType DEF Withdraw, Begin
<1>3. ASSUME NEW o \in Offer, NEW answer \in {"accepted", "rejected"},
             Answer(s, o, answer)
      PROVE  TypeOK'
  <2>1. \A at \in {"reread", "answer"} :
        \A status \in {"accepted", "rejected", "expired"} :
          [at |-> at, offer |-> o, status |-> status,
           writeApplication |-> FALSE] \in Plan
    BY DEF AnswerPlan, Plan, OfferStatus
  <2> QED BY <1>3, <2>1, PlanningType DEF Answer, Begin
<1>4. ASSUME NEW u \in User, UsageStatus(s, u)
      PROVE  TypeOK'
  <2>1. [at |-> "reset", user |-> u, loaded |-> usage[u],
         wanted |-> Refreshed(u)] \in Plan
    BY UsageTypes DEF ResetPlan, Plan
  <2> QED BY <1>4, <2>1, PlanningType DEF UsageStatus, Begin
<1>5. ASSUME NEW u \in User, NEW i \in Instructor, ViewProfile(s, u, i)
      PROVE  TypeOK'
  <2> DEFINE charged == Charged(u, "profile_view")
             wanted == [charged EXCEPT !.viewed = IF @ = {} THEN {i} ELSE @]
  <2>1. charged \in UsageRow
    BY <1>0, UsageTypes
  <2>2. wanted \in UsageRow
    <3> HIDE DEF charged
    <3> QED BY <2>1 DEF UsageRow
  <2>3. ToUse(u, "profile_view", wanted, NoSlot, 0) \in Plan
    <3> HIDE DEF wanted
    <3> QED BY <1>0, <2>2, UsageTypes DEF ToUse, UsagePlan, Plan
  <2> QED BY <1>5, <2>3, PlanningType DEF ViewProfile, Begin
<1>6. ASSUME NEW o \in Offer, NEW slot \in Slot \cup {Direct},
             CreateOffer(s, o, slot)
      PROVE  TypeOK'
  <2>1. [at |-> "offer", offer |-> o, application |-> slot] \in Plan
    BY DEF OfferPlan, Plan
  <2> QED BY <1>6, <2>1, PlanningType DEF CreateOffer, Begin
<1>7. ASSUME NEW o \in Offer, CreateContract(s, o)
      PROVE  TypeOK'
  <2>1. [at |-> "contract", offer |-> o] \in Plan
    BY DEF ContractPlan, Plan
  <2> QED BY <1>7, <2>1, PlanningType DEF CreateContract, Begin
<1> QED BY <1>1, <1>2, <1>3, <1>4, <1>5, <1>6, <1>7
        DEF InstructorRequest, UsageRequest, OfferRequest

(* A refused transaction keeps the types.                                  *)
LEMMA RefuseType ==
  ASSUME TypeOK, NEW s \in Session, Refuse(s), UNCHANGED clock
  PROVE  TypeOK'
BY PlanningType DEF Refuse

(* The transactions of the counters keep the types.                        *)
LEMMA UsageCommitType ==
  ASSUME TypeOK, NEW s \in Session, Founded(session[s]), CommitUsage(s) \/ CommitReset(s)
  PROVE  TypeOK'
<1> DEFINE p == session[s]
<1>1. CASE CommitUsage(s)
  <2>1. p \in UsagePlan
    BY <1>1, PlanKinds DEF CommitUsage, TypeOK
  <2>2. /\ p.user \in User /\ p.loaded \in UsageRow /\ p.wanted \in UsageRow
        /\ p.counter \in Counter /\ p.seen \in Nat /\ p.count \in Nat
        /\ p.slot \in Slot \cup {NoSlot}
    BY <2>1 DEF UsagePlan
  <2>3. CASE ~Trackable(p.user, p.wanted.day, p.counter, p.seen)
    BY <1>1, <2>3, RefuseType DEF CommitUsage
  <2>4. CASE Trackable(p.user, p.wanted.day, p.counter, p.seen)
    <3>1. usage' \in [User -> UsageRow]
      <4>1. usage' = [usage EXCEPT ![p.user] = Merge(usage[p.user], p.loaded, p.wanted)]
        BY <1>1, <2>4 DEF CommitUsage
      <4>2. Merge(usage[p.user], p.loaded, p.wanted) \in UsageRow
        BY <2>2, UsageTypes
      <4> QED BY <4>1, <4>2 DEF TypeOK
    <3>2. tracked' \in [User \X (0..LastDay) -> [Counter -> Nat]]
      <4>1. Track(p.user, p.wanted.day, p.counter, p.seen)
        BY <1>1, <2>4 DEF CommitUsage
      <4>2. p.wanted.day \in 0..LastDay
        BY <2>2 DEF UsageRow
      <4> QED BY <2>2, <4>1, <4>2, TrackType
    <3>3. session' \in [Session -> Plan \cup {Idle}]
      <4>1. CASE p.counter = "profile_view"
        BY <1>1, <2>4, <4>1, BecomeType DEF CommitUsage, TypeOK
      <4>2. CASE p.counter # "profile_view"
        <5>1. p.counter = "application" /\ p.at = "usage"
          BY <1>1, <2>2, <4>2 DEF Counter, CommitUsage, At
        <5>2. p.slot \in Slot
          BY <2>2, <5>1 DEF Founded
        <5>3. [at |-> "insert", slot |-> p.slot, count |-> p.count,
               seen |-> NoWrite, day |-> p.wanted.day] \in Plan
          BY <2>2, <5>2 DEF InsertPlan, Plan, UsageRow
        <5> QED BY <1>1, <2>4, <4>2, <5>3, BecomeType DEF CommitUsage, TypeOK
      <4> QED BY <4>1, <4>2
    <3> QED BY <1>1, <2>4, <3>1, <3>2, <3>3 DEF CommitUsage, TypeOK, clock
  <2> QED BY <2>3, <2>4
<1>2. CASE CommitReset(s)
  <2>1. p \in ResetPlan
    BY <1>2, PlanKinds DEF CommitReset, TypeOK
  <2>2. p.user \in User /\ p.loaded \in UsageRow /\ p.wanted \in UsageRow
    BY <2>1 DEF ResetPlan
  <2>3. usage' = [usage EXCEPT ![p.user] = Merge(usage[p.user], p.loaded, p.wanted)]
    BY <1>2 DEF CommitReset
  <2>4. Merge(usage[p.user], p.loaded, p.wanted) \in UsageRow
    BY <2>2, UsageTypes
  <2>5. usage' \in [User -> UsageRow]
    BY <2>3, <2>4 DEF TypeOK
  <2> QED BY <1>2, <2>5, BecomeType DEF CommitReset, TypeOK, clock
<1> QED BY <1>1, <1>2

(* What an insertion that is not refused does.                             *)
LEMMA Inserted ==
  ASSUME TypeOK, NEW s \in Session, CommitInsert(s)
  PROVE  \/ Refuse(s)
         \/ \E j \in Post, i \in Instructor :
              /\ session[s].slot = <<j, i>>
              /\ <<j, i>> \in Slot
              /\ session[s].count \in Nat /\ session[s].day \in 0..LastDay
              /\ ~Applied(<<j, i>>)
              /\ post[j] \in PostRow
              /\ application' = [application EXCEPT ![<<j, i>>] =
                                   [status |-> "pending", created |-> today]]
              /\ post' = [post EXCEPT ![j].count = session[s].count + 1]
              /\ \/ UNCHANGED tracked
                 \/ /\ session[s].seen \in Nat
                    /\ Track(i, session[s].day, "application", session[s].seen)
              /\ Become(s, Idle)
              /\ UNCHANGED <<offer, contracts, usage>>
<1> DEFINE p == session[s]
<1>1. p \in InsertPlan
  BY PlanKinds DEF CommitInsert, TypeOK
<1>2. /\ p.slot \in Slot /\ p.count \in Nat
      /\ p.seen \in Nat \cup {NoWrite} /\ p.day \in 0..LastDay
  BY <1>1 DEF InsertPlan
<1>3. PICK j \in Post, i \in Instructor : p.slot = <<j, i>>
  BY <1>2 DEF Slot
<1>4. p.slot[1] = j /\ p.slot[2] = i
  BY <1>3
<1>5. CASE ~Refuse(s)
  <2>1. /\ application[p.slot] = NoApplication
        /\ post[p.slot[1]] # NoPost
        /\ application' = [application EXCEPT ![p.slot] =
                             [status |-> "pending", created |-> today]]
        /\ post' = [post EXCEPT ![p.slot[1]].count = p.count + 1]
        /\ IF p.seen = NoWrite THEN UNCHANGED tracked
           ELSE Track(p.slot[2], p.day, "application", p.seen)
        /\ Become(s, Idle)
        /\ UNCHANGED <<offer, contracts, usage>>
    BY <1>5 DEF CommitInsert
  <2>2. post[j] \in PostRow
    BY <1>4, <2>1, Rows
  <2>3. UNCHANGED tracked \/ (p.seen \in Nat /\ Track(i, p.day, "application", p.seen))
    BY <1>2, <1>4, <2>1
  <2> QED BY <1>2, <1>3, <1>4, <2>1, <2>2, <2>3 DEF Applied
<1> QED BY <1>5

(* An insertion keeps the types.                                           *)
LEMMA InsertType ==
  ASSUME TypeOK, NEW s \in Session, CommitInsert(s)
  PROVE  TypeOK'
<1>1. CASE Refuse(s)
  BY <1>1, RefuseType DEF CommitInsert
<1>2. CASE ~Refuse(s)
  <2>1. PICK j \in Post, i \in Instructor :
              /\ session[s].count \in Nat /\ session[s].day \in 0..LastDay
              /\ <<j, i>> \in Slot
              /\ post[j] \in PostRow
              /\ application' = [application EXCEPT ![<<j, i>>] =
                                   [status |-> "pending", created |-> today]]
              /\ post' = [post EXCEPT ![j].count = session[s].count + 1]
              /\ \/ UNCHANGED tracked
                 \/ /\ session[s].seen \in Nat
                    /\ Track(i, session[s].day, "application", session[s].seen)
              /\ Become(s, Idle)
              /\ UNCHANGED <<offer, contracts, usage>>
    BY <1>2, Inserted
  <2>2. [status |-> "pending", created |-> today] \in ApplicationRow
    BY DEF ApplicationRow, ApplicationStatus, TypeOK
  <2>3. [post[j] EXCEPT !.count = session[s].count + 1] \in PostRow
    BY <2>1 DEF PostRow
  <2>4. i \in User /\ "application" \in Counter
    BY DEF User, Counter
  <2>5. tracked' \in [User \X (0..LastDay) -> [Counter -> Nat]]
    BY <2>1, <2>4, TrackType DEF TypeOK
  <2>6. session' \in [Session -> Plan \cup {Idle}]
    BY <2>1, BecomeType DEF TypeOK
  <2>7. application' \in [Slot -> ApplicationRow \cup {NoApplication}]
    BY <2>1, <2>2 DEF TypeOK
  <2>8. post' \in [Post -> PostRow \cup {NoPost}]
    BY <2>1, <2>3 DEF TypeOK
  <2> QED BY <2>1, <2>5, <2>6, <2>7, <2>8 DEF CommitInsert, TypeOK, clock
<1> QED BY <1>1, <1>2

(* Withdrawing keeps the types: the application and its post are there.    *)
LEMMA WithdrawType ==
  ASSUME TypeOK, RowsFounded, NEW s \in Session, Founded(session[s]),
         ReadCount(s) \/ CommitWithdraw(s)
  PROVE  TypeOK'
<1> DEFINE p == session[s]
<1>1. CASE ReadCount(s)
  <2>1. p \in RecountPlan /\ p.at = "recount"
    BY <1>1, PlanKinds DEF ReadCount, TypeOK, At
  <2>2. p.slot \in Slot /\ Applied(p.slot)
    BY <2>1 DEF RecountPlan, Founded
  <2>3. post[p.slot[1]] \in PostRow
    BY <2>2, Rows DEF RowsFounded, Slot
  <2>4. post[p.slot[1]].count \in Nat
    BY <2>3 DEF PostRow
  <2>5. \A n \in Nat : (IF n > 0 THEN n - 1 ELSE NoWrite) \in Nat \cup {NoWrite}
    OBVIOUS
  <2>6. \A n \in Nat \cup {NoWrite} :
          [at |-> "withdraw", slot |-> p.slot, count |-> n] \in Plan
    BY <2>2 DEF WithdrawPlan, Plan
  <2> QED BY <1>1, <2>4, <2>5, <2>6, PlanningType DEF ReadCount
<1>2. CASE CommitWithdraw(s)
  <2>1. p \in WithdrawPlan /\ p.at = "withdraw"
    BY <1>2, PlanKinds DEF CommitWithdraw, TypeOK, At
  <2>2. p.slot \in Slot /\ Applied(p.slot) /\ p.count \in Nat \cup {NoWrite}
    BY <2>1 DEF WithdrawPlan, Founded
  <2>3. post[p.slot[1]] \in PostRow /\ p.slot[1] \in Post
    BY <2>2, Rows DEF RowsFounded, Slot
  <2>4. [application[p.slot] EXCEPT !.status = "withdrawn"] \in ApplicationRow
    BY <2>2, Rows DEF ApplicationRow, ApplicationStatus
  <2>5. application' \in [Slot -> ApplicationRow \cup {NoApplication}]
    BY <1>2, <2>2, <2>4 DEF CommitWithdraw, TypeOK
  <2>6. p.count \in Nat => [post[p.slot[1]] EXCEPT !.count = p.count] \in PostRow
    BY <2>3 DEF PostRow
  <2>7. post' \in [Post -> PostRow \cup {NoPost}]
    BY <1>2, <2>2, <2>3, <2>6 DEF CommitWithdraw, TypeOK
  <2> QED BY <1>2, <2>5, <2>7, BecomeType DEF CommitWithdraw, TypeOK, clock
<1> QED BY <1>1, <1>2

(* What an answer does to its offer and to the application of the offer.   *)
LEMMA Answered ==
  ASSUME TypeOK, RowsFounded, NEW s \in Session, Founded(session[s]),
         CommitAnswer(s)
  PROVE  \E o \in Offer, status \in OfferStatus \ {"pending"} :
           /\ offer[o] \in OfferRow /\ HasOffer(o)
           /\ offer' = [offer EXCEPT ![o].status = status]
           /\ \/ UNCHANGED application
              \/ /\ offer[o].application \in Slot
                 /\ Applied(offer[o].application)
                 /\ status \in {"accepted", "rejected"}
                 /\ application' = [application EXCEPT
                                      ![offer[o].application].status = status]
<1> DEFINE p == session[s]
<1>1. p \in AnswerPlan /\ p.at = "answer"
  BY PlanKinds DEF CommitAnswer, TypeOK, At
<1>2. /\ p.offer \in Offer /\ p.status \in OfferStatus \ {"pending"}
      /\ p.writeApplication \in BOOLEAN
  BY <1>1 DEF AnswerPlan
<1>3. HasOffer(p.offer) /\ offer[p.offer] \in OfferRow
  BY <1>1, <1>2, Rows DEF Founded
<1>4. offer' = [offer EXCEPT ![p.offer].status = p.status]
  BY DEF CommitAnswer
<1>5. CASE ~p.writeApplication
  <2>1. application' = application
    BY <1>5 DEF CommitAnswer
  <2> QED BY <1>2, <1>3, <1>4, <2>1
<1>6. CASE p.writeApplication
  <2>1. application' = [application EXCEPT ![offer[p.offer].application].status =
                          p.status]
    BY <1>6 DEF CommitAnswer
  <2>2. offer[p.offer].application # Direct /\ p.status # "expired"
    BY <1>1, <1>6 DEF Founded
  <2>3. offer[p.offer].application \in Slot
    BY <1>3, <2>2 DEF OfferRow
  <2>4. Applied(offer[p.offer].application)
    BY <1>2, <1>3, <2>2 DEF RowsFounded
  <2>5. p.status \in {"accepted", "rejected"}
    BY <1>2, <2>2 DEF OfferStatus
  <2> QED BY <1>2, <1>3, <1>4, <2>1, <2>3, <2>4, <2>5
<1> QED BY <1>5, <1>6

(* The transactions of offers and contracts keep the types.                *)
LEMMA OfferCommitType ==
  ASSUME TypeOK, RowsFounded, NEW s \in Session, Founded(session[s]),
         \/ CommitOffer(s) \/ ReadApplication(s) \/ CommitAnswer(s)
         \/ CommitContract(s)
  PROVE  TypeOK'
<1> DEFINE p == session[s]
<1>1. CASE CommitOffer(s)
  <2>1. p \in OfferPlan
    BY <1>1, PlanKinds DEF CommitOffer, TypeOK
  <2>2. p.offer \in Offer /\ p.application \in Slot \cup {Direct}
    BY <2>1 DEF OfferPlan
  <2>3. [status |-> "pending", application |-> p.application] \in OfferRow
    BY <2>2 DEF OfferRow, OfferStatus
  <2>4. CASE Refuse(s)
    BY <1>1, <2>4, RefuseType DEF CommitOffer
  <2>5. CASE ~Refuse(s)
    <3>1. /\ offer' = [offer EXCEPT ![p.offer] =
                         [status |-> "pending", application |-> p.application]]
          /\ Become(s, Idle)
          /\ UNCHANGED <<post, application, contracts, usage, tracked, clock>>
      BY <1>1, <2>5 DEF CommitOffer
    <3>2. offer' \in [Offer -> OfferRow \cup {NoOffer}]
      BY <2>2, <2>3, <3>1 DEF TypeOK
    <3> QED BY <3>1, <3>2, BecomeType DEF TypeOK, clock
  <2> QED BY <2>4, <2>5
<1>2. CASE ReadApplication(s)
  <2>1. p \in AnswerPlan
    BY <1>2, PlanKinds DEF ReadApplication, TypeOK
  <2>2. \A written \in BOOLEAN :
          [p EXCEPT !.at = "answer", !.writeApplication = written] \in Plan
    BY <2>1 DEF AnswerPlan, Plan
  <2>3. (application[offer[p.offer].application].status # p.status) \in BOOLEAN
    OBVIOUS
  <2>4. PICK written \in BOOLEAN :
          Become(s, [p EXCEPT !.at = "answer", !.writeApplication = written])
    BY <1>2, <2>3 DEF ReadApplication
  <2> QED BY <1>2, <2>2, <2>4, PlanningType DEF ReadApplication
<1>3. CASE CommitAnswer(s)
  <2>1. PICK o \in Offer, status \in OfferStatus \ {"pending"} :
           /\ offer[o] \in OfferRow /\ HasOffer(o)
           /\ offer' = [offer EXCEPT ![o].status = status]
           /\ \/ UNCHANGED application
              \/ /\ offer[o].application \in Slot
                 /\ Applied(offer[o].application)
                 /\ status \in {"accepted", "rejected"}
                 /\ application' = [application EXCEPT
                                      ![offer[o].application].status = status]
    BY <1>3, Answered
  <2>2. [offer[o] EXCEPT !.status = status] \in OfferRow
    BY <2>1 DEF OfferRow
  <2>3. offer' \in [Offer -> OfferRow \cup {NoOffer}]
    BY <2>1, <2>2 DEF TypeOK
  <2>4. \A slot \in Slot : Applied(slot) /\ status \in {"accepted", "rejected"} =>
          [application[slot] EXCEPT !.status = status] \in ApplicationRow
    BY Rows DEF ApplicationRow, ApplicationStatus
  <2>5. application' \in [Slot -> ApplicationRow \cup {NoApplication}]
    BY <2>1, <2>4 DEF TypeOK
  <2> QED BY <1>3, <2>3, <2>5, BecomeType DEF CommitAnswer, TypeOK, clock
<1>4. CASE CommitContract(s)
  <2>1. CASE Refuse(s)
    BY <1>4, <2>1, RefuseType DEF CommitContract
  <2>2. CASE ~Refuse(s)
    <3>1. contracts' \in [Offer -> Nat]
      BY <1>4, <2>2 DEF CommitContract, TypeOK
    <3> QED BY <1>4, <2>2, <3>1, BecomeType DEF CommitContract, TypeOK, clock
  <2> QED BY <2>1, <2>2
<1> QED BY <1>1, <1>2, <1>3, <1>4

(* Every step keeps the types, as long as plans are about rows.            *)
LEMMA NextType == TypeOK /\ PlansFounded /\ RowsFounded /\ [Next]_vars => TypeOK'
<1> SUFFICES ASSUME TypeOK, PlansFounded, RowsFounded, [Next]_vars
             PROVE  TypeOK'
  OBVIOUS
<1>1. CASE UNCHANGED vars
  BY <1>1 DEF TypeOK, vars, tables, clock
<1>2. ASSUME NEW s \in Session, Proceed(s) PROVE TypeOK'
  <2>1. Founded(session[s])
    BY DEF PlansFounded
  <2> QED BY <1>2, <2>1, UsageCommitType, InsertType, WithdrawType, OfferCommitType
          DEF Proceed
<1>3. ASSUME NEW s \in Session, Killed(s) PROVE TypeOK'
  BY <1>3, PlanningType DEF Killed
<1>4. ASSUME NEW o \in Offer, OfferLapses(o) PROVE TypeOK'
  BY <1>4 DEF OfferLapses, TypeOK, tables
<1>5. CASE NextDay
  <2>1. today' \in 0..LastDay
    BY <1>5, HiringAssumption DEF NextDay, TypeOK
  <2> QED BY <1>5, <2>1 DEF NextDay, TypeOK, tables
<1> QED BY <1>1, <1>2, <1>3, <1>4, <1>5, PostType, BeginType DEF Next

-----------------------------------------------------------------------------
(* How many have applied to a post.                                        *)

(* Applicants are instructors, and these are finitely many.                *)
LEMMA ApplicantsFinite ==
  ASSUME NEW j
  PROVE  /\ IsFiniteSet(Applicants(j))
         /\ Cardinality(Applicants(j)) \in Nat
         /\ IsFiniteSet(Applicants(j)')
         /\ Cardinality(Applicants(j)') \in Nat
<1>1. Applicants(j) \in SUBSET Instructor /\ Applicants(j)' \in SUBSET Instructor
  BY DEF Applicants
<1> QED BY <1>1, HiringAssumption, FS_Subset, FS_CardinalityType

(* Applications stay: a post does not lose applicants.                     *)
Staying == \A slot \in Slot : Applied(slot) => Applied(slot)'
(* The number of a post's applicants never falls.                          *)
LEMMA ApplicantsStay ==
  ASSUME Staying, NEW j \in Post
  PROVE  Cardinality(Applicants(j)) <= Cardinality(Applicants(j)')
<1>1. \A i \in Instructor : <<j, i>> \in Slot
  BY DEF Slot
<1>2. Applicants(j) \in SUBSET Applicants(j)'
  BY <1>1 DEF Applicants, Applied, Staying
<1> QED BY <1>2, ApplicantsFinite, FS_Subset

(* An instructor's first application to a post is one more.                *)
LEMMA OneMoreApplicant ==
  ASSUME Staying, NEW j \in Post, NEW i \in Instructor,
         ~Applied(<<j, i>>), Applied(<<j, i>>)'
  PROVE  Cardinality(Applicants(j)) + 1 <= Cardinality(Applicants(j)')
<1>1. \A k \in Instructor : <<j, k>> \in Slot
  BY DEF Slot
<1>2. i \notin Applicants(j) /\ i \in Applicants(j)'
  BY DEF Applicants, Applied
<1>3. Applicants(j) \cup {i} \in SUBSET Applicants(j)'
  BY <1>1, <1>2 DEF Applicants, Applied, Staying
<1>4. Cardinality(Applicants(j) \cup {i}) = Cardinality(Applicants(j)) + 1
  BY <1>2, ApplicantsFinite, FS_AddElement
<1> QED BY <1>3, <1>4, ApplicantsFinite, FS_Subset

-----------------------------------------------------------------------------
(* Plans stay founded and earned.                                          *)

(* Offers stay, answer what they answered and do not become pending again. *)
Kept(o) == HasOffer(o) => /\ HasOffer(o)'
                          /\ offer'[o].application = offer[o].application
                          /\ offer[o].status # "pending" => offer'[o].status # "pending"

(* The offers a plan names, and the slots, are of their types.             *)
LEMMA PlanParts ==
  ASSUME NEW p \in Plan \cup {Idle}
  PROVE  /\ p.at \in {"reread", "answer", "contract", "offer"} => p.offer \in Offer
         /\ p.at \in {"recount", "withdraw", "insert"} => p.slot \in Slot
         /\ p.at = "usage" => p.slot \in Slot \cup {NoSlot}
         /\ p.at = "offer" => p.application \in Slot \cup {Direct}
         /\ Counting(p) => /\ p.count \in Nat
                           /\ p.slot \in Slot
                           /\ p.slot[1] \in Post
<1>1. CASE p \in UsagePlan
  BY <1>1 DEF UsagePlan, Counting, Slot
<1>2. CASE p \in ResetPlan
  BY <1>2 DEF ResetPlan, Counting
<1>3. CASE p \in InsertPlan
  BY <1>3 DEF InsertPlan, Counting, Slot
<1>4. CASE p \in RecountPlan
  BY <1>4 DEF RecountPlan, Counting
<1>5. CASE p \in WithdrawPlan
  BY <1>5 DEF WithdrawPlan, Counting, Slot
<1>6. CASE p \in OfferPlan
  BY <1>6 DEF OfferPlan, Counting
<1>7. CASE p \in AnswerPlan
  BY <1>7 DEF AnswerPlan, Counting
<1>8. CASE p \in ContractPlan
  BY <1>8 DEF ContractPlan, Counting
<1>9. CASE p = Idle
  BY <1>9 DEF Idle, Counting
<1> QED BY <1>1, <1>2, <1>3, <1>4, <1>5, <1>6, <1>7, <1>8, <1>9 DEF Plan

(* Rows that stay keep a plan founded, unless the offer it will insert has *)
(* been inserted.                                                          *)
LEMMA StaysFounded ==
  ASSUME Staying, \A o \in Offer : Kept(o)
  PROVE  \A p \in Plan \cup {Idle} :
           /\ Founded(p)
           /\ p.at = "offer" => ~HasOffer(p.offer)'
           => Founded(p)'
<1> SUFFICES ASSUME NEW p \in Plan \cup {Idle}, Founded(p),
                    p.at = "offer" => ~HasOffer(p.offer)'
             PROVE  Founded(p)'
  OBVIOUS
<1>1. p.at \in {"reread", "answer", "contract", "offer"} => p.offer \in Offer
  BY PlanParts
<1>2. p.at \in {"recount", "withdraw"} => p.slot \in Slot
  BY PlanParts
<1>3. p.at = "offer" => p.application \in Slot \cup {Direct}
  BY PlanParts
<1> QED BY <1>1, <1>2, <1>3 DEF Founded, Kept, Staying

(* A post that keeps its applicants keeps the counts that were read.       *)
LEMMA StaysEarned ==
  ASSUME Staying
  PROVE  \A p \in Plan \cup {Idle} : Earned(p) => Earned(p)'
<1> SUFFICES ASSUME NEW p \in Plan \cup {Idle}, Earned(p), Counting(p)
             PROVE  p.count <= Cardinality(Applicants(p.slot[1])')
  BY DEF Earned, Counting
<1> DEFINE j == p.slot[1]
<1>1. p.count \in Nat /\ j \in Post
  BY PlanParts
<1>2. p.count <= Cardinality(Applicants(j))
  BY DEF Earned
<1>3. Cardinality(Applicants(j)) <= Cardinality(Applicants(j)')
  BY <1>1, ApplicantsStay
<1> HIDE DEF j
<1>4. p.count <= Cardinality(Applicants(j)')
  BY <1>1, <1>2, <1>3, ApplicantsFinite
<1> QED BY <1>4 DEF j

(* A request goes on, and the rows stay: the plans of all are still        *)
(* founded and earned.                                                     *)
LEMMA PlansKept ==
  ASSUME TypeOK, PlansFounded, PlansEarned, OffersApart,
         NEW s \in Session, NEW plan \in Plan \cup {Idle}, Become(s, plan),
         Staying, \A o \in Offer : Kept(o),
         Founded(plan)', Earned(plan)', plan.at # "offer",
         \A r \in Session \ {s} : At(r, "offer") => offer'[session[r].offer] = NoOffer
  PROVE  PlansFounded' /\ PlansEarned' /\ OffersApart'
<1>1. /\ session'[s] = plan
      /\ \A r \in Session : r # s => session'[r] = session[r]
  BY DEF Become, TypeOK
<1>2. ASSUME NEW r \in Session
      PROVE  Founded(session[r])' /\ Earned(session[r])'
  <2>1. CASE r = s
    BY <1>1, <2>1 DEF Founded, Earned, Counting
  <2>2. CASE r # s
    <3>1. PICK p \in Plan \cup {Idle} : p = session[r]
      BY DEF TypeOK
    <3>2. p = session'[r]
      BY <1>1, <2>2, <3>1
    <3>3. Founded(p) /\ Earned(p)
      BY <3>1 DEF PlansFounded, PlansEarned
    <3>4. p.at = "offer" => ~HasOffer(p.offer)'
      BY <2>2, <3>1, <3>2 DEF At, HasOffer
    <3>5. Founded(p)' /\ Earned(p)'
      BY <3>3, <3>4, StaysFounded, StaysEarned
    <3> QED BY <3>2, <3>5 DEF Founded, Earned, Counting
  <2> QED BY <2>1, <2>2
<1>3. OffersApart'
  BY <1>1 DEF OffersApart, At
<1> QED BY <1>2, <1>3 DEF PlansFounded, PlansEarned

(* What the tables alone promise.                                          *)
RowsInv == /\ OneOfferPerApplication
           /\ OneContractPerOffer
           /\ CountIsEarned
           /\ RowsFounded
PlansInv == PlansFounded /\ PlansEarned /\ OffersApart

(* Steps that leave posts, applications, offers and contracts alone.       *)
LEMMA SameRows ==
  ASSUME RowsInv, UNCHANGED <<post, application, offer, contracts>>
  PROVE  RowsInv'
BY DEF RowsInv, OneOfferPerApplication, OneContractPerOffer, CountIsEarned,
   CountOf, Applicants, RowsFounded, HasOffer, Applied

(* Steps that leave applications and offers alone.                         *)
LEMMA SameOffers ==
  ASSUME UNCHANGED <<application, offer>>
  PROVE  Staying /\ \A o \in Offer : Kept(o)
BY DEF Staying, Applied, Kept, HasOffer

(* Steps that leave the sessions' plans and what they rest on alone.       *)
LEMMA SamePlans ==
  ASSUME PlansInv, UNCHANGED <<application, offer, session>>
  PROVE  PlansInv'
BY DEF PlansInv, PlansFounded, PlansEarned, OffersApart, Founded, Earned,
   Counting, Applicants, HasOffer, Applied, At

(* A request that plans no insertion of an offer and no row keeps it all.  *)
LEMMA PlanningKeeps ==
  ASSUME TypeOK, RowsInv, PlansInv, NEW s \in Session,
         NEW plan \in Plan \cup {Idle}, Become(s, plan),
         UNCHANGED <<post, application, offer, contracts>>,
         Founded(plan), Earned(plan), plan.at # "offer"
  PROVE  RowsInv' /\ PlansInv'
<1>1. Founded(plan)'
  BY DEF Founded, HasOffer, Applied
<1>2. Earned(plan)'
  BY DEF Earned, Counting, Applicants
<1>3. \A r \in Session \ {s} : At(r, "offer") => offer'[session[r].offer] = NoOffer
  BY DEF PlansInv, PlansFounded, Founded, HasOffer, At
<1> QED BY <1>1, <1>2, <1>3, PlansKept, SameRows, SameOffers DEF PlansInv

(* A request that ends and writes none of these rows keeps it all.         *)
LEMMA EndKeeps ==
  ASSUME TypeOK, RowsInv, PlansInv, NEW s \in Session, Become(s, Idle),
         UNCHANGED <<post, application, offer, contracts>>
  PROVE  RowsInv' /\ PlansInv'
<1>1. Founded(Idle) /\ Earned(Idle) /\ Idle.at # "offer"
  BY DEF Founded, Earned, Counting, Idle
<1> QED BY <1>1, PlanningKeeps

(* A post comes without applications, and goes only without.               *)
LEMMA PostKeeps ==
  ASSUME TypeOK, RowsInv, PlansInv, NEW s \in Session, PostRequest(s)
  PROVE  RowsInv' /\ PlansInv'
<1> PICK j \in Post : \/ CreatePost(s, j)
                      \/ \E status \in PostStatus : UpdatePost(s, j, status)
                      \/ DeletePost(s, j)
  BY DEF PostRequest
<1>1. UNCHANGED <<application, offer, contracts, session>>
  BY DEF CreatePost, UpdatePost, DeletePost
<1>2. \A k \in Post : Applicants(k)' = Applicants(k)
  BY <1>1 DEF Applicants
<1>3. \A k \in Post : post'[k] # post[k] =>
        \/ post'[k] # NoPost /\ post'[k].count = 0
        \/ post[k] # NoPost /\ post'[k] # NoPost /\ post'[k].count = post[k].count
        \/ post'[k] = NoPost /\ \A i \in Instructor : ~Applied(<<k, i>>)
  <2>1. CASE CreatePost(s, j)
    BY <2>1 DEF CreatePost, NoPost, TypeOK
  <2>2. ASSUME NEW status \in PostStatus, UpdatePost(s, j, status)
        PROVE  \A k \in Post : post'[k] # post[k] =>
                 /\ post[k] # NoPost
                 /\ post'[k] # NoPost
                 /\ post'[k].count = post[k].count
    <3>1. post[j] \in PostRow
      BY <2>2, Rows DEF UpdatePost
    <3>2. \A row \in PostRow : row # NoPost
      BY DEF PostRow, NoPost, PostStatus
    <3>3. /\ [post[j] EXCEPT !.status = status] \in PostRow
          /\ [post[j] EXCEPT !.status = status].count = post[j].count
      BY <3>1 DEF PostRow
    <3> QED BY <2>2, <3>1, <3>2, <3>3 DEF UpdatePost, TypeOK
  <2>3. CASE DeletePost(s, j)
    BY <2>3 DEF DeletePost, Applied, TypeOK
  <2> QED BY <2>1, <2>2, <2>3
<1>4. CountIsEarned'
  <2> SUFFICES ASSUME NEW k \in Post
               PROVE  CountOf(k)' <= Cardinality(Applicants(k))
    BY <1>2 DEF CountIsEarned
  <2>1. CountOf(k)' \in {0, CountOf(k)}
    BY <1>3 DEF CountOf
  <2>2. CountOf(k) <= Cardinality(Applicants(k))
    BY DEF RowsInv, CountIsEarned
  <2> QED BY <2>1, <2>2, ApplicantsFinite
<1>5. RowsFounded'
  <2>1. ASSUME NEW slot \in Slot, Applied(slot)
        PROVE  post'[slot[1]] # NoPost
    <3>1. PICK k \in Post, i \in Instructor : slot = <<k, i>>
      BY DEF Slot
    <3>2. post[k] # NoPost
      BY <2>1, <3>1 DEF RowsInv, RowsFounded
    <3>3. post'[k] # NoPost
      BY <1>3, <2>1, <3>1, <3>2
    <3> QED BY <3>1, <3>3
  <2> QED BY <1>1, <2>1 DEF RowsInv, RowsFounded, HasOffer, Applied
<1>6. OneOfferPerApplication' /\ OneContractPerOffer'
  BY <1>1 DEF RowsInv, OneOfferPerApplication, OneContractPerOffer
<1> QED BY <1>1, <1>4, <1>5, <1>6, SamePlans DEF RowsInv

(* A request that begins plans what is founded on the rows it has read.    *)
LEMMA BeginKeeps ==
  ASSUME TypeOK, TypeOK', RowsInv, PlansInv, NEW s \in Session,
         InstructorRequest(s) \/ UsageRequest(s)
  PROVE  RowsInv' /\ PlansInv'
<1>0. \A plan : Begin(s, plan) =>
        /\ Become(s, plan)
        /\ plan \in Plan \cup {Idle}
        /\ UNCHANGED <<post, application, offer, contracts>>
  <2> SUFFICES ASSUME NEW plan, Begin(s, plan)
               PROVE  /\ Become(s, plan)
                      /\ plan \in Plan \cup {Idle}
                      /\ UNCHANGED <<post, application, offer, contracts>>
    OBVIOUS
  <2>1. session'[s] = plan
    BY DEF Begin, Become, TypeOK
  <2> QED BY <2>1 DEF Begin, TypeOK, tables
<1>1. ASSUME NEW j \in Post, NEW i \in Instructor, Apply(s, j, i)
      PROVE  RowsInv' /\ PlansInv'
  <2>1. post[j].count <= Cardinality(Applicants(j))
    BY <1>1 DEF RowsInv, CountIsEarned, CountOf, Apply
  <2>2. <<j, i>>[1] = j /\ <<j, i>> # NoSlot
    <3>1. <<j, i>> \in Slot /\ NoSlot \notin Slot
      BY HiringAssumption DEF Slot, NoSlot, Direct
    <3> QED BY <3>1
  <2>3. CASE Begin(s, ToUse(i, "application", Charged(i, "application"),
                            <<j, i>>, post[j].count))
    <3> DEFINE plan == ToUse(i, "application", Charged(i, "application"),
                             <<j, i>>, post[j].count)
    <3>1. /\ plan.at = "usage" /\ plan.slot = <<j, i>>
          /\ plan.count = post[j].count
      BY DEF ToUse
    <3> HIDE DEF plan
    <3>2. Founded(plan) /\ Earned(plan)
      BY <2>1, <2>2, <3>1 DEF Founded, Earned, Counting
    <3>3. Begin(s, plan)
      BY <2>3 DEF plan
    <3> QED BY <1>0, <3>1, <3>2, <3>3, PlanningKeeps
  <2>4. CASE Begin(s, [at |-> "insert", slot |-> <<j, i>>, count |-> post[j].count,
                       seen |-> tracked[<<i, today>>]["application"],
                       day |-> today])
    <3> DEFINE plan == [at |-> "insert", slot |-> <<j, i>>, count |-> post[j].count,
                        seen |-> tracked[<<i, today>>]["application"],
                        day |-> today]
    <3>1. Founded(plan) /\ Earned(plan) /\ plan.at # "offer"
      BY <2>1, <2>2 DEF Founded, Earned, Counting
    <3> HIDE DEF plan
    <3>2. Begin(s, plan)
      BY <2>4 DEF plan
    <3> QED BY <1>0, <3>1, <3>2, PlanningKeeps
  <2> QED BY <1>1, <2>3, <2>4 DEF Apply
<1>2. ASSUME NEW j \in Post, NEW i \in Instructor, Withdraw(s, j, i)
      PROVE  RowsInv' /\ PlansInv'
  <2> DEFINE plan == [at |-> "recount", slot |-> <<j, i>>]
  <2>1. Founded(plan) /\ Earned(plan) /\ plan.at # "offer"
    BY <1>2 DEF Founded, Earned, Counting, Withdraw, Applied
  <2>2. Begin(s, plan)
    BY <1>2 DEF Withdraw
  <2> HIDE DEF plan
  <2> QED BY <1>0, <2>1, <2>2, PlanningKeeps
<1>3. ASSUME NEW o \in Offer, NEW answer \in {"accepted", "rejected"},
             Answer(s, o, answer)
      PROVE  RowsInv' /\ PlansInv'
  <2> DEFINE expired == answer = "accepted" /\ o \in late
             reread == ~expired /\ offer[o].application # Direct
             plan == [at |-> IF reread THEN "reread" ELSE "answer", offer |-> o,
                      status |-> IF expired THEN "expired" ELSE answer,
                      writeApplication |-> FALSE]
  <2>1. Founded(plan) /\ Earned(plan) /\ plan.at # "offer"
    BY <1>3 DEF Founded, Earned, Counting, Answer, HasOffer
  <2>2. Begin(s, plan)
    BY <1>3 DEF Answer
  <2> HIDE DEF plan
  <2> QED BY <1>0, <2>1, <2>2, PlanningKeeps
<1>4. ASSUME NEW u \in User, UsageStatus(s, u)
      PROVE  RowsInv' /\ PlansInv'
  <2> DEFINE plan == [at |-> "reset", user |-> u, loaded |-> usage[u],
                      wanted |-> Refreshed(u)]
  <2>1. Founded(plan) /\ Earned(plan) /\ plan.at # "offer"
    BY DEF Founded, Earned, Counting
  <2>2. Begin(s, plan)
    BY <1>4 DEF UsageStatus
  <2> HIDE DEF plan
  <2> QED BY <1>0, <2>1, <2>2, PlanningKeeps
<1>5. ASSUME NEW u \in User, NEW i \in Instructor, ViewProfile(s, u, i)
      PROVE  RowsInv' /\ PlansInv'
  <2>1. PICK wanted : Begin(s, ToUse(u, "profile_view", wanted, NoSlot, 0))
    BY <1>5 DEF ViewProfile
  <2> DEFINE plan == ToUse(u, "profile_view", wanted, NoSlot, 0)
  <2>2. Founded(plan) /\ Earned(plan) /\ plan.at # "offer"
    BY DEF Founded, Earned, Counting, ToUse
  <2>3. Begin(s, plan)
    BY <2>1
  <2> HIDE DEF plan
  <2> QED BY <1>0, <2>2, <2>3, PlanningKeeps
<1> QED BY <1>1, <1>2, <1>3, <1>4, <1>5 DEF InstructorRequest, UsageRequest

(* The id of a new offer is nobody else's.                                 *)
LEMMA OfferKeeps ==
  ASSUME TypeOK, TypeOK', RowsInv, PlansInv, NEW s \in Session, OfferRequest(s)
  PROVE  RowsInv' /\ PlansInv'
<1> PICK o \in Offer : \/ CreateContract(s, o)
                       \/ \E slot \in Slot \cup {Direct} : CreateOffer(s, o, slot)
  BY DEF OfferRequest
<1>1. CASE CreateContract(s, o)
  <2> DEFINE plan == [at |-> "contract", offer |-> o]
  <2>1. Founded(plan) /\ Earned(plan) /\ plan.at # "offer"
    BY <1>1 DEF Founded, Earned, Counting, CreateContract, HasOffer
  <2>2. Become(s, plan) /\ UNCHANGED <<post, application, offer, contracts>>
    BY <1>1 DEF CreateContract, Begin, tables
  <2>3. plan \in Plan
    BY DEF ContractPlan, Plan
  <2> HIDE DEF plan
  <2> QED BY <2>1, <2>2, <2>3, PlanningKeeps
<1>2. ASSUME NEW slot \in Slot \cup {Direct}, CreateOffer(s, o, slot)
      PROVE  RowsInv' /\ PlansInv'
  <2>1. UNCHANGED <<post, application, offer, contracts>>
    BY <1>2 DEF CreateOffer, Begin, tables
  <2>2. /\ session'[s] = [at |-> "offer", offer |-> o, application |-> slot]
        /\ \A r \in Session : r # s => session'[r] = session[r]
    BY <1>2 DEF CreateOffer, Begin, Become, TypeOK
  <2>3. /\ ~HasOffer(o)
        /\ slot # Direct => Applied(slot)
        /\ \A r \in Session : At(r, "offer") => session[r].offer # o
    BY <1>2 DEF CreateOffer, NewOffer, HasOffer, Applied
  <2>4. PlansFounded'
    <3> SUFFICES ASSUME NEW r \in Session PROVE Founded(session[r])'
      BY DEF PlansFounded
    <3>1. CASE r = s
      BY <2>1, <2>2, <2>3, <3>1 DEF Founded, HasOffer, Applied
    <3>2. CASE r # s
      BY <2>1, <2>2, <3>2 DEF PlansInv, PlansFounded, Founded, HasOffer, Applied
    <3> QED BY <3>1, <3>2
  <2>5. PlansEarned'
    <3> SUFFICES ASSUME NEW r \in Session PROVE Earned(session[r])'
      BY DEF PlansEarned
    <3>1. CASE r = s
      BY <2>2, <3>1 DEF Earned, Counting
    <3>2. CASE r # s
      BY <2>1, <2>2, <3>2 DEF PlansInv, PlansEarned, Earned, Counting, Applicants
    <3> QED BY <3>1, <3>2
  <2>6. OffersApart'
    BY <2>2, <2>3 DEF PlansInv, OffersApart, At
  <2> QED BY <2>1, <2>4, <2>5, <2>6, SameRows DEF PlansInv
<1> QED BY <1>1, <1>2

(* The counters are not what is promised here; an application planned with *)
(* them goes on with the count that was read.                              *)
LEMMA UsageCommitKeeps ==
  ASSUME TypeOK, TypeOK', RowsInv, PlansInv, NEW s \in Session,
         CommitUsage(s) \/ CommitReset(s)
  PROVE  RowsInv' /\ PlansInv'
<1> DEFINE p == session[s]
<1>1. CASE CommitUsage(s)
  <2>1. CASE Become(s, Idle)
    BY <1>1, <2>1, EndKeeps DEF CommitUsage, Refuse, tables
  <2>2. CASE ~Become(s, Idle)
    <3>1. /\ p.counter # "profile_view"
          /\ Become(s, [at |-> "insert", slot |-> p.slot, count |-> p.count,
                        seen |-> NoWrite, day |-> p.wanted.day])
          /\ UNCHANGED <<post, application, offer, contracts>>
      BY <1>1, <2>2 DEF CommitUsage, Refuse
    <3>2. p \in UsagePlan /\ p.at = "usage"
      BY <1>1, PlanKinds DEF CommitUsage, TypeOK, At
    <3>3. p.counter = "application" /\ p.slot # NoSlot
      BY <3>1, <3>2 DEF UsagePlan, Counter, PlansInv, PlansFounded, Founded
    <3>4. p.slot \in Slot /\ p.count \in Nat
      BY <3>2, <3>3 DEF UsagePlan
    <3>5. p.count <= Cardinality(Applicants(p.slot[1]))
      BY <3>2, <3>3 DEF PlansInv, PlansEarned, Earned, Counting
    <3> DEFINE plan == [at |-> "insert", slot |-> p.slot, count |-> p.count,
                        seen |-> NoWrite, day |-> p.wanted.day]
    <3>6. Founded(plan) /\ Earned(plan) /\ plan.at # "offer"
      BY <3>5 DEF Founded, Earned, Counting
    <3>7. plan \in Plan
      BY <3>2, <3>4 DEF InsertPlan, Plan, UsagePlan, UsageRow
    <3>8. Become(s, plan)
      BY <3>1
    <3> HIDE DEF plan
    <3> QED BY <3>1, <3>6, <3>7, <3>8, PlanningKeeps
  <2> QED BY <2>1, <2>2
<1>2. CASE CommitReset(s)
  BY <1>2, EndKeeps DEF CommitReset
<1> QED BY <1>1, <1>2

(* An ended request leaves no plan behind.                                 *)
LEMMA EndedPlans ==
  ASSUME TypeOK, PlansInv, NEW s \in Session, Become(s, Idle),
         Staying, \A o \in Offer : Kept(o),
         \A r \in Session \ {s} : At(r, "offer") => offer'[session[r].offer] = NoOffer
  PROVE  PlansInv'
<1>1. Founded(Idle)' /\ Earned(Idle)' /\ Idle.at # "offer"
  BY DEF Founded, Earned, Counting, Idle
<1>2. Idle \in Plan \cup {Idle}
  OBVIOUS
<1> HIDE DEF Idle
<1> QED BY <1>1, <1>2, PlansKept DEF PlansInv

(* What is not inserted stays away from the offers being inserted.         *)
LEMMA OffersAway ==
  ASSUME PlansInv, NEW r \in Session, At(r, "offer")
  PROVE  offer[session[r].offer] = NoOffer
BY DEF PlansInv, PlansFounded, Founded, HasOffer, At

(* An insertion writes one more than the count it has read, and is one     *)
(* more application.                                                       *)
LEMMA InsertKeeps ==
  ASSUME TypeOK, RowsInv, PlansInv, NEW s \in Session, CommitInsert(s)
  PROVE  RowsInv' /\ PlansInv'
<1>1. CASE Refuse(s)
  BY <1>1, EndKeeps DEF Refuse, tables
<1>2. CASE ~Refuse(s)
  <2>1. PICK j \in Post, i \in Instructor :
              /\ session[s].slot = <<j, i>>
              /\ <<j, i>> \in Slot
              /\ session[s].count \in Nat /\ session[s].day \in 0..LastDay
              /\ ~Applied(<<j, i>>)
              /\ post[j] \in PostRow
              /\ application' = [application EXCEPT ![<<j, i>>] =
                                   [status |-> "pending", created |-> today]]
              /\ post' = [post EXCEPT ![j].count = session[s].count + 1]
              /\ Become(s, Idle)
              /\ UNCHANGED <<offer, contracts>>
    BY <1>2, Inserted
  <2>2. PICK n \in Nat : n = session[s].count
    BY <2>1
  <2>3. /\ Applied(<<j, i>>)'
        /\ \A slot \in Slot : slot # <<j, i>> => application'[slot] = application[slot]
    BY <2>1 DEF TypeOK, Applied, NoApplication
  <2>4. Staying
    BY <2>3 DEF Staying, Applied
  <2>5. \A o \in Offer : Kept(o)
    BY <2>1 DEF Kept, HasOffer
  <2>6. PlansInv'
    BY <2>1, <2>4, <2>5, EndedPlans, OffersAway
  <2>7. n <= Cardinality(Applicants(j))
    BY <2>1, <2>2 DEF CommitInsert, At, PlansInv, PlansEarned, Earned, Counting
  <2>8. /\ post'[j] # NoPost
        /\ post'[j].count = n + 1
        /\ \A k \in Post : k # j => post'[k] = post[k]
    <3>1. [post[j] EXCEPT !.count = n + 1] \in PostRow
      BY <2>1 DEF PostRow
    <3>2. \A row \in PostRow : row # NoPost
      BY DEF PostRow, NoPost, PostStatus
    <3>3. post' = [post EXCEPT ![j] = [post[j] EXCEPT !.count = n + 1]]
      BY <2>1, <2>2
    <3>4. [post[j] EXCEPT !.count = n + 1].count = n + 1
      BY <2>1 DEF PostRow
    <3> QED BY <3>1, <3>2, <3>3, <3>4 DEF TypeOK
  <2>9. CountIsEarned'
    <3> SUFFICES ASSUME NEW k \in Post
                 PROVE  CountOf(k)' <= Cardinality(Applicants(k)')
      BY DEF CountIsEarned
    <3>1. CASE k = j
      <4>1. CountOf(k)' = n + 1
        BY <2>8, <3>1 DEF CountOf
      <4>2. Cardinality(Applicants(j)) + 1 <= Cardinality(Applicants(j)')
        BY <2>1, <2>3, <2>4, OneMoreApplicant
      <4> QED BY <2>7, <3>1, <4>1, <4>2, ApplicantsFinite
    <3>2. CASE k # j
      <4>1. CountOf(k)' = CountOf(k)
        BY <2>8, <3>2 DEF CountOf
      <4>2. CountOf(k) <= Cardinality(Applicants(k))
        BY DEF RowsInv, CountIsEarned
      <4>3. CountOf(k) \in Nat
        BY Rows DEF CountOf, PostRow
      <4>4. Cardinality(Applicants(k)) <= Cardinality(Applicants(k)')
        BY <2>4, ApplicantsStay
      <4> QED BY <4>1, <4>2, <4>3, <4>4, ApplicantsFinite
    <3> QED BY <3>1, <3>2
  <2>10. RowsFounded'
    <3>1. ASSUME NEW o \in Offer, HasOffer(o), offer[o].application # Direct
          PROVE  application'[offer[o].application] # NoApplication
      <4>1. PICK slot \in Slot : slot = offer[o].application
        BY <3>1, Rows DEF OfferRow
      <4>2. Applied(slot)
        BY <3>1, <4>1 DEF RowsInv, RowsFounded
      <4>3. Applied(slot)'
        BY <2>4, <4>2 DEF Staying
      <4> QED BY <4>1, <4>3 DEF Applied
    <3>2. \A slot \in Slot : Applied(slot)' => post'[slot[1]] # NoPost
      <4> SUFFICES ASSUME NEW slot \in Slot, Applied(slot)'
                   PROVE  post'[slot[1]] # NoPost
        OBVIOUS
      <4>1. slot[1] \in Post
        BY DEF Slot
      <4>2. CASE slot = <<j, i>>
        BY <2>8, <4>2
      <4>3. CASE slot # <<j, i>>
        <5>1. Applied(slot)
          BY <2>3, <4>3 DEF Applied
        <5> QED BY <2>8, <4>1, <5>1 DEF RowsInv, RowsFounded
      <4> QED BY <4>2, <4>3
    <3> QED BY <2>1, <3>1, <3>2 DEF RowsFounded, HasOffer, Applied
  <2>11. OneOfferPerApplication' /\ OneContractPerOffer'
    BY <2>1 DEF RowsInv, OneOfferPerApplication, OneContractPerOffer
  <2> QED BY <2>6, <2>9, <2>10, <2>11 DEF RowsInv
<1> QED BY <1>1, <1>2

(* Withdrawing writes one less than the count it has read, or nothing.     *)
LEMMA WithdrawKeeps ==
  ASSUME TypeOK, RowsInv, PlansInv, NEW s \in Session,
         ReadCount(s) \/ CommitWithdraw(s)
  PROVE  RowsInv' /\ PlansInv'
<1> DEFINE p == session[s]
<1>1. CASE ReadCount(s)
  <2>1. p \in RecountPlan /\ p.at = "recount"
    BY <1>1, PlanKinds DEF ReadCount, TypeOK, At
  <2>2. p.slot \in Slot /\ Applied(p.slot)
    BY <2>1 DEF RecountPlan, PlansInv, PlansFounded, Founded
  <2>3. post[p.slot[1]] \in PostRow /\ p.slot[1] \in Post
    BY <2>2, Rows DEF RowsInv, RowsFounded, Slot
  <2>4. PICK j \in Post : j = p.slot[1]
    BY <2>3
  <2>5. PICK n \in Nat : n = post[j].count
    BY <2>3, <2>4 DEF PostRow
  <2>6. n <= Cardinality(Applicants(j))
    <3>1. \A row \in PostRow : row # NoPost
      BY DEF PostRow, NoPost, PostStatus
    <3> QED BY <2>3, <2>4, <2>5, <3>1 DEF RowsInv, CountIsEarned, CountOf
  <2>7. PICK m \in Nat \cup {NoWrite} : m = IF n > 0 THEN n - 1 ELSE NoWrite
    <3>1. (IF n > 0 THEN n - 1 ELSE NoWrite) \in Nat \cup {NoWrite}
      OBVIOUS
    <3> QED BY <3>1
  <2> DEFINE plan == [at |-> "withdraw", slot |-> p.slot, count |-> m]
  <2>8. Become(s, plan)
    <3>1. Become(s, [at |-> "withdraw", slot |-> p.slot,
                     count |-> IF n > 0 THEN n - 1 ELSE NoWrite])
      BY <1>1, <2>4, <2>5 DEF ReadCount
    <3> QED BY <2>7, <3>1
  <2>9. UNCHANGED <<post, application, offer, contracts>>
    BY <1>1 DEF ReadCount, tables
  <2>10. m # NoWrite => m <= Cardinality(Applicants(j))
    <3>1. m # NoWrite => m = n - 1
      BY <2>7
    <3> QED BY <2>6, <3>1, ApplicantsFinite
  <2>11. Founded(plan) /\ Earned(plan) /\ plan.at # "offer"
    BY <2>2, <2>4, <2>10 DEF Founded, Earned, Counting
  <2>12. plan \in Plan
    BY <2>2 DEF WithdrawPlan, Plan
  <2> HIDE DEF plan
  <2> QED BY <2>8, <2>9, <2>11, <2>12, PlanningKeeps
<1>2. CASE CommitWithdraw(s)
  <2>1. p \in WithdrawPlan /\ p.at = "withdraw"
    BY <1>2, PlanKinds DEF CommitWithdraw, TypeOK, At
  <2>2. PICK slot \in Slot : slot = p.slot
    BY <2>1 DEF WithdrawPlan
  <2>3. Applied(slot) /\ application[slot] \in ApplicationRow
    BY <2>1, <2>2, Rows DEF PlansInv, PlansFounded, Founded
  <2>4. PICK j \in Post : j = slot[1]
    BY DEF Slot
  <2>5. post[j] # NoPost /\ post[j] \in PostRow
    BY <2>3, <2>4, Rows DEF RowsInv, RowsFounded
  <2>6. PICK n \in Nat \cup {NoWrite} : n = p.count
    BY <2>1 DEF WithdrawPlan
  <2>7. n # NoWrite => n <= Cardinality(Applicants(j))
    BY <2>1, <2>2, <2>4, <2>6 DEF PlansInv, PlansEarned, Earned, Counting
  <2>8. /\ application' = [application EXCEPT ![slot].status = "withdrawn"]
        /\ post' = IF n = NoWrite THEN post ELSE [post EXCEPT ![j].count = n]
        /\ Become(s, Idle)
        /\ UNCHANGED <<offer, contracts>>
    BY <1>2, <2>2, <2>4, <2>6 DEF CommitWithdraw
  <2>9. application'[slot] # NoApplication
    <3>1. [application[slot] EXCEPT !.status = "withdrawn"] \in ApplicationRow
      BY <2>3 DEF ApplicationRow, ApplicationStatus
    <3>2. \A row \in ApplicationRow : row # NoApplication
      BY DEF ApplicationRow, NoApplication, ApplicationStatus
    <3> QED BY <2>8, <3>1, <3>2 DEF TypeOK
  <2>10. \A other \in Slot : application'[other] = NoApplication <=>
                             application[other] = NoApplication
    <3>1. \A other \in Slot : other # slot => application'[other] = application[other]
      BY <2>8 DEF TypeOK
    <3> QED BY <2>3, <2>9, <3>1 DEF Applied
  <2>11. Staying /\ \A o \in Offer : Kept(o)
    BY <2>8, <2>10 DEF Staying, Applied, Kept, HasOffer
  <2>12. PlansInv'
    BY <2>8, <2>11, EndedPlans, OffersAway
  <2>13. \A k \in Post : Applicants(k)' = Applicants(k)
    BY <2>10 DEF Applicants, Slot
  <2>14. \A k \in Post : /\ post'[k] = NoPost <=> post[k] = NoPost
                         /\ post'[k] # post[k] => k = j /\ n # NoWrite /\ post'[k].count = n
    <3>1. n \in Nat => /\ [post[j] EXCEPT !.count = n] \in PostRow
                       /\ [post[j] EXCEPT !.count = n].count = n
      BY <2>5 DEF PostRow
    <3>2. \A row \in PostRow : row # NoPost
      BY DEF PostRow, NoPost, PostStatus
    <3> QED BY <2>5, <2>6, <2>8, <3>1, <3>2 DEF TypeOK
  <2>15. CountIsEarned'
    <3> SUFFICES ASSUME NEW k \in Post
                 PROVE  CountOf(k)' <= Cardinality(Applicants(k))
      BY <2>13 DEF CountIsEarned
    <3>1. CASE post'[k] = post[k]
      BY <3>1 DEF CountOf, RowsInv, CountIsEarned
    <3>2. CASE post'[k] # post[k]
      BY <2>7, <2>14, <2>5, <3>2 DEF CountOf
    <3> QED BY <3>1, <3>2
  <2>16. RowsFounded'
    <3>1. ASSUME NEW o \in Offer, HasOffer(o), offer[o].application # Direct
          PROVE  application'[offer[o].application] # NoApplication
      <4>1. PICK other \in Slot : other = offer[o].application
        BY <3>1, Rows DEF OfferRow
      <4>2. Applied(other)
        BY <3>1, <4>1 DEF RowsInv, RowsFounded
      <4> QED BY <2>10, <4>1, <4>2 DEF Applied
    <3>2. ASSUME NEW other \in Slot, Applied(other)
          PROVE  post'[other[1]] # NoPost
      <4>1. other[1] \in Post
        BY DEF Slot
      <4> QED BY <2>14, <3>2, <4>1 DEF RowsInv, RowsFounded
    <3> QED BY <2>8, <2>10, <3>1, <3>2 DEF RowsFounded, HasOffer, Applied
  <2>17. OneOfferPerApplication' /\ OneContractPerOffer'
    BY <2>8 DEF RowsInv, OneOfferPerApplication, OneContractPerOffer
  <2> QED BY <2>12, <2>15, <2>16, <2>17 DEF RowsInv
<1> QED BY <1>1, <1>2

(* The unique columns refuse a second offer and a second contract.         *)
LEMMA OfferCommitKeeps ==
  ASSUME TypeOK, RowsInv, PlansInv, NEW s \in Session,
         CommitOffer(s) \/ CommitContract(s)
  PROVE  RowsInv' /\ PlansInv'
<1>1. CASE Refuse(s)
  BY <1>1, EndKeeps DEF Refuse, tables
<1>2. CASE CommitOffer(s) /\ ~Refuse(s)
  <2>1. session[s] \in OfferPlan /\ At(s, "offer")
    BY <1>2, PlanKinds DEF CommitOffer, TypeOK
  <2>2. PICK o \in Offer, slot \in Slot \cup {Direct} :
          o = session[s].offer /\ slot = session[s].application
    BY <2>1 DEF OfferPlan
  <2>3. /\ ~HasOffer(o)
        /\ slot # Direct => Applied(slot)
    BY <2>1, <2>2 DEF PlansInv, PlansFounded, Founded, At
  <2> DEFINE row == [status |-> "pending", application |-> slot]
  <2>4. /\ slot # Direct => OfferOf(slot) = {}
        /\ offer' = [offer EXCEPT ![o] = row]
        /\ Become(s, Idle)
        /\ UNCHANGED <<post, application, contracts>>
    BY <1>2, <2>2 DEF CommitOffer
  <2>5. /\ offer'[o] = row /\ row # NoOffer
        /\ \A q \in Offer : q # o => offer'[q] = offer[q]
    <3>1. row # NoOffer
      BY DEF NoOffer
    <3> QED BY <2>4, <3>1 DEF TypeOK
  <2>6. row.status = "pending" /\ row.application = slot
    OBVIOUS
  <2> HIDE DEF row
  <2>7. Staying /\ \A q \in Offer : Kept(q)
    BY <2>3, <2>4, <2>5 DEF Staying, Applied, Kept, HasOffer
  <2>8. ASSUME NEW r \in Session \ {s}, At(r, "offer")
        PROVE  offer'[session[r].offer] = NoOffer
    <3>1. session[r].offer # o
      BY <2>1, <2>2, <2>8 DEF PlansInv, OffersApart
    <3>2. session[r] \in OfferPlan
      BY <2>8, PlanKinds DEF TypeOK
    <3>3. session[r].offer \in Offer
      BY <3>2 DEF OfferPlan
    <3> QED BY <2>5, <2>8, <3>1, <3>3, OffersAway
  <2>9. PlansInv'
    BY <2>4, <2>7, <2>8, EndedPlans
  <2>10. OneOfferPerApplication'
    <3> SUFFICES ASSUME NEW q \in Offer, NEW r \in Offer,
                        offer'[q] # NoOffer, offer'[r] # NoOffer,
                        offer'[q].application # Direct,
                        offer'[q].application = offer'[r].application
                 PROVE  q = r
      BY DEF OneOfferPerApplication
    <3>1. \A x \in Offer : HasOffer(x) /\ slot # Direct => offer[x].application # slot
      BY <2>4 DEF OfferOf, HasOffer
    <3> QED BY <2>5, <2>6, <3>1 DEF RowsInv, OneOfferPerApplication, HasOffer
  <2>11. OneContractPerOffer'
    BY <2>3, <2>4, <2>5 DEF RowsInv, OneContractPerOffer, HasOffer
  <2>12. CountIsEarned'
    BY <2>4 DEF RowsInv, CountIsEarned, CountOf, Applicants
  <2>13. RowsFounded'
    BY <2>3, <2>4, <2>5, <2>6 DEF RowsInv, RowsFounded, HasOffer, Applied
  <2> QED BY <2>9, <2>10, <2>11, <2>12, <2>13 DEF RowsInv
<1>3. CASE CommitContract(s) /\ ~Refuse(s)
  <2>1. session[s] \in ContractPlan /\ session[s].at = "contract"
    BY <1>3, PlanKinds DEF CommitContract, TypeOK, At
  <2>2. PICK o \in Offer : o = session[s].offer
    BY <2>1 DEF ContractPlan
  <2>3. HasOffer(o) /\ offer[o].status # "pending"
    BY <2>1, <2>2 DEF PlansInv, PlansFounded, Founded
  <2>4. /\ contracts[o] = 0
        /\ contracts' = [contracts EXCEPT ![o] = @ + 1]
        /\ Become(s, Idle)
        /\ UNCHANGED <<post, application, offer>>
    BY <1>3, <2>2 DEF CommitContract
  <2>5. OneContractPerOffer'
    BY <2>3, <2>4 DEF RowsInv, OneContractPerOffer, HasOffer, TypeOK
  <2>6. PlansInv'
    BY <2>4, SameOffers, EndedPlans, OffersAway
  <2> QED BY <2>4, <2>5, <2>6 DEF RowsInv, OneOfferPerApplication, CountIsEarned,
     CountOf, Applicants, RowsFounded, HasOffer, Applied
<1> QED BY <1>1, <1>2, <1>3

(* An answer makes an offer no longer pending, and its application what it *)
(* is itself.                                                              *)
LEMMA AnswerKeeps ==
  ASSUME TypeOK, TypeOK', RowsInv, PlansInv, NEW s \in Session,
         ReadApplication(s) \/ CommitAnswer(s)
  PROVE  RowsInv' /\ PlansInv'
<1> DEFINE p == session[s]
<1>1. CASE ReadApplication(s)
  <2>1. p \in AnswerPlan /\ p.at = "reread"
    BY <1>1, PlanKinds DEF ReadApplication, TypeOK, At
  <2>2. Founded(p)
    BY DEF PlansInv, PlansFounded
  <2>3. PICK written \in BOOLEAN :
          Become(s, [p EXCEPT !.at = "answer", !.writeApplication = written])
    <3>1. (application[offer[p.offer].application].status # p.status) \in BOOLEAN
      OBVIOUS
    <3> QED BY <1>1, <3>1 DEF ReadApplication
  <2> DEFINE plan == [p EXCEPT !.at = "answer", !.writeApplication = written]
  <2>4. /\ plan \in Plan /\ plan.at = "answer"
        /\ plan.offer = p.offer /\ plan.status = p.status
    BY <2>1 DEF AnswerPlan, Plan
  <2>5. Become(s, plan)
    BY <2>3
  <2> HIDE DEF plan
  <2>6. Founded(plan) /\ Earned(plan) /\ plan.at # "offer"
    BY <2>1, <2>2, <2>4 DEF Founded, Earned, Counting
  <2> QED BY <1>1, <2>4, <2>5, <2>6, PlanningKeeps DEF ReadApplication, tables
<1>2. CASE CommitAnswer(s)
  <2>1. Founded(session[s]) /\ RowsFounded
    BY DEF PlansInv, PlansFounded, RowsInv
  <2>2. PICK o \in Offer, status \in OfferStatus \ {"pending"} :
           /\ offer[o] \in OfferRow /\ HasOffer(o)
           /\ offer' = [offer EXCEPT ![o].status = status]
           /\ \/ UNCHANGED application
              \/ /\ offer[o].application \in Slot
                 /\ Applied(offer[o].application)
                 /\ status \in {"accepted", "rejected"}
                 /\ application' = [application EXCEPT
                                      ![offer[o].application].status = status]
    BY <1>2, <2>1, Answered
  <2>3. Become(s, Idle) /\ UNCHANGED <<post, contracts>>
    BY <1>2 DEF CommitAnswer
  <2>4. /\ offer'[o] # NoOffer
        /\ offer'[o].status = status
        /\ offer'[o].application = offer[o].application
        /\ \A q \in Offer : q # o => offer'[q] = offer[q]
    <3>1. offer'[o] = [offer[o] EXCEPT !.status = status]
      BY <2>2 DEF TypeOK
    <3>2. /\ offer'[o].status = status
          /\ offer'[o].application = offer[o].application
      BY <2>2, <3>1 DEF OfferRow
    <3>3. \A row \in OfferRow : row # NoOffer
      BY DEF OfferRow, NoOffer, OfferStatus
    <3>4. offer'[o] \in OfferRow
      BY <2>2, <3>1 DEF OfferRow
    <3> QED BY <2>2, <3>2, <3>3, <3>4 DEF TypeOK
  <2>5. status # "pending"
    OBVIOUS
  <2>6. \A slot \in Slot : application'[slot] = NoApplication <=>
                           application[slot] = NoApplication
    <3>1. CASE UNCHANGED application
      BY <3>1
    <3>2. CASE ~UNCHANGED application
      <4>1. PICK slot \in Slot : slot = offer[o].application
        BY <2>2, <3>2
      <4>2. /\ Applied(slot)
            /\ application' = [application EXCEPT ![slot].status = status]
            /\ status \in {"accepted", "rejected"}
        BY <2>2, <3>2, <4>1
      <4>3. [application[slot] EXCEPT !.status = status] # NoApplication
        <5>1. [application[slot] EXCEPT !.status = status].status = status
          BY <4>2, Rows DEF ApplicationRow
        <5>2. NoApplication.status = "none"
          BY DEF NoApplication
        <5> QED BY <4>2, <5>1, <5>2
      <4> QED BY <4>2, <4>3 DEF TypeOK, Applied
    <3> QED BY <3>1, <3>2
  <2>7. Staying
    BY <2>6 DEF Staying, Applied
  <2>8. \A q \in Offer : Kept(q)
    BY <2>4, <2>5 DEF Kept, HasOffer
  <2>9. ASSUME NEW r \in Session \ {s}, At(r, "offer")
        PROVE  offer'[session[r].offer] = NoOffer
    <3>1. session[r] \in OfferPlan
      BY <2>9, PlanKinds DEF TypeOK
    <3>2. session[r].offer \in Offer
      BY <3>1 DEF OfferPlan
    <3>3. offer[session[r].offer] = NoOffer
      BY <2>9, OffersAway
    <3> QED BY <2>2, <2>4, <3>2, <3>3 DEF HasOffer
  <2>10. PlansInv'
    BY <2>3, <2>7, <2>8, <2>9, EndedPlans
  <2>11. OneOfferPerApplication'
    BY <2>2, <2>4 DEF RowsInv, OneOfferPerApplication, HasOffer
  <2>12. OneContractPerOffer'
    BY <2>2, <2>3, <2>4, <2>5 DEF RowsInv, OneContractPerOffer, HasOffer
  <2>13. CountIsEarned'
    <3>1. \A k \in Post : Applicants(k)' = Applicants(k)
      BY <2>6 DEF Applicants, Slot
    <3>2. \A k \in Post : CountOf(k)' = CountOf(k)
      BY <2>3 DEF CountOf
    <3> QED BY <3>1, <3>2 DEF RowsInv, CountIsEarned
  <2>14. RowsFounded'
    <3>1. \A q \in Offer : HasOffer(q)' <=> HasOffer(q)
      BY <2>2, <2>4 DEF HasOffer
    <3>2. \A q \in Offer : offer'[q].application = offer[q].application
      BY <2>4
    <3>3. ASSUME NEW q \in Offer, HasOffer(q), offer[q].application # Direct
          PROVE  application'[offer[q].application] # NoApplication
      <4>1. PICK slot \in Slot : slot = offer[q].application
        BY <3>3, Rows DEF OfferRow
      <4>2. Applied(slot)
        BY <3>3, <4>1 DEF RowsInv, RowsFounded
      <4> QED BY <2>6, <4>1, <4>2 DEF Applied
    <3> QED BY <2>3, <2>6, <3>1, <3>2, <3>3 DEF RowsInv, RowsFounded, HasOffer, Applied
  <2> QED BY <2>10, <2>11, <2>12, <2>13, <2>14 DEF RowsInv
<1> QED BY <1>1, <1>2

-----------------------------------------------------------------------------
(* The invariant, and what follows from it.                                *)

LEMMA HiringInvParts == HiringInv <=> TypeOK /\ RowsInv /\ PlansInv
BY DEF HiringInv, RowsInv, PlansInv

(* The empty database, and every step from a state of the invariant.       *)
LEMMA HiringInit == Init => HiringInv
<1> SUFFICES ASSUME Init PROVE HiringInv
  OBVIOUS
<1>1. NothingUsed \in [Counter -> Nat] /\ Unused(0) \in UsageRow
  BY HiringAssumption DEF NothingUsed, Unused, UsageRow
<1>2. TypeOK
  BY <1>1, HiringAssumption DEF Init, TypeOK
<1>3. OneOfferPerApplication /\ OneContractPerOffer /\ RowsFounded
  BY DEF Init, OneOfferPerApplication, OneContractPerOffer, RowsFounded,
     HasOffer, Applied
<1>4. CountIsEarned
  BY ApplicantsFinite DEF Init, CountIsEarned, CountOf
<1>5. PlansInv
  BY DEF Init, PlansInv, PlansFounded, PlansEarned, OffersApart, Founded, Earned,
     Counting, Idle, At
<1> QED BY <1>2, <1>3, <1>4, <1>5, HiringInvParts DEF RowsInv

LEMMA HiringStep == HiringInv /\ [Next]_vars => HiringInv'
<1> SUFFICES ASSUME TypeOK, RowsInv, PlansInv, [Next]_vars
             PROVE  TypeOK' /\ RowsInv' /\ PlansInv'
  BY DEF HiringInv, RowsInv, PlansInv
<1>1. TypeOK'
  BY NextType DEF RowsInv, PlansInv
<1>2. CASE UNCHANGED vars
  BY <1>1, <1>2, SameRows, SamePlans DEF vars, tables
<1>3. ASSUME NEW s \in Session, Proceed(s)
      PROVE  RowsInv' /\ PlansInv'
  BY <1>1, <1>3, UsageCommitKeeps, InsertKeeps, WithdrawKeeps, OfferCommitKeeps,
     AnswerKeeps DEF Proceed
<1>4. ASSUME NEW s \in Session, Killed(s)
      PROVE  RowsInv' /\ PlansInv'
  BY <1>4, EndKeeps DEF Killed, tables
<1>5. ASSUME NEW o \in Offer, OfferLapses(o)
      PROVE  RowsInv' /\ PlansInv'
  BY <1>5, SameRows, SamePlans DEF OfferLapses, tables
<1>6. CASE NextDay
  <2>1. UNCHANGED <<post, application, offer, contracts, session>>
    BY <1>6 DEF NextDay, tables
  <2> QED BY <1>1, <2>1, SameRows, SamePlans
<1>7. ASSUME NEW s \in Session,
             \/ PostRequest(s) \/ InstructorRequest(s)
             \/ UsageRequest(s) \/ OfferRequest(s)
      PROVE  RowsInv' /\ PlansInv'
  <2>1. CASE PostRequest(s)
    BY <2>1, PostKeeps
  <2>2. CASE InstructorRequest(s) \/ UsageRequest(s)
    BY <1>1, <2>2, BeginKeeps
  <2>3. CASE OfferRequest(s)
    BY <1>1, <2>3, OfferKeeps
  <2> QED BY <1>7, <2>1, <2>2, <2>3
<1> QED BY <1>1, <1>2, <1>3, <1>4, <1>5, <1>6, <1>7 DEF Next

(* What makes the properties inductive holds in every reachable state, for *)
(* any posts, instructors, limits and sessions, whatever overlaps.         *)
THEOREM HiringInvariant == Spec => []HiringInv
BY HiringInit, HiringStep, PTL DEF Spec

(* The tables, the clock and the plans of requests hold values of their    *)
(* types.                                                                  *)
THEOREM HiringTypeCorrect == Spec => []TypeOK
<1>1. HiringInv => TypeOK
  BY DEF HiringInv
<1> QED BY <1>1, HiringInvariant, PTL

(* However many studios answer an application at the same time, it has one *)
(* offer at most (OfferService.create, offers.application_id).             *)
THEOREM NoSecondOffer == Spec => []OneOfferPerApplication
<1>1. HiringInv => OneOfferPerApplication
  BY DEF HiringInv
<1> QED BY <1>1, HiringInvariant, PTL

(* An offer becomes one contract at most, and only after it was answered   *)
(* (ContractService.create_from_offer).                                    *)
THEOREM NoSecondContract == Spec => []OneContractPerOffer
<1>1. HiringInv => OneContractPerOffer
  BY DEF HiringInv
<1> QED BY <1>1, HiringInvariant, PTL

(* application_count is never ahead of the applications of its post,       *)
(* whichever updates are lost.                                             *)
THEOREM CountNeverAhead == Spec => []CountIsEarned
<1>1. HiringInv => CountIsEarned
  BY DEF HiringInv
<1> QED BY <1>1, HiringInvariant, PTL

(* Nothing puts an application back to pending: applying again does not    *)
(* touch the one that is there (ApplicationService.create, two clicks).    *)
THEOREM AppliedOnce == Spec => NeverAgain
<1>1. HiringInv /\ [Next]_vars =>
        \A slot \in Slot : Applied(slot) =>
          application'[slot] = application[slot] \/ application'[slot].status # "pending"
  <2> SUFFICES ASSUME TypeOK, RowsInv, PlansInv, [Next]_vars,
                      application' # application,
                      NEW slot \in Slot, Applied(slot)
               PROVE  \/ application'[slot] = application[slot]
                      \/ application'[slot].status # "pending"
    BY DEF HiringInv, RowsInv, PlansInv
  <2>1. PICK s \in Session : CommitInsert(s) \/ CommitWithdraw(s) \/ CommitAnswer(s)
    <3>1. ~UNCHANGED vars
      BY DEF vars, tables
    <3>2. ASSUME NEW s \in Session,
                 \/ PostRequest(s) \/ InstructorRequest(s) \/ UsageRequest(s)
                 \/ OfferRequest(s) \/ Killed(s)
          PROVE  FALSE
      BY <3>2 DEF PostRequest, CreatePost, UpdatePost, DeletePost,
         InstructorRequest, Apply, Withdraw, Answer, UsageRequest, UsageStatus,
         ViewProfile, OfferRequest, CreateContract, CreateOffer, Begin, Killed, tables
    <3>3. ~NextDay /\ \A o \in Offer : ~OfferLapses(o)
      BY DEF NextDay, OfferLapses, tables
    <3>4. ASSUME NEW s \in Session, Proceed(s)
          PROVE  CommitInsert(s) \/ CommitWithdraw(s) \/ CommitAnswer(s)
      BY <3>4 DEF Proceed, CommitUsage, CommitReset, ReadCount, CommitOffer,
         ReadApplication, CommitContract, Refuse, tables
    <3> QED BY <3>1, <3>2, <3>3, <3>4 DEF Next
  <2>2. CASE CommitInsert(s)
    <3>1. ~Refuse(s)
      BY DEF Refuse, tables
    <3>2. PICK j \in Post, i \in Instructor :
            /\ ~Applied(<<j, i>>)
            /\ application' = [application EXCEPT ![<<j, i>>] =
                                 [status |-> "pending", created |-> today]]
      BY <2>2, <3>1, Inserted
    <3>3. slot # <<j, i>>
      BY <3>2
    <3> QED BY <3>2, <3>3 DEF TypeOK
  <2>3. CASE CommitWithdraw(s)
    <3>1. PICK other : application' = [application EXCEPT ![other].status = "withdrawn"]
      BY <2>3 DEF CommitWithdraw
    <3>2. [application[slot] EXCEPT !.status = "withdrawn"].status = "withdrawn"
      BY Rows DEF ApplicationRow
    <3> QED BY <3>1, <3>2 DEF TypeOK
  <2>4. CASE CommitAnswer(s)
    <3>1. Founded(session[s]) /\ RowsFounded
      BY DEF PlansInv, PlansFounded, RowsInv
    <3>2. PICK other \in Slot, status \in OfferStatus \ {"pending"} :
            application' = [application EXCEPT ![other].status = status]
      BY <2>4, <3>1, Answered
    <3>3. [application[slot] EXCEPT !.status = status].status = status
      BY Rows DEF ApplicationRow
    <3> QED BY <3>2, <3>3 DEF TypeOK
  <2> QED BY <2>1, <2>2, <2>3, <2>4
<1>2. HiringInv /\ [Next]_vars =>
        [\A slot \in Slot : application[slot] # NoApplication =>
           application'[slot] = application[slot]
             \/ application'[slot].status # "pending"]_vars
  BY <1>1 DEF Applied
<1> QED BY <1>2, HiringInvariant, PTL DEF Spec, NeverAgain

-----------------------------------------------------------------------------
(* What Recruitment sees of the tables, under names of its own.            *)
Posted == {j \in Post : post[j] # NoPost}
Opened == {j \in Post : post[j] # NoPost /\ post[j].status = "open"}
Candidates == [slot \in Slot |-> application[slot].status]
Proposals == [o \in Offer |->
                [state |-> IF HasOffer(o) THEN offer[o].status ELSE "unmade",
                 for   |-> IF HasOffer(o) THEN offer[o].application ELSE <<>>]]
Lapsed == {o \in late : /\ HasOffer(o) /\ offer[o].status = "pending"
                        /\ ~Accepting(o)}
Agreed == {o \in Offer : contracts[o] # 0}
view == <<Posted, Opened, Candidates, Proposals, Lapsed, Agreed>>

(* The promise in these names: what each of its steps does.                *)
LEMMA PublishIs ==
  ASSUME NEW j \in Post, j \notin Posted, Posted' = Posted \cup {j},
         Opened' = Opened \cup {j},
         UNCHANGED <<Candidates, Proposals, Lapsed, Agreed>>
  PROVE  Promise!Next
<1>1. Promise!Publish(j)
  BY DEF Promise!Publish, Posted, Opened, Candidates, Proposals, Lapsed, Agreed
<1> QED BY <1>1 DEF Promise!Next

(* A post is opened or closed.                                             *)
LEMMA ChangeStatusIs ==
  ASSUME NEW j \in Post, j \in Posted, Opened' \in {Opened \cup {j}, Opened \ {j}},
         UNCHANGED <<Posted, Candidates, Proposals, Lapsed, Agreed>>
  PROVE  Promise!Next
<1>1. Promise!ChangeStatus(j)
  BY DEF Promise!ChangeStatus, Posted, Opened, Candidates, Proposals, Lapsed, Agreed
<1> QED BY <1>1 DEF Promise!Next

(* A post nobody has applied to goes.                                      *)
LEMMA TakeDownIs ==
  ASSUME NEW j \in Post, \A i \in Instructor : Candidates[<<j, i>>] = "none",
         Posted' = Posted \ {j}, Opened' = Opened \ {j},
         UNCHANGED <<Candidates, Proposals, Lapsed, Agreed>>
  PROVE  Promise!Next
<1>1. Promise!TakeDown(j)
  BY DEF Promise!TakeDown, Posted, Opened, Candidates, Proposals, Lapsed, Agreed
<1> QED BY <1>1 DEF Promise!Next

(* An instructor applies, once.                                            *)
LEMMA ApplyIs ==
  ASSUME NEW c \in Slot, c[1] \in Opened, Candidates[c] = "none",
         Candidates' = [Candidates EXCEPT ![c] = "pending"],
         UNCHANGED <<Posted, Opened, Proposals, Lapsed, Agreed>>
  PROVE  Promise!Next
<1>1. Promise!Apply(c)
  BY DEF Promise!Apply, Posted, Opened, Candidates, Proposals, Lapsed, Agreed
<1> QED BY <1>1 DEF Promise!Next, Slot

(* A pending application is withdrawn.                                     *)
LEMMA WithdrawIs ==
  ASSUME NEW c \in Slot, Candidates[c] = "pending",
         Candidates' = [Candidates EXCEPT ![c] = "withdrawn"],
         UNCHANGED <<Posted, Opened, Proposals, Lapsed, Agreed>>
  PROVE  Promise!Next
<1>1. Promise!Withdraw(c)
  BY DEF Promise!Withdraw, Posted, Opened, Candidates, Proposals, Lapsed, Agreed
<1> QED BY <1>1 DEF Promise!Next, Slot

(* A new offer, the only one for its candidate.                            *)
LEMMA ProposeIs ==
  ASSUME NEW o \in Offer, NEW c \in Slot \cup {<<>>},
         Proposals[o] = [state |-> "unmade", for |-> <<>>],
         c # <<>> => /\ Candidates[c] = "pending"
                     /\ \A q \in Offer : Proposals[q].for # c,
         Proposals' = [Proposals EXCEPT ![o] = [state |-> "pending", for |-> c]],
         UNCHANGED <<Posted, Opened, Candidates, Lapsed, Agreed>>
  PROVE  Promise!Next
<1>1. Promise!Propose(o, c)
  BY DEF Promise!Propose, Promise!Unmade, Promise!Nobody,
     Posted, Opened, Candidates, Proposals, Lapsed, Agreed
<1> QED BY <1>1 DEF Promise!Next, Promise!Nobody, Slot

(* An offer that waits becomes too late.                                   *)
LEMMA LapseIs ==
  ASSUME NEW o \in Offer, Proposals[o].state = "pending",
         Lapsed' = Lapsed \cup {o},
         UNCHANGED <<Posted, Opened, Candidates, Proposals, Agreed>>
  PROVE  Promise!Next
<1>1. Promise!Lapse(o)
  BY DEF Promise!Lapse, Posted, Opened, Candidates, Proposals, Lapsed, Agreed
<1> QED BY <1>1 DEF Promise!Next

(* An offer is answered, and its candidate with it.                        *)
LEMMA SettleIs ==
  ASSUME NEW o \in Offer, NEW answer \in {"accepted", "rejected", "expired"},
         Proposals[o].state = "pending",
         answer = "accepted" => o \notin Lapsed,
         Proposals' = [Proposals EXCEPT ![o].state = answer],
         Candidates' = IF Proposals[o].for = <<>> \/ answer = "expired"
                         THEN Candidates
                         ELSE [Candidates EXCEPT ![Proposals[o].for] = answer],
         Lapsed' = Lapsed \ {o},
         UNCHANGED <<Posted, Opened, Agreed>>
  PROVE  Promise!Next
<1>1. Promise!Settle(o, answer)
  BY DEF Promise!Settle, Promise!Nobody,
     Posted, Opened, Candidates, Proposals, Lapsed, Agreed
<1> QED BY <1>1 DEF Promise!Next

(* An accepted offer gets its one contract.                                *)
LEMMA AgreeIs ==
  ASSUME NEW o \in Offer, Proposals[o].state = "accepted", o \notin Agreed,
         Agreed' = Agreed \cup {o},
         UNCHANGED <<Posted, Opened, Candidates, Proposals, Lapsed>>
  PROVE  Promise!Next
<1>1. Promise!Agree(o)
  BY DEF Promise!Agree, Posted, Opened, Candidates, Proposals, Lapsed, Agreed
<1> QED BY <1>1 DEF Promise!Next

(* What leaves the view as it is, is no step of the promise.               *)
LEMMA StutterIs ==
  ASSUME UNCHANGED view
  PROVE  UNCHANGED Promise!hiringVars
BY DEF view, Promise!hiringVars, Posted, Opened, Candidates, Proposals, Lapsed, Agreed

-----------------------------------------------------------------------------
(* One request at a time.                                                  *)

(* A plan that accepts an offer.                                           *)
Taking(p, o) == /\ p.at \in {"reread", "answer"}
                /\ p.offer = o
                /\ p.status = "accepted"
Serial == OneAtATime /\ SerialInv
Fulfils == /\ PlansCurrent'
           /\ LateMade'
           /\ Promise!Next \/ UNCHANGED Promise!hiringVars

(* With one request, what is being accepted is what this one accepts.      *)
LEMMA Alone ==
  ASSUME OneAtATime, NEW s \in Session
  PROVE  /\ \A o : Accepting(o) <=> Taking(session[s], o)
         /\ \A o : Accepting(o)' <=> Taking(session'[s], o)
         /\ PlansCurrent <=> Current(session[s])
         /\ \A plan : session'[s] = plan /\ Current(plan)' => PlansCurrent'
BY DEF OneAtATime, Accepting, Taking, PlansCurrent

(* What the parts of the view are seen in.                                 *)
LEMMA Unseen ==
  /\ post' = post => Posted' = Posted /\ Opened' = Opened
  /\ application' = application => Candidates' = Candidates
  /\ offer' = offer => Proposals' = Proposals
  /\ contracts' = contracts => Agreed' = Agreed
BY DEF Posted, Opened, Candidates, Proposals, Agreed, HasOffer

(* Offers lapse with the clock and with requests that accept them only.    *)
LEMMA UnseenLapse ==
  ASSUME UNCHANGED <<offer, late>>, \A o \in late : Accepting(o)' <=> Accepting(o)
  PROVE  Lapsed' = Lapsed
BY DEF Lapsed, HasOffer

(* What the invariant says of the request in progress.                     *)
LEMMA SerialParts ==
  ASSUME Serial, NEW s \in Session
  PROVE  /\ OneAtATime /\ TypeOK /\ RowsInv /\ PlansInv /\ LateMade
         /\ Current(session[s]) /\ Founded(session[s])
         /\ session[s] \in Plan \cup {Idle}
         /\ late \in SUBSET Offer
BY HiringInvParts, Alone DEF Serial, SerialInv, PlansInv, PlansFounded, TypeOK

(* A request that reads, plans or ends, and accepts no offer it did not    *)
(* accept before but such as are in time.                                  *)
LEMMA Planning ==
  ASSUME Serial, NEW s \in Session, NEW plan, Become(s, plan),
         UNCHANGED <<post, application, offer, contracts, late>>, Current(plan),
         \A o \in late : Taking(plan, o) <=> Taking(session[s], o)
  PROVE  Fulfils
<1>1. session'[s] = plan
  BY SerialParts DEF Become, TypeOK
<1>2. PlansCurrent'
  <2>1. Current(plan)'
    BY DEF Current, Ready, Waiting, Applied, OfferOf
  <2> QED BY <1>1, <2>1, SerialParts, Alone
<1>3. LateMade'
  BY SerialParts DEF LateMade, HasOffer
<1>4. Lapsed' = Lapsed
  BY <1>1, SerialParts, Alone, UnseenLapse
<1> QED BY <1>2, <1>3, <1>4, Unseen, StutterIs DEF view, Fulfils

(* A request that ends without having accepted an offer.                   *)
LEMMA Ending ==
  ASSUME Serial, NEW s \in Session, Become(s, Idle),
         UNCHANGED <<post, application, offer, contracts, late>>,
         \A o : ~Taking(session[s], o)
  PROVE  Fulfils
<1>1. Current(Idle) /\ \A o : ~Taking(Idle, o)
  BY DEF Current, Taking, Idle
<1> QED BY <1>1, Planning

(* A refused request writes nothing.                                       *)
LEMMA RefusedEnds ==
  ASSUME Serial, NEW s \in Session, Refuse(s), UNCHANGED clock,
         session[s].at \notin {"reread", "answer"}
  PROVE  Fulfils
<1>1. \A o : ~Taking(session[s], o)
  BY DEF Taking
<1> QED BY <1>1, Ending DEF Refuse, tables, clock

(* A request that dies gives up an offer it was accepting.                 *)
LEMMA KilledFulfils ==
  ASSUME Serial, NEW s \in Session, Killed(s)
  PROVE  Fulfils
<1>1. /\ Become(s, Idle)
      /\ UNCHANGED <<post, application, offer, contracts, late>>
  BY DEF Killed, tables, clock
<1>2. CASE \A o \in late : ~Taking(session[s], o)
  <2>1. Current(Idle) /\ \A o : ~Taking(Idle, o)
    BY DEF Current, Taking, Idle
  <2> QED BY <1>1, <1>2, <2>1, Planning
<1>3. CASE \E o \in late : Taking(session[s], o)
  <2>1. PICK o \in late : Taking(session[s], o)
    BY <1>3
  <2>2. o \in Offer /\ HasOffer(o) /\ offer[o].status = "pending"
    BY <2>1, SerialParts DEF Current, LateMade, Taking
  <2>3. session'[s] = Idle
    BY <1>1, SerialParts DEF Become, TypeOK
  <2>4. \A q : Accepting(q) <=> q = o
    BY <2>1, SerialParts, Alone DEF Taking
  <2>5. \A q : ~Accepting(q)'
    BY <2>3, SerialParts, Alone DEF Taking, Idle
  <2>6. Lapsed' = Lapsed \cup {o}
    BY <1>1, <2>1, <2>2, <2>4, <2>5 DEF Lapsed, HasOffer
  <2>7. Proposals[o].state = "pending"
    BY <2>2 DEF Proposals
  <2>8. Promise!Next
    BY <1>1, <2>2, <2>6, <2>7, Unseen, LapseIs
  <2>9. Current(Idle)'
    BY DEF Current, Idle
  <2> QED BY <1>1, <2>3, <2>8, <2>9, SerialParts, Alone
          DEF Fulfils, LateMade, HasOffer
<1> QED BY <1>2, <1>3

(* Clocks.                                                                 *)
LEMMA LapsesFulfil ==
  ASSUME Serial, NEW o \in Offer, OfferLapses(o)
  PROVE  Fulfils
<1>1. /\ UNCHANGED <<post, application, offer, contracts, session>>
      /\ late' = late \cup {o}
      /\ HasOffer(o) /\ offer[o].status = "pending"
  BY DEF OfferLapses, tables, HasOffer
<1>2. PlansCurrent' /\ LateMade'
  BY <1>1 DEF Serial, SerialInv, PlansCurrent, LateMade, Current, Ready, Waiting,
     Applied, OfferOf, HasOffer
<1>3. \A q : Accepting(q)' <=> Accepting(q)
  BY <1>1 DEF Accepting
<1>4. CASE Accepting(o)
  <2>1. Lapsed' = Lapsed
    BY <1>1, <1>3, <1>4 DEF Lapsed, HasOffer
  <2> QED BY <1>1, <1>2, <2>1, Unseen, StutterIs DEF view, Fulfils
<1>5. CASE ~Accepting(o)
  <2>1. Lapsed' = Lapsed \cup {o}
    BY <1>1, <1>3, <1>5 DEF Lapsed, HasOffer
  <2>2. Proposals[o].state = "pending"
    BY <1>1 DEF Proposals
  <2> QED BY <1>1, <1>2, <2>1, <2>2, Unseen, LapseIs DEF Fulfils
<1> QED BY <1>4, <1>5

(* Midnight is not seen.                                                   *)
LEMMA NextDayFulfils ==
  ASSUME Serial, NextDay
  PROVE  Fulfils
<1>1. UNCHANGED <<post, application, offer, contracts, late, session>>
  BY DEF NextDay, tables
<1>2. PlansCurrent' /\ LateMade'
  BY <1>1 DEF Serial, SerialInv, PlansCurrent, LateMade, Current, Ready, Waiting,
     Applied, OfferOf, HasOffer
<1>3. Lapsed' = Lapsed
  BY <1>1, UnseenLapse DEF Accepting
<1> QED BY <1>1, <1>2, <1>3, Unseen, StutterIs DEF view, Fulfils

-----------------------------------------------------------------------------
(* Requests that plan.                                                     *)

(* A request that begins accepts nothing yet.                              *)
LEMMA Beginning ==
  ASSUME Serial, NEW s \in Session, NEW plan, Begin(s, plan), Current(plan),
         \A o \in late : ~Taking(plan, o)
  PROVE  Fulfils
<1>1. \A o : ~Taking(session[s], o)
  BY DEF Begin, IsIdle, At, Taking
<1> QED BY <1>1, Planning DEF Begin, tables, clock

(* The counters of a day are not seen.                                     *)
LEMMA UsageFulfils ==
  ASSUME Serial, NEW s \in Session, UsageRequest(s)
  PROVE  Fulfils
<1>1. PICK u \in User : UsageStatus(s, u) \/ \E i \in Instructor : ViewProfile(s, u, i)
  BY DEF UsageRequest
<1>2. CASE UsageStatus(s, u)
  <2> DEFINE plan == [at |-> "reset", user |-> u, loaded |-> usage[u],
                      wanted |-> Refreshed(u)]
  <2>1. Begin(s, plan)
    BY <1>2 DEF UsageStatus
  <2>2. plan.at = "reset"
    OBVIOUS
  <2> HIDE DEF plan
  <2> QED BY <2>1, <2>2, Beginning DEF Current, Taking
<1>3. CASE \E i \in Instructor : ViewProfile(s, u, i)
  <2>1. PICK wanted : Begin(s, ToUse(u, "profile_view", wanted, NoSlot, 0))
    BY <1>3 DEF ViewProfile
  <2> DEFINE plan == ToUse(u, "profile_view", wanted, NoSlot, 0)
  <2>2. plan.at = "usage" /\ plan.counter = "profile_view"
    BY DEF ToUse
  <2> HIDE DEF plan
  <2>3. Current(plan) /\ \A o : ~Taking(plan, o)
    BY <2>2 DEF Current, Taking
  <2> QED BY <2>1, <2>3, Beginning DEF plan
<1> QED BY <1>1, <1>2, <1>3

(* Applying, withdrawing and answering only plan.                          *)
LEMMA InstructorFulfils ==
  ASSUME Serial, NEW s \in Session, InstructorRequest(s)
  PROVE  Fulfils
<1>1. ASSUME NEW j \in Post, NEW i \in Instructor, Apply(s, j, i)
      PROVE  Fulfils
  <2>1. Ready(<<j, i>>)
    BY <1>1 DEF Apply, Ready, Applied
  <2>2. CASE i \in Premium
    <3> DEFINE plan == [at |-> "insert", slot |-> <<j, i>>, count |-> post[j].count,
                        seen |-> tracked[<<i, today>>]["application"],
                        day |-> today]
    <3>1. Begin(s, plan)
      BY <1>1, <2>2 DEF Apply
    <3>2. plan.at = "insert" /\ plan.slot = <<j, i>>
      OBVIOUS
    <3> HIDE DEF plan
    <3> QED BY <2>1, <3>1, <3>2, Beginning DEF Current, Taking
  <2>3. CASE i \notin Premium
    <3> DEFINE plan == ToUse(i, "application", Charged(i, "application"),
                             <<j, i>>, post[j].count)
    <3>1. Begin(s, plan)
      BY <1>1, <2>3 DEF Apply
    <3>2. plan.at = "usage" /\ plan.slot = <<j, i>>
      BY DEF ToUse
    <3> HIDE DEF plan
    <3> QED BY <2>1, <3>1, <3>2, Beginning DEF Current, Taking
  <2> QED BY <2>2, <2>3
<1>2. ASSUME NEW j \in Post, NEW i \in Instructor, Withdraw(s, j, i)
      PROVE  Fulfils
  <2> DEFINE plan == [at |-> "recount", slot |-> <<j, i>>]
  <2>1. Begin(s, plan) /\ Waiting(<<j, i>>)
    BY <1>2 DEF Withdraw, Waiting, Applied
  <2>2. plan.at = "recount" /\ plan.slot = <<j, i>>
    OBVIOUS
  <2> HIDE DEF plan
  <2> QED BY <2>1, <2>2, Beginning DEF Current, Taking
<1>3. ASSUME NEW o \in Offer, NEW answer \in {"accepted", "rejected"},
             Answer(s, o, answer)
      PROVE  Fulfils
  <2> DEFINE expired == answer = "accepted" /\ o \in late
             reread == ~expired /\ offer[o].application # Direct
             plan == [at |-> IF reread THEN "reread" ELSE "answer", offer |-> o,
                      status |-> IF expired THEN "expired" ELSE answer,
                      writeApplication |-> FALSE]
  <2>1. Begin(s, plan) /\ offer[o].status = "pending"
    BY <1>3 DEF Answer
  <2>2. /\ plan.offer = o
        /\ plan.at \in {"reread", "answer"}
        /\ plan.at = "answer" =>
             plan.status = "expired" \/ offer[o].application = Direct
        /\ plan.status = "accepted" => o \notin late
    OBVIOUS
  <2> HIDE DEF plan
  <2>3. Current(plan)
    BY <2>1, <2>2 DEF Current
  <2>4. \A q \in late : ~Taking(plan, q)
    BY <2>2 DEF Taking
  <2> QED BY <2>1, <2>3, <2>4, Beginning
<1> QED BY <1>1, <1>2, <1>3 DEF InstructorRequest

(* Offers and contracts are planned.                                       *)
LEMMA OfferFulfils ==
  ASSUME Serial, NEW s \in Session, OfferRequest(s)
  PROVE  Fulfils
<1>1. ASSUME NEW o \in Offer, CreateContract(s, o)
      PROVE  Fulfils
  <2> DEFINE plan == [at |-> "contract", offer |-> o]
  <2>1. Begin(s, plan) /\ offer[o].status = "accepted"
    BY <1>1 DEF CreateContract
  <2>2. plan.at = "contract" /\ plan.offer = o
    OBVIOUS
  <2> HIDE DEF plan
  <2> QED BY <2>1, <2>2, Beginning DEF Current, Taking
<1>2. ASSUME NEW o \in Offer, NEW slot \in Slot \cup {Direct}, CreateOffer(s, o, slot)
      PROVE  Fulfils
  <2> DEFINE plan == [at |-> "offer", offer |-> o, application |-> slot]
  <2>1. Begin(s, plan) /\ (slot # Direct => Waiting(slot) /\ OfferOf(slot) = {})
    BY <1>2 DEF CreateOffer, Waiting, Applied
  <2>2. plan.at = "offer" /\ plan.application = slot
    OBVIOUS
  <2> HIDE DEF plan
  <2> QED BY <2>1, <2>2, Beginning DEF Current, Taking
<1> QED BY <1>1, <1>2 DEF OfferRequest

-----------------------------------------------------------------------------
(* Requests that write.                                                    *)

(* Posts are made, opened, closed and taken down at once.                  *)
LEMMA PostFulfils ==
  ASSUME Serial, NEW s \in Session, PostRequest(s)
  PROVE  Fulfils
<1>1. PICK j \in Post : \/ CreatePost(s, j)
                        \/ \E status \in PostStatus : UpdatePost(s, j, status)
                        \/ DeletePost(s, j)
  BY DEF PostRequest
<1>2. UNCHANGED <<application, offer, contracts, late, session>> /\ IsIdle(s)
  BY <1>1 DEF CreatePost, UpdatePost, DeletePost, clock
<1>3. PlansCurrent' /\ LateMade'
  <2>1. session'[s] = session[s] /\ session[s].at = "idle"
    BY <1>2 DEF IsIdle, At
  <2>2. Current(session[s])'
    BY <1>2, <2>1 DEF Current
  <2>3. PlansCurrent'
    BY <1>2, <2>2, SerialParts DEF PlansCurrent, OneAtATime
  <2> QED BY <1>2, <2>3, SerialParts DEF LateMade, HasOffer
<1>4. Lapsed' = Lapsed
  BY <1>2, UnseenLapse DEF Accepting
<1>5. post \in [Post -> PostRow \cup {NoPost}]
  BY SerialParts DEF TypeOK
<1>6. CASE CreatePost(s, j)
  <2>1. post[j] = NoPost /\ post' = [post EXCEPT ![j] = [status |-> "open", count |-> 0]]
    BY <1>6 DEF CreatePost, NewPost
  <2>2. [status |-> "open", count |-> 0] # NoPost
    <3>1. DOMAIN [status |-> "open", count |-> 0] = {"status", "count"}
      OBVIOUS
    <3>2. DOMAIN NoPost = {"status"}
      BY DEF NoPost
    <3> QED BY <3>1, <3>2
  <2>3. /\ j \notin Posted
        /\ Posted' = Posted \cup {j}
        /\ Opened' = Opened \cup {j}
    BY <1>5, <2>1, <2>2 DEF Posted, Opened
  <2> QED BY <1>2, <1>3, <1>4, <2>3, Unseen, PublishIs DEF Fulfils
<1>7. CASE \E status \in PostStatus : UpdatePost(s, j, status)
  <2>1. PICK status : /\ post[j] # NoPost
                      /\ post' = [post EXCEPT ![j].status = status]
    BY <1>7 DEF UpdatePost
  <2>2. post[j] \in PostRow
    BY <1>5, <2>1
  <2>3. /\ [post[j] EXCEPT !.status = status] # NoPost
        /\ [post[j] EXCEPT !.status = status].status = status
    <3>1. DOMAIN [post[j] EXCEPT !.status = status] = {"status", "count"}
      BY <2>2 DEF PostRow
    <3>2. DOMAIN NoPost = {"status"}
      BY DEF NoPost
    <3>3. [post[j] EXCEPT !.status = status].status = status
      BY <2>2 DEF PostRow
    <3> QED BY <3>1, <3>2, <3>3
  <2>4. /\ j \in Posted
        /\ Posted' = Posted
        /\ Opened' \in {Opened \cup {j}, Opened \ {j}}
    <3>1. \A k \in Post : post'[k] = IF k = j THEN [post[j] EXCEPT !.status = status]
                                               ELSE post[k]
      BY <1>5, <2>1
    <3>2. Posted' = Posted
      BY <2>1, <2>3, <3>1 DEF Posted
    <3>3. CASE status = "open"
      <4>1. Opened' = Opened \cup {j}
        BY <2>3, <3>1, <3>3 DEF Opened
      <4> QED BY <2>1, <3>2, <4>1 DEF Posted
    <3>4. CASE status # "open"
      <4>1. Opened' = Opened \ {j}
        BY <2>3, <3>1, <3>4 DEF Opened
      <4> QED BY <2>1, <3>2, <4>1 DEF Posted
    <3> QED BY <3>3, <3>4
  <2> QED BY <1>2, <1>3, <1>4, <2>4, Unseen, ChangeStatusIs DEF Fulfils
<1>8. CASE DeletePost(s, j)
  <2>1. /\ \A i \in Instructor : application[<<j, i>>] = NoApplication
        /\ post' = [post EXCEPT ![j] = NoPost]
    BY <1>8 DEF DeletePost
  <2>2. \A i \in Instructor : Candidates[<<j, i>>] = "none"
    <3>1. \A i \in Instructor : <<j, i>> \in Slot
      BY DEF Slot
    <3> QED BY <2>1, <3>1 DEF Candidates, NoApplication
  <2>3. Posted' = Posted \ {j} /\ Opened' = Opened \ {j}
    BY <1>5, <2>1 DEF Posted, Opened
  <2> QED BY <1>2, <1>3, <1>4, <2>2, <2>3, Unseen, TakeDownIs DEF Fulfils
<1> QED BY <1>1, <1>6, <1>7, <1>8

(* The counters are not part of the promise.                               *)
LEMMA CounterFulfils ==
  ASSUME Serial, NEW s \in Session, CommitUsage(s) \/ CommitReset(s)
  PROVE  Fulfils
<1> DEFINE p == session[s]
<1>1. CASE CommitReset(s)
  <2>1. /\ Become(s, Idle) /\ p.at = "reset"
        /\ UNCHANGED <<post, application, offer, contracts, late>>
    BY <1>1 DEF CommitReset, At, clock
  <2>2. \A o : ~Taking(p, o)
    BY <2>1 DEF Taking
  <2> QED BY <2>1, <2>2, Ending
<1>2. CASE CommitUsage(s) /\ Refuse(s)
  BY <1>2, RefusedEnds DEF CommitUsage, At
<1>3. CASE CommitUsage(s) /\ ~Refuse(s)
  <2>1. /\ p.at = "usage"
        /\ UNCHANGED <<post, application, offer, contracts, late>>
        /\ Become(s, IF p.counter = "profile_view" THEN Idle
                     ELSE [at |-> "insert", slot |-> p.slot,
                           count |-> p.count, seen |-> NoWrite,
                           day |-> p.wanted.day])
    BY <1>3 DEF CommitUsage, At, clock
  <2>2. \A o : ~Taking(p, o)
    BY <2>1 DEF Taking
  <2>3. CASE p.counter = "profile_view"
    BY <2>1, <2>2, <2>3, Ending
  <2>4. CASE p.counter # "profile_view"
    <3> DEFINE plan == [at |-> "insert", slot |-> p.slot, count |-> p.count,
                        seen |-> NoWrite, day |-> p.wanted.day]
    <3>1. p.counter = "application"
      <4>1. p \in UsagePlan
        BY <2>1, SerialParts, PlanKinds DEF TypeOK, At
      <4> QED BY <2>4, <4>1 DEF UsagePlan, Counter
    <3>2. Ready(p.slot)
      BY <2>1, <3>1, SerialParts DEF Current
    <3>3. plan.at = "insert" /\ plan.slot = p.slot
      OBVIOUS
    <3>4. Become(s, plan)
      BY <2>1, <2>4
    <3> HIDE DEF plan
    <3>5. Current(plan) /\ \A o : ~Taking(plan, o)
      BY <3>2, <3>3 DEF Current, Taking
    <3> QED BY <2>1, <2>2, <3>4, <3>5, Planning
  <2> QED BY <2>3, <2>4
<1> QED BY <1>1, <1>2, <1>3

(* Whatever was written: a request that has ended rests on nothing.        *)
LEMMA Ended ==
  ASSUME Serial, NEW s \in Session, Become(s, Idle)
  PROVE  PlansCurrent' /\ \A o : ~Accepting(o)'
<1>1. session'[s] = Idle
  BY SerialParts DEF Become, TypeOK
<1>2. Current(Idle)' /\ \A o : ~Taking(Idle, o)
  BY DEF Current, Taking, Idle
<1> QED BY <1>1, <1>2, SerialParts, Alone

(* A post that is counted is the same post.                                *)
LEMMA CountUnseen ==
  ASSUME Serial, NEW s \in Session, NEW j \in Post, NEW n, post[j] # NoPost,
         post' = [post EXCEPT ![j].count = n]
  PROVE  Posted' = Posted /\ Opened' = Opened
<1>1. post \in [Post -> PostRow \cup {NoPost}]
  BY SerialParts DEF TypeOK
<1>2. post[j] \in PostRow
  BY <1>1
<1>3. /\ [post[j] EXCEPT !.count = n] # NoPost
      /\ [post[j] EXCEPT !.count = n].status = post[j].status
  <2>1. DOMAIN [post[j] EXCEPT !.count = n] = {"status", "count"}
    BY <1>2 DEF PostRow
  <2>2. DOMAIN NoPost = {"status"}
    BY DEF NoPost
  <2>3. [post[j] EXCEPT !.count = n].status = post[j].status
    BY <1>2 DEF PostRow
  <2> QED BY <2>1, <2>2, <2>3
<1>4. \A k \in Post : post'[k] = IF k = j THEN [post[j] EXCEPT !.count = n] ELSE post[k]
  BY <1>1
<1>5. \A k \in Post : /\ post'[k] # NoPost <=> post[k] # NoPost
                      /\ post[k] # NoPost => post'[k].status = post[k].status
  BY <1>3, <1>4
<1> QED BY <1>5 DEF Posted, Opened

(* Applying.                                                               *)
LEMMA InsertFulfils ==
  ASSUME Serial, NEW s \in Session, CommitInsert(s)
  PROVE  Fulfils
<1>0. UNCHANGED clock /\ session[s].at = "insert"
  BY DEF CommitInsert, At
<1>1. CASE Refuse(s)
  BY <1>0, <1>1, RefusedEnds
<1>2. CASE ~Refuse(s)
  <2>1. PICK j \in Post, i \in Instructor :
              /\ session[s].slot = <<j, i>>
              /\ <<j, i>> \in Slot
              /\ ~Applied(<<j, i>>)
              /\ application' = [application EXCEPT ![<<j, i>>] =
                                   [status |-> "pending", created |-> today]]
              /\ post' = [post EXCEPT ![j].count = session[s].count + 1]
              /\ Become(s, Idle)
              /\ UNCHANGED <<offer, contracts>>
    BY <1>2, SerialParts, Inserted
  <2>2. post[j] # NoPost /\ post[j].status = "open"
    BY <1>0, <2>1, SerialParts DEF Current, Ready
  <2>3. Posted' = Posted /\ Opened' = Opened
    BY <2>1, <2>2, CountUnseen
  <2>4. PlansCurrent' /\ \A o : ~Accepting(o)'
    BY <2>1, Ended
  <2>5. \A o : ~Accepting(o)
    BY <1>0, SerialParts, Alone DEF Taking
  <2>6. late' = late
    BY <1>0 DEF clock
  <2>7. Lapsed' = Lapsed /\ LateMade'
    BY <2>1, <2>4, <2>5, <2>6, UnseenLapse, SerialParts DEF LateMade, HasOffer
  <2>8. Candidates[<<j, i>>] = "none"
    BY <2>1 DEF Candidates, Applied, NoApplication
  <2>9. Candidates' = [Candidates EXCEPT ![<<j, i>>] = "pending"]
    <3>1. application \in [Slot -> ApplicationRow \cup {NoApplication}]
      BY SerialParts DEF TypeOK
    <3>2. \A slot \in Slot : application'[slot].status =
            IF slot = <<j, i>> THEN "pending" ELSE application[slot].status
      BY <2>1, <3>1
    <3> QED BY <3>2 DEF Candidates
  <2>10. <<j, i>>[1] \in Opened
    BY <2>2 DEF Opened
  <2>11. PICK c \in Slot : c = <<j, i>>
    BY <2>1
  <2>12. Promise!Next
    BY <2>1, <2>3, <2>7, <2>8, <2>9, <2>10, <2>11, Unseen, ApplyIs
  <2> QED BY <2>4, <2>7, <2>12 DEF Fulfils
<1> QED BY <1>1, <1>2

(* Withdrawing: what is read first, and the new status.                    *)
LEMMA ReadCountFulfils ==
  ASSUME Serial, NEW s \in Session, ReadCount(s)
  PROVE  Fulfils
<1>1. PICK slot : slot = session[s].slot
  OBVIOUS
<1>2. PICK count : Become(s, [at |-> "withdraw", slot |-> slot, count |-> count])
  BY <1>1 DEF ReadCount
<1> DEFINE plan == [at |-> "withdraw", slot |-> slot, count |-> count]
<1>3. plan.at = "withdraw" /\ plan.slot = slot /\ Become(s, plan)
  BY <1>2
<1>4. /\ session[s].at = "recount"
      /\ UNCHANGED <<post, application, offer, contracts, late>>
  BY DEF ReadCount, At, tables, clock
<1>5. Waiting(slot)
  BY <1>1, <1>4, SerialParts DEF Current
<1> HIDE DEF plan
<1>6. Current(plan)
  BY <1>3, <1>5 DEF Current
<1>7. \A o : ~Taking(plan, o) /\ ~Taking(session[s], o)
  BY <1>3, <1>4 DEF Taking
<1> QED BY <1>3, <1>4, <1>6, <1>7, Planning

(* A withdrawal takes its application, and at most lowers a count.         *)
LEMMA WithdrawFulfils ==
  ASSUME Serial, NEW s \in Session, CommitWithdraw(s)
  PROVE  Fulfils
<1>1. session[s].at = "withdraw" /\ session[s] \in WithdrawPlan
  BY SerialParts, PlanKinds DEF CommitWithdraw, TypeOK, At
<1>2. PICK c \in Slot : c = session[s].slot
  BY <1>1 DEF WithdrawPlan
<1>3. PICK j \in Post : j = c[1]
  BY DEF Slot
<1>4. /\ application' = [application EXCEPT ![c].status = "withdrawn"]
      /\ \/ post' = post
         \/ \E n : post' = [post EXCEPT ![j].count = n]
      /\ Become(s, Idle)
      /\ UNCHANGED <<offer, contracts, late>>
  BY <1>2, <1>3 DEF CommitWithdraw, clock
<1>5. Applied(c) /\ application[c].status = "pending"
  BY <1>1, <1>2, SerialParts DEF Current, Waiting
<1>6. post[j] # NoPost
  BY <1>3, <1>5, SerialParts DEF RowsInv, RowsFounded
<1>7. Posted' = Posted /\ Opened' = Opened
  BY <1>4, <1>6, CountUnseen, Unseen
<1>8. PlansCurrent' /\ \A o : ~Accepting(o)'
  BY <1>4, Ended
<1>9. \A o : ~Accepting(o)
  BY <1>1, SerialParts, Alone DEF Taking
<1>10. Lapsed' = Lapsed /\ LateMade'
  BY <1>4, <1>8, <1>9, UnseenLapse, SerialParts DEF LateMade, HasOffer
<1>11. Candidates[c] = "pending"
  BY <1>5 DEF Candidates
<1>12. Candidates' = [Candidates EXCEPT ![c] = "withdrawn"]
  <2>1. application \in [Slot -> ApplicationRow \cup {NoApplication}]
    BY SerialParts DEF TypeOK
  <2>2. application[c] \in ApplicationRow
    BY <2>1, <1>5 DEF Applied
  <2>3. [application[c] EXCEPT !.status = "withdrawn"].status = "withdrawn"
    BY <2>2 DEF ApplicationRow
  <2>4. \A slot \in Slot : application'[slot].status =
          IF slot = c THEN "withdrawn" ELSE application[slot].status
    BY <1>4, <2>1, <2>3
  <2> QED BY <2>4 DEF Candidates
<1>13. Promise!Next
  BY <1>4, <1>7, <1>10, <1>11, <1>12, Unseen, WithdrawIs
<1> QED BY <1>8, <1>10, <1>13 DEF Fulfils

(* Offering.                                                               *)
LEMMA CommitOfferFulfils ==
  ASSUME Serial, NEW s \in Session, CommitOffer(s)
  PROVE  Fulfils
<1>0. UNCHANGED clock /\ session[s].at = "offer"
  BY DEF CommitOffer, At
<1>1. CASE Refuse(s)
  BY <1>0, <1>1, RefusedEnds
<1>2. CASE ~Refuse(s)
  <2>1. session[s] \in OfferPlan
    BY <1>0, SerialParts, PlanKinds DEF TypeOK, At
  <2>2. PICK o \in Offer, c \in Slot \cup {Direct} :
          o = session[s].offer /\ c = session[s].application
    BY <2>1 DEF OfferPlan
  <2>3. /\ ~HasOffer(o)
        /\ c # Direct => Waiting(c) /\ OfferOf(c) = {}
    BY <1>0, <2>2, SerialParts DEF Founded, Current
  <2> DEFINE row == [status |-> "pending", application |-> c]
  <2>4. /\ offer' = [offer EXCEPT ![o] = row]
        /\ Become(s, Idle)
        /\ UNCHANGED <<post, application, contracts, late>>
    BY <1>2, <2>2 DEF CommitOffer, clock
  <2>5. row # NoOffer
    <3>1. row.status = "pending" /\ NoOffer.status = "none"
      BY DEF NoOffer
    <3> QED BY <3>1
  <2>6. row.status = "pending" /\ row.application = c
    OBVIOUS
  <2> HIDE DEF row
  <2>7. /\ offer'[o] = row
        /\ \A q \in Offer : q # o => offer'[q] = offer[q]
    BY <2>4, SerialParts DEF TypeOK
  <2>8. PlansCurrent' /\ \A q : ~Accepting(q)'
    BY <2>4, Ended
  <2>9. \A q : ~Accepting(q)
    BY <1>0, SerialParts, Alone DEF Taking
  <2>10. o \notin late /\ late \in SUBSET Offer /\ LateMade
    BY <2>3, SerialParts DEF LateMade
  <2>11. Lapsed' = Lapsed /\ LateMade'
    BY <2>4, <2>7, <2>8, <2>9, <2>10 DEF Lapsed, LateMade, HasOffer
  <2>12. Proposals[o] = [state |-> "unmade", for |-> <<>>]
    BY <2>3 DEF Proposals
  <2>13. Proposals' = [Proposals EXCEPT ![o] = [state |-> "pending", for |-> c]]
    <3>1. \A q \in Offer :
            [state |-> IF HasOffer(q)' THEN offer'[q].status ELSE "unmade",
             for   |-> IF HasOffer(q)' THEN offer'[q].application ELSE <<>>]
            = IF q = o THEN [state |-> "pending", for |-> c] ELSE Proposals[q]
      BY <2>5, <2>6, <2>7 DEF Proposals, HasOffer
    <3> QED BY <3>1 DEF Proposals
  <2>14. c # <<>> => /\ Candidates[c] = "pending"
                     /\ \A q \in Offer : Proposals[q].for # c
    BY <2>2, <2>3 DEF Candidates, Waiting, Proposals, OfferOf, HasOffer, Direct
  <2>15. Promise!Next
    BY <2>2, <2>4, <2>11, <2>12, <2>13, <2>14, Unseen, ProposeIs DEF Direct
  <2> QED BY <2>8, <2>11, <2>15 DEF Fulfils
<1> QED BY <1>1, <1>2

(* Agreeing.                                                               *)
LEMMA CommitContractFulfils ==
  ASSUME Serial, NEW s \in Session, CommitContract(s)
  PROVE  Fulfils
<1>0. UNCHANGED clock /\ session[s].at = "contract"
  BY DEF CommitContract, At
<1>1. CASE Refuse(s)
  BY <1>0, <1>1, RefusedEnds
<1>2. CASE ~Refuse(s)
  <2>1. session[s] \in ContractPlan
    BY <1>0, SerialParts, PlanKinds DEF TypeOK, At
  <2>2. PICK o \in Offer : o = session[s].offer
    BY <2>1 DEF ContractPlan
  <2>3. /\ contracts[o] = 0
        /\ contracts' = [contracts EXCEPT ![o] = @ + 1]
        /\ Become(s, Idle)
        /\ UNCHANGED <<post, application, offer, late>>
    BY <1>2, <2>2 DEF CommitContract, clock
  <2>4. HasOffer(o) /\ offer[o].status = "accepted"
    BY <1>0, <2>2, SerialParts DEF Founded, Current
  <2>5. PlansCurrent' /\ \A q : ~Accepting(q)'
    BY <2>3, Ended
  <2>6. \A q : ~Accepting(q)
    BY <1>0, SerialParts, Alone DEF Taking
  <2>7. Lapsed' = Lapsed /\ LateMade'
    BY <2>3, <2>5, <2>6, UnseenLapse, SerialParts DEF LateMade, HasOffer
  <2>8. o \notin Agreed /\ Agreed' = Agreed \cup {o}
    BY <2>3, SerialParts DEF Agreed, TypeOK
  <2>9. Proposals[o].state = "accepted"
    BY <2>4 DEF Proposals
  <2> QED BY <2>3, <2>5, <2>7, <2>8, <2>9, Unseen, AgreeIs DEF Fulfils
<1> QED BY <1>1, <1>2

(* Answering: the application is read again, then both rows are written.   *)
LEMMA ReadApplicationFulfils ==
  ASSUME Serial, NEW s \in Session, ReadApplication(s)
  PROVE  Fulfils
<1> DEFINE p == session[s]
           write == application[offer[p.offer].application].status # p.status
           plan == [p EXCEPT !.at = "answer", !.writeApplication = write]
<1>1. /\ p.at = "reread" /\ Become(s, plan)
      /\ UNCHANGED <<post, application, offer, contracts, late>>
  BY DEF ReadApplication, At, tables, clock
<1>2. p \in AnswerPlan
  BY <1>1, SerialParts, PlanKinds DEF TypeOK, At
<1>3. /\ plan.at = "answer" /\ plan.offer = p.offer /\ plan.status = p.status
      /\ plan.writeApplication = write
  BY <1>2 DEF AnswerPlan
<1>4. offer[p.offer].status = "pending"
  BY <1>1, SerialParts DEF Current
<1>5. PICK q \in BOOLEAN : q = write
  OBVIOUS
<1>6. q = write /\ plan.writeApplication = q
  BY <1>3, <1>5
<1> HIDE DEF plan
<1>7. Current(plan)
  BY <1>3, <1>4, <1>6 DEF Current
<1>8. \A o : Taking(plan, o) <=> Taking(p, o)
  BY <1>1, <1>3 DEF Taking
<1> QED BY <1>1, <1>7, <1>8, Planning

(* An answer settles its offer and, unless nobody or too late, its candidate. *)
LEMMA CommitAnswerFulfils ==
  ASSUME Serial, NEW s \in Session, CommitAnswer(s)
  PROVE  Fulfils
<1> DEFINE p == session[s]
<1>1. p \in AnswerPlan /\ p.at = "answer"
  BY SerialParts, PlanKinds DEF CommitAnswer, TypeOK, At
<1>2. PICK o \in Offer, answer \in {"accepted", "rejected", "expired"} :
        o = p.offer /\ answer = p.status
  BY <1>1 DEF AnswerPlan, OfferStatus
<1>3. PICK c : c = offer[o].application
  OBVIOUS
<1>4. /\ HasOffer(o) /\ offer[o] \in OfferRow /\ offer[o].status = "pending"
      /\ c \in Slot \cup {Direct}
      /\ c # Direct => Applied(c)
  <2>1. HasOffer(o)
    BY <1>1, <1>2, SerialParts DEF Founded
  <2>2. offer[o] \in OfferRow
    BY <2>1, SerialParts, Rows
  <2>3. offer[o].status = "pending"
    BY <1>1, <1>2, SerialParts DEF Current
  <2> QED BY <1>3, <2>1, <2>2, <2>3, SerialParts DEF OfferRow, RowsInv, RowsFounded
<1>5. /\ offer' = [offer EXCEPT ![o].status = answer]
      /\ p.writeApplication =>
           application' = [application EXCEPT ![c].status = answer]
      /\ ~p.writeApplication => application' = application
      /\ Become(s, Idle)
      /\ UNCHANGED <<post, contracts, late>>
  BY <1>2, <1>3 DEF CommitAnswer, clock
<1>6. [offer[o] EXCEPT !.status = answer] \in OfferRow
  BY <1>4 DEF OfferRow, OfferStatus
<1>7. /\ [offer[o] EXCEPT !.status = answer].status = answer
      /\ [offer[o] EXCEPT !.status = answer].application = c
  BY <1>3, <1>4 DEF OfferRow
<1>8. \A row \in OfferRow : row # NoOffer
  <2>1. \A row \in OfferRow : row.status \in OfferStatus
    BY DEF OfferRow
  <2> QED BY <2>1 DEF NoOffer, OfferStatus
<1>9. /\ HasOffer(o)' /\ offer'[o].status = answer /\ offer'[o].application = c
      /\ \A q \in Offer : q # o => offer'[q] = offer[q]
  <2>1. offer \in [Offer -> OfferRow \cup {NoOffer}]
    BY SerialParts DEF TypeOK
  <2>2. offer'[o] = [offer[o] EXCEPT !.status = answer]
    BY <1>5, <2>1
  <2> QED BY <1>5, <1>6, <1>7, <1>8, <2>1, <2>2 DEF HasOffer
<1>10. PlansCurrent' /\ \A q : ~Accepting(q)'
  BY <1>5, Ended
<1>11. \A q : Accepting(q) <=> q = o /\ answer = "accepted"
  BY <1>1, <1>2, SerialParts, Alone DEF Taking
<1>12. LateMade' /\ Lapsed' = Lapsed \ {o}
  <2>1. late' = late /\ late \in SUBSET Offer /\ LateMade
    BY <1>5, SerialParts
  <2>2. LateMade'
    BY <1>9, <2>1 DEF LateMade, HasOffer
  <2>3. answer # "pending"
    OBVIOUS
  <2> QED BY <1>9, <1>10, <1>11, <2>1, <2>2, <2>3 DEF Lapsed, HasOffer
<1>13. answer = "accepted" => o \notin Lapsed
  BY <1>11 DEF Lapsed
<1>14. /\ Proposals[o].state = "pending" /\ Proposals[o].for = c
       /\ Proposals' = [Proposals EXCEPT ![o].state = answer]
  <2>1. Proposals[o] = [state |-> "pending", for |-> c]
    BY <1>3, <1>4 DEF Proposals
  <2>2. \A q \in Offer :
          [state |-> IF HasOffer(q)' THEN offer'[q].status ELSE "unmade",
           for   |-> IF HasOffer(q)' THEN offer'[q].application ELSE <<>>]
          = IF q = o THEN [state |-> answer, for |-> c] ELSE Proposals[q]
    BY <1>9 DEF Proposals, HasOffer
  <2>3. Proposals' = [q \in Offer |-> IF q = o THEN [state |-> answer, for |-> c]
                                              ELSE Proposals[q]]
    BY <2>2 DEF Proposals
  <2>4. [Proposals[o] EXCEPT !.state = answer] = [state |-> answer, for |-> c]
    BY <2>1
  <2>5. Proposals' = [Proposals EXCEPT ![o] = [Proposals[o] EXCEPT !.state = answer]]
    <3>1. DOMAIN Proposals = Offer
      BY DEF Proposals
    <3> QED BY <2>3, <2>4, <3>1
  <2> QED BY <2>1, <2>5
<1>15. Candidates' = IF c = <<>> \/ answer = "expired" THEN Candidates
                     ELSE [Candidates EXCEPT ![c] = answer]
  <2>0. application \in [Slot -> ApplicationRow \cup {NoApplication}]
    BY SerialParts DEF TypeOK
  <2>1. CASE p.writeApplication
    <3>1. c # Direct /\ answer # "expired"
      BY <1>1, <1>2, <1>3, <2>1, SerialParts DEF Founded
    <3>2. c \in Slot /\ application[c] \in ApplicationRow
      BY <1>4, <2>0, <3>1 DEF Applied
    <3>3. [application[c] EXCEPT !.status = answer].status = answer
      BY <3>2 DEF ApplicationRow
    <3>4. \A slot \in Slot : application'[slot].status =
            IF slot = c THEN answer ELSE application[slot].status
      BY <1>5, <2>0, <2>1, <3>2, <3>3
    <3>5. Candidates' = [Candidates EXCEPT ![c] = answer]
      BY <3>4 DEF Candidates
    <3> QED BY <3>1, <3>5 DEF Direct
  <2>2. CASE ~p.writeApplication
    <3>1. Candidates' = Candidates
      BY <1>5, <2>2, Unseen
    <3>2. CASE c = <<>> \/ answer = "expired"
      BY <3>1, <3>2
    <3>3. CASE c # <<>> /\ answer # "expired"
      <4>1. c \in Slot
        BY <1>4, <3>3 DEF Direct
      <4>2. application[c].status = answer
        BY <1>1, <1>2, <1>3, <2>2, <3>3, SerialParts DEF Current, Direct
      <4>3. Candidates[c] = answer
        BY <4>1, <4>2 DEF Candidates
      <4>4. [Candidates EXCEPT ![c] = answer] = Candidates
        BY <4>1, <4>3 DEF Candidates
      <4> QED BY <3>1, <3>3, <4>4
    <3> QED BY <3>2, <3>3
  <2> QED BY <2>1, <2>2
<1>16. Promise!Next
  <2>1. Posted' = Posted /\ Opened' = Opened /\ Agreed' = Agreed
    BY <1>5, Unseen
  <2> QED BY <1>12, <1>13, <1>14, <1>15, <2>1, SettleIs
<1> QED BY <1>10, <1>12, <1>16 DEF Fulfils

-----------------------------------------------------------------------------
(* The promise.                                                            *)

(* The empty database is the empty promise.                                *)
LEMMA PromiseInit ==
  ASSUME Init
  PROVE  Promise!Init /\ PlansCurrent /\ LateMade
<1>1. PlansCurrent /\ LateMade
  BY DEF Init, PlansCurrent, Current, Idle, LateMade
<1>2. \A o : ~Accepting(o)
  BY DEF Init, Accepting, Idle
<1> QED BY <1>1, <1>2
        DEF Init, Promise!Init, Promise!Unmade, Promise!Nobody, HasOffer, NoOffer,
            NoPost, NoApplication, Slot

(* Every step keeps the plans current and fulfils the promise.             *)
LEMMA SerialStep ==
  ASSUME OneAtATime, SerialInv, [Next]_vars
  PROVE  SerialInv' /\ Fulfils
<1>0. Serial
  BY DEF Serial
<1>1. HiringInv'
  BY HiringStep DEF SerialInv
<1>2. Fulfils
  <2>1. CASE UNCHANGED vars
    <3>1. UNCHANGED <<post, application, offer, contracts, late, session>>
      BY <2>1 DEF vars, tables, clock
    <3>2. PlansCurrent' /\ LateMade'
      BY <3>1 DEF SerialInv, PlansCurrent, LateMade, Current, Ready, Waiting,
         Applied, OfferOf, HasOffer
    <3>3. Lapsed' = Lapsed
      BY <3>1, UnseenLapse DEF Accepting
    <3> QED BY <3>1, <3>2, <3>3, Unseen, StutterIs DEF view, Fulfils
  <2>2. ASSUME NEW s \in Session, Proceed(s)
        PROVE  Fulfils
    BY <1>0, <2>2, CounterFulfils, InsertFulfils, ReadCountFulfils,
       WithdrawFulfils, CommitOfferFulfils, ReadApplicationFulfils,
       CommitAnswerFulfils, CommitContractFulfils DEF Proceed
  <2>3. ASSUME NEW s \in Session,
               \/ PostRequest(s) \/ InstructorRequest(s)
               \/ UsageRequest(s) \/ OfferRequest(s) \/ Killed(s)
        PROVE  Fulfils
    BY <1>0, <2>3, PostFulfils, InstructorFulfils, UsageFulfils, OfferFulfils,
       KilledFulfils
  <2> QED BY <1>0, <2>1, <2>2, <2>3, LapsesFulfil, NextDayFulfils DEF Next
<1> QED BY <1>1, <1>2 DEF SerialInv, Fulfils

(* While requests do not overlap, candidates and studios get what          *)
(* Recruitment promises, whatever dies between two transactions: the       *)
(* tables and plans of job_post.py, application.py, offer.py and           *)
(* create_from_offer implement it.                                         *)
THEOREM HiringKeepsItsPromise ==
  ASSUME OneAtATime
  PROVE  Spec => RecruitmentSpec
<1>1. Init => Promise!Init /\ SerialInv
  BY PromiseInit, HiringInit DEF SerialInv
<1>2. SerialInv /\ [Next]_vars => SerialInv' /\ [Promise!Next]_(Promise!hiringVars)
  BY SerialStep DEF Fulfils
<1> QED BY <1>1, <1>2, PTL DEF Spec, RecruitmentSpec, Promise!Spec

-----------------------------------------------------------------------------
(* While requests do not overlap: the count of a post.                     *)

Standers(j) == {i \in Applicants(j) : application[<<j, i>>].status # "withdrawn"}
Follows == offer' = offer => \A j \in Post :
             CountOf(j)' - CountOf(j) = Standing(j)' - Standing(j)

(* The sets that are counted are finite.                                   *)
LEMMA Sizes ==
  ASSUME NEW j
  PROVE  /\ IsFiniteSet(Standers(j)) /\ IsFiniteSet(Pending(j))
         /\ IsFiniteSet(Standers(j)') /\ IsFiniteSet(Pending(j)')
         /\ Standing(j) \in Nat /\ Cardinality(Pending(j)) \in Nat
         /\ Standing(j)' \in Nat /\ Cardinality(Pending(j)') \in Nat
         /\ Standing(j) = Cardinality(Standers(j))
         /\ Standing(j)' = Cardinality(Standers(j)')
<1>1. /\ Standers(j) \in SUBSET Instructor /\ Pending(j) \in SUBSET Instructor
      /\ Standers(j)' \in SUBSET Instructor /\ Pending(j)' \in SUBSET Instructor
  BY DEF Standers, Applicants, Pending
<1>2. /\ Standing(j) = Cardinality(Standers(j))
      /\ Standing(j)' = Cardinality(Standers(j)')
  BY DEF Standing, Standers
<1>3. /\ IsFiniteSet(Standers(j)) /\ IsFiniteSet(Pending(j))
      /\ IsFiniteSet(Standers(j)') /\ IsFiniteSet(Pending(j)')
  BY <1>1, HiringAssumption, FS_Subset
<1> QED BY <1>2, <1>3, FS_CardinalityType

(* The count of a post that is there is a number.                          *)
LEMMA CountType ==
  ASSUME TypeOK
  PROVE  \A j \in Post : /\ CountOf(j) \in Nat
                         /\ post[j] # NoPost => CountOf(j) = post[j].count
BY Rows DEF CountOf, PostRow

(* The only request counts as it is said to.                               *)
LEMMA AloneCounted ==
  ASSUME OneAtATime, TypeOK, NEW s \in Session
  PROVE  /\ TallyInv => Counted(session[s])
         /\ \A plan : Become(s, plan) /\ Counted(plan)' =>
              \A r \in Session : Counted(session[r])'
<1>1. TallyInv => Counted(session[s])
  BY DEF TallyInv
<1>2. ASSUME NEW plan, Become(s, plan), Counted(plan)', NEW r \in Session
      PROVE  Counted(session[r])'
  <2>1. r = s /\ session'[s] = plan
    BY <1>2 DEF OneAtATime, Become, TypeOK
  <2> QED BY <1>2, <2>1 DEF Counted
<1> QED BY <1>1, <1>2

(* A plan that counts nothing counts well.                                 *)
LEMMA Uncounting ==
  ASSUME NEW p, p.at \notin {"usage", "insert", "withdraw"}
  PROVE  Counted(p) /\ Counted(p)'
BY DEF Counted

(* Steps that leave the posts and the applications alone.                  *)
LEMMA TallyKept ==
  ASSUME Serial, TallyInv, NEW s \in Session, NEW plan, Become(s, plan),
         UNCHANGED <<post, application>>, Counted(plan)
  PROVE  TallyInv' /\ Follows
<1>1. \A j \in Post : /\ CountOf(j)' = CountOf(j)
                      /\ Pending(j)' = Pending(j)
                      /\ Standing(j)' = Standing(j)
  BY DEF CountOf, Pending, Waiting, Applied, Standing, Applicants
<1>2. Counted(plan)'
  BY DEF Counted, CountOf
<1>3. \A r \in Session : Counted(session[r])'
  BY <1>2, SerialParts, AloneCounted
<1>4. TallyInv'
  BY <1>1, <1>3 DEF TallyInv
<1>5. \A j \in Post : CountOf(j) \in Nat /\ Standing(j) \in Nat
  BY CountType, SerialParts, Sizes
<1> QED BY <1>1, <1>4, <1>5 DEF Follows

(* The same with the requests as they are.                                 *)
LEMMA TallySame ==
  ASSUME SerialInv, TallyInv, UNCHANGED <<post, application, session>>
  PROVE  TallyInv' /\ Follows
<1>0. TypeOK
  BY DEF SerialInv, HiringInv
<1>1. \A j \in Post : /\ CountOf(j)' = CountOf(j)
                      /\ Pending(j)' = Pending(j)
                      /\ Standing(j)' = Standing(j)
  BY DEF CountOf, Pending, Waiting, Applied, Standing, Applicants
<1>2. \A r \in Session : Counted(session[r])'
  BY DEF Counted, CountOf, TallyInv
<1>3. \A j \in Post : CountOf(j) \in Nat /\ Standing(j) \in Nat
  BY <1>0, CountType, Sizes
<1> QED BY <1>1, <1>2, <1>3 DEF TallyInv, Follows

(* The studio's requests: a new post counts nothing, one that goes had     *)
(* nobody, and the others keep their count.                                *)
LEMMA PostTallies ==
  ASSUME Serial, TallyInv, NEW s \in Session, PostRequest(s)
  PROVE  TallyInv' /\ Follows
<1> PICK j \in Post : \/ CreatePost(s, j)
                      \/ \E status \in PostStatus : UpdatePost(s, j, status)
                      \/ DeletePost(s, j)
  BY DEF PostRequest
<1>1. /\ TypeOK /\ post \in [Post -> PostRow \cup {NoPost}]
      /\ \A k \in Post : CountOf(k) \in Nat
  BY CountType, SerialParts DEF TypeOK
<1>2. IsIdle(s) /\ UNCHANGED <<application, session>>
  BY DEF CreatePost, UpdatePost, DeletePost
<1>3. \A k \in Post : CountOf(k)' = CountOf(k)
  <2>1. CASE CreatePost(s, j)
    <3>1. /\ post[j] = NoPost
          /\ post' = [post EXCEPT ![j] = [status |-> "open", count |-> 0]]
      BY <2>1 DEF CreatePost, NewPost
    <3>2. /\ post'[j].count = 0
          /\ \A k \in Post : k # j => post'[k] = post[k]
      BY <1>1, <3>1
    <3> QED BY <3>1, <3>2 DEF CountOf
  <2>2. ASSUME NEW status \in PostStatus, UpdatePost(s, j, status)
        PROVE  \A k \in Post : CountOf(k)' = CountOf(k)
    <3>1. /\ post[j] # NoPost /\ post[j] \in PostRow
          /\ post' = [post EXCEPT ![j].status = status]
      BY <1>1, <2>2 DEF UpdatePost
    <3>2. /\ [post[j] EXCEPT !.status = status] \in PostRow
          /\ [post[j] EXCEPT !.status = status].count = post[j].count
      BY <3>1 DEF PostRow
    <3>3. \A row \in PostRow : row # NoPost
      <4>1. \A row \in PostRow : DOMAIN row = {"status", "count"}
        BY DEF PostRow
      <4>2. DOMAIN NoPost = {"status"}
        BY DEF NoPost
      <4> QED BY <4>1, <4>2
    <3>4. /\ post'[j] # NoPost /\ post'[j].count = post[j].count
          /\ \A k \in Post : k # j => post'[k] = post[k]
      BY <1>1, <3>1, <3>2, <3>3
    <3> QED BY <3>1, <3>4 DEF CountOf
  <2>3. CASE DeletePost(s, j)
    <3>1. /\ \A i \in Instructor : application[<<j, i>>] = NoApplication
          /\ post' = [post EXCEPT ![j] = NoPost]
      BY <2>3 DEF DeletePost
    <3>2. Applicants(j) = {}
      BY <3>1 DEF Applicants
    <3>3. CountOf(j) <= 0
      BY <3>2, FS_EmptySet, SerialParts DEF RowsInv, CountIsEarned
    <3>4. CountOf(j) = 0
      BY <1>1, <3>3
    <3>5. /\ post'[j] = NoPost
          /\ \A k \in Post : k # j => post'[k] = post[k]
      BY <1>1, <3>1
    <3> QED BY <3>4, <3>5 DEF CountOf
  <2> QED BY <2>1, <2>2, <2>3
<1>4. \A k \in Post : Pending(k)' = Pending(k) /\ Standing(k)' = Standing(k)
  BY <1>2 DEF Pending, Waiting, Applied, Standing, Applicants
<1>5. \A r \in Session : Counted(session[r])'
  <2>1. \A r \in Session : session'[r] = session[s]
    BY <1>2, SerialParts DEF OneAtATime
  <2> QED BY <1>2, <2>1, Uncounting DEF IsIdle, At, Counted
<1>6. \A k \in Post : Standing(k) \in Nat
  BY Sizes
<1> QED BY <1>1, <1>3, <1>4, <1>5, <1>6 DEF TallyInv, Follows

(* Requests that begin.                                                    *)
LEMMA BeginTallies ==
  ASSUME Serial, TallyInv, NEW s \in Session,
         InstructorRequest(s) \/ UsageRequest(s) \/ OfferRequest(s)
  PROVE  TallyInv' /\ Follows
<1>1. ASSUME NEW plan, Begin(s, plan), Counted(plan)
      PROVE  TallyInv' /\ Follows
  BY <1>1, TallyKept DEF Begin, tables
<1>2. ASSUME NEW j \in Post, NEW i \in Instructor, Apply(s, j, i)
      PROVE  \E plan : Begin(s, plan) /\ Counted(plan)
  <2>1. CountOf(j) = post[j].count
    BY <1>2 DEF Apply, CountOf
  <2>2. CASE i \in Premium
    <3> DEFINE plan == [at |-> "insert", slot |-> <<j, i>>, count |-> post[j].count,
                        seen |-> tracked[<<i, today>>]["application"],
                        day |-> today]
    <3>1. Begin(s, plan)
      BY <1>2, <2>2 DEF Apply
    <3>2. plan.at = "insert" /\ plan.slot[1] = j /\ plan.count = post[j].count
      OBVIOUS
    <3> HIDE DEF plan
    <3>3. Counted(plan)
      BY <2>1, <3>2 DEF Counted
    <3> QED BY <3>1, <3>3
  <2>3. CASE i \notin Premium
    <3> DEFINE plan == ToUse(i, "application", Charged(i, "application"),
                             <<j, i>>, post[j].count)
    <3>1. Begin(s, plan)
      BY <1>2, <2>3 DEF Apply
    <3>2. plan.at = "usage" /\ plan.slot[1] = j /\ plan.count = post[j].count
      BY DEF ToUse
    <3> HIDE DEF plan
    <3>3. Counted(plan)
      BY <2>1, <3>2 DEF Counted
    <3> QED BY <3>1, <3>3
  <2> QED BY <2>2, <2>3
<1>3. ASSUME NEW j \in Post, NEW i \in Instructor, Withdraw(s, j, i)
      PROVE  \E plan : Begin(s, plan) /\ Counted(plan)
  <2> DEFINE plan == [at |-> "recount", slot |-> <<j, i>>]
  <2>1. Begin(s, plan) /\ plan.at = "recount"
    BY <1>3 DEF Withdraw
  <2> HIDE DEF plan
  <2> QED BY <2>1, Uncounting
<1>4. ASSUME NEW o \in Offer, NEW answer, Answer(s, o, answer)
      PROVE  \E plan : Begin(s, plan) /\ Counted(plan)
  <2>0. PICK at \in {"reread", "answer"} :
          \E status : Begin(s, [at |-> at, offer |-> o, status |-> status,
                                writeApplication |-> FALSE])
    BY <1>4 DEF Answer
  <2>1. PICK status : Begin(s, [at |-> at, offer |-> o, status |-> status,
                                writeApplication |-> FALSE])
    BY <2>0
  <2> DEFINE plan == [at |-> at, offer |-> o, status |-> status,
                      writeApplication |-> FALSE]
  <2>2. Begin(s, plan)
    BY <2>1
  <2>3. plan.at = at
    OBVIOUS
  <2> HIDE DEF plan
  <2>4. plan.at \notin {"usage", "insert", "withdraw"}
    BY <2>1, <2>3
  <2> QED BY <2>2, <2>4, Uncounting
<1>5. ASSUME NEW u \in User, UsageStatus(s, u)
      PROVE  \E plan : Begin(s, plan) /\ Counted(plan)
  <2> DEFINE plan == [at |-> "reset", user |-> u, loaded |-> usage[u],
                      wanted |-> Refreshed(u)]
  <2>1. Begin(s, plan) /\ plan.at = "reset"
    BY <1>5 DEF UsageStatus
  <2> HIDE DEF plan
  <2> QED BY <2>1, Uncounting
<1>6. ASSUME NEW u \in User, NEW i \in Instructor, ViewProfile(s, u, i)
      PROVE  \E plan : Begin(s, plan) /\ Counted(plan)
  <2>1. PICK wanted : Begin(s, ToUse(u, "profile_view", wanted, NoSlot, 0))
    BY <1>6 DEF ViewProfile
  <2> DEFINE plan == ToUse(u, "profile_view", wanted, NoSlot, 0)
  <2>2. Begin(s, plan)
    BY <2>1
  <2>3. plan.at = "usage" /\ plan.slot = NoSlot
    BY DEF ToUse
  <2> HIDE DEF plan
  <2>4. Counted(plan)
    BY <2>3 DEF Counted
  <2> QED BY <2>2, <2>4
<1>7. ASSUME NEW o \in Offer, NEW slot, CreateOffer(s, o, slot)
      PROVE  \E plan : Begin(s, plan) /\ Counted(plan)
  <2> DEFINE plan == [at |-> "offer", offer |-> o, application |-> slot]
  <2>1. Begin(s, plan) /\ plan.at = "offer"
    BY <1>7 DEF CreateOffer
  <2> HIDE DEF plan
  <2> QED BY <2>1, Uncounting
<1>8. ASSUME NEW o \in Offer, CreateContract(s, o)
      PROVE  \E plan : Begin(s, plan) /\ Counted(plan)
  <2> DEFINE plan == [at |-> "contract", offer |-> o]
  <2>1. Begin(s, plan) /\ plan.at = "contract"
    BY <1>8 DEF CreateContract
  <2> HIDE DEF plan
  <2> QED BY <2>1, Uncounting
<1>9. \E plan : Begin(s, plan) /\ Counted(plan)
  BY <1>2, <1>3, <1>4, <1>5, <1>6, <1>7, <1>8
     DEF InstructorRequest, UsageRequest, OfferRequest
<1> QED BY <1>1, <1>9

(* A request that ends with posts and applications as they were.           *)
LEMMA EndTallies ==
  ASSUME Serial, TallyInv, NEW s \in Session, Become(s, Idle),
         UNCHANGED <<post, application>>
  PROVE  TallyInv' /\ Follows
<1>1. Counted(Idle)
  BY DEF Counted, Idle
<1> QED BY <1>1, TallyKept

(* Counters, offers and contracts do not count.                            *)
LEMMA OtherCommitTallies ==
  ASSUME Serial, TallyInv, NEW s \in Session,
         \/ CommitUsage(s) \/ CommitReset(s) \/ CommitOffer(s)
         \/ ReadApplication(s) \/ CommitContract(s)
  PROVE  TallyInv' /\ Follows
<1>1. UNCHANGED <<post, application>>
  BY DEF CommitUsage, CommitReset, CommitOffer, ReadApplication, CommitContract,
     Refuse, tables
<1>2. CASE Become(s, Idle)
  BY <1>1, <1>2, EndTallies
<1>3. CASE ~Become(s, Idle) /\ CommitUsage(s)
  <2>1. PICK slot, count, day : /\ slot = session[s].slot /\ count = session[s].count
                                /\ day = session[s].wanted.day
    OBVIOUS
  <2> DEFINE plan == [at |-> "insert", slot |-> slot, count |-> count,
                      seen |-> NoWrite, day |-> day]
  <2>2. /\ Become(s, plan) /\ session[s].at = "usage"
        /\ session[s].counter # "profile_view"
    BY <1>3, <2>1 DEF CommitUsage, Refuse, At
  <2>3. session[s] \in UsagePlan
    BY <2>2, SerialParts, PlanKinds DEF TypeOK, At
  <2>4. slot # NoSlot
    BY <2>1, <2>2, <2>3, SerialParts DEF Founded, UsagePlan, Counter
  <2>5. count = CountOf(slot[1])
    BY <2>1, <2>2, <2>4, SerialParts, AloneCounted DEF Counted
  <2>6. plan.at = "insert" /\ plan.slot = slot /\ plan.count = count
    OBVIOUS
  <2> HIDE DEF plan
  <2>7. Counted(plan)
    BY <2>5, <2>6 DEF Counted
  <2> QED BY <1>1, <2>2, <2>7, TallyKept
<1>4. CASE ReadApplication(s)
  <2>1. PICK p : p = session[s]
    OBVIOUS
  <2>2. PICK written :
          Become(s, [p EXCEPT !.at = "answer", !.writeApplication = written])
    BY <1>4, <2>1 DEF ReadApplication
  <2> DEFINE plan == [p EXCEPT !.at = "answer", !.writeApplication = written]
  <2>3. p \in AnswerPlan
    BY <1>4, <2>1, SerialParts, PlanKinds DEF ReadApplication, TypeOK
  <2>4. Become(s, plan) /\ plan.at = "answer"
    BY <2>2, <2>3 DEF AnswerPlan
  <2> HIDE DEF plan
  <2>5. Counted(plan)
    BY <2>4, Uncounting
  <2> QED BY <1>1, <2>4, <2>5, TallyKept
<1> QED BY <1>2, <1>3, <1>4
        DEF CommitReset, CommitOffer, CommitContract, Refuse

(* An application that is inserted is counted: the count was the post's.   *)
LEMMA InsertTallies ==
  ASSUME Serial, TallyInv, NEW s \in Session, CommitInsert(s)
  PROVE  TallyInv' /\ Follows
<1>1. CASE Refuse(s)
  BY <1>1, EndTallies DEF Refuse, tables
<1>2. CASE ~Refuse(s)
  <2>1. PICK j \in Post, i \in Instructor :
              /\ session[s].slot = <<j, i>>
              /\ <<j, i>> \in Slot
              /\ session[s].count \in Nat /\ session[s].day \in 0..LastDay
              /\ ~Applied(<<j, i>>)
              /\ post[j] \in PostRow
              /\ application' = [application EXCEPT ![<<j, i>>] =
                                   [status |-> "pending", created |-> today]]
              /\ post' = [post EXCEPT ![j].count = session[s].count + 1]
              /\ Become(s, Idle)
    BY <1>2, SerialParts, Inserted
  <2>2. PICK n \in Nat : n = session[s].count
    BY <2>1
  <2>3. n = CountOf(j)
    BY <2>1, <2>2, SerialParts, AloneCounted DEF Counted, CommitInsert, At
  <2>4. post[j] # NoPost
    BY <2>1, SerialParts DEF Current, Ready, CommitInsert, At
  <2>5. /\ CountOf(j)' = n + 1
        /\ \A k \in Post : k # j => CountOf(k)' = CountOf(k)
    <3>1. post \in [Post -> PostRow \cup {NoPost}]
      BY SerialParts DEF TypeOK
    <3>2. post' = [post EXCEPT ![j].count = n + 1]
      BY <2>1, <2>2
    <3>3. /\ [post[j] EXCEPT !.count = n + 1].count = n + 1
          /\ [post[j] EXCEPT !.count = n + 1] # NoPost
      <4>1. DOMAIN [post[j] EXCEPT !.count = n + 1] = {"status", "count"}
        BY <2>1 DEF PostRow
      <4>2. DOMAIN NoPost = {"status"}
        BY DEF NoPost
      <4>3. [post[j] EXCEPT !.count = n + 1].count = n + 1
        BY <2>1 DEF PostRow
      <4> QED BY <4>1, <4>2, <4>3
    <3>4. /\ post'[j] # NoPost /\ post'[j].count = n + 1
          /\ \A k \in Post : k # j => post'[k] = post[k]
      BY <3>1, <3>2, <3>3
    <3> QED BY <3>4 DEF CountOf
  <2>6. /\ application'[<<j, i>>] = [status |-> "pending", created |-> today]
        /\ \A slot \in Slot : slot # <<j, i>> => application'[slot] = application[slot]
    BY <2>1, SerialParts DEF TypeOK
  <2>7. /\ Waiting(<<j, i>>)'
        /\ application'[<<j, i>>] # NoApplication
        /\ application'[<<j, i>>].status = "pending"
    <3>1. application'[<<j, i>>].status = "pending"
      BY <2>6
    <3> QED BY <3>1 DEF Waiting, Applied, NoApplication
  <2>8. /\ i \notin Pending(j) /\ Pending(j)' = Pending(j) \cup {i}
        /\ i \notin Standers(j) /\ Standers(j)' = Standers(j) \cup {i}
    <3>1. \A k \in Instructor : k # i => application'[<<j, k>>] = application[<<j, k>>]
      BY <2>6 DEF Slot
    <3> QED BY <2>1, <2>7, <3>1 DEF Pending, Standers, Applicants, Waiting, Applied
  <2>9. \A k \in Post : k # j => Pending(k)' = Pending(k) /\ Standing(k)' = Standing(k)
    <3>1. ASSUME NEW k \in Post, k # j
          PROVE  \A h \in Instructor : application'[<<k, h>>] = application[<<k, h>>]
      BY <2>6, <3>1 DEF Slot
    <3> QED BY <3>1 DEF Pending, Standing, Applicants, Waiting, Applied
  <2>10. /\ Cardinality(Pending(j)') = Cardinality(Pending(j)) + 1
         /\ Standing(j)' = Standing(j) + 1
    <3>1. Cardinality(Pending(j) \cup {i}) = Cardinality(Pending(j)) + 1
      BY <2>8, Sizes, FS_AddElement
    <3>2. Cardinality(Standers(j) \cup {i}) = Cardinality(Standers(j)) + 1
      BY <2>8, Sizes, FS_AddElement
    <3>3. Standing(j) = Cardinality(Standers(j)) /\ Standing(j)' = Cardinality(Standers(j)')
      BY Sizes
    <3> QED BY <2>8, <3>1, <3>2, <3>3
  <2>11. \A r \in Session : Counted(session[r])'
    <3>1. Counted(Idle)'
      BY DEF Counted, Idle
    <3> QED BY <2>1, <3>1, SerialParts, AloneCounted
  <2>12. Cardinality(Pending(j)) <= CountOf(j)
    BY DEF TallyInv
  <2>13. \A k \in Post : CountOf(k) \in Nat /\ Standing(k) \in Nat
    BY SerialParts, CountType, Sizes
  <2>14. Cardinality(Pending(j)') <= CountOf(j)'
    BY <2>3, <2>5, <2>10, <2>12, <2>13, Sizes
  <2>15. TallyInv'
    BY <2>5, <2>9, <2>11, <2>14 DEF TallyInv
  <2>16. \A k \in Post : CountOf(k)' - CountOf(k) = Standing(k)' - Standing(k)
    BY <2>3, <2>5, <2>9, <2>10, <2>13
  <2> QED BY <2>15, <2>16 DEF Follows
<1> QED BY <1>1, <1>2

(* A withdrawal reads the count of a post that has a pending application,  *)
(* so there is one to take off.                                            *)
LEMMA ReadCountTallies ==
  ASSUME Serial, TallyInv, NEW s \in Session, ReadCount(s)
  PROVE  TallyInv' /\ Follows
<1>1. session[s] \in RecountPlan /\ session[s].at = "recount"
  BY SerialParts, PlanKinds DEF ReadCount, TypeOK, At
<1>2. PICK j \in Post, i \in Instructor : session[s].slot = <<j, i>>
  BY <1>1 DEF RecountPlan, Slot
<1>3. Waiting(<<j, i>>) /\ <<j, i>> \in Slot
  BY <1>1, <1>2, SerialParts DEF Current, RecountPlan
<1>4. post[j] # NoPost
  <2>1. <<j, i>>[1] = j
    OBVIOUS
  <2> QED BY <1>3, <2>1, SerialParts DEF RowsInv, RowsFounded, Waiting
<1>5. CountOf(j) = post[j].count /\ CountOf(j) \in Nat
  BY <1>4, SerialParts, CountType
<1>6. CountOf(j) > 0
  <2>1. i \in Pending(j)
    BY <1>3 DEF Pending
  <2>2. Cardinality(Pending(j)) # 0
    BY <2>1, Sizes, FS_EmptySet
  <2>3. Cardinality(Pending(j)) <= CountOf(j)
    BY DEF TallyInv
  <2> QED BY <1>5, <2>2, <2>3, Sizes
<1>7. PICK n \in Nat : n = CountOf(j) - 1
  BY <1>5, <1>6
<1> DEFINE plan == [at |-> "withdraw", slot |-> <<j, i>>, count |-> n]
<1>8. Become(s, plan) /\ UNCHANGED <<post, application>>
  <2>1. session[s].slot[1] = j
    BY <1>2
  <2> QED BY <1>2, <1>5, <1>6, <1>7, <2>1 DEF ReadCount, tables
<1>9. plan.at = "withdraw" /\ plan.count = n /\ plan.slot[1] = j
  OBVIOUS
<1> HIDE DEF plan
<1>10. Counted(plan)
  BY <1>5, <1>7, <1>9 DEF Counted
<1> QED BY <1>8, <1>10, TallyKept

(* What a post's applications lose when one is withdrawn.                  *)
LEMMA WithdrawTallies ==
  ASSUME Serial, TallyInv, NEW s \in Session, CommitWithdraw(s)
  PROVE  TallyInv' /\ Follows
<1>1. session[s] \in WithdrawPlan /\ session[s].at = "withdraw"
  BY SerialParts, PlanKinds DEF CommitWithdraw, TypeOK, At
<1>2. PICK j \in Post, i \in Instructor : session[s].slot = <<j, i>>
  BY <1>1 DEF WithdrawPlan, Slot
<1>3. Waiting(<<j, i>>) /\ <<j, i>> \in Slot
  BY <1>1, <1>2, SerialParts DEF Current, WithdrawPlan
<1>4. session[s].slot[1] = j
  BY <1>2
<1>5. post[j] # NoPost /\ post[j] \in PostRow
  <2>1. post[j] # NoPost
    BY <1>2, <1>3, <1>4, SerialParts DEF RowsInv, RowsFounded, Waiting
  <2> QED BY <2>1, SerialParts, Rows
<1>6. CountOf(j) = post[j].count /\ CountOf(j) \in Nat
  BY <1>5, SerialParts, CountType
<1>7. PICK n : n = session[s].count
  OBVIOUS
<1>8. n \in Nat \cup {NoWrite} /\ n + 1 = CountOf(j)
  BY <1>1, <1>4, <1>7, SerialParts, AloneCounted DEF Counted, WithdrawPlan
<1>9. /\ application' = [application EXCEPT ![<<j, i>>].status = "withdrawn"]
      /\ post' = IF n = NoWrite THEN post ELSE [post EXCEPT ![j].count = n]
      /\ Become(s, Idle)
  BY <1>2, <1>4, <1>7 DEF CommitWithdraw
<1>10. n \in Nat
  <2>1. Cardinality(Pending(j)) <= CountOf(j)
    BY DEF TallyInv
  <2>2. Cardinality(Pending(j)) # 0
    BY <1>3, Sizes, FS_EmptySet DEF Pending
  <2> QED BY <1>6, <1>8, <2>1, <2>2, Sizes DEF NoWrite
<1>11. /\ CountOf(j)' = n
       /\ \A k \in Post : k # j => CountOf(k)' = CountOf(k)
  <2>1. post \in [Post -> PostRow \cup {NoPost}]
    BY SerialParts DEF TypeOK
  <2>2. post' = [post EXCEPT ![j].count = n]
    BY <1>9, <1>10 DEF NoWrite
  <2>3. /\ [post[j] EXCEPT !.count = n].count = n
        /\ [post[j] EXCEPT !.count = n] # NoPost
    <3>1. DOMAIN [post[j] EXCEPT !.count = n] = {"status", "count"}
      BY <1>5 DEF PostRow
    <3>2. DOMAIN NoPost = {"status"}
      BY DEF NoPost
    <3>3. [post[j] EXCEPT !.count = n].count = n
      BY <1>5 DEF PostRow
    <3> QED BY <3>1, <3>2, <3>3
  <2>4. /\ post'[j] # NoPost /\ post'[j].count = n
        /\ \A k \in Post : k # j => post'[k] = post[k]
    BY <2>1, <2>2, <2>3
  <2> QED BY <2>4 DEF CountOf
<1>12. /\ application'[<<j, i>>].status = "withdrawn"
       /\ \A slot \in Slot : slot # <<j, i>> => application'[slot] = application[slot]
  <2>1. application \in [Slot -> ApplicationRow \cup {NoApplication}]
    BY SerialParts DEF TypeOK
  <2>2. application[<<j, i>>] \in ApplicationRow
    BY <1>3, <2>1 DEF Waiting, Applied
  <2>3. [application[<<j, i>>] EXCEPT !.status = "withdrawn"].status = "withdrawn"
    BY <2>2 DEF ApplicationRow
  <2> QED BY <1>3, <1>9, <2>1, <2>3
<1>13. /\ i \in Pending(j) /\ Pending(j)' = Pending(j) \ {i}
       /\ i \in Standers(j) /\ Standers(j)' = Standers(j) \ {i}
  <2>1. \A k \in Instructor : k # i => application'[<<j, k>>] = application[<<j, k>>]
    BY <1>12 DEF Slot
  <2> QED BY <1>3, <1>12, <2>1 DEF Pending, Standers, Applicants, Waiting, Applied
<1>14. \A k \in Post : k # j => Pending(k)' = Pending(k) /\ Standing(k)' = Standing(k)
  <2>1. ASSUME NEW k \in Post, k # j
        PROVE  \A h \in Instructor : application'[<<k, h>>] = application[<<k, h>>]
    BY <1>12, <2>1 DEF Slot
  <2> QED BY <2>1 DEF Pending, Standing, Applicants, Waiting, Applied
<1>15. /\ Cardinality(Pending(j)') = Cardinality(Pending(j)) - 1
       /\ Standing(j)' = Standing(j) - 1
  <2>1. Cardinality(Pending(j) \ {i}) = Cardinality(Pending(j)) - 1
    BY <1>13, Sizes, FS_RemoveElement
  <2>2. Cardinality(Standers(j) \ {i}) = Cardinality(Standers(j)) - 1
    BY <1>13, Sizes, FS_RemoveElement
  <2>3. Standing(j) = Cardinality(Standers(j)) /\ Standing(j)' = Cardinality(Standers(j)')
    BY Sizes
  <2> QED BY <1>13, <2>1, <2>2, <2>3
<1>16. \A r \in Session : Counted(session[r])'
  <2>1. Counted(Idle)'
    BY DEF Counted, Idle
  <2> QED BY <1>9, <2>1, SerialParts, AloneCounted
<1>17. Cardinality(Pending(j)) <= CountOf(j)
  BY DEF TallyInv
<1>18. \A k \in Post : CountOf(k) \in Nat /\ Standing(k) \in Nat
  BY SerialParts, CountType, Sizes
<1>19. Cardinality(Pending(j)') <= CountOf(j)'
  BY <1>8, <1>10, <1>11, <1>15, <1>17, <1>18, Sizes
<1>20. TallyInv'
  BY <1>11, <1>14, <1>16, <1>19 DEF TallyInv
<1>21. \A k \in Post : CountOf(k)' - CountOf(k) = Standing(k)' - Standing(k)
  BY <1>8, <1>10, <1>11, <1>14, <1>15, <1>18
<1> QED BY <1>20, <1>21 DEF Follows

(* An answer leaves the counts; who was pending may no longer be.          *)
LEMMA AnswerTallies ==
  ASSUME Serial, TallyInv, NEW s \in Session, CommitAnswer(s)
  PROVE  TallyInv' /\ Follows
<1>0. /\ session[s] \in AnswerPlan /\ session[s].at = "answer"
      /\ Become(s, Idle) /\ UNCHANGED post
  BY SerialParts, PlanKinds DEF CommitAnswer, TypeOK, At
<1>1. PICK o \in Offer, status \in OfferStatus \ {"pending"} :
           /\ offer[o] \in OfferRow
           /\ offer' = [offer EXCEPT ![o].status = status]
           /\ o = session[s].offer
  BY <1>0, SerialParts, Rows DEF CommitAnswer, AnswerPlan, Founded
<1>2. offer' # offer
  <2>1. offer[o].status = "pending"
    BY <1>0, <1>1, SerialParts DEF Current
  <2>2. offer'[o].status = status
    BY <1>1, SerialParts DEF TypeOK, OfferRow
  <2> QED BY <2>1, <2>2
<1>3. Follows
  BY <1>2 DEF Follows
<1>4. \A j \in Post : CountOf(j)' = CountOf(j)
  BY <1>0 DEF CountOf
<1>5. \A j \in Post : Pending(j)' \in SUBSET Pending(j)
  <2>0. TypeOK /\ RowsFounded /\ Founded(session[s])
    BY SerialParts DEF RowsInv
  <2>1. PICK q \in Offer, answer \in OfferStatus \ {"pending"} :
          \/ UNCHANGED application
          \/ /\ offer[q].application \in Slot
             /\ Applied(offer[q].application)
             /\ application' = [application EXCEPT
                                  ![offer[q].application].status = answer]
    BY <2>0, Answered
  <2>2. application \in [Slot -> ApplicationRow \cup {NoApplication}]
    BY SerialParts DEF TypeOK
  <2>3. \A other \in Slot : \/ application'[other] = application[other]
                            \/ application'[other].status # "pending"
    <3>1. CASE UNCHANGED application
      BY <3>1
    <3>2. CASE ~UNCHANGED application
      <4>1. PICK slot : slot = offer[q].application
        OBVIOUS
      <4>2. /\ slot \in Slot /\ application[slot] \in ApplicationRow
            /\ application' = [application EXCEPT ![slot].status = answer]
        BY <2>1, <2>2, <3>2, <4>1 DEF Applied
      <4>3. [application[slot] EXCEPT !.status = answer].status = answer
        BY <4>2 DEF ApplicationRow
      <4> QED BY <2>2, <4>2, <4>3
    <3> QED BY <3>1, <3>2
  <2> QED BY <2>3 DEF Pending, Waiting, Applied, Slot
<1>6. \A j \in Post : Cardinality(Pending(j)') <= CountOf(j)'
  <2> TAKE j \in Post
  <2>1. Cardinality(Pending(j)') <= Cardinality(Pending(j))
    BY <1>5, Sizes, FS_Subset
  <2>2. Cardinality(Pending(j)) <= CountOf(j) /\ CountOf(j) \in Nat
    BY SerialParts, CountType DEF TallyInv
  <2> QED BY <1>4, <2>1, <2>2, Sizes
<1>7. \A r \in Session : Counted(session[r])'
  <2>1. Counted(Idle)'
    BY DEF Counted, Idle
  <2> QED BY <1>0, <2>1, SerialParts, AloneCounted
<1> QED BY <1>3, <1>6, <1>7 DEF TallyInv

(* Every step keeps the counts covered and has them follow.                *)
LEMMA TallyStep ==
  ASSUME OneAtATime, SerialInv, TallyInv, [Next]_vars
  PROVE  TallyInv' /\ Follows
<1>0. Serial
  BY DEF Serial
<1>1. CASE UNCHANGED vars
  BY <1>1, TallySame DEF vars, tables
<1>2. ASSUME NEW s \in Session, Proceed(s)
      PROVE  TallyInv' /\ Follows
  BY <1>0, <1>2, OtherCommitTallies, InsertTallies, ReadCountTallies,
     WithdrawTallies, AnswerTallies DEF Proceed
<1>3. ASSUME NEW s \in Session, Killed(s)
      PROVE  TallyInv' /\ Follows
  BY <1>0, <1>3, EndTallies DEF Killed, tables
<1>4. ASSUME NEW s \in Session,
             \/ PostRequest(s) \/ InstructorRequest(s)
             \/ UsageRequest(s) \/ OfferRequest(s)
      PROVE  TallyInv' /\ Follows
  BY <1>0, <1>4, PostTallies, BeginTallies
<1>5. ASSUME NEW o \in Offer, OfferLapses(o)
      PROVE  TallyInv' /\ Follows
  BY <1>5, TallySame DEF OfferLapses, tables
<1>6. CASE NextDay
  BY <1>6, TallySame DEF NextDay, tables
<1> QED BY <1>1, <1>2, <1>3, <1>4, <1>5, <1>6 DEF Next

LEMMA TallyInit ==
  ASSUME Init
  PROVE  TallyInv
<1>1. \A j \in Post : CountOf(j) = 0 /\ Pending(j) = {}
  BY DEF Init, CountOf, Pending, Waiting, Applied, Slot
<1>2. \A s \in Session : Counted(session[s])
  BY DEF Init, Idle, Counted
<1> QED BY <1>1, <1>2, FS_EmptySet DEF TallyInv

(* While requests do not overlap, the count of a post changes as the       *)
(* number of its applications that are not withdrawn, except when an offer *)
(* is answered: application_count is lowered for every withdrawal          *)
(* (ApplicationService.create and withdraw), whatever dies in between.     *)
THEOREM CountFollowsApplications ==
  ASSUME OneAtATime
  PROVE  Spec => CountFollows
<1>1. Init => SerialInv /\ TallyInv
  BY PromiseInit, HiringInit, TallyInit DEF SerialInv
<1>2. SerialInv /\ TallyInv /\ [Next]_vars => SerialInv' /\ TallyInv' /\ Follows
  BY SerialStep, TallyStep
<1>3. Follows => [\A j \in Post : offer' = offer =>
                    CountOf(j)' - CountOf(j) = Standing(j)' - Standing(j)]_vars
  BY DEF Follows
<1> QED BY <1>1, <1>2, <1>3, PTL DEF Spec, CountFollows

-----------------------------------------------------------------------------
(* While requests do not overlap: the counters of free users.              *)

(* UsageInv without the request.                                           *)
Finite == \A i \in Instructor, first, last \in 0..LastDay :
            IsFiniteSet(AppliedIn(i, first, last))
UsageTables ==
  /\ UsageAccounts
  /\ TrackedAgrees
  /\ \A u \in User : usage[u].day <= today
  /\ \A u \in User \ Premium : Spent(u) <= Limit
  /\ Finite
  /\ \A slot \in Slot : Applied(slot) => application[slot].created <= today

(* Applications that are there keep their day, and none is new.            *)
Dated == \A slot \in Slot :
           /\ Applied(slot)' <=> Applied(slot)
           /\ Applied(slot) => application'[slot].created = application[slot].created

(* A day more allows Limit applications more.                              *)
LEMMA DayMore ==
  ASSUME NEW limit \in Nat, NEW days \in Nat
  PROVE  limit * (days + 1) = limit * days + limit /\ limit * days \in Nat
OBVIOUS

(* The days from one to a later one.                                       *)
LEMMA DaysBetween ==
  ASSUME NEW last \in Nat, NEW first \in 0..last
  PROVE  last - first \in Nat
OBVIOUS

(* What an account is made of.                                             *)
LEMMA AccountTypes ==
  ASSUME TypeOK, Finite, NEW i \in Instructor
  PROVE  /\ Limit \in Nat /\ LastDay \in Nat /\ today \in 0..LastDay
         /\ Spent(i) \in Nat /\ i \in User
         /\ \A first, last \in 0..LastDay :
              Cardinality(AppliedIn(i, first, last)) \in Nat
         /\ \A first \in 0..today :
              /\ Cardinality(AppliedIn(i, first, today)) \in Nat
              /\ Carried(first) \in {0, 1}
              /\ Limit * (today - first) \in Nat
              /\ Limit * (today - first) + Spent(i) + Carried(first) \in Nat
<1>1. Limit \in Nat /\ LastDay \in Nat /\ today \in 0..LastDay /\ i \in User
  BY HiringAssumption DEF TypeOK, User
<1>2. Spent(i) \in Nat
  <2>1. usage[i].used \in [Counter -> Nat]
    BY <1>1 DEF TypeOK, UsageRow
  <2> QED BY <2>1 DEF Spent, Counter
<1>3. \A first, last \in 0..LastDay : Cardinality(AppliedIn(i, first, last)) \in Nat
  BY FS_CardinalityType DEF Finite
<1>4. \A first \in 0..today : Limit * (today - first) \in Nat
  <2>1. ASSUME NEW first \in 0..today
        PROVE  Limit * (today - first) \in Nat
    <3>1. PICK days \in Nat : days = today - first
      BY <1>1
    <3> QED BY <1>1, <3>1, DayMore
  <2> QED BY <2>1
<1>5. \A first \in 0..today : Cardinality(AppliedIn(i, first, today)) \in Nat
  BY <1>1, <1>3
<1>6. \A first : Carried(first) \in {0, 1}
  BY DEF Carried
<1>7. ASSUME NEW first \in 0..today
      PROVE  Limit * (today - first) + Spent(i) + Carried(first) \in Nat
  <2>1. PICK all \in Nat : all = Limit * (today - first)
    BY <1>4
  <2>2. all + Spent(i) + Carried(first) \in Nat
    BY <1>2, <1>6
  <2> QED BY <2>1, <2>2
<1> QED BY <1>1, <1>2, <1>3, <1>4, <1>5, <1>6, <1>7

(* The counters a request has read: those of the day it looked on.         *)
LEMMA ReadIs ==
  ASSUME TypeOK, NEW u \in User, NEW p, NEW d \in 0..LastDay, p.loaded = usage[u],
         p.wanted.day = d, p.loaded.day <= d, d <= today
  PROVE  /\ Read(p) \in [Counter -> Nat]
         /\ d = today => Read(p)["application"] = Spent(u)
         /\ d < today => Spent(u) = 0
         /\ u \notin Premium /\ TrackedAgrees => tracked[<<u, d>>] = Read(p)
<1>1. /\ usage[u] \in UsageRow /\ usage[u].day <= d /\ today \in 0..LastDay
      /\ usage[u].day \in 0..LastDay /\ usage[u].used \in [Counter -> Nat]
  BY DEF TypeOK, UsageRow
<1>2. NothingUsed \in [Counter -> Nat] /\ NothingUsed["application"] = 0
  BY DEF NothingUsed, Counter
<1>3. Unused(d).used = NothingUsed
  BY DEF Unused
<1>4. Read(p) = IF usage[u].day = d THEN usage[u].used ELSE NothingUsed
  BY <1>3 DEF Read, OnDay
<1>5. d \in usage[u].day..LastDay
  BY <1>1
<1>6. u \notin Premium /\ TrackedAgrees => tracked[<<u, d>>] = Read(p)
  BY <1>4, <1>5 DEF TrackedAgrees
<1>7. d < today => usage[u].day # today
  BY <1>1
<1> QED BY <1>1, <1>2, <1>4, <1>6, <1>7 DEF Spent

(* A row emptied for a day, and one more use of it.                        *)
LEMMA RefreshedIs ==
  ASSUME TypeOK, NEW u \in User
  PROVE  /\ Refreshed(u) \in UsageRow /\ Refreshed(u).day = today
         /\ \A c \in Counter :
              /\ Charged(u, c) \in UsageRow /\ Charged(u, c).day = today
              /\ Charged(u, c).used = [Refreshed(u).used EXCEPT ![c] = @ + 1]
<1>1. Refreshed(u) \in UsageRow
  BY UsageTypes
<1>2. Refreshed(u).day = today
  BY DEF Refreshed, OnDay, Unused
<1>3. PICK row \in UsageRow : row = Refreshed(u)
  BY <1>1
<1>4. ASSUME NEW c \in Counter
      PROVE  /\ [row EXCEPT !.used[c] = @ + 1] \in UsageRow
             /\ [row EXCEPT !.used[c] = @ + 1].day = row.day
             /\ [row EXCEPT !.used[c] = @ + 1].used = [row.used EXCEPT ![c] = @ + 1]
  BY DEF UsageRow
<1>5. ASSUME NEW c \in Counter
      PROVE  /\ Charged(u, c) \in UsageRow /\ Charged(u, c).day = today
             /\ Charged(u, c).used = [Refreshed(u).used EXCEPT ![c] = @ + 1]
  <2>1. Charged(u, c) = [row EXCEPT !.used[c] = @ + 1]
    BY <1>3 DEF Charged
  <2> QED BY <1>2, <1>3, <1>4, <2>1
<1> QED BY <1>1, <1>2, <1>5

(* A request that alone changed a row leaves it as it wants it.            *)
LEMMA MergeIs ==
  ASSUME NEW row \in UsageRow, NEW wanted \in UsageRow
  PROVE  /\ Merge(row, row, wanted).day = wanted.day
         /\ Merge(row, row, wanted).used = wanted.used
<1>1. Merge(row, row, wanted).used =
        [c \in Counter |-> IF wanted.used[c] = row.used[c]
                             THEN row.used[c] ELSE wanted.used[c]]
  BY DEF Merge
<1>2. wanted.used \in [Counter -> Nat]
  BY DEF UsageRow
<1>3. Merge(row, row, wanted).used = wanted.used
  BY <1>1, <1>2
<1>4. Merge(row, row, wanted).day = wanted.day
  BY DEF Merge
<1> QED BY <1>3, <1>4

(* A request that begins carries no attempt on.                            *)
Clear(plan) == \A i \in Instructor \ Premium : ~Carries(plan, i)

(* A plan that touches no counter.                                         *)
LEMMA Uncharged ==
  ASSUME NEW p, p.at \notin {"usage", "reset", "insert"}
  PROVE  Due(p) /\ Due(p)' /\ Clear(p)
BY DEF Due, Clear, Carries

(* The only request is about what is due, and carries what is carried.     *)
LEMMA AloneDue ==
  ASSUME OneAtATime, TypeOK, NEW s \in Session
  PROVE  /\ UsageInv => Due(session[s])
         /\ UsageInv <=> /\ UsageTables /\ Balanced
                         /\ \A r \in Session : Due(session[r])
         /\ UsageInv' <=> /\ UsageTables' /\ Balanced'
                          /\ \A r \in Session : Due(session[r])'
         /\ \A i : Carrying(i) <=> Carries(session[s], i)
         /\ \A plan : Become(s, plan) =>
              /\ Due(plan)' => \A r \in Session : Due(session[r])'
              /\ \A i : Carrying(i)' <=> Carries(plan, i)'
<1>1. UsageInv <=> /\ UsageTables /\ Balanced
                   /\ \A r \in Session : Due(session[r])
  BY DEF UsageInv, UsageTables, Finite
<1>2. UsageInv' <=> /\ UsageTables' /\ Balanced'
                    /\ \A r \in Session : Due(session[r])'
  BY DEF UsageInv, UsageTables, Finite
<1>3. ASSUME NEW plan, Become(s, plan)
      PROVE  \A r \in Session : r = s /\ session'[r] = plan
  BY <1>3 DEF OneAtATime, Become, TypeOK
<1>4. ASSUME NEW plan, Become(s, plan)
      PROVE  /\ Due(plan)' => \A r \in Session : Due(session[r])'
             /\ \A i : Carrying(i)' <=> Carries(plan, i)'
  BY <1>3, <1>4 DEF Due, Carrying, Carries
<1>5. \A i : Carrying(i) <=> Carries(session[s], i)
  BY DEF Carrying, OneAtATime
<1> QED BY <1>1, <1>2, <1>4, <1>5

LEMMA IdleUncharged == Idle.at \notin {"usage", "reset", "insert"}
BY DEF Idle

(* Applications that keep their days are counted as before.                *)
LEMMA SameDays ==
  ASSUME Dated
  PROVE  \A i \in Instructor : \A first, last :
           AppliedIn(i, first, last)' = AppliedIn(i, first, last)
<1>1. \A i \in Instructor, j \in Post : <<j, i>> \in Slot
  BY DEF Slot
<1> QED BY <1>1 DEF Dated, AppliedIn, Applied

(* As long as the accounts of today are balanced nobody has applied too    *)
(* often: of the days that are over nothing changes.                       *)
LEMMA AccountsFollow ==
  ASSUME UsageInv, today \in 0..LastDay, today' \in 0..LastDay, Finite', Balanced',
         \A u \in User \ Premium : Spent(u)' \in Nat /\ Spent(u)' <= Limit,
         \A i \in Instructor \ Premium : \A first, last \in 0..LastDay :
           last < today' =>
             last <= today /\ AppliedIn(i, first, last)' = AppliedIn(i, first, last)
  PROVE  UsageAccounts'
<1>1. ASSUME NEW i \in Instructor \ Premium, NEW last \in 0..today',
             NEW first \in 0..last
      PROVE  Cardinality(AppliedIn(i, first, last)') <=
               Limit * (last - first + 1) + Carried(first)
  <2>1. first \in 0..LastDay /\ last \in 0..LastDay
    BY HiringAssumption
  <2>2. CASE last < today'
    <3>1. AppliedIn(i, first, last)' = AppliedIn(i, first, last) /\ last \in 0..today
      BY <2>1, <2>2
    <3>2. Cardinality(AppliedIn(i, first, last)) <=
            Limit * (last - first + 1) + Carried(first)
      BY <3>1 DEF UsageInv, UsageAccounts
    <3> QED BY <3>1, <3>2
  <2>3. CASE ~(last < today')
    <3>0. last = today' /\ first \in 0..today'
      BY <2>3, HiringAssumption
    <3>1. PICK days \in Nat : days = today' - first
      <4>1. today' \in Nat
        BY HiringAssumption
      <4>2. PICK now \in Nat : now = today'
        BY <4>1
      <4>3. now - first \in Nat
        BY <3>0, <4>2, DaysBetween
      <4> QED BY <4>2, <4>3
    <3>2. Accounted(i, first)'
      BY <3>0 DEF Balanced
    <3>3. PICK n \in Nat : n = Cardinality(AppliedIn(i, first, last)')
      BY <2>1, FS_CardinalityType DEF Finite
    <3>4. n = Cardinality(AppliedIn(i, first, today)')
      BY <3>0, <3>3 DEF AppliedIn
    <3>5. PICK spent \in Nat : spent = Spent(i)' /\ spent <= Limit
      BY DEF User
    <3>6. PICK all \in Nat : all = Limit * days /\ Limit * (days + 1) = all + Limit
      BY DayMore, HiringAssumption
    <3>7. n + (IF Carrying(i)' THEN 1 ELSE 0) <= all + spent + Carried(first)
      BY <3>1, <3>2, <3>4, <3>5, <3>6 DEF Accounted, Carried
    <3>8. n <= all + Limit + Carried(first)
      BY <3>5, <3>7, HiringAssumption DEF Carried
    <3>9. last - first + 1 = days + 1
      BY <3>0, <3>1
    <3> QED BY <3>3, <3>6, <3>8, <3>9
  <2> QED BY <2>2, <2>3
<1> QED BY <1>1 DEF UsageAccounts, Carried

(* Nothing changes in an account whose attempt is not carried on.          *)
LEMMA BalanceKept ==
  ASSUME UsageInv, TypeOK, UNCHANGED today, NEW i \in Instructor \ Premium,
         \A first, last : AppliedIn(i, first, last)' = AppliedIn(i, first, last),
         Spent(i)' = Spent(i), Carrying(i)' => Carrying(i)
  PROVE  \A first \in 0..today : Accounted(i, first)'
<1>1. ASSUME NEW first \in 0..today
      PROVE  Accounted(i, first)'
  <2>0. Finite
    BY DEF UsageInv, Finite
  <2>1. Accounted(i, first)
    BY DEF UsageInv, Balanced
  <2>2. AppliedIn(i, first, today)' = AppliedIn(i, first, today)
    <3>1. PICK last : last = today
      OBVIOUS
    <3>2. AppliedIn(i, first, today) = AppliedIn(i, first, last)
      BY <3>1
    <3>3. AppliedIn(i, first, today)' = AppliedIn(i, first, last)'
      BY <3>1 DEF AppliedIn
    <3> QED BY <3>2, <3>3
  <2>3. PICK n \in Nat : n = Cardinality(AppliedIn(i, first, today))
    BY <2>0, AccountTypes
  <2>4. PICK most \in Nat : most = Limit * (today - first) + Spent(i) + Carried(first)
    BY <2>0, AccountTypes
  <2>5. n + (IF Carrying(i) THEN 1 ELSE 0) <= most
    BY <2>1, <2>3, <2>4 DEF Accounted
  <2>6. n + (IF Carrying(i)' THEN 1 ELSE 0) <= most
    BY <2>5
  <2>7. most = Limit * (today' - first) + Spent(i)' + Carried(first)
    BY <2>4
  <2> QED BY <2>2, <2>3, <2>6, <2>7 DEF Accounted, Carried
<1> QED BY <1>1

(* The tables when no counter and no date changes.                         *)
LEMMA SameUsage ==
  ASSUME UsageInv, TypeOK, Dated, UNCHANGED <<usage, tracked, today>>,
         \A i \in Instructor \ Premium : Carrying(i)' => Carrying(i)
  PROVE  UsageTables' /\ Balanced'
<1>0. today \in 0..LastDay
  BY DEF TypeOK
<1>1. \A i \in Instructor : \A first, last :
        AppliedIn(i, first, last)' = AppliedIn(i, first, last)
  BY SameDays
<1>2. Finite'
  BY <1>1 DEF UsageInv, Finite
<1>3. \A u \in User : Spent(u)' = Spent(u)
  BY DEF Spent
<1>4. \A i \in Instructor \ Premium : \A first \in 0..today : Accounted(i, first)'
  BY <1>1, <1>3, BalanceKept DEF User
<1>5. Balanced'
  BY <1>4 DEF Balanced
<1>6. \A u \in User \ Premium : Spent(u)' \in Nat /\ Spent(u)' <= Limit
  <2>1. \A u \in User : Spent(u) \in Nat
    BY DEF TypeOK, UsageRow, Spent, Counter
  <2> QED BY <1>3, <2>1 DEF UsageInv
<1>7. UsageAccounts'
  BY <1>0, <1>1, <1>2, <1>5, <1>6, AccountsFollow
<1>8. TrackedAgrees'
  BY DEF UsageInv, TrackedAgrees
<1>9. \A slot \in Slot : Applied(slot)' => application'[slot].created <= today
  BY DEF UsageInv, Dated
<1> QED BY <1>2, <1>5, <1>6, <1>7, <1>8, <1>9 DEF UsageTables, UsageInv

(* A request that goes on, or ends, and leaves the counters alone.         *)
LEMMA ChargeKept ==
  ASSUME Serial, UsageInv, NEW s \in Session, NEW plan, Become(s, plan),
         Dated, UNCHANGED <<usage, tracked, today>>,
         plan.at \notin {"usage", "reset", "insert"}
  PROVE  UsageInv'
<1>1. \A i : ~Carrying(i)'
  <2>1. \A i : ~Carries(plan, i)'
    BY DEF Carries
  <2> QED BY <2>1, SerialParts, AloneDue
<1>2. UsageTables' /\ Balanced'
  BY <1>1, SameUsage, SerialParts
<1>3. Due(plan)'
  BY Uncharged
<1>4. \A r \in Session : Due(session[r])'
  BY <1>3, SerialParts, AloneDue
<1> QED BY <1>2, <1>4, SerialParts, AloneDue

(* A request that begins with what is due carries nothing on.              *)
LEMMA ChargeBegun ==
  ASSUME Serial, UsageInv, NEW s \in Session, NEW plan, Begin(s, plan), Due(plan),
         \A i \in Instructor \ Premium : ~Carries(plan, i)
  PROVE  UsageInv'
<1>1. UNCHANGED <<application, usage, tracked, today>> /\ Become(s, plan)
  BY DEF Begin, tables, clock
<1>2. Dated
  BY <1>1 DEF Dated, Applied
<1>3. \A i \in Instructor \ Premium : ~Carrying(i)'
  <2>1. \A i \in Instructor \ Premium : ~Carries(plan, i)'
    BY <1>1 DEF Carries
  <2> QED BY <1>1, <2>1, SerialParts, AloneDue
<1>4. UsageTables' /\ Balanced'
  BY <1>1, <1>2, <1>3, SameUsage, SerialParts
<1>5. Due(plan)'
  BY <1>1 DEF Due
<1>6. \A r \in Session : Due(session[r])'
  BY <1>1, <1>5, SerialParts, AloneDue
<1> QED BY <1>4, <1>6, SerialParts, AloneDue

(* The requests and all that counts as they are.                           *)
LEMMA ChargeSame ==
  ASSUME OneAtATime, SerialInv, UsageInv,
         UNCHANGED <<application, usage, tracked, today, session>>
  PROVE  UsageInv'
<1>0. TypeOK
  BY DEF SerialInv, HiringInv
<1>1. Dated
  BY DEF Dated, Applied
<1>2. \A i : Carrying(i)' <=> Carrying(i)
  BY DEF Carrying, Carries
<1>3. UsageTables' /\ Balanced'
  BY <1>0, <1>1, <1>2, SameUsage
<1>4. \A r \in Session : Due(session[r])'
  BY DEF UsageInv, Due
<1> QED BY <1>3, <1>4 DEF UsageInv, UsageTables, Finite

(* A charge that begins today is due.                                      *)
LEMMA DueIs ==
  ASSUME TypeOK, UsageInv, NEW plan, NEW u \in User \ Premium, NEW c \in Counter,
         plan.at = "usage", plan.user = u, plan.counter = c,
         plan.loaded = usage[u], plan.wanted.day = today,
         plan.wanted.used = [Refreshed(u).used EXCEPT ![c] = @ + 1],
         plan.seen = tracked[<<u, today>>][c], Refreshed(u).used[c] < Limit,
         c = "application" => plan.slot[2] = u
  PROVE  Due(plan)
<1>1. usage[u].day <= today /\ today <= today
  BY DEF UsageInv, TypeOK
<1>2. Read(plan) = Refreshed(u).used
  BY DEF Read, Refreshed
<1> QED BY <1>1, <1>2 DEF Due

(* Requests that begin plan what is due.                                   *)
LEMMA BeginCharges ==
  ASSUME Serial, UsageInv, NEW s \in Session,
         InstructorRequest(s) \/ UsageRequest(s) \/ OfferRequest(s)
  PROVE  UsageInv'
<1>0. TypeOK /\ UsageInv
  BY SerialParts
<1>1. ASSUME NEW j \in Post, NEW i \in Instructor, Apply(s, j, i)
      PROVE  \E plan : Begin(s, plan) /\ Due(plan) /\ Clear(plan)
  <2>0. i \in User /\ "application" \in Counter
    BY DEF User, Counter
  <2>1. CASE i \in Premium
    <3> DEFINE plan == [at |-> "insert", slot |-> <<j, i>>, count |-> post[j].count,
                        seen |-> tracked[<<i, today>>]["application"],
                        day |-> today]
    <3>1. Begin(s, plan)
      BY <1>1, <2>1 DEF Apply
    <3>2. plan.at = "insert" /\ plan.slot[2] = i
      OBVIOUS
    <3> HIDE DEF plan
    <3>3. Due(plan) /\ Clear(plan)
      BY <2>1, <3>2 DEF Due, Clear, Carries
    <3> QED BY <3>1, <3>3
  <2>2. CASE i \notin Premium
    <3> DEFINE plan == ToUse(i, "application", Charged(i, "application"),
                             <<j, i>>, post[j].count)
    <3>1. Begin(s, plan) /\ WithinLimit(i, "application")
      BY <1>1, <2>2 DEF Apply
    <3>2. /\ plan.at = "usage" /\ plan.user = i /\ plan.slot[2] = i
          /\ plan.counter = "application"
          /\ plan.loaded = usage[i] /\ plan.wanted = Charged(i, "application")
          /\ plan.seen = tracked[<<i, today>>]["application"]
      BY DEF ToUse
    <3> HIDE DEF plan
    <3>3. /\ plan.wanted.day = today
          /\ plan.wanted.used = [Refreshed(i).used EXCEPT !["application"] = @ + 1]
      BY <1>0, <2>0, <3>2, RefreshedIs
    <3>4. Due(plan)
      BY <1>0, <2>0, <2>2, <3>1, <3>2, <3>3, DueIs DEF WithinLimit
    <3>5. Clear(plan)
      BY <1>0, <3>2, <3>3 DEF Clear, Carries, TypeOK
    <3> QED BY <3>1, <3>4, <3>5
  <2> QED BY <2>1, <2>2
<1>2. ASSUME NEW j \in Post, NEW i \in Instructor, Withdraw(s, j, i)
      PROVE  \E plan : Begin(s, plan) /\ Due(plan) /\ Clear(plan)
  <2> DEFINE plan == [at |-> "recount", slot |-> <<j, i>>]
  <2>1. Begin(s, plan) /\ plan.at = "recount"
    BY <1>2 DEF Withdraw
  <2> HIDE DEF plan
  <2> QED BY <2>1, Uncharged
<1>3. ASSUME NEW o \in Offer, NEW answer, Answer(s, o, answer)
      PROVE  \E plan : Begin(s, plan) /\ Due(plan) /\ Clear(plan)
  <2>0. PICK at \in {"reread", "answer"} :
          \E status : Begin(s, [at |-> at, offer |-> o, status |-> status,
                                writeApplication |-> FALSE])
    BY <1>3 DEF Answer
  <2>1. PICK status : Begin(s, [at |-> at, offer |-> o, status |-> status,
                                writeApplication |-> FALSE])
    BY <2>0
  <2> DEFINE plan == [at |-> at, offer |-> o, status |-> status,
                      writeApplication |-> FALSE]
  <2>2. Begin(s, plan)
    BY <2>1
  <2>3. plan.at = at
    OBVIOUS
  <2> HIDE DEF plan
  <2>4. plan.at \notin {"usage", "reset", "insert"}
    BY <2>1, <2>3
  <2> QED BY <2>2, <2>4, Uncharged
<1>4. ASSUME NEW u \in User, UsageStatus(s, u)
      PROVE  \E plan : Begin(s, plan) /\ Due(plan) /\ Clear(plan)
  <2> DEFINE plan == [at |-> "reset", user |-> u, loaded |-> usage[u],
                      wanted |-> Refreshed(u)]
  <2>1. Begin(s, plan)
    BY <1>4 DEF UsageStatus
  <2>2. /\ plan.at = "reset" /\ plan.user = u /\ plan.loaded = usage[u]
        /\ plan.wanted = Refreshed(u)
    OBVIOUS
  <2> HIDE DEF plan
  <2>3. Due(plan)
    <3>1. usage[u].day <= today /\ today <= today
      BY <1>0 DEF UsageInv, TypeOK
    <3>2. Refreshed(u).day = today /\ Refreshed(u) = OnDay(usage[u], today)
      BY <1>0, RefreshedIs DEF Refreshed
    <3> QED BY <2>2, <3>1, <3>2 DEF Due, Read
  <2>4. Clear(plan)
    BY <2>2 DEF Clear, Carries
  <2> QED BY <2>1, <2>3, <2>4
<1>5. ASSUME NEW u \in User, NEW i \in Instructor, ViewProfile(s, u, i)
      PROVE  \E plan : Begin(s, plan) /\ Due(plan) /\ Clear(plan)
  <2>0. "profile_view" \in Counter
    BY DEF Counter
  <2>1. PICK charged \in UsageRow : charged = Charged(u, "profile_view")
    BY <1>0, <2>0, RefreshedIs
  <2>2. PICK wanted : wanted = [charged EXCEPT !.viewed = IF @ = {} THEN {i} ELSE @]
    OBVIOUS
  <2>3. /\ u \notin Premium /\ WithinLimit(u, "profile_view")
        /\ Begin(s, ToUse(u, "profile_view", wanted, NoSlot, 0))
    BY <1>5, <2>1, <2>2 DEF ViewProfile
  <2>4. wanted.day = charged.day /\ wanted.used = charged.used
    BY <2>2 DEF UsageRow
  <2> DEFINE plan == ToUse(u, "profile_view", wanted, NoSlot, 0)
  <2>5. /\ plan.at = "usage" /\ plan.user = u /\ plan.counter = "profile_view"
        /\ plan.loaded = usage[u] /\ plan.wanted = wanted
        /\ plan.seen = tracked[<<u, today>>]["profile_view"]
    BY DEF ToUse
  <2>6. Begin(s, plan)
    BY <2>3
  <2> HIDE DEF plan
  <2>7. /\ wanted.day = today
        /\ wanted.used = [Refreshed(u).used EXCEPT !["profile_view"] = @ + 1]
    BY <1>0, <2>0, <2>1, <2>4, RefreshedIs
  <2>8. Due(plan)
    BY <1>0, <2>0, <2>3, <2>5, <2>7, DueIs DEF WithinLimit
  <2>9. Clear(plan)
    BY <2>5 DEF Clear, Carries
  <2> QED BY <2>6, <2>8, <2>9
<1>6. ASSUME NEW o \in Offer, NEW slot, CreateOffer(s, o, slot)
      PROVE  \E plan : Begin(s, plan) /\ Due(plan) /\ Clear(plan)
  <2> DEFINE plan == [at |-> "offer", offer |-> o, application |-> slot]
  <2>1. Begin(s, plan) /\ plan.at = "offer"
    BY <1>6 DEF CreateOffer
  <2> HIDE DEF plan
  <2> QED BY <2>1, Uncharged
<1>7. ASSUME NEW o \in Offer, CreateContract(s, o)
      PROVE  \E plan : Begin(s, plan) /\ Due(plan) /\ Clear(plan)
  <2> DEFINE plan == [at |-> "contract", offer |-> o]
  <2>1. Begin(s, plan) /\ plan.at = "contract"
    BY <1>7 DEF CreateContract
  <2> HIDE DEF plan
  <2> QED BY <2>1, Uncharged
<1>8. \E plan : Begin(s, plan) /\ Due(plan) /\ Clear(plan)
  BY <1>1, <1>2, <1>3, <1>4, <1>5, <1>6, <1>7
     DEF InstructorRequest, UsageRequest, OfferRequest
<1> QED BY <1>8, ChargeBegun DEF Clear

(* An attempt charged today leaves room for the application it carries.    *)
LEMMA ChargeBalances ==
  ASSUME TypeOK, UsageInv, UNCHANGED today, NEW i \in Instructor \ Premium,
         \A first, last : AppliedIn(i, first, last)' = AppliedIn(i, first, last),
         Spent(i)' = Spent(i) + 1
  PROVE  \A first \in 0..today : Accounted(i, first)'
<1>1. ASSUME NEW first \in 0..today
      PROVE  Accounted(i, first)'
  <2>0. Finite
    BY DEF UsageInv, Finite
  <2>1. Accounted(i, first)
    BY DEF UsageInv, Balanced
  <2>2. AppliedIn(i, first, today)' = AppliedIn(i, first, today)
    <3>1. PICK last : last = today
      OBVIOUS
    <3>2. AppliedIn(i, first, today)' = AppliedIn(i, first, last)'
      BY <3>1 DEF AppliedIn
    <3> QED BY <3>1, <3>2
  <2>3. PICK n \in Nat : n = Cardinality(AppliedIn(i, first, today))
    BY <2>0, AccountTypes
  <2>4. PICK all, spent \in Nat : all = Limit * (today - first) /\ spent = Spent(i)
    BY <2>0, AccountTypes
  <2>5. n <= all + spent + Carried(first)
    BY <2>1, <2>3, <2>4 DEF Accounted, Carried
  <2>6. n + 1 <= all + (spent + 1) + Carried(first)
    BY <2>5 DEF Carried
  <2>7. all = Limit * (today' - first) /\ spent + 1 = Spent(i)'
    BY <2>4
  <2>8. n + (IF Carrying(i)' THEN 1 ELSE 0) <= all + (spent + 1) + Carried(first)
    BY <2>5, <2>6 DEF Carried
  <2> QED BY <2>2, <2>3, <2>7, <2>8 DEF Accounted, Carried
<1> QED BY <1>1

(* The row of one user is written, for a day that has come, and counts for *)
(* a free user as the row for analytics.                                   *)
LEMMA WrittenRow ==
  ASSUME TypeOK, UsageInv, UNCHANGED <<application, today>>,
         NEW u \in User, NEW d \in 0..LastDay, NEW used \in [Counter -> Nat],
         usage[u].day <= d, d <= today, usage'[u].day = d, usage'[u].used = used,
         \A v \in User : v # u => usage'[v] = usage[v],
         u \notin Premium => tracked'[<<u, d>>] = used,
         \A v \in User, e \in 0..LastDay :
           v # u \/ e # d => tracked'[<<v, e>>] = tracked[<<v, e>>]
  PROVE  /\ TrackedAgrees' /\ Dated /\ Finite'
         /\ \A v \in User : usage'[v].day <= today
         /\ \A slot \in Slot : Applied(slot)' => application'[slot].created <= today
         /\ \A v \in User : v # u => Spent(v)' = Spent(v)
         /\ Spent(u)' = IF d = today THEN used["application"] ELSE 0
<1>1. TrackedAgrees'
  <2>1. ASSUME NEW v \in User \ Premium, NEW e \in usage'[v].day..LastDay
        PROVE  tracked'[<<v, e>>] =
                 IF e = usage'[v].day THEN usage'[v].used ELSE NothingUsed
    <3>0. usage[v].day \in 0..LastDay /\ usage[u].day \in 0..LastDay
      BY DEF TypeOK, UsageRow
    <3>1. CASE v # u
      <4>1. e \in usage[v].day..LastDay /\ e \in 0..LastDay
        BY <3>0, <3>1
      <4>2. tracked'[<<v, e>>] = tracked[<<v, e>>]
        BY <3>1, <4>1
      <4> QED BY <3>1, <4>1, <4>2 DEF UsageInv, TrackedAgrees
    <3>2. CASE v = u /\ e = d
      BY <3>2
    <3>3. CASE v = u /\ e # d
      <4>1. e \in 0..LastDay /\ e \in usage[u].day..LastDay /\ e # usage[u].day
        BY <3>0, <3>3
      <4>2. tracked[<<u, e>>] = NothingUsed
        BY <3>3, <4>1 DEF UsageInv, TrackedAgrees
      <4> QED BY <3>3, <4>1, <4>2
    <3> QED BY <3>1, <3>2, <3>3
  <2> QED BY <2>1 DEF TrackedAgrees
<1>2. Dated
  BY DEF Dated, Applied
<1>3. Finite'
  BY DEF UsageInv, Finite, AppliedIn
<1>4. \A v \in User : usage'[v].day <= today
  BY DEF UsageInv
<1>5. \A slot \in Slot : Applied(slot)' => application'[slot].created <= today
  BY DEF UsageInv, Applied
<1>6. \A v \in User : v # u => Spent(v)' = Spent(v)
  BY DEF Spent
<1>7. Spent(u)' = IF d = today THEN used["application"] ELSE 0
  BY DEF Spent
<1> QED BY <1>1, <1>2, <1>3, <1>4, <1>5, <1>6, <1>7

(* The accounts follow from the balance as long as no application is made. *)
LEMMA Accounts ==
  ASSUME TypeOK, UsageInv, Dated, Finite', UNCHANGED today, TrackedAgrees',
         \A v \in User : usage'[v].day <= today,
         \A slot \in Slot : Applied(slot)' => application'[slot].created <= today,
         \A v \in User \ Premium : Spent(v)' \in Nat /\ Spent(v)' <= Limit,
         Balanced'
  PROVE  UsageTables'
<1>1. today \in 0..LastDay
  BY DEF TypeOK
<1>2. \A i \in Instructor : \A first, last :
        AppliedIn(i, first, last)' = AppliedIn(i, first, last)
  BY SameDays
<1>3. UsageAccounts'
  BY <1>1, <1>2, AccountsFollow
<1> QED BY <1>3 DEF UsageTables

(* A charge is counted once, in the row and for analytics, on the day the  *)
(* request has looked on; its application is carried on.                   *)
LEMMA UsageCharges ==
  ASSUME Serial, UsageInv, NEW s \in Session, CommitUsage(s)
  PROVE  UsageInv'
<1>1. PICK p : p = session[s]
  OBVIOUS
<1>2. p \in UsagePlan /\ p.at = "usage" /\ TypeOK
  BY <1>1, SerialParts, PlanKinds DEF CommitUsage, TypeOK, At
<1>3. PICK u \in User, c \in Counter : u = p.user /\ c = p.counter
  BY <1>2 DEF UsagePlan
<1>4. p.wanted \in UsageRow /\ p.wanted.day \in 0..LastDay
  BY <1>2 DEF UsagePlan, UsageRow
<1>5. PICK d \in 0..LastDay : d = p.wanted.day
  BY <1>4
<1>6. Due(p)
  BY <1>1, SerialParts, AloneDue
<1>7. /\ u \notin Premium /\ p.seen = tracked[<<u, d>>][c] /\ Read(p)[c] < Limit
      /\ p.loaded = usage[u] /\ p.loaded.day <= d /\ d <= today
      /\ p.wanted.used = [Read(p) EXCEPT ![c] = @ + 1]
      /\ c = "application" => p.slot[2] = u
  BY <1>2, <1>3, <1>5, <1>6 DEF Due
<1>8. /\ usage \in [User -> UsageRow] /\ today \in 0..LastDay /\ Limit \in Nat
      /\ LastDay \in Nat /\ tracked \in [User \X (0..LastDay) -> [Counter -> Nat]]
      /\ "application" \in Counter
  BY <1>2, HiringAssumption DEF TypeOK, Counter
<1>9. CASE Refuse(s)
  <2>1. Dated /\ UNCHANGED <<usage, tracked, today>>
    BY <1>9 DEF CommitUsage, Refuse, tables, clock, Dated, Applied
  <2>2. Become(s, Idle)
    BY <1>9 DEF Refuse
  <2> QED BY <2>1, <2>2, IdleUncharged, ChargeKept
<1>10. CASE ~Refuse(s)
  <2>1. /\ usage' = [usage EXCEPT ![u] = Merge(usage[u], p.loaded, p.wanted)]
        /\ tracked' = [tracked EXCEPT ![<<u, d>>][c] = p.seen + 1]
        /\ Become(s, IF c = "profile_view" THEN Idle
                     ELSE [at |-> "insert", slot |-> p.slot,
                           count |-> p.count, seen |-> NoWrite,
                           day |-> p.wanted.day])
        /\ UNCHANGED <<application, today>>
    BY <1>1, <1>3, <1>5, <1>10 DEF CommitUsage, Track, clock
  <2>2. PICK read \in [Counter -> Nat] :
          /\ read = Read(p) /\ tracked[<<u, d>>] = read
          /\ d = today => read["application"] = Spent(u)
          /\ d < today => Spent(u) = 0
    BY <1>2, <1>5, <1>7, ReadIs DEF UsageInv
  <2>3. PICK used \in [Counter -> Nat] :
          /\ used = [read EXCEPT ![c] = read[c] + 1] /\ used = p.wanted.used
          /\ used["application"] = IF c = "application" THEN read["application"] + 1
                                   ELSE read["application"]
    <3>1. \A f \in [Counter -> Nat] :
            /\ [f EXCEPT ![c] = f[c] + 1] \in [Counter -> Nat]
            /\ [f EXCEPT ![c] = f[c] + 1]["application"] =
                 IF c = "application" THEN f["application"] + 1 ELSE f["application"]
      BY <1>8
    <3>2. p.wanted.used = [read EXCEPT ![c] = read[c] + 1]
      BY <1>7, <2>2
    <3> QED BY <3>1, <3>2
  <2>4. /\ usage'[u].day = d /\ usage'[u].used = used
        /\ \A v \in User : v # u => usage'[v] = usage[v]
    <3>1. Merge(usage[u], usage[u], p.wanted).day = p.wanted.day
      BY <1>4, <1>8, MergeIs
    <3>2. Merge(usage[u], usage[u], p.wanted).used = p.wanted.used
      BY <1>4, <1>8, MergeIs
    <3>3. usage'[u] = Merge(usage[u], usage[u], p.wanted)
      BY <1>7, <1>8, <2>1
    <3>4. \A v \in User : v # u => usage'[v] = usage[v]
      BY <1>8, <2>1
    <3> QED BY <1>5, <2>3, <3>1, <3>2, <3>3, <3>4
  <2>5. /\ tracked'[<<u, d>>] = used
        /\ \A v \in User, e \in 0..LastDay :
             v # u \/ e # d => tracked'[<<v, e>>] = tracked[<<v, e>>]
    <3>1. tracked' = [tracked EXCEPT ![<<u, d>>] = [@ EXCEPT ![c] = p.seen + 1]]
      BY <2>1
    <3>2. <<u, d>> \in User \X (0..LastDay)
      OBVIOUS
    <3>3. tracked'[<<u, d>>] = [tracked[<<u, d>>] EXCEPT ![c] = p.seen + 1]
      BY <1>8, <3>1, <3>2
    <3>4. \A v \in User, e \in 0..LastDay :
            v # u \/ e # d => tracked'[<<v, e>>] = tracked[<<v, e>>]
      BY <1>8, <3>1
    <3> QED BY <1>7, <2>2, <2>3, <3>3, <3>4
  <2>6. /\ TrackedAgrees' /\ Dated /\ Finite'
        /\ \A v \in User : usage'[v].day <= today
        /\ \A slot \in Slot : Applied(slot)' => application'[slot].created <= today
        /\ \A v \in User : v # u => Spent(v)' = Spent(v)
        /\ Spent(u)' = IF d = today THEN used["application"] ELSE 0
    BY <1>2, <1>7, <2>1, <2>4, <2>5, WrittenRow
  <2>7. Spent(u)' \in Nat /\ Spent(u)' <= Limit
    <3>1. c # "application" /\ d = today => Spent(u) <= Limit
      BY <1>7 DEF UsageInv
    <3> QED BY <1>7, <1>8, <2>2, <2>3, <2>6, <3>1
  <2>8. \A v \in User \ Premium : Spent(v)' \in Nat /\ Spent(v)' <= Limit
    <3>1. \A v \in User : Spent(v) \in Nat
      BY <1>8 DEF Spent, UsageRow
    <3> QED BY <2>6, <2>7, <3>1 DEF UsageInv
  <2>9. \A i \in Instructor : \A first, last :
          AppliedIn(i, first, last)' = AppliedIn(i, first, last)
    BY <2>6, SameDays
  <2>10. CASE c = "profile_view"
    <3>1. Become(s, Idle) /\ Due(Idle)' /\ \A i : ~Carries(Idle, i)'
      BY <2>1, <2>10, Uncharged, IdleUncharged DEF Carries
    <3>2. \A i : ~Carrying(i)'
      BY <3>1, SerialParts, AloneDue
    <3>3. Spent(u)' = Spent(u)
      BY <1>7, <1>8, <2>2, <2>3, <2>6, <2>10
    <3>4. Balanced'
      <4>1. \A i \in Instructor \ Premium : \A first \in 0..today : Accounted(i, first)'
        BY <1>2, <2>1, <2>6, <2>9, <3>2, <3>3, BalanceKept DEF User
      <4> QED BY <2>1, <4>1 DEF Balanced
    <3>5. UsageTables'
      BY <1>2, <2>1, <2>6, <2>8, <3>4, Accounts
    <3> QED BY <3>1, <3>4, <3>5, SerialParts, AloneDue
  <2>11. CASE c # "profile_view"
    <3>1. c = "application" /\ p.slot[2] = u
      BY <1>7, <2>11 DEF Counter
    <3>2. PICK slot, count : slot = p.slot /\ count = p.count
      OBVIOUS
    <3> DEFINE plan == [at |-> "insert", slot |-> slot, count |-> count,
                        seen |-> NoWrite, day |-> d]
    <3>3. /\ Become(s, plan) /\ plan.at = "insert" /\ plan.slot[2] = u
          /\ plan.seen = NoWrite
      BY <1>5, <2>1, <2>11, <3>1, <3>2
    <3> HIDE DEF plan
    <3>4. Due(plan)'
      BY <3>3 DEF Due
    <3>5. \A i : Carrying(i)' <=> i = u
      <4>1. \A i : Carries(plan, i)' <=> i = u
        BY <3>3 DEF Carries
      <4> QED BY <3>3, <4>1, SerialParts, AloneDue
    <3>6. Balanced'
      <4>1. ASSUME NEW i \in Instructor \ Premium, i # u
            PROVE  \A first \in 0..today : Accounted(i, first)'
        BY <1>2, <2>1, <2>6, <2>9, <3>5, <4>1, BalanceKept DEF User
      <4>2. ASSUME u \in Instructor, d = today
            PROVE  \A first \in 0..today : Accounted(u, first)'
        BY <1>2, <1>7, <2>1, <2>2, <2>3, <2>6, <2>9, <3>1, <3>5, <4>2, ChargeBalances
      <4>3. ASSUME u \in Instructor, d # today
            PROVE  \A first \in 0..today : Accounted(u, first)'
        <5>0. d < today /\ d # today
          BY <1>7, <1>8, <4>3
        <5>1. Spent(u)' = Spent(u)
          BY <2>2, <2>6, <5>0
        <5>2. Carries(p, u)
          BY <1>2, <1>3, <1>5, <3>1, <5>0 DEF Carries
        <5>3. Carrying(u)
          BY <1>1, <5>2, SerialParts, AloneDue
        <5> QED BY <1>2, <1>7, <2>1, <2>9, <4>3, <5>1, <5>3, BalanceKept
      <4>4. \A i \in Instructor \ Premium : \A first \in 0..today : Accounted(i, first)'
        BY <4>1, <4>2, <4>3
      <4> QED BY <2>1, <4>4 DEF Balanced
    <3>7. UsageTables'
      BY <1>2, <2>1, <2>6, <2>8, <3>6, Accounts
    <3> QED BY <3>3, <3>4, <3>6, <3>7, SerialParts, AloneDue
  <2> QED BY <2>10, <2>11
<1> QED BY <1>9, <1>10

(* Emptying the counters of an earlier day changes nothing about today.    *)
LEMMA ResetCharges ==
  ASSUME Serial, UsageInv, NEW s \in Session, CommitReset(s)
  PROVE  UsageInv'
<1>1. PICK p : p = session[s]
  OBVIOUS
<1>2. p \in ResetPlan /\ p.at = "reset" /\ TypeOK
  BY <1>1, SerialParts, PlanKinds DEF CommitReset, TypeOK, At
<1>3. PICK u \in User : u = p.user
  BY <1>2 DEF ResetPlan
<1>4. p.wanted \in UsageRow /\ p.wanted.day \in 0..LastDay
  BY <1>2 DEF ResetPlan, UsageRow
<1>5. PICK d \in 0..LastDay : d = p.wanted.day
  BY <1>4
<1>6. Due(p)
  BY <1>1, SerialParts, AloneDue
<1>7. /\ p.loaded = usage[u] /\ p.loaded.day <= d /\ d <= today
      /\ p.wanted.used = Read(p)
  BY <1>2, <1>3, <1>5, <1>6 DEF Due
<1>8. usage \in [User -> UsageRow] /\ today \in 0..LastDay /\ LastDay \in Nat
  BY <1>2, HiringAssumption DEF TypeOK
<1>9. /\ usage' = [usage EXCEPT ![u] = Merge(usage[u], p.loaded, p.wanted)]
      /\ Become(s, Idle) /\ UNCHANGED <<application, tracked, today>>
  BY <1>1, <1>3 DEF CommitReset, clock
<1>10. PICK read \in [Counter -> Nat] :
         /\ read = Read(p)
         /\ u \notin Premium => tracked[<<u, d>>] = read
         /\ d = today => read["application"] = Spent(u)
         /\ d < today => Spent(u) = 0
  BY <1>2, <1>5, <1>7, ReadIs DEF UsageInv
<1>11. /\ usage'[u].day = d /\ usage'[u].used = read
       /\ \A v \in User : v # u => usage'[v] = usage[v]
  <2>1. Merge(usage[u], usage[u], p.wanted).day = p.wanted.day
    BY <1>4, <1>8, MergeIs
  <2>2. Merge(usage[u], usage[u], p.wanted).used = p.wanted.used
    BY <1>4, <1>8, MergeIs
  <2>3. usage'[u] = Merge(usage[u], usage[u], p.wanted)
    BY <1>7, <1>8, <1>9
  <2>4. \A v \in User : v # u => usage'[v] = usage[v]
    BY <1>8, <1>9
  <2> QED BY <1>5, <1>7, <1>10, <2>1, <2>2, <2>3, <2>4
<1>12. /\ TrackedAgrees' /\ Dated /\ Finite'
       /\ \A v \in User : usage'[v].day <= today
       /\ \A slot \in Slot : Applied(slot)' => application'[slot].created <= today
       /\ \A v \in User : v # u => Spent(v)' = Spent(v)
       /\ Spent(u)' = IF d = today THEN read["application"] ELSE 0
  BY <1>2, <1>7, <1>9, <1>10, <1>11, WrittenRow
<1>13. \A v \in User : Spent(v)' = Spent(v) /\ Spent(v) \in Nat
  <2>1. Spent(u)' = Spent(u)
    BY <1>7, <1>8, <1>10, <1>12
  <2>2. \A v \in User : Spent(v) \in Nat
    BY <1>8 DEF Spent, UsageRow, Counter
  <2> QED BY <1>12, <2>1, <2>2
<1>14. \A i : ~Carrying(i)'
  <2>1. \A i : ~Carries(Idle, i)'
    BY IdleUncharged DEF Carries
  <2> QED BY <1>9, <2>1, SerialParts, AloneDue
<1>15. Balanced'
  <2>1. \A i \in Instructor : \A first, last :
          AppliedIn(i, first, last)' = AppliedIn(i, first, last)
    BY <1>12, SameDays
  <2>2. \A i \in Instructor \ Premium : \A first \in 0..today : Accounted(i, first)'
    BY <1>2, <1>9, <1>13, <1>14, <2>1, BalanceKept DEF User
  <2> QED BY <1>9, <2>2 DEF Balanced
<1>16. UsageTables'
  <2>1. \A v \in User \ Premium : Spent(v)' \in Nat /\ Spent(v)' <= Limit
    BY <1>13 DEF UsageInv
  <2> QED BY <1>2, <1>9, <1>12, <1>15, <2>1, Accounts
<1>17. Due(Idle)'
  BY Uncharged, IdleUncharged
<1> QED BY <1>9, <1>15, <1>16, <1>17, SerialParts, AloneDue

(* An application of a free user was carried on to here; one of a premium  *)
(* user is tracked with it.                                                *)
LEMMA InsertCharges ==
  ASSUME Serial, UsageInv, NEW s \in Session, CommitInsert(s)
  PROVE  UsageInv'
<1>1. /\ TypeOK /\ session[s].at = "insert" /\ Due(session[s])
      /\ UNCHANGED today /\ today \in 0..LastDay /\ LastDay \in Nat
  BY SerialParts, AloneDue, HiringAssumption DEF CommitInsert, At, clock, TypeOK
<1>2. CASE Refuse(s)
  <2>1. Dated /\ UNCHANGED <<usage, tracked>>
    BY <1>2 DEF Refuse, tables, Dated, Applied
  <2>2. Become(s, Idle)
    BY <1>2 DEF Refuse
  <2> QED BY <1>1, <2>1, <2>2, IdleUncharged, ChargeKept
<1>3. CASE ~Refuse(s)
  <2>1. PICK j \in Post, i \in Instructor :
              /\ session[s].slot = <<j, i>>
              /\ <<j, i>> \in Slot
              /\ session[s].day \in 0..LastDay
              /\ ~Applied(<<j, i>>)
              /\ application' = [application EXCEPT ![<<j, i>>] =
                                   [status |-> "pending", created |-> today]]
              /\ \/ UNCHANGED tracked
                 \/ /\ session[s].seen \in Nat
                    /\ Track(i, session[s].day, "application", session[s].seen)
              /\ Become(s, Idle)
              /\ UNCHANGED usage
    BY <1>1, <1>3, Inserted
  <2>2. session[s].slot[2] = i /\ i \in User
    BY <2>1 DEF User
  <2>3. i \notin Premium => session[s].seen = NoWrite
    BY <1>1, <2>2 DEF Due
  <2>4. \A u \in User \ Premium, day \in 0..LastDay :
          tracked'[<<u, day>>] = tracked[<<u, day>>]
    <3>1. CASE i \notin Premium
      <4>1. UNCHANGED tracked
        BY <2>1, <2>3, <3>1 DEF NoWrite
      <4> QED BY <4>1
    <3>2. CASE i \in Premium
      BY <1>1, <2>1, <3>2 DEF Track, TypeOK
    <3> QED BY <3>1, <3>2
  <2>5. /\ application'[<<j, i>>] = [status |-> "pending", created |-> today]
        /\ \A slot \in Slot : slot # <<j, i>> => application'[slot] = application[slot]
    BY <1>1, <2>1 DEF TypeOK
  <2>6. application'[<<j, i>>].created = today /\ Applied(<<j, i>>)'
    <3>1. application'[<<j, i>>].status = "pending" /\ NoApplication.status = "none"
      BY <2>5 DEF NoApplication
    <3>2. application'[<<j, i>>].created = today
      BY <2>5
    <3> QED BY <3>1, <3>2 DEF Applied
  <2>7. /\ \A first, last \in 0..LastDay : j \notin AppliedIn(i, first, last)
        /\ \A first, last \in 0..LastDay :
             AppliedIn(i, first, last)' =
               IF today \in first..last THEN AppliedIn(i, first, last) \cup {j}
               ELSE AppliedIn(i, first, last)
        /\ \A h \in Instructor : h # i =>
             \A first, last : AppliedIn(h, first, last)' = AppliedIn(h, first, last)
    <3>1. \A h \in Instructor, k \in Post :
            h # i \/ k # j => application'[<<k, h>>] = application[<<k, h>>]
      BY <2>5 DEF Slot
    <3>2. \A first, last \in 0..LastDay : j \notin AppliedIn(i, first, last)
      BY <2>1 DEF AppliedIn, Applied
    <3>3. ASSUME NEW first \in 0..LastDay, NEW last \in 0..LastDay
          PROVE  AppliedIn(i, first, last)' =
                   IF today \in first..last THEN AppliedIn(i, first, last) \cup {j}
                   ELSE AppliedIn(i, first, last)
      <4>1. CASE today \in first..last
        BY <2>6, <3>1, <4>1 DEF AppliedIn, Applied
      <4>2. CASE today \notin first..last
        BY <2>1, <2>6, <3>1, <4>2 DEF AppliedIn, Applied
      <4> QED BY <4>1, <4>2
    <3>4. ASSUME NEW h \in Instructor, h # i
          PROVE  \A first, last : AppliedIn(h, first, last)' = AppliedIn(h, first, last)
      BY <3>1, <3>4 DEF AppliedIn
    <3> QED BY <3>2, <3>3, <3>4
  <2>8. Finite'
    <3>1. ASSUME NEW h \in Instructor, NEW first \in 0..LastDay, NEW last \in 0..LastDay
          PROVE  IsFiniteSet(AppliedIn(h, first, last)')
      <4>1. IsFiniteSet(AppliedIn(h, first, last))
        BY DEF UsageInv
      <4>2. CASE h = i /\ today \in first..last
        <5>1. AppliedIn(h, first, last)' = AppliedIn(h, first, last) \cup {j}
          BY <2>7, <4>2
        <5> QED BY <4>1, <5>1, FS_AddElement
      <4>3. CASE ~(h = i /\ today \in first..last)
        <5>1. AppliedIn(h, first, last)' = AppliedIn(h, first, last)
          BY <2>7, <4>3
        <5> QED BY <4>1, <5>1
      <4> QED BY <4>2, <4>3
    <3> QED BY <3>1 DEF Finite
  <2>9. \A u \in User : Spent(u)' = Spent(u) /\ Spent(u) \in Nat
    BY <1>1, <2>1 DEF Spent, TypeOK, UsageRow, Counter
  <2>10. \A h : ~Carrying(h)'
    <3>1. \A h : ~Carries(Idle, h)'
      BY IdleUncharged DEF Carries
    <3> QED BY <2>1, <3>1, SerialParts, AloneDue
  <2>11. Balanced'
    <3>1. ASSUME NEW h \in Instructor \ Premium, h # i
          PROVE  \A first \in 0..today : Accounted(h, first)'
      <4>1. /\ Spent(h)' = Spent(h) /\ ~Carrying(h)'
            /\ \A first, last : AppliedIn(h, first, last)' = AppliedIn(h, first, last)
        BY <2>7, <2>9, <2>10, <3>1 DEF User
      <4> QED BY <1>1, <3>1, <4>1, BalanceKept
    <3>2. ASSUME i \notin Premium, NEW first \in 0..today
          PROVE  Accounted(i, first)'
      <4>1. Carrying(i)
        <5>1. Carries(session[s], i)
          BY <1>1, <2>2 DEF Carries
        <5> QED BY <5>1, SerialParts, AloneDue
      <4>2. Accounted(i, first) /\ Finite
        BY <3>2 DEF UsageInv, Balanced, Finite
      <4>3. PICK n \in Nat : n = Cardinality(AppliedIn(i, first, today))
        BY <1>1, <4>2, AccountTypes
      <4>4. PICK most \in Nat : most = Limit * (today - first) + Spent(i) + Carried(first)
        BY <1>1, <4>2, AccountTypes
      <4>5. n + 1 <= most
        BY <4>1, <4>2, <4>3, <4>4 DEF Accounted
      <4>6. Cardinality(AppliedIn(i, first, today)') = n + 1
        <5>1. PICK last \in 0..LastDay : last = today
          BY <1>1
        <5>2. AppliedIn(i, first, today)' = AppliedIn(i, first, last)'
          BY <1>1, <5>1 DEF AppliedIn
        <5>0. first \in 0..LastDay /\ today \in first..last
          BY <1>1, <5>1
        <5>3. /\ AppliedIn(i, first, last)' = AppliedIn(i, first, last) \cup {j}
              /\ j \notin AppliedIn(i, first, last)
          BY <2>7, <5>0, <5>1
        <5>4. IsFiniteSet(AppliedIn(i, first, last))
          BY <4>2, <5>0, <5>1 DEF Finite
        <5>5. Cardinality(AppliedIn(i, first, last) \cup {j}) =
                Cardinality(AppliedIn(i, first, last)) + 1
          BY <5>3, <5>4, FS_AddElement
        <5>6. n = Cardinality(AppliedIn(i, first, last))
          BY <4>3, <5>1
        <5> QED BY <5>2, <5>3, <5>5, <5>6
      <4>7. most = Limit * (today' - first) + Spent(i)' + Carried(first)
        BY <1>1, <2>2, <2>9, <4>4
      <4>8. n + 1 + (IF Carrying(i)' THEN 1 ELSE 0) <= most
        BY <2>10, <4>5
      <4> QED BY <4>6, <4>7, <4>8 DEF Accounted, Carried
    <3>3. \A h \in Instructor \ Premium : \A first \in 0..today : Accounted(h, first)'
      BY <3>1, <3>2
    <3> QED BY <1>1, <3>3 DEF Balanced
  <2>12. UsageAccounts'
    <3>1. ASSUME NEW h \in Instructor \ Premium, NEW first \in 0..LastDay,
                 NEW last \in 0..LastDay, last < today
          PROVE  AppliedIn(h, first, last)' = AppliedIn(h, first, last)
      <4>1. today \notin first..last
        BY <1>1, <3>1
      <4> QED BY <2>7, <4>1
    <3>2. \A h \in Instructor \ Premium : \A first, last \in 0..LastDay :
            last < today' =>
              last <= today /\ AppliedIn(h, first, last)' = AppliedIn(h, first, last)
      BY <1>1, <3>1
    <3>3. \A u \in User \ Premium : Spent(u)' \in Nat /\ Spent(u)' <= Limit
      BY <2>9 DEF UsageInv
    <3> QED BY <1>1, <2>8, <2>11, <3>2, <3>3, AccountsFollow
  <2>13. TrackedAgrees'
    <3>1. ASSUME NEW u \in User \ Premium, NEW day \in usage'[u].day..LastDay
          PROVE  tracked'[<<u, day>>] =
                   IF day = usage'[u].day THEN usage'[u].used ELSE NothingUsed
      <4>1. usage[u].day \in 0..LastDay /\ usage'[u] = usage[u]
        BY <1>1, <2>1 DEF TypeOK, UsageRow
      <4>2. day \in 0..LastDay /\ day \in usage[u].day..LastDay
        BY <4>1
      <4> QED BY <2>4, <4>1, <4>2 DEF UsageInv, TrackedAgrees
    <3> QED BY <3>1 DEF TrackedAgrees
  <2>14. \A slot \in Slot : Applied(slot)' => application'[slot].created <= today
    <3>1. today <= today
      BY <1>1
    <3> QED BY <2>5, <2>6, <3>1 DEF UsageInv, Applied
  <2>15. UsageTables'
    BY <1>1, <2>1, <2>8, <2>9, <2>12, <2>13, <2>14 DEF UsageTables, UsageInv
  <2>16. Due(Idle)'
    BY Uncharged, IdleUncharged
  <2> QED BY <2>1, <2>11, <2>15, <2>16, SerialParts, AloneDue
<1> QED BY <1>2, <1>3

(* Withdrawing, answering, offering and agreeing charge nothing.           *)
LEMMA OtherCharges ==
  ASSUME Serial, UsageInv, NEW s \in Session,
         \/ ReadCount(s) \/ CommitWithdraw(s) \/ CommitOffer(s)
         \/ ReadApplication(s) \/ CommitAnswer(s) \/ CommitContract(s)
  PROVE  UsageInv'
<1>0. /\ TypeOK /\ application \in [Slot -> ApplicationRow \cup {NoApplication}]
      /\ UNCHANGED <<usage, tracked, today>>
  BY SerialParts DEF TypeOK, ReadCount, CommitWithdraw, CommitOffer, ReadApplication,
     CommitAnswer, CommitContract, Refuse, tables, clock
<1>1. Idle.at \notin {"usage", "reset", "insert"}
  BY IdleUncharged
<1>2. ASSUME NEW slot \in Slot, Applied(slot), NEW status \in ApplicationStatus,
             application' = [application EXCEPT ![slot].status = status]
      PROVE  Dated
  <2>1. application[slot] \in ApplicationRow
    BY <1>0, <1>2 DEF Applied
  <2>2. /\ [application[slot] EXCEPT !.status = status].created = application[slot].created
        /\ [application[slot] EXCEPT !.status = status].status = status
    BY <2>1 DEF ApplicationRow
  <2>3. "none" \notin ApplicationStatus
    BY DEF ApplicationStatus
  <2>4. [application[slot] EXCEPT !.status = status] # NoApplication
    BY <2>2, <2>3 DEF NoApplication
  <2>5. \A other \in Slot : application'[other] =
          IF other = slot THEN [application[slot] EXCEPT !.status = status]
          ELSE application[other]
    BY <1>0, <1>2
  <2> QED BY <1>2, <2>2, <2>4, <2>5 DEF Dated, Applied
<1>3. CASE CommitWithdraw(s)
  <2>1. session[s] \in WithdrawPlan /\ session[s].at = "withdraw"
    BY <1>3, SerialParts, PlanKinds DEF CommitWithdraw, TypeOK, At
  <2>2. PICK slot \in Slot : slot = session[s].slot
    BY <2>1 DEF WithdrawPlan
  <2>3. Applied(slot)
    BY <2>1, <2>2, SerialParts DEF Founded
  <2>4. application' = [application EXCEPT ![slot].status = "withdrawn"]
    BY <1>3, <2>2 DEF CommitWithdraw
  <2>5. "withdrawn" \in ApplicationStatus
    BY DEF ApplicationStatus
  <2>6. Dated
    BY <1>2, <2>3, <2>4, <2>5
  <2> QED BY <1>0, <1>1, <1>3, <2>6, ChargeKept DEF CommitWithdraw
<1>4. CASE CommitAnswer(s)
  <2>1. TypeOK /\ RowsFounded /\ Founded(session[s])
    BY SerialParts DEF RowsInv
  <2>2. PICK q \in Offer, answer \in OfferStatus \ {"pending"} :
          \/ UNCHANGED application
          \/ /\ offer[q].application \in Slot
             /\ Applied(offer[q].application)
             /\ answer \in {"accepted", "rejected"}
             /\ application' = [application EXCEPT
                                  ![offer[q].application].status = answer]
    BY <1>4, <2>1, Answered
  <2>3. CASE UNCHANGED application
    <3>1. Dated
      BY <2>3 DEF Dated, Applied
    <3> QED BY <1>0, <1>1, <1>4, <3>1, ChargeKept DEF CommitAnswer
  <2>4. CASE ~UNCHANGED application
    <3>1. PICK slot : slot = offer[q].application
      OBVIOUS
    <3>2. /\ slot \in Slot /\ Applied(slot) /\ answer \in ApplicationStatus
          /\ application' = [application EXCEPT ![slot].status = answer]
      BY <2>2, <2>4, <3>1 DEF ApplicationStatus
    <3>3. Dated
      BY <1>2, <3>2
    <3> QED BY <1>0, <1>1, <1>4, <3>3, ChargeKept DEF CommitAnswer
  <2> QED BY <2>3, <2>4
<1>5. CASE ReadCount(s) \/ CommitOffer(s) \/ ReadApplication(s) \/ CommitContract(s)
  <2>1. Dated
    BY <1>5 DEF Dated, Applied, ReadCount, CommitOffer, ReadApplication,
       CommitContract, Refuse, tables
  <2>2. CASE CommitOffer(s) \/ CommitContract(s)
    <3>1. Become(s, Idle)
      BY <2>2 DEF CommitOffer, CommitContract, Refuse
    <3> QED BY <1>0, <1>1, <2>1, <3>1, ChargeKept
  <2>3. CASE ReadCount(s)
    <3>1. PICK slot, count :
            Become(s, [at |-> "withdraw", slot |-> slot, count |-> count])
      BY <2>3 DEF ReadCount
    <3> DEFINE plan == [at |-> "withdraw", slot |-> slot, count |-> count]
    <3>2. Become(s, plan) /\ plan.at \notin {"usage", "reset", "insert"}
      BY <3>1
    <3> HIDE DEF plan
    <3> QED BY <1>0, <2>1, <3>2, ChargeKept
  <2>4. CASE ReadApplication(s)
    <3>1. PICK p : p = session[s]
      OBVIOUS
    <3>2. PICK written :
            Become(s, [p EXCEPT !.at = "answer", !.writeApplication = written])
      BY <2>4, <3>1 DEF ReadApplication
    <3> DEFINE plan == [p EXCEPT !.at = "answer", !.writeApplication = written]
    <3>3. p \in AnswerPlan
      BY <2>4, <3>1, SerialParts, PlanKinds DEF ReadApplication, TypeOK
    <3>4. Become(s, plan) /\ plan.at = "answer"
      BY <3>2, <3>3 DEF AnswerPlan
    <3> HIDE DEF plan
    <3> QED BY <1>0, <2>1, <3>4, ChargeKept
  <2> QED BY <1>5, <2>2, <2>3, <2>4
<1> QED BY <1>3, <1>4, <1>5

(* At midnight an attempt that was charged, or read, the day before is     *)
(* carried over; an account that begins with the new day allows for it.    *)
LEMMA MidnightCharges ==
  ASSUME OneAtATime, SerialInv, UsageInv, NextDay
  PROVE  UsageInv'
<1>0. /\ TypeOK /\ today \in 0..LastDay /\ today < LastDay /\ LastDay \in Nat
      /\ today' = today + 1 /\ today' \in 0..LastDay
      /\ UNCHANGED <<application, usage, tracked, session>>
      /\ usage \in [User -> UsageRow]
      /\ Limit \in Nat
  BY HiringAssumption DEF SerialInv, HiringInv, TypeOK, NextDay, tables
<1>1. Finite /\ Finite'
  BY <1>0 DEF UsageInv, Finite, AppliedIn
<1>2. \A u \in User : usage[u].day <= today /\ usage[u].day \in Nat
  BY <1>0 DEF UsageInv, UsageRow
<1>3. \A u \in User : usage'[u].day # today' /\ usage'[u].day <= today'
  BY <1>0, <1>2
<1>4. \A u \in User : Spent(u)' = 0
  BY <1>3 DEF Spent
<1>5. TrackedAgrees'
  BY <1>0 DEF UsageInv, TrackedAgrees
<1>6. \A i \in Instructor : \A first, last :
        AppliedIn(i, first, last)' = AppliedIn(i, first, last)
  BY <1>0 DEF AppliedIn
<1>7. \A slot \in Slot : Applied(slot) => /\ application[slot].created <= today
                                        /\ application[slot].created \in Nat
  BY <1>0, Rows DEF UsageInv, ApplicationRow
<1>8. \A slot \in Slot : Applied(slot)' => application'[slot].created <= today'
  BY <1>0, <1>7 DEF Applied
<1>9. \A i \in Instructor : \A first \in 0..LastDay :
        AppliedIn(i, first, today)' =
          IF first = today' THEN {} ELSE AppliedIn(i, first, today)
  <2>1. \A i \in Instructor, j \in Post : <<j, i>> \in Slot
    BY DEF Slot
  <2>2. ASSUME NEW i \in Instructor, NEW first \in 0..LastDay
        PROVE  AppliedIn(i, first, today)' =
                 IF first = today' THEN {} ELSE AppliedIn(i, first, today)
    <3>1. \A j \in Post : application[<<j, i>>] # NoApplication =>
            /\ application[<<j, i>>].created <= today
            /\ application[<<j, i>>].created \in Nat
      BY <1>7, <2>1 DEF Applied
    <3> QED BY <1>0, <3>1 DEF AppliedIn
  <2> QED BY <2>2
<1>10. Balanced'
  <2>1. ASSUME NEW i \in Instructor \ Premium, NEW first \in 0..today'
        PROVE  Accounted(i, first)'
    <3>0. i \in User /\ first \in 0..LastDay
      BY <1>0 DEF User
    <3>1. CASE first = today'
      <4>1. Cardinality(AppliedIn(i, first, today)') = 0
        BY <1>9, <3>0, <3>1, FS_EmptySet
      <4>2. Carried(first) = 1
        BY <1>0, <3>1 DEF Carried
      <4>3. today' - first = 0 /\ Limit * 0 = 0
        BY <1>0, <3>1
      <4> QED BY <1>4, <3>0, <4>1, <4>2, <4>3 DEF Accounted
    <3>2. CASE first # today'
      <4>0. first \in 0..today
        BY <1>0, <3>2
      <4>1. Accounted(i, first)
        BY <4>0 DEF UsageInv, Balanced
      <4>2. PICK n \in Nat : n = Cardinality(AppliedIn(i, first, today))
        BY <1>0, <1>1, <3>0, AccountTypes
      <4>3. n = Cardinality(AppliedIn(i, first, today)')
        BY <1>9, <3>0, <3>2, <4>2
      <4>4. PICK days \in Nat : days = today - first
        BY <1>0, <4>0
      <4>5. PICK all \in Nat : all = Limit * days /\ Limit * (days + 1) = all + Limit
        BY <1>0, DayMore
      <4>6. PICK spent \in Nat : spent = Spent(i) /\ spent <= Limit
        BY <1>0, <1>1, AccountTypes DEF UsageInv, User
      <4>7. n + (IF Carrying(i) THEN 1 ELSE 0) <= all + spent + Carried(first)
        BY <4>1, <4>2, <4>4, <4>5, <4>6 DEF Accounted
      <4>8. ASSUME Carrying(i)', ~Carrying(i)
            PROVE  spent + 1 <= Limit
        <5>1. PICK s \in Session : Carries(session[s], i)'
          BY <4>8 DEF Carrying
        <5>2. session'[s] = session[s] /\ ~Carries(session[s], i)
          BY <1>0, <4>8 DEF Carrying
        <5>3. /\ session[s].at = "usage" /\ session[s].counter = "application"
              /\ session[s].user = i /\ session[s].wanted.day < today'
              /\ ~(session[s].wanted.day < today)
          BY <5>1, <5>2 DEF Carries
        <5>4. PICK p : p = session[s]
          OBVIOUS
        <5>5. p \in UsagePlan /\ p.wanted.day \in 0..LastDay
          <6>1. p \in UsagePlan
            BY <1>0, <5>3, <5>4, PlanKinds DEF At, TypeOK
          <6> QED BY <6>1 DEF UsagePlan, UsageRow
        <5>6. p.wanted.day = today
          BY <1>0, <5>3, <5>4, <5>5
        <5>7. Due(p)
          BY <5>4 DEF UsageInv
        <5>8. Read(p)["application"] < Limit /\ p.loaded = usage[i] /\ p.loaded.day <= today
          BY <5>3, <5>4, <5>6, <5>7 DEF Due
        <5>9. Read(p)["application"] = Spent(i)
          <6>1. PICK d \in 0..LastDay : d = today
            BY <1>0
          <6>2. p.wanted.day = d /\ p.loaded.day <= d /\ d <= today
            BY <1>0, <5>6, <5>8, <6>1
          <6>3. TypeOK /\ i \in User /\ p.loaded = usage[i]
            BY <1>0, <3>0, <5>8
          <6> QED BY <6>1, <6>2, <6>3, ReadIs
        <5> QED BY <1>0, <4>6, <5>8, <5>9
      <4>9. n + (IF Carrying(i)' THEN 1 ELSE 0) <= all + Limit + Carried(first)
        BY <1>0, <4>6, <4>7, <4>8 DEF Carried
      <4>10. Limit * (today' - first) = all + Limit
        <5>1. today' - first = days + 1
          BY <1>0, <4>0, <4>4
        <5> QED BY <4>5, <5>1
      <4>11. n + (IF Carrying(i)' THEN 1 ELSE 0) <=
               Limit * (today' - first) + Spent(i)' + Carried(first)
        BY <1>0, <1>4, <3>0, <4>9, <4>10 DEF Carried
      <4> QED BY <4>3, <4>11 DEF Accounted, Carried
    <3> QED BY <3>1, <3>2
  <2> QED BY <2>1 DEF Balanced
<1>11. \A u \in User \ Premium : Spent(u)' \in Nat /\ Spent(u)' <= Limit
  BY <1>0, <1>4
<1>12. UsageAccounts'
  <2>1. \A i \in Instructor \ Premium : \A first, last \in 0..LastDay :
          last < today' =>
            last <= today /\ AppliedIn(i, first, last)' = AppliedIn(i, first, last)
    BY <1>0, <1>6
  <2> QED BY <1>0, <1>1, <1>10, <1>11, <2>1, AccountsFollow
<1>13. \A r \in Session : Due(session[r])'
  <2>1. ASSUME NEW r \in Session
        PROVE  Due(session[r])'
    <3>1. PICK p : p = session[r]
      OBVIOUS
    <3>2. Due(p)
      BY <3>1 DEF UsageInv
    <3>3. session'[r] = p
      BY <1>0, <3>1
    <3>4. p.at \in {"usage", "reset"} => p.wanted.day <= today'
      <4>1. p.at \in {"usage", "reset"} => p.wanted.day \in 0..LastDay
        <5>1. p.at = "usage" => p \in UsagePlan
          BY <1>0, <3>1, PlanKinds DEF At, TypeOK
        <5>2. p.at = "reset" => p \in ResetPlan
          BY <1>0, <3>1, PlanKinds DEF At, TypeOK
        <5> QED BY <5>1, <5>2 DEF UsagePlan, ResetPlan, UsageRow
      <4> QED BY <1>0, <3>2, <4>1 DEF Due
    <3>5. Due(p)'
      BY <1>0, <3>2, <3>4 DEF Due
    <3> QED BY <3>3, <3>5 DEF Due
  <2> QED BY <2>1
<1> QED BY <1>1, <1>3, <1>5, <1>8, <1>10, <1>11, <1>12, <1>13 DEF UsageInv, Finite

(* Every step keeps the counters of free users true.                       *)
LEMMA UsageStep ==
  ASSUME OneAtATime, SerialInv, UsageInv, [Next]_vars
  PROVE  UsageInv'
<1>0. Serial
  BY DEF Serial
<1>1. CASE UNCHANGED vars
  BY <1>1, ChargeSame DEF vars, tables, clock
<1>2. ASSUME NEW s \in Session, Proceed(s)
      PROVE  UsageInv'
  BY <1>0, <1>2, UsageCharges, ResetCharges, InsertCharges, OtherCharges DEF Proceed
<1>3. ASSUME NEW s \in Session, Killed(s)
      PROVE  UsageInv'
  <2>1. Dated /\ UNCHANGED <<usage, tracked, today>> /\ Become(s, Idle)
    BY <1>3 DEF Killed, Dated, Applied, tables, clock
  <2>2. Idle.at \notin {"usage", "reset", "insert"}
    BY DEF Idle
  <2> QED BY <1>0, <2>1, <2>2, ChargeKept
<1>4. ASSUME NEW s \in Session, PostRequest(s)
      PROVE  UsageInv'
  BY <1>4, ChargeSame DEF PostRequest, CreatePost, UpdatePost, DeletePost, clock
<1>5. ASSUME NEW s \in Session,
             InstructorRequest(s) \/ UsageRequest(s) \/ OfferRequest(s)
      PROVE  UsageInv'
  BY <1>0, <1>5, BeginCharges
<1>6. ASSUME NEW o \in Offer, OfferLapses(o)
      PROVE  UsageInv'
  BY <1>6, ChargeSame DEF OfferLapses, tables
<1> QED BY <1>1, <1>2, <1>3, <1>4, <1>5, <1>6, MidnightCharges DEF Next

LEMMA UsageInit ==
  ASSUME Init
  PROVE  UsageInv
<1>1. /\ today = 0 /\ Limit \in Nat /\ LastDay \in Nat
      /\ \A slot \in Slot : ~Applied(slot)
      /\ \A u \in User : usage[u] = Unused(0)
      /\ \A u \in User, day \in 0..LastDay : tracked[<<u, day>>] = NothingUsed
  BY HiringAssumption DEF Init, Applied
<1>2. \A i \in Instructor : \A first, last : AppliedIn(i, first, last) = {}
  BY <1>1 DEF AppliedIn, Applied, Slot
<1>3. /\ NothingUsed["application"] = 0
      /\ Unused(0).day = 0 /\ Unused(0).used = NothingUsed
  BY DEF NothingUsed, Unused, Counter
<1>4. \A u \in User : Spent(u) = 0 /\ usage[u].day = 0 /\ usage[u].used = NothingUsed
  BY <1>1, <1>3 DEF Spent
<1>5. Cardinality({}) = 0 /\ IsFiniteSet({})
  BY FS_EmptySet
<1>6. \A i : ~Carrying(i)
  BY DEF Init, Carrying, Carries, Idle
<1>7. UsageAccounts
  <2>1. ASSUME NEW i \in Instructor \ Premium, NEW last \in 0..today, NEW first \in 0..last
        PROVE  Cardinality(AppliedIn(i, first, last)) <=
                 Limit * (last - first + 1) + Carried(first)
    <3>1. last = 0 /\ first = 0
      BY <1>1
    <3>2. Cardinality(AppliedIn(i, first, last)) = 0
      BY <1>2, <1>5
    <3>3. 0 <= Limit * (last - first + 1)
      BY <1>1, <3>1
    <3> QED BY <1>1, <3>1, <3>2, <3>3 DEF Carried
  <2> QED BY <2>1 DEF UsageAccounts
<1>8. Balanced
  <2>1. ASSUME NEW i \in Instructor \ Premium, NEW first \in 0..today
        PROVE  Accounted(i, first)
    <3>1. today = 0 /\ first = 0 /\ Spent(i) = 0
      BY <1>1, <1>4 DEF User
    <3>2. Cardinality(AppliedIn(i, first, today)) = 0
      BY <1>2, <1>5
    <3>3. Limit * (today - first) = 0
      BY <1>1, <3>1
    <3> QED BY <1>6, <3>1, <3>2, <3>3 DEF Accounted, Carried
  <2> QED BY <2>1 DEF Balanced
<1>9. TrackedAgrees
  BY <1>1, <1>4 DEF TrackedAgrees
<1>10. \A s \in Session : Due(session[s])
  BY DEF Init, Idle, Due
<1>11. \A i \in Instructor, first, last \in 0..LastDay : IsFiniteSet(AppliedIn(i, first, last))
  BY <1>2, <1>5
<1> QED BY <1>1, <1>4, <1>7, <1>8, <1>9, <1>10, <1>11 DEF UsageInv

(* What makes the daily counts inductive holds in every reachable state,   *)
(* as long as requests do not overlap.                                     *)
LEMMA UsageInvariant ==
  ASSUME OneAtATime
  PROVE  Spec => []UsageInv
<1>1. Init => SerialInv /\ UsageInv
  BY PromiseInit, HiringInit, UsageInit DEF SerialInv
<1>2. SerialInv /\ UsageInv /\ [Next]_vars => SerialInv' /\ UsageInv'
  BY SerialStep, UsageStep
<1> QED BY <1>1, <1>2, PTL DEF Spec

(* While requests do not overlap, a free instructor applies at most Limit  *)
(* times a day over any days in a row, and once more if the attempt of the *)
(* day before comes through after midnight, whatever is withdrawn or dies  *)
(* between the counter's transaction and the application's (check_and_     *)
(* increment_usage, ApplicationService.create).                            *)
THEOREM ApplicationsAreCounted ==
  ASSUME OneAtATime
  PROVE  Spec => []UsageAccounts
<1>1. UsageInv => UsageAccounts
  BY DEF UsageInv
<1> QED BY <1>1, UsageInvariant, PTL

(* While requests do not overlap, the counters of a free user and the rows *)
(* kept for analytics say the same (daily_usage.py, _track_usage).         *)
THEOREM AnalyticsAgree ==
  ASSUME OneAtATime
  PROVE  Spec => []TrackedAgrees
<1>1. UsageInv => TrackedAgrees
  BY DEF UsageInv
<1> QED BY <1>1, UsageInvariant, PTL
=============================================================================
