------------------------ MODULE Subscription_proofs ------------------------
(***************************************************************************)
(* PaidInv is inductive; with it, for any number of users, requests,       *)
(* schedulers and orders, with answers lost and processes killed: the      *)
(* tables have their type, a completed payment has been captured, and, as  *)
(* long as nothing confirms bank transfers, service is only given in the   *)
(* transaction that completes a captured payment.                          *)
(***************************************************************************)
EXTENDS SubscriptionPlatform, SequenceTheorems, TLAPS

-----------------------------------------------------------------------------
(* What the steps an operation decides on are like, for every operation:   *)
(* well-typed, about one user and one order, each payment inserted before  *)
(* it is updated and completed only behind its charge.                     *)

Step == CommitStep \cup ChargeStep

Completing(step) == step.do = "commit" /\ step.txn.paid = "completed"
CompletesFirst(steps) == steps # <<>> /\ Completing(steps[1])

(* Every step is about user u, and about order o or none.                  *)
About(steps, u, o) ==
  \A i \in 1..Len(steps) : /\ UserOf(steps[i]) = u
                           /\ OrderOf(steps[i]) \in {o, NoOrder}

(* Steps that may be decided on in this state.                             *)
Lawful(steps, u, o) ==
  /\ steps \in Seq(Step)
  /\ Ready(steps)
  /\ About(steps, u, o)
Plan(steps, u, o) == Lawful(steps, u, o) /\ ~CompletesFirst(steps)

-----------------------------------------------------------------------------
(* Transactions.                                                           *)

LEMMA NoTxnType ==
  ASSUME NEW u \in User
  PROVE  NoTxn(u) \in Txn /\ Sound(NoTxn(u))
BY DEF NoTxn, Txn, Sound, Keep, Same

(* What a transaction may write of the failed attempts.                    *)
RetryWrite == {Same} \cup 0..SuspendAt

LEMMA RetryType ==
  /\ 0..SuspendAt \subseteq RetryWrite
  /\ \A n \in 0..SuspendAt : n # Same
  /\ 0 \in 0..SuspendAt
BY DEF RetryWrite, Same, SuspendAt

LEMMA InsertType ==
  ASSUME NEW u \in User, NEW o \in Order, NEW k \in Kind, NEW p \in PaymentStatus
  PROVE  LET t == Insert(u, o, k, p) IN
         /\ t \in Txn /\ Sound(t)
         /\ t.user = u /\ t.order = o /\ t.insert = k /\ t.paid = p
         /\ t.insert # Keep
BY SubscriptionAssumption, RetryType
   DEF Insert, NoTxn, Txn, Sound, RetryWrite, Keep, Kind, PaymentStatus

LEMMA ActivateType ==
  ASSUME NEW u \in User, NEW o \in Order, NEW read
  PROVE  LET t == Activate(u, o, read) IN
         /\ t \in Txn /\ Sound(t)
         /\ t.user = u /\ t.order = o /\ t.insert = Keep
         /\ t.paid = "completed"
BY SubscriptionAssumption
   DEF Activate, NoTxn, Txn, Sound, Keep, Same, SubStatus, Tier, PaymentStatus

LEMMA RegisteredType ==
  ASSUME NEW u \in User, NEW o \in Order
  PROVE  LET t == [Activate(u, o, "inactive") EXCEPT !.insert = "initial",
                                                     !.retries = 0] IN
         /\ t \in Txn /\ Sound(t)
         /\ t.user = u /\ t.order = o /\ t.insert # Keep
         /\ t.paid = "completed"
BY SubscriptionAssumption, RetryType
   DEF Activate, NoTxn, Txn, Sound, RetryWrite, Keep, SubStatus, Tier,
       PaymentStatus, Kind

LEMMA RenewalType ==
  ASSUME NEW u \in User, NEW o \in Order
  PROVE  LET t == Renewal(u, o) IN
         /\ t \in Txn /\ Sound(t)
         /\ t.user = u /\ t.order = o /\ t.insert # Keep
         /\ t.paid = "completed"
BY SubscriptionAssumption, RetryType
   DEF Renewal, Insert, NoTxn, Txn, Sound, RetryWrite, Keep, Tier, PaymentStatus,
       Kind

LEMMA ExpiryType ==
  ASSUME NEW u \in User
  PROVE  LET t == Expiry(u) IN
         /\ t \in Txn /\ Sound(t)
         /\ t.user = u /\ t.order = NoOrder /\ t.insert = Keep
         /\ t.paid = Keep
BY DEF Expiry, NoTxn, Txn, Sound, Keep, Same, SubStatus, Tier

LEMMA CancellationType ==
  ASSUME NEW u \in User
  PROVE  LET t == Cancellation(u) IN
         /\ t \in Txn /\ Sound(t)
         /\ t.user = u /\ t.order = NoOrder /\ t.insert = Keep
         /\ t.paid = Keep
BY DEF Cancellation, NoTxn, Txn, Sound, Keep, Same, SubStatus, Tier

LEMMA PaymentFailureType ==
  ASSUME NEW u \in User, NEW o \in Order, NEW read, read.retries \in 0..SuspendAt
  PROVE  LET t == PaymentFailure(u, o, read) IN
         /\ t \in Txn /\ Sound(t)
         /\ t.user = u /\ t.order = o /\ t.insert = Keep
         /\ t.paid # "completed"
<1> DEFINE n == IF read.retries < SuspendAt THEN read.retries + 1 ELSE SuspendAt
           failed == [NoTxn(u) EXCEPT !.order = o, !.retries = n,
                        !.paid = IF read.status = "failed" THEN Keep
                                                           ELSE "failed"]
           suspended == [failed EXCEPT
                           !.status = IF sub[u].status = "suspended" THEN Keep
                                      ELSE "suspended",
                           !.tier = "free", !.history = "free"]
<1>1. n \in 0..SuspendAt
  BY DEF SuspendAt
<1>2. PaymentFailure(u, o, read) = IF n < SuspendAt THEN failed ELSE suspended
  BY DEF PaymentFailure
<1> HIDE DEF n
<1>3. /\ failed \in Txn /\ Sound(failed)
      /\ failed.user = u /\ failed.order = o /\ failed.insert = Keep
      /\ failed.paid # "completed"
  BY <1>1, SubscriptionAssumption, RetryType
     DEF NoTxn, Txn, Sound, RetryWrite, Keep, PaymentStatus
<1>4. /\ suspended \in Txn /\ Sound(suspended)
      /\ suspended.user = u /\ suspended.order = o /\ suspended.insert = Keep
      /\ suspended.paid # "completed"
  BY <1>1, SubscriptionAssumption, RetryType
     DEF NoTxn, Txn, Sound, RetryWrite, Keep, PaymentStatus, SubStatus, Tier
<1> QED BY <1>2, <1>3, <1>4

-----------------------------------------------------------------------------
(* Lists of steps.                                                         *)

(* A session that has nothing to do has done right.                        *)
LEMMA NothingPlanned ==
  ASSUME NEW u, NEW o
  PROVE  Plan(<<>>, u, o)
BY EmptySeq DEF Plan, Lawful, Ready, About, CompletesFirst

LEMMA CommitList ==
  ASSUME NEW t \in Txn
  PROVE  /\ ToCommit(t) \in Seq(Step)
         /\ Len(ToCommit(t)) = 1
         /\ ToCommit(t)[1].do = "commit"
         /\ ToCommit(t)[1].txn = t
BY DEF ToCommit, Step, CommitStep

LEMMA ChargeList ==
  ASSUME NEW u \in User, NEW o \in Order, NEW c \in Charge \ {"deposit"}
  PROVE  /\ ToCharge(u, o, c) \in Seq(Step)
         /\ Len(ToCharge(u, o, c)) = 1
         /\ ToCharge(u, o, c)[1].do = "charge"
         /\ ToCharge(u, o, c)[1].user = u
         /\ ToCharge(u, o, c)[1].order = o
BY DEF ToCharge, Step, ChargeStep

(* A single transaction that finds the payment it updates, and completes   *)
(* it only when it is captured.                                            *)
LEMMA LawfulCommit ==
  ASSUME NEW u, NEW o, NEW t \in Txn, Sound(t),
         t.user = u, t.order \in {o, NoOrder},
         t.order = NoOrder \/ t.insert # Keep \/ payment[t.order] # NoPayment,
         t.paid = "completed" => Captured(t.order)
  PROVE  /\ Lawful(ToCommit(t), u, o)
         /\ t.paid # "completed" => Plan(ToCommit(t), u, o)
<1> DEFINE l == ToCommit(t)
<1>1. l \in Seq(Step) /\ Len(l) = 1 /\ l[1].do = "commit" /\ l[1].txn = t
  BY CommitList
<1> HIDE DEF l
<1>2. Ready(l)
  BY <1>1 DEF Ready
<1>3. About(l, u, o)
  BY <1>1 DEF About, UserOf, OrderOf
<1>4. t.paid # "completed" => ~CompletesFirst(l)
  BY <1>1 DEF CompletesFirst, Completing
<1> QED BY <1>1, <1>2, <1>3, <1>4 DEF Lawful, Plan, l

LEMMA TwoSteps ==
  ASSUME NEW a \in Seq(Step), NEW b \in Seq(Step), Len(a) = 1, Len(b) = 1
  PROVE  /\ a \o b \in Seq(Step)
         /\ Len(a \o b) = 2
         /\ (a \o b)[1] = a[1]
         /\ (a \o b)[2] = b[1]
BY ConcatProperties

(* A charge, and behind it the transaction that completes its payment.     *)
LEMMA PlanToCharge ==
  ASSUME NEW u \in User, NEW o \in Order, NEW c \in Charge \ {"deposit"},
         NEW t \in Txn, Sound(t), t.user = u, t.order = o,
         t.insert # Keep \/ payment[o] # NoPayment
  PROVE  Plan(ToCharge(u, o, c) \o ToCommit(t), u, o)
<1> DEFINE a == ToCharge(u, o, c)
           b == ToCommit(t)
           l == a \o b
<1>1. /\ a \in Seq(Step) /\ Len(a) = 1
      /\ a[1].do = "charge" /\ a[1].user = u /\ a[1].order = o
  BY ChargeList
<1>2. b \in Seq(Step) /\ Len(b) = 1 /\ b[1].do = "commit" /\ b[1].txn = t
  BY CommitList
<1> HIDE DEF a, b
<1>3. l \in Seq(Step) /\ Len(l) = 2 /\ l[1] = a[1] /\ l[2] = b[1]
  BY <1>1, <1>2, TwoSteps
<1> HIDE DEF l
<1>4. /\ l[1].do = "charge" /\ l[1].user = u /\ l[1].order = o
      /\ l[2].do = "commit" /\ l[2].txn = t
  BY <1>1, <1>2, <1>3
<1>5. 1..Len(l) = {1, 2}
  BY <1>3
<1>6. Ready(l)
  BY <1>4, <1>5 DEF Ready, Charges
<1>7. About(l, u, o)
  BY <1>4, <1>5 DEF About, UserOf, OrderOf
<1>8. ~CompletesFirst(l)
  BY <1>4 DEF CompletesFirst, Completing
<1> QED BY <1>3, <1>6, <1>7, <1>8 DEF Lawful, Plan, l, a, b

(* A payment inserted and then updated, neither completing it.             *)
LEMMA PlanToInsert ==
  ASSUME NEW u, NEW o, NEW t \in Txn, NEW r \in Txn,
         Sound(t), Sound(r), t.user = u, r.user = u,
         t.order = o, r.order = o, t.insert # Keep,
         t.paid # "completed", r.paid # "completed"
  PROVE  Plan(ToCommit(t) \o ToCommit(r), u, o)
<1> DEFINE a == ToCommit(t)
           b == ToCommit(r)
           l == a \o b
<1>1. a \in Seq(Step) /\ Len(a) = 1 /\ a[1].do = "commit" /\ a[1].txn = t
  BY CommitList
<1>2. b \in Seq(Step) /\ Len(b) = 1 /\ b[1].do = "commit" /\ b[1].txn = r
  BY CommitList
<1> HIDE DEF a, b
<1>3. l \in Seq(Step) /\ Len(l) = 2 /\ l[1] = a[1] /\ l[2] = b[1]
  BY <1>1, <1>2, TwoSteps
<1> HIDE DEF l
<1>4. /\ l[1].do = "commit" /\ l[1].txn = t
      /\ l[2].do = "commit" /\ l[2].txn = r
  BY <1>1, <1>2, <1>3
<1>5. 1..Len(l) = {1, 2}
  BY <1>3
<1>6. Ready(l)
  BY <1>4, <1>5 DEF Ready, Inserts
<1>7. About(l, u, o)
  BY <1>4, <1>5 DEF About, UserOf, OrderOf
<1>8. ~CompletesFirst(l)
  BY <1>4 DEF CompletesFirst, Completing
<1> QED BY <1>3, <1>6, <1>7, <1>8 DEF Lawful, Plan, l, a, b

(* Plans about the same user and order can be done one after the other.    *)
LEMMA PlansJoin ==
  ASSUME NEW u, NEW o, NEW p, NEW q, Plan(p, u, o), Plan(q, u, o)
  PROVE  Plan(p \o q, u, o)
<1> DEFINE l == p \o q
           m == Len(p)
           n == Len(q)
<1>1. p \in Seq(Step) /\ q \in Seq(Step) /\ m \in Nat /\ n \in Nat
  BY LenProperties DEF Plan, Lawful
<1>2. /\ l \in Seq(Step) /\ Len(l) = m + n
      /\ \A i \in 1..(m + n) : l[i] = IF i <= m THEN p[i] ELSE q[i - m]
  BY <1>1, ConcatProperties
<1>3. n # 0 => ~Completing(q[1])
  BY <1>1, EmptySeq DEF Plan, CompletesFirst
<1>4. m # 0 => ~Completing(p[1])
  BY <1>1, EmptySeq DEF Plan, CompletesFirst
<1> HIDE DEF l, m, n
<1>5. ASSUME NEW i \in 1..Len(l)
      PROVE  \/ i \in 1..m /\ l[i] = p[i] /\ (i > 1 => l[i - 1] = p[i - 1])
             \/ /\ i - m \in 1..n /\ l[i] = q[i - m]
                /\ i - m > 1 => i > 1 /\ l[i - 1] = q[i - m - 1]
  BY <1>1, <1>2
<1>6. Ready(l)
  <2> SUFFICES ASSUME NEW i \in 1..Len(l), l[i].do = "commit",
                      NEW t, t = l[i].txn
               PROVE  /\ Sound(t)
                      /\ t.order # NoOrder /\ t.insert = Keep =>
                           \/ payment[t.order] # NoPayment
                           \/ i > 1 /\ Inserts(l[i - 1], t.order)
                      /\ t.paid = "completed" =>
                           IF i = 1 THEN Captured(t.order)
                                    ELSE Charges(l[i - 1], t.order)
    BY DEF Ready
  <2>1. CASE i \in 1..m /\ l[i] = p[i] /\ (i > 1 => l[i - 1] = p[i - 1])
    BY <1>1, <2>1 DEF Plan, Lawful, Ready, m
  <2>2. CASE /\ i - m \in 1..n /\ l[i] = q[i - m]
             /\ i - m > 1 => i > 1 /\ l[i - 1] = q[i - m - 1]
    <3> DEFINE k == i - m
    <3>1. k \in 1..n /\ q[k].do = "commit" /\ q[k].txn = t
      BY <2>2
    <3>2. /\ Sound(t)
          /\ t.order # NoOrder /\ t.insert = Keep =>
               \/ payment[t.order] # NoPayment
               \/ k > 1 /\ Inserts(q[k - 1], t.order)
          /\ t.paid = "completed" =>
               IF k = 1 THEN Captured(t.order) ELSE Charges(q[k - 1], t.order)
      BY <3>1 DEF Plan, Lawful, Ready, n
    <3>3. k = 1 => t.paid # "completed"
      BY <1>1, <1>3, <3>1 DEF Completing
    <3>4. k > 1 => i > 1 /\ l[i - 1] = q[k - 1]
      BY <2>2
    <3> HIDE DEF k
    <3> QED BY <1>1, <3>1, <3>2, <3>3, <3>4
  <2> QED BY <1>5, <2>1, <2>2
<1>7. About(l, u, o)
  BY <1>5 DEF About, Plan, Lawful, m, n
<1>8. ~CompletesFirst(l)
  <2> SUFFICES ASSUME l # <<>> PROVE ~Completing(l[1])
    BY DEF CompletesFirst
  <2>1. 1 \in 1..Len(l)
    BY <1>1, <1>2, EmptySeq
  <2>2. CASE 1 \in 1..m /\ l[1] = p[1]
    BY <1>1, <1>4, <2>2
  <2>3. CASE 1 - m \in 1..n /\ l[1] = q[1 - m]
    BY <1>1, <1>3, <2>3
  <2> QED BY <1>5, <2>1, <2>2, <2>3
<1> QED BY <1>2, <1>6, <1>7, <1>8 DEF Plan, Lawful, l

-----------------------------------------------------------------------------
(* Steps about a subscription find it.                                     *)

LEMMA FoundedOnRow ==
  ASSUME NEW u, NEW o, NEW l, About(l, u, o), sub[u] # NoSub
  PROVE  Founded(l)
BY DEF About, Founded

LEMMA CreatePlan ==
  ASSUME NEW u \in User, NEW o, sub[u] \in SubRow \cup {NoSub}
  PROVE  /\ Plan(Create(u), u, o)
         /\ sub[u] = NoSub => /\ Len(Create(u)) = 1
                             /\ Creates(Create(u)[1], u)
<1> DEFINE t == [NoTxn(u) EXCEPT !.create = TRUE]
<1>1. /\ t \in Txn /\ Sound(t) /\ t.create
      /\ t.user = u /\ t.order = NoOrder /\ t.paid = Keep
  BY DEF NoTxn, Txn, Sound, Keep, Same
<1>2. Create(u) = <<>> \/ Create(u) = ToCommit(t)
  BY DEF Create
<1>3. sub[u] = NoSub => Create(u) = ToCommit(t)
  BY DEF Create, HasCurrent, NoSub
<1> HIDE DEF t
<1>4. Plan(ToCommit(t), u, o)
  BY <1>1, LawfulCommit DEF Keep
<1>5. Len(ToCommit(t)) = 1 /\ Creates(ToCommit(t)[1], u)
  BY <1>1, CommitList DEF Creates
<1> QED BY <1>2, <1>3, <1>4, <1>5, NothingPlanned

LEMMA FoundedOnCreate ==
  ASSUME NEW u \in User, NEW o, NEW q, sub[u] \in SubRow \cup {NoSub},
         Plan(q, u, o)
  PROVE  Plan(Create(u) \o q, u, o) /\ Founded(Create(u) \o q)
<1> DEFINE l == Create(u) \o q
<1>1. Plan(l, u, o)
  BY CreatePlan, PlansJoin
<1>2. CASE sub[u] # NoSub
  BY <1>1, <1>2, FoundedOnRow DEF Plan, Lawful
<1>3. CASE sub[u] = NoSub
  <2>1. Len(Create(u)) = 1 /\ Creates(Create(u)[1], u)
    BY <1>3, CreatePlan
  <2>2. Create(u) \in Seq(Step) /\ q \in Seq(Step)
    BY CreatePlan DEF Plan, Lawful
  <2>3. l[1] = Create(u)[1]
    BY <2>1, <2>2, ConcatProperties, LenProperties
  <2>4. ~NeedsRow(l[1])
    BY <2>1, <2>3 DEF NeedsRow, Creates
  <2>5. \A i \in 1..Len(l) : UserOf(l[i]) = u
    BY <1>1 DEF Plan, Lawful, About
  <2>6. Len(l) \in Nat
    BY <1>1, LenProperties DEF Plan, Lawful
  <2>7. Creates(l[1], u)
    BY <2>1, <2>3
  <2> HIDE DEF l
  <2>8. Founded(l)
    BY <2>4, <2>5, <2>6, <2>7 DEF Founded
  <2> QED BY <1>1, <2>8 DEF l
<1> QED BY <1>1, <1>2, <1>3

(* Rows are never deleted and money is not given back.                     *)
LEMMA ReadyStable ==
  ASSUME NEW l \in Seq(Step), Ready(l),
         \A o \in Order : payment[o] # NoPayment => payment'[o] # NoPayment,
         \A o \in Order : ledger[o] # Uncaptured => ledger'[o] # Uncaptured
  PROVE  Ready(l)'
<1> SUFFICES ASSUME NEW i \in 1..Len(l), l[i].do = "commit"
             PROVE  LET t == l[i].txn IN
                    /\ Sound(t)
                    /\ t.order # NoOrder /\ t.insert = Keep =>
                         \/ payment'[t.order] # NoPayment
                         \/ i > 1 /\ Inserts(l[i - 1], t.order)
                    /\ t.paid = "completed" =>
                         IF i = 1 THEN Captured(t.order)'
                                  ELSE Charges(l[i - 1], t.order)
  BY Zenon DEF Ready
<1> DEFINE t == l[i].txn
<1>1. l[i] \in CommitStep
  BY ElementOfSeq DEF Step, ChargeStep
<1>2. t \in Txn
  BY <1>1 DEF CommitStep
<1>3. t.order \in Order \cup {NoOrder}
  BY <1>2 DEF Txn
<1>4. /\ Sound(t)
      /\ t.order # NoOrder /\ t.insert = Keep =>
           \/ payment[t.order] # NoPayment
           \/ i > 1 /\ Inserts(l[i - 1], t.order)
      /\ t.paid = "completed" =>
           IF i = 1 THEN ledger[t.order] # Uncaptured
                    ELSE Charges(l[i - 1], t.order)
  BY DEF Ready, Captured
<1>5. t.paid = "completed" => t.order # NoOrder
  BY <1>4 DEF Sound, Keep
<1> QED BY <1>3, <1>4, <1>5 DEF Captured

LEMMA StepUser ==
  ASSUME NEW l \in Seq(Step), NEW i \in 1..Len(l)
  PROVE  UserOf(l[i]) \in User
<1>1. l[i] \in Step
  BY ElementOfSeq
<1> QED BY <1>1 DEF Step, CommitStep, ChargeStep, Txn, UserOf

LEMMA FoundedStable ==
  ASSUME NEW l \in Seq(Step), Founded(l),
         \A u \in User : sub[u] # NoSub => sub'[u] # NoSub
  PROVE  Founded(l)'
BY StepUser DEF Founded

-----------------------------------------------------------------------------
(* What is left behind the first step.                                     *)

LEMMA TailOf ==
  ASSUME NEW l \in Seq(Step), l # <<>>
  PROVE  /\ Tail(l) \in Seq(Step)
         /\ Len(l) \in Nat /\ 1 \in 1..Len(l)
         /\ Head(l) = l[1] /\ l[1] \in Step
         /\ \A i \in 1..Len(Tail(l)) : /\ i + 1 \in 1..Len(l)
                                      /\ Tail(l)[i] = l[i + 1]
                                      /\ i > 1 => Tail(l)[i - 1] = l[i]
<1>1. Len(l) \in Nat /\ Len(l) # 0
  BY EmptySeq, LenProperties
<1>2. /\ Tail(l) \in Seq(Step) /\ Len(Tail(l)) = Len(l) - 1
      /\ \A i \in 1..Len(Tail(l)) : Tail(l)[i] = l[i + 1]
  BY HeadTailProperties
<1>3. Head(l) = l[1] /\ l[1] \in Step
  BY <1>1, ElementOfSeq
<1> QED BY <1>1, <1>2, <1>3

(* Once the first step has had its effect the others are ready.            *)
LEMMA ReadyTail ==
  ASSUME NEW l \in Seq(Step), l # <<>>, Ready(l),
         \A o \in Order : payment[o] # NoPayment => payment'[o] # NoPayment,
         \A o \in Order : ledger[o] # Uncaptured => ledger'[o] # Uncaptured,
         \A o \in Order : Inserts(l[1], o) => payment'[o] # NoPayment,
         \A o \in Order : Charges(l[1], o) => ledger'[o] # Uncaptured
  PROVE  Ready(Tail(l))'
<1>1. PICK m : m = Tail(l)
  OBVIOUS
<1>2. /\ m \in Seq(Step) /\ Len(l) \in Nat
      /\ \A i \in 1..Len(m) : /\ i + 1 \in 1..Len(l)
                              /\ m[i] = l[i + 1]
                              /\ i > 1 => m[i - 1] = l[i]
  BY <1>1, TailOf
<1> SUFFICES ASSUME NEW i \in 1..Len(m), m[i].do = "commit"
             PROVE  LET t == m[i].txn IN
                    /\ Sound(t)
                    /\ t.order # NoOrder /\ t.insert = Keep =>
                         \/ payment'[t.order] # NoPayment
                         \/ i > 1 /\ Inserts(m[i - 1], t.order)
                    /\ t.paid = "completed" =>
                         IF i = 1 THEN Captured(t.order)'
                                  ELSE Charges(m[i - 1], t.order)
  BY Zenon, <1>1 DEF Ready
<1> DEFINE t == m[i].txn
<1>3. m[i] \in CommitStep
  BY <1>2, ElementOfSeq DEF Step, ChargeStep
<1>4. t.order \in Order \cup {NoOrder}
  BY <1>3 DEF CommitStep, Txn
<1>5. i + 1 \in 1..Len(l) /\ l[i + 1].do = "commit" /\ l[i + 1].txn = t
  BY <1>2
<1>6. /\ Sound(t)
      /\ t.order # NoOrder /\ t.insert = Keep =>
           payment[t.order] # NoPayment \/ Inserts(l[(i + 1) - 1], t.order)
      /\ t.paid = "completed" => Charges(l[(i + 1) - 1], t.order)
  BY <1>5 DEF Ready
<1>7. (i + 1) - 1 = i /\ (i = 1 \/ i > 1) /\ (i > 1 => m[i - 1] = l[i])
  BY <1>2, LenProperties
<1>8. t.paid = "completed" => t.order # NoOrder
  BY <1>6 DEF Sound, Keep
<1> HIDE DEF t
<1>9. /\ Sound(t)
      /\ t.order # NoOrder /\ t.insert = Keep =>
           payment[t.order] # NoPayment \/ Inserts(l[i], t.order)
      /\ t.paid = "completed" => t.order \in Order /\ Charges(l[i], t.order)
  BY <1>4, <1>6, <1>7, <1>8
<1>10. t.order # NoOrder /\ t.insert = Keep =>
         \/ payment'[t.order] # NoPayment
         \/ i > 1 /\ Inserts(m[i - 1], t.order)
  BY <1>4, <1>7, <1>9
<1>11. t.paid = "completed" =>
         IF i = 1 THEN Captured(t.order)' ELSE Charges(m[i - 1], t.order)
  BY <1>7, <1>9 DEF Captured
<1> QED BY <1>9, <1>10, <1>11 DEF t

LEMMA FoundedTail ==
  ASSUME NEW l \in Seq(Step), l # <<>>, Founded(l),
         \A u \in User : sub[u] # NoSub => sub'[u] # NoSub,
         \A u \in User : Creates(l[1], u) => sub'[u] # NoSub
  PROVE  Founded(Tail(l))'
<1>1. PICK m : m = Tail(l)
  OBVIOUS
<1>2. /\ m \in Seq(Step)
      /\ \A i \in 1..Len(m) : /\ i + 1 \in 1..Len(l)
                              /\ m[i] = l[i + 1]
  BY <1>1, TailOf
<1>3. ASSUME NEW i \in 1..Len(m), NeedsRow(m[i])
      PROVE  sub'[UserOf(m[i])] # NoSub
  <2>1. UserOf(m[i]) \in User
    BY <1>2, StepUser
  <2>2. NeedsRow(l[i + 1]) /\ i + 1 \in 1..Len(l)
    BY <1>2, <1>3
  <2>3. sub[UserOf(m[i])] # NoSub \/ Creates(l[1], UserOf(m[i]))
    BY <1>2, <2>2 DEF Founded
  <2> QED BY <2>1, <2>3
<1>4. Founded(m)'
  BY <1>3 DEF Founded
<1> QED BY <1>1, <1>4 DEF Founded

LEMMA OwnedTail ==
  ASSUME NEW l \in Seq(Step), l # <<>>, NEW owner, NEW o,
         \A i \in 1..Len(l) : OrderOf(l[i]) = o => UserOf(l[i]) = owner[o]
  PROVE  \A i \in 1..Len(Tail(l)) :
           OrderOf(Tail(l)[i]) = o => UserOf(Tail(l)[i]) = owner[o]
BY TailOf

(* Only behind a charge does a completing transaction come to the front.   *)
LEMMA TailCompletes ==
  ASSUME NEW l \in Seq(Step), l # <<>>, Ready(l), CompletesFirst(Tail(l))
  PROVE  Charges(l[1], Tail(l)[1].txn.order)
<1>1. PICK m : m = Tail(l)
  OBVIOUS
<1>2. m \in Seq(Step) /\ m # <<>> /\ m[1].do = "commit" /\ m[1].txn.paid = "completed"
  BY <1>1, TailOf DEF CompletesFirst, Completing
<1>3. 1 \in 1..Len(m)
  BY <1>2, TailOf
<1>4. 2 \in 1..Len(l) /\ m[1] = l[2]
  <2>1. 1 + 1 \in 1..Len(l) /\ m[1] = l[1 + 1]
    BY <1>1, <1>3, TailOf
  <2> QED BY <2>1
<1>5. Charges(l[2 - 1], l[2].txn.order)
  BY <1>2, <1>4 DEF Ready
<1> QED BY <1>1, <1>4, <1>5
-----------------------------------------------------------------------------
(* The invariant.                                                          *)

Owner == [Order -> User \cup {"nobody"}]

(* The steps agree with who owns which order.                              *)
StepsOwned(steps, owner) ==
  \A o \in Order : \A i \in 1..Len(steps) :
    OrderOf(steps[i]) = o => UserOf(steps[i]) = owner[o]

(* The steps agree with the owners there are, up to fresh orders.          *)
Ownable(steps) ==
  \A owner \in Owner : OwnedBy(owner) =>
    \E w \in Owner : /\ StepsOwned(steps, w)
                     /\ \A o \in Order : w[o] = owner[o] \/ Fresh(o)

(* The ledger stays, or takes money of the owner of an order.              *)
LedgerGrows ==
  \/ ledger' = ledger
  \/ \E o \in Order, c \in Capture :
       /\ ledger[o] = Uncaptured
       /\ ledger' = [ledger EXCEPT ![o] = c]
       /\ \A owner \in Owner : OwnedBy(owner) => owner[o] = c.user
       /\ ~Fresh(o)

LEMMA LedgerKeeps ==
  ASSUME TypeOK, LedgerGrows
  PROVE  /\ ledger' \in [Order -> Capture \cup {Uncaptured}]
         /\ \A o \in Order : ledger[o] # Uncaptured => ledger'[o] = ledger[o]
         /\ \A owner \in Owner, o \in Order :
              OwnedBy(owner) /\ ledger'[o] # Uncaptured =>
                ledger'[o].user = owner[o] /\ (ledger[o] = Uncaptured => ~Fresh(o))
<1>1. ledger \in [Order -> Capture \cup {Uncaptured}]
  BY DEF TypeOK
<1>2. \A owner \in Owner, o \in Order :
        OwnedBy(owner) /\ ledger[o] # Uncaptured => ledger[o].user = owner[o]
  BY DEF OwnedBy, Captured
<1>3. CASE ledger' = ledger
  BY <1>1, <1>2, <1>3
<1>4. CASE ledger' # ledger
  <2>1. PICK o \in Order, c \in Capture :
       /\ ledger[o] = Uncaptured
       /\ ledger' = [ledger EXCEPT ![o] = c]
       /\ \A owner \in Owner : OwnedBy(owner) => owner[o] = c.user
       /\ ~Fresh(o)
    BY <1>4 DEF LedgerGrows
  <2> QED BY <1>1, <1>2, <2>1
<1> QED BY <1>3, <1>4

(* A list is ready whoever has it.                                         *)
LEMMA ReadyOf ==
  ASSUME NEW r \in Session, NEW l, session'[r].todo = l, Ready(l)'
  PROVE  Ready(session[r].todo)'
BY DEF Ready

LEMMA FoundedOf ==
  ASSUME NEW r \in Session, NEW l, session'[r].todo = l, Founded(l)'
  PROVE  Founded(session[r].todo)'
BY DEF Founded

(* What a session decides to do, takes from the bank or gives up keeps the *)
(* invariant, as long as its steps are sound.                              *)
LEMMA DecideKeeps ==
  ASSUME PaidInv, NEW s \in Session, NEW steps \in Seq(Step),
         UNCHANGED tables, LedgerGrows,
         refused' \in SUBSET Order, month' \in Nat,
         session' \in [Session -> SessionState],
         session'[s].todo = steps,
         \A d \in session'[s].due : sub[d.user] # NoSub,
         \A r \in Session \ {s} : session'[r] = session[r],
         Ready(steps)', Founded(steps), Ownable(steps),
         CompletesFirst(steps) =>
           \/ "bank_transfer" \in Wired
           \/ ledger[steps[1].txn.order] = Uncaptured
  PROVE  PaidInv'
<1>1. /\ sub' = sub /\ tier' = tier /\ active' = active
      /\ history' = history /\ payment' = payment
  BY DEF tables
<1>2. TypeOK
  BY DEF PaidInv
<1>3. /\ ledger' \in [Order -> Capture \cup {Uncaptured}]
      /\ \A o \in Order : ledger[o] # Uncaptured => ledger'[o] = ledger[o]
      /\ \A owner \in Owner, o \in Order :
           OwnedBy(owner) /\ ledger'[o] # Uncaptured =>
             ledger'[o].user = owner[o] /\ (ledger[o] = Uncaptured => ~Fresh(o))
  BY <1>2, LedgerKeeps
<1>4. TypeOK'
  BY <1>1, <1>2, <1>3 DEF TypeOK
<1>5. CompletedIsCaptured'
  BY <1>1, <1>3 DEF PaidInv, CompletedIsCaptured, Completed, Captured
<1>6. \A r \in Session : session[r].todo \in Seq(Step)
  BY <1>2 DEF TypeOK, SessionState, Step
<1>7. ASSUME NEW r \in Session
      PROVE  Ready(session[r].todo)'
  <2>1. CASE r = s
    BY <2>1, ReadyOf
  <2>2. CASE r # s
    <3>1. PICK l : l = session[r].todo
      OBVIOUS
    <3>2. l \in Seq(Step) /\ Ready(l) /\ session'[r].todo = l
      BY <1>6, <2>2, <3>1 DEF PaidInv
    <3>3. \A o \in Order : payment[o] # NoPayment => payment'[o] # NoPayment
      BY <1>1
    <3>4. \A o \in Order : ledger[o] # Uncaptured => ledger'[o] # Uncaptured
      BY <1>3, <1>2 DEF TypeOK
    <3>5. Ready(l)'
      BY <3>2, <3>3, <3>4, ReadyStable
    <3> QED BY <3>2, <3>5, ReadyOf
  <2> QED BY <2>1, <2>2
<1>8. RowsExist'
  <2>1. \A o \in Order : payment'[o] # NoPayment => sub'[payment'[o].user] # NoSub
    BY <1>1 DEF PaidInv, RowsExist
  <2>2. ASSUME NEW r \in Session
        PROVE  /\ Founded(session[r].todo)'
               /\ \A d \in session'[r].due : sub'[d.user] # NoSub
    <3>1. PICK l : l = session'[r].todo
      OBVIOUS
    <3>2. Founded(l) /\ \A d \in session'[r].due : sub[d.user] # NoSub
      BY <3>1 DEF PaidInv, RowsExist
    <3>3. Founded(l)'
      BY <1>1, <3>2 DEF Founded
    <3> QED BY <1>1, <3>1, <3>2, <3>3, FoundedOf
  <2> QED BY <2>1, <2>2 DEF RowsExist
<1>9. Owned'
  <2>1. PICK owner \in Owner : OwnedBy(owner)
    BY DEF PaidInv, Owned, Owner
  <2>2. PICK w \in Owner : /\ StepsOwned(steps, w)
                          /\ \A o \in Order : w[o] = owner[o] \/ Fresh(o)
    BY <2>1 DEF Ownable
  <2>3. ASSUME NEW o \in Order
        PROVE  /\ payment'[o] # NoPayment => payment'[o].user = w[o]
               /\ ledger'[o] # Uncaptured => ledger'[o].user = w[o]
    <3>1. payment[o] # NoPayment => payment[o].user = owner[o] /\ ~Fresh(o)
      BY <2>1 DEF OwnedBy, Fresh
    <3>2. ledger'[o] # Uncaptured => ledger'[o].user = owner[o]
      BY <1>3, <2>1
    <3>3. ledger'[o] # Uncaptured => ~Fresh(o)
      BY <1>3, <2>1 DEF Fresh, Captured
    <3> QED BY <1>1, <2>2, <3>1, <3>2, <3>3
  <2>4. ASSUME NEW o \in Order, NEW r \in Session,
               NEW i \in 1..Len(session'[r].todo),
               OrderOf(session'[r].todo[i]) = o
        PROVE  UserOf(session'[r].todo[i]) = w[o]
    <3>1. CASE r = s
      BY <2>2, <2>4, <3>1 DEF StepsOwned
    <3>2. CASE r # s
      <4>1. session'[r] = session[r]
        BY <3>2
      <4>2. ~Fresh(o)
        BY <2>4, <4>1 DEF Fresh
      <4>3. UserOf(session[r].todo[i]) = owner[o]
        BY <2>1, <2>4, <4>1 DEF OwnedBy
      <4> QED BY <2>2, <4>1, <4>2, <4>3
    <3> QED BY <3>1, <3>2
  <2>5. OwnedBy(w)'
    BY <2>3, <2>4 DEF OwnedBy, Captured
  <2> QED BY <2>5 DEF Owned, Owner
<1>10. "bank_transfer" \notin Wired => RecordedOnce'
  <2> SUFFICES ASSUME "bank_transfer" \notin Wired
               PROVE  RecordedOnce'
    OBVIOUS
  <2>1. RecordedOnce /\ CompletedIsCaptured
    BY DEF PaidInv
  <2>2. ASSUME NEW r \in Session, r # s, NEW o \in Order
        PROVE  ToRecord(r, o)' <=> ToRecord(r, o)
    BY <2>2 DEF ToRecord, Doing
  <2>3. ASSUME NEW o \in Order, ToRecord(s, o)'
        PROVE  ledger[o] = Uncaptured
    BY <2>3 DEF ToRecord, Doing, CompletesFirst, Completing
  <2>4. ASSUME NEW r \in Session, NEW o \in Order, ToRecord(r, o)
        PROVE  ledger[o] # Uncaptured
    BY <1>6, <2>4, EmptySeq DEF ToRecord, Doing, PaidInv, Ready, Captured
  <2> SUFFICES ASSUME NEW o \in Order, NEW r \in Session, ToRecord(r, o)'
               PROVE  /\ ~Completed(payment'[o])
                      /\ \A q \in Session \ {r} : ~ToRecord(q, o)'
    BY DEF RecordedOnce, Completed
  <2>5. CASE r = s
    <3>1. ~Completed(payment[o])
      BY <2>1, <2>3, <2>5 DEF CompletedIsCaptured, Captured
    <3>2. \A q \in Session \ {r} : ~ToRecord(q, o)
      BY <2>3, <2>4, <2>5
    <3> QED BY <1>1, <2>2, <2>5, <3>1, <3>2
  <2>6. CASE r # s
    <3>1. ToRecord(r, o)
      BY <2>2, <2>6
    <3>2. ~ToRecord(s, o)'
      BY <2>3, <2>4, <3>1
    <3> QED BY <1>1, <2>1, <2>2, <3>1, <3>2 DEF RecordedOnce
  <2> QED BY <2>5, <2>6
<1> QED BY <1>4, <1>5, <1>7, <1>8, <1>9, <1>10 DEF PaidInv

-----------------------------------------------------------------------------
(* Operations.                                                             *)

(* A list about one user and an order that is fresh or the user's.         *)
Yours(o, u) ==
  Fresh(o) \/ \A owner \in Owner : OwnedBy(owner) => owner[o] = u

LEMMA AboutOwnable ==
  ASSUME NEW steps, NEW u \in User, NEW o, About(steps, u, o),
         o = NoOrder \/ (o \in Order /\ Yours(o, u))
  PROVE  Ownable(steps)
<1> SUFFICES ASSUME NEW owner \in Owner, OwnedBy(owner)
             PROVE  \E w \in Owner : /\ StepsOwned(steps, w)
                                     /\ \A q \in Order : w[q] = owner[q] \/ Fresh(q)
  BY DEF Ownable
<1>1. NoOrder \notin Order
  BY SubscriptionAssumption
<1>2. CASE o = NoOrder \/ (o \in Order /\ owner[o] = u)
  <2>1. StepsOwned(steps, owner)
    BY <1>1, <1>2 DEF About, StepsOwned
  <2> QED BY <2>1
<1>3. CASE o \in Order /\ Fresh(o)
  <2> DEFINE w == [owner EXCEPT ![o] = u]
  <2>1. w \in Owner /\ w[o] = u /\ \A q \in Order : q # o => w[q] = owner[q]
    BY <1>3 DEF Owner
  <2> HIDE DEF w
  <2>2. StepsOwned(steps, w)
    BY <1>1, <2>1 DEF About, StepsOwned
  <2> QED BY <1>3, <2>1, <2>2
<1> QED BY <1>2, <1>3 DEF Yours

(* The payment of a user is the user's, and so is what the user pays for.  *)
LEMMA PaymentIsYours ==
  ASSUME NEW o \in Order, payment[o] # NoPayment
  PROVE  Yours(o, payment[o].user)
BY DEF Yours, OwnedBy

LEMMA ContinueType ==
  ASSUME TypeOK, NEW s \in Session, NEW steps \in Seq(Step), Continue(s, steps)
  PROVE  /\ session' \in [Session -> SessionState]
         /\ session'[s].todo = steps
         /\ session'[s].due = session[s].due
         /\ \A r \in Session \ {s} : session'[r] = session[r]
BY DEF TypeOK, Continue, SessionState, Step

LEMMA BecomeType ==
  ASSUME TypeOK, NEW s \in Session, NEW due \in SUBSET Seen,
         NEW steps \in Seq(Step), Become(s, [due |-> due, todo |-> steps])
  PROVE  /\ session' \in [Session -> SessionState]
         /\ session'[s].todo = steps
         /\ session'[s].due = due
         /\ \A r \in Session \ {s} : session'[r] = session[r]
BY DEF TypeOK, Become, SessionState, Step

LEMMA BeginKeeps ==
  ASSUME PaidInv, NEW s, NEW u \in User, NEW o, NEW steps, Begin(s, steps),
         Lawful(steps, u, o), Founded(steps),
         ~CompletesFirst(steps) \/ "bank_transfer" \in Wired,
         o = NoOrder \/ (o \in Order /\ Yours(o, u))
  PROVE  PaidInv'
<1>1. /\ s \in Session /\ Continue(s, steps)
      /\ UNCHANGED <<tables, ledger, refused, month>>
  BY DEF Begin, Session
<1>2. TypeOK /\ steps \in Seq(Step) /\ Ready(steps) /\ Ownable(steps)
  BY AboutOwnable DEF PaidInv, Lawful
<1>3. /\ session' \in [Session -> SessionState]
      /\ session'[s].todo = steps
      /\ session'[s].due = session[s].due
      /\ \A r \in Session \ {s} : session'[r] = session[r]
  BY <1>1, <1>2, ContinueType
<1>4. \A d \in session'[s].due : sub[d.user] # NoSub
  BY <1>1, <1>3 DEF PaidInv, RowsExist
<1>5. /\ UNCHANGED tables /\ LedgerGrows
      /\ refused' \in SUBSET Order /\ month' \in Nat
  BY <1>1, <1>2 DEF LedgerGrows, TypeOK
<1>6. Ready(steps)'
  BY <1>1, <1>2, ReadyStable DEF tables
<1> QED BY <1>1, <1>2, <1>3, <1>4, <1>5, <1>6, DecideKeeps

(* A plan about a user that has a subscription.                            *)
LEMMA PlanKeeps ==
  ASSUME PaidInv, NEW s, NEW u \in User, NEW o, NEW steps, Begin(s, steps),
         Plan(steps, u, o), sub[u] # NoSub,
         o = NoOrder \/ (o \in Order /\ Yours(o, u))
  PROVE  PaidInv'
BY FoundedOnRow, BeginKeeps DEF Plan, Lawful

LEMMA InitializePaymentKeeps ==
  ASSUME PaidInv, NEW s, NEW u \in User, NEW o \in Order, NEW k \in Kind,
         InitializePayment(s, u, o, k)
  PROVE  PaidInv'
<1> DEFINE q == ToCommit(Insert(u, o, k, "pending"))
<1>1. /\ Fresh(o) /\ Begin(s, Create(u) \o q)
      /\ sub[u] \in SubRow \cup {NoSub}
  BY DEF InitializePayment, PaidInv, TypeOK
<1>2. Plan(q, u, o)
  BY InsertType, LawfulCommit DEF PaymentStatus
<1> HIDE DEF q
<1>3. Plan(Create(u) \o q, u, o) /\ Founded(Create(u) \o q)
  BY <1>1, <1>2, FoundedOnCreate
<1> QED BY <1>1, <1>3, BeginKeeps DEF Plan, Yours

(* What the row of a payment tells.                                        *)
LEMMA PaymentTells ==
  ASSUME PaidInv, NEW o \in Order, payment[o] # NoPayment
  PROVE  /\ payment[o].user \in User
         /\ payment[o].retries \in 0..SuspendAt
         /\ sub[payment[o].user] # NoSub
         /\ Yours(o, payment[o].user)
<1>1. payment[o] \in PaymentRow
  BY DEF PaidInv, TypeOK
<1>2. sub[payment[o].user] # NoSub
  BY DEF PaidInv, RowsExist
<1> QED BY <1>1, <1>2, PaymentIsYours DEF PaymentRow

LEMMA ConfirmPaymentKeeps ==
  ASSUME PaidInv, NEW s, NEW o \in Order, ConfirmPayment(s, o)
  PROVE  PaidInv'
<1>1. PICK u : u = payment[o].user
  OBVIOUS
<1>2. PICK t : t = Activate(u, o, sub[u].status)
  OBVIOUS
<1>3. /\ payment[o] # NoPayment
      /\ Begin(s, ToCharge(u, o, "confirm") \o ToCommit(t))
  BY <1>1, <1>2 DEF ConfirmPayment
<1>4. u \in User /\ sub[u] # NoSub /\ Yours(o, u)
  BY <1>1, <1>3, PaymentTells
<1>5. /\ t \in Txn /\ Sound(t)
      /\ t.user = u /\ t.order = o
  BY <1>2, <1>4, ActivateType
<1>6. "confirm" \in Charge \ {"deposit"}
  BY DEF Charge
<1>7. Plan(ToCharge(u, o, "confirm") \o ToCommit(t), u, o)
  BY <1>3, <1>4, <1>5, <1>6, PlanToCharge
<1> QED BY <1>3, <1>4, <1>7, PlanKeeps

LEMMA ConfirmBankTransferKeeps ==
  ASSUME PaidInv, NEW s, NEW o \in Order, ConfirmBankTransfer(s, o)
  PROVE  PaidInv'
<1>1. PICK u : u = payment[o].user
  OBVIOUS
<1>2. PICK t : t = Activate(u, o, sub[u].status)
  OBVIOUS
<1>3. /\ payment[o] # NoPayment /\ Captured(o)
      /\ "bank_transfer" \in Wired
      /\ Begin(s, ToCommit(t))
  BY <1>1, <1>2 DEF ConfirmBankTransfer, Captured, Uncaptured
<1>4. u \in User /\ sub[u] # NoSub /\ Yours(o, u)
  BY <1>1, <1>3, PaymentTells
<1>5. /\ t \in Txn /\ Sound(t)
      /\ t.user = u /\ t.order = o
  BY <1>2, <1>4, ActivateType
<1>6. Lawful(ToCommit(t), u, o)
  BY <1>3, <1>5, LawfulCommit
<1>7. Founded(ToCommit(t))
  BY <1>4, <1>6, FoundedOnRow DEF Lawful
<1> QED BY <1>3, <1>4, <1>6, <1>7, BeginKeeps

LEMMA CancelSubscriptionKeeps ==
  ASSUME PaidInv, NEW s, NEW u \in User, CancelSubscription(s, u)
  PROVE  PaidInv'
<1>1. sub[u] # NoSub /\ Begin(s, ToCommit(Cancellation(u)))
  BY DEF CancelSubscription, NoSub
<1>2. Plan(ToCommit(Cancellation(u)), u, NoOrder)
  BY CancellationType, LawfulCommit DEF Keep
<1> QED BY <1>1, <1>2, PlanKeeps

LEMMA RegisterBillingKeyKeeps ==
  ASSUME PaidInv, NEW s, NEW u \in User, NEW o \in Order,
         RegisterBillingKey(s, u, o)
  PROVE  PaidInv'
<1> DEFINE k == [NoTxn(u) EXCEPT !.key = "set"]
           t == [Activate(u, o, "inactive") EXCEPT !.insert = "initial",
                                                   !.retries = 0]
           pay == ToCharge(u, o, "register") \o ToCommit(t)
           rest == IF sub[u].status = "active" THEN <<>> ELSE pay
           q == ToCommit(k) \o rest
<1>1. /\ Fresh(o) /\ Begin(s, (Create(u) \o ToCommit(k)) \o rest)
      /\ sub[u] \in SubRow \cup {NoSub}
  BY DEF RegisterBillingKey, PaidInv, TypeOK
<1>2. k \in Txn /\ Sound(k) /\ k.user = u /\ k.order = NoOrder /\ k.paid = Keep
  BY DEF NoTxn, Txn, Sound, Keep, Same
<1>3. Plan(pay, u, o)
  <2>1. "register" \in Charge \ {"deposit"}
    BY DEF Charge
  <2>2. /\ t \in Txn /\ Sound(t)
        /\ t.user = u /\ t.order = o /\ t.insert # Keep
    BY RegisteredType
  <2> HIDE DEF t
  <2> QED BY <2>1, <2>2, PlanToCharge
<1> HIDE DEF k, pay
<1>4. Plan(ToCommit(k), u, o)
  BY <1>2, LawfulCommit DEF Keep
<1>5. Plan(rest, u, o)
  BY <1>3, NothingPlanned
<1> HIDE DEF rest
<1>6. Plan(q, u, o)
  BY <1>4, <1>5, PlansJoin
<1>7. (Create(u) \o ToCommit(k)) \o rest = Create(u) \o q
  <2>1. /\ Create(u) \in Seq(Step) /\ ToCommit(k) \in Seq(Step)
        /\ rest \in Seq(Step)
    BY <1>1, <1>4, <1>5, CreatePlan DEF Plan, Lawful
  <2> QED BY <2>1, ConcatAssociative
<1> HIDE DEF q
<1>8. Plan(Create(u) \o q, u, o) /\ Founded(Create(u) \o q)
  BY <1>1, <1>6, FoundedOnCreate
<1>9. Begin(s, Create(u) \o q)
  BY <1>1, <1>7
<1> QED BY <1>1, <1>8, <1>9, BeginKeeps DEF Plan, Yours

LEMMA RemoveBillingKeyKeeps ==
  ASSUME PaidInv, NEW s, NEW u \in User, RemoveBillingKey(s, u)
  PROVE  PaidInv'
<1> DEFINE t == [NoTxn(u) EXCEPT !.key = IF sub[u].key THEN "unset" ELSE Keep,
                                 !.stopRenew = TRUE]
<1>1. sub[u] # NoSub /\ Begin(s, ToCommit(t))
  BY DEF RemoveBillingKey, HasCurrent, NoSub
<1>2. t \in Txn /\ Sound(t) /\ t.user = u /\ t.order = NoOrder /\ t.paid = Keep
  BY DEF NoTxn, Txn, Sound, Keep, Same
<1> HIDE DEF t
<1>3. Plan(ToCommit(t), u, NoOrder)
  BY <1>2, LawfulCommit DEF Keep
<1> QED BY <1>1, <1>3, PlanKeeps

LEMMA WebhookPaymentFailedKeeps ==
  ASSUME PaidInv, NEW s, NEW o \in Order, WebhookPaymentFailed(s, o)
  PROVE  PaidInv'
<1>1. PICK u : u = payment[o].user
  OBVIOUS
<1>2. PICK t : t = PaymentFailure(u, o, payment[o])
  OBVIOUS
<1>3. payment[o] # NoPayment /\ Begin(s, ToCommit(t))
  BY <1>1, <1>2 DEF WebhookPaymentFailed
<1>4. /\ u \in User /\ sub[u] # NoSub /\ Yours(o, u)
      /\ payment[o].retries \in 0..SuspendAt
  BY <1>1, <1>3, PaymentTells
<1>5. /\ t \in Txn /\ Sound(t) /\ t.user = u /\ t.order = o
      /\ t.paid # "completed"
  BY <1>2, <1>4, PaymentFailureType
<1>6. Plan(ToCommit(t), u, o)
  BY <1>3, <1>5, LawfulCommit
<1> QED BY <1>3, <1>4, <1>6, PlanKeeps

LEMMA DeleteAccountKeeps ==
  ASSUME PaidInv, NEW s, NEW u \in User, DeleteAccount(s, u)
  PROVE  PaidInv'
<1> DEFINE leaving == [NoTxn(u) EXCEPT !.leave = TRUE]
           cancelled == [leaving EXCEPT !.status = "cancelled",
                                        !.stopRenew = TRUE]
<1>1. \/ Begin(s, ToCommit(leaving))
      \/ sub[u] # NoSub /\ Begin(s, ToCommit(cancelled))
  BY DEF DeleteAccount, NoSub
<1>2. /\ leaving \in Txn /\ Sound(leaving) /\ leaving.user = u
      /\ leaving.order = NoOrder /\ leaving.paid = Keep
      /\ leaving.status = Keep /\ leaving.key = Keep /\ leaving.extend = FALSE
  BY DEF NoTxn, Txn, Sound, Keep, Same
<1>3. /\ cancelled \in Txn /\ Sound(cancelled) /\ cancelled.user = u
      /\ cancelled.order = NoOrder /\ cancelled.paid = Keep
  BY DEF NoTxn, Txn, Sound, Keep, Same, SubStatus
<1> HIDE DEF leaving, cancelled
<1>4. Plan(ToCommit(leaving), u, NoOrder) /\ Plan(ToCommit(cancelled), u, NoOrder)
  BY <1>2, <1>3, LawfulCommit DEF Keep
<1>5. Founded(ToCommit(leaving))
  BY <1>2, CommitList DEF Founded, NeedsRow
<1> QED BY <1>1, <1>4, <1>5, PlanKeeps, BeginKeeps DEF Plan

-----------------------------------------------------------------------------
(* Renewals.                                                               *)

LEMMA WorkerKeeps ==
  ASSUME PaidInv, NEW s \in Session, NEW due \in SUBSET Seen,
         \A d \in due : sub[d.user] # NoSub,
         NEW u \in User, NEW o, NEW steps, Plan(steps, u, o), sub[u] # NoSub,
         o = NoOrder \/ (o \in Order /\ Yours(o, u)),
         Become(s, [due |-> due, todo |-> steps]),
         UNCHANGED <<tables, ledger, refused, month>>
  PROVE  PaidInv'
<1>1. /\ TypeOK /\ steps \in Seq(Step) /\ Ready(steps) /\ Ownable(steps)
      /\ Founded(steps) /\ ~CompletesFirst(steps)
  BY AboutOwnable, FoundedOnRow DEF PaidInv, Lawful, Plan
<1>2. /\ session' \in [Session -> SessionState]
      /\ session'[s].todo = steps
      /\ session'[s].due = due
      /\ \A r \in Session \ {s} : session'[r] = session[r]
  BY <1>1, BecomeType
<1>3. /\ UNCHANGED tables /\ LedgerGrows
      /\ refused' \in SUBSET Order /\ month' \in Nat
  BY <1>1 DEF LedgerGrows, TypeOK
<1>4. Ready(steps)'
  BY <1>1, ReadyStable DEF tables
<1> QED BY <1>1, <1>2, <1>3, <1>4, DecideKeeps

LEMMA CheckRenewalsDueKeeps ==
  ASSUME PaidInv, NEW s, CheckRenewalsDue(s)
  PROVE  PaidInv'
<1> DEFINE due == {[user |-> u, key |-> sub[u].key] : u \in Overdue}
<1>1. /\ s \in Session /\ Become(s, [due |-> due, todo |-> <<>>])
      /\ UNCHANGED <<tables, ledger, refused, month>>
  BY DEF CheckRenewalsDue, Idle, Session
<1>2. \A u \in Overdue : u \in User /\ sub[u] # NoSub /\ sub[u].key \in BOOLEAN
  BY DEF Overdue, PaidInv, TypeOK, SubRow, NoSub
<1>3. due \in SUBSET Seen /\ \A d \in due : sub[d.user] # NoSub
  BY <1>2 DEF Seen
<1>4. PICK u : u \in User /\ sub[u] # NoSub
  BY <1>2 DEF CheckRenewalsDue
<1>5. Plan(<<>>, u, NoOrder)
  BY NothingPlanned
<1> HIDE DEF due
<1> QED BY <1>1, <1>3, <1>4, <1>5, WorkerKeeps

LEMMA ProcessAutoRenewalKeeps ==
  ASSUME PaidInv, NEW s \in Worker, NEW d \in session[s].due, NEW o \in Order,
         ProcessAutoRenewal(s, d, o)
  PROVE  PaidInv'
<1>1. PICK u : u = d.user
  OBVIOUS
<1>2. s \in Session /\ session[s] \in SessionState
  BY DEF Session, PaidInv, TypeOK
<1>3. u \in User /\ sub[u] # NoSub
  BY <1>1, <1>2 DEF SessionState, Seen, PaidInv, RowsExist
<1> DEFINE due == session[s].due \ {d}
<1>4. due \in SUBSET Seen /\ \A k \in due : sub[k.user] # NoSub
  BY <1>2 DEF SessionState, PaidInv, RowsExist
<1>5. UNCHANGED <<tables, ledger, refused, month>>
  BY DEF ProcessAutoRenewal
<1>6. CASE d.key
  <2>1. PICK t : t = Renewal(u, o)
    OBVIOUS
  <2>2. /\ Fresh(o)
        /\ Become(s, [due |-> due,
                      todo |-> ToCharge(u, o, "renewal") \o ToCommit(t)])
    BY <1>1, <1>6, <2>1 DEF ProcessAutoRenewal
  <2>3. /\ t \in Txn /\ Sound(t) /\ t.user = u /\ t.order = o
        /\ t.insert # Keep
    BY <1>3, <2>1, RenewalType
  <2>4. "renewal" \in Charge \ {"deposit"}
    BY DEF Charge
  <2>5. Plan(ToCharge(u, o, "renewal") \o ToCommit(t), u, o)
    BY <1>3, <2>3, <2>4, PlanToCharge
  <2> HIDE DEF due
  <2> QED BY <1>2, <1>3, <1>4, <1>5, <2>2, <2>5, WorkerKeeps DEF Yours
<1>7. CASE ~d.key
  <2>1. PICK t : t = Expiry(u)
    OBVIOUS
  <2>2. Become(s, [due |-> due, todo |-> ToCommit(t)])
    BY <1>1, <1>7, <2>1 DEF ProcessAutoRenewal
  <2>3. /\ t \in Txn /\ Sound(t) /\ t.user = u /\ t.order = NoOrder
        /\ t.paid = Keep
    BY <1>3, <2>1, ExpiryType
  <2>4. Plan(ToCommit(t), u, NoOrder)
    BY <2>3, LawfulCommit DEF Keep
  <2> HIDE DEF due
  <2> QED BY <1>2, <1>3, <1>4, <1>5, <2>2, <2>4, WorkerKeeps
<1> QED BY <1>6, <1>7

-----------------------------------------------------------------------------
(* TossPayments and the bank.                                              *)

(* What TossPayments or the bank writes down of the money it takes.        *)
Receipt(s, c) == [user |-> c.user, charge |-> c.charge, month |-> month,
                  by |-> IF c.charge = "renewal" THEN s ELSE Nobody]

LEMMA ReceiptType ==
  ASSUME NEW s \in Session \cup {Nobody}, NEW c, c.user \in User,
         c.charge \in Charge, month \in Nat
  PROVE  Receipt(s, c) \in Capture /\ Receipt(s, c) # Uncaptured
BY DEF Receipt, Capture, Charge, Uncaptured

LEMMA ChargeCardKeeps ==
  ASSUME PaidInv, NEW s \in Session, ChargeCard(s)
  PROVE  PaidInv'
<1>1. PICK l : l = session[s].todo
  OBVIOUS
<1>2. PICK c : c = Head(l)
  OBVIOUS
<1>3. TypeOK /\ l \in Seq(Step) /\ Ready(l) /\ Founded(l)
  BY <1>1 DEF PaidInv, TypeOK, SessionState, Step, RowsExist
<1>4. l # <<>> /\ c.do = "charge"
  BY <1>1, <1>2 DEF ChargeCard, Doing
<1>5. c = l[1] /\ 1 \in 1..Len(l) /\ c \in ChargeStep
  BY <1>2, <1>3, <1>4, TailOf DEF Step, CommitStep
<1>6. c.user \in User /\ c.order \in Order /\ c.charge \in Charge
  BY <1>5 DEF ChargeStep
<1>7. OrderOf(c) = c.order /\ UserOf(c) = c.user
  BY <1>4 DEF OrderOf, UserOf
<1>8. ~Fresh(c.order)
  BY <1>1, <1>5, <1>7 DEF Fresh
<1>9. \A owner \in Owner : OwnedBy(owner) => owner[c.order] = c.user
  BY <1>1, <1>5, <1>6, <1>7 DEF OwnedBy
<1>10. sub[c.user] # NoSub
  <2>1. NeedsRow(l[1])
    BY <1>4, <1>5 DEF NeedsRow
  <2> QED BY <1>3, <1>5, <1>7, <2>1 DEF Founded
<1>11. UNCHANGED tables /\ month' = month /\ month' \in Nat
  BY <1>3 DEF ChargeCard, TypeOK
<1>12. TakeMoney(s, c) => LedgerGrows
  <2>1. Receipt(s, c) \in Capture /\ Receipt(s, c).user = c.user
    BY <1>3, <1>6, ReceiptType DEF Receipt, TypeOK
  <2>2. TakeMoney(s, c) => /\ ledger[c.order] = Uncaptured
                           /\ ledger' = [ledger EXCEPT ![c.order] = Receipt(s, c)]
    BY DEF TakeMoney, Receipt, Captured
  <2> QED BY <1>6, <1>8, <1>9, <2>1, <2>2 DEF LedgerGrows
<1>13. UNCHANGED ledger => LedgerGrows
  BY DEF LedgerGrows
<1>14. \A d \in session[s].due : sub[d.user] # NoSub
  BY DEF PaidInv, RowsExist
<1>15. \/ TakeMoney(s, c) /\ Continue(s, Tail(l)) /\ UNCHANGED refused
       \/ /\ refused' = IF Captured(c.order) THEN refused
                        ELSE refused \cup {c.order}
          /\ Continue(s, AfterRefusal(c)) /\ UNCHANGED ledger
       \/ /\ TakeMoney(s, c) \/ UNCHANGED ledger
          /\ Continue(s, <<>>) /\ UNCHANGED refused
  BY <1>1, <1>2 DEF ChargeCard
<1>16. CASE TakeMoney(s, c) /\ Continue(s, Tail(l)) /\ UNCHANGED refused
  <2>1. PICK m : m = Tail(l)
    OBVIOUS
  <2>2. m \in Seq(Step)
    BY <1>3, <1>4, <2>1, TailOf
  <2>3. /\ session' \in [Session -> SessionState]
        /\ session'[s].todo = m
        /\ session'[s].due = session[s].due
        /\ \A r \in Session \ {s} : session'[r] = session[r]
    BY <1>3, <1>16, <2>1, <2>2, ContinueType
  <2>4. /\ LedgerGrows /\ ledger[c.order] = Uncaptured
        /\ ledger'[c.order] # Uncaptured
        /\ \A o \in Order : ledger[o] # Uncaptured => ledger'[o] # Uncaptured
    <3>1. ledger[c.order] = Uncaptured
      BY <1>16 DEF TakeMoney, Captured
    <3>2. ledger' = [ledger EXCEPT ![c.order] =
            Receipt(s, c)]
      BY <1>16 DEF TakeMoney, Receipt
    <3>3. Receipt(s, c) # Uncaptured
      BY <1>3, <1>6, ReceiptType DEF TypeOK
    <3> QED BY <1>3, <1>6, <1>12, <1>16, <3>1, <3>2, <3>3 DEF TypeOK
  <2>5. Ready(m)'
    <3>1. \A o \in Order : ~Inserts(l[1], o)
      BY <1>4, <1>5 DEF Inserts
    <3>2. \A o \in Order : Charges(l[1], o) => ledger'[o] # Uncaptured
      BY <1>5, <2>4 DEF Charges
    <3>3. Ready(Tail(l))'
      BY <1>3, <1>4, <1>11, <2>4, <3>1, <3>2, ReadyTail DEF tables
    <3> QED BY <2>1, <3>3 DEF Ready
  <2>6. Founded(m)
    <3>1. ASSUME NEW i \in 1..Len(m), NeedsRow(m[i])
          PROVE  sub[UserOf(m[i])] # NoSub
      <4>1. i + 1 \in 1..Len(l) /\ m[i] = l[i + 1]
        BY <1>3, <1>4, <2>1, TailOf
      <4>2. ~Creates(l[1], UserOf(m[i]))
        BY <1>4, <1>5 DEF Creates
      <4>3. NeedsRow(l[i + 1])
        BY <3>1, <4>1
      <4> QED BY <1>3, <4>1, <4>2, <4>3 DEF Founded
    <3> QED BY <3>1 DEF Founded
  <2>7. Ownable(m)
    <3> SUFFICES ASSUME NEW owner \in Owner, OwnedBy(owner)
                 PROVE  StepsOwned(m, owner)
      BY DEF Ownable
    <3>1. \A o \in Order : \A i \in 1..Len(l) :
            OrderOf(l[i]) = o => UserOf(l[i]) = owner[o]
      BY <1>1 DEF OwnedBy
    <3> QED BY <1>3, <1>4, <2>1, <3>1, OwnedTail DEF StepsOwned
  <2>8. CompletesFirst(m) => ledger[m[1].txn.order] = Uncaptured
    BY <1>3, <1>4, <1>5, <2>1, <2>4, TailCompletes DEF Charges
  <2>9. refused' \in SUBSET Order
    BY <1>3, <1>16 DEF TypeOK
  <2> QED BY <1>11, <1>14, <2>2, <2>3, <2>4, <2>5, <2>6, <2>7, <2>8, <2>9, DecideKeeps
<1>17. ASSUME NEW steps, Plan(steps, c.user, c.order), LedgerGrows,
              Continue(s, steps), refused' \in SUBSET Order
       PROVE  PaidInv'
  <2>1. /\ steps \in Seq(Step) /\ Ready(steps) /\ About(steps, c.user, c.order)
        /\ ~CompletesFirst(steps)
    BY <1>17 DEF Plan, Lawful
  <2>2. /\ session' \in [Session -> SessionState]
        /\ session'[s].todo = steps
        /\ session'[s].due = session[s].due
        /\ \A r \in Session \ {s} : session'[r] = session[r]
    BY <1>3, <1>17, <2>1, ContinueType
  <2>3. Ownable(steps)
    BY <1>6, <1>9, <2>1, AboutOwnable DEF Yours
  <2>4. Founded(steps)
    BY <1>10, <2>1, FoundedOnRow
  <2>5. \A o \in Order : ledger[o] # Uncaptured => ledger'[o] # Uncaptured
    BY <1>3, <1>17, LedgerKeeps DEF TypeOK
  <2>6. Ready(steps)'
    BY <1>11, <2>1, <2>5, ReadyStable DEF tables
  <2> QED BY <1>11, <1>14, <1>17, <2>1, <2>2, <2>3, <2>4, <2>6, DecideKeeps
<1>18. CASE /\ refused' = IF Captured(c.order) THEN refused
                         ELSE refused \cup {c.order}
            /\ Continue(s, AfterRefusal(c)) /\ UNCHANGED ledger
  <2>1. Plan(AfterRefusal(c), c.user, c.order)
    <3> DEFINE t == Insert(c.user, c.order, "renewal", "failed")
               f == PaymentFailure(c.user, c.order,
                                   [status |-> "failed", retries |-> 0])
    <3>1. AfterRefusal(c) = <<>> \/ AfterRefusal(c) = ToCommit(t) \o ToCommit(f)
      BY DEF AfterRefusal
    <3>2. /\ t \in Txn /\ Sound(t) /\ t.user = c.user /\ t.order = c.order
          /\ t.insert # Keep /\ t.paid # "completed"
      BY <1>6, InsertType DEF Kind, PaymentStatus
    <3>3. /\ f \in Txn /\ Sound(f) /\ f.user = c.user /\ f.order = c.order
          /\ f.paid # "completed"
      <4>1. [status |-> "failed", retries |-> 0].retries \in 0..SuspendAt
        BY RetryType
      <4> QED BY <1>6, <4>1, PaymentFailureType
    <3> HIDE DEF t, f
    <3>4. Plan(ToCommit(t) \o ToCommit(f), c.user, c.order)
      BY <3>2, <3>3, PlanToInsert
    <3> QED BY <3>1, <3>4, NothingPlanned
  <2>2. refused' \in SUBSET Order
    BY <1>3, <1>6, <1>18 DEF TypeOK
  <2> QED BY <1>13, <1>17, <1>18, <2>1, <2>2
<1>19. CASE /\ TakeMoney(s, c) \/ UNCHANGED ledger
            /\ Continue(s, <<>>) /\ UNCHANGED refused
  <2>1. Plan(<<>>, c.user, c.order)
    BY NothingPlanned
  <2>2. refused' \in SUBSET Order
    BY <1>3, <1>19 DEF TypeOK
  <2> QED BY <1>12, <1>13, <1>17, <1>19, <2>1, <2>2
<1> QED BY <1>15, <1>16, <1>18, <1>19

LEMMA KilledKeeps ==
  ASSUME PaidInv, NEW s \in Session, Killed(s)
  PROVE  PaidInv'
<1>1. /\ TypeOK /\ Become(s, [due |-> {}, todo |-> <<>>])
      /\ UNCHANGED <<tables, ledger, refused, month>>
  BY DEF Killed, Idle, PaidInv
<1>2. /\ <<>> \in Seq(Step) /\ Ready(<<>>) /\ Founded(<<>>) /\ Ownable(<<>>)
      /\ ~CompletesFirst(<<>>)
  BY EmptySeq DEF Ready, Founded, Ownable, StepsOwned, CompletesFirst
<1>3. /\ session' \in [Session -> SessionState]
      /\ session'[s].todo = <<>>
      /\ session'[s].due = {}
      /\ \A r \in Session \ {s} : session'[r] = session[r]
  BY <1>1, <1>2, BecomeType
<1>4. /\ UNCHANGED tables /\ LedgerGrows
      /\ refused' \in SUBSET Order /\ month' \in Nat
  BY <1>1 DEF LedgerGrows, TypeOK
<1>5. Ready(<<>>)'
  BY <1>1, <1>2, ReadyStable DEF tables
<1> QED BY <1>1, <1>2, <1>3, <1>4, <1>5, DecideKeeps

(* Money that arrives, and time that passes, while the sessions stand.     *)
LEMMA StandKeeps ==
  ASSUME PaidInv, UNCHANGED <<tables, session, refused>>, LedgerGrows,
         month' \in Nat
  PROVE  PaidInv'
<1>1. /\ sub' = sub /\ tier' = tier /\ active' = active
      /\ history' = history /\ payment' = payment /\ session' = session
      /\ refused' = refused
  BY DEF tables
<1>2. TypeOK
  BY DEF PaidInv
<1>3. /\ ledger' \in [Order -> Capture \cup {Uncaptured}]
      /\ \A o \in Order : ledger[o] # Uncaptured => ledger'[o] = ledger[o]
      /\ \A owner \in Owner, o \in Order :
           OwnedBy(owner) /\ ledger'[o] # Uncaptured =>
             ledger'[o].user = owner[o] /\ (ledger[o] = Uncaptured => ~Fresh(o))
  BY <1>2, LedgerKeeps
<1>4. TypeOK'
  BY <1>1, <1>2, <1>3 DEF TypeOK
<1>5. CompletedIsCaptured'
  BY <1>1, <1>3 DEF PaidInv, CompletedIsCaptured, Completed, Captured
<1>6. ASSUME NEW r \in Session
      PROVE  Ready(session[r].todo)'
  <2>1. PICK l : l = session[r].todo
    OBVIOUS
  <2>2. l \in Seq(Step) /\ Ready(l) /\ session'[r].todo = l
    BY <1>1, <1>2, <2>1 DEF PaidInv, TypeOK, SessionState, Step
  <2>3. Ready(l)'
    BY <1>1, <1>3, <2>2, ReadyStable
  <2> QED BY <2>2, <2>3, ReadyOf
<1>7. RowsExist'
  BY <1>1 DEF PaidInv, RowsExist, Founded
<1>8. Owned'
  <2>1. PICK owner \in Owner : OwnedBy(owner)
    BY DEF PaidInv, Owned, Owner
  <2>2. \A o \in Order : ledger'[o] # Uncaptured => ledger'[o].user = owner[o]
    BY <1>3, <2>1
  <2>3. OwnedBy(owner)'
    BY <1>1, <2>1, <2>2 DEF OwnedBy, Captured
  <2> QED BY <2>3 DEF Owned, Owner
<1>9. "bank_transfer" \notin Wired => RecordedOnce'
  BY <1>1 DEF PaidInv, RecordedOnce, ToRecord, Doing
<1> QED BY <1>4, <1>5, <1>6, <1>7, <1>8, <1>9 DEF PaidInv

LEMMA DepositKeeps ==
  ASSUME PaidInv, NEW o \in Order, Deposit(o)
  PROVE  PaidInv'
<1>1. PICK u : u = payment[o].user
  OBVIOUS
<1>2. PICK c : c = [user |-> u, order |-> o, charge |-> "deposit"]
  OBVIOUS
<1>3. /\ UNCHANGED <<tables, refused, month, session>>
      /\ payment[o] # NoPayment /\ ~Captured(o)
      /\ ledger' = [ledger EXCEPT ![o] = Receipt(Nobody, c)]
  BY <1>1, <1>2 DEF Deposit, TakeMoney, Receipt
<1>4. u \in User /\ TypeOK
  BY <1>1, <1>3, PaymentTells DEF PaidInv
<1>5. Receipt(Nobody, c) \in Capture /\ Receipt(Nobody, c).user = u
  BY <1>2, <1>4, ReceiptType DEF Receipt, Charge, TypeOK
<1>6. \A owner \in Owner : OwnedBy(owner) => owner[o] = u
  BY <1>1, <1>3 DEF OwnedBy
<1>7. LedgerGrows
  BY <1>3, <1>5, <1>6 DEF LedgerGrows, Captured, Fresh
<1> QED BY <1>3, <1>4, <1>7, StandKeeps DEF TypeOK

LEMMA NextMonthKeeps ==
  ASSUME PaidInv, NextMonth
  PROVE  PaidInv'
BY StandKeeps DEF NextMonth, PaidInv, TypeOK, LedgerGrows

-----------------------------------------------------------------------------
(* COMMIT.                                                                 *)

(* A subscription once inserted stays, and its row has its type.           *)
LEMMA ApplySubType ==
  ASSUME TypeOK, NEW r \in SubRow \cup {NoSub}, NEW t \in Txn,
         r = NoSub => t.create \/ ~NeedsRow([do |-> "commit", txn |-> t])
  PROVE  /\ ApplySub(r, t) \in SubRow \cup {NoSub}
         /\ r # NoSub \/ t.create => ApplySub(r, t) # NoSub
<1> DEFINE a == [status |-> "inactive", autoRenew |-> TRUE, key |-> FALSE,
                 next |-> 0]
           b == [status    |-> IF t.status = Keep THEN r.status ELSE t.status,
                 autoRenew |-> r.autoRenew /\ ~t.stopRenew,
                 key       |-> IF t.key = Keep THEN r.key ELSE t.key = "set",
                 next      |-> IF t.extend THEN month + 1 ELSE r.next]
<1>1. ApplySub(r, t) = IF t.create THEN a ELSE b
  BY DEF ApplySub
<1>2. a \in SubRow /\ a # NoSub
  BY DEF SubRow, SubStatus, NoSub
<1>3. /\ t.status \in SubStatus \cup {Keep} /\ t.stopRenew \in BOOLEAN
      /\ t.extend \in BOOLEAN /\ t.create \in BOOLEAN
  BY DEF Txn
<1>4. month + 1 \in Nat
  BY DEF TypeOK
<1>5. CASE r # NoSub
  <2>1. r \in SubRow
    BY <1>5
  <2>2. /\ r.status \in SubStatus /\ r.autoRenew \in BOOLEAN
        /\ r.key \in BOOLEAN /\ r.next \in Nat
    BY <2>1 DEF SubRow
  <2>3. b \in SubRow
    BY <1>3, <1>4, <2>2 DEF SubRow
  <2>4. b # NoSub
    BY <2>3 DEF SubRow, SubStatus, NoSub
  <2> HIDE DEF a, b
  <2> QED BY <1>1, <1>2, <2>3, <2>4
<1>6. CASE r = NoSub /\ ~t.create
  <2>1. t.status = Keep /\ t.key = Keep /\ ~t.extend
    BY <1>6 DEF NeedsRow
  <2>2. b = NoSub
    BY <1>3, <1>6, <2>1 DEF NoSub
  <2> HIDE DEF a, b
  <2> QED BY <1>1, <1>6, <2>2
<1>7. CASE r = NoSub /\ t.create
  <2> HIDE DEF a, b
  <2> QED BY <1>1, <1>2, <1>7
<1> QED BY <1>5, <1>6, <1>7

LEMMA ApplyPaymentType ==
  ASSUME NEW p \in PaymentRow \cup {NoPayment}, NEW t \in Txn, Sound(t),
         t.insert = Keep => p # NoPayment
  PROVE  LET q == ApplyPayment(p, t) IN
         /\ q \in PaymentRow /\ q # NoPayment
         /\ q.user = IF t.insert = Keep THEN p.user ELSE t.user
         /\ q.status = "completed" =>
              \/ t.paid = "completed"
              \/ t.insert = Keep /\ p.status = "completed"
<1>1. /\ t.user \in User /\ t.insert \in Kind \cup {Keep}
      /\ t.paid \in PaymentStatus \cup {Keep}
      /\ t.retries \in {Same} \cup 0..SuspendAt
  BY DEF Txn
<1>2. \A q \in PaymentRow : q # NoPayment
  BY DEF PaymentRow, PaymentStatus, NoPayment
<1>3. CASE t.insert # Keep
  <2>1. t.paid \in PaymentStatus /\ t.retries \in 0..SuspendAt
    BY <1>1, <1>3 DEF Sound
  <2>2. PICK dt \in BOOLEAN : dt = (t.paid = "completed")
    OBVIOUS
  <2>3. ApplyPayment(p, t) =
          [user |-> t.user, kind |-> t.insert, status |-> t.paid,
           dated |-> dt, retries |-> t.retries]
    BY <1>3, <2>2 DEF ApplyPayment
  <2>4. t.insert \in Kind
    BY <1>1, <1>3
  <2> QED BY <1>1, <1>2, <1>3, <2>1, <2>3, <2>4 DEF PaymentRow
<1>4. CASE t.insert = Keep
  <2>1. /\ p \in PaymentRow
        /\ p.status \in PaymentStatus /\ p.retries \in 0..SuspendAt
        /\ (p.dated \/ t.paid = "completed") \in BOOLEAN
    BY <1>4 DEF PaymentRow
  <2> DEFINE st == IF t.paid = Keep THEN p.status ELSE t.paid
             dt == p.dated \/ t.paid = "completed"
             n == IF t.retries = Same THEN p.retries ELSE t.retries
  <2>2. ApplyPayment(p, t) = [p EXCEPT !.status = st, !.dated = dt,
                                       !.retries = n]
    BY <1>4, <2>1 DEF ApplyPayment, PaymentRow
  <2>3. st \in PaymentStatus /\ dt \in BOOLEAN /\ n \in 0..SuspendAt
    BY <1>1, <2>1
  <2>4. st = "completed" => t.paid = "completed" \/ p.status = "completed"
    OBVIOUS
  <2> HIDE DEF st, dt, n
  <2> QED BY <1>2, <1>4, <2>1, <2>2, <2>3, <2>4 DEF PaymentRow
<1> QED BY <1>3, <1>4

LEMMA CommitKeeps ==
  ASSUME PaidInv, NEW s \in Session, Commit(s)
  PROVE  PaidInv'
<1>1. PICK l : l = session[s].todo
  OBVIOUS
<1>2. PICK t : t = Head(l).txn
  OBVIOUS
<1>3. PICK m : m = Tail(l)
  OBVIOUS
<1>4. /\ TypeOK /\ CompletedIsCaptured /\ RowsExist
      /\ l \in Seq(Step) /\ Ready(l) /\ Founded(l)
  BY <1>1 DEF PaidInv, TypeOK, SessionState, Step, RowsExist
<1>5. l # <<>> /\ Head(l).do = "commit"
  BY <1>1 DEF Commit, Doing
<1>6. /\ l[1].do = "commit" /\ l[1].txn = t /\ 1 \in 1..Len(l)
      /\ t \in Txn /\ m \in Seq(Step)
  BY <1>2, <1>3, <1>4, <1>5, TailOf DEF Step, CommitStep, ChargeStep
<1>7. /\ t.user \in User /\ t.order \in Order \cup {NoOrder}
      /\ t.create \in BOOLEAN
      /\ t.tier \in Tier \cup {Keep} /\ t.history \in Tier \cup {Keep}
  BY <1>6 DEF Txn
<1>8. /\ Sound(t)
      /\ t.order # NoOrder /\ t.insert = Keep => payment[t.order] # NoPayment
      /\ t.paid = "completed" => t.order \in Order /\ Captured(t.order)
  <2>1. /\ Sound(t)
        /\ t.order # NoOrder /\ t.insert = Keep => payment[t.order] # NoPayment
        /\ t.paid = "completed" => Captured(t.order)
    BY <1>4, <1>6 DEF Ready
  <2> QED BY <1>7, <2>1 DEF Sound, Keep
<1>9. UNCHANGED <<ledger, refused, month>> /\ LedgerGrows
  BY DEF Commit, LedgerGrows
<1>10. CASE t.create /\ sub[t.user] # NoSub
  <2>1. Become(s, [due |-> {}, todo |-> <<>>]) /\ UNCHANGED tables
    BY <1>1, <1>2, <1>10 DEF Commit, Idle
  <2>2. /\ <<>> \in Seq(Step) /\ Ready(<<>>) /\ Founded(<<>>)
        /\ Ownable(<<>>) /\ ~CompletesFirst(<<>>)
    BY EmptySeq DEF Ready, Founded, Ownable, StepsOwned, CompletesFirst
  <2>3. /\ session' \in [Session -> SessionState]
        /\ session'[s].todo = <<>> /\ session'[s].due = {}
        /\ \A r \in Session \ {s} : session'[r] = session[r]
    BY <1>4, <2>1, <2>2, BecomeType
  <2>4. refused' \in SUBSET Order /\ month' \in Nat
    BY <1>4, <1>9 DEF TypeOK
  <2>5. Ready(<<>>)'
    BY <1>9, <2>1, <2>2, ReadyStable DEF tables
  <2> QED BY <1>9, <2>1, <2>2, <2>3, <2>4, <2>5, DecideKeeps
<1>11. CASE ~(t.create /\ sub[t.user] # NoSub)
  <2>1. /\ sub' = [sub EXCEPT ![t.user] = ApplySub(sub[t.user], t)]
        /\ tier' = [tier EXCEPT ![t.user] =
                      IF t.tier = Keep THEN tier[t.user] ELSE t.tier]
        /\ history' = [history EXCEPT ![t.user] =
                         IF t.history = Keep THEN history[t.user] ELSE t.history]
        /\ active' = IF t.leave THEN active \ {t.user} ELSE active
        /\ payment' = IF t.order = NoOrder THEN payment
                      ELSE [payment EXCEPT ![t.order] =
                              ApplyPayment(payment[t.order], t)]
        /\ Continue(s, m)
    BY <1>1, <1>2, <1>3, <1>11 DEF Commit
  <2>2. /\ session' \in [Session -> SessionState]
        /\ session'[s].todo = m
        /\ session'[s].due = session[s].due
        /\ \A r \in Session \ {s} : session'[r] = session[r]
    BY <1>4, <1>6, <2>1, ContinueType
  <2>3. /\ sub \in [User -> SubRow \cup {NoSub}]
        /\ payment \in [Order -> PaymentRow \cup {NoPayment}]
    BY <1>4 DEF TypeOK
  <2>4. sub[t.user] # NoSub \/ t.create
          \/ ~NeedsRow([do |-> "commit", txn |-> t])
    BY <1>4, <1>6 DEF Founded, NeedsRow, UserOf
  <2>5. /\ ApplySub(sub[t.user], t) \in SubRow \cup {NoSub}
        /\ sub[t.user] # NoSub \/ t.create => ApplySub(sub[t.user], t) # NoSub
    BY <1>4, <1>6, <1>7, <2>3, <2>4, ApplySubType
  <2>6. /\ sub' \in [User -> SubRow \cup {NoSub}]
        /\ \A u \in User : sub[u] # NoSub => sub'[u] # NoSub
        /\ t.create \/ t.order # NoOrder => sub'[t.user] # NoSub
    <3>1. t.order # NoOrder => t.create \/ sub[t.user] # NoSub
      BY <2>4 DEF NeedsRow
    <3> QED BY <1>7, <2>1, <2>3, <2>5, <3>1
  <2>7. t.order # NoOrder =>
          LET q == ApplyPayment(payment[t.order], t) IN
          /\ q \in PaymentRow /\ q # NoPayment
          /\ q.user = IF t.insert = Keep THEN payment[t.order].user ELSE t.user
          /\ q.status = "completed" =>
               \/ t.paid = "completed"
               \/ t.insert = Keep /\ payment[t.order].status = "completed"
    BY <1>6, <1>7, <1>8, <2>3, ApplyPaymentType
  <2>8. /\ payment' \in [Order -> PaymentRow \cup {NoPayment}]
        /\ \A o \in Order : payment[o] # NoPayment => payment'[o] # NoPayment
        /\ \A o \in Order : o = t.order => payment'[o] # NoPayment
    <3>1. NoOrder \notin Order
      BY SubscriptionAssumption
    <3> QED BY <1>7, <2>1, <2>3, <2>7, <3>1
  <2>9. ASSUME NEW o \in Order, payment'[o] # payment[o]
        PROVE  /\ o = t.order
               /\ payment'[o].user =
                    IF t.insert = Keep THEN payment[o].user ELSE t.user
               /\ payment'[o].status = "completed" =>
                    \/ t.paid = "completed"
                    \/ t.insert = Keep /\ payment[o].status = "completed"
    BY <1>7, <2>1, <2>3, <2>7, <2>9
  <2>10. PICK owner \in Owner : OwnedBy(owner)
    BY DEF PaidInv, Owned, Owner
  <2>11. /\ \A o \in Order : payment[o] # NoPayment => payment[o].user = owner[o]
         /\ \A o \in Order : Captured(o) => ledger[o].user = owner[o]
         /\ \A o \in Order : t.order = o => t.user = owner[o]
    <3>1. OrderOf(l[1]) = t.order /\ UserOf(l[1]) = t.user
      BY <1>6 DEF OrderOf, UserOf
    <3> QED BY <1>1, <1>6, <2>10, <3>1 DEF OwnedBy
  <2>12. ASSUME NEW o \in Order, payment'[o] # NoPayment
         PROVE  payment'[o].user = owner[o]
    <3>1. CASE payment'[o] = payment[o]
      BY <2>11, <2>12, <3>1
    <3>2. CASE payment'[o] # payment[o]
      BY <1>7, <1>8, <2>9, <2>11, <3>2, SubscriptionAssumption
    <3> QED BY <3>1, <3>2
  <2>13. TypeOK'
    <3>1. tier' \in [User -> Tier] /\ history' \in [User -> Tier]
      BY <1>4, <1>7, <2>1 DEF TypeOK
    <3>2. active' \in SUBSET User
      BY <1>4, <2>1 DEF TypeOK
    <3> QED BY <1>4, <1>9, <2>2, <2>6, <2>8, <3>1, <3>2 DEF TypeOK
  <2>14. CompletedIsCaptured'
    <3> SUFFICES ASSUME NEW o \in Order, Completed(payment'[o])
                 PROVE  Captured(o) /\ ledger[o].user = payment'[o].user
      BY <1>9 DEF CompletedIsCaptured, Captured, Completed
    <3>1. CASE payment'[o] = payment[o]
      BY <1>4, <3>1 DEF CompletedIsCaptured
    <3>2. CASE payment'[o] # payment[o]
      <4>1. o = t.order /\ (t.paid = "completed" \/ Completed(payment[o]))
        BY <1>7, <1>8, <2>9, <3>2, SubscriptionAssumption DEF Completed
      <4>2. Captured(o)
        BY <1>4, <1>8, <4>1 DEF CompletedIsCaptured
      <4> QED BY <2>11, <2>12, <4>2 DEF Completed
    <3> QED BY <3>1, <3>2
  <2>15. ASSUME NEW r \in Session
         PROVE  Ready(session[r].todo)'
    <3>1. CASE r = s
      <4>1. \A o \in Order : Inserts(l[1], o) => payment'[o] # NoPayment
        BY <1>6, <2>8 DEF Inserts
      <4>2. \A o \in Order : ~Charges(l[1], o)
        BY <1>6 DEF Charges
      <4>3. Ready(Tail(l))'
        BY <1>4, <1>5, <1>9, <2>8, <4>1, <4>2, ReadyTail
      <4>4. Ready(m)'
        BY <1>3, <4>3 DEF Ready
      <4> QED BY <2>2, <3>1, <4>4, ReadyOf
    <3>2. CASE r # s
      <4>1. PICK k : k = session[r].todo
        OBVIOUS
      <4>2. k \in Seq(Step) /\ Ready(k) /\ session'[r].todo = k
        BY <1>4, <2>2, <3>2, <4>1 DEF PaidInv, TypeOK, SessionState, Step
      <4>3. Ready(k)'
        BY <1>9, <2>8, <4>2, ReadyStable
      <4> QED BY <4>2, <4>3, ReadyOf
    <3> QED BY <3>1, <3>2
  <2>16. RowsExist'
    <3>1. ASSUME NEW o \in Order, payment'[o] # NoPayment
          PROVE  sub'[payment'[o].user] # NoSub
      <4>1. payment[o] # NoPayment =>
              payment[o].user \in User /\ sub[payment[o].user] # NoSub
        BY <2>3 DEF PaymentRow, PaidInv, RowsExist
      <4>2. CASE payment'[o] = payment[o]
        BY <2>6, <3>1, <4>1, <4>2
      <4>3. CASE payment'[o] # payment[o]
        <5>1. o = t.order /\ t.order # NoOrder
          BY <2>9, <4>3, SubscriptionAssumption
        <5> QED BY <1>8, <2>6, <2>9, <4>1, <4>3, <5>1
      <4> QED BY <4>2, <4>3
    <3>2. ASSUME NEW r \in Session
          PROVE  Founded(session[r].todo)'
      <4>1. CASE r = s
        <5>1. \A u \in User : Creates(l[1], u) => sub'[u] # NoSub
          BY <1>6, <2>6 DEF Creates
        <5>2. Founded(Tail(l))'
          BY <1>4, <1>5, <2>6, <5>1, FoundedTail
        <5>3. Founded(m)'
          BY <1>3, <5>2 DEF Founded
        <5> QED BY <2>2, <4>1, <5>3, FoundedOf
      <4>2. CASE r # s
        <5>1. PICK k : k = session[r].todo
          OBVIOUS
        <5>2. k \in Seq(Step) /\ Founded(k) /\ session'[r].todo = k
          BY <1>4, <2>2, <4>2, <5>1
             DEF TypeOK, SessionState, Step, RowsExist
        <5>3. Founded(k)'
          BY <2>6, <5>2, FoundedStable
        <5> QED BY <5>2, <5>3, FoundedOf
      <4> QED BY <4>1, <4>2
    <3>3. ASSUME NEW r \in Session, NEW d \in session'[r].due
          PROVE  sub'[d.user] # NoSub
      <4>1. session[r] \in SessionState /\ session'[r].due = session[r].due
        BY <1>4, <2>2 DEF TypeOK
      <4>2. d.user \in User /\ sub[d.user] # NoSub
        BY <1>4, <4>1 DEF SessionState, Seen, RowsExist
      <4> QED BY <2>6, <4>2
    <3> QED BY <3>1, <3>2, <3>3 DEF RowsExist
  <2>17. Owned'
    <3>1. ASSUME NEW o \in Order, NEW r \in Session
          PROVE  \A i \in 1..Len(session'[r].todo) :
                   OrderOf(session'[r].todo[i]) = o =>
                     UserOf(session'[r].todo[i]) = owner[o]
      <4>1. CASE r = s
        <5>1. \A i \in 1..Len(l) : OrderOf(l[i]) = o => UserOf(l[i]) = owner[o]
          BY <1>1, <2>10 DEF OwnedBy
        <5>2. \A i \in 1..Len(Tail(l)) :
                OrderOf(Tail(l)[i]) = o => UserOf(Tail(l)[i]) = owner[o]
          BY <1>4, <1>5, <5>1, OwnedTail
        <5>3. session'[r].todo = Tail(l)
          BY <1>3, <2>2, <4>1
        <5> QED BY <5>2, <5>3
      <4>2. CASE r # s
        BY <2>2, <2>10, <4>2 DEF OwnedBy
      <4> QED BY <4>1, <4>2
    <3>2. OwnedBy(owner)'
      BY <1>9, <2>11, <2>12, <3>1 DEF OwnedBy, Captured
    <3> QED BY <3>2 DEF Owned, Owner
  <2>18. "bank_transfer" \notin Wired => RecordedOnce'
    <3> SUFFICES ASSUME "bank_transfer" \notin Wired,
                        NEW o \in Order, NEW r \in Session, ToRecord(r, o)'
                 PROVE  /\ ~Completed(payment'[o])
                        /\ \A q \in Session \ {r} : ~ToRecord(q, o)'
      BY DEF RecordedOnce, Completed
    <3>1. RecordedOnce
      BY DEF PaidInv
    <3>2. \A q \in Session : q # s => (ToRecord(q, o)' <=> ToRecord(q, o))
      BY <2>2 DEF ToRecord, Doing
    <3>3. ~ToRecord(s, o)'
      <4>1. ~CompletesFirst(m)
        BY <1>3, <1>4, <1>5, <1>6, TailCompletes DEF Charges
      <4>2. m # <<>> => Head(m) = m[1]
        BY <1>6, TailOf
      <4> QED BY <2>2, <4>1, <4>2 DEF ToRecord, Doing, CompletesFirst, Completing
    <3>4. r # s /\ ToRecord(r, o)
      BY <3>2, <3>3
    <3>5. ~Completed(payment[o]) /\ \A q \in Session \ {r} : ~ToRecord(q, o)
      BY <3>1, <3>4 DEF RecordedOnce
    <3>6. o = t.order => t.paid # "completed"
      BY <1>1, <1>2, <1>5, <3>4, <3>5 DEF ToRecord, Doing
    <3>7. ~Completed(payment'[o])
      BY <1>7, <1>8, <2>9, <3>5, <3>6, SubscriptionAssumption DEF Completed
    <3> QED BY <3>2, <3>3, <3>5, <3>7
  <2> QED BY <2>13, <2>14, <2>15, <2>16, <2>17, <2>18 DEF PaidInv
<1> QED BY <1>10, <1>11

-----------------------------------------------------------------------------
(* Everything together.                                                    *)

(* Nothing has been done and nothing is owned.                             *)
LEMMA InitPaid == Init => PaidInv
<1> SUFFICES ASSUME Init PROVE PaidInv
  OBVIOUS
<1>1. Idle \in SessionState /\ Idle.todo = <<>> /\ Idle.due = {} /\ Len(<<>>) = 0
  BY EmptySeq DEF Idle, SessionState
<1>2. \A s \in Session : session[s] = Idle
  BY DEF Init
<1>3. TypeOK
  BY <1>1 DEF Init, TypeOK, Tier
<1>4. /\ \A o \in Order : payment[o] = NoPayment /\ ledger[o] = Uncaptured
  BY DEF Init
<1>5. CompletedIsCaptured
  BY <1>4 DEF CompletedIsCaptured, Completed
<1>6. \A s \in Session : Ready(session[s].todo)
  BY <1>1, <1>2 DEF Ready
<1>7. RowsExist
  BY <1>1, <1>2, <1>4 DEF RowsExist, Founded
<1>8. Owned
  <2>1. OwnedBy([o \in Order |-> "nobody"])
    BY <1>1, <1>2, <1>4 DEF OwnedBy, Captured
  <2> QED BY <2>1 DEF Owned
<1>9. RecordedOnce
  BY <1>1, <1>2 DEF RecordedOnce, ToRecord, Doing
<1> QED BY <1>3, <1>5, <1>6, <1>7, <1>8, <1>9 DEF PaidInv

(* Every action keeps the invariant.                                       *)
LEMMA NextKeepsPaid == PaidInv /\ [Next]_vars => PaidInv'
<1> SUFFICES ASSUME PaidInv, [Next]_vars PROVE PaidInv'
  OBVIOUS
<1>1. ASSUME NEW s \in Client, UserRequest(s)
      PROVE  PaidInv'
  BY <1>1, CancelSubscriptionKeeps, RemoveBillingKeyKeeps, DeleteAccountKeeps,
     RegisterBillingKeyKeeps, InitializePaymentKeeps, ConfirmPaymentKeeps,
     ConfirmBankTransferKeeps DEF UserRequest, Cancel
<1>2. ASSUME NEW s \in Client, Webhook(s)
      PROVE  PaidInv'
  BY <1>2, CancelSubscriptionKeeps, WebhookPaymentFailedKeeps
     DEF Webhook, WebhookKeyCancelled
<1>3. ASSUME NEW s \in Worker, CheckRenewalsDue(s) \/ Renew(s)
      PROVE  PaidInv'
  BY <1>3, CheckRenewalsDueKeeps, ProcessAutoRenewalKeeps DEF Renew
<1>4. ASSUME NEW s \in Session, ChargeCard(s) \/ Commit(s) \/ Killed(s)
      PROVE  PaidInv'
  BY <1>4, ChargeCardKeeps, CommitKeeps, KilledKeeps
<1>5. ASSUME NEW o \in Order, Deposit(o)
      PROVE  PaidInv'
  BY <1>5, DepositKeeps
<1>6. CASE NextMonth
  BY <1>6, NextMonthKeeps
<1>7. CASE UNCHANGED vars
  BY <1>7, StandKeeps DEF vars, LedgerGrows, PaidInv, TypeOK
<1> QED BY <1>1, <1>2, <1>3, <1>4, <1>5, <1>6, <1>7 DEF Next

LEMMA PaidInductive == Spec => []PaidInv
BY InitPaid, NextKeepsPaid, PTL DEF Spec

(* Tables, ledger, clock and what sessions still have to do keep their     *)
(* types under any interleaving, for all users, sessions and orders.       *)
THEOREM SubscriptionTypeCorrect == Spec => []TypeOK
<1>1. PaidInv => TypeOK
  BY DEF PaidInv
<1> QED BY <1>1, PaidInductive, PTL

(* No payment is recorded as COMPLETED unless TossPayments or the bank has *)
(* the money of the same user, whatever is lost, killed or interleaved.    *)
THEOREM BooksAreTrue == Spec => []CompletedIsCaptured
<1>1. PaidInv => CompletedIsCaptured
  BY DEF PaidInv
<1> QED BY <1>1, PaidInductive, PTL

(* A transaction that gives service completes the payment it is about.     *)
LEMMA CommitServes ==
  ASSUME PaidInv, "bank_transfer" \notin Wired, NEW s \in Session, Commit(s),
         NEW u \in User, Served(u)
  PROVE  \E o \in Order : Pays(o, u)
<1>1. PICK l : l = session[s].todo
  OBVIOUS
<1>2. PICK t : t = Head(l).txn
  OBVIOUS
<1>3. /\ TypeOK /\ l \in Seq(Step) /\ Ready(l)
      /\ l # <<>> /\ Head(l).do = "commit"
  BY <1>1 DEF PaidInv, TypeOK, SessionState, Step, Commit, Doing
<1>4. /\ l[1].do = "commit" /\ l[1].txn = t /\ 1 \in 1..Len(l) /\ t \in Txn
  BY <1>2, <1>3, TailOf DEF Step, CommitStep, ChargeStep
<1>5. /\ t.user \in User /\ t.order \in Order \cup {NoOrder}
      /\ t.create \in BOOLEAN /\ t.extend \in BOOLEAN
      /\ t.status \in SubStatus \cup {Keep}
  BY <1>4 DEF Txn
<1>6. /\ sub \in [User -> SubRow \cup {NoSub}] /\ tier \in [User -> Tier]
      /\ payment \in [Order -> PaymentRow \cup {NoPayment}]
  BY <1>3 DEF TypeOK
<1>changes. sub'[u] # sub[u] \/ tier'[u] # tier[u]
  <2>1. sub[u].next \in Nat
    BY <1>6 DEF SubRow, NoSub
  <2> QED BY <2>1 DEF Served
<1>7. /\ ~(t.create /\ sub[t.user] # NoSub)
      /\ sub' = [sub EXCEPT ![t.user] = ApplySub(sub[t.user], t)]
      /\ tier' = [tier EXCEPT ![t.user] =
                    IF t.tier = Keep THEN tier[t.user] ELSE t.tier]
      /\ payment' = IF t.order = NoOrder THEN payment
                    ELSE [payment EXCEPT ![t.order] =
                            ApplyPayment(payment[t.order], t)]
  BY <1>1, <1>2, <1>changes DEF Commit, tables
<1>8. u = t.user
  BY <1>5, <1>6, <1>7, <1>changes
<1>9. t.status = "active" \/ t.tier = "premium" \/ t.extend
  <2>1. CASE sub'[u].status = "active" /\ sub[u].status # "active"
    BY <1>5, <1>6, <1>7, <1>8, <2>1 DEF ApplySub
  <2>2. CASE tier'[u] = "premium" /\ tier[u] # "premium"
    BY <1>5, <1>6, <1>7, <1>8, <2>2
  <2>3. CASE sub'[u].next > sub[u].next
    <3>1. sub[u].next \in Nat
      BY <1>6 DEF SubRow, NoSub
    <3>2. sub'[u] = ApplySub(sub[u], t)
      BY <1>5, <1>6, <1>7, <1>8
    <3>3. t.create => sub'[u].next = 0
      BY <3>2 DEF ApplySub
    <3>4. ~t.create /\ ~t.extend => sub'[u].next = sub[u].next
      BY <3>2 DEF ApplySub
    <3> QED BY <1>5, <2>3, <3>1, <3>3, <3>4
  <2> QED BY <2>1, <2>2, <2>3 DEF Served
<1>10. t.paid = "completed" /\ Sound(t)
  BY <1>3, <1>4, <1>9 DEF Ready, Sound
<1>ready.
  /\ t.order # NoOrder /\ t.insert = Keep => payment[t.order] # NoPayment
  /\ t.paid = "completed" => Captured(t.order)
  BY <1>3, <1>4 DEF Ready
<1>11. /\ t.order \in Order /\ Captured(t.order)
       /\ t.insert = Keep => payment[t.order] # NoPayment
  <2>1. t.order # NoOrder
    BY <1>10 DEF Sound, Keep
  <2> QED BY <1>5, <1>10, <1>ready, <2>1
<1>12. ToRecord(s, t.order)
  BY <1>1, <1>2, <1>3, <1>10 DEF ToRecord, Doing
<1>13. ~Completed(payment[t.order])
  BY <1>11, <1>12 DEF PaidInv, RecordedOnce
<1>14. /\ ApplyPayment(payment[t.order], t) # NoPayment
       /\ ApplyPayment(payment[t.order], t).user =
             IF t.insert = Keep THEN payment[t.order].user ELSE t.user
  BY <1>4, <1>6, <1>10, <1>11, ApplyPaymentType
<1>15. ApplyPayment(payment[t.order], t).status = "completed"
  <2>1. t.insert = Keep => payment[t.order] \in PaymentRow
    BY <1>6, <1>11
  <2> QED BY <1>10, <2>1 DEF ApplyPayment, PaymentRow, Keep
<1>16. payment'[t.order] = ApplyPayment(payment[t.order], t)
  BY <1>6, <1>7, <1>11, SubscriptionAssumption
<1>17. t.insert = Keep => payment[t.order].user = t.user
  <2>1. PICK owner \in Owner : OwnedBy(owner)
    BY DEF PaidInv, Owned, Owner
  <2>2. OrderOf(l[1]) = t.order /\ UserOf(l[1]) = t.user
    BY <1>4 DEF OrderOf, UserOf
  <2>3. t.user = owner[t.order]
    BY <1>1, <1>4, <1>11, <2>1, <2>2 DEF OwnedBy
  <2> QED BY <1>11, <2>1, <2>3 DEF OwnedBy
<1>18. Pays(t.order, u)
  BY <1>8, <1>11, <1>13, <1>14, <1>15, <1>16, <1>17 DEF Pays, Completed
<1> QED BY <1>11, <1>18

(* As long as nothing confirms bank transfers, a subscription starts, a    *)
(* user becomes premium and a period is added only in the transaction that *)
(* completes a captured payment: no order serves twice.                    *)
THEOREM ServiceIsPaidFor ==
  ASSUME "bank_transfer" \notin Wired
  PROVE  Spec => ServiceIsPaid
<1>1. PaidInv /\ [Next]_vars =>
        [\A u \in User : Served(u) => \E o \in Order : Pays(o, u)]_vars
  <2> SUFFICES ASSUME PaidInv, Next, NEW u \in User, Served(u)
               PROVE  \E o \in Order : Pays(o, u)
    OBVIOUS
  <2>1. ~UNCHANGED tables
    <3>1. sub[u].next \in Nat
      BY DEF PaidInv, TypeOK, SubRow, NoSub
    <3> QED BY <3>1 DEF Served, tables
  <2>2. \E s \in Session : Commit(s)
    BY <2>1 DEF Next, UserRequest, Webhook, Renew, Cancel, CancelSubscription,
       RemoveBillingKey, DeleteAccount, RegisterBillingKey, InitializePayment,
       ConfirmPayment, ConfirmBankTransfer, WebhookKeyCancelled,
       WebhookPaymentFailed, Begin, CheckRenewalsDue, ProcessAutoRenewal,
       ChargeCard, Killed, Deposit, NextMonth
  <2> QED BY <2>2, CommitServes
<1> QED BY <1>1, PaidInductive, PTL DEF Spec, ServiceIsPaid
=============================================================================
