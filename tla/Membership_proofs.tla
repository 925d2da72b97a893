------------------------- MODULE Membership_proofs -------------------------
(***************************************************************************)
(* What membership is worth, beyond the books: status, tier and history    *)
(* agree while sessions do not overlap; no scheduler records two renewals  *)
(* of a period; and where sessions do not overlap and nothing is lost the  *)
(* tables keep the promise of Membership.                                  *)
(***************************************************************************)
EXTENDS Subscription_proofs

-----------------------------------------------------------------------------
(* Lists that settle a member.                                             *)

AllQuiet(steps) ==
  \A i \in 1..Len(steps) : steps[i].do = "commit" => Quiet(steps[i].txn)

LEMMA QuietSettles ==
  ASSUME NEW steps, AllQuiet(steps)
  PROVE  Settling(steps)
BY DEF AllQuiet, Settling

LEMMA QuietThenSettling ==
  ASSUME NEW p \in Seq(Step), NEW q \in Seq(Step), AllQuiet(p), Settling(q)
  PROVE  Settling(p \o q)
<1> DEFINE l == p \o q
           m == Len(p)
<1>1. /\ m \in Nat /\ Len(q) \in Nat /\ Len(l) = m + Len(q)
      /\ \A i \in 1..(m + Len(q)) : l[i] = IF i <= m THEN p[i] ELSE q[i - m]
  OBVIOUS
<1> HIDE DEF l, m
<1> SUFFICES ASSUME NEW i \in 1..Len(l), l[i].do = "commit"
             PROVE  Quiet(l[i].txn) \/ (i = Len(l) /\ Settles(l[i].txn))
  BY DEF Settling, l
<1>2. CASE i <= m
  <2>1. i \in 1..m /\ l[i] = p[i]
    BY <1>1, <1>2
  <2> QED BY <2>1 DEF AllQuiet, m
<1>3. CASE ~(i <= m)
  <2>1. i - m \in 1..Len(q) /\ l[i] = q[i - m] /\ (i - m = Len(q) => i = Len(l))
    BY <1>1, <1>3
  <2> QED BY <2>1 DEF Settling
<1> QED BY <1>2, <1>3

LEMMA QuietJoin ==
  ASSUME NEW p \in Seq(Step), NEW q \in Seq(Step), AllQuiet(p), AllQuiet(q)
  PROVE  AllQuiet(p \o q)
<1> DEFINE l == p \o q
           m == Len(p)
<1>1. /\ m \in Nat /\ Len(q) \in Nat /\ Len(l) = m + Len(q)
      /\ \A i \in 1..(m + Len(q)) : l[i] = IF i <= m THEN p[i] ELSE q[i - m]
  OBVIOUS
<1> HIDE DEF l, m
<1> SUFFICES ASSUME NEW i \in 1..Len(l), l[i].do = "commit"
             PROVE  Quiet(l[i].txn)
  BY DEF AllQuiet, l
<1>2. CASE i <= m
  <2>1. i \in 1..m /\ l[i] = p[i]
    BY <1>1, <1>2
  <2> QED BY <2>1 DEF AllQuiet, m
<1>3. CASE ~(i <= m)
  <2>1. i - m \in 1..Len(q) /\ l[i] = q[i - m]
    BY <1>1, <1>3
  <2> QED BY <2>1 DEF AllQuiet
<1> QED BY <1>2, <1>3

LEMMA OneCommit ==
  ASSUME NEW t \in Txn
  PROVE  /\ Quiet(t) => AllQuiet(ToCommit(t))
         /\ Settles(t) => Settling(ToCommit(t))
         /\ \A i \in 1..Len(ToCommit(t)) : UserOf(ToCommit(t)[i]) = t.user
<1>1. PICK l : l = ToCommit(t)
  OBVIOUS
<1>2. Len(l) = 1 /\ l[1].do = "commit" /\ l[1].txn = t /\ \A i \in 1..1 : i = 1
  BY <1>1, CommitList
<1>3. /\ Quiet(t) => AllQuiet(l)
      /\ Settles(t) => Settling(l)
      /\ \A i \in 1..Len(l) : UserOf(l[i]) = t.user
  BY <1>2 DEF AllQuiet, Settling, UserOf
<1> QED BY <1>1, <1>3

LEMMA OneCharge ==
  ASSUME NEW u \in User, NEW o \in Order, NEW c \in Charge \ {"deposit"}
  PROVE  AllQuiet(ToCharge(u, o, c))
BY ChargeList DEF AllQuiet

(* A charge, and behind it the transaction that settles.                   *)
LEMMA ChargeThenSettle ==
  ASSUME NEW u \in User, NEW o \in Order, NEW c \in Charge \ {"deposit"},
         NEW t \in Txn, Settles(t)
  PROVE  Settling(ToCharge(u, o, c) \o ToCommit(t))
BY OneCharge, OneCommit, ChargeList, CommitList, QuietThenSettling

LEMMA CreateQuiet ==
  ASSUME NEW u \in User
  PROVE  AllQuiet(Create(u)) /\ Create(u) \in Seq(Step)
<1> DEFINE t == [NoTxn(u) EXCEPT !.create = TRUE]
<1>1. t \in Txn /\ Quiet(t)
  BY DEF NoTxn, Txn, Quiet, Keep, Same
<1>2. Create(u) = <<>> \/ Create(u) = ToCommit(t)
  BY DEF Create
<1> HIDE DEF t
<1>3. AllQuiet(<<>>) /\ <<>> \in Seq(Step)
  BY EmptySeq DEF AllQuiet
<1> QED BY <1>1, <1>2, <1>3, OneCommit, CommitList

(* A failed payment is a note, or a suspension that settles.               *)
LEMMA FailureSettles ==
  ASSUME NEW u \in User, NEW o \in Order, NEW read, read.retries \in 0..SuspendAt
  PROVE  LET t == PaymentFailure(u, o, read) IN
         /\ Quiet(t) \/ Settles(t)
         /\ read.retries = 0 => Quiet(t)
<1> DEFINE n == IF read.retries < SuspendAt THEN read.retries + 1 ELSE SuspendAt
           failed == [NoTxn(u) EXCEPT !.order = o, !.retries = n,
                        !.paid = IF read.status = "failed" THEN Keep
                                                           ELSE "failed"]
           suspended == [failed EXCEPT
                           !.status = IF sub[u].status = "suspended" THEN Keep
                                      ELSE "suspended",
                           !.tier = "free", !.history = "free"]
<1>1. PaymentFailure(u, o, read) = IF n < SuspendAt THEN failed ELSE suspended
  BY DEF PaymentFailure
<1>2. Quiet(failed)
  BY DEF NoTxn, Quiet, Keep
<1>3. Settles(suspended)
  <2>1. /\ suspended.create = FALSE /\ suspended.user = u
        /\ suspended.status =
             IF sub[u].status = "suspended" THEN Keep ELSE "suspended"
        /\ suspended.tier = "free" /\ suspended.history = "free"
    BY DEF NoTxn
  <2> HIDE DEF suspended
  <2> QED BY <2>1 DEF Settles, Agree, Keep
<1>4. read.retries = 0 => n < SuspendAt
  BY DEF SuspendAt
<1> QED BY <1>1, <1>2, <1>3, <1>4

-----------------------------------------------------------------------------
(* What a session decides.                                                 *)

MemberDue(due, steps) ==
  \A d \in due :
    /\ sub[d.user].status = "active"
    /\ \A e \in due : e.user = d.user => e = d
    /\ \A i \in 1..Len(steps) : UserOf(steps[i]) # d.user

LEMMA MemberDecides ==
  ASSUME MemberInv, NEW s \in Session, UNCHANGED tables, NEW steps,
         session'[s].todo = steps,
         \A r \in Session \ {s} : session'[r] = session[r],
         Settling(steps), MemberDue(session'[s].due, steps)
  PROVE  MemberInv'
<1>1. /\ sub' = sub /\ tier' = tier /\ active' = active /\ history' = history
  BY DEF tables
<1>2. \A u \in User :
        Agree(sub'[u].status, tier'[u], history'[u], u \in active')
  BY <1>1 DEF MemberInv
<1>3. ASSUME NEW r \in Session
      PROVE  (Settling(session[r].todo) /\ DueActive(r))'
  <2>1. CASE r = s
    BY <1>1, <2>1 DEF Settling, Settles, DueActive, MemberDue
  <2>2. CASE r # s
    BY <1>1, <2>2 DEF Settling, Settles, DueActive, MemberInv
  <2> QED BY <2>1, <2>2
<1> QED BY <1>2, <1>3 DEF MemberInv, Agree

LEMMA MemberBegins ==
  ASSUME PaidInv, MemberInv, NEW s, NEW steps \in Seq(Step), Begin(s, steps),
         Settling(steps)
  PROVE  MemberInv'
<1>1. /\ s \in Session /\ Continue(s, steps) /\ TypeOK /\ UNCHANGED tables
      /\ session[s].due = {}
  BY DEF Begin, Session, PaidInv, IsIdle, Idle
<1>2. /\ session'[s].todo = steps /\ session'[s].due = {}
      /\ \A r \in Session \ {s} : session'[r] = session[r]
  BY <1>1, ContinueType
<1> QED BY <1>1, <1>2, MemberDecides DEF MemberDue

(* How things are with one user.                                           *)
LEMMA MemberAgrees ==
  ASSUME MemberInv, NEW u \in User
  PROVE  Agree(sub[u].status, tier[u], history[u], u \in active)
BY DEF MemberInv

LEMMA ActivateSettles ==
  ASSUME NEW u \in User, NEW o \in Order
  PROVE  /\ Settles(Activate(u, o, sub[u].status))
         /\ Settles([Activate(u, o, "inactive") EXCEPT !.insert = "initial",
                                                      !.retries = 0])
<1>1. LET t == Activate(u, o, sub[u].status) IN
      /\ t.create = FALSE /\ t.user = u /\ t.tier = "premium"
      /\ t.history = "premium"
      /\ t.status = IF sub[u].status = "active" THEN Keep ELSE "active"
  BY DEF Activate, NoTxn
<1>2. LET t == [Activate(u, o, "inactive") EXCEPT !.insert = "initial",
                                                  !.retries = 0] IN
      /\ t.create = FALSE /\ t.user = u /\ t.tier = "premium"
      /\ t.history = "premium" /\ t.status = "active"
  BY DEF Activate, NoTxn
<1> QED BY <1>1, <1>2 DEF Settles, Agree, Keep

LEMMA MemberRequests ==
  ASSUME PaidInv, MemberInv, NEW s, UserRequest(s) \/ Webhook(s)
  PROVE  MemberInv'
<1>1. ASSUME NEW u \in User, CancelSubscription(s, u)
      PROVE  MemberInv'
  <2>1. tier[u] = "premium"
    BY <1>1, MemberAgrees DEF CancelSubscription, Agree
  <2>2. Settles(Cancellation(u))
    <3>1. LET t == Cancellation(u) IN
          /\ t.create = FALSE /\ t.user = u /\ t.status = "cancelled"
          /\ t.tier = "free" /\ t.history = "free"
      BY <2>1 DEF Cancellation, NoTxn
    <3> QED BY <3>1 DEF Settles, Agree, Keep
  <2>3. /\ Settling(ToCommit(Cancellation(u)))
        /\ ToCommit(Cancellation(u)) \in Seq(Step)
    BY <2>2, CancellationType, OneCommit, CommitList
  <2> QED BY <1>1, <2>3, MemberBegins DEF CancelSubscription
<1>2. ASSUME NEW u \in User, RemoveBillingKey(s, u)
      PROVE  MemberInv'
  <2> DEFINE t == [NoTxn(u) EXCEPT
                     !.key = IF sub[u].key THEN "unset" ELSE Keep,
                     !.stopRenew = TRUE]
  <2>1. t \in Txn /\ Quiet(t)
    BY DEF NoTxn, Txn, Quiet, Keep, Same
  <2>2. Begin(s, ToCommit(t))
    BY <1>2 DEF RemoveBillingKey
  <2> HIDE DEF t
  <2> QED BY <2>1, <2>2, OneCommit, QuietSettles, CommitList, MemberBegins
<1>3. ASSUME NEW u \in User, DeleteAccount(s, u)
      PROVE  MemberInv'
  <2> DEFINE leaving == [NoTxn(u) EXCEPT !.leave = TRUE]
             cancelled == [leaving EXCEPT !.status = "cancelled",
                                          !.stopRenew = TRUE]
  <2>1. Agree(sub[u].status, tier[u], history[u], u \in active)
    BY MemberAgrees
  <2>2. leaving \in Txn /\ Settles(leaving)
    <3>1. /\ leaving.create = FALSE /\ leaving.user = u /\ leaving.leave = TRUE
          /\ leaving.status = Keep /\ leaving.tier = Keep /\ leaving.history = Keep
      BY DEF NoTxn
    <3>2. leaving \in Txn
      BY DEF NoTxn, Txn, Keep, Same
    <3> HIDE DEF leaving
    <3> QED BY <2>1, <3>1, <3>2 DEF Settles, Agree
  <2>3. cancelled \in Txn /\ Settles(cancelled)
    <3>1. /\ cancelled.create = FALSE /\ cancelled.user = u
          /\ cancelled.leave = TRUE /\ cancelled.status = "cancelled"
          /\ cancelled.tier = Keep /\ cancelled.history = Keep
      BY DEF NoTxn
    <3>2. cancelled \in Txn
      BY DEF NoTxn, Txn, Keep, Same, SubStatus
    <3> HIDE DEF cancelled
    <3> QED BY <2>1, <3>1, <3>2 DEF Settles, Agree, Keep
  <2>4. Begin(s, ToCommit(leaving)) \/ Begin(s, ToCommit(cancelled))
    BY <1>3 DEF DeleteAccount
  <2> HIDE DEF leaving, cancelled
  <2> QED BY <2>2, <2>3, <2>4, OneCommit, CommitList, MemberBegins
<1>4. ASSUME NEW u \in User, NEW o \in Order, RegisterBillingKey(s, u, o)
      PROVE  MemberInv'
  <2> DEFINE k == [NoTxn(u) EXCEPT !.key = "set"]
             t == [Activate(u, o, "inactive") EXCEPT !.insert = "initial",
                                                     !.retries = 0]
             pay == ToCharge(u, o, "register") \o ToCommit(t)
             rest == IF sub[u].status = "active" THEN <<>> ELSE pay
  <2>1. k \in Txn /\ Quiet(k)
    BY DEF NoTxn, Txn, Quiet, Keep, Same
  <2>2. t \in Txn /\ Settles(t)
    BY RegisteredType, ActivateSettles
  <2>3. "register" \in Charge \ {"deposit"}
    BY DEF Charge
  <2>4. Begin(s, (Create(u) \o ToCommit(k)) \o rest)
    BY <1>4 DEF RegisterBillingKey
  <2> HIDE DEF k, t
  <2>5. Settling(pay) /\ pay \in Seq(Step)
    BY <2>2, <2>3, ChargeThenSettle, ChargeList, CommitList
  <2> HIDE DEF pay
  <2>6. Settling(<<>>) /\ <<>> \in Seq(Step)
    BY EmptySeq DEF Settling
  <2>7. Settling(rest) /\ rest \in Seq(Step)
    BY <2>5, <2>6
  <2> HIDE DEF rest
  <2>8. AllQuiet(Create(u) \o ToCommit(k)) /\ Create(u) \o ToCommit(k) \in Seq(Step)
    BY <2>1, CreateQuiet, OneCommit, CommitList, QuietJoin
  <2>9. PICK p : p = Create(u) \o ToCommit(k)
    OBVIOUS
  <2>10. PICK l : l = p \o rest
    OBVIOUS
  <2>11. Settling(l) /\ l \in Seq(Step)
    <3>1. p \in Seq(Step) /\ AllQuiet(p)
      BY <2>8, <2>9
    <3>2. Settling(p \o rest)
      BY <2>7, <3>1, QuietThenSettling
    <3> QED BY <2>7, <2>10, <3>1, <3>2
  <2> QED BY <2>4, <2>9, <2>10, <2>11, MemberBegins
<1>5. ASSUME NEW u \in User, NEW o \in Order, NEW k \in Kind,
             InitializePayment(s, u, o, k)
      PROVE  MemberInv'
  <2>1. PICK t : t = Insert(u, o, k, "pending")
    OBVIOUS
  <2>2. t \in Txn /\ Quiet(t)
    <3>1. t \in Txn
      BY <2>1, InsertType DEF PaymentStatus
    <3> QED BY <2>1, <3>1 DEF Insert, NoTxn, Quiet, Keep
  <2>3. Begin(s, Create(u) \o ToCommit(t))
    BY <1>5, <2>1 DEF InitializePayment
  <2>4. AllQuiet(Create(u) \o ToCommit(t)) /\ Create(u) \o ToCommit(t) \in Seq(Step)
    BY <2>2, CreateQuiet, OneCommit, CommitList, QuietJoin
  <2> QED BY <2>3, <2>4, QuietSettles, MemberBegins
<1>6. ASSUME NEW o \in Order, ConfirmPayment(s, o)
      PROVE  MemberInv'
  <2>1. PICK u : u = payment[o].user
    OBVIOUS
  <2>2. PICK t : t = Activate(u, o, sub[u].status)
    OBVIOUS
  <2>3. /\ payment[o] # NoPayment
        /\ Begin(s, ToCharge(u, o, "confirm") \o ToCommit(t))
    BY <1>6, <2>1, <2>2 DEF ConfirmPayment
  <2>4. u \in User
    BY <2>1, <2>3, PaymentTells
  <2>5. t \in Txn /\ Settles(t)
    BY <2>2, <2>4, ActivateType, ActivateSettles
  <2>6. "confirm" \in Charge \ {"deposit"}
    BY DEF Charge
  <2>7. /\ Settling(ToCharge(u, o, "confirm") \o ToCommit(t))
        /\ ToCharge(u, o, "confirm") \o ToCommit(t) \in Seq(Step)
    BY <2>4, <2>5, <2>6, ChargeThenSettle, ChargeList, CommitList
  <2> QED BY <2>3, <2>7, MemberBegins
<1>7. ASSUME NEW o \in Order, ConfirmBankTransfer(s, o)
      PROVE  MemberInv'
  <2>1. PICK u : u = payment[o].user
    OBVIOUS
  <2>2. PICK t : t = Activate(u, o, sub[u].status)
    OBVIOUS
  <2>3. payment[o] # NoPayment /\ Begin(s, ToCommit(t))
    BY <1>7, <2>1, <2>2 DEF ConfirmBankTransfer
  <2>4. u \in User
    BY <2>1, <2>3, PaymentTells
  <2>5. t \in Txn /\ Settles(t)
    BY <2>2, <2>4, ActivateType, ActivateSettles
  <2> QED BY <2>3, <2>5, OneCommit, CommitList, MemberBegins
<1>8. ASSUME NEW o \in Order, WebhookPaymentFailed(s, o)
      PROVE  MemberInv'
  <2>1. PICK u : u = payment[o].user
    OBVIOUS
  <2>2. PICK t : t = PaymentFailure(u, o, payment[o])
    OBVIOUS
  <2>3. payment[o] # NoPayment /\ Begin(s, ToCommit(t))
    BY <1>8, <2>1, <2>2 DEF WebhookPaymentFailed
  <2>4. u \in User /\ payment[o].retries \in 0..SuspendAt
    BY <2>1, <2>3, PaymentTells
  <2>5. t \in Txn /\ (Quiet(t) \/ Settles(t))
    BY <2>2, <2>4, PaymentFailureType, FailureSettles
  <2> QED BY <2>3, <2>5, OneCommit, QuietSettles, CommitList, MemberBegins
<1>9. CASE UserRequest(s)
  BY <1>1, <1>2, <1>3, <1>4, <1>5, <1>6, <1>7, <1>9 DEF UserRequest, Cancel
<1>10. CASE Webhook(s)
  BY <1>1, <1>8, <1>10 DEF Webhook, WebhookKeyCancelled
<1> QED BY <1>9, <1>10

(* Renewals.                                                               *)
LEMMA RenewalSettles ==
  ASSUME MemberInv, NEW u \in User, sub[u].status = "active", NEW o \in Order
  PROVE  Settles(Renewal(u, o)) /\ Settles(Expiry(u))
<1>1. Agree(sub[u].status, tier[u], history[u], u \in active)
  BY MemberAgrees
<1>2. LET t == Renewal(u, o) IN
      /\ t.create = FALSE /\ t.user = u /\ t.status = Keep /\ t.tier = Keep
      /\ t.history = "premium"
  BY DEF Renewal, Insert, NoTxn
<1>3. LET t == Expiry(u) IN
      /\ t.create = FALSE /\ t.user = u /\ t.status = "expired"
      /\ t.tier = "free" /\ t.history = "free"
  BY DEF Expiry, NoTxn
<1> QED BY <1>1, <1>2, <1>3 DEF Settles, Agree, Keep

LEMMA MemberScan ==
  ASSUME PaidInv, MemberInv, NEW s, CheckRenewalsDue(s)
  PROVE  MemberInv'
<1> DEFINE due == {[user |-> u, key |-> sub[u].key] : u \in Overdue}
<1>1. /\ s \in Session /\ Become(s, [due |-> due, todo |-> <<>>])
      /\ UNCHANGED tables
  <2>1. s \in Worker /\ Become(s, [Idle EXCEPT !.due = due]) /\ UNCHANGED tables
    BY DEF CheckRenewalsDue
  <2>2. [Idle EXCEPT !.due = due] = [due |-> due, todo |-> <<>>]
    BY DEF Idle
  <2> QED BY <2>1, <2>2 DEF Session
<1>types. TypeOK
  BY DEF PaidInv
<1>2. \A u \in Overdue : /\ u \in User /\ sub[u].status = "active"
                         /\ sub[u].key \in BOOLEAN
  BY <1>types DEF Overdue, TypeOK, SubRow, NoSub
<1>3. due \in SUBSET Seen
  BY <1>2 DEF Seen
<1>4. /\ session'[s].todo = <<>> /\ session'[s].due = due
      /\ \A r \in Session \ {s} : session'[r] = session[r]
  BY <1>1, <1>types, <1>3, BecomeType, EmptySeq
<1>5. MemberDue(due, <<>>)
  BY <1>2, EmptySeq DEF MemberDue
<1>6. Settling(<<>>)
  BY EmptySeq DEF Settling
<1> HIDE DEF due
<1> QED BY <1>1, <1>4, <1>5, <1>6, MemberDecides

LEMMA MemberRenews ==
  ASSUME PaidInv, MemberInv, NEW s \in Worker, NEW d \in session[s].due,
         NEW o \in Order, ProcessAutoRenewal(s, d, o)
  PROVE  MemberInv'
<1>1. PICK u : u = d.user
  OBVIOUS
<1>2. s \in Session /\ session[s] \in SessionState /\ TypeOK /\ UNCHANGED tables
  BY DEF Session, PaidInv, TypeOK, ProcessAutoRenewal
<1>3. u \in User /\ sub[u].status = "active"
  BY <1>1, <1>2 DEF SessionState, Seen, MemberInv, DueActive
<1>4. PICK due : due = session[s].due \ {d}
  OBVIOUS
<1>5. /\ due \in SUBSET Seen
      /\ \A e \in due : /\ sub[e.user].status = "active" /\ e.user # u
                        /\ \A k \in due : k.user = e.user => k = e
  BY <1>1, <1>2, <1>4 DEF SessionState, MemberInv, DueActive
<1>6. ASSUME NEW steps \in Seq(Step), Settling(steps),
             Become(s, [due |-> due, todo |-> steps]),
             \A i \in 1..Len(steps) : UserOf(steps[i]) = u
      PROVE  MemberInv'
  <2>1. /\ session'[s].todo = steps /\ session'[s].due = due
        /\ \A r \in Session \ {s} : session'[r] = session[r]
    BY <1>2, <1>5, <1>6, BecomeType
  <2>2. MemberDue(due, steps)
    BY <1>5, <1>6 DEF MemberDue
  <2> QED BY <1>2, <1>6, <2>1, <2>2, MemberDecides
<1>7. CASE d.key
  <2>1. PICK t : t = Renewal(u, o)
    OBVIOUS
  <2>2. PICK l : l = ToCharge(u, o, "renewal") \o ToCommit(t)
    OBVIOUS
  <2>3. "renewal" \in Charge \ {"deposit"}
    BY DEF Charge
  <2>4. /\ t \in Txn /\ Settles(t) /\ t.user = u /\ t.order = o
        /\ Sound(t) /\ t.insert # Keep
    BY <1>3, <2>1, RenewalType, RenewalSettles
  <2>5. Settling(l)
    BY <1>3, <2>2, <2>3, <2>4, ChargeThenSettle
  <2>6. Plan(l, u, o)
    BY <1>3, <2>2, <2>3, <2>4, PlanToCharge
  <2>7. l \in Seq(Step) /\ \A i \in 1..Len(l) : UserOf(l[i]) = u
    BY <2>6 DEF Plan, Lawful, About
  <2>8. Become(s, [due |-> due, todo |-> l])
    BY <1>1, <1>4, <1>7, <2>1, <2>2 DEF ProcessAutoRenewal
  <2> QED BY <1>6, <2>5, <2>7, <2>8
<1>8. CASE ~d.key
  <2>1. PICK t : t = Expiry(u)
    OBVIOUS
  <2>2. t \in Txn /\ Settles(t) /\ t.user = u
    BY <1>3, <2>1, ExpiryType, RenewalSettles
  <2>3. Become(s, [due |-> due, todo |-> ToCommit(t)])
    BY <1>1, <1>4, <1>8, <2>1 DEF ProcessAutoRenewal
  <2> QED BY <1>6, <2>2, <2>3, OneCommit, CommitList
<1> QED BY <1>7, <1>8

-----------------------------------------------------------------------------
(* What sessions work through.                                             *)

LEMMA SettlingTail ==
  ASSUME NEW l \in Seq(Step), l # <<>>, Settling(l)
  PROVE  Settling(Tail(l))
<1>1. PICK m : m = Tail(l)
  OBVIOUS
<1>2. /\ m \in Seq(Step) /\ Len(l) \in Nat /\ Len(m) = Len(l) - 1
      /\ \A i \in 1..Len(m) : i + 1 \in 1..Len(l) /\ m[i] = l[i + 1]
  BY <1>1, TailOf, HeadTailProperties
<1>3. ASSUME NEW i \in 1..Len(m), m[i].do = "commit"
      PROVE  Quiet(m[i].txn) \/ (i = Len(m) /\ Settles(m[i].txn))
  BY <1>2, <1>3 DEF Settling
<1> QED BY <1>1, <1>3 DEF Settling

LEMMA RefusalQuiet ==
  ASSUME NEW c \in ChargeStep
  PROVE  /\ AllQuiet(AfterRefusal(c)) /\ AfterRefusal(c) \in Seq(Step)
         /\ \A i \in 1..Len(AfterRefusal(c)) :
              UserOf(AfterRefusal(c)[i]) = c.user
<1>1. PICK t : t = Insert(c.user, c.order, "renewal", "failed")
  OBVIOUS
<1>2. PICK f : f = PaymentFailure(c.user, c.order,
                                  [status |-> "failed", retries |-> 0])
  OBVIOUS
<1>3. c.user \in User /\ c.order \in Order
  BY DEF ChargeStep
<1>4. AfterRefusal(c) = <<>> \/ AfterRefusal(c) = ToCommit(t) \o ToCommit(f)
  BY <1>1, <1>2 DEF AfterRefusal
<1>5. /\ t \in Txn /\ Sound(t) /\ t.user = c.user /\ t.order = c.order
      /\ t.insert # Keep /\ t.paid # "completed" /\ Quiet(t)
  <2>1. Quiet(t)
    BY <1>1 DEF Insert, NoTxn, Quiet, Keep
  <2> QED BY <1>1, <1>3, <2>1, InsertType DEF Kind, PaymentStatus
<1>6. /\ f \in Txn /\ Sound(f) /\ f.user = c.user /\ f.order = c.order
      /\ f.paid # "completed" /\ Quiet(f)
  <2>1. [status |-> "failed", retries |-> 0].retries \in 0..SuspendAt
    BY RetryType
  <2>2. [status |-> "failed", retries |-> 0].retries = 0
    OBVIOUS
  <2>3. PICK read : read = [status |-> "failed", retries |-> 0]
    OBVIOUS
  <2> QED BY <1>2, <1>3, <2>1, <2>2, <2>3, PaymentFailureType, FailureSettles
<1>7. Plan(ToCommit(t) \o ToCommit(f), c.user, c.order)
  BY <1>5, <1>6, PlanToInsert
<1>8. AllQuiet(ToCommit(t) \o ToCommit(f))
  BY <1>5, <1>6, OneCommit, CommitList, QuietJoin
<1>9. CASE AfterRefusal(c) = <<>>
  BY <1>9, EmptySeq DEF AllQuiet
<1>10. CASE AfterRefusal(c) = ToCommit(t) \o ToCommit(f)
  BY <1>7, <1>8, <1>10 DEF Plan, Lawful, About
<1> QED BY <1>4, <1>9, <1>10

LEMMA MemberCharges ==
  ASSUME PaidInv, MemberInv, NEW s \in Session, ChargeCard(s)
  PROVE  MemberInv'
<1>1. PICK l : l = session[s].todo
  OBVIOUS
<1>2. PICK c : c = Head(l)
  OBVIOUS
<1>3. TypeOK /\ l \in Seq(Step) /\ Settling(l) /\ UNCHANGED tables
  BY <1>1 DEF PaidInv, TypeOK, SessionState, Step, MemberInv, ChargeCard
<1>4. l # <<>> /\ c.do = "charge"
  BY <1>1, <1>2 DEF ChargeCard, Doing
<1>5. c = l[1] /\ 1 \in 1..Len(l) /\ c \in ChargeStep
  BY <1>2, <1>3, <1>4, TailOf DEF Step, CommitStep
<1>6. /\ UserOf(c) = c.user
      /\ \A d \in session[s].due : /\ sub[d.user].status = "active"
                                   /\ \A e \in session[s].due :
                                        e.user = d.user => e = d
                                   /\ \A i \in 1..Len(l) : UserOf(l[i]) # d.user
  BY <1>1, <1>4 DEF MemberInv, DueActive, UserOf
<1>7. ASSUME NEW steps \in Seq(Step), Continue(s, steps), Settling(steps),
             \A i \in 1..Len(steps) : \E k \in 1..Len(l) :
               UserOf(steps[i]) = UserOf(l[k])
      PROVE  MemberInv'
  <2>1. /\ session'[s].todo = steps /\ session'[s].due = session[s].due
        /\ \A r \in Session \ {s} : session'[r] = session[r]
    BY <1>3, <1>7, ContinueType
  <2>2. MemberDue(session[s].due, steps)
    BY <1>6, <1>7 DEF MemberDue
  <2> QED BY <1>3, <1>7, <2>1, <2>2, MemberDecides
<1>8. \/ Continue(s, Tail(l)) \/ Continue(s, AfterRefusal(c))
      \/ Continue(s, <<>>)
  BY <1>1, <1>2 DEF ChargeCard
<1>9. CASE Continue(s, Tail(l))
  <2>1. PICK m : m = Tail(l)
    OBVIOUS
  <2>2. /\ m \in Seq(Step) /\ Settling(m)
        /\ \A i \in 1..Len(m) : i + 1 \in 1..Len(l) /\ m[i] = l[i + 1]
    BY <1>3, <1>4, <2>1, SettlingTail, TailOf
  <2>3. \A i \in 1..Len(m) : \E k \in 1..Len(l) : UserOf(m[i]) = UserOf(l[k])
    BY <2>2
  <2> QED BY <1>7, <1>9, <2>1, <2>2, <2>3
<1>10. CASE Continue(s, AfterRefusal(c))
  <2>1. PICK m : m = AfterRefusal(c)
    OBVIOUS
  <2>2. /\ m \in Seq(Step) /\ Settling(m)
        /\ \A i \in 1..Len(m) : UserOf(m[i]) = c.user
    BY <1>5, <2>1, RefusalQuiet, QuietSettles
  <2>3. \A i \in 1..Len(m) : \E k \in 1..Len(l) : UserOf(m[i]) = UserOf(l[k])
    BY <1>5, <1>6, <2>2
  <2> QED BY <1>7, <1>10, <2>1, <2>2, <2>3
<1>11. CASE Continue(s, <<>>)
  <2>1. <<>> \in Seq(Step) /\ Len(<<>>) = 0
    BY EmptySeq
  <2>2. Settling(<<>>)
    BY <2>1 DEF Settling
  <2>3. \A i \in 1..Len(<<>>) : FALSE
    BY <2>1
  <2> QED BY <1>7, <1>11, <2>1, <2>2, <2>3
<1> QED BY <1>8, <1>9, <1>10, <1>11

(* A settling transaction puts an end to its session.                      *)
LEMMA MemberCommits ==
  ASSUME PaidInv, MemberInv, NoOverlap, NEW s \in Session, Commit(s)
  PROVE  MemberInv'
<1>1. PICK l : l = session[s].todo
  OBVIOUS
<1>2. PICK t : t = Head(l).txn
  OBVIOUS
<1>3. /\ TypeOK /\ l \in Seq(Step) /\ Settling(l)
      /\ l # <<>> /\ Head(l).do = "commit"
  BY <1>1 DEF PaidInv, TypeOK, SessionState, Step, MemberInv, Commit, Doing
<1>4. /\ l[1].do = "commit" /\ l[1].txn = t /\ 1 \in 1..Len(l) /\ t \in Txn
      /\ UserOf(l[1]) = t.user
  BY <1>2, <1>3, TailOf DEF Step, CommitStep, ChargeStep, UserOf
<1>5. \A r \in Session : r = s
  BY DEF NoOverlap
<1>6. /\ t.user \in User /\ t.status \in SubStatus \cup {Keep}
      /\ t.create \in BOOLEAN
  BY <1>4 DEF Txn
<1>7. /\ sub \in [User -> SubRow \cup {NoSub}] /\ tier \in [User -> Tier]
      /\ history \in [User -> Tier]
  BY <1>3 DEF TypeOK
<1>8. \A d \in session[s].due :
        /\ sub[d.user].status = "active" /\ d.user # t.user /\ d.user \in User
        /\ \A e \in session[s].due : e.user = d.user => e = d
        /\ \A i \in 1..Len(l) : UserOf(l[i]) # d.user
  <2>1. session[s] \in SessionState
    BY <1>3 DEF TypeOK
  <2> QED BY <1>1, <1>4, <2>1 DEF MemberInv, DueActive, SessionState, Seen
<1>9. CASE t.create /\ sub[t.user] # NoSub
  <2>1. Become(s, [due |-> {}, todo |-> <<>>]) /\ UNCHANGED tables
    BY <1>1, <1>2, <1>9 DEF Commit, Idle
  <2>2. /\ session'[s].todo = <<>> /\ session'[s].due = {}
        /\ \A r \in Session \ {s} : session'[r] = session[r]
    BY <1>3, <2>1, BecomeType, EmptySeq
  <2>3. Settling(<<>>) /\ MemberDue({}, <<>>)
    BY EmptySeq DEF Settling, MemberDue
  <2> QED BY <2>1, <2>2, <2>3, MemberDecides
<1>10. CASE ~(t.create /\ sub[t.user] # NoSub)
  <2>1. /\ sub' = [sub EXCEPT ![t.user] = ApplySub(sub[t.user], t)]
        /\ tier' = [tier EXCEPT ![t.user] =
                      IF t.tier = Keep THEN tier[t.user] ELSE t.tier]
        /\ history' = [history EXCEPT ![t.user] =
                      IF t.history = Keep THEN history[t.user] ELSE t.history]
        /\ active' = IF t.leave THEN active \ {t.user} ELSE active
        /\ Continue(s, Tail(l))
    BY <1>1, <1>2, <1>10 DEF Commit
  <2>2. PICK m : m = Tail(l)
    OBVIOUS
  <2>3. /\ m \in Seq(Step) /\ Settling(m) /\ Len(l) \in Nat
        /\ Len(m) = Len(l) - 1
        /\ \A i \in 1..Len(m) : i + 1 \in 1..Len(l) /\ m[i] = l[i + 1]
    BY <1>3, <2>2, SettlingTail, TailOf, HeadTailProperties
  <2>4. session'[s].todo = m /\ session'[s].due = session[s].due
    BY <1>3, <2>1, <2>2, <2>3, ContinueType
  <2>5. \A u \in User : u # t.user =>
          /\ sub'[u] = sub[u] /\ tier'[u] = tier[u] /\ history'[u] = history[u]
          /\ (u \in active') <=> (u \in active)
    BY <1>7, <2>1
  <2>6. /\ sub'[t.user] = ApplySub(sub[t.user], t)
        /\ tier'[t.user] = IF t.tier = Keep THEN tier[t.user] ELSE t.tier
        /\ history'[t.user] =
             IF t.history = Keep THEN history[t.user] ELSE t.history
        /\ (t.user \in active') <=> (t.user \in active /\ ~t.leave)
    BY <1>6, <1>7, <2>1
  <2>7. /\ t.create => sub'[t.user].status = "inactive" /\ sub[t.user].status = "none"
        /\ ~t.create => sub'[t.user].status =
                          IF t.status = Keep THEN sub[t.user].status ELSE t.status
    BY <1>6, <1>10, <2>6 DEF ApplySub, NoSub
  <2>8. CASE Quiet(t)
    <3>1. /\ tier' [t.user] = tier[t.user] /\ history'[t.user] = history[t.user]
          /\ (t.user \in active') <=> (t.user \in active)
          /\ (sub'[t.user].status = "active") <=> (sub[t.user].status = "active")
      BY <2>6, <2>7, <2>8 DEF Quiet
    <3>2. \A u \in User :
            /\ tier' [u] = tier[u] /\ history'[u] = history[u]
            /\ (u \in active') <=> (u \in active)
            /\ (sub'[u].status = "active") <=> (sub[u].status = "active")
      BY <2>5, <3>1
    <3>3. ASSUME NEW u \in User
          PROVE  Agree(sub'[u].status, tier'[u], history'[u], u \in active')
      BY <3>2, MemberAgrees DEF Agree
    <3>4. ASSUME NEW i \in 1..Len(m), m[i].do = "commit"
          PROVE  Quiet(m[i].txn) \/ (i = Len(m) /\ Settles(m[i].txn)')
      <4>1. PICK q : q = m[i].txn
        OBVIOUS
      <4>2. Quiet(q) \/ (i = Len(m) /\ Settles(q))
        BY <2>3, <3>4, <4>1 DEF Settling
      <4>3. q.user \in User
        BY <2>3, <3>4, <4>1, StepUser DEF UserOf
      <4>4. Settles(q) => Settles(q)'
        BY <3>2, <4>3 DEF Settles, Agree
      <4> QED BY <4>1, <4>2, <4>4 DEF Settles
    <3>5. Settling(session[s].todo)'
      BY <2>4, <3>4 DEF Settling
    <3>6. DueActive(s)'
      BY <1>8, <2>3, <2>4, <2>5 DEF DueActive
    <3> QED BY <1>5, <3>3, <3>5, <3>6 DEF MemberInv
  <2>9. CASE ~Quiet(t)
    <3>1. Len(l) = 1 /\ Settles(t)
      BY <1>3, <1>4, <2>9 DEF Settling
    <3>2. Len(m) = 0
      BY <2>3, <3>1
    <3>3. Agree(sub'[t.user].status, tier'[t.user], history'[t.user],
                t.user \in active')
      BY <2>6, <2>7, <3>1 DEF Settles, Agree
    <3>4. ASSUME NEW u \in User
          PROVE  Agree(sub'[u].status, tier'[u], history'[u], u \in active')
      BY <2>5, <3>3, MemberAgrees DEF Agree
    <3>5. Settling(session[s].todo)' /\ DueActive(s)'
      BY <1>8, <2>4, <2>5, <3>2 DEF Settling, DueActive
    <3> QED BY <1>5, <3>4, <3>5 DEF MemberInv
  <2> QED BY <2>8, <2>9
<1> QED BY <1>9, <1>10

-----------------------------------------------------------------------------
(* Members, everything together.                                           *)

LEMMA InitMember == Init => MemberInv
<1> SUFFICES ASSUME Init PROVE MemberInv
  OBVIOUS
<1>1. \A s \in Session : session[s].todo = <<>> /\ session[s].due = {}
  BY DEF Init, Idle
<1>2. \A s \in Session : Settling(session[s].todo) /\ DueActive(s)
  BY <1>1, EmptySeq DEF Settling, DueActive
<1> QED BY <1>2 DEF Init, MemberInv, Agree, NoSub

LEMMA NextKeepsMember ==
  ASSUME NoOverlap, PaidInv, MemberInv, [Next]_vars
  PROVE  MemberInv'
<1>1. ASSUME NEW s \in Session, Killed(s)
      PROVE  MemberInv'
  <2>1. /\ Become(s, [due |-> {}, todo |-> <<>>]) /\ UNCHANGED tables /\ TypeOK
    BY <1>1 DEF Killed, Idle, PaidInv
  <2>2. /\ session'[s].todo = <<>> /\ session'[s].due = {}
        /\ \A r \in Session \ {s} : session'[r] = session[r]
    BY <2>1, BecomeType, EmptySeq
  <2>3. Settling(<<>>) /\ MemberDue({}, <<>>)
    BY EmptySeq DEF Settling, MemberDue
  <2> QED BY <2>1, <2>2, <2>3, MemberDecides
<1>2. ASSUME UNCHANGED <<tables, session>>
      PROVE  MemberInv'
  BY <1>2 DEF tables, MemberInv, Settling, Settles, DueActive
<1>3. CASE \E s \in Client : UserRequest(s) \/ Webhook(s)
  BY <1>3, MemberRequests
<1>4. CASE \E s \in Worker : CheckRenewalsDue(s) \/ Renew(s)
  BY <1>4, MemberScan, MemberRenews DEF Renew
<1>5. CASE \E s \in Session : ChargeCard(s) \/ Commit(s) \/ Killed(s)
  BY <1>1, <1>5, MemberCharges, MemberCommits
<1>6. CASE \/ \E o \in Order : Deposit(o)
           \/ NextMonth
           \/ UNCHANGED vars
  BY <1>2, <1>6 DEF Deposit, NextMonth, vars
<1> QED BY <1>3, <1>4, <1>5, <1>6 DEF Next

LEMMA MemberInductive ==
  ASSUME NoOverlap
  PROVE  Spec => []MemberInv
<1>1. PaidInv /\ MemberInv /\ [Next]_vars => MemberInv'
  BY NextKeepsMember
<1> QED BY <1>1, InitMember, PaidInductive, PTL DEF Spec

(* While sessions do not overlap whoever has an ACTIVE subscription is     *)
(* PREMIUM and no account stays PREMIUM beyond what was paid, even when    *)
(* answers are lost and processes die between the transactions of a        *)
(* request.                                                                *)
THEOREM TierIsPaidUp ==
  ASSUME NoOverlap
  PROVE  Spec => []TierFitsStatus
<1>1. PaidInv /\ MemberInv => TierFitsStatus
  BY DEF PaidInv, TypeOK, MemberInv, Agree, TierFitsStatus, PaidUp
<1> QED BY <1>1, MemberInductive, PaidInductive, PTL

(* Then, too, the newest row of subscription_history tells the tier.       *)
THEOREM HistoryIsTrue ==
  ASSUME NoOverlap
  PROVE  Spec => []HistoryTellsTier
<1>1. MemberInv => HistoryTellsTier
  BY DEF MemberInv, Agree, HistoryTellsTier
<1> QED BY <1>1, MemberInductive, PTL

-----------------------------------------------------------------------------
(* Renewals are recorded once.  Lists of steps of those who renew nothing. *)

NoRenewal(steps) == \A i \in 1..Len(steps) : ~ChargesRenewal(steps[i])

(* Nor is the payment completed first that of a renewal.                   *)
Modest(steps) ==
  /\ NoRenewal(steps)
  /\ CompletesFirst(steps) => ledger[steps[1].txn.order].charge # "renewal"

LEMMA NoRenewalJoin ==
  ASSUME NEW p \in Seq(Step), NEW q \in Seq(Step), NoRenewal(p), NoRenewal(q)
  PROVE  NoRenewal(p \o q)
<1>1. PICK l, m : l = p \o q /\ m = Len(p)
  OBVIOUS
<1>2. /\ m \in Nat /\ Len(q) \in Nat /\ Len(l) = m + Len(q)
      /\ \A i \in 1..(m + Len(q)) : l[i] = IF i <= m THEN p[i] ELSE q[i - m]
  BY <1>1
<1>3. ASSUME NEW i \in 1..Len(l)
      PROVE  ~ChargesRenewal(l[i])
  <2>1. CASE i <= m
    <3>1. i \in 1..Len(p) /\ l[i] = p[i]
      BY <1>1, <1>2, <2>1
    <3> QED BY <3>1 DEF NoRenewal
  <2>2. CASE ~(i <= m)
    <3>1. i - m \in 1..Len(q) /\ l[i] = q[i - m]
      BY <1>2, <2>2
    <3> QED BY <3>1 DEF NoRenewal
  <2> QED BY <2>1, <2>2
<1> QED BY <1>1, <1>3 DEF NoRenewal

LEMMA ModestJoin ==
  ASSUME NEW p \in Seq(Step), NEW q \in Seq(Step), Modest(p), NoRenewal(q),
         p = <<>> => Modest(q)
  PROVE  Modest(p \o q)
<1>1. CASE p = <<>>
  <2>1. p \o q = q
    BY <1>1, ConcatEmptySeq
  <2> QED BY <1>1, <2>1
<1>2. CASE p # <<>>
  <2>1. PICK l : l = p \o q
    OBVIOUS
  <2>2. 1 \in 1..Len(p) /\ Len(p) \in Nat /\ Len(q) \in Nat
    BY <1>2, TailOf
  <2>3. l[1] = p[1]
    BY <2>1, <2>2, ConcatProperties
  <2>4. NoRenewal(l)
    BY <2>1, NoRenewalJoin DEF Modest
  <2>5. Modest(l)
    BY <1>2, <2>3, <2>4 DEF Modest, CompletesFirst
  <2> QED BY <2>1, <2>5
<1> QED BY <1>1, <1>2

LEMMA ModestCommit ==
  ASSUME NEW t \in Txn, t.paid = "completed" => ledger[t.order].charge # "renewal"
  PROVE  Modest(ToCommit(t))
<1>1. PICK l : l = ToCommit(t)
  OBVIOUS
<1>2. Len(l) = 1 /\ l[1].do = "commit" /\ l[1].txn = t /\ \A i \in 1..1 : i = 1
  BY <1>1, CommitList
<1>3. Modest(l)
  BY <1>2 DEF Modest, NoRenewal, ChargesRenewal, CompletesFirst, Completing
<1> QED BY <1>1, <1>3

LEMMA ModestTells ==
  ASSUME NEW l, Modest(l)
  PROVE  NoRenewal(l)
BY DEF Modest

LEMMA NothingModest == Modest(<<>>) /\ <<>> \in Seq(Step)
BY EmptySeq DEF Modest, NoRenewal, CompletesFirst

LEMMA CreateModest ==
  ASSUME NEW u \in User
  PROVE  Modest(Create(u)) /\ Create(u) \in Seq(Step)
<1>1. PICK t : t = [NoTxn(u) EXCEPT !.create = TRUE]
  OBVIOUS
<1>2. t \in Txn /\ t.paid = Keep
  BY <1>1 DEF NoTxn, Txn, Keep, Same
<1>3. Create(u) = <<>> \/ Create(u) = ToCommit(t)
  BY <1>1 DEF Create
<1>4. Modest(ToCommit(t)) /\ ToCommit(t) \in Seq(Step)
  BY <1>2, ModestCommit, CommitList DEF Keep
<1> QED BY <1>3, <1>4, NothingModest

ChargesAndCommits(l, u, o, c, t) ==
  /\ l \in Seq(Step) /\ Len(l) = 2
  /\ l[1].do = "charge" /\ l[1].order = o /\ l[1].user = u /\ l[1].charge = c
  /\ l[2].do = "commit" /\ l[2].txn = t
  /\ Tail(l) = ToCommit(t)

LEMMA ChargeAndCommit ==
  ASSUME NEW u \in User, NEW o \in Order, NEW c \in Charge \ {"deposit"},
         NEW t \in Txn
  PROVE  ChargesAndCommits(ToCharge(u, o, c) \o ToCommit(t), u, o, c, t)
<1>1. PICK a : a = ToCharge(u, o, c)
  OBVIOUS
<1>2. PICK b : b = ToCommit(t)
  OBVIOUS
<1>3. PICK l : l = a \o b
  OBVIOUS
<1>4. /\ a \in Seq(Step) /\ Len(a) = 1 /\ a[1].do = "charge"
      /\ a[1].order = o /\ a[1].user = u
  BY <1>1, ChargeList
<1>5. a[1].charge = c
  BY <1>1 DEF ToCharge
<1>6. /\ b \in Seq(Step) /\ Len(b) = 1 /\ b[1].do = "commit" /\ b[1].txn = t
  BY <1>2, CommitList
<1>7. l \in Seq(Step) /\ Len(l) = 2 /\ l[1] = a[1] /\ l[2] = b[1]
  BY <1>3, <1>4, <1>6, TwoSteps
<1>8. Tail(l) = b
  <2>1. PICK m : m = Tail(l)
    OBVIOUS
  <2>2. m \in Seq(Step) /\ Len(m) = 1 /\ m[1] = b[1]
    <3>1. l \in Seq(Step) /\ l # <<>>
      <4>1. <<>> \in Seq(Step) /\ Len(<<>>) = 0
        BY EmptySeq
      <4>2. l = <<>> => Len(l) = Len(<<>>)
        OBVIOUS
      <4> QED BY <1>7, <4>1, <4>2
    <3>2. /\ m \in Seq(Step) /\ Len(m) = Len(l) - 1
          /\ \A i \in 1..Len(m) : m[i] = l[i + 1]
      BY <2>1, <3>1, HeadTailProperties
    <3> QED BY <1>7, <3>2
  <2>3. \A i \in 1..Len(m) : m[i] = b[i]
    BY <2>2
  <2>4. m = b
    BY <1>6, <2>2, <2>3, SeqEqual
  <2> QED BY <2>1, <2>4
<1>9. ChargesAndCommits(l, u, o, c, t)
  BY <1>2, <1>4, <1>5, <1>6, <1>7, <1>8 DEF ChargesAndCommits
<1> QED BY <1>1, <1>2, <1>3, <1>9

LEMMA ChargeModest ==
  ASSUME NEW u \in User, NEW o \in Order, NEW c \in {"confirm", "register"},
         NEW t \in Txn
  PROVE  LET l == ToCharge(u, o, c) \o ToCommit(t) IN
         l \in Seq(Step) /\ Modest(l)
<1>1. PICK l : l = ToCharge(u, o, c) \o ToCommit(t)
  OBVIOUS
<1>2. c \in Charge \ {"deposit"}
  BY DEF Charge
<1>3. ChargesAndCommits(l, u, o, c, t)
  BY <1>1, <1>2, ChargeAndCommit
<1>4. /\ l \in Seq(Step) /\ l[1].do = "charge" /\ l[1].charge = c
      /\ l[2].do = "commit" /\ \A i \in 1..Len(l) : i = 1 \/ i = 2
  BY <1>3 DEF ChargesAndCommits
<1>5. Modest(l)
  BY <1>4 DEF Modest, NoRenewal, ChargesRenewal, CompletesFirst, Completing
<1> QED BY <1>1, <1>4, <1>5

-----------------------------------------------------------------------------
(* What stays of renewals while the tables stand.                          *)

(* Money taken now, if any.                                                *)
LedgerNow ==
  /\ ledger' \in [Order -> Capture \cup {Uncaptured}]
  /\ \A o \in Order : ledger[o] # Uncaptured => ledger'[o] = ledger[o]
  /\ \A o \in Order : ledger[o] = Uncaptured /\ ledger'[o] # Uncaptured =>
       ledger'[o].month = month

LEMMA CapturedMonth ==
  ASSUME PaidInv, NEW o \in Order, Captured(o)
  PROVE  ledger[o] \in Capture /\ ledger[o].month \in Nat
<1>1. ledger[o] \in Capture
  BY DEF PaidInv, TypeOK, Captured
<1> QED BY <1>1 DEF Capture

LEMMA RecordedIsCaptured ==
  ASSUME PaidInv, DatedIsCaptured, NEW u, NEW o \in Order, RenewalRecorded(u, o)
  PROVE  Captured(o) /\ ledger[o].month \in Nat
<1>1. Captured(o)
  BY DEF DatedIsCaptured, RenewalRecorded
<1> QED BY <1>1, CapturedMonth

(* What is recorded stays where it is on the calendar.                     *)
LEMMA BeforeStays ==
  ASSUME PaidInv, DatedIsCaptured, LedgerNow, NEW s, NEW u,
         NEW m \in Nat, NEW n \in Nat, m <= n,
         \A o \in Order : RenewalRecorded(u, o)' /\ ledger'[o].by = s =>
           RenewalRecorded(u, o),
         RenewedBefore(s, u, m)
  PROVE  \A o \in Order : RenewalRecorded(u, o)' /\ ledger'[o].by = s =>
           ledger'[o].month < n
<1> SUFFICES ASSUME NEW o \in Order, RenewalRecorded(u, o)', ledger'[o].by = s
             PROVE  ledger'[o].month < n
  OBVIOUS
<1>1. RenewalRecorded(u, o) /\ Captured(o) /\ ledger[o].month \in Nat
  BY RecordedIsCaptured
<1>2. ledger'[o] = ledger[o]
  BY <1>1 DEF LedgerNow, Captured
<1>3. ledger[o].month < m
  BY <1>1, <1>2 DEF RenewedBefore
<1> QED BY <1>1, <1>2, <1>3

(* What is about to be recorded has been captured.                         *)
LEMMA ToRecordIsCaptured ==
  ASSUME PaidInv, NEW r \in Session, NEW o \in Order, ToRecord(r, o)
  PROVE  Captured(o)
<1>1. PICK l : l = session[r].todo
  OBVIOUS
<1>2. l \in Seq(Step) /\ Ready(l) /\ l # <<>>
  BY <1>1 DEF PaidInv, TypeOK, SessionState, Step, ToRecord, Doing
<1>3. /\ 1 \in 1..Len(l) /\ l[1].do = "commit"
      /\ l[1].txn.order = o /\ l[1].txn.paid = "completed"
  BY <1>1, <1>2, TailOf DEF ToRecord, Doing
<1> QED BY <1>2, <1>3 DEF Ready

(* A session that stands goes on renewing right, as long as nobody else    *)
(* records a renewal of its own.                                           *)
LEMMA RestRenewsRight ==
  ASSUME PaidInv, DatedIsCaptured, LedgerNow, month' \in Nat, month <= month',
         NEW r \in Session, session'[r] = session[r], RenewsRight(r),
         \A u \in User, o \in Order :
           RenewalRecorded(u, o)' /\ ledger'[o].by = r => RenewalRecorded(u, o)
  PROVE  RenewsRight(r)'
<1>1. session[r] \in SessionState /\ month \in Nat
  BY DEF PaidInv, TypeOK
<1>2. \A d \in session[r].due : d.user \in User
  BY <1>1 DEF SessionState, Seen
<1>3. DueOnce(r)'
  <2> SUFFICES ASSUME NEW d \in session[r].due
               PROVE  /\ r \in Worker
                      /\ \A o \in Order :
                           RenewalRecorded(d.user, o)' /\ ledger'[o].by = r =>
                             ledger'[o].month < month'
                      /\ \A e \in session[r].due : e.user = d.user => e = d
    BY DEF DueOnce, RenewedBefore
  <2>1. /\ r \in Worker /\ RenewedBefore(r, d.user, month)
        /\ \A e \in session[r].due : e.user = d.user => e = d
    BY DEF RenewsRight, DueOnce
  <2>2. \A o \in Order : RenewalRecorded(d.user, o)' /\ ledger'[o].by = r =>
          RenewalRecorded(d.user, o)
    BY <1>2
  <2> QED BY <1>1, <2>1, <2>2, BeforeStays
<1>4. ASSUME NEW u \in User, NEW o \in Order, Renewing(r, u, o)
      PROVE  Renewing(r, u, o)'
  <2>1. \A q \in Order : RenewalRecorded(u, q)' /\ ledger'[q].by = r =>
          RenewalRecorded(u, q)
    OBVIOUS
  <2>2. CASE /\ session[r].todo =
                  ToCharge(u, o, "renewal") \o ToCommit(Renewal(u, o))
             /\ RenewedBefore(r, u, month)
    <3>1. \A q \in Order : RenewalRecorded(u, q)' /\ ledger'[q].by = r =>
            ledger'[q].month < month'
      BY <1>1, <2>1, <2>2, BeforeStays
    <3>2. RenewedBefore(r, u, month)'
      BY <3>1 DEF RenewedBefore
    <3> QED BY <1>4, <2>2, <3>2 DEF Renewing
  <2>3. CASE /\ session[r].todo = ToCommit(Renewal(u, o))
             /\ Captured(o) /\ ledger[o].by = r
             /\ RenewedBefore(r, u, ledger[o].month)
    <3>1. PICK m \in Nat : m = ledger[o].month
      BY <2>3, CapturedMonth
    <3>2. ledger'[o] = ledger[o] /\ Captured(o)'
      BY <2>3 DEF LedgerNow, Captured
    <3>3. \A q \in Order : RenewalRecorded(u, q)' /\ ledger'[q].by = r =>
            ledger'[q].month < m
      BY <2>1, <2>3, <3>1, BeforeStays
    <3>4. RenewedBefore(r, u, ledger[o].month)'
      BY <3>1, <3>2, <3>3 DEF RenewedBefore
    <3> QED BY <1>4, <2>3, <3>2, <3>4 DEF Renewing
  <2> QED BY <1>4, <2>2, <2>3 DEF Renewing
<1>5. ASSUME NEW i \in 1..Len(session[r].todo),
             ChargesRenewal(session[r].todo[i])
      PROVE  \E u \in User, o \in Order : Renewing(r, u, o)'
  BY <1>4, <1>5 DEF RenewsRight
<1>6. ASSUME NEW o \in Order, ToRecord(r, o)', ledger'[o].charge = "renewal"
      PROVE  \E u \in User : Renewing(r, u, o)'
  <2>1. ToRecord(r, o)
    BY <1>6 DEF ToRecord, Doing
  <2>2. ledger'[o] = ledger[o]
    BY <2>1, ToRecordIsCaptured DEF LedgerNow, Captured
  <2> QED BY <1>4, <1>6, <2>1, <2>2 DEF RenewsRight
<1> QED BY <1>3, <1>5, <1>6 DEF RenewsRight

(* The tables stand.                                                       *)
LEMMA TablesRest ==
  ASSUME PaidInv, RenewalInv, UNCHANGED tables, LedgerNow,
         month' \in Nat, month <= month'
  PROVE  /\ InTime' /\ DatedIsCaptured' /\ RenewalRecordedOnce'
         /\ \A s \in Session, u \in User : RenewedBefore(s, u, sub[u].next)'
         /\ \A u \in User, o \in Order :
              RenewalRecorded(u, o)' => /\ RenewalRecorded(u, o)
                                        /\ ledger'[o] = ledger[o]
<1>1. sub' = sub /\ payment' = payment /\ DatedIsCaptured
  BY DEF tables, RenewalInv
<1>2. \A o \in Order : Dated(o)' => Dated(o) /\ ledger'[o] = ledger[o] /\ Captured(o)'
  BY <1>1 DEF Dated, DatedIsCaptured, LedgerNow, Captured
<1>3. \A u \in User, o \in Order :
        RenewalRecorded(u, o)' => /\ RenewalRecorded(u, o)
                                  /\ ledger'[o] = ledger[o]
  BY <1>2 DEF RenewalRecorded
<1>4. InTime'
  <2>1. month \in Nat /\ \A u \in User : sub[u].next \in Nat
    BY DEF PaidInv, TypeOK, SubRow, NoSub
  <2>2. \A u \in User : sub'[u].next <= month' + 1
    BY <1>1, <2>1 DEF RenewalInv, InTime
  <2>3. \A o \in Order : Captured(o)' => ledger'[o].month <= month'
    <3> SUFFICES ASSUME NEW o \in Order, Captured(o)'
                 PROVE  ledger'[o].month <= month'
      OBVIOUS
    <3>1. CASE Captured(o)
      BY <2>1, <3>1, CapturedMonth DEF RenewalInv, InTime, LedgerNow, Captured
    <3>2. CASE ~Captured(o)
      BY <3>2 DEF LedgerNow, Captured
    <3> QED BY <3>1, <3>2
  <2> QED BY <2>2, <2>3 DEF InTime
<1>5. \A s \in Session, u \in User : RenewedBefore(s, u, sub[u].next)'
  BY <1>1, <1>3 DEF RenewalInv, RenewedBefore
<1>6. RenewalRecordedOnce'
  BY <1>3 DEF RenewalInv, RenewalRecordedOnce
<1> QED BY <1>2, <1>3, <1>4, <1>5, <1>6 DEF DatedIsCaptured

(* A session decides while the tables stand.                               *)
LEMMA RenewalDecides ==
  ASSUME PaidInv, RenewalInv, UNCHANGED tables, LedgerNow,
         month' \in Nat, month <= month', NEW s,
         \A r \in Session \ {s} : session'[r] = session[r],
         s \in Session => RenewsRight(s)'
  PROVE  RenewalInv'
<1>1. /\ InTime' /\ DatedIsCaptured' /\ RenewalRecordedOnce'
      /\ \A r \in Session, u \in User : RenewedBefore(r, u, sub[u].next)'
      /\ \A u \in User, o \in Order : RenewalRecorded(u, o)' => RenewalRecorded(u, o)
  BY TablesRest
<1>2. ASSUME NEW r \in Session
      PROVE  RenewsRight(r)'
  <2>1. CASE r = s
    BY <2>1
  <2>2. CASE r # s
    <3>1. session'[r] = session[r] /\ RenewsRight(r) /\ DatedIsCaptured
      BY <2>2 DEF RenewalInv
    <3> QED BY <1>1, <3>1, RestRenewsRight
  <2> QED BY <2>1, <2>2
<1> QED BY <1>1, <1>2 DEF RenewalInv

-----------------------------------------------------------------------------
(* Requests renew nothing.                                                 *)

(* A session that goes on with a modest list, and with the subscriptions   *)
(* it had still to renew.                                                  *)
LEMMA ModestRenewsRight ==
  ASSUME NEW s, NEW steps \in Seq(Step), session'[s].todo = steps,
         DueOnce(s)', NoRenewal(steps),
         CompletesFirst(steps) => ledger'[steps[1].txn.order].charge # "renewal"
  PROVE  RenewsRight(s)'
<1>1. \A i \in 1..Len(steps) : ~ChargesRenewal(steps[i])
  BY DEF NoRenewal
<1>2. ASSUME NEW o \in Order, ToRecord(s, o)'
      PROVE  ledger'[o].charge # "renewal"
  <2>1. /\ steps # <<>> /\ Head(steps).do = "commit"
        /\ Head(steps).txn.order = o /\ Head(steps).txn.paid = "completed"
    BY <1>2 DEF ToRecord, Doing
  <2>2. Head(steps) = steps[1]
    BY <2>1, TailOf
  <2> QED BY <2>1, <2>2 DEF CompletesFirst, Completing
<1> QED BY <1>1, <1>2 DEF RenewsRight, ChargesRenewal

LEMMA RenewalBegins ==
  ASSUME PaidInv, RenewalInv, NEW s, NEW steps \in Seq(Step), Begin(s, steps),
         Modest(steps)
  PROVE  RenewalInv'
<1>1. /\ s \in Session /\ Continue(s, steps) /\ session[s].due = {}
      /\ UNCHANGED <<tables, month>> /\ UNCHANGED ledger
  BY DEF Begin, Session, IsIdle, Idle
<1>2. TypeOK /\ month \in Nat
  BY DEF PaidInv, TypeOK
<1>3. /\ session'[s].todo = steps /\ session'[s].due = {}
      /\ \A r \in Session \ {s} : session'[r] = session[r]
  BY <1>1, <1>2, ContinueType
<1>4. LedgerNow
  BY <1>1, <1>2 DEF LedgerNow, TypeOK
<1>5. RenewsRight(s)'
  <2>1. DueOnce(s)'
    BY <1>3 DEF DueOnce
  <2> QED BY <1>1, <1>3, <2>1, ModestRenewsRight DEF Modest
<1> QED BY <1>1, <1>2, <1>3, <1>4, <1>5, RenewalDecides

LEMMA RenewalPlain ==
  ASSUME PaidInv, RenewalInv, NEW s, NEW t \in Txn, Begin(s, ToCommit(t)),
         t.paid = "completed" => ledger[t.order].charge # "renewal"
  PROVE  RenewalInv'
BY ModestCommit, CommitList, RenewalBegins

LEMMA RenewalRequests ==
  ASSUME PaidInv, RenewalInv, NEW s, UserRequest(s) \/ Webhook(s)
  PROVE  RenewalInv'
<1>1. ASSUME NEW u \in User, CancelSubscription(s, u)
      PROVE  RenewalInv'
  BY <1>1, CancellationType, RenewalPlain DEF CancelSubscription, Keep
<1>2. ASSUME NEW u \in User, RemoveBillingKey(s, u)
      PROVE  RenewalInv'
  <2>1. PICK t : t = [NoTxn(u) EXCEPT
                        !.key = IF sub[u].key THEN "unset" ELSE Keep,
                        !.stopRenew = TRUE]
    OBVIOUS
  <2>2. t \in Txn /\ t.paid = Keep
    BY <2>1 DEF NoTxn, Txn, Keep, Same
  <2>3. Begin(s, ToCommit(t))
    BY <1>2, <2>1 DEF RemoveBillingKey
  <2> QED BY <2>2, <2>3, RenewalPlain DEF Keep
<1>3. ASSUME NEW u \in User, DeleteAccount(s, u)
      PROVE  RenewalInv'
  <2>1. PICK t : t = [NoTxn(u) EXCEPT !.leave = TRUE]
    OBVIOUS
  <2>2. PICK r : r = [t EXCEPT !.status = "cancelled", !.stopRenew = TRUE]
    OBVIOUS
  <2>3. /\ t \in Txn /\ t.paid = Keep
        /\ r \in Txn /\ r.paid = Keep
    BY <2>1, <2>2 DEF NoTxn, Txn, Keep, Same, SubStatus
  <2>4. Begin(s, ToCommit(t)) \/ Begin(s, ToCommit(r))
    BY <1>3, <2>1, <2>2 DEF DeleteAccount
  <2> QED BY <2>3, <2>4, RenewalPlain DEF Keep
<1>4. ASSUME NEW u \in User, NEW o \in Order, RegisterBillingKey(s, u, o)
      PROVE  RenewalInv'
  <2>1. PICK k, t : /\ k = [NoTxn(u) EXCEPT !.key = "set"]
                    /\ t = [Activate(u, o, "inactive") EXCEPT
                              !.insert = "initial", !.retries = 0]
    OBVIOUS
  <2>2. PICK rest : rest = IF sub[u].status = "active" THEN <<>>
                           ELSE ToCharge(u, o, "register") \o ToCommit(t)
    OBVIOUS
  <2>3. PICK p : p = ToCommit(k) \o rest
    OBVIOUS
  <2>4. Begin(s, Create(u) \o p)
    <3>1. Begin(s, Create(u) \o ToCommit(k) \o rest)
      BY <1>4, <2>1, <2>2 DEF RegisterBillingKey
    <3>2. ToCommit(k) \in Seq(Step) /\ rest \in Seq(Step) /\ Create(u) \in Seq(Step)
      <4>1. k \in Txn
        BY <2>1 DEF NoTxn, Txn, Keep, Same
      <4>2. t \in Txn
        BY <2>1, RegisteredType
      <4>3. ToCharge(u, o, "register") \o ToCommit(t) \in Seq(Step)
        BY <4>2, ChargeModest
      <4> QED BY <2>2, <4>1, <4>3, CommitList, CreateModest, NothingModest
    <3>3. (Create(u) \o ToCommit(k)) \o rest = Create(u) \o (ToCommit(k) \o rest)
      BY <3>2, ConcatAssociative
    <3> QED BY <2>3, <3>1, <3>3
  <2>5. k \in Txn /\ k.paid = Keep
    BY <2>1 DEF NoTxn, Txn, Keep, Same
  <2>6. Modest(rest) /\ rest \in Seq(Step)
    BY <2>1, <2>2, RegisteredType, ChargeModest, NothingModest
  <2>7. Modest(ToCommit(k)) /\ ToCommit(k) \in Seq(Step)
    BY <2>5, ModestCommit, CommitList DEF Keep
  <2>8. Modest(p) /\ p \in Seq(Step)
    BY <2>3, <2>6, <2>7, ModestJoin, ModestTells
  <2>9. PICK l : l = Create(u) \o p
    OBVIOUS
  <2>10. Modest(l) /\ l \in Seq(Step)
    BY <2>8, <2>9, CreateModest, ModestJoin, ModestTells
  <2> QED BY <2>4, <2>9, <2>10, RenewalBegins
<1>5. ASSUME NEW u \in User, NEW o \in Order, NEW k \in Kind,
             InitializePayment(s, u, o, k)
      PROVE  RenewalInv'
  <2>1. PICK t : t = Insert(u, o, k, "pending")
    OBVIOUS
  <2>2. t \in Txn /\ t.paid = "pending"
    BY <2>1, InsertType DEF PaymentStatus
  <2>3. Begin(s, Create(u) \o ToCommit(t))
    BY <1>5, <2>1 DEF InitializePayment
  <2>4. PICK l : l = Create(u) \o ToCommit(t)
    OBVIOUS
  <2>5. Modest(ToCommit(t)) /\ ToCommit(t) \in Seq(Step)
    BY <2>2, ModestCommit, CommitList
  <2>6. Modest(l) /\ l \in Seq(Step)
    BY <2>4, <2>5, CreateModest, ModestJoin, ModestTells
  <2> QED BY <2>3, <2>4, <2>6, RenewalBegins
<1>6. ASSUME NEW o \in Order, ConfirmPayment(s, o)
      PROVE  RenewalInv'
  <2>1. PICK u : u = payment[o].user
    OBVIOUS
  <2>2. PICK t : t = Activate(u, o, sub[u].status)
    OBVIOUS
  <2>3. PICK l : l = ToCharge(u, o, "confirm") \o ToCommit(t)
    OBVIOUS
  <2>4. payment[o] # NoPayment /\ Begin(s, l)
    BY <1>6, <2>1, <2>2, <2>3 DEF ConfirmPayment
  <2>5. u \in User
    BY <2>1, <2>4, PaymentTells
  <2>6. t \in Txn
    BY <2>2, <2>5, ActivateType
  <2>7. Modest(l) /\ l \in Seq(Step)
    BY <2>3, <2>5, <2>6, ChargeModest
  <2> QED BY <2>4, <2>7, RenewalBegins
<1>7. ASSUME NEW o \in Order, ConfirmBankTransfer(s, o)
      PROVE  RenewalInv'
  <2>1. PICK u : u = payment[o].user
    OBVIOUS
  <2>2. PICK t : t = Activate(u, o, sub[u].status)
    OBVIOUS
  <2>3. /\ payment[o] # NoPayment /\ ledger[o].charge = "deposit"
        /\ Begin(s, ToCommit(t))
    BY <1>7, <2>1, <2>2 DEF ConfirmBankTransfer
  <2>4. u \in User
    BY <2>1, <2>3, PaymentTells
  <2>5. t \in Txn /\ t.order = o
    BY <2>2, <2>4, ActivateType
  <2> QED BY <2>3, <2>5, RenewalPlain
<1>8. ASSUME NEW o \in Order, WebhookPaymentFailed(s, o)
      PROVE  RenewalInv'
  <2>1. PICK u : u = payment[o].user
    OBVIOUS
  <2>2. PICK t : t = PaymentFailure(u, o, payment[o])
    OBVIOUS
  <2>3. payment[o] # NoPayment /\ Begin(s, ToCommit(t))
    BY <1>8, <2>1, <2>2 DEF WebhookPaymentFailed
  <2>4. u \in User /\ payment[o].retries \in 0..SuspendAt
    BY <2>1, <2>3, PaymentTells
  <2>5. t \in Txn /\ t.paid # "completed"
    BY <2>2, <2>4, PaymentFailureType
  <2> QED BY <2>3, <2>5, RenewalPlain
<1>9. CASE UserRequest(s)
  BY <1>1, <1>2, <1>3, <1>4, <1>5, <1>6, <1>7, <1>9 DEF UserRequest, Cancel
<1>10. CASE Webhook(s)
  BY <1>1, <1>8, <1>10 DEF Webhook, WebhookKeyCancelled
<1> QED BY <1>9, <1>10

-----------------------------------------------------------------------------
(* Schedulers.                                                             *)

(* A scan sees who has not been renewed by it in this period.              *)
LEMMA RenewalScan ==
  ASSUME PaidInv, RenewalInv, NEW s, CheckRenewalsDue(s)
  PROVE  RenewalInv'
<1> DEFINE due == {[user |-> u, key |-> sub[u].key] : u \in Overdue}
<1>1. /\ s \in Session /\ s \in Worker
      /\ Become(s, [due |-> due, todo |-> <<>>])
      /\ UNCHANGED <<tables, month>> /\ UNCHANGED ledger
  <2>1. /\ s \in Worker /\ Become(s, [Idle EXCEPT !.due = due])
        /\ UNCHANGED <<tables, month>> /\ UNCHANGED ledger
    BY DEF CheckRenewalsDue
  <2>2. [Idle EXCEPT !.due = due] = [due |-> due, todo |-> <<>>]
    BY DEF Idle
  <2> QED BY <2>1, <2>2 DEF Session
<1>2. TypeOK /\ month \in Nat /\ DatedIsCaptured
  BY DEF PaidInv, TypeOK, RenewalInv
<1>3. \A u \in Overdue : /\ u \in User /\ sub[u].key \in BOOLEAN
                         /\ sub[u].next \in Nat /\ sub[u].next <= month
  BY <1>2 DEF Overdue, TypeOK, SubRow, NoSub
<1>4. due \in SUBSET Seen
  BY <1>3 DEF Seen
<1>5. /\ session'[s].todo = <<>> /\ session'[s].due = due
      /\ \A r \in Session \ {s} : session'[r] = session[r]
  BY <1>1, <1>2, <1>4, BecomeType, EmptySeq
<1>6. LedgerNow
  BY <1>1, <1>2 DEF LedgerNow, TypeOK
<1>7. \A d \in due : /\ RenewedBefore(s, d.user, month)
                     /\ \A e \in due : e.user = d.user => e = d
  <2>1. ASSUME NEW u \in Overdue
        PROVE  RenewedBefore(s, u, month)
    BY <1>1, <1>2, <1>3, RecordedIsCaptured DEF RenewalInv, RenewedBefore
  <2> QED BY <2>1
<1> HIDE DEF due
<1>8. DueOnce(s)'
  <2>1. \A d \in due : \A o \in Order :
          RenewalRecorded(d.user, o)' /\ ledger'[o].by = s =>
            ledger'[o].month < month'
    BY <1>1, <1>7 DEF RenewedBefore, RenewalRecorded, Dated, tables
  <2> QED BY <1>1, <1>5, <1>7, <2>1 DEF DueOnce, RenewedBefore
<1>9. RenewsRight(s)'
  BY <1>5, <1>8, NothingModest, ModestRenewsRight DEF Modest, CompletesFirst
<1> QED BY <1>1, <1>2, <1>5, <1>6, <1>9, RenewalDecides

(* The steps of a renewal.                                                 *)
LEMMA RenewalTells ==
  ASSUME NEW u \in User, NEW o \in Order, NEW t, t = Renewal(u, o)
  PROVE  /\ t \in Txn /\ t.user = u /\ t.order = o
         /\ t.insert = "renewal" /\ t.paid = "completed"
<1>1. t.insert = "renewal" /\ t.paid = "completed"
  BY DEF Renewal, Insert, NoTxn
<1> QED BY <1>1, RenewalType

LEMMA RenewalExtends ==
  ASSUME NEW u, NEW o
  PROVE  ~Renewal(u, o).create /\ Renewal(u, o).extend
BY DEF Renewal, Insert, NoTxn

(* A worker turns to the next subscription it has seen.                    *)
LEMMA RenewalTurns ==
  ASSUME PaidInv, RenewalInv, NEW s \in Worker, NEW d \in session[s].due,
         NEW o \in Order, ProcessAutoRenewal(s, d, o)
  PROVE  RenewalInv'
<1>1. PICK u, due : u = d.user /\ due = session[s].due \ {d}
  OBVIOUS
<1>2. /\ s \in Session /\ session[s] \in SessionState /\ TypeOK
      /\ UNCHANGED <<tables, month>> /\ UNCHANGED ledger /\ month \in Nat
  BY DEF Session, PaidInv, TypeOK, ProcessAutoRenewal
<1>3. u \in User /\ due \in SUBSET Seen
  BY <1>1, <1>2 DEF SessionState, Seen
<1>4. LedgerNow
  BY <1>2 DEF LedgerNow, TypeOK
<1>5. /\ RenewedBefore(s, u, month)
      /\ \A e \in due : /\ e.user # u /\ RenewedBefore(s, e.user, month)
                        /\ \A k \in due : k.user = e.user => k = e
  BY <1>1, <1>2 DEF RenewalInv, RenewsRight, DueOnce
<1>6. ASSUME NEW v, RenewedBefore(s, v, month)
      PROVE  \A q \in Order : RenewalRecorded(v, q)' /\ ledger'[q].by = s =>
               ledger'[q].month < month'
  BY <1>2, <1>6 DEF RenewedBefore, RenewalRecorded, Dated, tables
<1>7. ASSUME session'[s].due = due
      PROVE  DueOnce(s)'
  BY <1>5, <1>6, <1>7 DEF DueOnce, RenewedBefore
<1>8. CASE d.key
  <2>1. PICK t : t = Renewal(u, o)
    OBVIOUS
  <2>2. PICK l : l = ToCharge(u, o, "renewal") \o ToCommit(t)
    OBVIOUS
  <2>3. Become(s, [due |-> due, todo |-> l])
    BY <1>1, <1>8, <2>1, <2>2 DEF ProcessAutoRenewal
  <2>4. l \in Seq(Step) /\ l # <<>> /\ l[1].do = "charge"
    <3>1. t \in Txn /\ "renewal" \in Charge \ {"deposit"}
      BY <1>3, <2>1, RenewalTells DEF Charge
    <3>2. ChargesAndCommits(l, u, o, "renewal", t)
      BY <1>3, <2>2, <3>1, ChargeAndCommit
    <3>3. l \in Seq(Step) /\ Len(l) = 2 /\ l[1].do = "charge"
      BY <3>2 DEF ChargesAndCommits
    <3>4. l = <<>> => Len(l) = Len(<<>>)
      OBVIOUS
    <3> QED BY <3>3, <3>4, EmptySeq
  <2>5. /\ session'[s].todo = l /\ session'[s].due = due
        /\ \A r \in Session \ {s} : session'[r] = session[r]
    BY <1>2, <1>3, <2>3, <2>4, BecomeType
  <2>6. Renewing(s, u, o)'
    <3>1. RenewedBefore(s, u, month)'
      BY <1>5, <1>6 DEF RenewedBefore
    <3> QED BY <1>5, <2>1, <2>2, <2>5, <3>1 DEF Renewing
  <2>7. \A q \in Order : ~ToRecord(s, q)'
    BY <2>4, <2>5, TailOf DEF ToRecord, Doing
  <2>8. RenewsRight(s)'
    BY <1>3, <1>7, <2>5, <2>6, <2>7 DEF RenewsRight
  <2> QED BY <1>2, <1>4, <2>5, <2>8, RenewalDecides
<1>9. CASE ~d.key
  <2>1. PICK t : t = Expiry(u)
    OBVIOUS
  <2>2. PICK l : l = ToCommit(t)
    OBVIOUS
  <2>3. t \in Txn /\ t.paid = Keep
    BY <1>3, <2>1, ExpiryType
  <2>4. Modest(l) /\ l \in Seq(Step)
    BY <2>2, <2>3, ModestCommit, CommitList DEF Keep
  <2>5. Become(s, [due |-> due, todo |-> l])
    BY <1>1, <1>9, <2>1, <2>2 DEF ProcessAutoRenewal
  <2>6. /\ session'[s].todo = l /\ session'[s].due = due
        /\ \A r \in Session \ {s} : session'[r] = session[r]
    BY <1>2, <1>3, <2>4, <2>5, BecomeType
  <2>7. RenewsRight(s)'
    BY <1>2, <1>7, <2>4, <2>6, ModestRenewsRight DEF Modest
  <2> QED BY <1>2, <1>4, <2>6, <2>7, RenewalDecides
<1> QED BY <1>8, <1>9

(* A renewal that is under way, by its next step.                          *)
Charging(s, u, o) ==
  /\ ChargesAndCommits(session[s].todo, u, o, "renewal", Renewal(u, o))
  /\ RenewedBefore(s, u, month)
Recording(s, u, o) ==
  /\ Len(session[s].todo) = 1
  /\ session[s].todo[1].do = "commit" /\ session[s].todo[1].txn = Renewal(u, o)
  /\ session[s].todo = ToCommit(Renewal(u, o))
  /\ ledger[o].by = s /\ RenewedBefore(s, u, ledger[o].month)

LEMMA RenewalFirst ==
  ASSUME NEW s, NEW u \in User, NEW o \in Order, Renewing(s, u, o)
  PROVE  Charging(s, u, o) \/ Recording(s, u, o)
<1>1. PICK l, t : l = session[s].todo /\ t = Renewal(u, o)
  OBVIOUS
<1>2. t \in Txn /\ "renewal" \in Charge \ {"deposit"}
  BY <1>1, RenewalTells DEF Charge
<1>3. /\ ChargesAndCommits(ToCharge(u, o, "renewal") \o ToCommit(t),
                           u, o, "renewal", t)
      /\ Len(ToCommit(t)) = 1 /\ ToCommit(t)[1].do = "commit"
      /\ ToCommit(t)[1].txn = t
  BY <1>2, ChargeAndCommit, CommitList
<1>4. \/ l = ToCharge(u, o, "renewal") \o ToCommit(t) /\ RenewedBefore(s, u, month)
      \/ /\ l = ToCommit(t) /\ ledger[o].by = s
         /\ RenewedBefore(s, u, ledger[o].month)
  BY <1>1 DEF Renewing
<1> QED BY <1>1, <1>3, <1>4 DEF Charging, Recording

(* Nothing is charged for a renewal behind a step that is no such charge.  *)
LEMMA NoRenewalBehind ==
  ASSUME PaidInv, NEW s \in Session, RenewsRight(s),
         NEW l, l = session[s].todo, l # <<>>, ~ChargesRenewal(l[1])
  PROVE  NoRenewal(Tail(l))
<1>1. l \in Seq(Step)
  BY DEF PaidInv, TypeOK, SessionState, Step
<1>2. ASSUME NEW i \in 1..Len(l)
      PROVE  ~ChargesRenewal(l[i])
  <2> SUFFICES ASSUME ChargesRenewal(l[i])
               PROVE  FALSE
    OBVIOUS
  <2>1. PICK u \in User, o \in Order : Renewing(s, u, o)
    BY DEF RenewsRight
  <2>2. CASE Charging(s, u, o)
    BY <2>2 DEF Charging, ChargesAndCommits, ChargesRenewal
  <2>3. CASE Recording(s, u, o)
    <3>1. Len(l) = 1 /\ l[1].do = "commit"
      BY <2>3 DEF Recording
    <3>2. i = 1
      BY <3>1
    <3> QED BY <3>1, <3>2 DEF ChargesRenewal
  <2> QED BY <2>1, <2>2, <2>3, RenewalFirst
<1>3. \A i \in 1..Len(Tail(l)) : i + 1 \in 1..Len(l) /\ Tail(l)[i] = l[i + 1]
  BY <1>1, TailOf
<1> QED BY <1>2, <1>3 DEF NoRenewal

-----------------------------------------------------------------------------
(* TossPayments.                                                           *)

(* What a session has still to renew stays as it is.                       *)
LEMMA DueStays ==
  ASSUME PaidInv, DatedIsCaptured, LedgerNow, month' \in Nat, month <= month',
         NEW s \in Session, session'[s].due = session[s].due, DueOnce(s),
         \A d \in session[s].due : \A o \in Order :
           RenewalRecorded(d.user, o)' /\ ledger'[o].by = s =>
             RenewalRecorded(d.user, o)
  PROVE  DueOnce(s)'
<1> SUFFICES ASSUME NEW d \in session[s].due
             PROVE  /\ s \in Worker
                    /\ \A o \in Order :
                         RenewalRecorded(d.user, o)' /\ ledger'[o].by = s =>
                           ledger'[o].month < month'
                    /\ \A e \in session[s].due : e.user = d.user => e = d
  BY DEF DueOnce, RenewedBefore
<1>1. /\ s \in Worker /\ RenewedBefore(s, d.user, month)
      /\ \A e \in session[s].due : e.user = d.user => e = d
  BY DEF DueOnce
<1>2. \A o \in Order : RenewalRecorded(d.user, o)' /\ ledger'[o].by = s =>
        RenewalRecorded(d.user, o)
  OBVIOUS
<1>3. month \in Nat
  BY DEF PaidInv, TypeOK
<1> QED BY <1>1, <1>2, <1>3, BeforeStays

LEMMA RefusalModest ==
  ASSUME NEW c \in ChargeStep
  PROVE  Modest(AfterRefusal(c)) /\ AfterRefusal(c) \in Seq(Step)
<1>1. PICK t : t = Insert(c.user, c.order, "renewal", "failed")
  OBVIOUS
<1>2. PICK read : read = [status |-> "failed", retries |-> 0]
  OBVIOUS
<1>3. PICK f : f = PaymentFailure(c.user, c.order, read)
  OBVIOUS
<1>4. c.user \in User /\ c.order \in Order
  BY DEF ChargeStep
<1>5. AfterRefusal(c) = <<>> \/ AfterRefusal(c) = ToCommit(t) \o ToCommit(f)
  BY <1>1, <1>2, <1>3 DEF AfterRefusal
<1>6. t \in Txn /\ t.paid = "failed"
  BY <1>1, <1>4, InsertType DEF Kind, PaymentStatus
<1>7. f \in Txn /\ f.paid # "completed"
  <2>1. read.retries \in 0..SuspendAt
    BY <1>2, RetryType
  <2> QED BY <1>3, <1>4, <2>1, PaymentFailureType
<1>8. /\ Modest(ToCommit(t)) /\ ToCommit(t) \in Seq(Step) /\ ToCommit(t) # <<>>
      /\ Modest(ToCommit(f)) /\ ToCommit(f) \in Seq(Step)
  BY <1>6, <1>7, ModestCommit, CommitList, EmptySeq
<1>9. PICK p, q : p = ToCommit(t) /\ q = ToCommit(f)
  OBVIOUS
<1>10. Modest(p \o q) /\ p \o q \in Seq(Step)
  BY <1>8, <1>9, ModestTells, ModestJoin
<1> QED BY <1>5, <1>9, <1>10, NothingModest

LEMMA RenewalCharges ==
  ASSUME PaidInv, RenewalInv, NEW s \in Session, ChargeCard(s)
  PROVE  RenewalInv'
<1>1. PICK l : l = session[s].todo
  OBVIOUS
<1>2. PICK c : c = Head(l)
  OBVIOUS
<1>3. /\ TypeOK /\ month \in Nat /\ month <= month
      /\ UNCHANGED <<tables, month>> /\ UNCHANGED tables /\ month' = month
      /\ l \in Seq(Step) /\ l # <<>> /\ c.do = "charge" /\ Ready(l)
      /\ RenewsRight(s) /\ DatedIsCaptured
  BY <1>1, <1>2
     DEF PaidInv, TypeOK, SessionState, Step, ChargeCard, Doing, RenewalInv
<1>4. c = l[1] /\ 1 \in 1..Len(l) /\ c \in ChargeStep
  BY <1>2, <1>3, TailOf DEF Step, CommitStep
<1>5. c.user \in User /\ c.order \in Order /\ c.charge \in Charge
  BY <1>4 DEF ChargeStep
<1>6. PICK r : r = Receipt(s, c)
  OBVIOUS
<1>7. /\ r \in Capture /\ r # Uncaptured /\ r.month = month
      /\ r.charge = c.charge
      /\ c.charge = "renewal" => r.by = s
  <2>1. r.month = month /\ r.charge = c.charge /\ (c.charge = "renewal" => r.by = s)
    BY <1>6 DEF Receipt
  <2> QED BY <1>3, <1>5, <1>6, <2>1, ReceiptType
<1>8. TakeMoney(s, c) =>
        ledger' = [ledger EXCEPT ![c.order] = r] /\ ledger[c.order] = Uncaptured
  BY <1>6 DEF TakeMoney, Captured, Receipt
<1>9. ledger \in [Order -> Capture \cup {Uncaptured}]
  BY <1>3 DEF TypeOK
<1>10. TakeMoney(s, c) \/ UNCHANGED ledger => LedgerNow
  BY <1>5, <1>7, <1>8, <1>9 DEF LedgerNow
<1>11. ASSUME NEW steps \in Seq(Step), Continue(s, steps), LedgerNow
       PROVE  /\ session'[s].todo = steps /\ DueOnce(s)'
              /\ session'[s].due = session[s].due
              /\ \A q \in Session \ {s} : session'[q] = session[q]
  <2>1. /\ session'[s].todo = steps /\ session'[s].due = session[s].due
        /\ \A q \in Session \ {s} : session'[q] = session[q]
    BY <1>3, <1>11, ContinueType
  <2>2. \A u \in User, o \in Order : RenewalRecorded(u, o)' => RenewalRecorded(u, o)
    BY <1>3, <1>11, TablesRest
  <2>3. \A d \in session[s].due : d.user \in User
    BY <1>3 DEF TypeOK, SessionState, Seen
  <2>4. DueOnce(s)'
    BY <1>3, <1>11, <2>1, <2>2, <2>3, DueStays DEF RenewsRight
  <2> QED BY <2>1, <2>4
<1>12. ASSUME NEW steps \in Seq(Step), Continue(s, steps), LedgerNow,
              NoRenewal(steps),
              CompletesFirst(steps) => ledger'[steps[1].txn.order].charge # "renewal"
       PROVE  RenewalInv'
  <2>1. RenewsRight(s)'
    BY <1>11, <1>12, ModestRenewsRight
  <2> QED BY <1>3, <1>11, <1>12, <2>1, RenewalDecides
<1>13. CASE TakeMoney(s, c) /\ Continue(s, Tail(l))
  <2>1. PICK m : m = Tail(l)
    OBVIOUS
  <2>2. m \in Seq(Step) /\ LedgerNow /\ ledger'[c.order] = r
    BY <1>3, <1>5, <1>8, <1>9, <1>10, <1>13, <2>1, TailOf
  <2>3. CASE c.charge # "renewal"
    <3>1. ~ChargesRenewal(l[1])
      BY <1>4, <2>3 DEF ChargesRenewal
    <3>2. NoRenewal(m)
      BY <1>1, <1>3, <2>1, <3>1, NoRenewalBehind
    <3>3. ASSUME CompletesFirst(m)
          PROVE  ledger'[m[1].txn.order].charge # "renewal"
      <4>1. Charges(l[1], m[1].txn.order)
        BY <1>3, <2>1, <3>3, TailCompletes
      <4>2. m[1].txn.order = c.order
        BY <1>4, <4>1 DEF Charges
      <4> QED BY <1>7, <2>2, <2>3, <4>2
    <3> QED BY <1>12, <1>13, <2>1, <2>2, <3>2, <3>3
  <2>4. CASE c.charge = "renewal"
    <3>1. PICK u \in User, o \in Order : Renewing(s, u, o)
      <4>1. ChargesRenewal(l[1])
        BY <1>3, <1>4, <2>4 DEF ChargesRenewal
      <4> QED BY <1>1, <1>3, <1>4, <4>1 DEF RenewsRight
    <3>2. Charging(s, u, o)
      <4>1. Recording(s, u, o) => l[1].do = "commit"
        BY <1>1 DEF Recording
      <4> QED BY <1>3, <1>4, <3>1, <4>1, RenewalFirst
    <3>3. PICK t : t = Renewal(u, o)
      OBVIOUS
    <3>4. t \in Txn /\ t.order = o
      BY <3>3, RenewalTells
    <3>5. m = ToCommit(t) /\ c.order = o /\ RenewedBefore(s, u, month)
      BY <1>1, <1>4, <2>1, <3>2, <3>3 DEF Charging, ChargesAndCommits
    <3>6. /\ session'[s].todo = m /\ DueOnce(s)' /\ session'[s].due = session[s].due
          /\ \A q \in Session \ {s} : session'[q] = session[q]
      BY <1>11, <1>13, <2>1, <2>2
    <3>7. RenewedBefore(s, u, ledger[o].month)'
      <4>1. \A q \in Order : RenewalRecorded(u, q)' =>
              RenewalRecorded(u, q) /\ ledger'[q] = ledger[q]
        BY <1>3, <2>2, TablesRest
      <4>2. ledger'[o].month = month
        BY <1>7, <2>2, <3>5
      <4> QED BY <3>5, <4>1, <4>2 DEF RenewedBefore
    <3>8. Renewing(s, u, o)'
      <4>1. Captured(o)' /\ ledger'[o].by = s
        BY <1>7, <2>2, <2>4, <3>5 DEF Captured
      <4>2. session'[s].todo = ToCommit(Renewal(u, o))
        BY <3>3, <3>5, <3>6
      <4> QED BY <3>1, <3>6, <3>7, <4>1, <4>2 DEF Renewing
    <3>9. Len(m) = 1 /\ m[1].do = "commit" /\ m[1].txn = t
      BY <3>4, <3>5, CommitList
    <3>10. \A i \in 1..Len(m) : ~ChargesRenewal(m[i])
      <4>1. \A i \in 1..1 : i = 1
        OBVIOUS
      <4> QED BY <3>9, <4>1 DEF ChargesRenewal
    <3>11. \A q \in Order : ToRecord(s, q)' => q = o
      <4>1. m # <<>> => Head(m) = m[1]
        BY <2>2, TailOf
      <4> QED BY <3>4, <3>6, <3>9, <4>1 DEF ToRecord, Doing
    <3>12. RenewsRight(s)'
      BY <3>6, <3>8, <3>10, <3>11 DEF RenewsRight, ChargesRenewal
    <3> QED BY <1>3, <2>2, <3>6, <3>12, RenewalDecides
  <2> QED BY <2>3, <2>4
<1>14. CASE UNCHANGED ledger /\ Continue(s, AfterRefusal(c))
  <2>1. PICK m : m = AfterRefusal(c)
    OBVIOUS
  <2>2. m \in Seq(Step) /\ Modest(m)
    BY <1>4, <2>1, RefusalModest
  <2>3. /\ NoRenewal(m)
        /\ CompletesFirst(m) => ledger'[m[1].txn.order].charge # "renewal"
    BY <1>14, <2>2 DEF Modest
  <2> QED BY <1>10, <1>12, <1>14, <2>1, <2>2, <2>3
<1>15. CASE (TakeMoney(s, c) \/ UNCHANGED ledger) /\ Continue(s, <<>>)
  <2>1. <<>> \in Seq(Step) /\ NoRenewal(<<>>) /\ ~CompletesFirst(<<>>)
    BY NothingModest DEF Modest, CompletesFirst
  <2> QED BY <1>10, <1>12, <1>15, <2>1
<1>16. \/ TakeMoney(s, c) /\ Continue(s, Tail(l))
       \/ UNCHANGED ledger /\ Continue(s, AfterRefusal(c))
       \/ (TakeMoney(s, c) \/ UNCHANGED ledger) /\ Continue(s, <<>>)
  BY <1>1, <1>2 DEF ChargeCard
<1> QED BY <1>13, <1>14, <1>15, <1>16
-----------------------------------------------------------------------------
(* COMMIT.                                                                 *)

(* What a transaction that is not refused does to the tables.              *)
Stored(t) ==
  /\ sub' = [sub EXCEPT ![t.user] = ApplySub(sub[t.user], t)]
  /\ payment' = IF t.order = NoOrder THEN payment
                ELSE [payment EXCEPT ![t.order] =
                        ApplyPayment(payment[t.order], t)]
  /\ UNCHANGED <<ledger, month>>

LEMMA CommitTells ==
  ASSUME PaidInv, NEW s \in Session, Commit(s),
         NEW l, l = session[s].todo, NEW t, t = Head(l).txn
  PROVE  /\ l \in Seq(Step) /\ l # <<>> /\ 1 \in 1..Len(l)
         /\ l[1].do = "commit" /\ l[1].txn = t /\ t \in Txn /\ Sound(t)
         /\ t.user \in User /\ t.order \in Order \cup {NoOrder}
         /\ t.order # NoOrder /\ t.insert = Keep => payment[t.order] # NoPayment
         /\ t.paid = "completed" => t.order \in Order /\ Captured(t.order)
<1>1. /\ l \in Seq(Step) /\ Ready(l) /\ l # <<>> /\ Head(l).do = "commit"
  BY DEF PaidInv, TypeOK, SessionState, Step, Commit, Doing
<1>2. /\ l[1].do = "commit" /\ l[1].txn = t /\ 1 \in 1..Len(l) /\ t \in Txn
  BY <1>1, TailOf DEF Step, CommitStep, ChargeStep
<1>3. t.user \in User /\ t.order \in Order \cup {NoOrder}
  BY <1>2 DEF Txn
<1>4. /\ Sound(t)
      /\ t.order # NoOrder /\ t.insert = Keep => payment[t.order] # NoPayment
      /\ t.paid = "completed" => Captured(t.order)
  BY <1>1, <1>2 DEF Ready
<1>5. t.paid = "completed" => t.order \in Order
  BY <1>3, <1>4 DEF Sound, Keep
<1> QED BY <1>1, <1>2, <1>3, <1>4, <1>5

(* Only a transaction that completes a payment dates it.                   *)
LEMMA StoredDated ==
  ASSUME PaidInv, NEW t \in Txn, Sound(t), Stored(t),
         t.order # NoOrder /\ t.insert = Keep => payment[t.order] # NoPayment,
         NEW o \in Order, Dated(o)'
  PROVE  Dated(o) \/ (t.order = o /\ t.paid = "completed")
<1>1. payment \in [Order -> PaymentRow \cup {NoPayment}]
  BY DEF PaidInv, TypeOK
<1>2. t.order \in Order \cup {NoOrder}
  BY DEF Txn
<1>3. CASE t.order # o
  BY <1>1, <1>2, <1>3 DEF Stored, Dated
<1>4. CASE t.order = o
  <2>1. payment'[o] = ApplyPayment(payment[o], t)
    BY <1>1, <1>4, SubscriptionAssumption DEF Stored
  <2>2. CASE t.insert # Keep
    <3>1. payment'[o].dated = (t.paid = "completed")
      BY <2>1, <2>2 DEF ApplyPayment
    <3> QED BY <1>4, <3>1 DEF Dated
  <2>3. CASE t.insert = Keep
    <3>1. payment[o] # NoPayment /\ payment[o] \in PaymentRow
      BY <1>1, <1>4, <2>3, SubscriptionAssumption
    <3>2. payment'[o].dated = (payment[o].dated \/ t.paid = "completed")
      BY <2>1, <2>3, <3>1 DEF ApplyPayment, PaymentRow
    <3> QED BY <1>4, <3>1, <3>2 DEF Dated
  <2> QED BY <2>2, <2>3
<1> QED BY <1>3, <1>4

(* A renewal is recorded by the scheduler it was captured for.             *)
Records(s, u, o, l, t) ==
  /\ s \in Worker /\ Len(l) = 1
  /\ t.user = u /\ t.order = o /\ t.extend /\ ~t.create
  /\ Captured(o) /\ ledger[o].by = s
  /\ RenewedBefore(s, u, ledger[o].month)
  /\ \A d \in session[s].due : d.user # u

LEMMA StoredRenewal ==
  ASSUME PaidInv, RenewalInv, NEW s \in Session, Commit(s),
         NEW l, l = session[s].todo, NEW t, t = Head(l).txn, Stored(t),
         NEW u \in User, NEW o \in Order, RenewalRecorded(u, o)'
  PROVE  RenewalRecorded(u, o) \/ Records(s, u, o, l, t)
<1> SUFFICES ASSUME ~RenewalRecorded(u, o)
             PROVE  Records(s, u, o, l, t)
  OBVIOUS
<1>1. /\ l \in Seq(Step) /\ l # <<>> /\ 1 \in 1..Len(l)
      /\ l[1].do = "commit" /\ l[1].txn = t /\ t \in Txn /\ Sound(t)
      /\ t.order # NoOrder /\ t.insert = Keep => payment[t.order] # NoPayment
      /\ t.paid = "completed" => t.order \in Order /\ Captured(t.order)
  BY CommitTells
<1>2. ledger' = ledger
  BY DEF Stored
<1>3. Dated(o)' /\ ~Dated(o) /\ ledger[o].charge = "renewal" /\ ledger[o].user = u
  BY <1>2 DEF RenewalRecorded
<1>4. t.order = o /\ t.paid = "completed" /\ Captured(o)
  BY <1>1, <1>3, StoredDated
<1>5. ToRecord(s, o)
  <2>1. Doing(s, "commit")
    BY DEF Commit
  <2> QED BY <1>4, <2>1 DEF ToRecord
<1>6. PICK v \in User : Renewing(s, v, o)
  BY <1>3, <1>5 DEF RenewalInv, RenewsRight
<1>7. Recording(s, v, o)
  <2>1. Charging(s, v, o) => l[1].do = "charge"
    BY DEF Charging, ChargesAndCommits
  <2> QED BY <1>1, <1>6, <2>1, RenewalFirst
<1>8. PICK r : r = Renewal(v, o)
  OBVIOUS
<1>9. Len(l) = 1 /\ t = r /\ ledger[o].by = s /\ RenewedBefore(s, v, ledger[o].month)
  BY <1>1, <1>7, <1>8 DEF Recording
<1>10. r.user = v /\ ~r.create /\ r.extend
  BY <1>8, RenewalTells, RenewalExtends
<1>11. v = u
  <2>1. PICK owner : OwnedBy(owner)
    BY DEF PaidInv, Owned
  <2>2. ledger[o].user = owner[o]
    BY <1>4, <2>1 DEF OwnedBy
  <2>3. OrderOf(l[1]) = o /\ UserOf(l[1]) = v
    BY <1>1, <1>4, <1>9, <1>10 DEF OrderOf, UserOf
  <2>4. UserOf(l[1]) = owner[o]
    BY <1>1, <2>1, <2>3 DEF OwnedBy
  <2> QED BY <1>3, <2>2, <2>3, <2>4
<1>12. s \in Worker /\ \A d \in session[s].due : d.user # v
  BY <1>6 DEF Renewing
<1> QED BY <1>4, <1>9, <1>10, <1>11, <1>12 DEF Records

LEMMA RenewalCommits ==
  ASSUME PaidInv, RenewalInv, NEW s \in Session, Commit(s)
  PROVE  RenewalInv'
<1>1. PICK l : l = session[s].todo
  OBVIOUS
<1>2. PICK t : t = Head(l).txn
  OBVIOUS
<1>3. /\ l \in Seq(Step) /\ l # <<>> /\ 1 \in 1..Len(l) /\ Ready(l)
      /\ l[1].do = "commit" /\ l[1].txn = t /\ t \in Txn /\ Sound(t)
      /\ t.user \in User /\ t.order \in Order \cup {NoOrder}
      /\ t.order # NoOrder /\ t.insert = Keep => payment[t.order] # NoPayment
      /\ t.paid = "completed" => t.order \in Order /\ Captured(t.order)
  BY <1>1, <1>2, CommitTells DEF PaidInv
<1>4. /\ TypeOK /\ UNCHANGED <<ledger, month>> /\ LedgerNow
      /\ month \in Nat /\ month <= month /\ month' = month
      /\ sub \in [User -> SubRow \cup {NoSub}]
      /\ payment \in [Order -> PaymentRow \cup {NoPayment}]
      /\ DatedIsCaptured /\ RenewsRight(s)
  BY DEF PaidInv, TypeOK, Commit, LedgerNow, RenewalInv
<1>5. CASE t.create /\ sub[t.user] # NoSub
  <2>1. Become(s, [due |-> {}, todo |-> <<>>]) /\ UNCHANGED tables
    BY <1>1, <1>2, <1>5 DEF Commit, Idle
  <2>2. /\ session'[s].todo = <<>> /\ session'[s].due = {}
        /\ \A r \in Session \ {s} : session'[r] = session[r]
    BY <1>4, <2>1, BecomeType, EmptySeq
  <2>3. DueOnce(s)'
    BY <2>2 DEF DueOnce
  <2>4. RenewsRight(s)'
    BY <2>2, <2>3, NothingModest, ModestRenewsRight DEF Modest, CompletesFirst
  <2> QED BY <1>4, <2>1, <2>2, <2>4, RenewalDecides
<1>6. CASE ~(t.create /\ sub[t.user] # NoSub)
  <2>1. Stored(t) /\ Continue(s, Tail(l))
    BY <1>1, <1>2, <1>4, <1>6 DEF Commit, Stored
  <2>2. PICK m : m = Tail(l)
    OBVIOUS
  <2>3. m \in Seq(Step)
    BY <1>3, <2>2, TailOf
  <2>4. /\ session'[s].todo = m /\ session'[s].due = session[s].due
        /\ \A r \in Session \ {s} : session'[r] = session[r]
    BY <1>4, <2>1, <2>2, <2>3, ContinueType
  <2>5. ASSUME NEW u \in User, NEW o \in Order, RenewalRecorded(u, o)'
        PROVE  RenewalRecorded(u, o) \/ Records(s, u, o, l, t)
    BY <1>1, <1>2, <2>1, <2>5, StoredRenewal
  <2>6. DatedIsCaptured'
    <3> SUFFICES ASSUME NEW o \in Order, Dated(o)'
                 PROVE  Captured(o)'
      BY DEF DatedIsCaptured
    <3>1. Captured(o)
      BY <1>3, <1>4, <2>1, StoredDated DEF DatedIsCaptured
    <3> QED BY <1>4, <3>1 DEF Captured
  <2>7. ASSUME NEW u \in User
        PROVE  /\ sub'[u].next \in {0, month + 1, sub[u].next}
               /\ sub'[u].next = 0 => sub[u].next = 0
               /\ u = t.user /\ t.extend /\ ~t.create =>
                    sub'[u].next = month + 1
    <3>1. CASE u # t.user
      BY <1>4, <2>1, <3>1 DEF Stored
    <3>2. CASE u = t.user
      <4>1. sub'[u] = ApplySub(sub[u], t)
        BY <1>4, <2>1, <3>2 DEF Stored
      <4>2. t.create => sub[u] = NoSub
        BY <1>6, <3>2
      <4>3. sub[u].next \in Nat
        BY <1>4 DEF SubRow, NoSub
      <4> QED BY <1>4, <4>1, <4>2, <4>3 DEF ApplySub, NoSub
    <3> QED BY <3>1, <3>2
  <2>8. InTime'
    <3>1. \A u \in User : sub'[u].next <= month + 1
      BY <1>4, <2>7 DEF RenewalInv, InTime
    <3> QED BY <1>4, <3>1 DEF RenewalInv, InTime, Captured
  <2>9. ASSUME NEW r \in Session, NEW u \in User, NEW o \in Order,
               RenewalRecorded(u, o)', ledger[o].by = r
        PROVE  ledger[o].month < sub'[u].next
    <3>1. CASE RenewalRecorded(u, o)
      <4>1. Captured(o) /\ ledger[o].month \in Nat /\ ledger[o].month <= month
        BY <1>4, <3>1, RecordedIsCaptured DEF RenewalInv, InTime
      <4>2. ledger[o].month < sub[u].next
        BY <2>9, <3>1 DEF RenewalInv, RenewedBefore
      <4>3. sub[u].next # 0
        BY <4>1, <4>2
      <4> QED BY <1>4, <2>7, <4>1, <4>2, <4>3
    <3>2. CASE Records(s, u, o, l, t)
      <4>1. sub'[u].next = month + 1 /\ Captured(o)
        BY <2>7, <3>2 DEF Records
      <4>2. ledger[o].month \in Nat /\ ledger[o].month <= month
        BY <4>1, CapturedMonth DEF RenewalInv, InTime
      <4> QED BY <1>4, <4>1, <4>2
    <3> QED BY <2>5, <2>9, <3>1, <3>2
  <2>10. \A r \in Session, u \in User : RenewedBefore(r, u, sub[u].next)'
    BY <1>4, <2>9 DEF RenewedBefore
  <2>11. RenewalRecordedOnce'
    <3> SUFFICES ASSUME NEW u \in User, NEW o \in Order, NEW q \in Order,
                        RenewalRecorded(u, o)', RenewalRecorded(u, q)', o # q,
                        ledger[o].by = ledger[q].by
                 PROVE  ledger[o].month # ledger[q].month
      BY <1>4 DEF RenewalRecordedOnce
    <3>1. ASSUME NEW x \in Order, NEW y \in Order, x # y,
                 ledger[x].by = ledger[y].by,
                 RenewalRecorded(u, y)', ~RenewalRecorded(u, x),
                 RenewalRecorded(u, x)'
          PROVE  ledger[x].month # ledger[y].month
      <4>1. Records(s, u, x, l, t)
        BY <2>5, <3>1
      <4>2. /\ t.order = x /\ ledger[x].by = s /\ Captured(x)
            /\ RenewedBefore(s, u, ledger[x].month)
        BY <4>1 DEF Records
      <4>3. RenewalRecorded(u, y)
        <5>1. ~Records(s, u, y, l, t)
          BY <3>1, <4>2 DEF Records
        <5> QED BY <2>5, <3>1, <5>1
      <4>4. ledger[y].month < ledger[x].month
        BY <3>1, <4>2, <4>3 DEF RenewedBefore
      <4>5. ledger[y].month \in Nat
        BY <1>4, <4>3, RecordedIsCaptured
      <4>6. ledger[x].month \in Nat
        BY <4>2, CapturedMonth
      <4> QED BY <4>4, <4>5, <4>6
    <3>2. CASE RenewalRecorded(u, o) /\ RenewalRecorded(u, q)
      BY <3>2 DEF RenewalInv, RenewalRecordedOnce
    <3> QED BY <3>1, <3>2
  <2>12. ASSUME NEW r \in Session, r # s
         PROVE  RenewsRight(r)'
    <3>1. RenewsRight(r) /\ session'[r] = session[r]
      BY <2>4, <2>12 DEF RenewalInv
    <3>2. ASSUME NEW u \in User, NEW o \in Order, RenewalRecorded(u, o)',
                 ledger'[o].by = r
          PROVE  RenewalRecorded(u, o)
      <4>1. Records(s, u, o, l, t) => ledger[o].by = s
        BY DEF Records
      <4> QED BY <1>4, <2>5, <2>12, <3>2, <4>1
    <3> QED BY <1>4, <3>1, <3>2, RestRenewsRight
  <2>13. RenewsRight(s)'
    <3>1. ASSUME NEW d \in session[s].due, NEW o \in Order,
                 RenewalRecorded(d.user, o)'
          PROVE  RenewalRecorded(d.user, o)
      <4>1. d.user \in User
        BY <1>4 DEF TypeOK, SessionState, Seen
      <4>2. ~Records(s, d.user, o, l, t)
        BY DEF Records
      <4> QED BY <2>5, <3>1, <4>1, <4>2
    <3>2. DueOnce(s)
      BY <1>4 DEF RenewsRight
    <3>3. DueOnce(s)'
      BY <1>4, <2>4, <3>1, <3>2, DueStays
    <3>4. NoRenewal(m)
      <4>1. ~ChargesRenewal(l[1])
        BY <1>3 DEF ChargesRenewal
      <4> QED BY <1>1, <1>3, <1>4, <2>2, <4>1, NoRenewalBehind
    <3>5. ~CompletesFirst(m)
      BY <1>3, <2>2, TailCompletes DEF Charges
    <3> QED BY <2>3, <2>4, <3>3, <3>4, <3>5, ModestRenewsRight
  <2>14. \A r \in Session : RenewsRight(r)'
    BY <2>12, <2>13
  <2> QED BY <2>6, <2>8, <2>10, <2>11, <2>14 DEF RenewalInv
<1> QED BY <1>5, <1>6

-----------------------------------------------------------------------------
(* Renewals, everything together.                                          *)

LEMMA InitRenewal == Init => RenewalInv
<1> SUFFICES ASSUME Init PROVE RenewalInv
  OBVIOUS
<1>1. \A s \in Session : session[s].todo = <<>> /\ session[s].due = {}
  BY DEF Init, Idle
<1>2. \A o \in Order : payment[o] = NoPayment /\ ledger[o] = Uncaptured
  BY DEF Init
<1>3. \A o \in Order : ~Dated(o)
  BY <1>2 DEF Dated
<1>4. InTime
  BY DEF Init, InTime, NoSub, Captured
<1>5. ASSUME NEW s \in Session
      PROVE  RenewsRight(s)
  <2>1. \A o \in Order : ~ToRecord(s, o)
    BY <1>1 DEF ToRecord, Doing
  <2> QED BY <1>1, <2>1, EmptySeq DEF RenewsRight, DueOnce
<1> QED BY <1>3, <1>4, <1>5
       DEF RenewalInv, RenewedBefore, RenewalRecorded, RenewalRecordedOnce,
           DatedIsCaptured

LEMMA NextKeepsRenewal ==
  ASSUME PaidInv, RenewalInv, [Next]_vars
  PROVE  RenewalInv'
<1>1. ASSUME NEW s \in Session, Killed(s)
      PROVE  RenewalInv'
  <2>1. /\ Become(s, [due |-> {}, todo |-> <<>>]) /\ TypeOK
        /\ UNCHANGED <<tables, month>> /\ LedgerNow
        /\ month \in Nat /\ month <= month
    BY <1>1 DEF Killed, Idle, PaidInv, TypeOK, LedgerNow
  <2>2. /\ session'[s].todo = <<>> /\ session'[s].due = {}
        /\ \A r \in Session \ {s} : session'[r] = session[r]
    BY <2>1, BecomeType, EmptySeq
  <2>3. DueOnce(s)'
    BY <2>2 DEF DueOnce
  <2>4. RenewsRight(s)'
    BY <2>2, <2>3, NothingModest, ModestRenewsRight DEF Modest, CompletesFirst
  <2> QED BY <2>1, <2>2, <2>4, RenewalDecides
<1>2. ASSUME UNCHANGED <<tables, session>>, LedgerNow,
             month' \in Nat, month <= month'
      PROVE  RenewalInv'
  <2>1. PICK s : s \notin Session
    BY NoSetContainsEverything
  <2> QED BY <1>2, <2>1, RenewalDecides
<1>3. TypeOK /\ month \in Nat /\ month <= month
  BY DEF PaidInv, TypeOK
<1>4. CASE \E s \in Client : UserRequest(s) \/ Webhook(s)
  BY <1>4, RenewalRequests
<1>5. CASE \E s \in Worker : CheckRenewalsDue(s) \/ Renew(s)
  BY <1>5, RenewalScan, RenewalTurns DEF Renew
<1>6. CASE \E s \in Session : ChargeCard(s) \/ Commit(s) \/ Killed(s)
  BY <1>1, <1>6, RenewalCharges, RenewalCommits
<1>7. ASSUME NEW o \in Order, Deposit(o)
      PROVE  RenewalInv'
  <2>1. PICK c : c = [user |-> payment[o].user, order |-> o, charge |-> "deposit"]
    OBVIOUS
  <2>2. /\ UNCHANGED <<tables, month, session>> /\ payment[o] # NoPayment
        /\ TakeMoney(Nobody, c)
    BY <1>7, <2>1 DEF Deposit
  <2>3. PICK k : k = Receipt(Nobody, c)
    OBVIOUS
  <2>4. ledger' = [ledger EXCEPT ![o] = k] /\ ledger[o] = Uncaptured
    BY <2>1, <2>2, <2>3 DEF TakeMoney, Captured, Receipt
  <2>5. k \in Capture /\ k.month = month
    <3>1. c.user \in User /\ c.charge \in Charge
      BY <2>1, <2>2, PaymentTells DEF Charge
    <3>2. k \in Capture
      BY <1>3, <2>3, <3>1, ReceiptType
    <3> QED BY <2>3, <3>2 DEF Receipt
  <2>6. LedgerNow
    BY <1>3, <2>4, <2>5 DEF LedgerNow, TypeOK
  <2> QED BY <1>2, <1>3, <2>2, <2>6
<1>8. CASE NextMonth
  <2>1. LedgerNow
    BY <1>3, <1>8 DEF NextMonth, LedgerNow, TypeOK
  <2> QED BY <1>2, <1>3, <1>8, <2>1 DEF NextMonth
<1>9. CASE UNCHANGED vars
  <2>1. LedgerNow
    BY <1>3, <1>9 DEF vars, LedgerNow, TypeOK
  <2> QED BY <1>2, <1>3, <1>9, <2>1 DEF vars
<1> QED BY <1>4, <1>5, <1>6, <1>7, <1>8, <1>9 DEF Next

LEMMA RenewalInductive == Spec => []RenewalInv
<1>1. PaidInv /\ RenewalInv /\ [Next]_vars => RenewalInv'
  BY NextKeepsRenewal
<1> QED BY <1>1, InitRenewal, PaidInductive, PTL DEF Spec

(* No scheduler records two renewals of a subscription it has had captured *)
(* in one period, however many schedulers there are, and although          *)
(* requests, webhooks, lost answers and kills get in between its reads and *)
(* its writes.                                                             *)
THEOREM RenewalsAreRecordedOnce == Spec => []RenewalRecordedOnce
<1>1. RenewalInv => RenewalRecordedOnce
  BY DEF RenewalInv
<1> QED BY <1>1, RenewalInductive, PTL


-----------------------------------------------------------------------------
(* The promise of membership.  Lists of steps that keep it.                *)

(* What completes a payment comes behind a charge.                         *)
Proper(steps) ==
  /\ Orderly(steps)
  /\ \A i \in 1..Len(steps) : /\ Honest(steps[i])
                              /\ Completing(steps[i]) => i # 1

(* Steps that neither insert a payment nor change its status.              *)
Free(steps) ==
  \A i \in 1..Len(steps) : /\ steps[i].do = "commit"
                           /\ steps[i].txn.insert = Keep
                           /\ steps[i].txn.paid = Keep

LEMMA HonestCommit ==
  ASSUME NEW t \in Txn, NEW h, h = Honest([do |-> "commit", txn |-> t]), h
  PROVE  /\ Orderly(ToCommit(t))
         /\ \A i \in 1..Len(ToCommit(t)) : Honest(ToCommit(t)[i])
         /\ t.paid # "completed" => Proper(ToCommit(t))
<1>1. PICK l : l = ToCommit(t)
  OBVIOUS
<1>2. Len(l) = 1 /\ l[1].do = "commit" /\ l[1].txn = t /\ \A i \in 1..1 : i = 1
  BY <1>1, CommitList
<1>3. Orderly(l)
  BY <1>2 DEF Orderly
<1>4. Honest(l[1])
  BY <1>2 DEF Honest
<1>5. t.paid # "completed" => Proper(l)
  BY <1>2, <1>3, <1>4 DEF Proper, Completing
<1> QED BY <1>1, <1>2, <1>3, <1>4, <1>5

(* A transaction that completes and inserts no payment.                    *)
LEMMA PlainCommit ==
  ASSUME NEW t \in Txn, t.insert = Keep, t.paid # "completed"
  PROVE  Proper(ToCommit(t))
<1>1. Honest([do |-> "commit", txn |-> t])
  BY DEF Honest
<1> QED BY <1>1, HonestCommit

LEMMA FreeCommit ==
  ASSUME NEW t \in Txn, t.insert = Keep, t.paid = Keep
  PROVE  Free(ToCommit(t))
<1>1. PICK l : l = ToCommit(t)
  OBVIOUS
<1>2. Len(l) = 1 /\ l[1].do = "commit" /\ l[1].txn = t /\ \A i \in 1..1 : i = 1
  BY <1>1, CommitList
<1>3. Free(l)
  BY <1>2 DEF Free
<1> QED BY <1>1, <1>3

LEMMA NothingFree ==
  Free(<<>>) /\ Proper(<<>>) /\ <<>> \in Seq(Step)
BY EmptySeq DEF Free, Proper, Orderly

LEMMA CreateFree ==
  ASSUME NEW u \in User
  PROVE  Free(Create(u)) /\ Create(u) \in Seq(Step)
<1>1. PICK t : t = [NoTxn(u) EXCEPT !.create = TRUE]
  OBVIOUS
<1>2. t \in Txn /\ t.insert = Keep /\ t.paid = Keep
  BY <1>1 DEF NoTxn, Txn, Keep, Same
<1>3. Create(u) = <<>> \/ Create(u) = ToCommit(t)
  BY <1>1 DEF Create
<1> QED BY <1>2, <1>3, FreeCommit, NothingFree, CommitList

LEMMA FreeJoin ==
  ASSUME NEW p \in Seq(Step), NEW q \in Seq(Step), Free(p), Free(q)
  PROVE  Free(p \o q)
<1>1. PICK l, m : l = p \o q /\ m = Len(p)
  OBVIOUS
<1>2. /\ m \in Nat /\ Len(q) \in Nat /\ Len(l) = m + Len(q)
      /\ \A i \in 1..(m + Len(q)) : l[i] = IF i <= m THEN p[i] ELSE q[i - m]
  BY <1>1
<1>3. ASSUME NEW i \in 1..Len(l)
      PROVE  /\ l[i].do = "commit" /\ l[i].txn.insert = Keep
             /\ l[i].txn.paid = Keep
  <2>1. CASE i <= m
    <3>1. i \in 1..Len(p) /\ l[i] = p[i]
      BY <1>1, <1>2, <2>1
    <3> QED BY <3>1 DEF Free
  <2>2. CASE ~(i <= m)
    <3>1. i - m \in 1..Len(q) /\ l[i] = q[i - m]
      BY <1>2, <2>2
    <3> QED BY <3>1 DEF Free
  <2> QED BY <2>1, <2>2
<1> QED BY <1>1, <1>3 DEF Free

LEMMA FreeThenProper ==
  ASSUME NEW p \in Seq(Step), NEW q \in Seq(Step), Free(p), Proper(q),
         NoRenewal(q)
  PROVE  Proper(p \o q)
<1>1. PICK l, m : l = p \o q /\ m = Len(p)
  OBVIOUS
<1>2. /\ m \in Nat /\ Len(q) \in Nat /\ Len(l) = m + Len(q)
      /\ \A i \in 1..(m + Len(q)) : l[i] = IF i <= m THEN p[i] ELSE q[i - m]
  BY <1>1
<1>3. ASSUME NEW i \in 1..Len(l), i <= m
      PROVE  l[i].do = "commit" /\ Honest(l[i]) /\ ~Completing(l[i])
  <2>1. i \in 1..Len(p) /\ l[i] = p[i]
    BY <1>1, <1>2, <1>3
  <2> QED BY <2>1 DEF Free, Honest, Completing, Keep
<1>4. ASSUME NEW i \in 1..Len(l), ~(i <= m)
      PROVE  /\ i - m \in 1..Len(q) /\ l[i] = q[i - m]
             /\ i \in Nat /\ i >= m
             /\ i = 1 => i - m = 1
  BY <1>2, <1>4
<1>5. ASSUME NEW i \in 1..Len(l)
      PROVE  Honest(l[i]) /\ (Completing(l[i]) => i # 1)
  BY <1>3, <1>4, <1>5 DEF Proper
<1>6. ASSUME NEW i \in 1..Len(l), l[i].do = "charge"
      PROVE  /\ i < Len(l)
             /\ l[i + 1].do = "commit"
             /\ l[i + 1].txn.paid = "completed"
             /\ l[i + 1].txn.order = l[i].order
             /\ l[i].charge # "renewal"
  <2>1. ~(i <= m)
    BY <1>3, <1>6
  <2>2. PICK k : k = i - m
    OBVIOUS
  <2>3. k \in 1..Len(q) /\ l[i] = q[k] /\ i \in Nat /\ i >= m
    BY <1>4, <2>1, <2>2
  <2>4. /\ k < Len(q) /\ q[k + 1].do = "commit"
        /\ q[k + 1].txn.paid = "completed"
        /\ q[k + 1].txn.order = q[k].order
        /\ q[k].charge # "renewal"
    BY <1>6, <2>3 DEF Proper, Orderly, NoRenewal, ChargesRenewal
  <2>5. i < Len(l) /\ i + 1 \in 1..(m + Len(q)) /\ (i + 1) - m = k + 1
    BY <1>2, <2>2, <2>3, <2>4
  <2>6. l[i + 1] = q[k + 1]
    BY <1>2, <2>1, <2>3, <2>5
  <2> QED BY <2>3, <2>4, <2>5, <2>6
<1>7. Orderly(l)
  BY <1>6 DEF Orderly
<1> QED BY <1>1, <1>5, <1>7 DEF Proper

(* A charge and the transaction behind it.                                 *)
LEMMA ChargeProper ==
  ASSUME NEW u \in User, NEW o \in Order, NEW c \in Charge \ {"deposit"},
         NEW t \in Txn, t.order = o, t.paid = "completed",
         NEW h, h = Honest([do |-> "commit", txn |-> t]), h,
         c = "renewal" => Renewable(u) /\ ~Dated(o)
  PROVE  LET l == ToCharge(u, o, c) \o ToCommit(t) IN
         l \in Seq(Step) /\ Proper(l) /\ (c # "renewal" => NoRenewal(l))
<1>1. PICK l : l = ToCharge(u, o, c) \o ToCommit(t)
  OBVIOUS
<1>2. ChargesAndCommits(l, u, o, c, t)
  BY <1>1, ChargeAndCommit
<1>3. /\ l \in Seq(Step) /\ Len(l) = 2
      /\ l[1].do = "charge" /\ l[1].order = o /\ l[1].user = u
      /\ l[1].charge = c
      /\ l[2].do = "commit" /\ l[2].txn = t
  BY <1>2 DEF ChargesAndCommits
<1>4. \A i \in 1..Len(l) : i = 1 \/ i = 2
  BY <1>3
<1>5. Honest(l[1]) /\ Honest(l[2])
  BY <1>3 DEF Honest
<1>6. Orderly(l)
  BY <1>3, <1>4 DEF Orderly
<1>7. Proper(l)
  BY <1>3, <1>4, <1>5, <1>6 DEF Proper, Completing
<1>8. c # "renewal" => NoRenewal(l)
  BY <1>3, <1>4 DEF NoRenewal, ChargesRenewal
<1> QED BY <1>1, <1>3, <1>7, <1>8

-----------------------------------------------------------------------------
(* What a session decides changes nothing of the promise.                  *)

Hidden == UNCHANGED <<tables, ledger, month>>

(* The next of these steps records the money of an order.                  *)
Waits(steps, o) ==
  /\ steps # <<>>
  /\ Completing(steps[1])
  /\ steps[1].txn.order = o

LEMMA ProperWaits ==
  ASSUME NEW steps \in Seq(Step), Proper(steps), NEW o
  PROVE  ~Waits(steps, o)
<1>1. steps # <<>> => 1 \in 1..Len(steps)
  BY TailOf
<1> QED BY <1>1 DEF Proper, Waits

(* While tables, money and month stand, steps stay honest.                 *)
LEMMA HonestRests ==
  ASSUME Hidden, NEW step, Honest(step)
  PROVE  Honest(step)'
BY DEF Hidden, Honest, Renewable, CapturedBefore, RenewalCaptured, Captured,
       Dated, tables

LEMMA PromiseDecides ==
  ASSUME NoOverlap, PromiseInv, NEW s \in Session, Hidden,
         NEW steps \in Seq(Step), session'[s].todo = steps,
         \A o \in Order : ~ToRecord(s, o),
         Orderly(steps), \A i \in 1..Len(steps) : Honest(steps[i]),
         \A d \in session'[s].due : Renewable(d.user),
         \A o \in Order : Waits(steps, o) => ~Dated(o)
  PROVE  PromiseInv'
<1>1. \A r \in Session : r = s
  BY DEF NoOverlap
<1>2. sub' = sub /\ payment' = payment /\ ledger' = ledger /\ month' = month
  BY DEF Hidden, tables
<1>3. \A o \in Order : ToRecord(s, o)' <=> Waits(steps, o)
  <2>1. steps # <<>> => Head(steps) = steps[1]
    BY TailOf
  <2> QED BY <2>1 DEF ToRecord, Doing, Waits, Completing
<1>4. \A o \in Order : (Captured(o)' <=> Captured(o)) /\ (Dated(o)' <=> Dated(o))
  BY <1>2 DEF Captured, Dated
<1>5. \A o \in Order : Dated(o)' =>
        Captured(o)' /\ \A r \in Session : ~ToRecord(r, o)'
  BY <1>1, <1>3, <1>4 DEF PromiseInv
<1>6. ASSUME NEW u \in User, NEW o \in Order, RenewalCaptured(u, o)'
      PROVE  ledger'[o].month < sub'[u].next
  <2>1. RenewalCaptured(u, o)
    BY <1>2, <1>6 DEF RenewalCaptured, Captured
  <2> QED BY <1>1, <1>2, <2>1 DEF PromiseInv
<1>7. \A d \in session'[s].due : Renewable(d.user)'
  BY <1>2 DEF Renewable, CapturedBefore, RenewalCaptured, Captured
<1>8. ASSUME NEW i \in 1..Len(steps), NEW step, step = steps[i]
      PROVE  Honest(step)'
  BY <1>8, HonestRests
<1>9. \A i \in 1..Len(steps) : Honest(steps[i])'
  BY <1>8
<1> QED BY <1>1, <1>5, <1>6, <1>7, <1>9 DEF PromiseInv

LEMMA PromiseBegins ==
  ASSUME NoOverlap, PaidInv, PromiseInv, NEW s, NEW steps \in Seq(Step),
         Begin(s, steps), Orderly(steps), \A i \in 1..Len(steps) : Honest(steps[i]),
         \A o \in Order : Waits(steps, o) => ~Dated(o)
  PROVE  PromiseInv' /\ Hidden
<1>1. /\ s \in Session /\ Continue(s, steps) /\ TypeOK
      /\ session[s].due = {} /\ session[s].todo = <<>> /\ Hidden
  BY DEF Begin, Session, PaidInv, IsIdle, Idle, Hidden
<1>2. session'[s].todo = steps /\ session'[s].due = {}
  BY <1>1, ContinueType
<1>3. \A o \in Order : ~ToRecord(s, o)
  BY <1>1 DEF ToRecord, Doing
<1> QED BY <1>1, <1>2, <1>3, PromiseDecides

LEMMA PromisePlain ==
  ASSUME NoOverlap, PaidInv, PromiseInv, NEW s, NEW steps \in Seq(Step),
         Begin(s, steps), Proper(steps)
  PROVE  PromiseInv' /\ Hidden
BY ProperWaits, PromiseBegins DEF Proper

(* The transactions that activate are honest.                              *)
LEMMA ActivateHonest ==
  ASSUME NEW u \in User, NEW o \in Order
  PROVE  /\ Honest([do |-> "commit", txn |-> Activate(u, o, sub[u].status)])
         /\ ~Dated(o) =>
              Honest([do |-> "commit",
                      txn |-> [Activate(u, o, "inactive") EXCEPT
                                 !.insert = "initial", !.retries = 0]])
<1>1. PICK a : a = Activate(u, o, sub[u].status)
  OBVIOUS
<1>2. /\ a.paid = "completed" /\ a.extend /\ ~a.stopRenew /\ a.insert = Keep
      /\ a.status \in {Keep, "active"} /\ a.history = "premium"
  BY <1>1 DEF Activate, NoTxn
<1>3. PICK t : t = [Activate(u, o, "inactive") EXCEPT !.insert = "initial",
                                                      !.retries = 0]
  OBVIOUS
<1>4. /\ t.paid = "completed" /\ t.extend /\ ~t.stopRenew /\ t.insert = "initial"
      /\ t.status = "active" /\ t.history = "premium" /\ t.order = o
  BY <1>3 DEF Activate, NoTxn
<1>5. Honest([do |-> "commit", txn |-> a])
  BY <1>2 DEF Honest, Keep
<1>6. ~Dated(o) => Honest([do |-> "commit", txn |-> t])
  BY <1>4 DEF Honest, Keep
<1> QED BY <1>1, <1>3, <1>5, <1>6

LEMMA FreshUndated ==
  ASSUME NEW o, Fresh(o)
  PROVE  ~Dated(o)
BY DEF Fresh, Dated

LEMMA PromiseRequests ==
  ASSUME NoOverlap, PaidInv, PromiseInv, NEW s, UserRequest(s) \/ Webhook(s)
  PROVE  PromiseInv' /\ Hidden
<1>1. ASSUME NEW t \in Txn, t.insert = Keep, t.paid # "completed",
             Begin(s, ToCommit(t))
      PROVE  PromiseInv' /\ Hidden
  BY <1>1, PlainCommit, CommitList, PromisePlain
<1>2. ASSUME NEW u \in User, CancelSubscription(s, u)
      PROVE  PromiseInv' /\ Hidden
  BY <1>1, <1>2, CancellationType DEF CancelSubscription, Keep
<1>3. ASSUME NEW u \in User, RemoveBillingKey(s, u)
      PROVE  PromiseInv' /\ Hidden
  <2>1. PICK t : t = [NoTxn(u) EXCEPT
                        !.key = IF sub[u].key THEN "unset" ELSE Keep,
                        !.stopRenew = TRUE]
    OBVIOUS
  <2>2. t \in Txn /\ t.insert = Keep /\ t.paid = Keep
    BY <2>1 DEF NoTxn, Txn, Keep, Same
  <2>3. Begin(s, ToCommit(t))
    BY <1>3, <2>1 DEF RemoveBillingKey
  <2> QED BY <1>1, <2>2, <2>3 DEF Keep
<1>4. ASSUME NEW u \in User, DeleteAccount(s, u)
      PROVE  PromiseInv' /\ Hidden
  <2>1. PICK t : t = [NoTxn(u) EXCEPT !.leave = TRUE]
    OBVIOUS
  <2>2. PICK r : r = [t EXCEPT !.status = "cancelled", !.stopRenew = TRUE]
    OBVIOUS
  <2>3. /\ t \in Txn /\ t.insert = Keep /\ t.paid = Keep
        /\ r \in Txn /\ r.insert = Keep /\ r.paid = Keep
    BY <2>1, <2>2 DEF NoTxn, Txn, Keep, Same, SubStatus
  <2>4. Begin(s, ToCommit(t)) \/ Begin(s, ToCommit(r))
    BY <1>4, <2>1, <2>2 DEF DeleteAccount
  <2> QED BY <1>1, <2>3, <2>4 DEF Keep
<1>5. ASSUME NEW u \in User, NEW o \in Order, RegisterBillingKey(s, u, o)
      PROVE  PromiseInv' /\ Hidden
  <2>1. PICK k, t : /\ k = [NoTxn(u) EXCEPT !.key = "set"]
                    /\ t = [Activate(u, o, "inactive") EXCEPT
                              !.insert = "initial", !.retries = 0]
    OBVIOUS
  <2>2. PICK rest : rest = IF sub[u].status = "active" THEN <<>>
                           ELSE ToCharge(u, o, "register") \o ToCommit(t)
    OBVIOUS
  <2>3. PICK p : p = Create(u) \o ToCommit(k)
    OBVIOUS
  <2>4. Begin(s, p \o rest) /\ ~Dated(o)
    BY <1>5, <2>1, <2>2, <2>3, FreshUndated DEF RegisterBillingKey
  <2>5. k \in Txn /\ k.insert = Keep /\ k.paid = Keep
    BY <2>1 DEF NoTxn, Txn, Keep, Same
  <2>6. Free(p) /\ p \in Seq(Step)
    BY <2>3, <2>5, CreateFree, FreeCommit, FreeJoin, CommitList
  <2>7. t \in Txn /\ t.order = o /\ t.paid = "completed"
    BY <2>1, RegisteredType
  <2>8. Honest([do |-> "commit", txn |-> t])
    BY <2>1, <2>4, ActivateHonest
  <2>9. Proper(rest) /\ rest \in Seq(Step) /\ NoRenewal(rest)
    <3>1. CASE sub[u].status = "active"
      BY <2>2, <3>1, NothingFree, NothingModest, ModestTells
    <3>2. CASE sub[u].status # "active"
      <4>1. "register" \in Charge \ {"deposit"} /\ "register" # "renewal"
        BY DEF Charge
      <4>2. rest = ToCharge(u, o, "register") \o ToCommit(t)
        BY <2>2, <3>2
      <4> QED BY <2>7, <2>8, <4>1, <4>2, ChargeProper
    <3> QED BY <3>1, <3>2
  <2>10. PICK l : l = p \o rest
    OBVIOUS
  <2>11. Proper(l) /\ l \in Seq(Step)
    BY <2>6, <2>9, <2>10, FreeThenProper
  <2> QED BY <2>4, <2>10, <2>11, PromisePlain
<1>6. ASSUME NEW u \in User, NEW o \in Order, NEW k \in Kind,
             InitializePayment(s, u, o, k)
      PROVE  PromiseInv' /\ Hidden
  <2>1. PICK t : t = Insert(u, o, k, "pending")
    OBVIOUS
  <2>2. t \in Txn /\ t.insert # Keep /\ t.paid = "pending" /\ t.order = o
    BY <2>1, InsertType DEF PaymentStatus
  <2>3. Begin(s, Create(u) \o ToCommit(t)) /\ ~Dated(o)
    BY <1>6, <2>1, FreshUndated DEF InitializePayment
  <2>4. PICK l : l = Create(u) \o ToCommit(t)
    OBVIOUS
  <2>5. Honest([do |-> "commit", txn |-> t]) /\ t.paid # "completed"
    BY <2>2, <2>3 DEF Honest
  <2>6. PICK q : q = ToCommit(t)
    OBVIOUS
  <2>7. Proper(q) /\ q \in Seq(Step) /\ NoRenewal(q)
    BY <2>2, <2>5, <2>6, HonestCommit, CommitList, ModestCommit, ModestTells
  <2>8. Proper(l) /\ l \in Seq(Step)
    BY <2>4, <2>6, <2>7, CreateFree, FreeThenProper
  <2> QED BY <2>3, <2>4, <2>8, PromisePlain
<1>7. ASSUME NEW o \in Order, ConfirmPayment(s, o)
      PROVE  PromiseInv' /\ Hidden
  <2>1. PICK u : u = payment[o].user
    OBVIOUS
  <2>2. PICK t : t = Activate(u, o, sub[u].status)
    OBVIOUS
  <2>3. PICK l : l = ToCharge(u, o, "confirm") \o ToCommit(t)
    OBVIOUS
  <2>4. payment[o] # NoPayment /\ Begin(s, l)
    BY <1>7, <2>1, <2>2, <2>3 DEF ConfirmPayment
  <2>5. u \in User
    BY <2>1, <2>4, PaymentTells
  <2>6. t \in Txn /\ t.order = o /\ t.paid = "completed"
    BY <2>2, <2>5, ActivateType
  <2>7. Honest([do |-> "commit", txn |-> t])
    BY <2>2, <2>5, ActivateHonest
  <2>8. "confirm" \in Charge \ {"deposit"} /\ "confirm" # "renewal"
    BY DEF Charge
  <2>9. Proper(l) /\ l \in Seq(Step)
    BY <2>3, <2>5, <2>6, <2>7, <2>8, ChargeProper
  <2> QED BY <2>4, <2>9, PromisePlain
<1>8. ASSUME NEW o \in Order, ConfirmBankTransfer(s, o)
      PROVE  PromiseInv' /\ Hidden
  <2>1. PICK u : u = payment[o].user
    OBVIOUS
  <2>2. PICK t : t = Activate(u, o, sub[u].status)
    OBVIOUS
  <2>3. PICK l : l = ToCommit(t)
    OBVIOUS
  <2>4. payment[o] # NoPayment /\ ~Dated(o) /\ Begin(s, l)
    BY <1>8, <2>1, <2>2, <2>3 DEF ConfirmBankTransfer
  <2>5. u \in User
    BY <2>1, <2>4, PaymentTells
  <2>6. t \in Txn /\ t.order = o
    BY <2>2, <2>5, ActivateType
  <2>7. Honest([do |-> "commit", txn |-> t])
    BY <2>2, <2>5, ActivateHonest
  <2>8. /\ Orderly(l) /\ \A i \in 1..Len(l) : Honest(l[i])
        /\ l \in Seq(Step) /\ l[1].txn = t
    BY <2>3, <2>6, <2>7, HonestCommit, CommitList
  <2>9. \A q \in Order : Waits(l, q) => ~Dated(q)
    BY <2>4, <2>6, <2>8 DEF Waits
  <2> QED BY <2>4, <2>8, <2>9, PromiseBegins
<1>9. ASSUME NEW o \in Order, WebhookPaymentFailed(s, o)
      PROVE  PromiseInv' /\ Hidden
  <2>1. PICK u : u = payment[o].user
    OBVIOUS
  <2>2. PICK t : t = PaymentFailure(u, o, payment[o])
    OBVIOUS
  <2>3. payment[o] # NoPayment /\ Begin(s, ToCommit(t))
    BY <1>9, <2>1, <2>2 DEF WebhookPaymentFailed
  <2>4. u \in User /\ payment[o].retries \in 0..SuspendAt
    BY <2>1, <2>3, PaymentTells
  <2>5. t \in Txn /\ t.insert = Keep /\ t.paid # "completed"
    BY <2>2, <2>4, PaymentFailureType
  <2> QED BY <1>1, <2>3, <2>5
<1>10. CASE UserRequest(s)
  BY <1>2, <1>3, <1>4, <1>5, <1>6, <1>7, <1>8, <1>10 DEF UserRequest, Cancel
<1>11. CASE Webhook(s)
  BY <1>2, <1>9, <1>11 DEF Webhook, WebhookKeyCancelled
<1> QED BY <1>10, <1>11

-----------------------------------------------------------------------------
(* The scheduler.                                                          *)

LEMMA PromiseScan ==
  ASSUME NoOverlap, PaidInv, PromiseInv, NEW s, CheckRenewalsDue(s)
  PROVE  PromiseInv' /\ Hidden
<1>1. PICK due : due = {[user |-> u, key |-> sub[u].key] : u \in Overdue}
  OBVIOUS
<1>2. /\ s \in Session /\ Become(s, [due |-> due, todo |-> <<>>])
      /\ Hidden /\ session[s].todo = <<>>
  <2>1. /\ s \in Worker /\ Become(s, [Idle EXCEPT !.due = due])
        /\ Hidden /\ session[s].todo = <<>>
    BY <1>1 DEF CheckRenewalsDue, IsIdle, Idle, Hidden
  <2>2. [Idle EXCEPT !.due = due] = [due |-> due, todo |-> <<>>]
    BY DEF Idle
  <2> QED BY <2>1, <2>2 DEF Session
<1>3. TypeOK
  BY DEF PaidInv
<1>4. \A r \in Session, o \in Order : ~ToRecord(r, o)
  BY <1>2 DEF NoOverlap, ToRecord, Doing
<1>5. ASSUME NEW u \in Overdue
      PROVE  u \in User /\ sub[u].key \in BOOLEAN /\ Renewable(u)
  <2>1. /\ u \in User /\ sub[u].status = "active" /\ sub[u].autoRenew
        /\ sub[u].next <= month
    BY DEF Overdue
  <2>2. sub[u] \in SubRow
    BY <1>3, <2>1 DEF TypeOK, NoSub
  <2>3. sub[u].next \in Nat /\ month \in Nat /\ sub[u].key \in BOOLEAN
    BY <1>3, <2>2 DEF TypeOK, SubRow
  <2>4. ASSUME NEW o \in Order, RenewalCaptured(u, o)
        PROVE  ledger[o].month < month
    <3>1. ledger[o].month < sub[u].next
      BY <1>4, <2>1, <2>4 DEF PromiseInv
    <3>2. ledger[o].month \in Nat
      BY <2>4, CapturedMonth DEF RenewalCaptured
    <3> QED BY <2>1, <2>3, <3>1, <3>2
  <2> QED BY <2>1, <2>3, <2>4 DEF Renewable, CapturedBefore
<1>6. due \in SUBSET Seen /\ \A d \in due : Renewable(d.user)
  BY <1>1, <1>5 DEF Seen
<1>7. session'[s].todo = <<>> /\ session'[s].due = due
  BY <1>2, <1>3, <1>6, BecomeType, EmptySeq
<1>8. /\ <<>> \in Seq(Step) /\ Orderly(<<>>) /\ \A o : ~Waits(<<>>, o)
      /\ \A i \in 1..Len(<<>>) : Honest(<<>>[i])
  BY NothingFree DEF Proper, Waits
<1> QED BY <1>2, <1>4, <1>6, <1>7, <1>8, PromiseDecides

LEMMA PromiseTurns ==
  ASSUME NoOverlap, PaidInv, PromiseInv, NEW s \in Worker,
         NEW d \in session[s].due, NEW o \in Order, ProcessAutoRenewal(s, d, o)
  PROVE  PromiseInv' /\ Hidden
<1>1. PICK u, due : u = d.user /\ due = session[s].due \ {d}
  OBVIOUS
<1>2. /\ s \in Session /\ session[s] \in SessionState /\ TypeOK
      /\ Hidden /\ session[s].todo = <<>>
  BY DEF Session, PaidInv, TypeOK, ProcessAutoRenewal, Hidden
<1>3. u \in User /\ due \in SUBSET Seen
  BY <1>1, <1>2 DEF SessionState, Seen
<1>4. Renewable(u) /\ \A e \in due : Renewable(e.user)
  BY <1>1, <1>2 DEF PromiseInv
<1>5. \A q \in Order : ~ToRecord(s, q)
  BY <1>2 DEF ToRecord, Doing
<1>6. ASSUME NEW steps \in Seq(Step), Become(s, [due |-> due, todo |-> steps]),
             Proper(steps)
      PROVE  PromiseInv' /\ Hidden
  <2>1. session'[s].todo = steps /\ session'[s].due = due
    BY <1>2, <1>3, <1>6, BecomeType
  <2>2. /\ Orderly(steps) /\ \A q \in Order : ~Waits(steps, q)
        /\ \A i \in 1..Len(steps) : Honest(steps[i])
    BY <1>6, ProperWaits DEF Proper
  <2> QED BY <1>2, <1>4, <1>5, <2>1, <2>2, PromiseDecides
<1>7. CASE d.key
  <2>1. PICK t : t = Renewal(u, o)
    OBVIOUS
  <2>2. PICK l : l = ToCharge(u, o, "renewal") \o ToCommit(t)
    OBVIOUS
  <2>3. ~Dated(o) /\ Become(s, [due |-> due, todo |-> l])
    BY <1>1, <1>7, <2>1, <2>2, FreshUndated DEF ProcessAutoRenewal
  <2>4. t \in Txn /\ t.order = o /\ t.paid = "completed"
    BY <1>3, <2>1, RenewalTells
  <2>5. t.extend /\ ~t.stopRenew /\ t.status = Keep /\ t.history = "premium"
    BY <2>1 DEF Renewal, Insert, NoTxn
  <2>6. Honest([do |-> "commit", txn |-> t])
    BY <2>3, <2>4, <2>5 DEF Honest
  <2>7. "renewal" \in Charge \ {"deposit"}
    BY DEF Charge
  <2>8. Proper(l) /\ l \in Seq(Step)
    BY <1>3, <1>4, <2>2, <2>3, <2>4, <2>6, <2>7, ChargeProper
  <2> QED BY <1>6, <2>3, <2>8
<1>8. CASE ~d.key
  <2>1. PICK t : t = Expiry(u)
    OBVIOUS
  <2>2. PICK l : l = ToCommit(t)
    OBVIOUS
  <2>3. t \in Txn /\ t.insert = Keep /\ t.paid # "completed"
    BY <1>3, <2>1, ExpiryType DEF Keep
  <2>4. Become(s, [due |-> due, todo |-> l])
    BY <1>1, <1>8, <2>1, <2>2 DEF ProcessAutoRenewal
  <2> QED BY <1>6, <2>2, <2>3, <2>4, PlainCommit, CommitList
<1> QED BY <1>7, <1>8

-----------------------------------------------------------------------------
(* TossPayments.                                                           *)

(* What is left of a refused charge.                                       *)
LEMMA RefusalProper ==
  ASSUME NEW c \in ChargeStep, c.charge = "renewal" => ~Dated(c.order)
  PROVE  Proper(AfterRefusal(c)) /\ AfterRefusal(c) \in Seq(Step)
<1>1. PICK t : t = Insert(c.user, c.order, "renewal", "failed")
  OBVIOUS
<1>2. PICK read : read = [status |-> "failed", retries |-> 0]
  OBVIOUS
<1>3. PICK f : f = PaymentFailure(c.user, c.order, read)
  OBVIOUS
<1>4. c.user \in User /\ c.order \in Order
  BY DEF ChargeStep
<1>5. CASE c.charge # "renewal"
  BY <1>5, NothingFree DEF AfterRefusal
<1>6. CASE c.charge = "renewal"
  <2>1. PICK m : m = AfterRefusal(c)
    OBVIOUS
  <2>2. m = ToCommit(t) \o ToCommit(f)
    BY <1>1, <1>2, <1>3, <1>6, <2>1 DEF AfterRefusal
  <2>3. t \in Txn /\ t.order = c.order /\ t.paid = "failed"
    BY <1>1, <1>4, InsertType DEF Kind, PaymentStatus
  <2>4. f \in Txn /\ f.insert = Keep /\ f.paid # "completed"
    <3>1. read.retries \in 0..SuspendAt
      BY <1>2, RetryType
    <3> QED BY <1>3, <1>4, <3>1, PaymentFailureType
  <2>5. /\ m \in Seq(Step) /\ Len(m) = 2
        /\ m[1].do = "commit" /\ m[1].txn = t
        /\ m[2].do = "commit" /\ m[2].txn = f
    BY <2>2, <2>3, <2>4, CommitList, TwoSteps
  <2>6. \A i \in 1..Len(m) : i = 1 \/ i = 2
    BY <2>5
  <2>7. Orderly(m)
    BY <2>5, <2>6 DEF Orderly
  <2>8. /\ Honest(m[1]) /\ ~Completing(m[1])
        /\ Honest(m[2]) /\ ~Completing(m[2])
    BY <1>6, <2>3, <2>4, <2>5 DEF Honest, Completing
  <2>9. Proper(m)
    BY <2>6, <2>7, <2>8 DEF Proper
  <2> QED BY <2>1, <2>5, <2>9
<1> QED BY <1>5, <1>6

(* Money is taken, once for an order, for a renewal only where it is due.  *)
Takes(u, o, c) ==
  /\ ~Captured(o)
  /\ Paid' = [Paid EXCEPT ![o] = [user |-> u, charge |-> c, month |-> month]]
  /\ c = "renewal" => Renewable(u)
  /\ UNCHANGED <<tables, month>>

LEMMA MoneyIsPaid ==
  ASSUME NEW o \in Order, NEW k \in Capture,
         ledger \in [Order -> Capture \cup {Uncaptured}],
         ledger' = [ledger EXCEPT ![o] = k]
  PROVE  Paid' = [Paid EXCEPT ![o] = [user |-> k.user, charge |-> k.charge,
                                      month |-> k.month]]
<1>1. PICK r : r = [user |-> k.user, charge |-> k.charge, month |-> k.month]
  OBVIOUS
<1>2. k # Uncaptured
  BY DEF Capture, Charge, Uncaptured
<1>3. Taken(k) = r
  BY <1>1, <1>2 DEF Taken
<1>4. \A q \in Order : ledger'[q] = IF q = o THEN k ELSE ledger[q]
  OBVIOUS
<1>5. Paid' = [q \in Order |-> Taken(ledger'[q])]
  BY DEF Paid, Taken
<1>6. ASSUME NEW q \in Order
      PROVE  Taken(ledger'[q]) = IF q = o THEN r ELSE Taken(ledger[q])
  BY <1>3, <1>4
<1>7. Paid' = [q \in Order |-> IF q = o THEN r ELSE Taken(ledger[q])]
  BY <1>5, <1>6
<1>8. [Paid EXCEPT ![o] = r]
        = [q \in Order |-> IF q = o THEN r ELSE Taken(ledger[q])]
  BY DEF Paid
<1> QED BY <1>1, <1>7, <1>8

LEMMA PromiseCharges ==
  ASSUME NoOverlap, Faults = {}, PaidInv, MemberInv, PromiseInv,
         NEW s \in Session, ChargeCard(s)
  PROVE  /\ PromiseInv'
         /\ \/ Hidden
            \/ \E u \in User, o \in Order, c \in Charge : Takes(u, o, c)
<1>1. PICK l : l = session[s].todo
  OBVIOUS
<1>2. PICK c : c = Head(l)
  OBVIOUS
<1>3. /\ TypeOK /\ l \in Seq(Step) /\ UNCHANGED <<tables, month>>
      /\ month \in Nat /\ \A r \in Session : r = s
      /\ ledger \in [Order -> Capture \cup {Uncaptured}]
  BY <1>1 DEF PaidInv, TypeOK, SessionState, Step, ChargeCard, NoOverlap
<1>4. l # <<>> /\ c.do = "charge"
  BY <1>1, <1>2 DEF ChargeCard, Doing
<1>5. c = l[1] /\ 1 \in 1..Len(l) /\ c \in ChargeStep
  BY <1>2, <1>3, <1>4, TailOf DEF Step, CommitStep
<1>6. c.user \in User /\ c.order \in Order /\ c.charge \in Charge
  BY <1>5 DEF ChargeStep
<1>7. \A o \in Order : ~ToRecord(s, o)
  BY <1>1, <1>2, <1>4 DEF ToRecord, Doing
<1>8. /\ Orderly(l) /\ \A i \in 1..Len(l) : Honest(l[i])
      /\ c.charge = "renewal" => Renewable(c.user) /\ ~Dated(c.order)
  <2>1. Orderly(l) /\ \A i \in 1..Len(l) : Honest(l[i])
    BY <1>1 DEF PromiseInv
  <2>2. Honest(c)
    BY <1>5, <2>1
  <2> QED BY <1>4, <2>1, <2>2 DEF Honest
<1>9. \/ TakeMoney(s, c) /\ Continue(s, Tail(l))
      \/ Continue(s, AfterRefusal(c)) /\ UNCHANGED ledger
  BY <1>1, <1>2 DEF ChargeCard
<1>10. CASE TakeMoney(s, c) /\ Continue(s, Tail(l))
  <2>1. PICK m : m = Tail(l)
    OBVIOUS
  <2>2. PICK k : k = 1 + 1
    OBVIOUS
  <2>3. /\ Len(l) > 1 /\ l[k].do = "commit"
        /\ l[k].txn.paid = "completed" /\ l[k].txn.order = c.order
    BY <1>4, <1>5, <1>8, <2>2 DEF Orderly
  <2>4. /\ m \in Seq(Step) /\ Len(m) = Len(l) - 1 /\ Len(l) \in Nat
        /\ \A i \in 1..Len(m) : m[i] = l[i + 1] /\ i + 1 \in 1..Len(l)
    BY <1>3, <1>4, <2>1, TailOf, HeadTailProperties
  <2>5. m[1] = l[k] /\ m # <<>> /\ 1 \in 1..Len(m)
    <3>1. 1 \in 1..Len(m)
      BY <2>3, <2>4
    <3>2. m[1] = l[1 + 1]
      BY <2>4, <3>1
    <3>3. m # <<>>
      BY <3>1, EmptySeq
    <3> QED BY <2>2, <3>1, <3>2, <3>3
  <2>6. session'[s].todo = m /\ session'[s].due = session[s].due
    BY <1>3, <1>10, <2>1, <2>4, ContinueType
  <2>7. PICK r : r = Receipt(s, c)
    OBVIOUS
  <2>8. /\ r \in Capture /\ r # Uncaptured
        /\ r.user = c.user /\ r.charge = c.charge /\ r.month = month
    <3>1. r.user = c.user /\ r.charge = c.charge /\ r.month = month
      BY <2>7 DEF Receipt
    <3> QED BY <1>3, <1>6, <2>7, <3>1, ReceiptType
  <2>9. ~Captured(c.order) /\ ledger' = [ledger EXCEPT ![c.order] = r]
    BY <1>10, <2>7 DEF TakeMoney, Receipt
  <2>10. /\ ledger'[c.order] = r
         /\ \A o \in Order : o # c.order => ledger'[o] = ledger[o]
    BY <1>3, <1>6, <2>9
  <2>11. \A o \in Order : ToRecord(s, o)' <=> o = c.order
    <3>1. Head(m) = m[1]
      BY <2>4, <2>5, TailOf
    <3> QED BY <2>3, <2>5, <2>6, <3>1 DEF ToRecord, Doing
  <2>12. sub' = sub /\ payment' = payment /\ month' = month
    BY <1>3 DEF tables
  <2>13. ~Dated(c.order) /\ \A o : Dated(o)' <=> Dated(o)
    BY <1>6, <2>9, <2>12 DEF PromiseInv, Dated
  <2>14. Takes(c.user, c.order, c.charge)
    <3>1. PICK o \in Order : o = c.order
      BY <1>6
    <3>2. Paid' = [Paid EXCEPT ![o] = [user |-> r.user, charge |-> r.charge,
                                       month |-> r.month]]
      BY <1>3, <2>8, <2>9, <3>1, MoneyIsPaid
    <3>3. Paid' = [Paid EXCEPT ![o] = [user |-> c.user, charge |-> c.charge,
                                       month |-> month]]
      BY <2>8, <3>2
    <3> QED BY <1>3, <1>8, <2>9, <3>1, <3>3 DEF Takes
  <2>15. ASSUME NEW o \in Order, Dated(o)'
         PROVE  Captured(o)' /\ \A q \in Session : ~ToRecord(q, o)'
    <3>1. Dated(o) /\ o # c.order
      BY <2>13, <2>15
    <3>2. Captured(o)
      BY <3>1 DEF PromiseInv
    <3>3. Captured(o)'
      BY <2>10, <3>1, <3>2 DEF Captured
    <3> QED BY <1>3, <2>11, <3>1, <3>3
  <2>16. ASSUME NEW u \in User, NEW o \in Order, RenewalCaptured(u, o)'
         PROVE  \/ ledger'[o].month < sub'[u].next
                \/ \E q \in Session : ToRecord(q, o)'
    <3>1. CASE o = c.order
      BY <2>11, <3>1
    <3>2. CASE o # c.order
      <4>1. RenewalCaptured(u, o)
        BY <2>10, <2>16, <3>2 DEF RenewalCaptured, Captured
      <4> QED BY <1>3, <1>7, <2>10, <2>12, <3>2, <4>1 DEF PromiseInv
    <3> QED BY <3>1, <3>2
  <2>17. ASSUME NEW d \in session[s].due
         PROVE  Renewable(d.user)'
    <3>1. Renewable(d.user) /\ d.user # c.user
      BY <1>1, <1>4, <1>5 DEF PromiseInv, MemberInv, DueActive, UserOf
    <3>2. ASSUME NEW o \in Order, RenewalCaptured(d.user, o)'
          PROVE  ledger'[o].month < month'
      <4>1. o # c.order
        BY <2>8, <2>10, <3>1, <3>2 DEF RenewalCaptured
      <4>2. RenewalCaptured(d.user, o) /\ ledger'[o] = ledger[o]
        BY <2>10, <3>2, <4>1 DEF RenewalCaptured, Captured
      <4> QED BY <2>12, <3>1, <4>2 DEF Renewable, CapturedBefore
    <3> QED BY <2>12, <3>1, <3>2 DEF Renewable, CapturedBefore
  <2>18. ASSUME NEW i \in 1..Len(m), m[i].do = "charge"
         PROVE  /\ i < Len(m) /\ m[i].charge # "renewal"
                /\ m[i + 1].do = "commit" /\ m[i + 1].txn.paid = "completed"
                /\ m[i + 1].txn.order = m[i].order
    <3>1. PICK j : j = i + 1
      OBVIOUS
    <3>2. j \in 1..Len(l) /\ j # 1 /\ m[i] = l[j]
      BY <2>4, <3>1
    <3>3. /\ j < Len(l) /\ l[j].charge # "renewal"
          /\ l[j + 1].do = "commit" /\ l[j + 1].txn.paid = "completed"
          /\ l[j + 1].txn.order = l[j].order
      BY <1>8, <2>18, <3>2 DEF Orderly
    <3>4. i < Len(m) /\ j \in 1..Len(m)
      BY <2>4, <3>1, <3>2, <3>3
    <3>5. m[j] = l[j + 1]
      BY <2>4, <3>4
    <3> QED BY <3>1, <3>2, <3>3, <3>4, <3>5
  <2>19. Orderly(m)
    BY <2>18 DEF Orderly
  <2>20. ASSUME NEW i \in 1..Len(m), NEW step, step = m[i]
         PROVE  Honest(step)'
    <3>1. Honest(step)
      BY <1>8, <2>4, <2>20
    <3>2. step.do = "charge" => step.charge # "renewal"
      BY <2>18, <2>20
    <3>3. CASE step.do = "charge"
      BY <3>2, <3>3 DEF Honest
    <3>4. CASE step.do # "charge"
      BY <2>12, <3>1, <3>4 DEF Honest, Dated
    <3> QED BY <3>3, <3>4
  <2>21. \A i \in 1..Len(m) : Honest(m[i])'
    BY <2>20
  <2>22. PromiseInv'
    BY <1>3, <2>6, <2>15, <2>16, <2>17, <2>19, <2>21 DEF PromiseInv
  <2> QED BY <1>6, <2>14, <2>22
<1>11. CASE Continue(s, AfterRefusal(c)) /\ UNCHANGED ledger
  <2>1. PICK m : m = AfterRefusal(c)
    OBVIOUS
  <2>2. Proper(m) /\ m \in Seq(Step)
    BY <1>5, <1>8, <2>1, RefusalProper
  <2>3. session'[s].todo = m /\ session'[s].due = session[s].due
    BY <1>3, <1>11, <2>1, <2>2, ContinueType
  <2>4. /\ Orderly(m) /\ \A o \in Order : ~Waits(m, o)
        /\ \A i \in 1..Len(m) : Honest(m[i])
    BY <2>2, ProperWaits DEF Proper
  <2>5. \A d \in session'[s].due : Renewable(d.user)
    BY <2>3 DEF PromiseInv
  <2>6. Hidden
    BY <1>3, <1>11 DEF Hidden
  <2> QED BY <1>7, <2>2, <2>3, <2>4, <2>5, <2>6, PromiseDecides
<1> QED BY <1>9, <1>10, <1>11

-----------------------------------------------------------------------------
(* COMMIT.                                                                 *)

LEMMA OrderlyTail ==
  ASSUME NEW l \in Seq(Step), l # <<>>, Orderly(l), l[1].do = "commit"
  PROVE  Orderly(Tail(l)) /\ NoRenewal(Tail(l))
<1>1. PICK m : m = Tail(l)
  OBVIOUS
<1>2. /\ m \in Seq(Step) /\ Len(l) \in Nat /\ Len(m) = Len(l) - 1
      /\ \A i \in 1..Len(m) : m[i] = l[i + 1]
  BY <1>1, TailOf, HeadTailProperties
<1>3. \A i \in 1..Len(m) : i + 1 \in 1..Len(l) /\ i + 1 # 1
  BY <1>2
<1>4. ASSUME NEW i \in 1..Len(m), m[i].do = "charge"
      PROVE  /\ i < Len(m) /\ m[i + 1].do = "commit"
             /\ m[i + 1].txn.paid = "completed"
             /\ m[i + 1].txn.order = m[i].order
             /\ m[i].charge # "renewal"
  <2>1. PICK k : k = i + 1
    OBVIOUS
  <2>2. k \in 1..Len(l) /\ k # 1 /\ m[i] = l[k]
    BY <1>2, <1>3, <2>1
  <2>3. /\ k < Len(l) /\ l[k + 1].do = "commit"
        /\ l[k + 1].txn.paid = "completed"
        /\ l[k + 1].txn.order = l[k].order
        /\ l[k].charge # "renewal"
    BY <1>4, <2>2 DEF Orderly
  <2>4. i < Len(m) /\ k \in 1..Len(m)
    BY <1>2, <2>1, <2>2, <2>3
  <2>5. m[k] = l[k + 1]
    BY <1>2, <2>4
  <2> QED BY <2>1, <2>2, <2>3, <2>4, <2>5
<1>5. Orderly(m)
  BY <1>4 DEF Orderly
<1>6. NoRenewal(m)
  BY <1>4 DEF NoRenewal, ChargesRenewal
<1> QED BY <1>1, <1>5, <1>6

(* The transaction of money is the last of its session.                    *)
LEMMA CompletionIsLast ==
  ASSUME PaidInv, MemberInv, PromiseInv, NEW s \in Session, Commit(s),
         NEW l, l = session[s].todo, NEW t, t = Head(l).txn,
         t.paid = "completed"
  PROVE  /\ Len(l) = 1 /\ Settles(t) /\ ~t.create
         /\ t.extend /\ ~t.stopRenew /\ t.status \in {Keep, "active"}
         /\ t.history = "premium"
<1>1. /\ l \in Seq(Step) /\ l # <<>> /\ 1 \in 1..Len(l)
      /\ l[1].do = "commit" /\ l[1].txn = t /\ t \in Txn
  BY CommitTells
<1>2. Honest(l[1])
  BY <1>1 DEF PromiseInv
<1>3. /\ t.extend /\ ~t.stopRenew /\ t.status \in {Keep, "active"}
      /\ t.history = "premium"
  BY <1>1, <1>2 DEF Honest
<1>4. ~Quiet(t)
  BY <1>3 DEF Quiet, Keep
<1>5. Len(l) = 1 /\ Settles(t)
  BY <1>1, <1>4 DEF MemberInv, Settling
<1> QED BY <1>3, <1>5 DEF Settles

(* A payment that is dated stays so, and one is dated by being completed.  *)
LEMMA DatedStays ==
  ASSUME PaidInv, NEW t \in Txn, Sound(t), Stored(t),
         t.order # NoOrder /\ t.insert = Keep => payment[t.order] # NoPayment,
         t.insert # Keep => ~Dated(t.order),
         NEW o \in Order
  PROVE  Dated(o)' <=> Dated(o) \/ (t.order = o /\ t.paid = "completed")
<1>1. payment \in [Order -> PaymentRow \cup {NoPayment}]
  BY DEF PaidInv, TypeOK
<1>2. t.order \in Order \cup {NoOrder}
  BY DEF Txn
<1>3. Dated(o)' => Dated(o) \/ (t.order = o /\ t.paid = "completed")
  BY StoredDated
<1>4. CASE t.order # o
  BY <1>1, <1>2, <1>4 DEF Stored, Dated
<1>5. CASE t.order = o
  <2>1. payment'[o] = ApplyPayment(payment[o], t)
    BY <1>1, <1>5, SubscriptionAssumption DEF Stored
  <2>2. payment'[o] # NoPayment
    <3>1. PICK p : p = payment[o]
      OBVIOUS
    <3>2. /\ p \in PaymentRow \cup {NoPayment}
          /\ t.insert = Keep => p # NoPayment
      BY <1>1, <1>5, <3>1, SubscriptionAssumption
    <3>3. ApplyPayment(p, t) # NoPayment
      BY <3>2, ApplyPaymentType
    <3> QED BY <2>1, <3>1, <3>3
  <2>3. CASE t.insert # Keep
    <3>1. payment'[o].dated = (t.paid = "completed") /\ ~Dated(o)
      BY <1>5, <2>1, <2>3 DEF ApplyPayment
    <3> QED BY <1>5, <2>2, <3>1 DEF Dated
  <2>4. CASE t.insert = Keep
    <3>1. payment[o] # NoPayment /\ payment[o] \in PaymentRow
      BY <1>1, <1>5, <2>4, SubscriptionAssumption
    <3>2. payment'[o].dated = (payment[o].dated \/ t.paid = "completed")
      BY <2>1, <2>4, <3>1 DEF ApplyPayment, PaymentRow
    <3> QED BY <1>5, <2>2, <3>1, <3>2 DEF Dated
  <2> QED BY <2>3, <2>4
<1> QED BY <1>3, <1>4, <1>5

(* The steps the promise knows of.                                         *)
Stands ==
  UNCHANGED <<ledger, month>> /\ UNCHANGED <<Members, Renewers, Used>>
Uses(o) ==
  /\ Captured(o)
  /\ o \notin Used
  /\ Used' = Used \cup {o}
  /\ Members' = Members \cup {ledger[o].user}
  /\ Renewers' \in {Renewers, Renewers \cup {ledger[o].user}}
  /\ UNCHANGED <<ledger, month>>
Stops(u) ==
  /\ Renewers' = Renewers \ {u}
  /\ Members' \in {Members, Members \ {u}}
  /\ Used' = Used
  /\ UNCHANGED <<ledger, month>>

(* What a transaction does to the subscription and the tier of its user.   *)
StoredTier(t) ==
  /\ tier' = [tier EXCEPT ![t.user] =
                IF t.tier = Keep THEN tier[t.user] ELSE t.tier]
  /\ history' = [history EXCEPT ![t.user] =
                IF t.history = Keep THEN history[t.user] ELSE t.history]

LEMMA StoredSub ==
  ASSUME PaidInv, NEW t \in Txn, Stored(t), t.create => sub[t.user] = NoSub,
         NEW u \in User
  PROVE  /\ u # t.user => sub'[u] = sub[u]
         /\ u = t.user /\ ~t.create =>
              /\ sub'[u].status = IF t.status = Keep THEN sub[u].status ELSE t.status
              /\ sub'[u].autoRenew <=> (sub[u].autoRenew /\ ~t.stopRenew)
              /\ sub'[u].next = IF t.extend THEN month + 1 ELSE sub[u].next
         /\ u = t.user /\ t.create =>
              /\ sub'[u].status = "inactive" /\ sub[u].status = "none"
              /\ sub[u].next = 0 /\ sub'[u].next = 0
         /\ sub[u].next \in Nat
<1>1. sub \in [User -> SubRow \cup {NoSub}]
  BY DEF PaidInv, TypeOK
<1>2. sub[u].next \in Nat
  BY <1>1 DEF SubRow, NoSub
<1>3. u # t.user => sub'[u] = sub[u]
  BY <1>1 DEF Stored
<1>4. u = t.user => sub'[u] = ApplySub(sub[u], t)
  BY <1>1 DEF Stored
<1>5. CASE u = t.user /\ ~t.create
  <2>1. PICK a, b : /\ a = (IF t.status = Keep THEN sub[u].status ELSE t.status)
                    /\ b = (IF t.extend THEN month + 1 ELSE sub[u].next)
    OBVIOUS
  <2>2. PICK k, c : /\ k = (IF t.key = Keep THEN sub[u].key ELSE t.key = "set")
                    /\ c = (sub[u].autoRenew /\ ~t.stopRenew)
    OBVIOUS
  <2>3. sub'[u] = [status |-> a, autoRenew |-> c, key |-> k, next |-> b]
    BY <1>4, <1>5, <2>1, <2>2 DEF ApplySub
  <2>4. /\ sub'[u].status = a /\ sub'[u].next = b
        /\ sub'[u].autoRenew <=> (sub[u].autoRenew /\ ~t.stopRenew)
    <3>1. sub'[u].status = a /\ sub'[u].next = b /\ sub'[u].autoRenew = c
      BY <2>3
    <3>2. c <=> (sub[u].autoRenew /\ ~t.stopRenew)
      BY <2>2
    <3> QED BY <3>1, <3>2
  <2>5. /\ sub'[u].status = IF t.status = Keep THEN sub[u].status ELSE t.status
        /\ sub'[u].next = IF t.extend THEN month + 1 ELSE sub[u].next
    BY <2>1, <2>4
  <2> QED BY <1>2, <1>5, <2>4, <2>5, Zenon
<1>6. CASE u = t.user /\ t.create
  BY <1>2, <1>4, <1>6 DEF ApplySub, NoSub
<1> QED BY <1>2, <1>3, <1>5, <1>6

(* A transaction that completes a payment makes its order used.            *)
LEMMA PromiseCompletes ==
  ASSUME NoOverlap, PaidInv, MemberInv, RenewalInv, PromiseInv, MemberInv',
         NEW s \in Session, Commit(s),
         NEW l, l = session[s].todo, NEW t, t = Head(l).txn,
         t.paid = "completed", Stored(t), StoredTier(t),
         session'[s].todo = Tail(l), session'[s].due = session[s].due
  PROVE  PromiseInv' /\ t.order \in Order /\ Uses(t.order)
<1>1. /\ l \in Seq(Step) /\ l # <<>> /\ 1 \in 1..Len(l)
      /\ l[1].do = "commit" /\ l[1].txn = t /\ t \in Txn /\ Sound(t)
      /\ t.user \in User
      /\ t.order # NoOrder /\ t.insert = Keep => payment[t.order] # NoPayment
      /\ t.order \in Order /\ Captured(t.order)
  BY CommitTells
<1>2. PICK o \in Order : o = t.order
  BY <1>1
<1>3. /\ Len(l) = 1 /\ ~t.create /\ t.extend /\ ~t.stopRenew
      /\ t.status \in {Keep, "active"} /\ t.history = "premium"
  BY CompletionIsLast
<1>4. \A r \in Session : r = s
  BY DEF NoOverlap
<1>5. /\ TypeOK /\ month \in Nat
      /\ tier \in [User -> Tier] /\ history \in [User -> Tier]
  BY DEF PaidInv, TypeOK
<1>6. PICK m : m = Tail(l)
  OBVIOUS
<1>7. \A i \in 1..Len(m) : FALSE
  BY <1>1, <1>3, <1>6, HeadTailProperties
<1>8. m = <<>>
  <2>1. m \in Seq(Step) /\ Len(m) = 0
    BY <1>1, <1>3, <1>6, HeadTailProperties
  <2> QED BY <2>1, EmptySeq
<1>9. \A q \in Order : ~ToRecord(s, q)' /\ (ToRecord(s, q) <=> q = o)
  <2>1. Head(l) = l[1]
    BY <1>1, TailOf
  <2>2. \A q : ToRecord(s, q) <=> q = o
    BY <1>1, <1>2, <2>1 DEF ToRecord, Doing
  <2>3. \A q : ~ToRecord(s, q)'
    BY <1>6, <1>8 DEF ToRecord, Doing
  <2> QED BY <2>2, <2>3
<1>10. ledger' = ledger /\ month' = month
  BY DEF Stored
<1>11. \A q \in Order : Captured(q)' <=> Captured(q)
  BY <1>10 DEF Captured
<1>12. t.insert # Keep => ~Dated(t.order)
  <2>1. Honest(l[1])
    BY <1>1 DEF PromiseInv
  <2> QED BY <1>1, <2>1 DEF Honest
<1>13. ASSUME NEW q \in Order
       PROVE  Dated(q)' <=> Dated(q) \/ q = o
  BY <1>1, <1>2, <1>12, DatedStays
<1>14. ledger[o].user = t.user
  <2>1. PICK owner : OwnedBy(owner)
    BY DEF PaidInv, Owned
  <2>2. ledger[o].user = owner[o]
    BY <1>1, <1>2, <2>1 DEF OwnedBy
  <2>3. OrderOf(l[1]) = o /\ UserOf(l[1]) = t.user
    BY <1>1, <1>2 DEF OrderOf, UserOf
  <2> QED BY <1>1, <2>1, <2>2, <2>3 DEF OwnedBy
<1>15. ASSUME NEW u \in User
       PROVE  /\ u # t.user => sub'[u] = sub[u] /\ tier'[u] = tier[u]
              /\ sub[u].next \in Nat
              /\ u = t.user =>
                   /\ sub'[u].next = month + 1
                   /\ sub'[u].status \in {sub[u].status, "active"}
                   /\ sub'[u].autoRenew <=> sub[u].autoRenew
                   /\ tier'[u] = "premium"
  <2>1. /\ u # t.user => sub'[u] = sub[u]
        /\ u = t.user =>
              /\ sub'[u].status = IF t.status = Keep THEN sub[u].status ELSE t.status
              /\ sub'[u].autoRenew <=> (sub[u].autoRenew /\ ~t.stopRenew)
              /\ sub'[u].next = IF t.extend THEN month + 1 ELSE sub[u].next
        /\ sub[u].next \in Nat
    BY <1>1, <1>3, StoredSub
  <2>2. u # t.user => tier'[u] = tier[u]
    BY <1>5 DEF StoredTier
  <2>3. u = t.user => tier'[u] = "premium"
    <3>1. u = t.user => history'[u] = "premium"
      BY <1>3, <1>5 DEF StoredTier, Keep
    <3>2. history'[u] = tier'[u]
      BY DEF MemberInv, Agree
    <3> QED BY <3>1, <3>2
  <2> QED BY <1>3, <2>1, <2>2, <2>3
<1>16. Uses(o)
  <2>1. o \notin Used
    BY <1>9 DEF PromiseInv, Used
  <2>2. Used' = Used \cup {o}
    BY <1>13 DEF Used
  <2>3. Members' = Members \cup {t.user}
    BY <1>1, <1>15 DEF Members
  <2>4. \A u \in User : u # t.user => (u \in Renewers' <=> u \in Renewers)
    BY <1>15 DEF Renewers
  <2>5. t.user \in Renewers => t.user \in Renewers'
    BY <1>1, <1>15 DEF Renewers
  <2>6. Renewers' \in {Renewers, Renewers \cup {t.user}}
    <3>1. Renewers \subseteq User /\ Renewers' \subseteq User
      BY DEF Renewers
    <3> QED BY <2>4, <2>5, <3>1
  <2> QED BY <1>1, <1>2, <1>10, <1>14, <2>1, <2>2, <2>3, <2>6 DEF Uses
<1>17. ASSUME NEW q \in Order, Dated(q)'
       PROVE  Captured(q)' /\ \A r \in Session : ~ToRecord(r, q)'
  BY <1>1, <1>2, <1>4, <1>9, <1>11, <1>13, <1>17 DEF PromiseInv
<1>18. ASSUME NEW u \in User, NEW q \in Order, RenewalCaptured(u, q)'
       PROVE  ledger'[q].month < sub'[u].next
  <2>1. RenewalCaptured(u, q)
    BY <1>10, <1>18 DEF RenewalCaptured, Captured
  <2>2. ledger[q].month \in Nat /\ ledger[q].month <= month
    BY <2>1, CapturedMonth DEF RenewalInv, InTime, RenewalCaptured
  <2>3. CASE q = o
    BY <1>5, <1>10, <1>14, <1>15, <2>1, <2>2, <2>3 DEF RenewalCaptured
  <2>4. CASE q # o
    <3>1. ledger[q].month < sub[u].next
      BY <1>4, <1>9, <2>1, <2>4 DEF PromiseInv
    <3>2. CASE u = t.user
      BY <1>5, <1>10, <1>15, <2>2, <3>2
    <3>3. CASE u # t.user
      BY <1>10, <1>15, <3>1, <3>3
    <3> QED BY <3>2, <3>3
  <2> QED BY <2>3, <2>4
<1>19. ASSUME NEW d \in session[s].due
       PROVE  Renewable(d.user)'
  <2>1. /\ d.user # t.user /\ Renewable(d.user)
    BY <1>1 DEF PromiseInv, MemberInv, DueActive, UserOf
  <2>2. d.user \in User
    BY <1>5 DEF TypeOK, SessionState, Seen
  <2>3. sub'[d.user] = sub[d.user]
    BY <1>15, <2>1, <2>2
  <2> QED BY <1>10, <2>1, <2>3 DEF Renewable, CapturedBefore, RenewalCaptured, Captured
<1>20. Orderly(m)
  BY <1>7 DEF Orderly
<1>21. PromiseInv'
  BY <1>4, <1>6, <1>7, <1>17, <1>18, <1>19, <1>20 DEF PromiseInv
<1> QED BY <1>1, <1>2, <1>16, <1>21

(* Any other transaction leaves the orders as they were, and at most ends  *)
(* the membership of its user.                                             *)
LEMMA PromiseStores ==
  ASSUME NoOverlap, PaidInv, MemberInv, PromiseInv, MemberInv',
         NEW s \in Session, Commit(s),
         NEW l, l = session[s].todo, NEW t, t = Head(l).txn,
         t.paid # "completed", t.create => sub[t.user] = NoSub,
         Stored(t), StoredTier(t),
         session'[s].todo = Tail(l), session'[s].due = session[s].due
  PROVE  PromiseInv' /\ t.user \in User /\ (Stands \/ Stops(t.user))
<1>1. /\ l \in Seq(Step) /\ l # <<>> /\ 1 \in 1..Len(l)
      /\ l[1].do = "commit" /\ l[1].txn = t /\ t \in Txn /\ Sound(t)
      /\ t.user \in User /\ t.order \in Order \cup {NoOrder}
      /\ t.order # NoOrder /\ t.insert = Keep => payment[t.order] # NoPayment
  BY CommitTells
<1>2. \A r \in Session : r = s
  BY DEF NoOverlap
<1>3. /\ TypeOK /\ month \in Nat /\ tier \in [User -> Tier]
      /\ payment \in [Order -> PaymentRow \cup {NoPayment}]
  BY DEF PaidInv, TypeOK
<1>4. PICK m : m = Tail(l)
  OBVIOUS
<1>5. /\ m \in Seq(Step) /\ Orderly(m) /\ NoRenewal(m)
      /\ \A i \in 1..Len(m) : i + 1 \in 1..Len(l) /\ m[i] = l[i + 1]
  <2>1. Orderly(l)
    BY DEF PromiseInv
  <2>2. /\ m \in Seq(Step)
        /\ \A i \in 1..Len(m) : i + 1 \in 1..Len(l) /\ m[i] = l[i + 1]
    BY <1>1, <1>4, TailOf
  <2>3. Orderly(m) /\ NoRenewal(m)
    BY <1>1, <1>4, <2>1, OrderlyTail
  <2> QED BY <2>2, <2>3
<1>6. ledger' = ledger /\ month' = month
  BY DEF Stored
<1>7. \A q \in Order : ~ToRecord(s, q)' /\ ~ToRecord(s, q)
  <2>1. Head(l) = l[1]
    BY <1>1, TailOf
  <2>2. ~CompletesFirst(m)
    <3>1. Ready(l)
      BY DEF PaidInv
    <3> QED BY <1>1, <1>4, <3>1, TailCompletes DEF Charges
  <2>3. m # <<>> => Head(m) = m[1]
    BY <1>5, TailOf
  <2>4. \A q : ~ToRecord(s, q)
    BY <1>1, <2>1 DEF ToRecord, Doing
  <2>5. \A q : ~ToRecord(s, q)'
    BY <1>4, <2>2, <2>3 DEF ToRecord, Doing, CompletesFirst, Completing
  <2> QED BY <2>4, <2>5
<1>8. \A q \in Order : Captured(q)' <=> Captured(q)
  BY <1>6 DEF Captured
<1>9. t.insert # Keep => ~Dated(t.order)
  <2>1. Honest(l[1])
    BY <1>1 DEF PromiseInv
  <2> QED BY <1>1, <2>1 DEF Honest
<1>10. \A q \in Order : Dated(q)' <=> Dated(q)
  <2>1. ASSUME NEW q \in Order
        PROVE  Dated(q)' <=> Dated(q) \/ (t.order = q /\ t.paid = "completed")
    BY <1>1, <1>9, DatedStays
  <2> QED BY <2>1
<1>11. Used' = Used
  BY <1>10 DEF Used
<1>12. ASSUME NEW u \in User
       PROVE  /\ u # t.user => sub'[u] = sub[u] /\ tier'[u] = tier[u]
              /\ sub[u].next \in Nat
              /\ sub'[u].next = sub[u].next
              /\ sub'[u].status = "active" => sub[u].status = "active"
              /\ sub'[u].status = "active" /\ sub'[u].autoRenew => sub[u].autoRenew
              /\ tier'[u] = "premium" => tier[u] = "premium"
  <2>1. t.status # "active" /\ ~t.extend /\ t.tier # "premium"
    BY <1>1 DEF Sound
  <2>2. /\ u # t.user => sub'[u] = sub[u]
        /\ u = t.user /\ ~t.create =>
              /\ sub'[u].status = IF t.status = Keep THEN sub[u].status ELSE t.status
              /\ sub'[u].autoRenew <=> (sub[u].autoRenew /\ ~t.stopRenew)
              /\ sub'[u].next = IF t.extend THEN month + 1 ELSE sub[u].next
        /\ u = t.user /\ t.create =>
              /\ sub'[u].status = "inactive" /\ sub[u].status = "none"
              /\ sub[u].next = 0 /\ sub'[u].next = 0
        /\ sub[u].next \in Nat
    BY <1>1, StoredSub
  <2>3. /\ u # t.user => tier'[u] = tier[u]
        /\ tier'[u] = "premium" => tier[u] = "premium"
    BY <1>3, <2>1 DEF StoredTier
  <2>4. CASE u # t.user
    BY <2>2, <2>3, <2>4
  <2>5. CASE u = t.user /\ t.create
    BY <2>2, <2>3, <2>5
  <2>6. CASE u = t.user /\ ~t.create
    <3>1. sub'[u].status = "active" => sub[u].status = "active"
      BY <2>1, <2>2, <2>6
    <3>2. sub'[u].autoRenew => sub[u].autoRenew
      BY <2>2, <2>6
    <3>3. sub'[u].next = sub[u].next
      BY <2>1, <2>2, <2>6
    <3> QED BY <2>2, <2>3, <2>6, <3>1, <3>2, <3>3
  <2> QED BY <2>4, <2>5, <2>6
<1>13. Stands \/ Stops(t.user)
  <2>1. /\ Members' \subseteq Members /\ Renewers' \subseteq Renewers
        /\ \A u \in User : u # t.user => /\ (u \in Members') <=> (u \in Members)
                                         /\ (u \in Renewers') <=> (u \in Renewers)
    BY <1>12 DEF Members, Renewers
  <2>2. Members \subseteq User /\ Renewers \subseteq User
    BY DEF Members, Renewers
  <2>3. t.user \in Renewers' => t.user \in Members'
    BY DEF MemberInv, Agree, Members, Renewers
  <2>4. CASE t.user \in Renewers'
    <3>1. Members' = Members /\ Renewers' = Renewers
      BY <2>1, <2>2, <2>3, <2>4
    <3> QED BY <1>6, <1>11, <3>1 DEF Stands
  <2>5. CASE t.user \notin Renewers'
    <3>1. Renewers' = Renewers \ {t.user}
      BY <2>1, <2>2, <2>5
    <3>2. Members' \in {Members, Members \ {t.user}}
      BY <2>1, <2>2
    <3> QED BY <1>6, <1>11, <3>1, <3>2 DEF Stops
  <2> QED BY <2>4, <2>5
<1>14. ASSUME NEW q \in Order, Dated(q)'
       PROVE  Captured(q)' /\ \A r \in Session : ~ToRecord(r, q)'
  BY <1>2, <1>7, <1>8, <1>10, <1>14 DEF PromiseInv
<1>15. ASSUME NEW u \in User, NEW q \in Order, RenewalCaptured(u, q)'
       PROVE  ledger'[q].month < sub'[u].next
  <2>1. RenewalCaptured(u, q)
    BY <1>6, <1>15 DEF RenewalCaptured, Captured
  <2>2. ledger[q].month < sub[u].next
    BY <1>2, <1>7, <2>1 DEF PromiseInv
  <2> QED BY <1>6, <1>12, <2>2
<1>16. ASSUME NEW d \in session[s].due
       PROVE  Renewable(d.user)'
  <2>1. /\ d.user # t.user /\ Renewable(d.user)
    BY <1>1 DEF PromiseInv, MemberInv, DueActive, UserOf
  <2>2. d.user \in User
    BY <1>3 DEF TypeOK, SessionState, Seen
  <2>3. sub'[d.user] = sub[d.user]
    BY <1>12, <2>1, <2>2
  <2> QED BY <1>6, <2>1, <2>3 DEF Renewable, CapturedBefore, RenewalCaptured, Captured
<1>17. ASSUME NEW i \in 1..Len(m), NEW step, step = m[i]
       PROVE  Honest(step)'
  <2>1. Honest(step)
    BY <1>5, <1>17 DEF PromiseInv
  <2>2. step.do = "charge" => step.charge # "renewal"
    BY <1>5, <1>17 DEF NoRenewal, ChargesRenewal
  <2>3. CASE step.do = "charge"
    BY <2>2, <2>3 DEF Honest
  <2>4. CASE step.do # "charge"
    <3>1. PICK k : k = step.txn.order
      OBVIOUS
    <3>2. step.txn.insert # Keep => ~Dated(k)
      BY <2>1, <2>4, <3>1 DEF Honest
    <3>3. step.txn.insert # Keep => ~Dated(k)'
      <4>1. SUFFICES ASSUME step.txn.insert # Keep
                     PROVE  ~Dated(k)'
        OBVIOUS
      <4>2. step \in Step /\ Ready(l)
        BY <1>5, <1>17 DEF PaidInv
      <4>3. Sound(step.txn) /\ step.txn \in Txn
        BY <1>5, <1>17, <2>4, <4>2 DEF Ready, Step, CommitStep, ChargeStep
      <4>4. k \in Order
        BY <3>1, <4>1, <4>3 DEF Sound, Txn
      <4> QED BY <1>10, <3>2, <4>1, <4>4
    <3> QED BY <2>1, <2>4, <3>1, <3>3 DEF Honest
  <2> QED BY <2>3, <2>4
<1>18. \A i \in 1..Len(m) : Honest(m[i])'
  BY <1>17
<1>19. PromiseInv'
  BY <1>2, <1>4, <1>5, <1>14, <1>15, <1>16, <1>18 DEF PromiseInv
<1> QED BY <1>1, <1>13, <1>19

LEMMA PromiseCommits ==
  ASSUME NoOverlap, PaidInv, MemberInv, RenewalInv, PromiseInv, MemberInv',
         NEW s \in Session, Commit(s)
  PROVE  /\ PromiseInv'
         /\ \/ Hidden \/ Stands
            \/ \E o \in Order : Uses(o)
            \/ \E u \in User : Stops(u)
<1>1. PICK l : l = session[s].todo
  OBVIOUS
<1>2. PICK t : t = Head(l).txn
  OBVIOUS
<1>3. /\ l \in Seq(Step) /\ l # <<>> /\ l[1].do = "commit" /\ l[1].txn = t
  BY <1>1, <1>2, CommitTells
<1>4. TypeOK /\ UNCHANGED <<ledger, month>>
  BY DEF PaidInv, Commit
<1>5. CASE t.create /\ sub[t.user] # NoSub
  <2>1. Become(s, [due |-> {}, todo |-> <<>>]) /\ Hidden
    BY <1>1, <1>2, <1>4, <1>5 DEF Commit, Idle, Hidden
  <2>2. session'[s].todo = <<>> /\ session'[s].due = {}
    BY <1>4, <2>1, BecomeType, EmptySeq
  <2>3. t.paid # "completed"
    BY <1>1, <1>2, <1>5, CompletionIsLast
  <2>4. \A o \in Order : ~ToRecord(s, o)
    BY <1>1, <1>2, <2>3 DEF ToRecord, Doing
  <2>5. /\ <<>> \in Seq(Step) /\ Orderly(<<>>) /\ \A o : ~Waits(<<>>, o)
        /\ \A i \in 1..Len(<<>>) : Honest(<<>>[i])
    BY NothingFree DEF Proper, Waits
  <2> QED BY <2>1, <2>2, <2>4, <2>5, PromiseDecides
<1>6. CASE ~(t.create /\ sub[t.user] # NoSub)
  <2>1. Stored(t) /\ StoredTier(t) /\ Continue(s, Tail(l))
    BY <1>1, <1>2, <1>4, <1>6 DEF Commit, Stored, StoredTier
  <2>2. Tail(l) \in Seq(Step)
    BY <1>3, TailOf
  <2>3. session'[s].todo = Tail(l) /\ session'[s].due = session[s].due
    BY <1>4, <2>1, <2>2, ContinueType
  <2>4. CASE t.paid = "completed"
    BY <1>1, <1>2, <2>1, <2>3, <2>4, PromiseCompletes
  <2>5. CASE t.paid # "completed"
    BY <1>1, <1>2, <1>6, <2>1, <2>3, <2>5, PromiseStores
  <2> QED BY <2>4, <2>5
<1> QED BY <1>5, <1>6

-----------------------------------------------------------------------------
(* The bank and the clock.                                                 *)

LEMMA PromiseDeposits ==
  ASSUME PaidInv, PromiseInv, NEW o \in Order, Deposit(o)
  PROVE  /\ PromiseInv'
         /\ \E u \in User, c \in Charge : Takes(u, o, c)
<1>1. PICK c : c = [user |-> payment[o].user, order |-> o, charge |-> "deposit"]
  OBVIOUS
<1>2. /\ UNCHANGED <<tables, refused, month, session>>
      /\ payment[o] # NoPayment /\ TakeMoney(Nobody, c)
  BY <1>1 DEF Deposit
<1>3. PICK r : r = Receipt(Nobody, c)
  OBVIOUS
<1>4. /\ TypeOK /\ month \in Nat
      /\ ledger \in [Order -> Capture \cup {Uncaptured}]
      /\ payment \in [Order -> PaymentRow \cup {NoPayment}]
  BY DEF PaidInv, TypeOK
<1>5. PICK u \in User : u = payment[o].user
  BY <1>2, <1>4 DEF PaymentRow
<1>6. c.user = u /\ c.order = o /\ c.charge = "deposit" /\ "deposit" \in Charge
  BY <1>1, <1>5 DEF Charge
<1>7. /\ r \in Capture /\ r # Uncaptured
      /\ r.user = u /\ r.charge = "deposit" /\ r.month = month
  <2>1. r.user = u /\ r.charge = "deposit" /\ r.month = month
    BY <1>3, <1>6 DEF Receipt
  <2>2. Nobody \in Session \cup {Nobody}
    OBVIOUS
  <2> QED BY <1>3, <1>4, <1>6, <2>1, <2>2, ReceiptType
<1>8. ~Captured(o) /\ ledger' = [ledger EXCEPT ![o] = r]
  BY <1>2, <1>3, <1>6 DEF TakeMoney, Receipt
<1>9. /\ ledger'[o] = r
      /\ \A q \in Order : q # o => ledger'[q] = ledger[q]
  BY <1>4, <1>8
<1>10. sub' = sub /\ payment' = payment /\ month' = month /\ session' = session
  BY <1>2 DEF tables
<1>11. \A q : Dated(q)' <=> Dated(q)
  BY <1>10 DEF Dated
<1>12. \A q \in Order : Captured(q) => Captured(q)'
  BY <1>8, <1>9 DEF Captured
<1>13. \A s, q : ToRecord(s, q)' <=> ToRecord(s, q)
  BY <1>10 DEF ToRecord, Doing
<1>14. ASSUME NEW v, NEW q \in Order, RenewalCaptured(v, q)'
       PROVE  RenewalCaptured(v, q) /\ ledger'[q] = ledger[q]
  BY <1>7, <1>9, <1>14 DEF RenewalCaptured, Captured
<1>15. \A v : Renewable(v) => Renewable(v)'
  BY <1>10, <1>14 DEF Renewable, CapturedBefore
<1>16. ASSUME NEW s \in Session, NEW i \in 1..Len(session[s].todo),
              NEW step, step = session[s].todo[i]
       PROVE  Honest(step)'
  <2>1. Honest(step)
    BY <1>16 DEF PromiseInv
  <2> QED BY <1>11, <1>15, <2>1 DEF Honest
<1>17. \A q \in Order : Dated(q)' =>
         Captured(q)' /\ \A s \in Session : ~ToRecord(s, q)'
  BY <1>11, <1>12, <1>13 DEF PromiseInv
<1>18. \A v \in User, q \in Order : RenewalCaptured(v, q)' =>
         ledger'[q].month < sub'[v].next \/ \E s \in Session : ToRecord(s, q)'
  BY <1>10, <1>13, <1>14 DEF PromiseInv
<1>19. \A s \in Session :
         /\ Orderly(session[s].todo)
         /\ \A i \in 1..Len(session[s].todo) : Honest(session[s].todo[i])'
         /\ \A d \in session[s].due : Renewable(d.user)'
  <2>1. ASSUME NEW s \in Session
        PROVE  \A i \in 1..Len(session[s].todo) : Honest(session[s].todo[i])'
    BY <1>10, <1>16
  <2> QED BY <1>15, <2>1 DEF PromiseInv
<1>20. PromiseInv'
  BY <1>10, <1>17, <1>18, <1>19 DEF PromiseInv
<1>21. Takes(u, o, "deposit")
  <2>1. Paid' = [Paid EXCEPT ![o] = [user |-> r.user, charge |-> r.charge,
                                     month |-> r.month]]
    BY <1>4, <1>7, <1>8, MoneyIsPaid
  <2>2. Paid' = [Paid EXCEPT ![o] = [user |-> u, charge |-> "deposit",
                                     month |-> month]]
    BY <1>7, <2>1
  <2> QED BY <1>2, <1>8, <2>2 DEF Takes
<1> QED BY <1>6, <1>20, <1>21

(* A month passes: what was due stays due.                                 *)
Passes ==
  /\ month' = month + 1
  /\ UNCHANGED <<tables, ledger>>

LEMMA PromiseRests ==
  ASSUME PaidInv, PromiseInv, UNCHANGED <<tables, ledger, session>>,
         month' \in Nat, month <= month'
  PROVE  PromiseInv'
<1>1. /\ sub' = sub /\ payment' = payment /\ ledger' = ledger
      /\ session' = session /\ month \in Nat
  BY DEF tables, PaidInv, TypeOK
<1>2. /\ \A q : (Dated(q)' <=> Dated(q)) /\ (Captured(q)' <=> Captured(q))
      /\ \A u, q : RenewalCaptured(u, q)' <=> RenewalCaptured(u, q)
      /\ \A r, q : ToRecord(r, q)' <=> ToRecord(r, q)
  BY <1>1 DEF Dated, Captured, RenewalCaptured, ToRecord, Doing
<1>3. ASSUME NEW u, Renewable(u)
      PROVE  Renewable(u)'
  <2>1. ASSUME NEW q \in Order, RenewalCaptured(u, q)
        PROVE  ledger[q].month < month'
    <3>1. ledger[q].month \in Nat /\ ledger[q].month < month
      BY <1>3, <2>1, CapturedMonth DEF Renewable, CapturedBefore, RenewalCaptured
    <3> QED BY <1>1, <3>1
  <2> QED BY <1>1, <1>2, <1>3, <2>1 DEF Renewable, CapturedBefore
<1>4. ASSUME NEW s \in Session, NEW i \in 1..Len(session[s].todo),
             NEW step, step = session[s].todo[i]
      PROVE  Honest(step)'
  <2>1. Honest(step)
    BY <1>4 DEF PromiseInv
  <2> QED BY <1>2, <1>3, <2>1 DEF Honest
<1>5. \A s \in Session :
        /\ Orderly(session[s].todo)
        /\ \A i \in 1..Len(session[s].todo) : Honest(session[s].todo[i])'
        /\ \A d \in session[s].due : Renewable(d.user)'
  BY <1>3, <1>4 DEF PromiseInv
<1>6. \A o \in Order : Dated(o)' =>
        Captured(o)' /\ \A s \in Session : ~ToRecord(s, o)'
  BY <1>2 DEF PromiseInv
<1>7. \A u \in User, o \in Order : RenewalCaptured(u, o)' =>
        ledger'[o].month < sub'[u].next \/ \E s \in Session : ToRecord(s, o)'
  BY <1>1, <1>2 DEF PromiseInv
<1> QED BY <1>1, <1>5, <1>6, <1>7 DEF PromiseInv

LEMMA InitPromise == Init => PromiseInv
<1> SUFFICES ASSUME Init PROVE PromiseInv
  OBVIOUS
<1>1. \A s \in Session : session[s].todo = <<>> /\ session[s].due = {}
  BY DEF Init, Idle
<1>2. \A o \in Order : ~Captured(o) /\ ~Dated(o)
  BY DEF Init, Captured, Dated
<1>3. Orderly(<<>>) /\ \A i \in 1..Len(<<>>) : FALSE
  BY NothingFree, EmptySeq DEF Proper
<1> QED BY <1>1, <1>2, <1>3 DEF PromiseInv, RenewalCaptured

LEMMA NextKeepsPromise ==
  ASSUME NoOverlap, Faults = {}, PaidInv, MemberInv, MemberInv', RenewalInv,
         PromiseInv, [Next]_vars
  PROVE  /\ PromiseInv'
         /\ \/ Hidden \/ Stands \/ Passes
            \/ \E u \in User, o \in Order, c \in Charge : Takes(u, o, c)
            \/ \E o \in Order : Uses(o)
            \/ \E u \in User : Stops(u)
<1>1. CASE \E s \in Client : UserRequest(s) \/ Webhook(s)
  BY <1>1, PromiseRequests
<1>2. CASE \E s \in Worker : CheckRenewalsDue(s) \/ Renew(s)
  BY <1>2, PromiseScan, PromiseTurns DEF Renew
<1>3. CASE \E s \in Session : ChargeCard(s) \/ Commit(s) \/ Killed(s)
  BY <1>3, PromiseCharges, PromiseCommits DEF Killed
<1>4. CASE \E o \in Order : Deposit(o)
  BY <1>4, PromiseDeposits
<1>5. CASE NextMonth
  <2>1. month \in Nat /\ month' = month + 1
    BY <1>5 DEF PaidInv, TypeOK, NextMonth
  <2>2. UNCHANGED <<tables, ledger, refused, session>>
    BY <1>5 DEF NextMonth
  <2>3. PromiseInv'
    BY <2>1, <2>2, PromiseRests
  <2> QED BY <2>1, <2>2, <2>3 DEF Passes
<1>6. CASE UNCHANGED vars
  <2>1. /\ UNCHANGED <<tables, ledger, refused, session>> /\ month' = month
        /\ month \in Nat
    BY <1>6 DEF vars, PaidInv, TypeOK
  <2>2. PromiseInv'
    BY <2>1, PromiseRests
  <2> QED BY <2>1, <2>2 DEF Hidden
<1> QED BY <1>1, <1>2, <1>3, <1>4, <1>5, <1>6 DEF Next

-----------------------------------------------------------------------------
(* The promise is kept.                                                    *)

(* What Membership is told of the money of an order.                       *)
LEMMA PaidTells ==
  ASSUME PaidInv, NEW o \in Order
  PROVE  /\ Paid[o] = Promise!Untouched <=> ~Captured(o)
         /\ Captured(o) => /\ Paid[o].user = ledger[o].user
                           /\ Paid[o].charge = ledger[o].charge
                           /\ Paid[o].month = ledger[o].month
<1>1. PICK k : k = ledger[o]
  OBVIOUS
<1>2. k \in Capture \cup {Uncaptured}
  BY <1>1 DEF PaidInv, TypeOK
<1>3. Paid[o] = Taken(k)
  BY <1>1 DEF Paid
<1>4. CASE k = Uncaptured
  BY <1>1, <1>3, <1>4 DEF Taken, Captured, Promise!Untouched, Uncaptured
<1>5. CASE k # Uncaptured
  <2>1. PICK a, c, m : a = k.user /\ c = k.charge /\ m = k.month
    OBVIOUS
  <2>2. c # "none"
    BY <1>2, <1>5, <2>1 DEF Capture, Charge
  <2>3. Paid[o] = [user |-> a, charge |-> c, month |-> m]
    BY <1>3, <1>5, <2>1 DEF Taken
  <2>4. Paid[o].charge = c /\ Paid[o].user = a /\ Paid[o].month = m
    BY <2>3
  <2>5. Paid[o] # Promise!Untouched
    BY <2>2, <2>4 DEF Promise!Untouched
  <2> QED BY <1>1, <1>5, <2>1, <2>4, <2>5 DEF Captured
<1> QED BY <1>4, <1>5

LEMMA SameMoney ==
  ASSUME UNCHANGED ledger
  PROVE  UNCHANGED Paid
BY DEF Paid, Taken

LEMMA SameMembers ==
  ASSUME UNCHANGED tables
  PROVE  UNCHANGED <<Members, Renewers, Used>>
BY DEF tables, Members, Renewers, Used, Dated

(* What is due may be renewed: its user is a member who goes on, and has   *)
(* not been charged in this period.                                        *)
LEMMA TakesIsPaid ==
  ASSUME PaidInv, MemberInv, NEW u \in User, NEW o \in Order, NEW c \in Charge,
         Takes(u, o, c)
  PROVE  Promise!Next
<1>1. month \in Nat /\ UNCHANGED <<Members, Renewers, Used, month>>
  BY SameMembers DEF PaidInv, TypeOK, Takes
<1>2. Promise!TakeMoney(u, o, c)
  <2>1. Paid[o] = Promise!Untouched
    BY PaidTells DEF Takes
  <2> QED BY <1>1, <2>1 DEF Takes, Promise!TakeMoney
<1>3. CASE c = "renewal"
  <2>1. u \in Members \cap Renewers
    BY <1>3 DEF Takes, Renewable, Members, Renewers, MemberInv, Agree
  <2>2. ASSUME NEW q \in Order, Paid[q] # Promise!Untouched,
               Paid[q].charge = "renewal", Paid[q].user = u
        PROVE  Paid[q].month # month
    <3>1. /\ RenewalCaptured(u, q) /\ Captured(q)
          /\ Paid[q].month = ledger[q].month
      BY <2>2, PaidTells DEF RenewalCaptured
    <3>2. ledger[q].month < month
      BY <1>3, <3>1 DEF Takes, Renewable, CapturedBefore
    <3>3. ledger[q].month \in Nat
      BY <3>1, CapturedMonth
    <3> QED BY <1>1, <3>1, <3>2, <3>3
  <2>3. ~Promise!RenewedNow(u)
    BY <2>2 DEF Promise!RenewedNow
  <2>4. Promise!Renew(u, o)
    BY <1>2, <1>3, <2>1, <2>3 DEF Promise!Renew
  <2> QED BY <2>4 DEF Promise!Next
<1>4. CASE c # "renewal"
  <2>1. c \in {"confirm", "register", "deposit"}
    BY <1>4 DEF Charge
  <2>2. Promise!Pay(u, o, c)
    BY <1>2 DEF Promise!Pay
  <2> QED BY <2>1, <2>2 DEF Promise!Next
<1> QED BY <1>3, <1>4

LEMMA StepsKeepThePromise ==
  ASSUME NoOverlap, Faults = {}, PaidInv, MemberInv, MemberInv', RenewalInv,
         PromiseInv, [Next]_vars
  PROVE  [Promise!Next]_(Promise!membershipVars)
<1>1. CASE Hidden
  BY <1>1, SameMembers, SameMoney DEF Hidden, Promise!membershipVars
<1>2. CASE Stands
  BY <1>2, SameMoney DEF Stands, Promise!membershipVars
<1>3. CASE Passes
  <2>1. Promise!NextMonth
    BY <1>3, SameMembers, SameMoney DEF Passes, Promise!NextMonth
  <2> QED BY <2>1 DEF Promise!Next
<1>4. CASE \E u \in User, o \in Order, c \in Charge : Takes(u, o, c)
  BY <1>4, TakesIsPaid
<1>5. CASE \E o \in Order : Uses(o)
  <2>1. PICK o \in Order : Uses(o)
    BY <1>5
  <2>2. Paid[o] # Promise!Untouched /\ Paid[o].user = ledger[o].user
    BY <2>1, PaidTells DEF Uses
  <2>3. UNCHANGED <<Paid, month>>
    BY <2>1, SameMoney DEF Uses
  <2>4. /\ o \notin Used /\ Used' = Used \cup {o}
        /\ Members' = Members \cup {Paid[o].user}
        /\ Renewers' \in {Renewers, Renewers \cup {Paid[o].user}}
    BY <2>1, <2>2 DEF Uses
  <2>5. Promise!Use(o)
    BY <2>2, <2>3, <2>4 DEF Promise!Use
  <2> QED BY <2>5 DEF Promise!Next
<1>6. CASE \E u \in User : Stops(u)
  <2>1. PICK u \in User : Stops(u)
    BY <1>6
  <2>2. UNCHANGED <<Paid, Used, month>>
    BY <2>1, SameMoney DEF Stops
  <2>3. Promise!Stop(u)
    BY <2>1, <2>2 DEF Stops, Promise!Stop
  <2> QED BY <2>3 DEF Promise!Next
<1> QED BY <1>1, <1>2, <1>3, <1>4, <1>5, <1>6, NextKeepsPromise

LEMMA PromiseInductive ==
  ASSUME NoOverlap, Faults = {}
  PROVE  Spec => []PromiseInv
<1>1. PaidInv /\ MemberInv /\ MemberInv' /\ RenewalInv /\ PromiseInv
        /\ [Next]_vars => PromiseInv'
  BY NextKeepsPromise
<1> QED BY <1>1, InitPromise, PaidInductive, MemberInductive,
           RenewalInductive, PTL DEF Spec

(* Where sessions do not overlap and no answer or process is lost, the     *)
(* tables and TossPayments keep what premium membership promises: money is *)
(* taken once per order, a renewal only from a member whose membership     *)
(* goes on and once per period, and every order that has its effect was    *)
(* paid and not used before, whichever order anyone confirms.              *)
THEOREM TablesKeepThePromise ==
  ASSUME NoOverlap, Faults = {}
  PROVE  Spec => MembershipSpec
<1>1. Init => Promise!Init
  <2> SUFFICES ASSUME Init PROVE Promise!Init
    OBVIOUS
  <2>1. Members = {} /\ Renewers = {} /\ Used = {} /\ month = 0
    BY DEF Init, Members, Renewers, Used, Dated, NoSub
  <2>2. Paid = [o \in Order |-> Promise!Untouched]
    BY DEF Init, Paid, Taken, Promise!Untouched, Uncaptured
  <2> QED BY <2>1, <2>2 DEF Promise!Init
<1>2. PaidInv /\ MemberInv /\ MemberInv' /\ RenewalInv /\ PromiseInv
        /\ [Next]_vars => [Promise!Next]_(Promise!membershipVars)
  BY StepsKeepThePromise
<1> QED BY <1>1, <1>2, PaidInductive, MemberInductive, RenewalInductive,
           PromiseInductive, PTL DEF Spec, MembershipSpec, Promise!Spec
=============================================================================
