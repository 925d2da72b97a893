------------------------ MODULE SubscriptionPlatform ------------------------
(***************************************************************************)
(* Premium membership: requests, webhooks and the renewal schedulers of    *)
(* several processes over the same tables, with TossPayments.              *)
(***************************************************************************)
EXTENDS SubscriptionService

Init ==
  /\ sub = [u \in User |-> NoSub]
  /\ tier = [u \in User |-> "free"]
  /\ active = User
  /\ history = [u \in User |-> "free"]
  /\ payment = [o \in Order |-> NoPayment]
  /\ ledger = [o \in Order |-> Uncaptured]
  /\ refused = {}
  /\ month = 0
  /\ session = [s \in Session |-> Idle]

UserRequest(s) ==
  \/ \E u \in User : Cancel(s, u) \/ RemoveBillingKey(s, u) \/ DeleteAccount(s, u)
  \/ \E u \in User, o \in Order : RegisterBillingKey(s, u, o)
  \/ \E u \in User, o \in Order, k \in Kind : InitializePayment(s, u, o, k)
  \/ \E o \in Order : ConfirmPayment(s, o) \/ ConfirmBankTransfer(s, o)

Webhook(s) ==
  \/ \E u \in User : WebhookKeyCancelled(s, u)
  \/ \E o \in Order : WebhookPaymentFailed(s, o)

Renew(s) ==
  \E d \in session[s].due, o \in Order : ProcessAutoRenewal(s, d, o)

Next ==
  \/ \E s \in Client : UserRequest(s) \/ Webhook(s)
  \/ \E s \in Worker : CheckRenewalsDue(s) \/ Renew(s)
  \/ \E s \in Session : ChargeCard(s) \/ Commit(s) \/ Killed(s)
  \/ \E o \in Order : Deposit(o)
  \/ NextMonth

Spec == Init /\ [][Next]_vars

-----------------------------------------------------------------------------
TypeOK ==
  /\ sub \in [User -> SubRow \cup {NoSub}]
  /\ tier \in [User -> Tier]
  /\ active \in SUBSET User
  /\ history \in [User -> Tier]
  /\ payment \in [Order -> PaymentRow \cup {NoPayment}]
  /\ ledger \in [Order -> Capture \cup {Uncaptured}]
  /\ refused \in SUBSET Order
  /\ month \in Nat
  /\ session \in [Session -> SessionState]

(***************************************************************************)
(* Properties that hold however sessions interleave, answers get lost and  *)
(* processes die.                                                          *)
(***************************************************************************)

Completed(p) == p # NoPayment /\ p.status = "completed"

(* The books never claim money that was not taken: a COMPLETED payment     *)
(* stands for a capture of the same user.                                  *)
CompletedIsCaptured ==
  \A o \in Order : Completed(payment[o]) =>
    Captured(o) /\ ledger[o].user = payment[o].user

(* A subscription becomes ACTIVE, a user PREMIUM, or a period is added     *)
(* only in the transaction that completes a captured payment of the user:  *)
(* no order serves twice, whatever overlaps, repeats or arrives late.      *)
Served(u) ==
  \/ sub'[u].status = "active" /\ sub[u].status # "active"
  \/ tier'[u] = "premium" /\ tier[u] # "premium"
  \/ sub'[u].next > sub[u].next

Pays(o, u) == /\ ~Completed(payment[o])
              /\ Completed(payment'[o])
              /\ payment'[o].user = u
              /\ Captured(o)

ServiceIsPaid == [][\A u \in User : Served(u) => \E o \in Order : Pays(o, u)]_vars

(* A scheduler renews a subscription at most once a period: of a user no   *)
(* two renewals are captured for the same session in the same period and   *)
(* recorded, whatever the requests and the other schedulers do meanwhile.  *)
(* The payment and the next billing date are one transaction, and a date   *)
(* is never brought forward again.                                         *)
RenewalRecorded(u, o) ==
  /\ Dated(o)
  /\ ledger[o].charge = "renewal"
  /\ ledger[o].user = u
RenewalRecordedOnce ==
  \A u \in User : \A o, q \in Order :
    /\ RenewalRecorded(u, o) /\ RenewalRecorded(u, q) /\ o # q
    /\ ledger[o].by = ledger[q].by
    => ledger[o].month # ledger[q].month

(***************************************************************************)
(* What makes CompletedIsCaptured and ServiceIsPaid inductive: what a      *)
(* session is about to commit has been paid, or is behind its charge.      *)
(***************************************************************************)

(* Only a transaction that completes a payment gives service.              *)
Sound(t) ==
  /\ t.status = "active" \/ t.tier = "premium" \/ t.extend
       => t.paid = "completed"
  /\ t.paid # Keep \/ t.retries # Same => t.order # NoOrder
  /\ t.insert # Keep => t.paid # Keep /\ t.retries # Same

Inserts(step, o) ==
  step.do = "commit" /\ step.txn.order = o /\ step.txn.insert # Keep
Charges(step, o) == step.do = "charge" /\ step.order = o

(* A step that completes a payment comes right behind the charge, or is    *)
(* next and its order is paid; one that updates a payment finds it.        *)
Ready(todo) ==
  \A i \in 1..Len(todo) : todo[i].do = "commit" =>
    LET t == todo[i].txn IN
    /\ Sound(t)
    /\ t.order # NoOrder /\ t.insert = Keep =>
         payment[t.order] # NoPayment \/ (i > 1 /\ Inserts(todo[i - 1], t.order))
    /\ t.paid = "completed" =>
         IF i = 1 THEN Captured(t.order) ELSE Charges(todo[i - 1], t.order)

UserOf(step) == IF step.do = "commit" THEN step.txn.user ELSE step.user
Creates(step, u) == step.do = "commit" /\ step.txn.create /\ step.txn.user = u

(* A step finds the subscription it is about, or the session begins by     *)
(* inserting it.                                                           *)
NeedsRow(step) ==
  step.do = "commit" =>
    /\ ~step.txn.create
    /\ \/ step.txn.status # Keep \/ step.txn.key # Keep
       \/ step.txn.extend \/ step.txn.order # NoOrder
Founded(todo) ==
  \A i \in 1..Len(todo) : NeedsRow(todo[i]) =>
    \/ sub[UserOf(todo[i])] # NoSub
    \/ i > 1 /\ Creates(todo[1], UserOf(todo[i]))
RowsExist ==
  /\ \A o \in Order : payment[o] # NoPayment => sub[payment[o].user] # NoSub
  /\ \A s \in Session : /\ Founded(session[s].todo)
                         /\ \A d \in session[s].due : sub[d.user] # NoSub

(* Whatever is about an order is about the same user.                      *)
OwnedBy(owner) ==
  \A o \in Order :
    /\ payment[o] # NoPayment => payment[o].user = owner[o]
    /\ Captured(o) => ledger[o].user = owner[o]
    /\ \A s \in Session : \A i \in 1..Len(session[s].todo) :
         OrderOf(session[s].todo[i]) = o =>
           UserOf(session[s].todo[i]) = owner[o]
Owned == \E owner \in [Order -> User \cup {"nobody"}] : OwnedBy(owner)

(* The money of an order waits to be recorded by one session only, and has *)
(* not been recorded.                                                      *)
ToRecord(s, o) ==
  /\ Doing(s, "commit")
  /\ Head(session[s].todo).txn.order = o
  /\ Head(session[s].todo).txn.paid = "completed"
RecordedOnce ==
  \A o \in Order : \A s \in Session : ToRecord(s, o) =>
    /\ ~Completed(payment[o])
    /\ \A r \in Session \ {s} : ~ToRecord(r, o)

PaidInv ==
  /\ TypeOK
  /\ CompletedIsCaptured
  /\ \A s \in Session : Ready(session[s].todo)
  /\ RowsExist
  /\ Owned
  /\ "bank_transfer" \notin Wired => RecordedOnce

(***************************************************************************)
(* Properties of sessions that do not overlap, with nothing lost.          *)
(***************************************************************************)

(* Who has an ACTIVE subscription is PREMIUM, and nobody stays PREMIUM     *)
(* beyond what was paid: while the account is there, its subscription is   *)
(* ACTIVE, or was cancelled in a period that is not over.                  *)
PaidUp(status, next, now) ==
  status = "active" \/ (status = "cancelled" /\ now < next)
TierFitsStatus ==
  \A u \in User :
    /\ sub[u].status = "active" => tier[u] = "premium"
    /\ u \in active /\ tier[u] = "premium" =>
         PaidUp(sub[u].status, sub[u].next, month)

(* The newest history row tells the tier of the user.                      *)
HistoryTellsTier == \A u \in User : history[u] = tier[u]

(* The tables and TossPayments together implement Membership.  An order    *)
(* has had its effect once its payment is dated; for whom the money was    *)
(* taken is no part of the promise.                                        *)
Members == {u \in User : tier[u] = "premium"}
Renewers == {u \in User : sub[u].status = "active" /\ sub[u].autoRenew}
Taken(c) == IF c = Uncaptured THEN c
            ELSE [user |-> c.user, charge |-> c.charge, month |-> c.month]
Paid == [o \in Order |-> Taken(ledger[o])]
Used == {o \in Order : Dated(o)}

Promise == INSTANCE Membership WITH
  member <- Members, renews <- Renewers, paid <- Paid, used <- Used

MembershipSpec == Promise!Spec

(***************************************************************************)
(* What the repository says of subscriptions and the code does not keep.   *)
(***************************************************************************)

(* 9,900 won a month: of a user no two renewals are captured in the same   *)
(* period.  Every worker process runs a scheduler of its own.              *)
RenewalCaptured(u, o) ==
  Captured(o) /\ ledger[o].charge = "renewal" /\ ledger[o].user = u
RenewedOnce ==
  \A u \in User : \A o, q \in Order :
    RenewalCaptured(u, o) /\ RenewalCaptured(u, q) /\ o # q =>
      ledger[o].month # ledger[q].month

(***************************************************************************)
(* What makes RenewalRecordedOnce inductive: a renewal that is under way   *)
(* comes after every renewal of its user its session has recorded, and     *)
(* every date a renewal sets is beyond the period of its capture.          *)
(***************************************************************************)

InTime ==
  /\ \A u \in User : sub[u].next <= month + 1
  /\ \A o \in Order : Captured(o) => ledger[o].month <= month

RenewedBefore(s, u, m) ==
  \A o \in Order :
    RenewalRecorded(u, o) /\ ledger[o].by = s => ledger[o].month < m

(* Whoever has yet to renew a subscription is a worker and sees it once.   *)
DueOnce(s) ==
  \A d \in session[s].due : /\ s \in Worker
                           /\ RenewedBefore(s, d.user, month)
                           /\ \A e \in session[s].due : e.user = d.user => e = d

(* A renewal is a charge and its record, or the record after the charge.   *)
Renewing(s, u, o) ==
  /\ s \in Worker
  /\ \/ /\ session[s].todo = ToCharge(u, o, "renewal") \o ToCommit(Renewal(u, o))
        /\ RenewedBefore(s, u, month)
     \/ /\ session[s].todo = ToCommit(Renewal(u, o))
        /\ Captured(o) /\ ledger[o].by = s
        /\ RenewedBefore(s, u, ledger[o].month)
  /\ \A d \in session[s].due : d.user # u

ChargesRenewal(step) == step.do = "charge" /\ step.charge = "renewal"
RenewsRight(s) ==
  /\ DueOnce(s)
  /\ \A i \in 1..Len(session[s].todo) : ChargesRenewal(session[s].todo[i]) =>
       \E u \in User, o \in Order : Renewing(s, u, o)
  /\ \A o \in Order : ToRecord(s, o) /\ ledger[o].charge = "renewal" =>
       \E u \in User : Renewing(s, u, o)

DatedIsCaptured == \A o \in Order : Dated(o) => Captured(o)

RenewalInv ==
  /\ InTime
  /\ DatedIsCaptured
  /\ \A s \in Session, u \in User : RenewedBefore(s, u, sub[u].next)
  /\ RenewalRecordedOnce
  /\ \A s \in Session : RenewsRight(s)

(***************************************************************************)
(* What makes TierFitsStatus and HistoryTellsTier inductive where          *)
(* sessions do not overlap: a session ends with the one transaction that   *)
(* touches status, tier or history, and that one leaves them in agreement. *)
(***************************************************************************)

NoOverlap == \A s, r \in Session : s = r

Quiet(t) == t.status = Keep /\ t.tier = Keep /\ t.history = Keep /\ ~t.leave

Agree(status, level, newest, stays) ==
  /\ status = "active" => level = "premium"
  /\ stays /\ level = "premium" => status = "active"
  /\ newest = level
Settles(t) ==
  /\ ~t.create
  /\ Agree(IF t.status = Keep THEN sub[t.user].status ELSE t.status,
           IF t.tier = Keep THEN tier[t.user] ELSE t.tier,
           IF t.history = Keep THEN history[t.user] ELSE t.history,
           t.user \in active /\ ~t.leave)

Settling(todo) ==
  \A i \in 1..Len(todo) : todo[i].do = "commit" =>
    \/ Quiet(todo[i].txn)
    \/ i = Len(todo) /\ Settles(todo[i].txn)

(* Who is still due is active, and is not whom the session is busy with.   *)
DueActive(s) ==
  \A d \in session[s].due :
    /\ sub[d.user].status = "active"
    /\ \A e \in session[s].due : e.user = d.user => e = d
    /\ \A i \in 1..Len(session[s].todo) : UserOf(session[s].todo[i]) # d.user

MemberInv ==
  /\ \A u \in User : Agree(sub[u].status, tier[u], history[u], u \in active)
  /\ \A s \in Session : Settling(session[s].todo) /\ DueActive(s)

(***************************************************************************)
(* What makes MembershipSpec inductive where, besides, nothing is lost: a  *)
(* charge is recorded in the next step, and only once.                     *)
(***************************************************************************)

CapturedBefore(u, m) ==
  \A o \in Order : RenewalCaptured(u, o) => ledger[o].month < m
Renewable(u) == /\ sub[u].status = "active" /\ sub[u].autoRenew
                /\ CapturedBefore(u, month)

(* Who is charged for a renewal goes on; completing a payment adds a       *)
(* period and ends nothing; no payment is inserted over a dated one.       *)
Honest(step) ==
  IF step.do = "charge"
    THEN step.charge = "renewal" => Renewable(step.user) /\ ~Dated(step.order)
    ELSE /\ step.txn.insert # Keep => ~Dated(step.txn.order)
         /\ step.txn.paid = "completed" =>
              /\ step.txn.extend /\ ~step.txn.stopRenew
              /\ step.txn.status \in {Keep, "active"}
              /\ step.txn.history = "premium"

(* What comes behind a charge completes its order; a renewal is charged    *)
(* first.                                                                  *)
Orderly(todo) ==
  \A i \in 1..Len(todo) : todo[i].do = "charge" =>
    /\ i < Len(todo)
    /\ todo[i + 1].do = "commit"
    /\ todo[i + 1].txn.paid = "completed"
    /\ todo[i + 1].txn.order = todo[i].order
    /\ todo[i].charge = "renewal" => i = 1

PromiseInv ==
  /\ \A o \in Order : Dated(o) =>
       Captured(o) /\ \A s \in Session : ~ToRecord(s, o)
  /\ \A u \in User, o \in Order : RenewalCaptured(u, o) =>
       ledger[o].month < sub[u].next \/ \E s \in Session : ToRecord(s, o)
  /\ \A s \in Session :
       /\ Orderly(session[s].todo)
       /\ \A i \in 1..Len(session[s].todo) : Honest(session[s].todo[i])
       /\ \A d \in session[s].due : Renewable(d.user)
=============================================================================
