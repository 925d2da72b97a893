------------------------- MODULE SubscriptionService -------------------------
(***************************************************************************)
(* services/subscription.py with its endpoints and the renewal scheduler.  *)
(* Each operation is what it decides when it has read the tables: the list *)
(* of steps its session then works through.                                *)
(***************************************************************************)
EXTENDS SubscriptionDb

(* Variants a slip in the code would give, for the mutation checks.        *)
ActivateUnrecorded(u, o, read) ==
  [NoTxn(u) EXCEPT !.status = "active", !.extend = TRUE,
                   !.tier = "premium", !.history = "premium"]
InsertWithoutCount(u, o, kind, status) ==
  [NoTxn(u) EXCEPT !.order = o, !.insert = kind, !.paid = status]
CancellationKeepsTier(u) ==
  [NoTxn(u) EXCEPT !.status = "cancelled", !.stopRenew = TRUE]
OverdueWhateverStatus ==
  {u \in User : sub[u].autoRenew /\ sub[u].next <= month}
ExpiryUnrecorded(u) ==
  [NoTxn(u) EXCEPT !.status = "expired", !.stopRenew = TRUE, !.tier = "free"]
RenewalWithoutDate(u, o) ==
  [NoTxn(u) EXCEPT !.order = o, !.insert = "renewal", !.paid = "completed",
                   !.retries = 0, !.history = "premium"]

(* get_user_subscription finds only these.                                 *)
HasCurrent(u) == sub[u].status \in {"active", "inactive"}

(* create_subscription: reuse the inactive one or insert a new one.        *)
Create(u) == IF HasCurrent(u) THEN <<>>
             ELSE ToCommit([NoTxn(u) EXCEPT !.create = TRUE])

(* Columns every activation writes: status as far as it was read as        *)
(* something else, dates, tier and history.                                *)
Activate(u, o, read) ==
  [NoTxn(u) EXCEPT !.status = IF read = "active" THEN Keep ELSE "active",
                   !.extend = TRUE, !.tier = "premium",
                   !.history = "premium", !.order = o, !.paid = "completed"]

Insert(u, o, kind, status) ==
  [NoTxn(u) EXCEPT !.order = o, !.insert = kind, !.paid = status,
                   !.retries = 0]

-----------------------------------------------------------------------------
(* Requests.                                                               *)

(* /upgrade and /upgrade/bank-transfer: an order of a not yet active       *)
(* subscription waits for its payment.                                     *)
InitializePayment(s, u, o, kind) ==
  /\ kind \in {"initial", "bank_transfer"}
  /\ u \in active
  /\ tier[u] # "premium"
  /\ sub[u].status # "active"
  /\ Fresh(o)
  /\ Begin(s, Create(u) \o ToCommit(Insert(u, o, kind, "pending")))

(* /confirm: ask TossPayments to take the money, then activate.  Any user   *)
(* who is signed in may confirm any order that is not COMPLETED: also that *)
(* of a bank transfer, a failed renewal, or a payment that was completed   *)
(* before a late webhook.                                                  *)
ConfirmPayment(s, o) ==
  /\ active # {}
  /\ payment[o] # NoPayment
  /\ payment[o].status # "completed"
  /\ LET u == payment[o].user IN
     Begin(s, ToCharge(u, o, "confirm")
                \o ToCommit(Activate(u, o, sub[u].status)))

(* confirm_bank_transfer.  Nothing calls it yet; the administrator is      *)
(* taken to have seen the transfer and to confirm it once.                 *)
ConfirmBankTransfer(s, o) ==
  /\ "bank_transfer" \in Wired
  /\ payment[o] # NoPayment
  /\ payment[o].kind = "bank_transfer"
  /\ payment[o].status # "completed"
  /\ ~Dated(o)
  /\ ledger[o].charge = "deposit"
  /\ LET u == payment[o].user IN
     Begin(s, ToCommit(Activate(u, o, sub[u].status)))

(* /cancel, and the webhook that a billing key was cancelled.              *)
Cancellation(u) ==
  [NoTxn(u) EXCEPT !.status = "cancelled", !.stopRenew = TRUE,
                   !.tier = IF tier[u] = "premium" THEN "free" ELSE Keep,
                   !.history = "free"]
CancelSubscription(s, u) ==
  /\ sub[u].status = "active"
  /\ Begin(s, ToCommit(Cancellation(u)))
Cancel(s, u) ==
  /\ u \in active
  /\ tier[u] = "premium"
  /\ CancelSubscription(s, u)
WebhookKeyCancelled(s, u) ==
  /\ sub[u].key
  /\ CancelSubscription(s, u)

(* /billing/register: store the key; charge unless read as active.         *)
RegisterBillingKey(s, u, o) ==
  /\ u \in active
  /\ Fresh(o)
  /\ Begin(s, Create(u)
       \o ToCommit([NoTxn(u) EXCEPT !.key = "set"])
       \o IF sub[u].status = "active" THEN <<>>
          ELSE ToCharge(u, o, "register")
                 \o ToCommit([Activate(u, o, "inactive") EXCEPT
                                !.insert = "initial", !.retries = 0]))

(* DELETE /billing.                                                        *)
RemoveBillingKey(s, u) ==
  /\ u \in active
  /\ HasCurrent(u)
  /\ Begin(s, ToCommit([NoTxn(u) EXCEPT
       !.key = IF sub[u].key THEN "unset" ELSE Keep, !.stopRenew = TRUE]))

(* handle_payment_failure of a payment as it was read.                     *)
PaymentFailure(u, o, read) ==
  LET retries == IF read.retries < SuspendAt THEN read.retries + 1
                 ELSE SuspendAt
      failed == [NoTxn(u) EXCEPT !.order = o, !.retries = retries,
                   !.paid = IF read.status = "failed" THEN Keep ELSE "failed"]
  IN IF retries < SuspendAt THEN failed
     ELSE [failed EXCEPT
             !.status = IF sub[u].status = "suspended" THEN Keep
                        ELSE "suspended",
             !.tier = "free", !.history = "free"]

(* Webhook PAYMENT.FAILED: repeated, late, or both.                        *)
WebhookPaymentFailed(s, o) ==
  /\ o \in refused
  /\ payment[o] # NoPayment
  /\ Begin(s, ToCommit(
       PaymentFailure(payment[o].user, o, payment[o])))

(* request_deletion, the part about the subscription: the tier stays.      *)
DeleteAccount(s, u) ==
  /\ u \in active
  /\ LET leaving == [NoTxn(u) EXCEPT !.leave = TRUE] IN
     Begin(s, ToCommit(
       IF sub[u].status = "active"
         THEN [leaving EXCEPT !.status = "cancelled", !.stopRenew = TRUE]
         ELSE leaving))

-----------------------------------------------------------------------------
(* Renewal.  _renewal_scheduler of every worker process, and renew-all.    *)

Overdue == {u \in User : /\ sub[u].status = "active"
                         /\ sub[u].autoRenew
                         /\ sub[u].next # 0
                         /\ sub[u].next <= month}

CheckRenewalsDue(s) ==
  /\ s \in Worker
  /\ IsIdle(s)
  /\ Overdue # {}
  /\ Become(s, [Idle EXCEPT !.due =
       {[user |-> u, key |-> sub[u].key] : u \in Overdue}])
  /\ UNCHANGED <<tables, ledger, refused, month>>

Expiry(u) ==
  [NoTxn(u) EXCEPT !.status = "expired", !.stopRenew = TRUE,
                   !.tier = "free", !.history = "free"]
Renewal(u, o) ==
  [Insert(u, o, "renewal", "completed") EXCEPT !.extend = TRUE,
                                               !.history = "premium"]

(* process_auto_renewal.  The select in it returns the object the scan has *)
(* loaded, so it decides on the row as check_renewals_due saw it; for the  *)
(* same reason its branch for auto_renew = False is never taken from here. *)
ProcessAutoRenewal(s, d, o) ==
  /\ d \in session[s].due
  /\ session[s].todo = <<>>
  /\ d.key => Fresh(o)
  /\ Become(s, [due |-> session[s].due \ {d},
                todo |-> IF d.key
                           THEN ToCharge(d.user, o, "renewal")
                                  \o ToCommit(Renewal(d.user, o))
                           ELSE ToCommit(Expiry(d.user))])
  /\ UNCHANGED <<tables, ledger, refused, month>>

-----------------------------------------------------------------------------
(* TossPayments.  It takes the money of an order at most once, or refuses, *)
(* or its answer is lost: the exception ends the request, while a          *)
(* scheduler goes on with its next subscription.  A customer is taken to   *)
(* pay an order one way, by card or by transfer.                           *)

TakeMoney(s, c) ==
  /\ ~Captured(c.order)
  /\ ledger' = [ledger EXCEPT ![c.order] =
       [user |-> c.user, charge |-> c.charge, month |-> month,
        by |-> IF c.charge = "renewal" THEN s ELSE Nobody]]

(* A refused renewal is recorded as a failed payment, then handed to       *)
(* handle_payment_failure; any other refused charge ends its request.      *)
AfterRefusal(c) ==
  IF c.charge = "renewal"
    THEN ToCommit(Insert(c.user, c.order, "renewal", "failed"))
           \o ToCommit(PaymentFailure(c.user, c.order,
                 [status |-> "failed", retries |-> 0]))
    ELSE <<>>

ChargeCard(s) ==
  /\ Doing(s, "charge")
  /\ LET c == Head(session[s].todo) IN
     \/ /\ TakeMoney(s, c)
        /\ Continue(s, Tail(session[s].todo))
        /\ UNCHANGED refused
     \/ /\ refused' = IF Captured(c.order) THEN refused
                     ELSE refused \cup {c.order}
        /\ Continue(s, AfterRefusal(c))
        /\ UNCHANGED ledger
     \/ /\ "lost" \in Faults
        /\ TakeMoney(s, c) \/ UNCHANGED ledger
        /\ Continue(s, <<>>)
        /\ UNCHANGED refused
  /\ UNCHANGED <<tables, month>>

(* The transfer arrives at the bank.                                       *)
Deposit(o) ==
  /\ "bank_transfer" \in Wired
  /\ payment[o] # NoPayment
  /\ payment[o].kind = "bank_transfer"
  /\ TakeMoney(Nobody, [user |-> payment[o].user, order |-> o,
                        charge |-> "deposit"])
  /\ UNCHANGED <<tables, refused, month, session>>
=============================================================================
