--------------------------- MODULE SubscriptionDb ---------------------------
(***************************************************************************)
(* The tables behind premium membership, TossPayments, and the way a       *)
(* request or a scheduler touches them.                                    *)
(*                                                                         *)
(* A session reads the tables once, decides, and then works through a list *)
(* of steps: transactions to commit and charges to ask of TossPayments.    *)
(* What it writes depends on the rows as it read them (identity map, no    *)
(* expiry on commit, no row lock), so the list is fixed when the rows are  *)
(* read; every step is a point where others may get in between.            *)
(***************************************************************************)
EXTENDS Integers, Sequences

CONSTANTS
  User,       \* accounts
  Client,     \* sessions of requests that may be open at the same time
  Worker,     \* sessions that renew: a scheduler per uvicorn worker, renew-all
  Order,      \* the order ids that may be drawn
  LastMonth,  \* the last billing period of the run
  Faults,     \* "lost": an answer of TossPayments is lost; "killed": a process
  Wired       \* "bank_transfer": something calls confirm_bank_transfer

Session == Client \cup Worker

NoOrder == "no order"

ASSUME SubscriptionAssumption ==
  /\ LastMonth \in Nat
  /\ NoOrder \notin Order
  /\ Faults \subseteq {"lost", "killed"}

VARIABLES
  sub,      \* table subscriptions (user_id is unique)
  tier,     \* users.membership_tier
  active,   \* the users with is_active
  history,  \* new_tier of each user's newest row of subscription_history
  payment,  \* table subscription_payments
  ledger,   \* TossPayments and the bank: the money taken for each order
  refused,  \* TossPayments: the orders of which a charge was refused
  month,    \* the clock: billing periods of 30 days
  session   \* what each session still has to do

tables == <<sub, tier, active, history, payment>>
vars == <<tables, ledger, refused, month, session>>

-----------------------------------------------------------------------------
(* Rows.  next is the period in which next_billing_date falls, 0 for NULL; *)
(* key says whether a billing key is stored.                               *)

Tier == {"free", "premium"}
SubStatus == {"inactive", "active", "cancelled", "expired", "suspended"}
PaymentStatus == {"pending", "completed", "failed"}
Kind == {"initial", "renewal", "bank_transfer"}
SuspendAt == 3

SubRow == [status : SubStatus, autoRenew : BOOLEAN, key : BOOLEAN, next : Nat]
NoSub == [status |-> "none", autoRenew |-> FALSE, key |-> FALSE, next |-> 0]

(* retry_count stops at SuspendAt: more makes no difference to the code.   *)
(* dated says whether payment_date is set: completing a payment sets it    *)
(* and nothing clears it, also not a later failure.                        *)
PaymentRow == [user : User, kind : Kind, status : PaymentStatus,
               dated : BOOLEAN, retries : 0..SuspendAt]
NoPayment == [status |-> "none"]
Dated(o) == payment[o] # NoPayment /\ payment[o].dated

(* The money taken for an order: whose, by which call, in which period,    *)
(* and for which scheduler if it is for one.                               *)
Nobody == "nobody"
Charge == {"confirm", "register", "renewal", "deposit"}
Capture == [user : User, charge : Charge, month : Nat,
            by : Session \cup {Nobody}]
Uncaptured == [charge |-> "none"]
Captured(o) == ledger[o] # Uncaptured

-----------------------------------------------------------------------------
(* Steps of a session.  A transaction changes the row of one user and that *)
(* of one payment; Keep stands for a column it leaves alone.               *)

Keep == "keep"
Same == -1

Txn == [user : User,
        create : BOOLEAN,                     \* INSERT INTO subscriptions
        status : SubStatus \cup {Keep},
        stopRenew : BOOLEAN,
        key : {Keep, "set", "unset"},
        extend : BOOLEAN,                     \* next billing in 30 days
        tier : Tier \cup {Keep},
        history : Tier \cup {Keep},           \* INSERT INTO the history
        leave : BOOLEAN,                      \* is_active = False
        order : Order \cup {NoOrder},
        insert : Kind \cup {Keep},            \* INSERT the payment
        paid : PaymentStatus \cup {Keep},
        retries : {Same} \cup 0..SuspendAt]

NoTxn(u) == [user |-> u, create |-> FALSE, status |-> Keep,
             stopRenew |-> FALSE, key |-> Keep, extend |-> FALSE,
             tier |-> Keep, history |-> Keep, leave |-> FALSE,
             order |-> NoOrder, insert |-> Keep, paid |-> Keep,
             retries |-> Same]

CommitStep == [do : {"commit"}, txn : Txn]
ChargeStep == [do : {"charge"}, user : User, order : Order,
               charge : Charge \ {"deposit"}]

(* Variant for the mutation checks: without a secret key nobody is asked.  *)
ToChargeNobody(u, o, c) == <<>>

ToCommit(t) == <<[do |-> "commit", txn |-> t]>>

(* TOSS_SECRET_KEY is set, as it must be in production: without it nothing *)
(* is charged and every confirmation succeeds.                             *)
ToCharge(u, o, c) ==
  <<[do |-> "charge", user |-> u, order |-> o, charge |-> c]>>

(* A subscription check_renewals_due has read, with the key it had then.   *)
Seen == [user : User, key : BOOLEAN]

SessionState == [due : SUBSET Seen, todo : Seq(CommitStep \cup ChargeStep)]
Idle == [due |-> {}, todo |-> <<>>]

IsIdle(s) == session[s] = Idle
Doing(s, what) == session[s].todo # <<>> /\ Head(session[s].todo).do = what

Become(s, state) == session' = [session EXCEPT ![s] = state]
Continue(s, steps) == session' = [session EXCEPT ![s].todo = steps]

(* A request that has read the tables and goes on to its steps.            *)
Begin(s, steps) ==
  /\ s \in Client
  /\ IsIdle(s)
  /\ Continue(s, steps)
  /\ UNCHANGED <<tables, ledger, refused, month>>

(* An order id is drawn at random: nobody has it, also not in flight.      *)
OrderOf(step) == IF step.do = "commit" THEN step.txn.order ELSE step.order
Fresh(o) ==
  /\ payment[o] = NoPayment
  /\ ~Captured(o)
  /\ o \notin refused
  /\ \A s \in Session : \A i \in 1..Len(session[s].todo) :
       OrderOf(session[s].todo[i]) # o

-----------------------------------------------------------------------------
(* COMMIT.                                                                 *)

ApplySub(r, t) ==
  IF t.create
    THEN [status |-> "inactive", autoRenew |-> TRUE, key |-> FALSE, next |-> 0]
    ELSE [status    |-> IF t.status = Keep THEN r.status ELSE t.status,
          autoRenew |-> r.autoRenew /\ ~t.stopRenew,
          key       |-> IF t.key = Keep THEN r.key ELSE t.key = "set",
          next      |-> IF t.extend THEN month + 1 ELSE r.next]

ApplyPayment(p, t) ==
  IF t.insert # Keep
    THEN [user |-> t.user, kind |-> t.insert, status |-> t.paid,
          dated |-> t.paid = "completed", retries |-> t.retries]
    ELSE [p EXCEPT !.status = IF t.paid = Keep THEN @ ELSE t.paid,
                   !.dated = @ \/ t.paid = "completed",
                   !.retries = IF t.retries = Same THEN @ ELSE t.retries]

(* The unique constraint on user_id refuses a second subscription of a     *)
(* user, whatever its status; the request fails with what was left of it.  *)
Commit(s) ==
  /\ Doing(s, "commit")
  /\ UNCHANGED <<ledger, refused, month>>
  /\ LET t == Head(session[s].todo).txn IN
     IF t.create /\ sub[t.user] # NoSub
       THEN Become(s, Idle) /\ UNCHANGED tables
       ELSE /\ sub' = [sub EXCEPT ![t.user] = ApplySub(@, t)]
            /\ tier' = [tier EXCEPT ![t.user] =
                          IF t.tier = Keep THEN @ ELSE t.tier]
            /\ history' = [history EXCEPT ![t.user] =
                             IF t.history = Keep THEN @ ELSE t.history]
            /\ active' = IF t.leave THEN active \ {t.user} ELSE active
            /\ payment' = IF t.order = NoOrder THEN payment
                          ELSE [payment EXCEPT ![t.order] = ApplyPayment(@, t)]
            /\ Continue(s, Tail(session[s].todo))

(* A process dies with its sessions: what they have not committed is lost. *)
Killed(s) ==
  /\ "killed" \in Faults
  /\ ~IsIdle(s)
  /\ Become(s, Idle)
  /\ UNCHANGED <<tables, ledger, refused, month>>

(* Thirty days pass.                                                       *)
NextMonth ==
  /\ month < LastMonth
  /\ month' = month + 1
  /\ UNCHANGED <<tables, ledger, refused, session>>
=============================================================================
