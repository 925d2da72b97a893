# A formal model of the PilaMatch back end

PilaMatch brings Pilates and yoga studios together with substitute instructors.
This directory holds TLA+ modules translated from its back end
(`src/backend/app`), TLC configurations that check them on small instances, and
TLAPS proofs of the results that matter most. `PROJECT.json` links every
definition to the lines it models, every property to the runs that check it,
and lists hazards and findings.

## 1. The system

Browser (Next.js) -> nginx -> FastAPI (4 uvicorn workers in production, each with
an hourly renewal scheduler in its lifespan) -> PostgreSQL 15, Redis,
TossPayments, SMS, e-mail and the tax office's business-number service.

Every request gets an `AsyncSession` (`db/session.py`) with
`expire_on_commit=False` and `autoflush=False`. The session keeps each row it has
loaded and never refreshes it by itself; nothing takes a row lock
(`FOR UPDATE`) or keeps a version column; PostgreSQL runs at READ COMMITTED; an
UPDATE writes the columns the request changed. So **a request decides on the rows
as it read them and writes later**, and what other requests commit in between is
the main source of hard behaviour. The front end repeats failed requests (up to
three attempts on 5xx and network errors), so every operation may run twice.

| Component | State | Operations | Interacts with | Hard behaviour | What makes it correct |
|---|---|---|---|---|---|
| Contract service | `contracts`, `contract_event_logs` | create from offer, sign, confirm, reject, cancel, report no-show, completion sweep | disputes, event log, notifications, account deletion | overlapping requests of the two parties, stale reads, two-commit operations, timeouts | work only when signed, completion earned, evidence kept |
| Dispute service | `disputes`, `users.no_show_count` | open, object, expire, decide, penalise | contracts, users | decision races, lost increments, deadline | a dispute is charged once, third no-show suspends |
| Account deletion | `users`, contracts, subscription | request, cancel, anonymise | contracts, subscriptions, login | cascade past the transition table, 30-day timer | nothing active left, nobody can enter once it is anonymised |
| Subscription service | `subscriptions`, `subscription_payments`, `subscription_history`, `users.membership_tier` | create, pay, confirm, cancel, billing key, renew, retry, bank transfer | TossPayments, webhook, scheduler of every worker, cron endpoint | duplicate charges, a charge whose answer is lost, retries, cancel racing renew | service is paid for, tier fits what is paid, renewed once per period |
| Hiring | `job_posts`, `applications`, `offers`, `contracts`, `users.daily_*`, `daily_usage_limits` | post, apply, withdraw, offer, accept, reject, make a contract, view a profile | contracts, membership tier | usage committed before the application, withdrawal racing acceptance, lost counts, midnight | one offer per application, one contract per offer, limits accounted for |
| Authentication | `users`, signed tokens, blacklist in Redis or in a worker's memory | signup, login, refresh, logout, forgotten password, delete, cancel, anonymise | every request | check-then-act on the blacklist, Redis away, tokens of several lives, requests authenticated before | an entry of the blacklist outlives its token, an anonymised account stays closed |
| Phone and business verification | Redis keys with times to live, `users` | request a code, verify it, verify a number | SMS, tax office | commands of two requests interleave, dying between INCR and EXPIRE, SMS or tax office away | attempts bounded, locks lift, no typing errors |
| Reviews and ratings | `reviews`, rating columns of profiles | create, update, delete | contracts, profiles | measured before the flush, a deletion in two commits | a count is right or mended by the next request |
| Trust score | `users.trust_score` | compute, refresh | contracts, reviews, profiles | scale with steps, clamping | a stored score falls only for a cause |
| Matching, completeness, recurring schedule | none | pure functions | profiles, posts, contracts | truncation, weights, windows of days | a better profile never loses, the next session is the first left |
| Chat | `chat_threads`, `chat_messages` | create thread, send, read | contracts, disputes | check-then-insert | one thread per contract |
| Notifications | Redis lists | push, mark read | all services | index read before a concurrent push | marks what was read |
| Profiles, job templates, reports, blocks, support, upload, e-mail, documents | tables, files | CRUD, I/O | - | little | - |
| Front end, nginx, migrations | - | - | API | retries | - |

## 2. What is modelled

### Modules

| Module | Models |
|---|---|
| `ContractStates` | the two parties, statuses, `VALID_TRANSITIONS`, dispute enums |
| `ContractDb` | the tables behind contracts, transactions, sessions, COMMIT, lost requests, authentication of a request, time and chat |
| `ContractService` | `services/contract.py` and its endpoints: sign, confirm, cancel, reject, report no-show, completion sweep |
| `DisputeService` | `services/dispute.py`: objection, expiry, decision, penalty |
| `AccountDeletion` | `request_deletion` with the cascade over contracts |
| `ContractLifecycle` | abstract specification: what the parties are promised, every operation at once |
| `ContractPlatform` | composition, properties, the inductive invariant |
| `MCContractPlatform` | instances for TLC |
| `ContractPlatform_proofs` | type correctness, evidence, reasons for every status; for requests that do not overlap the event log, the penalties and the refinement of `ContractLifecycle` |
| `SubscriptionDb` | the tables behind membership, TossPayments' ledger, the clock, sessions and their steps, COMMIT, dying processes |
| `SubscriptionService` | `services/subscription.py`, its endpoints and webhooks, the renewal scheduler, the subscription part of account deletion |
| `Membership` | abstract specification: who is a member, and which order's money made them one |
| `SubscriptionPlatform` | composition, properties, the inductive invariant, the refinement mapping |
| `MCSubscriptionPlatform` | instances for TLC |
| `Subscription_proofs` | what the steps of every operation are like, and that service is paid for, under all interleavings |
| `Membership_proofs` | renewals are recorded once by each scheduler, under all interleavings; for sessions that do not overlap tier, history and the refinement of `Membership` |
| `HiringDb` | the tables of hiring, the plans of requests, their transactions and constraints |
| `HiringService` | `services/job_post.py`, `application.py`, `offer.py`, `daily_usage.py`, `create_from_offer`, and the clocks |
| `HiringPlatform` | composition, properties, the inductive invariant, the refinement mapping |
| `Recruitment` | abstract specification: what hiring promises candidates and studios |
| `MCHiringPlatform` | instances for TLC |
| `Hiring_proofs` | what holds under all interleavings; for requests that do not overlap the refinement of `Recruitment` and the counters |
| `Access` | accounts, tokens, the blacklist: `endpoints/auth.py`, `services/auth.py`, `core/security.py`, `core/deps.py`, the account's part of `account_deletion.py` |
| `MCAccess`, `Access_proofs` | instances; the inductive invariant and five theorems |
| `Verification` | `services/verification.py`, every Redis command a step |
| `BusinessNumber` | the checksum and the tax office (`nts_client.py`) |
| `MCVerification`, `Verification_proofs` | instances; type correctness, the bound on attempts, the checksum |
| `ProfileCompleteness` | `services/profile_completeness.py`, used by `HiringService` and `TrustScore` |
| `TrustScore` | `services/trust_score.py` as an operator |
| `Reputation` | reviews, ratings and trust scores over contracts and facts that change |
| `MCReputation`, `Reputation_proofs` | instances; sums over finite sets, counts of reviews, trust scores |
| `Matching`, `RecurringSchedule` | `services/matching.py`, `services/recurring_schedule.py` as operators |
| `JobBoard` | what an instructor is shown while profile, posts and days change |
| `MCJobBoard`, `JobBoard_proofs` | instances; every property of the board |

Contracts and membership meet in `users` only: deleting an account cascades into
both, and each subsystem models its part (`AccountDeletion`; `DeleteAccount` of
`SubscriptionService`; the account itself is in `Access`). Beside `is_active`, which
only the deletion takes away, neither reads what the other writes, so they are
checked apart. Hiring hands over to the contracts at `create_from_offer`:
`CreateContract` of `HiringService` makes the row that is the initial state of
`ContractPlatform`; nothing in `services/contract.py` reads offers afterwards. Hiring reads
`membership_tier` (the constant `Premium`); trust scores read completed contracts,
reviews and profiles, which `Reputation` has as state of its own.

### Contracts: how state and actions correspond to the code

`row[c]` is a row of `contracts`: `status`, who signed (`studio_signed_at`,
`instructor_signed_at`), whether `content_hash` is set, who confirmed, whether
`cancellation_reason` is set; `logged` is `to_status` of the newest entry in
`contract_event_logs`. A timestamp is set or not set; how old it is, where the
code asks, is in `aged` (a confirmation older than 24 h), `over` (class ended more than 48 h ago)
and `late` of a dispute (objection deadline passed), which the clock actions
set. `chatted` says whether the contract's thread holds a message.

A request is split where the code lets others in: an operation (`Sign`,
`ConfirmCompletion`, ...) is everything from the first query to the first commit:
it evaluates the guards on the rows as they are and leaves in `session[s]` the
transactions the request will commit, each with the changed columns only.
`Commit` applies one. Requests with two commits (`RejectCompletion`: dispute and
status, then the log entry; `ReportNoShow`: dispute, then cancellation) carry the second in `next`, computed from the same
read, because the identity map returns the same object again. Resolving a
dispute has a third point: disputes are read first, the penalised users and the
contract later (`Resolve`, `FinishResolving`). The guards of `Sign`,
`ConfirmCompletion` and `RejectCompletion` read the row once in the code, too
(`get_by_id`). `Drop` loses a request between two commits (worker killed,
connection lost).

A foreign key that is broken aborts the transaction on PostgreSQL, and is not
noticed by the SQLite of the tests: `ForeignKeys` chooses. The event log service
swallows the error of its flush, but the session is unusable afterwards and the
commit fails, so the model fails the transaction as a whole.

Operations nothing in the repository calls (the completion sweep, expiry of
disputes, objection, decision; `process_expired_deletions` in `Access`) are modelled
behind `Wired`: the passing runs call them, because they are the documented rest of
the design.

### Membership: how state and actions correspond to the code

`sub[u]` is the row of `subscriptions` (`user_id` is unique): status,
`auto_renew`, whether a billing key is stored, and `next`, the period of 30 days
in which `next_billing_date` falls (0 for NULL). `tier`, `active` and `history`
are `users.membership_tier`, `users.is_active` and the newest row of
`subscription_history`. `payment[o]` is the row of `subscription_payments` with
order id `o`: the user of its subscription, type, status, `retry_count` and, as
`dated`, whether `payment_date` is set, which a later failure does not clear.
`ledger[o]` is what TossPayments or the bank took for order `o` and, for a renewal, which
scheduler asked for it (`by`); `refused` are the
orders it refused; `month` is the clock in the same periods of 30 days.

An operation is one action that reads the tables, evaluates its guards and leaves in
`session[s].todo` the list of what its session will do: transactions to commit
(`Commit`) and charges to ask of TossPayments (`ChargeCard`), in the order of the
code. What a transaction writes is fixed by the rows as read: with
`expire_on_commit=False` the session never reads them again. So every point
between two database or HTTP calls that matters is a point where others step in.
A charge is answered, refused, or its answer is lost with or without the money
taken (an exception that is no `ValueError`: a request ends, a scheduler goes on
with its next subscription). That TossPayments takes the money of an order id only
once is an assumption about an external system; the code has no check of its own. `Killed` ends a session
between two steps.

`CheckRenewalsDue` is the first query of the scheduler (`main.py:113`) and of
`/renew-all`; it fills `session[s].due` with the rows as read, and
`ProcessAutoRenewal` works on them one by one. The `select` at
`subscription.py:259` returns the same objects, so what has changed since is not
seen, and the branch for `auto_renew = False` is not reachable from the scan.
An order id is drawn with `uuid4`; `Fresh` is its uniqueness. Retries stop at
three, more makes no difference. `confirm_bank_transfer` has no caller: `Wired`.

`ConfirmPayment` takes any order that is not COMPLETED, of whatever type and whoever's, from any
signed-in user, as the code does (`subscription.py:108-127`): a failed renewal
and a bank transfer that is still pending among them. Three things are taken for granted
about the outside: `TOSS_SECRET_KEY` is set, as it must be in production (without it nothing is charged and
every confirmation succeeds, `subscription.py:170-172`); an order is paid
by card or by transfer, not both; and the administrator who confirms a transfer has seen it
and confirms it once.

### Hiring: how state and actions correspond to the code

`post[j]` is a row of `job_posts` (status, `application_count`), `application[<<j, i>>]` the
row of post and instructor (the pair is unique), `offer[o]` one of `offers` with the application
it answers or `Direct`, `contracts[o]` the number of contracts of an offer. `usage[u]` holds
the columns of `users` that count a free user's day, `tracked[u]` the rows of
`daily_usage_limits` of each day that are kept for analytics; `late` and `today` are clocks.
Midnight (`NextDay`) may come at any moment, between the two transactions of an
application too: a plan carries the day its request saw when it looked at the clock
(`wanted.day`), and a row the day it is inserted on (`created`).

An operation reads and decides in one action and leaves a plan in `session[s]`: what it
will write, computed from what it has read. `CommitUsage`, `CommitInsert`, `CommitOffer`,
`CommitAnswer`, `CommitContract`, ... are its transactions. An application of a free user has two, the
daily counter and then the row with the post's count, since
`check_and_increment_usage` commits by itself. Where the code queries again before it
writes there is a step between (`ReadCount` of a withdrawal, `ReadApplication` of
an answer). Unique columns refuse a second row at the commit (`Refuse`). Columns a
request did not change keep what others wrote (`Merge`). `Killed` loses a request.
An endpoint that only lists is no action; `reset_daily_limits` has no caller.

### Accounts and tokens

`account[a]` is a row of `users`: the address and how often it has been hashed,
`is_active`, `deletion_scheduled_at`, and whether a password can match. A token is a
record of what is signed into it; `issued` is the set of those that somebody can have,
two tokens minted for a user in one second are the same but for a reset token's `jti`.
`blacklist` is Redis, `memory[s]` the dictionary of the worker that serves request `s`,
which takes over while Redis is away (`RedisFails`). Every request that
presents a token has two steps, the checks before the first query and what it does with the row
(`Present`, then `Logout`, `RequestDeletion`, `CancelDeletion` or
`Forbidden`; `Refresh`, `Rotate`; `ResetPassword`, `CommitReset`), and revoking is a
step of its own (`Revoke`). The clock moves between requests only, so a request is
shorter than a tick; tokens that have expired and keys Redis has dropped are
forgotten at `Tick`.

### Verification

`code`, `cooldown` and `attempts` are the Redis keys of a phone as what is left of their
time to live; `attempts` may have none (`Forever`) between INCR and EXPIRE. Each awaited
command is a step, so `session[s].at` names the next. That six digits are those of the code is a choice.
`VerifyBusiness` asks the tax office, which may not answer; then the checksum decides
(`IsOperating`).

### Reviews, trust, matching, schedules

`Reputation`: `review[c][a]` is the row of contract and author, `profile[u]` the average (in
hundredths) and count that are stored, `fact[u]` what else a score is computed from, `trust[u]`
what is stored of it, `refreshed` who has refreshed within the hour (`HourPasses` ends it). `basis[u]` is
history: what the stored score was computed from, nothing while it is still the 40 points a user
starts with. A refresh reads in one step and stores in another (`RefreshTrust`, `CommitTrust`). A request has `loaded` the profile and `measured` the reviews before it
writes; columns that are the same are not written. The trust score, completeness,
matching and dates are operators (`TrustScore`, `ProfileCompleteness`, `Matching`,
`RecurringSchedule`) with the branches of the code; a listing is the set of what is shown, without its order (premium
studios first, then by score, then the newest). `Reputation` and `JobBoard` let everything they are
computed from change, one edit at a time, so that properties relate the value before an
edit to the value after. Averages and percentages are whole numbers; the code divides in floating
point, and the instances use values where both agree (section 5 names three where they do not).

### Abstractions and bounds

* One studio and one instructor; every contract is between them. Authorization
  by profile is the choice of `p`; a third party is refused before any change.
  Reports of a no-show name the other party (the endpoint accepts any profile of
  the other role).
* A contract starts as `create_from_offer` leaves it.
* Amounts, texts, notifications (best effort, no guard depends on them) and
  the content of evidence are left out.
* Bounds of the runs: sets of contracts, sessions and dispute identifiers; two
  overlapping sessions suffice for every read/commit race of two requests, and
  the proofs remove the bound for the invariants they cover. `NoChat` keeps the
  failing branch out of `contract_concurrent`, `ClocksStill` the clocks of the sweep
  out of `penalties`, which does not call it.
* Membership: amounts, plans, card numbers and messages are left out; every
  amount is 9,900 won. Webhooks are taken as TossPayments sends them, with a valid
  signature, repeated and late. `PAYMENT.COMPLETED` changes nothing in the code
  and so is no action. One user suffices for the properties, which are about each
  user alone (no transaction writes rows of two); the theorems hold for any number.
  In `subscription_concurrent` each of two sessions is a request or a scheduler as it pleases, on two orders
  and two periods: every overlap of two payments, renewals or cancellations, two schedulers included.
  `FewFailures`: one of the orders fails until it suspends, or both fail once; the theorems do not need it.
  Two of the initial states are members of
  old, with and without a key (`MemberInit`), whose order precedes the run; so two orders and three periods give
  `subscription_serial` two renewals, a failure confirmed later by hand, an expiry, and a first payment with its renewal.
* Hiring: texts, regions, pay and times of a post are left out; so are notifications. A
  profile is the set of its fields that are filled (`Profile`), since applying asks for its completeness.
  `Limit` is 1 instead of 5 and 5 (`models/daily_usage.py:32-33`), so that the limit is met by the second attempt.
  `hiring_concurrent` takes one post, two instructors (one of them premium) and two
  offers: two requests can then meet at every row; `hiring_serial` takes two posts, a
  viewer and two days: a limit needs a second post, a reset a second day, and the midnight between them
  falls inside requests as well as between them. That a
  post is counted down below zero is excluded by the code (`NoWrite`).
* Access: access, refresh and reset tokens live 1, 2 and 0 ticks (until the next tick), a blacklist entry 2,
  the grace period is 1, three ticks in
  all: time enough for two accounts to use, give up and hash one address after each other, where the hashes could collide.
  The assumption keeps the order of the settings (a blacklist entry lives as
  long as the longest token, a reset token shorter than the grace period). `HashedTwice`: an address is hashed
  at most twice; `FewEntries`: states with more than one blacklist entry are not followed further.
  The theorems need neither. Left out: three reset mails per hour (fewer mails, no other
  state), third-party login, the wording of errors.
* Verification: one phone, two requests, limit 3 instead of 5, lives of 2, 1 and 3 ticks; the
  fallback to a worker's own memory while Redis does not answer is not modelled. Two numbers that differ in the
  ninth digit, where the checksum has its carry, stand for all; they are chosen so that
  a sum without the carry cannot tell them apart.
* Reputation: one instructor and one studio, two contracts, ratings 1 and 5, five contracts completed
  before, so that the next is over a step of the scale; the studio writes the reviews, the instructor edits
  a profile and refreshes a score; requests one after the other. Certificates are in the theorem only. Each role
  fills in fields of its own (`Field` is per user).
* Job board: three kinds of posts whose wishes stand at the edges of the percentages
  (rates of 97 and 98 per cent of the least asked for, a rate beyond the most, regions of which one contains the other);
  least and most are any two of `SomeRates`, the most below the least too, which the code does not refuse;
  schedules over a week with one and two days, nine days.
* Symmetry: contracts, sessions, disputes and offers are interchangeable; it
  is used only in runs without liveness.
* Deadlock is not checked where the system really stops: once every contract is terminal, every
  account deleted and every clock has run out, nothing is left to do. It is checked in
  `verification` and `reputation`.

## 3. Runs

| Run | Instance | Shows |
|---|---|---|
| `contract_concurrent` | 1 contract, 2 sessions, 1 dispute, everything wired | `TypeOK`, `SignedBeforeWork`, `CompletionIsEarned`, `DisputedHasDispute`, `CancelledHasReason`, `EvidenceKept` under all interleavings |
| `contract_serial` | 2 contracts, 1 session | the tables refine `ContractLifecycle` when requests do not overlap; `TransitionsLogged`: the newest event tells the status, but for three named gaps (deletion, a decided dispute, a rejection that dies between its commits) |
| `penalties` | 3 reported no-shows, 1 session | `OnePenaltyPerDispute`; `SuspendedForThree`: who is suspended has lost three no-show disputes, and who has lost three is suspended |
| `subscription_concurrent` | 1 user, 2 sessions, each a request or a scheduler, 2 orders, answers lost, processes killed | `TypeOK`, `CompletedIsCaptured`, `RenewalRecordedOnce`, `ServiceIsPaid` under all interleavings |
| `subscription_serial` | 1 user, 1 session, 2 orders, 3 periods, bank transfers wired, nothing lost | `TierFitsStatus`: ACTIVE is premium and premium is paid up; `HistoryTellsTier`; and tables with ledger refine `Membership` |
| `renewed_once` | violated, two schedulers | two workers charge the same period |
| `hiring_concurrent` | 1 post, 2 instructors, 2 offers, 2 sessions, killed | `TypeOK`, `OneOfferPerApplication`, `OneContractPerOffer`, `CountIsEarned`, `NeverAgain` under all interleavings |
| `hiring_serial` | 2 posts, 1 instructor, 1 viewer, 2 days, 1 session, killed, midnight inside requests | the limits account for every application (`UsageAccounts`), counters and analytics agree (`TrackedAgrees`), the post's count follows (`CountFollows`), and the tables refine `Recruitment` |
| `access` | 2 accounts, 1 address, 2 requests, Redis away, killed, deletions processed | `TypeOK`, `OneAccountPerEmail` (addresses hashed twice included), `RevokedStaysRefused`: an entry in Redis stays until its token has expired, `AnonymisedStays` |
| `verification` | 1 phone, 2 requests, killed, with fairness | `TypeOK`, `AttemptsBounded`, `LockLifts`, `NoTypingErrors` |
| `reputation` | 2 users, 2 contracts, 1 session, killed | `CountRecovers`; `NeverFallsUnearned`: a stored trust score falls only for a cause that came up since it was last computed |
| `job_board` | 2 posts of 3 kinds, 2 schedules, 9 days | `BetterNeverHurts`, `FullScoreIsDeserved`, `NextIsTheFirst` |

The contract runs are on the schema the tests use, which enforces no foreign key
(`ForeignKeys = FALSE`); the theorems about contracts hold with and without.

Fairness (`Verification!FairSpec`): time passes (`Tick`), and a worker that lives goes on
with what it has begun (`Step(s)`): that is what Redis' clock and asyncio give. Nobody has to ask
for a code or type one, no SMS has to arrive, and dying is an action of its own that
needs no fairness. `LockLifts` says a lock ends unless a death between two
commands has left a count without a time to live, which is the one way to lock a phone for
ever. The other specifications state no fairness: no scheduler calls the sweeps of
contracts, disputes and deletions, and what membership should reach it does not (section 5).

Some properties hold for requests that do not overlap only, and these are limits of the
code, not of the model. `OnePenaltyPerDispute` and the refinement of `ContractLifecycle`: two overlapping decisions of
one dispute both pass the guard in `resolve_manually` and charge twice, and stale
writes leave terminal states. `SuspendedForThree`: decisions of two disputes about one user that overlap
add to the same count, so one of the increments is lost and the third no-show does not suspend (`dispute.py:331`).
`TierFitsStatus`, `HistoryTellsTier` and the refinement of
`Membership`: a confirmation that read the row as ACTIVE and commits after a
cancellation sets the tier and leaves the status CANCELLED. `UsageAccounts`, `CountFollows` and the refinement of
`Recruitment`: two overlapping applications read the same counters, so one update is lost
and the daily limit is passed. `CountRecovers`: two overlapping reviews may write the
average of one and the count of the other. `NeverFallsUnearned`: of two overlapping refreshes the one
that has read earlier may store last. `RenewalRecordedOnce` holds under overlap, of each scheduler by itself;
`renewed_once` shows that two of them renew the same period. `ServiceIsPaid` is checked and proved
without bank transfers: two overlapping calls of `confirm_bank_transfer` would both
extend the same order.

## 4. Proofs

Every property of a passing run but `LockLifts` is a theorem, for every
value of the constants the assumptions allow. A property is hardly ever inductive, because a request
decides long before it writes; each proof therefore rests on an invariant that
says what is true of the writes in flight. The invariants are stated beside the properties they
support, and TLC checked each on the instances of the runs; those of `Verification_proofs` are stated with their proofs.

### Contracts (`ContractPlatform_proofs`)

For any sets of contracts, sessions and (finite) disputes, any wiring, with and
without foreign keys, all interleavings:

* `TypeCorrect`: `Spec => []TypeOK`. One lemma per operation shows that it leaves
  a well-formed transaction, `CommitType` that applying one keeps the tables
  well-formed.
* `EvidenceIsKept`: only `Commit` writes contract rows, and `ApplyRow` adds.
* `WorkIsSigned`, `CompletionTakesBoth` (where nothing but the parties completes),
  `ThreeSuspend` (count and suspension are written together; what overlapping requests lose of the count, section 3, is
  not in it). `EvidenceInv` adds what
  is true of every transaction in flight: the status it is about to write is
  justified by the evidence in the row together with the evidence it brings
  (`Justified`). Since evidence only grows (`EvidenceGrows`), other commits cannot
  invalidate that, and `CommitKeeps` turns the justification into the property.
* `CompletionsAreEarned`, `DisputesAreKept`, `CancellationsHaveReasons`: a completed contract has both
  confirmations, a timeout or a decision; a disputed one its dispute; a cancelled one a reason or
  a decision. `AccountInv` asks of each transaction in flight that the reason for the status it
  writes is in the tables or in the transaction (`Accounted`), and that the identifier of a dispute it opens is not
  in use nor opened by anybody else (`OpensNew`), so that no commit overwrites the dispute another status rests on.

With `OneRequest` (at most one session; section 3 says why overlapping requests break these):

* `LogTellsStatus`, `PenaltiesAreEarned` and the refinement `TablesImplementLifecycle`
  (`Spec => LifecycleSpec`). `SerialInv` says that what is in flight still fits the tables as they are
  (`Ready`): applied now, the rest of the request is a step of the lifecycle (`Moves`), its log entry tells the status or it is in
  one of the three gaps (`LogsRight`), and each penalised party's new count is covered by the no-show disputes that are
  resolved once it commits (`CountsRight`). A rejection has two commits, so `Ready` is about both, the second on
  the rows the first leaves.

### Membership (`Subscription_proofs`, `Membership_proofs`)

For any users, requests, schedulers and orders, any number of periods, answers
lost and processes killed (from `Init`; the members of old of the runs are an
addition of the instances):

* `SubscriptionTypeCorrect`, `BooksAreTrue` (`CompletedIsCaptured`) and, as long as
  nothing confirms bank transfers, `ServiceIsPaidFor` (`ServiceIsPaid`).
  The inductive invariant is `PaidInv`: a step that
  completes a payment stands right behind its charge, or is next and its order is
  captured (`Ready`); a step finds the rows it updates, or the session is about to
  insert them (`Founded`, `RowsExist`); everything about one order, in tables, ledger
  and flight, is about one user (`Owned`); and the money of an order waits to
  be recorded by one session at most, and has not been recorded (`RecordedOnce`), which is
  what bank transfers would break. Each operation's steps are shown to be of this kind (`Plan`, joined by
  `PlansJoin`); `DecideKeeps` shows that deciding on such steps, being answered or dying keeps
  the invariant, `CommitKeeps` that working through them does.
* `RenewalsAreRecordedOnce`: no scheduler has two renewals of a user captured in one period and recorded, among any number of
  requests and other schedulers, and although anybody may confirm the order of a renewal that failed. `RenewalInv` says that
  a recorded order was captured (`DatedIsCaptured`), that a renewal under way and the rows the scheduler has yet to work on
  come after every renewal of their user it has recorded (`Renewing`, `DueOnce`, `RenewedBefore`), as stale as they may be, and that
  no billing date is more than a period away (`InTime`), so that recording a renewal moves the date beyond the period it was captured in.
* `TierIsPaidUp` and `HistoryIsTrue`, when sessions do not overlap (`NoOverlap`), with lost answers and
  kills: `MemberInv` says that a session touches status, tier and history in its last transaction only, which leaves the
  three in agreement (`Settling`), so dying before it changes nothing; and that whoever the scheduler still
  has to renew is active and not the one it is busy with (`DueActive`). `TierFitsStatus` leaves open what
  a cancelled member may keep until the period ends, about which code and documentation differ (section 5).
* `TablesKeepThePromise` (`Spec => MembershipSpec`), when besides no answer is lost and nothing is killed (`Faults = {}`):
  `PromiseInv` adds that an order that had its effect was captured and nobody is about to record it again, that a renewal captured is
  recorded or recorded by the next step, that a charge is followed by its record
  (`Orderly`), and that each step is what the promise allows, whichever order is confirmed (`Honest`). With answers lost the money
  of a charge may never be recorded (section 5), which is why `Faults` must be empty here.

### Hiring (`Hiring_proofs`)

For any posts, finite set of instructors, viewers, offers, sessions, limits and days: `HiringInvariant`
(`Spec => []HiringInv`) and from it
`HiringTypeCorrect`, `NoSecondOffer`, `NoSecondContract`, `CountNeverAhead` and `AppliedOnce`.
`RowsFounded` says what rows refer to; `PlansFounded` that a plan refers to rows that are there when
it is written (applications and offers are never deleted, and a post with
applications is not either); `OffersApart` that two plans do not bring the same id;
`PlansEarned` that a count in flight is at most one above the applicants the post
has, if the plan brings the applicant with it (`Counting`, `Earned`), and since applicants never become
fewer (`ApplicantsStay`) no other commit makes it too high. `CommitInsert` then turns "one above" into
the count by adding exactly one applicant (`OneMoreApplicant`).

With one session (`OneAtATime`), requests dying between their transactions:

* `HiringKeepsItsPromise` (`Spec => RecruitmentSpec`). The mapping hides what is planned, so each transaction must be shown to be a step
  of the promise although it was decided earlier. `SerialInv` adds that what the request
  in progress rests on is still so (`PlansCurrent`: the post is open and the slot free, the application still waits, the offer is
  still unanswered) and that offers too late to accept are offers somebody made (`LateMade`). The delicate case is time: an offer that
  lapses while it is being accepted in time counts as lapsed only when that request dies (`Lapsed`, `KilledFulfils`).
* `ApplicationsAreCounted` (`UsageAccounts`) and `AnalyticsAgree` (`TrackedAgrees`), with midnight at any moment: `UsageInv` says of a plan
  about counters that it rests on what is in the tables and on the day it has seen (`Due`), and that, from any day until today,
  the applications and the one a request has been charged for (`Carrying`) are covered by the limits of the days that are over and
  by today's counter (`Balanced`), but for the one attempt the midnight before that day may have carried over.
  A request that dies in between leaves the counter ahead, never behind.
* `CountFollowsApplications`: `TallyInv` keeps the count above the applications that wait, so a withdrawal always finds a
  count to lower and never meets the guard against negative counts.

### Accounts and tokens (`Access_proofs`)

For any accounts (numbered, as rows are updated in the order of ids), addresses, workers,
lives of tokens in the order of the settings, and any faults: `AccessInvariant` and from it
`AccessTypeCorrect`, `RevokedForLife`, `AddressesAreUnique` and `AnonymisedForEver`.
`AccessInv` adds that tokens were minted for accounts that exist (`TokensFounded`), that a reset
token of an account whose deletion is pending was minted a grace period before it is due
(`ResetInTime`), that an account without a password was due (`AnonymisedWasDue`), and what each
request in progress rests on (`PlansFounded`): one that resets a password has a token that is not expired.
`AnonymisedForEver` is the arithmetic of these: minted + Grace <= deletion <= now <=
minted + ResetLife contradicts ResetLife < Grace. `RevokedForLife` is about entries in Redis: each outlives its token (`EntriesOutliveTokens`),
and nothing but its time takes it off (`EntriesStay`). What a worker keeps in its own memory while Redis is away
is not in it, and is not seen by the others (section 5).

### Verification (`Verification_proofs`)

For any users, phones, finite set of requests, limit above one and times to live:
`VerificationTypeCorrect` and `AttemptsAreBounded`. The count of a phone together with the requests that may
still count for it is the inductive quantity: it grows only when a request passes `CheckLock`, and then
the count is below the limit and at most every session is guessing; counting moves one from the one to the other.

`TypingErrorsAreRefused` (`NoTypingErrors`) is about all ten-digit numbers: every stored number passes the
checksum (`NumbersSound`), and no two that do differ in one digit. The weights are prime to ten, so a
wrong digit among the first eight changes the sum modulo ten; the ninth counts five times and
carries, and five times a digit plus its carry is different modulo ten for each of the ten digits; the tenth is the check digit.

### Reviews and the job board (`Reputation_proofs`, `JobBoard_proofs`)

* `CountsRecover` (`CountRecovers`), with one session: `MeasuredInv` says that a request that is about to write a rating has read
  the profile as it is and counted the reviews there are; the commit then adds, keeps or has removed one.
* `NoScoreFallsUnearned` (`NeverFallsUnearned`), with one session, for any fields of each user and any certificates: `ScoredInv` says
  that a stored score is that of its basis, and that phone, business, completed contracts and age in what a refresh has read
  are no older than in the basis, nor the present ones than in what it has read (`Outlasts`), whatever else changes between reading and storing;
  `KnownInv` that what scores are computed from are
  numbers and fields that have a weight. The completeness of a profile and the sum of ratings are folds over finite
  sets, about which the library of theorems says nothing, so the module first shows what it needs of `SumFunctionOnSet`: the function
  the fold is computed by exists and is unique (`SumsExist`, `SumsAgree`), and a sum unfolds (`SumUnfolds`), is a natural
  number (`SumIsNat`), can be split at any element (`SumSplits`) and does not fall when the set grows (`SumGrows`). Induction over the set
  is replaced by taking a smallest subset for which the claim fails (`SmallestSubset`, from the
  well-foundedness of strict inclusion). Then each kind of points grows with what it is computed from (`RatingPointsGrow`, ...), the averages
  at which floating point falls a point short included, and so does the clamped total (`ScoreGrows`).
* `JobBoardTypeCorrect`, `FullScoresAreDeserved`, `NextSessionIsFirst` and `BetterProfilesNeverHurt`, for any posts,
  profiles, regions, schedules and days. Each of the four parts of a score is a percentage that grows with the profile and is
  full only when what is asked for is there (for the rate: near the least the instructor asks, or beyond the most); their truncations cost less than one per cent each, the rounding of the
  total gains half of one. `NextSessionIsFirst` needs that the dates of a schedule are those and only those its weekdays
  give. The arithmetic is that of whole numbers (section 2).

### Assumptions, and what is left to TLC

Assumptions about constants: `DbAssumption`, `SubscriptionAssumption`, `HiringAssumption`,
`AccessAssumption`, `VerificationAssumption`, `ReputationAssumption`, `JobBoardAssumption`, `MatchingAssumption`; TLC evaluates
each on the instances. `OneRequest`, `NoOverlap`, `OneAtATime` and `Faults = {}` are hypotheses of the
theorems named above, never of the specifications; the runs of those properties have one session, too.

Only model-checked: `LockLifts`, which is liveness.

## 5. Divergences from what the repository says

Shown by a run (see `findings`): `renewed_once`. Seen while modelling and visible in
the definitions, without a run of their own:

Contracts, disputes, membership:

* A request that read a contract before another ended it writes its own status over the
  terminal one (`contract.py:535`, against the empty sets at `contract.py:26,28`): `Commit` after `Commit`.
* When both parties sign or confirm at the same time, each request misses the other's and the contract
  waits (`contract.py:257`, `341`; `README.md:467,475` of the repository let the second party settle it).
* Rejecting a completion names a profile where `disputes.reported_against` refers to users
  (`contract.py:408`, `models/dispute.py:33`), so PostgreSQL refuses the dispute that `contract.py:386` announces.
* Nothing calls `auto_complete_pending_contracts`, so a contract that only one
  party confirmed waits for ever, where `contract.py:434` describes a timeout.
* `contracts.py:455` says a no-show can be reported only after the contract
  date; the code checks the status only, and so does `ReportNoShow`.
* `dispute.py:307` reads `msg.sender_id`, messages have `sender_user_id`: with a
  message in the thread, a no-show cannot be reported and a completion not rejected.
* Two decisions about one user that overlap may lose a no-show, and the suspension with it (`dispute.py:331`).
* The sweep logs as a system user no migration creates, so PostgreSQL refuses it.
* Nothing calls `auto_resolve_expired_disputes`; when it runs it leaves the
  contract of a completion dispute DISPUTED, and `resolve_manually` then refuses it.
* `README.md:471-477` of the repository allows PENDING_COMPLETION -> CANCELLED and
  knows no DISPUTED; the code's table does the opposite.
* Failures are counted per payment and each renewal is a new payment, so refused renewals never
  suspend (`subscription.py:317`, `403`; `enums.py:93` says they do).
* A charge whose answer is lost is money taken without service: the webhook that confirms it changes
  nothing (`endpoints/subscription.py:215`; `docs/premium_membership_implementation.md:74-75` says it activates).
* A member without a billing key never expires (`subscription.py:652`; `enums.py:92`: expires at the end of the period).
* Cancelling takes the premium tier at once, where `docs/premium_membership_implementation.md:79-85`
  says the service goes on until the end of the billing period and `enums.py:91` that CANCELLED expires then.
* `/confirm` takes any order that is not COMPLETED from any signed-in user, that of a failed renewal or of a pending bank
  transfer too (`subscription.py:108-127`).
* A user whose subscription was cancelled, suspended or has expired cannot start another:
  `create_subscription` inserts a second row against the unique `user_id`. Only an
  order still pending from before can reactivate it.
* A repeated or late `PAYMENT.FAILED` turns a COMPLETED payment into FAILED.
* Deleting an account cancels the subscription and leaves the tier premium.
* A registration of a billing key that is repeated charges again, under a new order id.
* The models have a table (`event_logs`) and two columns
  (`contracts.recurring_days`, `recurring_end_date`) that no migration creates. The model
  takes the schema of the models, which is what the tests run on.

Hiring:

* Accepting an offer writes ACCEPTED over an application that was withdrawn (`offer.py:155`); `Recruitment!Settle` allows it.
* Overlapping applications to a post lose counts, and two of one user on different posts pass the daily limit (`daily_usage.py:80`).
* An attempt counted before midnight may be inserted after it, so a day may see one application more than its limit (`daily_usage.py:94`, `application.py:95`).
* The attempt is used up when the application is not inserted afterwards (`application.py:75`).
* `last_viewed_profiles` is changed in place, which SQLAlchemy does not notice, so only
  the first profile of a day is remembered and later ones are charged at every view (`daily_usage.py:187`).
* Deleting a post that has applications fails on their NOT NULL column instead of deleting them.
* A contract of a direct offer lasts the microseconds between two calls of `utcnow` (`contract.py:128-156`), so its
  total amount is about zero; one of an offer for an application takes the hours of the post.

Accounts, tokens, verification:

* A deletion cannot be cancelled: `cancel_deletion` is for active users, and a pending one is inactive, where `auth.py:222` and `265`
  promise thirty days to do so and `account_deletion.py:63` is written for it. The passing runs say nothing for or against it.
  `process_expired_deletions` has no caller; it would anonymise anonymised accounts again, and one
  address that is taken rolls back all of them.
* A reset token is single-use only while requests do not overlap, and resetting revokes no
  session, although `auth.py:349-350` says both.
* The blacklist is in Redis or in one worker's memory: a token revoked while Redis is away is accepted by the others, and
  by all when Redis is back. Optional and websocket authentication do not ask the blacklist at all.
* A lock counts its life from the first wrong code, so it may be much shorter than the ten minutes of `config.py:73`.
* A worker that dies between INCR and EXPIRE (`verification.py:166`) leaves a count that never goes: the
  phone can be locked for ever. `LockLifts` names this case.
* A new phone number is stored before it is verified while `phone_verified` stays TRUE (`verification.py:246`).
* When the tax office does not answer, the checksum alone verifies a number.

Reviews, trust, matching, chat:

* The average is measured before the review it goes with is flushed, so it lags one review behind
  (`review.py:83-87`), and average and count may come from different requests.
* The comment at `trust_score.py:203` promises 12, 9, 6 and 3 points for averages of 4.5 to 3.0; the code
  gives 12, 10, 7 and 5. In floating point, averages of 2.40, 2.80 and 4.60 fall a point short of the formula.
* Instructors get the ten points of identity without any verification (`trust_score.py:117`), `last_active_at` is
  never updated. A new user's 40 points (`models/user.py:37`) carry the level of fewer, were never computed, and the first refresh may
  lower them without any other cause.
* The public trust score reads a key `is_premium` that is not there (`endpoints/trust.py:136`).
* A certificate without a name matches every requirement (`matching.py:76`), and a total rounds to 100 with a rate of
  98 or 99 per cent of the one asked for, or with 49 of 50 years of experience or certificates.
* The repository's `README.md:388,423-425` raises the score of premium members by 1.3; the code has no such boost.
* `hourly_rate_max` may be entered below `hourly_rate_min` (`schemas/instructor.py:30-42`, `services/instructor.py:85-93`); a rate between
  the two is then a full match.
* Before a contract has started, `next_session` may name a day before its start.
* Two requests may both create the default job template, or the thread of a job post; `mark_messages_read` marks
  messages that came after the user looked (`chat.py:160`).

## 6. Plan

Done: contracts, disputes and the deletion of accounts; membership with TossPayments and the
schedulers; hiring with its abstract specification; accounts and tokens; verification; reviews, trust,
matching, completeness and schedules; and the proofs of section 4, the three refinements among them.

Left, in this order:

1. Chat threads: one thread per contract, created by two requests at once, and what a
   reader marks as read.
2. The notifications' lists in Redis, which change between the read of an index and the write at it.

## 7. Not modelled, and why

Notifications are best effort: every caller swallows their errors and nothing is decided on them. Chat is modelled as
far as disputes read it. Job templates, reports and blocks, support tickets and the edits of
profiles that nothing is computed from are CRUD on one row. Uploads, e-mail and SMS
transport, HTML documents and listing endpoints are I/O without interesting state. The front
end (its retries are in the model as repeated requests), nginx and migrations are configuration or
presentation.
