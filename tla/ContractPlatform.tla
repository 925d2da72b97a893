-------------------------- MODULE ContractPlatform --------------------------
(***************************************************************************)
(* The contract subsystem: contract service, dispute service and account   *)
(* deletion over the same tables, any number of requests in flight.        *)
(***************************************************************************)
EXTENDS ContractService, DisputeService, AccountDeletion

(* Contracts as create_from_offer leaves them, between active users.       *)
Init ==
  /\ row = [c \in Contract |->
       [status |-> "CONFIRMED", signed |-> {}, hashed |-> FALSE,
        confirmed |-> {}, reason |-> FALSE, logged |-> "CONFIRMED"]]
  /\ disputes = [d \in Dispute |-> NoDispute]
  /\ users = [u \in Party |->
       [noShows |-> 0, suspended |-> FALSE, active |-> TRUE]]
  /\ chatted = [c \in Contract |-> FALSE]
  /\ over = [c \in Contract |-> FALSE]
  /\ aged = [c \in Contract |-> {}]
  /\ session = [s \in Session |-> Idle]

PartyRequest(s) ==
  \E c \in Contract, p \in Party :
    \/ Sign(s, c, p)
    \/ ConfirmCompletion(s, c, p)
    \/ Cancel(s, c, p)
    \/ \E d \in Dispute : RejectCompletion(s, c, p, d)
    \/ \E d \in Dispute : ReportNoShow(s, c, p, d)

Maintenance(s) ==
  \/ AutoComplete(s)
  \/ AutoResolve(s)
  \/ \E d \in Dispute : ObjectToDispute(s, d)
  \/ \E d \in Dispute, res \in Resolution : ResolveManually(s, d, res)

Time ==
  \/ \E c \in Contract : ClassPasses(c)
  \/ \E c \in Contract, p \in Party : ConfirmationAges(c, p)
  \/ \E d \in Dispute : ObjectionDeadlinePasses(d)

Next ==
  \/ \E s \in Session :
       \/ PartyRequest(s)
       \/ Maintenance(s)
       \/ \E u \in Party : DeleteAccount(s, u)
       \/ FinishResolving(s)
       \/ Commit(s)
       \/ Drop(s)
  \/ Time
  \/ \E c \in Contract : SendMessage(c)

Spec == Init /\ [][Next]_vars

-----------------------------------------------------------------------------
TypeOK ==
  /\ row \in [Contract -> Row]
  /\ disputes \in [Dispute -> DisputeRow \cup {NoDispute}]
  /\ users \in [Party -> UserRow]
  /\ chatted \in [Contract -> BOOLEAN]
  /\ over \in [Contract -> BOOLEAN]
  /\ aged \in [Contract -> SUBSET Party]
  /\ session \in [Session -> {Idle} \cup Writing \cup Resolving \cup Failed]

(***************************************************************************)
(* Properties that hold however requests interleave.                       *)
(***************************************************************************)

(* A contract is in progress, or beyond, only with both signatures and the *)
(* content hash on record, although each signing request sees only its own *)
(* snapshot of the other signature (set_in_progress).                      *)
SignedBeforeWork ==
  \A c \in Contract : row[c].status \in Working =>
    row[c].signed = Party /\ row[c].hashed

(* A contract is COMPLETED only by both confirmations, by a timeout the    *)
(* sweep promises, or by a decision of one of its disputes.                *)
CompletionIsEarned ==
  \A c \in Contract : row[c].status = "COMPLETED" =>
    \/ row[c].confirmed = Party
    \/ aged[c] # {}
    \/ over[c]
    \/ \E d \in Dispute : /\ disputes[d] # NoDispute
                          /\ disputes[d].contract = c
                          /\ disputes[d].resolution # "none"

(* As long as no sweep and no administrator runs, both parties must have   *)
(* confirmed a COMPLETED contract (confirm_completion), although each      *)
(* request counts the confirmations of its own snapshot.                   *)
CompletedByBoth ==
  \A c \in Contract :
    row[c].status = "COMPLETED" => row[c].confirmed = Party

(* A DISPUTED contract has the dispute it is about: the status and the     *)
(* dispute are committed together (create_completion_dispute).             *)
DisputedHasDispute ==
  \A c \in Contract : row[c].status = "DISPUTED" =>
    \E d \in Dispute : /\ disputes[d] # NoDispute
                       /\ disputes[d].contract = c
                       /\ disputes[d].kind = "completion_rejected"

(* Every cancelled contract carries a reason, unless an administrator      *)
(* cancelled it deciding a no-show dispute (resolve_manually writes none). *)
CancelledHasReason ==
  \A c \in Contract : row[c].status = "CANCELLED" =>
    \/ row[c].reason
    \/ \E d \in Dispute : /\ disputes[d] # NoDispute
                          /\ disputes[d].contract = c
                          /\ disputes[d].kind = "no_show"
                          /\ disputes[d].resolution # "none"

(* A counter that stands at three goes with a suspension: they are written *)
(* together (_apply_no_show_penalty).  Overlapping requests may lose an    *)
(* increment of the counter; this does not count what was lost.            *)
ThreeNoShowsSuspend ==
  \A u \in Party : users[u].noShows >= SuspendAt => users[u].suspended

(* Signatures, confirmations and the content hash are never taken back:    *)
(* a commit writes only the columns its own request changed, so it cannot  *)
(* erase what another request recorded meanwhile.                          *)
EvidenceKept ==
  [][\A c \in Contract :
       /\ row[c].signed \subseteq row'[c].signed
       /\ row[c].confirmed \subseteq row'[c].confirmed
       /\ row[c].hashed => row'[c].hashed]_vars

(***************************************************************************)
(* What makes SignedBeforeWork, CompletedByBoth and ThreeNoShowsSuspend    *)
(* inductive: a transaction in flight was decided on rows that have only   *)
(* gained evidence since, so what it is about to write is still justified  *)
(* when it commits.                                                        *)
(***************************************************************************)

(* Nothing but the parties completes a contract.                           *)
Unattended == Wired \cap {"auto_complete", "resolve"} = {}

SignedWrite(r, w) ==
  w.status \in Working => /\ r.signed \cup w.signed = Party
                          /\ r.hashed \/ w.hashed

ConfirmedWrite(r, w) ==
  w.status = "COMPLETED" => r.confirmed \cup w.confirmed = Party

SuspendedWrite(w) == w.noShows >= SuspendAt => w.suspended

Justified(rs, t) ==
  /\ \A c \in Contract : SignedWrite(rs[c], t.rows[c])
  /\ Unattended => \A c \in Contract : ConfirmedWrite(rs[c], t.rows[c])
  /\ \A u \in Party : SuspendedWrite(t.users[u])

InFlightJustified ==
  \A s \in Session :
    /\ session[s].stage = "writing" =>
         Justified(row, session[s].now) /\ Justified(row, session[s].next)
    /\ session[s].stage = "resolving" => session[s].op \in Wired

EvidenceInv ==
  /\ SignedBeforeWork
  /\ Unattended => CompletedByBoth
  /\ ThreeNoShowsSuspend
  /\ InFlightJustified

(***************************************************************************)
(* What makes CompletionIsEarned, DisputedHasDispute and                   *)
(* CancelledHasReason inductive: the reason for a status in flight is in   *)
(* the tables already, or in the same transaction, and no identifier of a  *)
(* dispute is given away twice, so that no dispute is written over.        *)
(***************************************************************************)

Exists(d) == disputes[d] # NoDispute

InFlight(s) == session[s].stage = "writing"

Opens(t, d) == t.opened[d] # NoDispute

(* d is decided, or will be once t is committed.                           *)
Decides(t, d, c) ==
  /\ Exists(d)
  /\ disputes[d].contract = c
  /\ \/ disputes[d].resolution # "none"
     \/ t.disputes[d].status # Keep /\ t.disputes[d].resolution # "none"

EarnedWrite(t, c) == t.rows[c].status = "COMPLETED" =>
  \/ row[c].confirmed \cup t.rows[c].confirmed = Party
  \/ aged[c] # {}
  \/ over[c]
  \/ \E d \in Dispute : Decides(t, d, c)

DisputedWrite(t, c) == t.rows[c].status = "DISPUTED" =>
  \E d \in Dispute : /\ Opens(t, d)
                     /\ t.opened[d].contract = c
                     /\ t.opened[d].kind = "completion_rejected"

CancelledWrite(t, c) == t.rows[c].status = "CANCELLED" =>
  \/ t.rows[c].reason
  \/ \E d \in Dispute : Decides(t, d, c) /\ disputes[d].kind = "no_show"

Accounted(t) ==
  \A c \in Contract :
    EarnedWrite(t, c) /\ DisputedWrite(t, c) /\ CancelledWrite(t, c)

(* What a request opens is new, and nobody else opens it.                  *)
OpensNew(s) ==
  \A d \in Dispute :
    /\ ~Opens(session[s].next, d)
    /\ Opens(session[s].now, d) =>
         /\ ~Exists(d)
         /\ \A r \in Session \ {s} : InFlight(r) => ~Opens(session[r].now, d)

InFlightAccounted ==
  \A s \in Session :
    /\ InFlight(s) => /\ OpensNew(s)
                      /\ Accounted(session[s].now)
                      /\ Accounted(session[s].next)
    /\ session[s].stage = "resolving" =>
         \A d \in session[s].picked : Exists(d)

AccountInv ==
  /\ CompletionIsEarned
  /\ DisputedHasDispute
  /\ CancelledHasReason
  /\ InFlightAccounted

(***************************************************************************)
(* Properties of requests that do not overlap.                             *)
(***************************************************************************)

(* One request at a time, the tables implement the contract lifecycle.     *)
Lifecycle == INSTANCE ContractLifecycle WITH
  status    <- [c \in Contract |-> row[c].status],
  signed    <- [c \in Contract |-> row[c].signed],
  confirmed <- [c \in Contract |-> row[c].confirmed]

LifecycleSpec == Lifecycle!Spec

(* A dispute costs the reported party at most one no-show: the penalty is  *)
(* in the transaction that resolves the dispute, behind the guard that it  *)
(* is not resolved yet.                                                    *)
OnePenaltyPerDispute ==
  \A u \in Party :
    users[u].noShows <= Cardinality({d \in Dispute :
      /\ disputes[d] # NoDispute
      /\ disputes[d].kind = "no_show"
      /\ disputes[d].against = u
      /\ disputes[d].status = "resolved"})

(* One request at a time an account is suspended when three disputes over  *)
(* no-shows have been decided against it, and only then: whether they ran  *)
(* out, one by one or several in one sweep, were decided by an             *)
(* administrator, or their resolution died before it was committed and was *)
(* repeated.  A dispute that the reported party wins counts for nothing.   *)
SuspendedForThree ==
  \A u \in Party :
    users[u].suspended <=>
      Cardinality({d \in Dispute :
        /\ disputes[d] # NoDispute
        /\ disputes[d].kind = "no_show"
        /\ disputes[d].against = u
        /\ disputes[d].status = "resolved"
        /\ disputes[d].resolution # "respondent_wins"}) >= 3

(* One request at a time the newest event log entry of a contract is its   *)
(* status, at every moment, but for three gaps: deleting an account and    *)
(* deciding a dispute write no entry, and a rejection commits its entry    *)
(* after the status, so that it is missing when the request dies between.  *)
TransitionsLogged ==
  \A c \in Contract :
    \/ row[c].logged = row[c].status
    \/ row[c].status = "CANCELLED" /\ \E u \in Party : ~users[u].active
    \/ \E d \in Dispute :
         /\ disputes[d] # NoDispute
         /\ disputes[d].contract = c
         /\ row[c].status = "DISPUTED" \/ disputes[d].resolution # "none"

(***************************************************************************)
(* What makes them inductive: when nobody else commits in between, a       *)
(* transaction meets the tables its request has read, so that it is a step *)
(* of the lifecycle, its log entry is right, and a no-show it counts is    *)
(* the one of a dispute it resolves.                                       *)
(***************************************************************************)

OneRequest == \A s, r \in Session : s = r

After(rs, t) == [c \in Contract |-> ApplyRow(rs[c], t.rows[c])]

SameParties(r, q) == q.signed = r.signed /\ q.confirmed = r.confirmed

Signs(r, q) ==
  \E p \in Party :
    /\ r.status = "CONFIRMED"
    /\ q.signed = r.signed \cup {p}
    /\ q.confirmed = r.confirmed
    /\ q.status = IF q.signed = Party THEN "IN_PROGRESS" ELSE r.status

Confirms(r, q) ==
  \E p \in Party \ r.confirmed :
    /\ r.status \in {"IN_PROGRESS", "PENDING_COMPLETION"}
    /\ q.confirmed = r.confirmed \cup {p}
    /\ q.signed = r.signed
    /\ q.status = IF q.confirmed = Party THEN "COMPLETED"
                  ELSE "PENDING_COMPLETION"

Leaves(r, q) ==
  /\ SameParties(r, q)
  /\ q.status \in ValidTransitions[r.status]
  /\ q.status \in {"DISPUTED", "CANCELLED"} \/ r.status = "DISPUTED"

TimesOut(r, q) ==
  /\ SameParties(r, q)
  /\ \/ q.status = r.status
     \/ /\ q.status = "COMPLETED"
        /\ r.status \in {"IN_PROGRESS", "PENDING_COMPLETION"}

Cascades(r, q) ==
  /\ SameParties(r, q)
  /\ q.status = IF r.status \in Active THEN "CANCELLED" ELSE r.status

(* What the lifecycle allows the rows, all at once.                        *)
Moves(rs, qs) ==
  \/ \E c \in Contract :
       /\ Signs(rs[c], qs[c]) \/ Confirms(rs[c], qs[c]) \/ Leaves(rs[c], qs[c])
       /\ \A k \in Contract \ {c} :
            SameParties(rs[k], qs[k]) /\ qs[k].status = rs[k].status
  \/ \A c \in Contract : TimesOut(rs[c], qs[c])
  \/ \A c \in Contract : Cascades(rs[c], qs[c])

(* The entry t leaves for c, in status st when t is committed, is right,   *)
(* or t falls into one of the gaps.                                        *)
LogsRight(t, c, st) ==
  \/ t.rows[c].status = Keep /\ t.rows[c].logged \in {Keep, st}
  \/ t.rows[c].status # Keep /\ t.rows[c].logged = t.rows[c].status
  \/ t.rows[c].status = "CANCELLED" /\ \E u \in Party : t.users[u].deactivated
  \/ t.rows[c].status = "DISPUTED"
       /\ \E d \in Dispute : Opens(t, d) /\ t.opened[d].contract = c
  \/ t.rows[c].status # Keep /\ \E d \in Dispute : Decides(t, d, c)

(* The no-show disputes against u that are resolved once t is committed.   *)
Suffered(t, u) ==
  {d \in Dispute : /\ Exists(d)
                   /\ disputes[d].kind = "no_show"
                   /\ disputes[d].against = u
                   /\ \/ disputes[d].status = "resolved"
                      \/ t.disputes[d].status = "resolved"}

CountsRight(t) ==
  /\ \A u \in Party : t.users[u].noShows <= Cardinality(Suffered(t, u))
  /\ \A d \in Dispute : Exists(d) /\ disputes[d].status = "resolved" =>
       t.disputes[d].status \in {Keep, "resolved"}

Ready(now, next) ==
  LET between == After(row, now) IN
  /\ Moves(row, between)
  /\ Moves(between, After(between, next))
  /\ \A c \in Contract : /\ LogsRight(now, c, row[c].status)
                         /\ LogsRight(next, c, between[c].status)
  /\ CountsRight(now)
  /\ next = [NoTxn EXCEPT !.rows = next.rows]

SerialInv ==
  /\ TransitionsLogged
  /\ OnePenaltyPerDispute
  /\ \A s \in Session :
       /\ InFlight(s) => Ready(session[s].now, session[s].next)
       /\ session[s].stage = "resolving" =>
            /\ \A d \in session[s].picked : Undecided(d)
            /\ session[s].op = "resolve" =>
                 \E d \in Dispute : session[s].picked = {d}
=============================================================================
