--------------------------- MODULE DisputeService ---------------------------
(***************************************************************************)
(* services/dispute.py after a dispute exists: objection, expiry of the    *)
(* objection deadline, decision by an administrator, and the no-show       *)
(* penalty.  No endpoint and no scheduler calls any of them; they run when *)
(* Wired says so.                                                          *)
(***************************************************************************)
EXTENDS ContractDb

(* Variants a slip in the code would give, for the mutation checks.        *)
Existing(d) == disputes[d] # NoDispute
SuspendsBeyond(count) == count > SuspendAt

-----------------------------------------------------------------------------
(* object_to_dispute.  A completion dispute holds a profile id where the   *)
(* caller's user id is compared, so only no-show disputes can be objected. *)
ObjectToDispute(s, d) ==
  /\ IsIdle(s)
  /\ "object" \in Wired
  /\ disputes[d] # NoDispute
  /\ disputes[d].kind = "no_show"
  /\ disputes[d].status = "open"
  /\ ~disputes[d].late
  /\ Authenticated(disputes[d].against)
  /\ Submit(s, "object",
       [NoTxn EXCEPT !.disputes = [@ EXCEPT
          ![d] = [status |-> "objected", resolution |-> "none"]]])

Resolve(s, op, ds, res) ==
  /\ Become(s, [stage |-> "resolving", op |-> op, picked |-> ds,
                resolution |-> res])
  /\ UNCHANGED <<row, disputes, users, chatted, over, aged>>

(* auto_resolve_expired_disputes, the query.                               *)
AutoResolve(s) ==
  LET expired == {d \in Dispute : /\ disputes[d] # NoDispute
                                  /\ disputes[d].status = "open"
                                  /\ disputes[d].late}
  IN  /\ IsIdle(s)
      /\ "auto_resolve" \in Wired
      /\ expired # {}
      /\ Resolve(s, "auto_resolve", expired, "reporter_wins")

Undecided(d) ==
  disputes[d] # NoDispute /\ disputes[d].status # "resolved"

(* resolve_manually, the query and its guard.                              *)
ResolveManually(s, d, res) ==
  /\ IsIdle(s)
  /\ "resolve" \in Wired
  /\ Undecided(d)
  /\ Resolve(s, "resolve", {d}, res)

Suspends(count) == count >= SuspendAt

(* _apply_no_show_penalty for the no-show disputes among ds against u: the *)
(* count the session has read plus one for each, and suspension at three.  *)
Penalty(ds, u, res) ==
  LET hits  == {d \in ds : /\ disputes[d].kind = "no_show"
                           /\ disputes[d].against = u}
      count == users[u].noShows + Cardinality(hits)
  IN  IF hits = {} \/ res = "respondent_wins" THEN NoUserWrite
      ELSE [noShows |-> count, suspended |-> Suspends(count),
            deactivated |-> FALSE]

(* What resolve_manually, deciding ds, makes of contract c.                *)
Verdict(c, ds, res) ==
  LET about == {d \in ds : disputes[d].contract = c}
  IN  IF about = {} \/ row[c].status # "DISPUTED" THEN NoRowWrite
      ELSE [NoRowWrite EXCEPT !.status =
              IF res = "reporter_wins"
                 /\ \E d \in about : disputes[d].kind = "no_show"
                THEN "CANCELLED" ELSE "COMPLETED"]

(* The rest of both: users and contract are read after the disputes, and   *)
(* everything is committed in one transaction.  Only resolve_manually      *)
(* touches the contract, and neither writes the contract's event log.      *)
FinishResolving(s) ==
  /\ session[s].stage = "resolving"
  /\ LET ds  == session[s].picked
         res == session[s].resolution
     IN  Submit(s, session[s].op,
           [NoTxn EXCEPT
              !.disputes = [d \in Dispute |->
                 IF d \in ds
                   THEN [status |-> "resolved", resolution |-> res]
                   ELSE NoDisputeWrite],
              !.users = [u \in Party |-> Penalty(ds, u, res)],
              !.rows = [c \in Contract |->
                 IF session[s].op = "resolve" THEN Verdict(c, ds, res)
                 ELSE NoRowWrite]])
=============================================================================
