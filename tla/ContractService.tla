-------------------------- MODULE ContractService --------------------------
(***************************************************************************)
(* services/contract.py and its endpoints: what the two parties and the    *)
(* (unscheduled) completion sweep do to a contract.  Every operator below  *)
(* is a whole request up to its first commit: reads, guards and the        *)
(* transactions it leaves in its session.                                  *)
(***************************************************************************)
EXTENDS ContractDb

(* Variants a slip in the code would give, for the mutation checks.        *)
AnySigned(c, p) == row[c].signed \cup {p} # {}
AnyConfirmed(c, p) == row[c].confirmed \cup {p} # {}
CancellationUnexplained(c) ==
  WriteRow(c, [NoRowWrite EXCEPT
    !.status = "CANCELLED", !.logged = "CANCELLED"])
CancellationUnlogged(c) ==
  WriteRow(c, [NoRowWrite EXCEPT !.status = "CANCELLED", !.reason = TRUE])
CancellableUnlessOver(c) == row[c].status \notin Terminal
RejectionStatusOnly(c, p, d) ==
  [WriteRow(c, [NoRowWrite EXCEPT !.status = "DISPUTED"]) EXCEPT
     !.dangling = TRUE]

-----------------------------------------------------------------------------
(* Whether p's signature, next to those the request has read, is the last. *)
FullySigned(c, p) == row[c].signed \cup {p} = Party

FullyConfirmed(c, p) == row[c].confirmed \cup {p} = Party

(* set_in_progress: a party signs; the second signature hashes the content *)
(* and starts the contract, if the request has seen the first one.         *)
Sign(s, c, p) ==
  /\ IsIdle(s)
  /\ Authenticated(p)
  /\ row[c].status = "CONFIRMED"
  /\ p \notin row[c].signed
  /\ Submit(s, "sign",
       WriteRow(c,
         IF FullySigned(c, p)
           THEN [NoRowWrite EXCEPT !.signed = {p}, !.hashed = TRUE,
                   !.status = "IN_PROGRESS", !.logged = "IN_PROGRESS"]
           ELSE [NoRowWrite EXCEPT !.signed = {p}, !.logged = "CONFIRMED"]))

(* confirm_completion: a party confirms that the class took place.         *)
ConfirmCompletion(s, c, p) ==
  LET to == IF FullyConfirmed(c, p) THEN "COMPLETED"
            ELSE IF row[c].status = "IN_PROGRESS" THEN "PENDING_COMPLETION"
            ELSE Keep
  IN  /\ IsIdle(s)
      /\ Authenticated(p)
      /\ row[c].status \in {"IN_PROGRESS", "PENDING_COMPLETION"}
      /\ p \notin row[c].confirmed
      /\ Submit(s, "confirm",
           WriteRow(c, [NoRowWrite EXCEPT
             !.confirmed = {p}, !.status = to, !.logged = to]))

(* cancel, after its guard: the columns a cancellation writes.             *)
Cancellation(c) ==
  WriteRow(c, [NoRowWrite EXCEPT
    !.status = "CANCELLED", !.reason = TRUE, !.logged = "CANCELLED"])

(* _validate_transition(contract.status, CANCELLED) *)
Cancellable(c) == "CANCELLED" \in ValidTransitions[row[c].status]

Cancel(s, c, p) ==
  /\ IsIdle(s)
  /\ Authenticated(p)
  /\ Cancellable(c)
  /\ Submit(s, "cancel", Cancellation(c))

(* The dispute p opens against the other party, with 24 hours to object.   *)
NewDispute(c, kind, p) ==
  [status |-> "open", contract |-> c, kind |-> kind, against |-> Other(p),
   resolution |-> "none", late |-> FALSE]

(* create_completion_dispute: dispute and status in one transaction.  The  *)
(* dispute names the profile of the other party where the column refers to *)
(* users.                                                                  *)
Rejection(c, p, d) ==
  [WriteRow(c, [NoRowWrite EXCEPT !.status = "DISPUTED"]) EXCEPT
     !.opened = [@ EXCEPT ![d] = NewDispute(c, "completion_rejected", p)],
     !.dangling = TRUE]

(* reject_completion: create_completion_dispute commits, the event log     *)
(* entry follows in a second transaction.  Evidence of a chat with         *)
(* messages cannot be collected: _collect_evidence reads a field that chat *)
(* messages do not have.                                                   *)
RejectCompletion(s, c, p, d) ==
  /\ IsIdle(s)
  /\ Authenticated(p)
  /\ row[c].status = "PENDING_COMPLETION"
  /\ Fresh(d)
  /\ IF chatted[c] THEN Fail(s, "reject")
     ELSE Submit2(s, "reject", Rejection(c, p, d),
            WriteRow(c, [NoRowWrite EXCEPT !.logged = "DISPUTED"]))

(* report_contract_no_show: create_no_show_dispute commits the dispute,    *)
(* then cancel runs on the contract as the request loaded it before.       *)
ReportNoShow(s, c, p, d) ==
  /\ IsIdle(s)
  /\ Authenticated(p)
  /\ row[c].status \in {"CONFIRMED", "IN_PROGRESS"}
  /\ Fresh(d)
  /\ IF chatted[c] THEN Fail(s, "no_show")
     ELSE Submit2(s, "no_show",
            [NoTxn EXCEPT
               !.opened = [@ EXCEPT ![d] = NewDispute(c, "no_show", p)]],
            Cancellation(c))

(* The contracts auto_complete_pending_contracts completes: a confirmation *)
(* older than 24 hours (the studio's if it confirmed), or a class that     *)
(* ended 48 hours ago and nobody confirmed.                                *)
Overdue(c) ==
  \/ /\ row[c].status = "PENDING_COMPLETION"
     /\ row[c].confirmed # {}
     /\ (IF "studio" \in row[c].confirmed THEN "studio" ELSE "instructor")
          \in aged[c]
  \/ /\ row[c].status = "IN_PROGRESS"
     /\ over[c]

(* The sweep's log entries name a system user that no migration creates.   *)
AutoComplete(s) ==
  LET due == {c \in Contract : Overdue(c)}
  IN  /\ IsIdle(s)
      /\ "auto_complete" \in Wired
      /\ due # {}
      /\ Submit(s, "auto_complete",
           [NoTxn EXCEPT
              !.rows = [c \in Contract |->
                 IF c \in due
                   THEN [NoRowWrite EXCEPT !.status = "COMPLETED",
                                           !.logged = "COMPLETED"]
                   ELSE NoRowWrite],
              !.dangling = TRUE])
=============================================================================
