-------------------------- MODULE AccountDeletion --------------------------
(***************************************************************************)
(* services/account_deletion.py, as far as contracts go: the account is    *)
(* deactivated and every active contract of the user is cancelled, in one  *)
(* transaction, without consulting VALID_TRANSITIONS and without an event  *)
(* log entry.                                                              *)
(***************************************************************************)
EXTENDS ContractDb

(* _cascade_cancel_contracts                                               *)
CancelActive ==
  [c \in Contract |->
     IF row[c].status \in Active
       THEN [NoRowWrite EXCEPT !.status = "CANCELLED", !.reason = TRUE]
       ELSE NoRowWrite]

(* request_deletion *)
DeleteAccount(s, u) ==
  /\ IsIdle(s)
  /\ Authenticated(u)
  /\ Submit(s, "delete_account",
       [NoTxn EXCEPT
          !.rows = CancelActive,
          !.users = [@ EXCEPT ![u] = [NoUserWrite EXCEPT !.deactivated = TRUE]]])
=============================================================================
