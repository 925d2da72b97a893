--------------------------- MODULE ContractStates ---------------------------
(***************************************************************************)
(* The vocabulary of the contract subsystem: the two parties of a          *)
(* contract, the states of a contract and of a dispute, and the transition *)
(* table that services/contract.py declares.                               *)
(***************************************************************************)

(* UserRole without ADMIN: one studio and one instructor sign a contract.  *)
Party == {"studio", "instructor"}

Other(p) == IF p = "studio" THEN "instructor" ELSE "studio"

Status == {"CONFIRMED", "IN_PROGRESS", "PENDING_COMPLETION",
           "COMPLETED", "DISPUTED", "CANCELLED"}

(* VALID_TRANSITIONS.  Only ContractService.cancel consults it.            *)
ValidTransitions ==
  [st \in Status |->
     CASE st = "CONFIRMED"          -> {"IN_PROGRESS", "CANCELLED"}
       [] st = "IN_PROGRESS"        -> {"PENDING_COMPLETION", "CANCELLED"}
       [] st = "PENDING_COMPLETION" -> {"COMPLETED", "DISPUTED"}
       [] st = "DISPUTED"           -> {"COMPLETED", "CANCELLED"}
       [] OTHER                     -> {}]

Terminal == {st \in Status : ValidTransitions[st] = {}}

(* The states a contract reaches only after it has been in progress.       *)
Working == {"IN_PROGRESS", "PENDING_COMPLETION", "COMPLETED", "DISPUTED"}

(* The states _cascade_cancel_contracts looks for.                         *)
Active == {"CONFIRMED", "IN_PROGRESS", "PENDING_COMPLETION"}

DisputeKind == {"no_show", "completion_rejected"}

DisputeStatus == {"open", "objected", "resolved"}

Resolution == {"reporter_wins", "respondent_wins", "partial"}

(* no_show_count at which _apply_no_show_penalty suspends the account.     *)
SuspendAt == 3
=============================================================================
