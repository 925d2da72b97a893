------------------------- MODULE ContractLifecycle -------------------------
(***************************************************************************)
(* What the contract subsystem promises the two parties of a contract,     *)
(* without requests, sessions or tables: every operation happens at once.  *)
(* It is VALID_TRANSITIONS together with what ties a status to the         *)
(* signatures and confirmations, and the two ways round the table that     *)
(* the code has: the completion timeout and the deletion of an account.    *)
(***************************************************************************)
EXTENDS ContractStates

CONSTANT Contract

VARIABLES status, signed, confirmed

lifecycleVars == <<status, signed, confirmed>>

Init ==
  /\ status = [c \in Contract |-> "CONFIRMED"]
  /\ signed = [c \in Contract |-> {}]
  /\ confirmed = [c \in Contract |-> {}]

Move(c, to) == status' = [status EXCEPT ![c] = to]

(* The second signature, and nothing else, starts the contract.            *)
Sign(c, p) ==
  /\ status[c] = "CONFIRMED"
  /\ signed' = [signed EXCEPT ![c] = @ \cup {p}]
  /\ IF signed'[c] = Party THEN Move(c, "IN_PROGRESS") ELSE UNCHANGED status
  /\ UNCHANGED confirmed

(* The first confirmation makes the completion pending, the second final.  *)
Confirm(c, p) ==
  /\ status[c] \in {"IN_PROGRESS", "PENDING_COMPLETION"}
  /\ p \notin confirmed[c]
  /\ confirmed' = [confirmed EXCEPT ![c] = @ \cup {p}]
  /\ Move(c, IF confirmed'[c] = Party THEN "COMPLETED"
             ELSE "PENDING_COMPLETION")
  /\ UNCHANGED signed

(* Rejection, cancellation, and the decision of a dispute.                 *)
Leave(c, to) ==
  /\ to \in ValidTransitions[status[c]]
  /\ to \in {"DISPUTED", "CANCELLED"} \/ status[c] = "DISPUTED"
  /\ Move(c, to)
  /\ UNCHANGED <<signed, confirmed>>

TimeOut(cs) ==
  /\ \A c \in cs : status[c] \in {"IN_PROGRESS", "PENDING_COMPLETION"}
  /\ status' = [c \in Contract |-> IF c \in cs THEN "COMPLETED" ELSE status[c]]
  /\ UNCHANGED <<signed, confirmed>>

DeleteAccount ==
  /\ status' = [c \in Contract |->
                  IF status[c] \in Active THEN "CANCELLED" ELSE status[c]]
  /\ UNCHANGED <<signed, confirmed>>

Next ==
  \/ \E c \in Contract, p \in Party : Sign(c, p) \/ Confirm(c, p)
  \/ \E c \in Contract, to \in Status : Leave(c, to)
  \/ \E cs \in SUBSET Contract : TimeOut(cs)
  \/ DeleteAccount

Spec == Init /\ [][Next]_lifecycleVars
=============================================================================
