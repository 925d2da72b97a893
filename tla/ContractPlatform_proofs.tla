---------------------- MODULE ContractPlatform_proofs ----------------------
(***************************************************************************)
(* Proofs about the contract subsystem, for any contracts, sessions,       *)
(* disputes and wiring, with and without foreign keys; at the end those    *)
(* for requests that do not overlap: SerialInv is inductive, and with it   *)
(* follow the event log, the no-show counter and the lifecycle.            *)
(***************************************************************************)
EXTENDS ContractPlatform, FiniteSetTheorems, TLAPS

-----------------------------------------------------------------------------
(* Transactions and what they make of a row.                               *)

(* The empty transaction is a transaction.                                 *)
LEMMA NoTxnType == NoTxn \in Txn
BY DEF NoTxn, Txn, NoRowWrite, RowWrite, NoUserWrite, UserWrite,
       NoDisputeWrite, DisputeWrite, Keep, Unset

(* Writing one contract row is a transaction.                              *)
LEMMA WriteRowType ==
  ASSUME NEW c \in Contract, NEW w \in RowWrite
  PROVE  WriteRow(c, w) \in Txn
BY NoTxnType DEF WriteRow, Txn

(* A commit turns contract rows into contract rows.                        *)
LEMMA ApplyRowType ==
  ASSUME NEW r \in Row, NEW w \in RowWrite
  PROVE  ApplyRow(r, w) \in Row
BY DEF ApplyRow, Row, RowWrite, Keep

(* A commit turns user rows into user rows.                                *)
LEMMA ApplyUserType ==
  ASSUME NEW u \in UserRow, NEW w \in UserWrite
  PROVE  ApplyUser(u, w) \in UserRow
BY DEF ApplyUser, UserRow, UserWrite, Unset

(* A commit turns dispute rows into dispute rows.                          *)
LEMMA ApplyDisputeType ==
  ASSUME NEW d \in DisputeRow \cup {NoDispute},
         NEW new \in DisputeRow \cup {NoDispute}, NEW w \in DisputeWrite
  PROVE  ApplyDispute(d, new, w) \in DisputeRow \cup {NoDispute}
<1>1. CASE new # NoDispute \/ w.status = Keep \/ d = NoDispute
  BY <1>1 DEF ApplyDispute
<1>2. CASE new = NoDispute /\ w.status # Keep /\ d # NoDispute
  <2>1. /\ d \in DisputeRow
        /\ w.status \in DisputeStatus
        /\ w.resolution \in Resolution \cup {"none"}
    BY <1>2 DEF DisputeWrite
  <2>2. [d EXCEPT !.status = w.status,
                  !.resolution = IF w.resolution = "none" THEN @
                                 ELSE w.resolution] \in DisputeRow
    BY <2>1 DEF DisputeRow
  <2> QED BY <1>2, <2>2 DEF ApplyDispute
<1> QED BY <1>1, <1>2

(* A session that is left well-formed work keeps the types.                *)
LEMMA SubmitType ==
  ASSUME TypeOK, NEW s \in Session, NEW op \in Op,
         NEW now \in Txn, NEW next \in Txn, Submit2(s, op, now, next)
  PROVE  TypeOK'
BY DEF TypeOK, Submit2, Become, Writing

(* A failing request keeps the types.                                      *)
LEMMA FailType ==
  ASSUME TypeOK, NEW s \in Session, NEW op \in Op, Fail(s, op)
  PROVE  TypeOK'
BY DEF TypeOK, Fail, Become, Failed

-----------------------------------------------------------------------------
(* Every operation keeps the types.                                        *)

(* set_in_progress *)
LEMMA SignType ==
  ASSUME TypeOK, NEW s \in Session, NEW c \in Contract, NEW p \in Party,
         Sign(s, c, p)
  PROVE  TypeOK'
<1> DEFINE w == IF FullySigned(c, p)
                  THEN [NoRowWrite EXCEPT !.signed = {p}, !.hashed = TRUE,
                          !.status = "IN_PROGRESS", !.logged = "IN_PROGRESS"]
                  ELSE [NoRowWrite EXCEPT !.signed = {p},
                          !.logged = "CONFIRMED"]
<1>1. w \in RowWrite
  BY DEF NoRowWrite, RowWrite, Keep, Status
<1>2. WriteRow(c, w) \in Txn
  BY <1>1, WriteRowType
<1>3. Submit2(s, "sign", WriteRow(c, w), NoTxn)
  BY DEF Sign, Submit
<1> QED BY <1>2, <1>3, NoTxnType, SubmitType DEF Op

(* confirm_completion *)
LEMMA ConfirmType ==
  ASSUME TypeOK, NEW s \in Session, NEW c \in Contract, NEW p \in Party,
         ConfirmCompletion(s, c, p)
  PROVE  TypeOK'
<1> DEFINE to == IF FullyConfirmed(c, p) THEN "COMPLETED"
                 ELSE IF row[c].status = "IN_PROGRESS"
                        THEN "PENDING_COMPLETION"
                 ELSE Keep
           w == [NoRowWrite EXCEPT !.confirmed = {p}, !.status = to,
                                   !.logged = to]
<1>1. to \in Status \cup {Keep}
  BY DEF Status
<1>2. w \in RowWrite
  <2> HIDE DEF to
  <2> QED BY <1>1 DEF NoRowWrite, RowWrite
<1>3. WriteRow(c, w) \in Txn
  <2> HIDE DEF w
  <2> QED BY <1>2, WriteRowType
<1>4. Submit2(s, "confirm", WriteRow(c, w), NoTxn)
  BY DEF ConfirmCompletion, Submit
<1> QED BY <1>3, <1>4, NoTxnType, SubmitType DEF Op

(* The columns of a cancellation *)
LEMMA CancellationType ==
  ASSUME NEW c \in Contract
  PROVE  Cancellation(c) \in Txn
<1> DEFINE w == [NoRowWrite EXCEPT !.status = "CANCELLED", !.reason = TRUE,
                                   !.logged = "CANCELLED"]
<1>1. w \in RowWrite
  BY DEF NoRowWrite, RowWrite, Status
<1> QED BY <1>1, WriteRowType DEF Cancellation

(* cancel *)
LEMMA CancelType ==
  ASSUME TypeOK, NEW s \in Session, NEW c \in Contract, NEW p \in Party,
         Cancel(s, c, p)
  PROVE  TypeOK'
<1>1. Submit2(s, "cancel", Cancellation(c), NoTxn)
  BY DEF Cancel, Submit
<1> QED BY <1>1, CancellationType, NoTxnType, SubmitType DEF Op

(* A new dispute is a dispute row.                                         *)
LEMMA NewDisputeType ==
  ASSUME NEW c \in Contract, NEW kind \in DisputeKind, NEW p \in Party
  PROVE  NewDispute(c, kind, p) \in DisputeRow
BY DEF NewDispute, DisputeRow, DisputeStatus, Other, Party

(* create_completion_dispute *)
LEMMA RejectionType ==
  ASSUME NEW c \in Contract, NEW p \in Party, NEW d \in Dispute
  PROVE  Rejection(c, p, d) \in Txn
<1> DEFINE w == [NoRowWrite EXCEPT !.status = "DISPUTED"]
           n == NewDispute(c, "completion_rejected", p)
<1>1. w \in RowWrite
  BY DEF NoRowWrite, RowWrite, Status
<1>2. WriteRow(c, w) \in Txn
  BY <1>1, WriteRowType
<1>3. n \in DisputeRow
  BY NewDisputeType DEF DisputeKind
<1> HIDE DEF w, n
<1>4. Rejection(c, p, d) =
        [WriteRow(c, w) EXCEPT !.opened = [@ EXCEPT ![d] = n],
                               !.dangling = TRUE]
  BY DEF Rejection, w, n
<1> QED BY <1>2, <1>3, <1>4 DEF Txn

(* reject_completion *)
LEMMA RejectType ==
  ASSUME TypeOK, NEW s \in Session, NEW c \in Contract, NEW p \in Party,
         NEW d \in Dispute, RejectCompletion(s, c, p, d)
  PROVE  TypeOK'
<1> DEFINE w == [NoRowWrite EXCEPT !.logged = "DISPUTED"]
<1>1. CASE Fail(s, "reject")
  BY <1>1, FailType DEF Op
<1>2. CASE Submit2(s, "reject", Rejection(c, p, d), WriteRow(c, w))
  <2>1. w \in RowWrite
    BY DEF NoRowWrite, RowWrite, Status
  <2> QED BY <1>2, <2>1, WriteRowType, RejectionType, SubmitType DEF Op
<1> QED BY <1>1, <1>2 DEF RejectCompletion

(* report_contract_no_show *)
LEMMA ReportNoShowType ==
  ASSUME TypeOK, NEW s \in Session, NEW c \in Contract, NEW p \in Party,
         NEW d \in Dispute, ReportNoShow(s, c, p, d)
  PROVE  TypeOK'
<1> DEFINE n == NewDispute(c, "no_show", p)
           t == [NoTxn EXCEPT !.opened = [@ EXCEPT ![d] = n]]
<1>1. CASE Fail(s, "no_show")
  BY <1>1, FailType DEF Op
<1>2. CASE Submit2(s, "no_show", t, Cancellation(c))
  <2>1. n \in DisputeRow
    BY NewDisputeType DEF DisputeKind
  <2>2. t \in Txn
    <3> HIDE DEF n
    <3> QED BY <2>1, NoTxnType DEF Txn
  <2> QED BY <1>2, <2>2, CancellationType, SubmitType DEF Op
<1> QED BY <1>1, <1>2 DEF ReportNoShow

(* auto_complete_pending_contracts *)
LEMMA AutoCompleteType ==
  ASSUME TypeOK, NEW s \in Session, AutoComplete(s)
  PROVE  TypeOK'
<1> DEFINE due == {c \in Contract : Overdue(c)}
           w == [NoRowWrite EXCEPT !.status = "COMPLETED",
                                   !.logged = "COMPLETED"]
           rows == [c \in Contract |-> IF c \in due THEN w ELSE NoRowWrite]
           t == [NoTxn EXCEPT !.rows = rows, !.dangling = TRUE]
<1>1. w \in RowWrite /\ NoRowWrite \in RowWrite
  BY DEF NoRowWrite, RowWrite, Status
<1>2. rows \in [Contract -> RowWrite]
  <2> HIDE DEF w, due
  <2> QED BY <1>1
<1>3. t \in Txn
  <2> HIDE DEF rows
  <2> QED BY <1>2, NoTxnType DEF Txn
<1>4. Submit2(s, "auto_complete", t, NoTxn)
  BY DEF AutoComplete, Submit
<1> QED BY <1>3, <1>4, NoTxnType, SubmitType DEF Op

(* object_to_dispute *)
LEMMA ObjectType ==
  ASSUME TypeOK, NEW s \in Session, NEW d \in Dispute, ObjectToDispute(s, d)
  PROVE  TypeOK'
<1> DEFINE w == [status |-> "objected", resolution |-> "none"]
           t == [NoTxn EXCEPT !.disputes = [@ EXCEPT ![d] = w]]
<1>1. w \in DisputeWrite
  BY DEF DisputeWrite, DisputeStatus
<1>2. t \in Txn
  <2> HIDE DEF w
  <2> QED BY <1>1, NoTxnType DEF Txn
<1>3. Submit2(s, "object", t, NoTxn)
  BY DEF ObjectToDispute, Submit
<1> QED BY <1>2, <1>3, NoTxnType, SubmitType DEF Op

(* The query of a resolution *)
LEMMA ResolveType ==
  ASSUME TypeOK, NEW s \in Session, NEW op \in {"auto_resolve", "resolve"},
         NEW ds \in SUBSET Dispute, NEW res \in Resolution,
         Resolve(s, op, ds, res)
  PROVE  TypeOK'
BY DEF TypeOK, Resolve, Become, Resolving

(* _apply_no_show_penalty *)
LEMMA PenaltyType ==
  ASSUME TypeOK, NEW ds \in SUBSET Dispute, NEW u \in Party, NEW res
  PROVE  Penalty(ds, u, res) \in UserWrite
<1> DEFINE hits  == {d \in ds : /\ disputes[d].kind = "no_show"
                                /\ disputes[d].against = u}
           count == users[u].noShows + Cardinality(hits)
<1>1. IsFiniteSet(hits)
  BY DbAssumption, FS_Subset
<1>2. Cardinality(hits) \in Nat
  BY <1>1, FS_CardinalityType
<1>3. users[u].noShows \in Nat
  BY DEF TypeOK, UserRow
<1>4. count \in Nat
  <2> HIDE DEF hits
  <2> QED BY <1>2, <1>3
<1>5. CASE hits = {} \/ res = "respondent_wins"
  BY <1>5 DEF Penalty, NoUserWrite, UserWrite, Unset
<1>6. CASE ~(hits = {} \/ res = "respondent_wins")
  <2>1. Penalty(ds, u, res) =
          [noShows |-> count, suspended |-> Suspends(count),
           deactivated |-> FALSE]
    BY <1>6 DEF Penalty
  <2>2. Suspends(count) \in BOOLEAN
    BY DEF Suspends
  <2> HIDE DEF count
  <2> QED BY <1>4, <2>1, <2>2 DEF UserWrite
<1> QED BY <1>5, <1>6

(* The contract after a decision *)
LEMMA VerdictType ==
  ASSUME NEW c, NEW ds, NEW res
  PROVE  Verdict(c, ds, res) \in RowWrite
BY DEF Verdict, NoRowWrite, RowWrite, Status, Keep

(* resolve_manually and auto_resolve_expired_disputes, up to the commit    *)
LEMMA FinishResolvingType ==
  ASSUME TypeOK, NEW s \in Session, FinishResolving(s)
  PROVE  TypeOK'
<1> DEFINE ds  == session[s].picked
           res == session[s].resolution
           ws == [d \in Dispute |->
                    IF d \in ds
                      THEN [status |-> "resolved", resolution |-> res]
                      ELSE NoDisputeWrite]
           us == [u \in Party |-> Penalty(ds, u, res)]
           rows == [c \in Contract |->
                      IF session[s].op = "resolve" THEN Verdict(c, ds, res)
                      ELSE NoRowWrite]
           t == [NoTxn EXCEPT !.disputes = ws, !.users = us, !.rows = rows]
<1>1. session[s] \in Resolving
  BY DEF TypeOK, FinishResolving, Idle, Writing, Failed
<1>2. /\ ds \in SUBSET Dispute
      /\ res \in Resolution
      /\ session[s].op \in Op
  BY <1>1 DEF Resolving, Op
<1>3. ws \in [Dispute -> DisputeWrite]
  <2> HIDE DEF ds, res
  <2> QED BY <1>2 DEF NoDisputeWrite, DisputeWrite, DisputeStatus
<1>4. us \in [Party -> UserWrite]
  <2> HIDE DEF ds, res
  <2> QED BY <1>2, PenaltyType
<1>5. rows \in [Contract -> RowWrite]
  <2>1. NoRowWrite \in RowWrite
    BY DEF NoRowWrite, RowWrite
  <2>2. ASSUME NEW c \in Contract PROVE Verdict(c, ds, res) \in RowWrite
    BY VerdictType
  <2> QED BY <2>1, <2>2
<1>6. t \in Txn
  <2> HIDE DEF ws, us, rows
  <2> QED BY <1>3, <1>4, <1>5, NoTxnType DEF Txn
<1>7. Submit2(s, session[s].op, t, NoTxn)
  BY DEF FinishResolving, Submit
<1> QED BY <1>2, <1>6, <1>7, NoTxnType, SubmitType

(* request_deletion *)
LEMMA DeleteAccountType ==
  ASSUME TypeOK, NEW s \in Session, NEW u \in Party, DeleteAccount(s, u)
  PROVE  TypeOK'
<1> DEFINE w == [NoUserWrite EXCEPT !.deactivated = TRUE]
           t == [NoTxn EXCEPT !.rows = CancelActive,
                              !.users = [@ EXCEPT ![u] = w]]
<1>1. CancelActive \in [Contract -> RowWrite]
  <2> DEFINE v == [NoRowWrite EXCEPT !.status = "CANCELLED", !.reason = TRUE]
  <2>1. NoRowWrite \in RowWrite /\ v \in RowWrite
    BY DEF NoRowWrite, RowWrite, Status
  <2>2. CancelActive = [c \in Contract |->
                          IF row[c].status \in Active THEN v ELSE NoRowWrite]
    BY DEF CancelActive
  <2> HIDE DEF v
  <2> QED BY <2>1, <2>2
<1>2. w \in UserWrite
  BY DEF NoUserWrite, UserWrite
<1>3. t \in Txn
  <2> HIDE DEF w
  <2> QED BY <1>1, <1>2, NoTxnType DEF Txn
<1>4. Submit2(s, "delete_account", t, NoTxn)
  BY DEF DeleteAccount, Submit
<1> QED BY <1>3, <1>4, NoTxnType, SubmitType DEF Op

(* COMMIT *)
LEMMA CommitType ==
  ASSUME TypeOK, NEW s \in Session, Commit(s)
  PROVE  TypeOK'
<1> DEFINE t == session[s].now
           after == IF session[s].next = NoTxn THEN Idle
                    ELSE [session[s] EXCEPT !.now = session[s].next,
                                            !.next = NoTxn]
<1>1. session[s] \in Writing
  BY DEF TypeOK, Commit, Idle, Resolving, Failed
<1>2. /\ t \in Txn
      /\ session[s].next \in Txn
      /\ session[s].op \in Op
  BY <1>1 DEF Writing
<1>3. CASE Fail(s, session[s].op)
  BY <1>2, <1>3, FailType
<1>4. CASE ~(ForeignKeys /\ t.dangling)
  <2>1. row' \in [Contract -> Row]
    <3>1. ASSUME NEW c \in Contract
          PROVE  ApplyRow(row[c], t.rows[c]) \in Row
      <4>1. row[c] \in Row /\ t.rows[c] \in RowWrite
        BY <1>2 DEF TypeOK, Txn
      <4> QED BY <4>1, ApplyRowType
    <3> QED BY <1>4, <3>1 DEF Commit
  <2>2. disputes' \in [Dispute -> DisputeRow \cup {NoDispute}]
    <3>1. ASSUME NEW d \in Dispute
          PROVE  ApplyDispute(disputes[d], t.opened[d], t.disputes[d])
                   \in DisputeRow \cup {NoDispute}
      <4>1. /\ disputes[d] \in DisputeRow \cup {NoDispute}
            /\ t.opened[d] \in DisputeRow \cup {NoDispute}
            /\ t.disputes[d] \in DisputeWrite
        BY <1>2 DEF TypeOK, Txn
      <4> QED BY <4>1, ApplyDisputeType
    <3> QED BY <1>4, <3>1 DEF Commit
  <2>3. users' \in [Party -> UserRow]
    <3>1. ASSUME NEW u \in Party
          PROVE  ApplyUser(users[u], t.users[u]) \in UserRow
      <4>1. users[u] \in UserRow /\ t.users[u] \in UserWrite
        BY <1>2 DEF TypeOK, Txn
      <4> QED BY <4>1, ApplyUserType
    <3> QED BY <1>4, <3>1 DEF Commit
  <2>4. after \in {Idle} \cup Writing
    BY <1>1, <1>2, NoTxnType DEF Writing
  <2>5. session' = [session EXCEPT ![s] = after]
    BY <1>4 DEF Commit, Become
  <2>6. session' \in [Session -> {Idle} \cup Writing \cup Resolving \cup Failed]
    <3> HIDE DEF after
    <3> QED BY <2>4, <2>5 DEF TypeOK
  <2>7. UNCHANGED <<chatted, over, aged>>
    BY <1>4 DEF Commit
  <2> QED BY <2>1, <2>2, <2>3, <2>6, <2>7 DEF TypeOK
<1> QED BY <1>3, <1>4 DEF Commit

(* The clocks, messages and dropped requests *)
LEMMA EnvironmentType ==
  ASSUME TypeOK,
         \/ Time
         \/ \E c \in Contract : SendMessage(c)
         \/ \E s \in Session : Drop(s)
  PROVE  TypeOK'
<1>1. ASSUME NEW c \in Contract, ClassPasses(c) PROVE TypeOK'
  BY <1>1 DEF TypeOK, ClassPasses
<1>2. ASSUME NEW c \in Contract, NEW p \in Party, ConfirmationAges(c, p)
      PROVE  TypeOK'
  BY <1>2 DEF TypeOK, ConfirmationAges
<1>3. ASSUME NEW d \in Dispute, ObjectionDeadlinePasses(d) PROVE TypeOK'
  <2>1. disputes[d] \in DisputeRow
    BY <1>3 DEF TypeOK, ObjectionDeadlinePasses
  <2>2. [disputes[d] EXCEPT !.late = TRUE] \in DisputeRow
    BY <2>1 DEF DisputeRow
  <2>3. disputes' \in [Dispute -> DisputeRow \cup {NoDispute}]
    BY <1>3, <2>2 DEF TypeOK, ObjectionDeadlinePasses
  <2> QED BY <1>3, <2>3 DEF TypeOK, ObjectionDeadlinePasses
<1>4. ASSUME NEW c \in Contract, SendMessage(c) PROVE TypeOK'
  BY <1>4 DEF TypeOK, SendMessage
<1>5. ASSUME NEW s \in Session, Drop(s) PROVE TypeOK'
  BY <1>5 DEF TypeOK, Drop, Become
<1> QED BY <1>1, <1>2, <1>3, <1>4, <1>5 DEF Time

(* Init is well typed.                                                     *)
LEMMA InitType == Init => TypeOK
BY DEF Init, TypeOK, Row, Status, UserRow

(* Every step keeps the types.                                             *)
LEMMA NextType == TypeOK /\ [Next]_vars => TypeOK'
<1> SUFFICES ASSUME TypeOK, [Next]_vars PROVE TypeOK'
  OBVIOUS
<1>1. ASSUME NEW s \in Session, PartyRequest(s) PROVE TypeOK'
  BY <1>1, SignType, ConfirmType, CancelType, RejectType, ReportNoShowType
     DEF PartyRequest
<1>2. ASSUME NEW s \in Session, Maintenance(s) PROVE TypeOK'
  <2>1. CASE AutoComplete(s)
    BY <2>1, AutoCompleteType
  <2>2. CASE AutoResolve(s)
    <3> DEFINE ds == {d \in Dispute : /\ disputes[d] # NoDispute
                                      /\ disputes[d].status = "open"
                                      /\ disputes[d].late}
    <3>1. Resolve(s, "auto_resolve", ds, "reporter_wins")
      BY <2>2 DEF AutoResolve
    <3>2. ds \in SUBSET Dispute
      OBVIOUS
    <3> HIDE DEF ds
    <3> QED BY <3>1, <3>2, ResolveType DEF Resolution
  <2>3. ASSUME NEW d \in Dispute, ObjectToDispute(s, d) PROVE TypeOK'
    BY <2>3, ObjectType
  <2>4. ASSUME NEW d \in Dispute, NEW res \in Resolution,
               ResolveManually(s, d, res)
        PROVE  TypeOK'
    BY <2>4, ResolveType DEF ResolveManually
  <2> QED BY <1>2, <2>1, <2>2, <2>3, <2>4 DEF Maintenance
<1>3. CASE UNCHANGED vars
  BY <1>3 DEF TypeOK, vars
<1> QED BY <1>1, <1>2, <1>3, DeleteAccountType, FinishResolvingType,
           CommitType, EnvironmentType DEF Next

(* Whatever requests interleave, the tables and the sessions hold only     *)
(* values of their types: counters stay natural numbers, a dispute a       *)
(* session resolves is a dispute, and so on.                               *)
THEOREM TypeCorrect == Spec => []TypeOK
<1> QED BY InitType, NextType, PTL DEF Spec

-----------------------------------------------------------------------------
(* Only a commit changes a contract, and it only adds evidence.            *)

(* The rows a commit leaves hold at least the evidence they held.          *)
LEMMA CommitKeepsEvidence ==
  ASSUME TypeOK, NEW s \in Session, Commit(s), NEW c \in Contract
  PROVE  /\ row[c].signed \subseteq row'[c].signed
         /\ row[c].confirmed \subseteq row'[c].confirmed
         /\ row[c].hashed => row'[c].hashed
<1>1. CASE Fail(s, session[s].op)
  BY <1>1 DEF Fail
<1>2. CASE row' = [k \in Contract |-> ApplyRow(row[k], session[s].now.rows[k])]
  BY <1>2 DEF ApplyRow
<1> QED BY <1>1, <1>2 DEF Commit

(* A step that is not a commit leaves the contracts alone.                 *)
LEMMA OnlyCommitWrites ==
  ASSUME [Next]_vars
  PROVE  row' = row \/ \E s \in Session : Commit(s)
<1>1. ASSUME NEW s \in Session, PartyRequest(s) PROVE row' = row
  <2>1. ASSUME NEW c \in Contract, NEW p \in Party, Sign(s, c, p)
        PROVE  row' = row
    BY <2>1 DEF Sign, Submit, Submit2
  <2>2. ASSUME NEW c \in Contract, NEW p \in Party, ConfirmCompletion(s, c, p)
        PROVE  row' = row
    BY <2>2 DEF ConfirmCompletion, Submit, Submit2
  <2>3. ASSUME NEW c \in Contract, NEW p \in Party, Cancel(s, c, p)
        PROVE  row' = row
    BY <2>3 DEF Cancel, Submit, Submit2
  <2>4. ASSUME NEW c \in Contract, NEW p \in Party, NEW d \in Dispute,
               RejectCompletion(s, c, p, d)
        PROVE  row' = row
    BY <2>4 DEF RejectCompletion, Submit2, Fail
  <2>5. ASSUME NEW c \in Contract, NEW p \in Party, NEW d \in Dispute,
               ReportNoShow(s, c, p, d)
        PROVE  row' = row
    BY <2>5 DEF ReportNoShow, Submit2, Fail
  <2> QED BY <1>1, <2>1, <2>2, <2>3, <2>4, <2>5 DEF PartyRequest
<1>2. ASSUME NEW s \in Session, Maintenance(s) PROVE row' = row
  <2>1. CASE AutoComplete(s)
    BY <2>1 DEF AutoComplete, Submit, Submit2
  <2>2. CASE AutoResolve(s)
    BY <2>2 DEF AutoResolve, Resolve
  <2>3. ASSUME NEW d \in Dispute, ObjectToDispute(s, d) PROVE row' = row
    BY <2>3 DEF ObjectToDispute, Submit, Submit2
  <2>4. ASSUME NEW d \in Dispute, NEW res \in Resolution,
               ResolveManually(s, d, res)
        PROVE  row' = row
    BY <2>4 DEF ResolveManually, Resolve
  <2> QED BY <1>2, <2>1, <2>2, <2>3, <2>4 DEF Maintenance
<1>3. ASSUME NEW s \in Session, NEW u \in Party, DeleteAccount(s, u)
      PROVE  row' = row
  BY <1>3 DEF DeleteAccount, Submit, Submit2
<1>4. ASSUME NEW s \in Session, FinishResolving(s) \/ Drop(s)
      PROVE  row' = row
  BY <1>4 DEF FinishResolving, Drop, Submit, Submit2
<1>5. CASE Time \/ \E c \in Contract : SendMessage(c)
  BY <1>5 DEF Time, ClassPasses, ConfirmationAges, ObjectionDeadlinePasses,
             SendMessage
<1>6. CASE UNCHANGED vars
  BY <1>6 DEF vars
<1> QED BY <1>1, <1>2, <1>3, <1>4, <1>5, <1>6 DEF Next

(* No request, however late it commits, takes back a signature, a          *)
(* confirmation or the content hash another one recorded.                  *)
THEOREM EvidenceIsKept == Spec => EvidenceKept
<1> DEFINE Kept == \A c \in Contract :
                     /\ row[c].signed \subseteq row'[c].signed
                     /\ row[c].confirmed \subseteq row'[c].confirmed
                     /\ row[c].hashed => row'[c].hashed
<1>1. TypeOK /\ [Next]_vars => [Kept]_vars
  BY OnlyCommitWrites, CommitKeepsEvidence
<1> QED BY <1>1, TypeCorrect, PTL DEF Spec, EvidenceKept

-----------------------------------------------------------------------------
(* EvidenceInv is inductive; with it, the safety of contracts under any    *)
(* interleaving: signatures before work, confirmations before completion,  *)
(* suspension at the third no-show.                                        *)

(* A transaction that leaves contracts and users alone is justified.       *)
LEMMA IdleRowsJustified ==
  ASSUME NEW rs, NEW t \in Txn,
         t.rows = [c \in Contract |-> NoRowWrite],
         t.users = [u \in Party |-> NoUserWrite]
  PROVE  Justified(rs, t)
BY DEF Justified, SignedWrite, ConfirmedWrite, SuspendedWrite, NoRowWrite,
       NoUserWrite, Keep, Unset, Working, SuspendAt

(* The empty transaction is justified.                                     *)
LEMMA NoTxnJustified ==
  ASSUME NEW rs
  PROVE  Justified(rs, NoTxn)
BY NoTxnType, IdleRowsJustified DEF NoTxn

(* Writing one contract is justified when that write is.                   *)
LEMMA WriteRowJustified ==
  ASSUME NEW rs, NEW c \in Contract, NEW w \in RowWrite,
         SignedWrite(rs[c], w), Unattended => ConfirmedWrite(rs[c], w)
  PROVE  Justified(rs, WriteRow(c, w))
<1> DEFINE t == WriteRow(c, w)
<1>1. /\ t.rows = [[k \in Contract |-> NoRowWrite] EXCEPT ![c] = w]
      /\ t.users = [u \in Party |-> NoUserWrite]
  BY DEF WriteRow, NoTxn
<1>2. ASSUME NEW k \in Contract
      PROVE  (t.rows[k] = w /\ k = c) \/ t.rows[k] = NoRowWrite
  BY <1>1
<1>3. ASSUME NEW r
      PROVE  SignedWrite(r, NoRowWrite) /\ ConfirmedWrite(r, NoRowWrite)
  BY DEF SignedWrite, ConfirmedWrite, NoRowWrite, Keep, Working
<1>4. \A u \in Party : SuspendedWrite(t.users[u])
  BY <1>1 DEF SuspendedWrite, NoUserWrite, Unset, SuspendAt
<1> HIDE DEF t
<1>5. \A k \in Contract : SignedWrite(rs[k], t.rows[k])
  BY <1>2, <1>3
<1>6. Unattended => \A k \in Contract : ConfirmedWrite(rs[k], t.rows[k])
  BY <1>2, <1>3
<1>7. Justified(rs, t)
  BY <1>4, <1>5, <1>6 DEF Justified
<1> QED BY <1>7 DEF t

(* A session that leaves justified work keeps the invariant.               *)
LEMMA SubmitKeeps ==
  ASSUME TypeOK, EvidenceInv, NEW s \in Session, NEW op,
         NEW now, NEW next, Submit2(s, op, now, next),
         Justified(row, now), Justified(row, next)
  PROVE  EvidenceInv'
<1>1. /\ row' = row
      /\ users' = users
      /\ session' = [session EXCEPT ![s] = [stage |-> "writing", op |-> op,
                                            now |-> now, next |-> next]]
  BY DEF Submit2, Become
<1>2. InFlightJustified'
  <2> SUFFICES ASSUME NEW r \in Session
               PROVE  /\ session'[r].stage = "writing" =>
                           /\ Justified(row, session'[r].now)
                           /\ Justified(row, session'[r].next)
                      /\ session'[r].stage = "resolving" =>
                           session'[r].op \in Wired
    BY <1>1 DEF InFlightJustified
  <2>1. CASE r = s
    <3>1. session'[r] = [stage |-> "writing", op |-> op, now |-> now,
                         next |-> next]
      BY <1>1, <2>1 DEF TypeOK
    <3> QED BY <3>1
  <2>2. CASE r # s
    <3>1. session'[r] = session[r]
      BY <1>1, <2>2 DEF TypeOK
    <3> QED BY <3>1 DEF EvidenceInv, InFlightJustified
  <2> QED BY <2>1, <2>2
<1>3. SignedBeforeWork' /\ (Unattended => CompletedByBoth')
                        /\ ThreeNoShowsSuspend'
  BY <1>1 DEF EvidenceInv, SignedBeforeWork, CompletedByBoth,
              ThreeNoShowsSuspend
<1> QED BY <1>2, <1>3 DEF EvidenceInv, Unattended

(* So does a step that writes no table and starts no transaction.          *)
LEMMA QuietKeeps ==
  ASSUME TypeOK, EvidenceInv, row' = row, users' = users,
         NEW s \in Session, NEW state,
         state.stage # "writing",
         state.stage = "resolving" => state.op \in Wired,
         session' = session \/ session' = [session EXCEPT ![s] = state]
  PROVE  EvidenceInv'
<1>1. InFlightJustified'
  <2> SUFFICES ASSUME NEW r \in Session
               PROVE  /\ session'[r].stage = "writing" =>
                           /\ Justified(row, session'[r].now)
                           /\ Justified(row, session'[r].next)
                      /\ session'[r].stage = "resolving" =>
                           session'[r].op \in Wired
    BY DEF InFlightJustified
  <2>1. session'[r] = session[r] \/ session'[r] = state
    BY DEF TypeOK
  <2> QED BY <2>1 DEF EvidenceInv, InFlightJustified
<1>2. SignedBeforeWork' /\ (Unattended => CompletedByBoth')
                        /\ ThreeNoShowsSuspend'
  BY DEF EvidenceInv, SignedBeforeWork, CompletedByBoth, ThreeNoShowsSuspend
<1> QED BY <1>1, <1>2 DEF EvidenceInv, Unattended

(* A failing request writes nothing.                                       *)
LEMMA FailKeeps ==
  ASSUME TypeOK, EvidenceInv, NEW s \in Session, NEW op, Fail(s, op)
  PROVE  EvidenceInv'
<1> DEFINE state == [stage |-> "failed", op |-> op]
<1>1. /\ row' = row /\ users' = users
      /\ session' = [session EXCEPT ![s] = state]
  BY DEF Fail, Become
<1>2. state.stage # "writing" /\ state.stage # "resolving"
  OBVIOUS
<1> QED BY <1>1, <1>2, QuietKeeps

-----------------------------------------------------------------------------
(* Every operation keeps the invariant.                                    *)

(* set_in_progress: the second signature a request sees completes Party.   *)
LEMMA SignKeeps ==
  ASSUME TypeOK, EvidenceInv, NEW s \in Session, NEW c \in Contract,
         NEW p \in Party, Sign(s, c, p)
  PROVE  EvidenceInv'
<1> DEFINE w == IF FullySigned(c, p)
                  THEN [NoRowWrite EXCEPT !.signed = {p}, !.hashed = TRUE,
                          !.status = "IN_PROGRESS", !.logged = "IN_PROGRESS"]
                  ELSE [NoRowWrite EXCEPT !.signed = {p},
                          !.logged = "CONFIRMED"]
<1>1. w \in RowWrite
  BY DEF NoRowWrite, RowWrite, Keep, Status
<1>2. SignedWrite(row[c], w) /\ ConfirmedWrite(row[c], w)
  BY DEF SignedWrite, ConfirmedWrite, FullySigned, NoRowWrite, Keep, Working
<1>3. Submit2(s, "sign", WriteRow(c, w), NoTxn)
  BY DEF Sign, Submit
<1> HIDE DEF w
<1> QED BY <1>1, <1>2, <1>3, WriteRowJustified, NoTxnJustified, SubmitKeeps

(* confirm_completion: only a started contract, hence a signed one.        *)
LEMMA ConfirmKeeps ==
  ASSUME TypeOK, EvidenceInv, NEW s \in Session, NEW c \in Contract,
         NEW p \in Party, ConfirmCompletion(s, c, p)
  PROVE  EvidenceInv'
<1> DEFINE to == IF FullyConfirmed(c, p) THEN "COMPLETED"
                 ELSE IF row[c].status = "IN_PROGRESS"
                        THEN "PENDING_COMPLETION"
                 ELSE Keep
           w == [NoRowWrite EXCEPT !.confirmed = {p}, !.status = to,
                                   !.logged = to]
<1>1. to \in Status \cup {Keep}
  BY DEF Status
<1>2. to = "COMPLETED" => FullyConfirmed(c, p)
  BY DEF Keep
<1>3. row[c].signed = Party /\ row[c].hashed
  BY DEF ConfirmCompletion, EvidenceInv, SignedBeforeWork, Working
<1>4. Submit2(s, "confirm", WriteRow(c, w), NoTxn)
  BY DEF ConfirmCompletion, Submit
<1> HIDE DEF to
<1>5. w \in RowWrite
  BY <1>1 DEF NoRowWrite, RowWrite
<1>6. SignedWrite(row[c], w) /\ ConfirmedWrite(row[c], w)
  BY <1>2, <1>3 DEF SignedWrite, ConfirmedWrite, FullyConfirmed, NoRowWrite
<1> HIDE DEF w
<1> QED BY <1>4, <1>5, <1>6, WriteRowJustified, NoTxnJustified, SubmitKeeps

(* A cancellation starts and completes nothing.                            *)
LEMMA CancellationJustified ==
  ASSUME NEW rs, NEW c \in Contract
  PROVE  Justified(rs, Cancellation(c))
<1> DEFINE w == [NoRowWrite EXCEPT !.status = "CANCELLED", !.reason = TRUE,
                                   !.logged = "CANCELLED"]
<1>1. w \in RowWrite
  BY DEF NoRowWrite, RowWrite, Status
<1>2. SignedWrite(rs[c], w) /\ ConfirmedWrite(rs[c], w)
  BY DEF SignedWrite, ConfirmedWrite, NoRowWrite, Working
<1> QED BY <1>1, <1>2, WriteRowJustified DEF Cancellation

(* cancel *)
LEMMA CancelKeeps ==
  ASSUME TypeOK, EvidenceInv, NEW s \in Session, NEW c \in Contract,
         NEW p \in Party, Cancel(s, c, p)
  PROVE  EvidenceInv'
<1>1. Submit2(s, "cancel", Cancellation(c), NoTxn)
  BY DEF Cancel, Submit
<1> QED BY <1>1, CancellationJustified, NoTxnJustified, SubmitKeeps

(* reject_completion: a pending contract was signed.                       *)
LEMMA RejectKeeps ==
  ASSUME TypeOK, EvidenceInv, NEW s \in Session, NEW c \in Contract,
         NEW p \in Party, NEW d \in Dispute, RejectCompletion(s, c, p, d)
  PROVE  EvidenceInv'
<1> DEFINE w == [NoRowWrite EXCEPT !.status = "DISPUTED"]
           v == [NoRowWrite EXCEPT !.logged = "DISPUTED"]
           t == Rejection(c, p, d)
<1>1. CASE Fail(s, "reject")
  BY <1>1, FailKeeps
<1>2. CASE Submit2(s, "reject", t, WriteRow(c, v))
  <2>1. w \in RowWrite /\ v \in RowWrite
    BY DEF NoRowWrite, RowWrite, Status
  <2>2. row[c].signed = Party /\ row[c].hashed
    BY DEF RejectCompletion, EvidenceInv, SignedBeforeWork, Working
  <2>3. /\ SignedWrite(row[c], w) /\ ConfirmedWrite(row[c], w)
        /\ SignedWrite(row[c], v) /\ ConfirmedWrite(row[c], v)
    BY <2>2 DEF SignedWrite, ConfirmedWrite, NoRowWrite, Working, Keep
  <2>4. /\ t.rows = WriteRow(c, w).rows
        /\ t.users = WriteRow(c, w).users
    BY DEF Rejection, WriteRow, NoTxn
  <2> HIDE DEF w, v, t
  <2>5. Justified(row, WriteRow(c, w)) /\ Justified(row, WriteRow(c, v))
    BY <2>1, <2>3, WriteRowJustified
  <2>6. Justified(row, t)
    BY <2>4, <2>5 DEF Justified
  <2> QED BY <1>2, <2>5, <2>6, SubmitKeeps
<1> QED BY <1>1, <1>2 DEF RejectCompletion

(* report_contract_no_show: a dispute, then a cancellation.                *)
LEMMA ReportNoShowKeeps ==
  ASSUME TypeOK, EvidenceInv, NEW s \in Session, NEW c \in Contract,
         NEW p \in Party, NEW d \in Dispute, ReportNoShow(s, c, p, d)
  PROVE  EvidenceInv'
<1> DEFINE t == [NoTxn EXCEPT !.opened =
                   [@ EXCEPT ![d] = NewDispute(c, "no_show", p)]]
<1>1. CASE Fail(s, "no_show")
  BY <1>1, FailKeeps
<1>2. CASE Submit2(s, "no_show", t, Cancellation(c))
  <2>1. t.rows = NoTxn.rows /\ t.users = NoTxn.users
    BY DEF NoTxn
  <2> HIDE DEF t
  <2>2. Justified(row, t)
    BY <2>1, NoTxnJustified DEF Justified
  <2> QED BY <1>2, <2>2, CancellationJustified, SubmitKeeps
<1> QED BY <1>1, <1>2 DEF ReportNoShow

(* auto_complete_pending_contracts completes only started contracts.       *)
LEMMA AutoCompleteKeeps ==
  ASSUME TypeOK, EvidenceInv, NEW s \in Session, AutoComplete(s)
  PROVE  EvidenceInv'
<1> DEFINE due == {c \in Contract : Overdue(c)}
           w == [NoRowWrite EXCEPT !.status = "COMPLETED",
                                   !.logged = "COMPLETED"]
           rows == [c \in Contract |-> IF c \in due THEN w ELSE NoRowWrite]
           t == [NoTxn EXCEPT !.rows = rows, !.dangling = TRUE]
<1>1. Submit2(s, "auto_complete", t, NoTxn)
  BY DEF AutoComplete, Submit
<1>2. ~Unattended
  BY DEF AutoComplete, Unattended
<1>3. ASSUME NEW c \in Contract PROVE SignedWrite(row[c], rows[c])
  <2>1. CASE c \in due
    <3>1. row[c].signed = Party /\ row[c].hashed
      BY <2>1 DEF Overdue, EvidenceInv, SignedBeforeWork, Working
    <3>2. w.signed = {}
      BY DEF NoRowWrite
    <3>3. rows[c] = w
      BY <2>1
    <3> HIDE DEF w, rows, due
    <3> QED BY <3>1, <3>2, <3>3 DEF SignedWrite
  <2>2. CASE c \notin due
    <3>1. rows[c] = NoRowWrite
      BY <2>2
    <3> QED BY <3>1 DEF SignedWrite, NoRowWrite, Keep, Working
  <2> QED BY <2>1, <2>2
<1>4. t.rows = rows /\ t.users = NoTxn.users
  BY DEF NoTxn
<1> HIDE DEF t, rows
<1>5. Justified(row, t)
  BY <1>2, <1>3, <1>4, NoTxnJustified DEF Justified
<1> QED BY <1>1, <1>5, NoTxnJustified, SubmitKeeps

(* object_to_dispute *)
LEMMA ObjectKeeps ==
  ASSUME TypeOK, EvidenceInv, NEW s \in Session, NEW d \in Dispute,
         ObjectToDispute(s, d)
  PROVE  EvidenceInv'
<1> DEFINE w == [status |-> "objected", resolution |-> "none"]
           t == [NoTxn EXCEPT !.disputes = [@ EXCEPT ![d] = w]]
<1>1. Submit2(s, "object", t, NoTxn)
  BY DEF ObjectToDispute, Submit
<1>2. t.rows = NoTxn.rows /\ t.users = NoTxn.users
  BY DEF NoTxn
<1> HIDE DEF t
<1>3. Justified(row, t)
  BY <1>2, NoTxnJustified DEF Justified
<1> QED BY <1>1, <1>3, NoTxnJustified, SubmitKeeps

(* The query of a resolution that is wired                                 *)
LEMMA ResolveKeeps ==
  ASSUME TypeOK, EvidenceInv, NEW s \in Session, NEW op \in Wired,
         NEW ds, NEW res, Resolve(s, op, ds, res)
  PROVE  EvidenceInv'
<1> DEFINE state == [stage |-> "resolving", op |-> op, picked |-> ds,
                     resolution |-> res]
<1>1. /\ row' = row /\ users' = users
      /\ session' = [session EXCEPT ![s] = state]
  BY DEF Resolve, Become
<1>2. state.stage # "writing" /\ state.op \in Wired
  OBVIOUS
<1> HIDE DEF state
<1> QED BY <1>1, <1>2, QuietKeeps

(* A penalty that brings the count to three suspends.                      *)
LEMMA PenaltySuspends ==
  ASSUME NEW ds, NEW u, NEW res
  PROVE  SuspendedWrite(Penalty(ds, u, res))
<1> DEFINE hits  == {d \in ds : /\ disputes[d].kind = "no_show"
                                /\ disputes[d].against = u}
           count == users[u].noShows + Cardinality(hits)
<1>1. CASE hits = {} \/ res = "respondent_wins"
  BY <1>1 DEF Penalty, SuspendedWrite, NoUserWrite, Unset, SuspendAt
<1>2. CASE ~(hits = {} \/ res = "respondent_wins")
  <2>1. Penalty(ds, u, res) =
          [noShows |-> count, suspended |-> Suspends(count),
           deactivated |-> FALSE]
    BY <1>2 DEF Penalty
  <2>2. /\ Penalty(ds, u, res).noShows = count
        /\ Penalty(ds, u, res).suspended = (count >= SuspendAt)
    BY <2>1 DEF Suspends
  <2> HIDE DEF count
  <2> QED BY <2>2 DEF SuspendedWrite
<1> QED BY <1>1, <1>2

(* resolve_manually and auto_resolve_expired_disputes: a decision changes  *)
(* the status of a DISPUTED contract only, which was signed.               *)
LEMMA FinishResolvingKeeps ==
  ASSUME TypeOK, EvidenceInv, NEW s \in Session, FinishResolving(s)
  PROVE  EvidenceInv'
<1> DEFINE ds  == session[s].picked
           res == session[s].resolution
           ws == [d \in Dispute |->
                    IF d \in ds
                      THEN [status |-> "resolved", resolution |-> res]
                      ELSE NoDisputeWrite]
           us == [u \in Party |-> Penalty(ds, u, res)]
           rows == [c \in Contract |->
                      IF session[s].op = "resolve" THEN Verdict(c, ds, res)
                      ELSE NoRowWrite]
           t == [NoTxn EXCEPT !.disputes = ws, !.users = us, !.rows = rows]
<1>1. Submit2(s, session[s].op, t, NoTxn)
  BY DEF FinishResolving, Submit
<1>2. ASSUME NEW c \in Contract
      PROVE  SignedWrite(row[c], rows[c])
  <2>1. CASE rows[c] = NoRowWrite
    BY <2>1 DEF SignedWrite, NoRowWrite, Keep, Working
  <2>2. CASE rows[c] # NoRowWrite
    <3>1. row[c].status = "DISPUTED"
      BY <2>2 DEF Verdict
    <3>2. row[c].signed = Party /\ row[c].hashed
      BY <3>1 DEF EvidenceInv, SignedBeforeWork, Working
    <3>3. rows[c].signed = {}
      BY <2>2 DEF Verdict, NoRowWrite
    <3> HIDE DEF rows
    <3> QED BY <3>2, <3>3 DEF SignedWrite
  <2> QED BY <2>1, <2>2
<1>3. ASSUME Unattended, NEW c \in Contract
      PROVE  ConfirmedWrite(row[c], rows[c])
  <2>1. session[s].op # "resolve"
    BY <1>3 DEF Unattended, EvidenceInv, InFlightJustified, FinishResolving
  <2>2. rows[c] = NoRowWrite
    BY <2>1
  <2> QED BY <2>2 DEF ConfirmedWrite, NoRowWrite, Keep
<1>4. \A u \in Party : SuspendedWrite(us[u])
  BY PenaltySuspends
<1>5. t.rows = rows /\ t.users = us
  BY DEF NoTxn
<1> HIDE DEF t, rows, us
<1>6. Justified(row, t)
  BY <1>2, <1>3, <1>4, <1>5 DEF Justified
<1> QED BY <1>1, <1>6, NoTxnJustified, SubmitKeeps

(* request_deletion: cancels, and does not touch the no-show count.        *)
LEMMA DeleteAccountKeeps ==
  ASSUME TypeOK, EvidenceInv, NEW s \in Session, NEW u \in Party,
         DeleteAccount(s, u)
  PROVE  EvidenceInv'
<1> DEFINE w == [NoUserWrite EXCEPT !.deactivated = TRUE]
           t == [NoTxn EXCEPT !.rows = CancelActive,
                              !.users = [@ EXCEPT ![u] = w]]
<1>1. Submit2(s, "delete_account", t, NoTxn)
  BY DEF DeleteAccount, Submit
<1>2. ASSUME NEW c \in Contract
      PROVE  /\ SignedWrite(row[c], CancelActive[c])
             /\ ConfirmedWrite(row[c], CancelActive[c])
  BY DEF CancelActive, SignedWrite, ConfirmedWrite, NoRowWrite, Keep, Working
<1>3. /\ t.rows = CancelActive
      /\ t.users = [[v \in Party |-> NoUserWrite] EXCEPT ![u] = w]
  BY DEF NoTxn
<1>4. SuspendedWrite(NoUserWrite) /\ SuspendedWrite(w)
  BY DEF SuspendedWrite, NoUserWrite, Unset, SuspendAt
<1> HIDE DEF t, w
<1>5. \A v \in Party : SuspendedWrite(t.users[v])
  BY <1>3, <1>4
<1>6. Justified(row, t)
  BY <1>2, <1>3, <1>5 DEF Justified
<1> QED BY <1>1, <1>6, NoTxnJustified, SubmitKeeps

-----------------------------------------------------------------------------
(* COMMIT keeps the invariant: rows gain evidence, and the status written  *)
(* was justified by evidence that is still there.                          *)

(* What a row gains never takes the justification of a write away.         *)
LEMMA EvidenceGrows ==
  ASSUME NEW r \in Row, NEW w \in RowWrite, NEW v \in RowWrite
  PROVE  /\ SignedWrite(r, v) => SignedWrite(ApplyRow(r, w), v)
         /\ ConfirmedWrite(r, v) => ConfirmedWrite(ApplyRow(r, w), v)
<1>1. /\ r.signed \subseteq ApplyRow(r, w).signed
      /\ ApplyRow(r, w).signed \subseteq Party
      /\ r.confirmed \subseteq ApplyRow(r, w).confirmed
      /\ ApplyRow(r, w).confirmed \subseteq Party
      /\ r.hashed => ApplyRow(r, w).hashed
  BY DEF ApplyRow, Row, RowWrite
<1>2. v.signed \subseteq Party /\ v.confirmed \subseteq Party
  BY DEF RowWrite
<1> QED BY <1>1, <1>2 DEF SignedWrite, ConfirmedWrite

(* A justified write to a sound row leaves a sound row.                    *)
LEMMA ApplySigned ==
  ASSUME NEW r \in Row, NEW w \in RowWrite, SignedWrite(r, w),
         r.status \in Working => r.signed = Party /\ r.hashed,
         ApplyRow(r, w).status \in Working
  PROVE  ApplyRow(r, w).signed = Party /\ ApplyRow(r, w).hashed
<1>1. CASE w.status = Keep
  <2>1. r.signed = Party /\ r.hashed
    BY <1>1 DEF ApplyRow
  <2> QED BY <2>1 DEF ApplyRow, RowWrite
<1>2. CASE w.status # Keep
  <2>1. r.signed \cup w.signed = Party /\ (r.hashed \/ w.hashed)
    BY <1>2 DEF ApplyRow, SignedWrite
  <2> QED BY <2>1 DEF ApplyRow
<1> QED BY <1>1, <1>2

(* The same for confirmations.                                             *)
LEMMA ApplyConfirmed ==
  ASSUME NEW r \in Row, NEW w \in RowWrite, ConfirmedWrite(r, w),
         r.status = "COMPLETED" => r.confirmed = Party,
         ApplyRow(r, w).status = "COMPLETED"
  PROVE  ApplyRow(r, w).confirmed = Party
<1>1. CASE w.status = Keep
  <2>1. r.confirmed = Party
    BY <1>1 DEF ApplyRow
  <2> QED BY <2>1 DEF ApplyRow, RowWrite
<1>2. CASE w.status # Keep
  BY <1>2 DEF ApplyRow, ConfirmedWrite
<1> QED BY <1>1, <1>2

(* The same for no-shows and suspension.                                   *)
LEMMA ApplySuspended ==
  ASSUME NEW u \in UserRow, NEW w \in UserWrite, SuspendedWrite(w),
         u.noShows >= SuspendAt => u.suspended,
         ApplyUser(u, w).noShows >= SuspendAt
  PROVE  ApplyUser(u, w).suspended
BY DEF ApplyUser, SuspendedWrite, UserRow, UserWrite, Unset, SuspendAt

(* COMMIT, whether the database accepts it or not                          *)
LEMMA CommitKeeps ==
  ASSUME TypeOK, EvidenceInv, NEW s \in Session, Commit(s)
  PROVE  EvidenceInv'
<1> DEFINE t == session[s].now
           after == IF session[s].next = NoTxn THEN Idle
                    ELSE [session[s] EXCEPT !.now = session[s].next,
                                            !.next = NoTxn]
<1>1. session[s] \in Writing
  BY DEF TypeOK, Commit, Idle, Resolving, Failed
<1>2. t \in Txn /\ session[s].next \in Txn
  BY <1>1 DEF Writing
<1>3. Justified(row, t) /\ Justified(row, session[s].next)
  BY <1>1 DEF EvidenceInv, InFlightJustified, Writing
<1>4. CASE Fail(s, session[s].op)
  BY <1>4, FailKeeps
<1>5. CASE ~(ForeignKeys /\ t.dangling)
  <2>1. /\ row' = [c \in Contract |-> ApplyRow(row[c], t.rows[c])]
        /\ users' = [u \in Party |-> ApplyUser(users[u], t.users[u])]
        /\ session' = [session EXCEPT ![s] = after]
    BY <1>5 DEF Commit, Become
  <2>2. ASSUME NEW c \in Contract
        PROVE  row[c] \in Row /\ t.rows[c] \in RowWrite
    BY <1>2 DEF TypeOK, Txn
  <2>3. SignedBeforeWork'
    <3> SUFFICES ASSUME NEW c \in Contract, row'[c].status \in Working
                 PROVE  row'[c].signed = Party /\ row'[c].hashed
      BY DEF SignedBeforeWork
    <3>1. row'[c] = ApplyRow(row[c], t.rows[c])
      BY <2>1
    <3>2. SignedWrite(row[c], t.rows[c])
      BY <1>3 DEF Justified
    <3> QED BY <2>2, <3>1, <3>2, ApplySigned DEF EvidenceInv, SignedBeforeWork
  <2>4. Unattended => CompletedByBoth'
    <3> SUFFICES ASSUME Unattended, NEW c \in Contract,
                        row'[c].status = "COMPLETED"
                 PROVE  row'[c].confirmed = Party
      BY DEF CompletedByBoth
    <3>1. row'[c] = ApplyRow(row[c], t.rows[c])
      BY <2>1
    <3>2. ConfirmedWrite(row[c], t.rows[c])
      BY <1>3 DEF Justified
    <3> QED BY <2>2, <3>1, <3>2, ApplyConfirmed DEF EvidenceInv, CompletedByBoth
  <2>5. ThreeNoShowsSuspend'
    <3> SUFFICES ASSUME NEW u \in Party, users'[u].noShows >= SuspendAt
                 PROVE  users'[u].suspended
      BY DEF ThreeNoShowsSuspend
    <3>1. users'[u] = ApplyUser(users[u], t.users[u])
      BY <2>1
    <3>2. SuspendedWrite(t.users[u])
      BY <1>3 DEF Justified
    <3>3. users[u] \in UserRow /\ t.users[u] \in UserWrite
      BY <1>2 DEF TypeOK, Txn
    <3> QED BY <3>1, <3>2, <3>3, ApplySuspended
            DEF EvidenceInv, ThreeNoShowsSuspend
  <2>6. ASSUME NEW v \in Txn, Justified(row, v)
        PROVE  Justified(row', v)
    <3>1. ASSUME NEW c \in Contract
          PROVE  /\ SignedWrite(row'[c], v.rows[c])
                 /\ Unattended => ConfirmedWrite(row'[c], v.rows[c])
      <4>1. row'[c] = ApplyRow(row[c], t.rows[c])
        BY <2>1
      <4>2. v.rows[c] \in RowWrite
        BY <2>6 DEF Txn
      <4>3. /\ SignedWrite(row[c], v.rows[c])
            /\ Unattended => ConfirmedWrite(row[c], v.rows[c])
        BY <2>6 DEF Justified
      <4> QED BY <2>2, <4>1, <4>2, <4>3, EvidenceGrows
    <3> QED BY <2>6, <3>1 DEF Justified
  <2>7. InFlightJustified'
    <3> SUFFICES ASSUME NEW r \in Session
                 PROVE  /\ session'[r].stage = "writing" =>
                             /\ Justified(row', session'[r].now)
                             /\ Justified(row', session'[r].next)
                        /\ session'[r].stage = "resolving" =>
                             session'[r].op \in Wired
      BY DEF InFlightJustified
    <3>1. CASE r # s
      <4>1. session'[r] = session[r]
        BY <2>1, <3>1 DEF TypeOK
      <4>2. session[r].stage = "writing" =>
              /\ session[r].now \in Txn /\ Justified(row, session[r].now)
              /\ session[r].next \in Txn /\ Justified(row, session[r].next)
        BY DEF TypeOK, Idle, Writing, Resolving, Failed,
               EvidenceInv, InFlightJustified
      <4>3. session[r].stage = "resolving" => session[r].op \in Wired
        BY DEF EvidenceInv, InFlightJustified
      <4> QED BY <2>6, <4>1, <4>2, <4>3
    <3>2. CASE r = s /\ session[s].next = NoTxn
      <4>1. session'[r] = Idle
        BY <2>1, <3>2 DEF TypeOK
      <4> QED BY <4>1 DEF Idle
    <3>3. CASE r = s /\ session[s].next # NoTxn
      <4>1. session'[r] = [session[s] EXCEPT !.now = session[s].next,
                                             !.next = NoTxn]
        BY <2>1, <3>3 DEF TypeOK
      <4>2. /\ session'[r].stage = "writing"
            /\ session'[r].now = session[s].next
            /\ session'[r].next = NoTxn
        BY <1>1, <4>1 DEF Writing
      <4> QED BY <1>2, <1>3, <2>6, <4>2, NoTxnJustified
    <3> QED BY <3>1, <3>2, <3>3
  <2> QED BY <2>3, <2>4, <2>5, <2>7 DEF EvidenceInv, Unattended
<1> QED BY <1>4, <1>5 DEF Commit

(* The clocks, messages and dropped requests write no contract and no user. *)
LEMMA EnvironmentKeeps ==
  ASSUME TypeOK, EvidenceInv,
         \/ Time
         \/ \E c \in Contract : SendMessage(c)
         \/ UNCHANGED vars
  PROVE  EvidenceInv'
<1>1. row' = row /\ users' = users /\ session' = session
  BY DEF Time, ClassPasses, ConfirmationAges, ObjectionDeadlinePasses,
         SendMessage, vars
<1> QED BY <1>1 DEF EvidenceInv, SignedBeforeWork, CompletedByBoth, Unattended,
                    ThreeNoShowsSuspend, InFlightJustified

(* A request that is dropped leaves only what it committed.                *)
LEMMA DropKeeps ==
  ASSUME TypeOK, EvidenceInv, NEW s \in Session, Drop(s)
  PROVE  EvidenceInv'
<1>1. row' = row /\ users' = users /\ session' = [session EXCEPT ![s] = Idle]
  BY DEF Drop, Become
<1>2. Idle.stage # "writing" /\ Idle.stage # "resolving"
  BY DEF Idle
<1> QED BY <1>1, <1>2, QuietKeeps

(* Nobody has signed, and no request is in flight.                         *)
LEMMA InitKeeps == Init => EvidenceInv
BY DEF Init, EvidenceInv, SignedBeforeWork, CompletedByBoth,
       ThreeNoShowsSuspend, InFlightJustified, Working, Idle, SuspendAt

(* Every step keeps the invariant.                                         *)
LEMMA NextKeeps == TypeOK /\ EvidenceInv /\ [Next]_vars => EvidenceInv'
<1> SUFFICES ASSUME TypeOK, EvidenceInv, [Next]_vars PROVE EvidenceInv'
  OBVIOUS
<1>1. ASSUME NEW s \in Session, PartyRequest(s) PROVE EvidenceInv'
  BY <1>1, SignKeeps, ConfirmKeeps, CancelKeeps, RejectKeeps, ReportNoShowKeeps
     DEF PartyRequest
<1>2. ASSUME NEW s \in Session, Maintenance(s) PROVE EvidenceInv'
  <2>1. CASE AutoComplete(s)
    BY <2>1, AutoCompleteKeeps
  <2>2. CASE AutoResolve(s)
    BY <2>2, ResolveKeeps DEF AutoResolve
  <2>3. ASSUME NEW d \in Dispute, ObjectToDispute(s, d) PROVE EvidenceInv'
    BY <2>3, ObjectKeeps
  <2>4. ASSUME NEW d \in Dispute, NEW res \in Resolution,
               ResolveManually(s, d, res)
        PROVE  EvidenceInv'
    BY <2>4, ResolveKeeps DEF ResolveManually
  <2> QED BY <1>2, <2>1, <2>2, <2>3, <2>4 DEF Maintenance
<1> QED BY <1>1, <1>2, DeleteAccountKeeps, FinishResolvingKeeps, CommitKeeps,
           DropKeeps, EnvironmentKeeps DEF Next

(* The invariant holds of every behaviour.                                 *)
LEMMA EvidenceInvariant == Spec => []EvidenceInv
<1> QED BY InitKeeps, NextKeeps, TypeCorrect, PTL DEF Spec

(* However the two signing requests, cancellations and deletions           *)
(* interleave, a contract in progress or beyond carries both signatures    *)
(* and its content hash.                                                   *)
THEOREM WorkIsSigned == Spec => []SignedBeforeWork
<1>1. EvidenceInv => SignedBeforeWork
  BY DEF EvidenceInv
<1> QED BY <1>1, EvidenceInvariant, PTL

(* Where nothing but the parties completes contracts, a COMPLETED contract *)
(* has both confirmations.                                                 *)
THEOREM CompletionTakesBoth ==
  ASSUME Unattended
  PROVE  Spec => []CompletedByBoth
<1>1. EvidenceInv => CompletedByBoth
  BY DEF EvidenceInv
<1> QED BY <1>1, EvidenceInvariant, PTL

(* Lost increments may hide a no-show, but a user whose recorded count has *)
(* reached three is suspended.                                             *)
THEOREM ThreeSuspend == Spec => []ThreeNoShowsSuspend
<1>1. EvidenceInv => ThreeNoShowsSuspend
  BY DEF EvidenceInv
<1> QED BY <1>1, EvidenceInvariant, PTL
-----------------------------------------------------------------------------
(* Accounts of a status: AccountInv is inductive; with it, for any          *)
(* interleaving, wiring and schema, why a contract is COMPLETED, DISPUTED   *)
(* or CANCELLED is on record.                                              *)


(* What a step may do to the tables that reasons for a status rest on.     *)
Stays(d) == Exists(d) =>
  /\ Exists(d)'
  /\ disputes'[d].contract = disputes[d].contract
  /\ disputes'[d].kind = disputes[d].kind
  /\ disputes[d].resolution # "none" => disputes'[d].resolution # "none"
Grows ==
  /\ \A c \in Contract : /\ row'[c].confirmed \in SUBSET Party
                         /\ row[c].confirmed \subseteq row'[c].confirmed
                         /\ aged[c] \subseteq aged'[c]
                         /\ over[c] => over'[c]
  /\ \A d \in Dispute : Stays(d)

(* Tables that only grow take no reason away.                              *)
LEMMA AccountedStays ==
  ASSUME Grows, NEW t \in Txn, Accounted(t)
  PROVE  Accounted(t)'
<1> SUFFICES ASSUME NEW c \in Contract
             PROVE  /\ EarnedWrite(t, c)'
                    /\ DisputedWrite(t, c)'
                    /\ CancelledWrite(t, c)'
  BY DEF Accounted
<1>1. EarnedWrite(t, c) /\ DisputedWrite(t, c) /\ CancelledWrite(t, c)
  BY DEF Accounted
<1>2. \A d \in Dispute : Decides(t, d, c) => Decides(t, d, c)'
  BY DEF Decides, Grows, Stays
<1>3. EarnedWrite(t, c)'
  <2>1. t.rows[c].confirmed \subseteq Party
    BY DEF Txn, RowWrite
  <2> QED BY <1>1, <1>2, <2>1 DEF EarnedWrite, Grows
<1>4. DisputedWrite(t, c)'
  BY <1>1 DEF DisputedWrite, Opens
<1>5. CancelledWrite(t, c)'
  BY <1>1, <1>2 DEF CancelledWrite, Grows, Stays, Decides
<1> QED BY <1>3, <1>4, <1>5

(* So do the statuses themselves, as long as the rows stay as they are.    *)
LEMMA ReasonsStay ==
  ASSUME AccountInv, Grows, row' = row
  PROVE  CompletionIsEarned' /\ DisputedHasDispute' /\ CancelledHasReason'
<1>1. CompletionIsEarned'
  BY DEF AccountInv, CompletionIsEarned, Grows, Stays, Exists
<1>2. DisputedHasDispute'
  BY DEF AccountInv, DisputedHasDispute, Grows, Stays, Exists
<1>3. CancelledHasReason'
  BY DEF AccountInv, CancelledHasReason, Grows, Stays, Exists
<1> QED BY <1>1, <1>2, <1>3

(* Steps that write no contract, change no dispute's story and create      *)
(* none.                                                                   *)
LEMMA StillGrows ==
  ASSUME TypeOK, UNCHANGED <<row, disputes, aged, over>>
  PROVE  Grows
BY DEF Grows, Stays, Exists, TypeOK, Row

(* A session's transactions are transactions.                              *)
LEMMA InFlightType ==
  ASSUME TypeOK, NEW s \in Session, InFlight(s)
  PROVE  /\ session[s] \in Writing
         /\ session[s].now \in Txn /\ session[s].next \in Txn
<1>1. session[s] \in Writing
  BY DEF TypeOK, InFlight, Idle, Resolving, Failed
<1> QED BY <1>1 DEF Writing

(* What a session will commit is accounted for after a step, if the        *)
(* transaction it then holds is.                                           *)
LEMMA AccountedThen ==
  ASSUME NEW r \in Session, NEW t, Accounted(t)'
  PROVE  /\ session'[r].now = t => Accounted(session[r].now)'
         /\ session'[r].next = t => Accounted(session[r].next)'
<1>1. ASSUME session'[r].now = t PROVE Accounted(session[r].now)'
  BY <1>1 DEF Accounted, EarnedWrite, DisputedWrite, CancelledWrite, Decides,
     Opens, Exists
<1>2. ASSUME session'[r].next = t PROVE Accounted(session[r].next)'
  BY <1>2 DEF Accounted, EarnedWrite, DisputedWrite, CancelledWrite, Decides,
     Opens, Exists
<1> QED BY <1>1, <1>2

(* A step in which one session at most changes, to a state that is not     *)
(* writing, and nothing is opened.                                         *)
LEMMA QuietAccounts ==
  ASSUME TypeOK, AccountInv, Grows, row' = row,
         \A d \in Dispute : ~Exists(d) => ~Exists(d)',
         NEW s \in Session, NEW state,
         state.stage # "writing",
         state.stage = "resolving" => \A d \in state.picked : Exists(d),
         state.stage = "resolving" => state.picked \subseteq Dispute,
         session' = session \/ session' = [session EXCEPT ![s] = state]
  PROVE  AccountInv'
<1>1. \A r \in Session : session'[r] = session[r] \/ session'[r] = state
  BY DEF TypeOK
<1>2. InFlightAccounted'
  <2> SUFFICES ASSUME NEW r \in Session
               PROVE  /\ InFlight(r)' => /\ OpensNew(r)'
                                         /\ Accounted(session[r].now)'
                                         /\ Accounted(session[r].next)'
                      /\ session'[r].stage = "resolving" =>
                           \A d \in session'[r].picked : Exists(d)'
    BY DEF InFlightAccounted
  <2>1. CASE session'[r] = state
    <3>1. ~InFlight(r)'
      BY <2>1 DEF InFlight
    <3> QED BY <2>1, <3>1 DEF Grows, Stays
  <2>2. CASE session'[r] = session[r]
    <3>1. ASSUME InFlight(r)
          PROVE  /\ OpensNew(r)'
                 /\ Accounted(session[r].now)'
                 /\ Accounted(session[r].next)'
      <4>1. /\ OpensNew(r)
            /\ Accounted(session[r].now)
            /\ Accounted(session[r].next)
        BY <3>1 DEF AccountInv, InFlightAccounted
      <4>2. session[r].now \in Txn /\ session[r].next \in Txn
        BY <3>1, InFlightType
      <4>3. \A q \in Session : InFlight(q)' => InFlight(q) /\ session'[q] = session[q]
        BY <1>1 DEF InFlight
      <4>4. OpensNew(r)'
        BY <2>2, <4>1, <4>3 DEF OpensNew, Opens
      <4>5. \A t \in Txn : Accounted(t) => Accounted(t)'
        BY AccountedStays
      <4>6. /\ Accounted(session[r].now)'
            /\ Accounted(session[r].next)'
        BY <2>2, <4>1, <4>2, <4>5, AccountedThen
      <4> QED BY <4>4, <4>6
    <3>2. InFlight(r)' = InFlight(r)
      BY <2>2 DEF InFlight
    <3>3. ASSUME session[r].stage = "resolving"
          PROVE  \A d \in session[r].picked : Exists(d)'
      <4>1. session[r].picked \subseteq Dispute
        BY <3>3 DEF TypeOK, Idle, Writing, Resolving, Failed
      <4> QED BY <3>3, <4>1 DEF AccountInv, InFlightAccounted, Grows, Stays
    <3> QED BY <2>2, <3>1, <3>2, <3>3
  <2> QED BY <1>1, <2>1, <2>2
<1> QED BY <1>2, ReasonsStay DEF AccountInv

(* A session that leaves transactions whose writes have their reasons, and *)
(* opens disputes under fresh identifiers, in the first of them only.      *)
LEMMA SubmitAccounts ==
  ASSUME TypeOK, AccountInv, NEW s \in Session, NEW op,
         NEW now \in Txn, NEW next \in Txn, Submit2(s, op, now, next),
         Accounted(now), Accounted(next),
         \A d \in Dispute : ~Opens(next, d),
         \A d \in Dispute : Opens(now, d) => Fresh(d),
         ~InFlight(s)
  PROVE  AccountInv'
<1> DEFINE state == [stage |-> "writing", op |-> op, now |-> now, next |-> next]
<1>1. /\ session'[s] = state
      /\ \A r \in Session : r # s => session'[r] = session[r]
      /\ UNCHANGED <<row, disputes, users, chatted, over, aged>>
  BY DEF TypeOK, Submit2, Become
<1>2. Grows
  BY <1>1, StillGrows
<1>3. \A t \in Txn : Accounted(t) => Accounted(t)'
  BY <1>2, AccountedStays
<1>4. /\ InFlight(s)' /\ session'[s].now = now /\ session'[s].next = next
      /\ session'[s].stage # "resolving"
  BY <1>1 DEF InFlight
<1> HIDE DEF state
<1>5. InFlightAccounted'
  <2> SUFFICES ASSUME NEW r \in Session
               PROVE  /\ InFlight(r)' => /\ OpensNew(r)'
                                         /\ Accounted(session[r].now)'
                                         /\ Accounted(session[r].next)'
                      /\ session'[r].stage = "resolving" =>
                           \A d \in session'[r].picked : Exists(d)'
    BY DEF InFlightAccounted
  <2>1. \A q \in Session : q # s => InFlight(q)' = InFlight(q)
    BY <1>1 DEF InFlight
  <2>2. CASE r = s
    <3>1. OpensNew(s)'
      <4> SUFFICES ASSUME NEW d \in Dispute
                   PROVE  /\ ~Opens(next, d)
                          /\ Opens(now, d) =>
                               /\ ~Exists(d)
                               /\ \A q \in Session \ {s} :
                                    InFlight(q) => ~Opens(session[q].now, d)
        BY <1>1, <1>4, <2>1 DEF OpensNew, Opens, Exists
      <4> QED BY DEF Fresh, InFlight, Opens, Exists
    <3>2. Accounted(session[s].now)' /\ Accounted(session[s].next)'
      BY <1>3, <1>4, AccountedThen
    <3> QED BY <1>4, <2>2, <3>1, <3>2
  <2>3. CASE r # s
    <3>1. ASSUME InFlight(r)
          PROVE  /\ OpensNew(r)'
                 /\ Accounted(session[r].now)'
                 /\ Accounted(session[r].next)'
      <4>1. /\ OpensNew(r)
            /\ Accounted(session[r].now)
            /\ Accounted(session[r].next)
        BY <3>1 DEF AccountInv, InFlightAccounted
      <4>2. session[r].now \in Txn /\ session[r].next \in Txn
        BY <3>1, InFlightType
      <4>3. OpensNew(r)'
        <5> SUFFICES ASSUME NEW d \in Dispute
                     PROVE  /\ ~Opens(session[r].next, d)
                            /\ Opens(session[r].now, d) =>
                                 /\ ~Exists(d)
                                 /\ ~Opens(now, d)
                                 /\ \A q \in Session \ {r, s} :
                                      InFlight(q) => ~Opens(session[q].now, d)
          BY <1>1, <1>4, <2>1, <2>3 DEF OpensNew, Opens, Exists
        <5>1. ~Opens(session[r].next, d)
          BY <4>1 DEF OpensNew
        <5>2. ASSUME Opens(session[r].now, d)
              PROVE  /\ ~Exists(d)
                     /\ \A q \in Session \ {r, s} :
                          InFlight(q) => ~Opens(session[q].now, d)
          BY <4>1, <5>2 DEF OpensNew
        <5>3. Opens(session[r].now, d) => ~Opens(now, d)
          BY <3>1 DEF Fresh, InFlight, Opens
        <5> QED BY <5>1, <5>2, <5>3
      <4>4. /\ Accounted(session[r].now)'
            /\ Accounted(session[r].next)'
        BY <1>1, <1>3, <2>3, <4>1, <4>2, AccountedThen
      <4> QED BY <4>3, <4>4
    <3>2. session[r].stage = "resolving" =>
            \A d \in session[r].picked : Exists(d)'
      BY <1>1 DEF AccountInv, InFlightAccounted, Exists
    <3> QED BY <1>1, <2>1, <2>3, <3>1, <3>2
  <2> QED BY <2>2, <2>3
<1> QED BY <1>1, <1>2, <1>5, ReasonsStay DEF AccountInv

-----------------------------------------------------------------------------
(* The transactions of every operation have their reasons.                 *)

(* Transactions that write no contract need none.                          *)
LEMMA NoRowsAccounted ==
  ASSUME NEW t, t.rows = [c \in Contract |-> NoRowWrite]
  PROVE  Accounted(t)
BY DEF Accounted, EarnedWrite, DisputedWrite, CancelledWrite, NoRowWrite, Keep

(* The empty transaction opens nothing and needs no reason.                *)
LEMMA NoTxnAccounted ==
  Accounted(NoTxn) /\ \A d \in Dispute : ~Opens(NoTxn, d)
BY NoRowsAccounted DEF NoTxn, Opens

(* One that writes one contract needs the reasons of that write.           *)
LEMMA OneRowAccounted ==
  ASSUME NEW t, NEW c \in Contract, NEW w,
         t.rows = [[k \in Contract |-> NoRowWrite] EXCEPT ![c] = w],
         EarnedWrite(t, c), DisputedWrite(t, c), CancelledWrite(t, c)
  PROVE  Accounted(t)
<1>1. \A k \in Contract : k # c => t.rows[k] = NoRowWrite
  OBVIOUS
<1>2. ASSUME NEW k \in Contract, k # c
      PROVE  EarnedWrite(t, k) /\ DisputedWrite(t, k) /\ CancelledWrite(t, k)
  BY <1>1, <1>2 DEF EarnedWrite, DisputedWrite, CancelledWrite, NoRowWrite, Keep
<1> QED BY <1>2 DEF Accounted

(* A write of one contract that takes it to none of the three statuses, or *)
(* completes or cancels it with its reason.                                *)
LEMMA WriteRowAccounted ==
  ASSUME NEW c \in Contract, NEW w \in RowWrite,
         w.status # "DISPUTED",
         w.status = "COMPLETED" => row[c].confirmed \cup w.confirmed = Party,
         w.status = "CANCELLED" => w.reason
  PROVE  /\ Accounted(WriteRow(c, w))
         /\ \A d \in Dispute : ~Opens(WriteRow(c, w), d)
<1> DEFINE t == WriteRow(c, w)
<1>1. /\ t.rows = [[k \in Contract |-> NoRowWrite] EXCEPT ![c] = w]
      /\ t.opened = NoTxn.opened
  BY DEF WriteRow, NoTxn
<1>2. t.rows[c] = w
  BY <1>1
<1> HIDE DEF t
<1>3. EarnedWrite(t, c) /\ DisputedWrite(t, c) /\ CancelledWrite(t, c)
  BY <1>2 DEF EarnedWrite, DisputedWrite, CancelledWrite
<1>4. Accounted(t)
  BY <1>1, <1>3, OneRowAccounted
<1>5. \A d \in Dispute : ~Opens(t, d)
  BY <1>1, NoTxnAccounted DEF Opens
<1> QED BY <1>4, <1>5 DEF t

(* A request that writes one contract only.                                *)
LEMMA WriteRowAccounts ==
  ASSUME TypeOK, AccountInv, NEW s \in Session, IsIdle(s), NEW op,
         NEW c \in Contract, NEW w \in RowWrite,
         Submit(s, op, WriteRow(c, w)),
         w.status # "DISPUTED",
         w.status = "COMPLETED" => row[c].confirmed \cup w.confirmed = Party,
         w.status = "CANCELLED" => w.reason
  PROVE  AccountInv'
<1>1. ~InFlight(s)
  BY DEF IsIdle, InFlight, Idle
<1> QED BY <1>1, WriteRowAccounted, WriteRowType, NoTxnAccounted, NoTxnType,
           SubmitAccounts DEF Submit

(* A request that fails has written nothing.                               *)
LEMMA FailAccounts ==
  ASSUME TypeOK, AccountInv, NEW s \in Session, NEW op, Fail(s, op)
  PROVE  AccountInv'
<1> DEFINE state == [stage |-> "failed", op |-> op]
<1>1. /\ session' = [session EXCEPT ![s] = state]
      /\ UNCHANGED <<row, disputes, aged, over>>
  BY DEF Fail, Become
<1>2. state.stage # "writing" /\ state.stage # "resolving"
  OBVIOUS
<1> HIDE DEF state
<1>3. Grows
  BY <1>1, StillGrows
<1>4. \A d \in Dispute : ~Exists(d) => ~Exists(d)'
  BY <1>1 DEF Exists
<1> QED BY <1>1, <1>2, <1>3, <1>4, QuietAccounts

(* set_in_progress *)
LEMMA SignAccounts ==
  ASSUME TypeOK, AccountInv, NEW s \in Session, NEW c \in Contract,
         NEW p \in Party, Sign(s, c, p)
  PROVE  AccountInv'
<1> DEFINE w == IF FullySigned(c, p)
                  THEN [NoRowWrite EXCEPT !.signed = {p}, !.hashed = TRUE,
                          !.status = "IN_PROGRESS", !.logged = "IN_PROGRESS"]
                  ELSE [NoRowWrite EXCEPT !.signed = {p},
                          !.logged = "CONFIRMED"]
<1>1. w \in RowWrite /\ w.status \in {"IN_PROGRESS", Keep}
  BY DEF NoRowWrite, RowWrite, Keep, Status
<1>2. Submit(s, "sign", WriteRow(c, w)) /\ IsIdle(s)
  BY DEF Sign
<1> HIDE DEF w
<1> QED BY <1>1, <1>2, WriteRowAccounts DEF Keep

(* confirm_completion completes a contract that both have confirmed.       *)
LEMMA ConfirmAccounts ==
  ASSUME TypeOK, AccountInv, NEW s \in Session, NEW c \in Contract,
         NEW p \in Party, ConfirmCompletion(s, c, p)
  PROVE  AccountInv'
<1> DEFINE to == IF FullyConfirmed(c, p) THEN "COMPLETED"
                 ELSE IF row[c].status = "IN_PROGRESS"
                        THEN "PENDING_COMPLETION"
                 ELSE Keep
           w == [NoRowWrite EXCEPT !.confirmed = {p}, !.status = to,
                                   !.logged = to]
<1>1. /\ to \in {"COMPLETED", "PENDING_COMPLETION", Keep}
      /\ to = "COMPLETED" => FullyConfirmed(c, p)
  BY DEF Keep
<1>2. Submit(s, "confirm", WriteRow(c, w)) /\ IsIdle(s)
  BY DEF ConfirmCompletion
<1> HIDE DEF to
<1>3. w \in RowWrite /\ w.status = to /\ w.confirmed = {p}
  BY <1>1 DEF NoRowWrite, RowWrite, Status
<1> HIDE DEF w
<1>4. w.status # "DISPUTED" /\ w.status # "CANCELLED"
  BY <1>1, <1>3 DEF Keep
<1>5. w.status = "COMPLETED" => row[c].confirmed \cup w.confirmed = Party
  BY <1>1, <1>3 DEF FullyConfirmed
<1> QED BY <1>2, <1>3, <1>4, <1>5, WriteRowAccounts

(* The write of a cancellation brings its reason.                          *)
LEMMA CancellationAccounted ==
  ASSUME NEW c \in Contract
  PROVE  /\ Accounted(Cancellation(c))
         /\ \A d \in Dispute : ~Opens(Cancellation(c), d)
<1> DEFINE w == [NoRowWrite EXCEPT !.status = "CANCELLED", !.reason = TRUE,
                                   !.logged = "CANCELLED"]
<1>1. w \in RowWrite /\ w.status = "CANCELLED" /\ w.reason
  BY DEF NoRowWrite, RowWrite, Status
<1>2. Cancellation(c) = WriteRow(c, w)
  BY DEF Cancellation
<1> HIDE DEF w
<1> QED BY <1>1, <1>2, WriteRowAccounted

(* cancel *)
LEMMA CancelAccounts ==
  ASSUME TypeOK, AccountInv, NEW s \in Session, NEW c \in Contract,
         NEW p \in Party, Cancel(s, c, p)
  PROVE  AccountInv'
<1>1. Submit2(s, "cancel", Cancellation(c), NoTxn) /\ ~InFlight(s)
  BY DEF Cancel, Submit, IsIdle, InFlight, Idle
<1> QED BY <1>1, CancellationAccounted, CancellationType, NoTxnAccounted,
           NoTxnType, SubmitAccounts

(* reject_completion: the dispute comes with the status.                   *)
LEMMA RejectAccounts ==
  ASSUME TypeOK, AccountInv, NEW s \in Session, NEW c \in Contract,
         NEW p \in Party, NEW d \in Dispute, RejectCompletion(s, c, p, d)
  PROVE  AccountInv'
<1> DEFINE t == Rejection(c, p, d)
           v == [NoRowWrite EXCEPT !.logged = "DISPUTED"]
           n == NewDispute(c, "completion_rejected", p)
           w == [NoRowWrite EXCEPT !.status = "DISPUTED"]
<1>1. CASE Fail(s, "reject")
  BY <1>1, FailAccounts
<1>2. CASE Submit2(s, "reject", t, WriteRow(c, v))
  <2>1. v \in RowWrite /\ v.status = Keep
    BY DEF NoRowWrite, RowWrite, Status
  <2>2. /\ Accounted(WriteRow(c, v)) /\ \A e \in Dispute : ~Opens(WriteRow(c, v), e)
        /\ WriteRow(c, v) \in Txn
    <3> HIDE DEF v
    <3> QED BY <2>1, WriteRowAccounted, WriteRowType DEF Keep
  <2>3. t \in Txn
    BY RejectionType
  <2>4. /\ t.rows = [[k \in Contract |-> NoRowWrite] EXCEPT ![c] = w]
        /\ t.opened = [[e \in Dispute |-> NoDispute] EXCEPT ![d] = n]
    BY DEF Rejection, WriteRow, NoTxn
  <2>5. /\ n # NoDispute /\ n.contract = c /\ n.kind = "completion_rejected"
        /\ w.status = "DISPUTED"
    BY DEF NewDispute, NoDispute, NoRowWrite
  <2>6. Fresh(d) /\ ~InFlight(s)
    BY DEF RejectCompletion, IsIdle, InFlight, Idle
  <2> HIDE DEF t, n, w
  <2>7. t.rows[c] = w /\ t.opened[d] = n
    BY <2>4
  <2>8. EarnedWrite(t, c) /\ DisputedWrite(t, c) /\ CancelledWrite(t, c)
    BY <2>5, <2>7 DEF EarnedWrite, DisputedWrite, CancelledWrite, Opens
  <2>9. Accounted(t)
    BY <2>4, <2>8, OneRowAccounted
  <2>10. \A e \in Dispute : Opens(t, e) => Fresh(e)
    BY <2>4, <2>6 DEF Opens
  <2> QED BY <1>2, <2>2, <2>3, <2>6, <2>9, <2>10, SubmitAccounts
<1> QED BY <1>1, <1>2 DEF RejectCompletion

(* report_contract_no_show: a dispute, then a cancellation.                *)
LEMMA ReportNoShowAccounts ==
  ASSUME TypeOK, AccountInv, NEW s \in Session, NEW c \in Contract,
         NEW p \in Party, NEW d \in Dispute, ReportNoShow(s, c, p, d)
  PROVE  AccountInv'
<1> DEFINE n == NewDispute(c, "no_show", p)
           t == [NoTxn EXCEPT !.opened = [@ EXCEPT ![d] = n]]
<1>1. CASE Fail(s, "no_show")
  BY <1>1, FailAccounts
<1>2. CASE Submit2(s, "no_show", t, Cancellation(c))
  <2>1. n \in DisputeRow
    BY NewDisputeType DEF DisputeKind
  <2>2. t \in Txn
    <3> HIDE DEF n
    <3> QED BY <2>1, NoTxnType DEF Txn
  <2>3. /\ t.rows = [k \in Contract |-> NoRowWrite]
        /\ t.opened = [[e \in Dispute |-> NoDispute] EXCEPT ![d] = n]
    BY DEF NoTxn
  <2>4. Fresh(d) /\ ~InFlight(s)
    BY DEF ReportNoShow, IsIdle, InFlight, Idle
  <2> HIDE DEF t, n
  <2>5. \A e \in Dispute : Opens(t, e) => Fresh(e)
    BY <2>3, <2>4 DEF Opens
  <2> QED BY <1>2, <2>2, <2>3, <2>4, <2>5, CancellationAccounted,
             CancellationType, NoRowsAccounted, SubmitAccounts
<1> QED BY <1>1, <1>2 DEF ReportNoShow

(* auto_complete_pending_contracts: the clock is the reason.               *)
LEMMA AutoCompleteAccounts ==
  ASSUME TypeOK, AccountInv, NEW s \in Session, AutoComplete(s)
  PROVE  AccountInv'
<1> DEFINE due == {c \in Contract : Overdue(c)}
           w == [NoRowWrite EXCEPT !.status = "COMPLETED",
                                   !.logged = "COMPLETED"]
           rows == [c \in Contract |-> IF c \in due THEN w ELSE NoRowWrite]
           t == [NoTxn EXCEPT !.rows = rows, !.dangling = TRUE]
<1>1. Submit2(s, "auto_complete", t, NoTxn) /\ ~InFlight(s)
  BY DEF AutoComplete, Submit, IsIdle, InFlight, Idle
<1>2. w \in RowWrite /\ NoRowWrite \in RowWrite /\ w.status = "COMPLETED"
  BY DEF NoRowWrite, RowWrite, Status
<1>3. t \in Txn
  <2>1. rows \in [Contract -> RowWrite]
    <3> HIDE DEF w, due
    <3> QED BY <1>2
  <2> HIDE DEF rows
  <2> QED BY <2>1, NoTxnType DEF Txn
<1>4. t.rows = rows /\ t.opened = NoTxn.opened
  BY DEF NoTxn
<1>5. ASSUME NEW c \in Contract
      PROVE  EarnedWrite(t, c) /\ DisputedWrite(t, c) /\ CancelledWrite(t, c)
  <2>1. CASE c \in due
    <3>1. aged[c] # {} \/ over[c]
      BY <2>1 DEF Overdue
    <3>2. t.rows[c] = w
      BY <1>4, <2>1
    <3> HIDE DEF t, w, due
    <3> QED BY <1>2, <3>1, <3>2 DEF EarnedWrite, DisputedWrite, CancelledWrite
  <2>2. CASE c \notin due
    <3>1. t.rows[c].status = Keep
      BY <1>4, <2>2 DEF NoRowWrite
    <3> HIDE DEF t
    <3> QED BY <3>1 DEF EarnedWrite, DisputedWrite, CancelledWrite, Keep
  <2> QED BY <2>1, <2>2
<1> HIDE DEF t
<1>6. \A d \in Dispute : ~Opens(t, d)
  BY <1>4, NoTxnAccounted DEF Opens
<1> QED BY <1>1, <1>3, <1>5, <1>6, NoTxnAccounted, NoTxnType, SubmitAccounts
        DEF Accounted

(* object_to_dispute *)
LEMMA ObjectAccounts ==
  ASSUME TypeOK, AccountInv, NEW s \in Session, NEW d \in Dispute,
         ObjectToDispute(s, d)
  PROVE  AccountInv'
<1> DEFINE w == [status |-> "objected", resolution |-> "none"]
           t == [NoTxn EXCEPT !.disputes = [@ EXCEPT ![d] = w]]
<1>1. Submit2(s, "object", t, NoTxn) /\ ~InFlight(s)
  BY DEF ObjectToDispute, Submit, IsIdle, InFlight, Idle
<1>2. w \in DisputeWrite
  BY DEF DisputeWrite, DisputeStatus
<1>3. t \in Txn
  <2> HIDE DEF w
  <2> QED BY <1>2, NoTxnType DEF Txn
<1>4. t.rows = [c \in Contract |-> NoRowWrite] /\ t.opened = NoTxn.opened
  BY DEF NoTxn
<1> HIDE DEF t
<1>5. Accounted(t) /\ \A e \in Dispute : ~Opens(t, e)
  BY <1>4, NoRowsAccounted, NoTxnAccounted DEF Opens
<1> QED BY <1>1, <1>3, <1>5, NoTxnAccounted, NoTxnType, SubmitAccounts

(* The query of a resolution picks disputes that are there.                *)
LEMMA ResolveAccounts ==
  ASSUME TypeOK, AccountInv, NEW s \in Session, NEW op,
         NEW ds \in SUBSET Dispute, NEW res, Resolve(s, op, ds, res),
         \A d \in ds : Exists(d)
  PROVE  AccountInv'
<1> DEFINE state == [stage |-> "resolving", op |-> op, picked |-> ds,
                     resolution |-> res]
<1>1. /\ session' = [session EXCEPT ![s] = state]
      /\ UNCHANGED <<row, disputes, aged, over>>
  BY DEF Resolve, Become
<1>2. /\ state.stage # "writing"
      /\ \A d \in state.picked : Exists(d)
      /\ state.picked \subseteq Dispute
  OBVIOUS
<1> HIDE DEF state
<1>3. Grows
  BY <1>1, StillGrows
<1>4. \A d \in Dispute : ~Exists(d) => ~Exists(d)'
  BY <1>1 DEF Exists
<1> QED BY <1>1, <1>2, <1>3, <1>4, QuietAccounts

(* resolve_manually and auto_resolve_expired_disputes: the decision is the *)
(* reason, and it is in the same transaction.                              *)
LEMMA FinishResolvingAccounts ==
  ASSUME TypeOK, AccountInv, NEW s \in Session, FinishResolving(s)
  PROVE  AccountInv'
<1> DEFINE ds  == session[s].picked
           res == session[s].resolution
           ws == [d \in Dispute |->
                    IF d \in ds
                      THEN [status |-> "resolved", resolution |-> res]
                      ELSE NoDisputeWrite]
           us == [u \in Party |-> Penalty(ds, u, res)]
           rows == [c \in Contract |->
                      IF session[s].op = "resolve" THEN Verdict(c, ds, res)
                      ELSE NoRowWrite]
           t == [NoTxn EXCEPT !.disputes = ws, !.users = us, !.rows = rows]
<1>1. session[s] \in Resolving
  BY DEF TypeOK, FinishResolving, Idle, Writing, Failed
<1>2. /\ ds \in SUBSET Dispute
      /\ res \in Resolution
      /\ \A d \in ds : Exists(d)
  BY <1>1 DEF Resolving, AccountInv, InFlightAccounted
<1>3. Submit2(s, session[s].op, t, NoTxn) /\ ~InFlight(s)
  BY DEF FinishResolving, Submit, InFlight
<1>4. t \in Txn
  <2>1. ws \in [Dispute -> DisputeWrite]
    <3> HIDE DEF ds, res
    <3> QED BY <1>2 DEF NoDisputeWrite, DisputeWrite, DisputeStatus
  <2>2. us \in [Party -> UserWrite]
    <3> HIDE DEF ds, res
    <3> QED BY <1>2, PenaltyType
  <2>3. rows \in [Contract -> RowWrite]
    <3>1. NoRowWrite \in RowWrite
      BY DEF NoRowWrite, RowWrite
    <3>2. ASSUME NEW c \in Contract PROVE Verdict(c, ds, res) \in RowWrite
      BY VerdictType
    <3> QED BY <3>1, <3>2
  <2> HIDE DEF ws, us, rows
  <2> QED BY <2>1, <2>2, <2>3, NoTxnType DEF Txn
<1>5. t.rows = rows /\ t.opened = NoTxn.opened /\ t.disputes = ws
  BY DEF NoTxn
<1>6. \A d \in ds : /\ t.disputes[d].status # Keep
                    /\ t.disputes[d].resolution # "none"
  BY <1>2, <1>5 DEF Resolution, Keep
<1>7. ASSUME NEW c \in Contract
      PROVE  EarnedWrite(t, c) /\ DisputedWrite(t, c) /\ CancelledWrite(t, c)
  <2>1. CASE rows[c] = NoRowWrite
    <3>1. t.rows[c].status = Keep
      BY <1>5, <2>1 DEF NoRowWrite
    <3> HIDE DEF t
    <3> QED BY <3>1 DEF EarnedWrite, DisputedWrite, CancelledWrite, Keep
  <2>2. CASE rows[c] # NoRowWrite
    <3>1. /\ rows[c] = Verdict(c, ds, res)
          /\ Verdict(c, ds, res) # NoRowWrite
      BY <2>2
    <3>2. PICK d \in ds : disputes[d].contract = c
      BY <3>1 DEF Verdict
    <3>3. /\ t.rows[c].status \in {"CANCELLED", "COMPLETED"}
          /\ t.rows[c].status = "CANCELLED" =>
               \E e \in ds : disputes[e].contract = c
                             /\ disputes[e].kind = "no_show"
      <4>1. Verdict(c, ds, res).status \in {"CANCELLED", "COMPLETED"}
        BY <3>1 DEF Verdict, NoRowWrite
      <4>2. Verdict(c, ds, res).status = "CANCELLED" =>
              \E e \in ds : disputes[e].contract = c
                            /\ disputes[e].kind = "no_show"
        BY <3>1 DEF Verdict, NoRowWrite
      <4>3. t.rows[c] = Verdict(c, ds, res)
        BY <1>5, <3>1
      <4> HIDE DEF t, rows, ds, res
      <4> QED BY <4>1, <4>2, <4>3
    <3> HIDE DEF t, rows, ds, res
    <3>4. \A e \in ds : disputes[e].contract = c => Decides(t, e, c)
      BY <1>2, <1>6 DEF Decides
    <3>5. EarnedWrite(t, c)
      BY <1>2, <3>2, <3>4 DEF EarnedWrite
    <3>6. DisputedWrite(t, c)
      BY <3>3 DEF DisputedWrite
    <3>7. CancelledWrite(t, c)
      BY <1>2, <3>3, <3>4 DEF CancelledWrite
    <3> QED BY <3>5, <3>6, <3>7
  <2> QED BY <2>1, <2>2
<1> HIDE DEF t
<1>8. \A d \in Dispute : ~Opens(t, d)
  BY <1>5, NoTxnAccounted DEF Opens
<1> QED BY <1>3, <1>4, <1>7, <1>8, NoTxnAccounted, NoTxnType, SubmitAccounts
        DEF Accounted

(* request_deletion gives every contract it cancels a reason.              *)
LEMMA DeleteAccountAccounts ==
  ASSUME TypeOK, AccountInv, NEW s \in Session, NEW u \in Party,
         DeleteAccount(s, u)
  PROVE  AccountInv'
<1> DEFINE w == [NoUserWrite EXCEPT !.deactivated = TRUE]
           t == [NoTxn EXCEPT !.rows = CancelActive,
                              !.users = [@ EXCEPT ![u] = w]]
<1>1. Submit2(s, "delete_account", t, NoTxn) /\ ~InFlight(s)
  BY DEF DeleteAccount, Submit, IsIdle, InFlight, Idle
<1>2. \A c \in Contract : /\ CancelActive[c] \in RowWrite
                          /\ CancelActive[c].status \in {Keep, "CANCELLED"}
                          /\ CancelActive[c].status = "CANCELLED" =>
                               CancelActive[c].reason
  BY DEF CancelActive, NoRowWrite, RowWrite, Status, Keep
<1>3. t \in Txn
  <2>1. CancelActive \in [Contract -> RowWrite]
    BY <1>2 DEF CancelActive
  <2>2. w \in UserWrite
    BY DEF NoUserWrite, UserWrite
  <2> HIDE DEF w
  <2> QED BY <2>1, <2>2, NoTxnType DEF Txn
<1>4. t.rows = CancelActive /\ t.opened = NoTxn.opened
  BY DEF NoTxn
<1> HIDE DEF t
<1>5. Accounted(t)
  BY <1>2, <1>4 DEF Accounted, EarnedWrite, DisputedWrite, CancelledWrite, Keep
<1>6. \A d \in Dispute : ~Opens(t, d)
  BY <1>4, NoTxnAccounted DEF Opens
<1> QED BY <1>1, <1>3, <1>5, <1>6, NoTxnAccounted, NoTxnType, SubmitAccounts

-----------------------------------------------------------------------------
(* COMMIT: what a transaction writes takes its reason along, and overwrites *)
(* no dispute.                                                             *)

(* The dispute row a commit leaves, where nothing new is opened.           *)
LEMMA ApplyDisputeStays ==
  ASSUME NEW d \in DisputeRow, NEW w \in DisputeWrite,
         NEW e, e = ApplyDispute(d, NoDispute, w)
  PROVE  /\ e # NoDispute
         /\ e.contract = d.contract
         /\ e.kind = d.kind
         /\ e.against = d.against
         /\ d.resolution # "none" => e.resolution # "none"
         /\ w.status # Keep /\ w.resolution # "none" => e.resolution # "none"
         /\ e.status = IF w.status = Keep THEN d.status ELSE w.status
<1>0. d # NoDispute
  <2>1. d.status \in DisputeStatus
    BY DEF DisputeRow
  <2> QED BY <2>1 DEF NoDispute, DisputeStatus
<1>1. CASE w.status = Keep
  <2>1. e = d
    BY <1>0, <1>1 DEF ApplyDispute
  <2> QED BY <1>0, <1>1, <2>1
<1>2. CASE w.status # Keep
  <2>1. e = [d EXCEPT !.status = w.status,
                      !.resolution = IF w.resolution = "none" THEN @
                                     ELSE w.resolution]
    BY <1>0, <1>2 DEF ApplyDispute
  <2>2. /\ e.contract = d.contract /\ e.kind = d.kind /\ e.against = d.against
        /\ e.status = w.status
        /\ e.resolution = IF w.resolution = "none" THEN d.resolution
                          ELSE w.resolution
    BY <2>1 DEF DisputeRow
  <2>3. e.status \in DisputeStatus
    BY <1>2, <2>2 DEF DisputeWrite
  <2>4. e # NoDispute
    BY <2>3 DEF NoDispute, DisputeStatus
  <2> QED BY <1>2, <2>2, <2>4
<1> QED BY <1>1, <1>2

(* What an accepted commit leaves of the tables.                           *)
LEMMA CommitGrows ==
  ASSUME TypeOK, AccountInv, NEW s \in Session, Commit(s),
         ~(ForeignKeys /\ session[s].now.dangling)
  PROVE  /\ Grows
         /\ \A c \in Contract :
              row'[c] = ApplyRow(row[c], session[s].now.rows[c])
         /\ \A d \in Dispute :
              /\ Opens(session[s].now, d) => disputes'[d] = session[s].now.opened[d]
              /\ ~Opens(session[s].now, d) /\ ~Exists(d) => ~Exists(d)'
              /\ Exists(d) =>
                   /\ ~Opens(session[s].now, d)
                   /\ \A c \in Contract : Decides(session[s].now, d, c) =>
                        disputes'[d].resolution # "none"
<1> DEFINE t == session[s].now
<1>1. /\ row' = [c \in Contract |-> ApplyRow(row[c], t.rows[c])]
      /\ disputes' = [d \in Dispute |->
                        ApplyDispute(disputes[d], t.opened[d], t.disputes[d])]
      /\ UNCHANGED <<aged, over>>
      /\ InFlight(s)
  BY DEF Commit, InFlight
<1>2. t \in Txn /\ OpensNew(s)
  BY <1>1, InFlightType DEF AccountInv, InFlightAccounted
<1>3. ASSUME NEW c \in Contract
      PROVE  /\ row'[c] = ApplyRow(row[c], t.rows[c])
             /\ row'[c].confirmed \in SUBSET Party
             /\ row[c].confirmed \subseteq row'[c].confirmed
  <2>1. row[c] \in Row /\ t.rows[c] \in RowWrite
    BY <1>2 DEF TypeOK, Txn
  <2>2. row'[c] = ApplyRow(row[c], t.rows[c])
    BY <1>1
  <2> HIDE DEF t
  <2> QED BY <2>1, <2>2 DEF ApplyRow, Row, RowWrite
<1>4. ASSUME NEW d \in Dispute
      PROVE  /\ Stays(d)
             /\ Opens(t, d) => disputes'[d] = t.opened[d]
             /\ ~Opens(t, d) /\ ~Exists(d) => ~Exists(d)'
             /\ Exists(d) => /\ ~Opens(t, d)
                             /\ \A c \in Contract : Decides(t, d, c) =>
                                  disputes'[d].resolution # "none"
  <2>1. disputes'[d] = ApplyDispute(disputes[d], t.opened[d], t.disputes[d])
    BY <1>1
  <2>2. t.disputes[d] \in DisputeWrite /\ disputes[d] \in DisputeRow \cup {NoDispute}
    BY <1>2 DEF TypeOK, Txn
  <2>3. Opens(t, d) => ~Exists(d) /\ disputes'[d] = t.opened[d]
    BY <1>2, <2>1 DEF OpensNew, Opens, ApplyDispute
  <2>4. CASE ~Exists(d)
    <3>1. ~Opens(t, d) => disputes'[d] = NoDispute
      BY <2>1, <2>4 DEF Opens, Exists, ApplyDispute
    <3> QED BY <2>3, <2>4, <3>1 DEF Stays, Exists
  <2>5. CASE Exists(d)
    <3>1. /\ ~Opens(t, d) /\ t.opened[d] = NoDispute
          /\ disputes[d] \in DisputeRow
      BY <2>2, <2>3, <2>5 DEF Opens, Exists
    <3>2. disputes'[d] = ApplyDispute(disputes[d], NoDispute, t.disputes[d])
      BY <2>1, <3>1
    <3> HIDE DEF t
    <3>3. /\ disputes'[d] # NoDispute
          /\ disputes'[d].contract = disputes[d].contract
          /\ disputes'[d].kind = disputes[d].kind
          /\ disputes[d].resolution # "none" => disputes'[d].resolution # "none"
          /\ t.disputes[d].status # Keep /\ t.disputes[d].resolution # "none" =>
               disputes'[d].resolution # "none"
      BY <2>2, <3>1, <3>2, ApplyDisputeStays
    <3> QED BY <2>5, <3>1, <3>3 DEF Stays, Exists, Decides
  <2> QED BY <2>4, <2>5
<1>5. Grows
  BY <1>1, <1>3, <1>4 DEF Grows
<1> QED BY <1>3, <1>4, <1>5

(* A contract that changes its status at a commit has its reason after it. *)
LEMMA CommitReasons ==
  ASSUME TypeOK, AccountInv, NEW s \in Session, Commit(s),
         ~(ForeignKeys /\ session[s].now.dangling)
  PROVE  CompletionIsEarned' /\ DisputedHasDispute' /\ CancelledHasReason'
<1> DEFINE t == session[s].now
<1>1. InFlight(s)
  BY DEF Commit, InFlight
<1>2. t \in Txn /\ Accounted(t)
  BY <1>1, InFlightType DEF AccountInv, InFlightAccounted
<1>3. /\ Grows
      /\ \A c \in Contract : row'[c] = ApplyRow(row[c], t.rows[c])
      /\ \A d \in Dispute : Opens(t, d) => disputes'[d] = t.opened[d]
      /\ \A d \in Dispute, c \in Contract :
           Decides(t, d, c) => disputes'[d].resolution # "none"
  BY CommitGrows DEF Decides
<1> HIDE DEF t
<1>4. ASSUME NEW c \in Contract
      PROVE  /\ row'[c].status = IF t.rows[c].status = Keep THEN row[c].status
                                 ELSE t.rows[c].status
             /\ row'[c].confirmed = row[c].confirmed \cup t.rows[c].confirmed
             /\ row'[c].reason = (row[c].reason \/ t.rows[c].reason)
             /\ EarnedWrite(t, c) /\ DisputedWrite(t, c) /\ CancelledWrite(t, c)
  <2>1. row'[c] = ApplyRow(row[c], t.rows[c])
    BY <1>3
  <2> QED BY <1>2, <2>1 DEF ApplyRow, Accounted
<1>5. \A d \in Dispute, c \in Contract : Decides(t, d, c) =>
        /\ Exists(d)' /\ disputes'[d].contract = c
        /\ disputes'[d].kind = disputes[d].kind
        /\ disputes'[d].resolution # "none"
  BY <1>3 DEF Grows, Stays, Decides
<1>6. CompletionIsEarned'
  <2> SUFFICES ASSUME NEW c \in Contract, row'[c].status = "COMPLETED"
               PROVE  \/ row'[c].confirmed = Party
                      \/ aged'[c] # {}
                      \/ over'[c]
                      \/ \E d \in Dispute : /\ Exists(d)'
                                            /\ disputes'[d].contract = c
                                            /\ disputes'[d].resolution # "none"
    BY DEF CompletionIsEarned, Exists
  <2>1. CASE t.rows[c].status = Keep
    <3>1. row[c].status = "COMPLETED"
      BY <1>4, <2>1
    <3>2. \/ row[c].confirmed = Party
          \/ aged[c] # {}
          \/ over[c]
          \/ \E d \in Dispute : /\ Exists(d)
                                /\ disputes[d].contract = c
                                /\ disputes[d].resolution # "none"
      BY <3>1 DEF AccountInv, CompletionIsEarned, Exists
    <3>3. (\E d \in Dispute : /\ Exists(d)
                              /\ disputes[d].contract = c
                              /\ disputes[d].resolution # "none")
          => \E d \in Dispute : /\ Exists(d)'
                                /\ disputes'[d].contract = c
                                /\ disputes'[d].resolution # "none"
      BY <1>3 DEF Grows, Stays
    <3>4. /\ row'[c].confirmed \in SUBSET Party
          /\ row[c].confirmed \subseteq row'[c].confirmed
          /\ aged[c] \subseteq aged'[c]
          /\ over[c] => over'[c]
      BY <1>3 DEF Grows
    <3>5. row[c].confirmed = Party => row'[c].confirmed = Party
      BY <3>4
    <3> QED BY <3>2, <3>3, <3>4, <3>5
  <2>2. CASE t.rows[c].status # Keep
    <3>1. EarnedWrite(t, c) /\ t.rows[c].status = "COMPLETED"
      BY <1>4, <2>2
    <3>2. \/ row[c].confirmed \cup t.rows[c].confirmed = Party
          \/ aged[c] # {}
          \/ over[c]
          \/ \E d \in Dispute : Decides(t, d, c)
      BY <3>1 DEF EarnedWrite
    <3>3. /\ aged[c] \subseteq aged'[c]
          /\ over[c] => over'[c]
      BY <1>3 DEF Grows
    <3> QED BY <1>4, <1>5, <3>2, <3>3
  <2> QED BY <2>1, <2>2
<1>7. DisputedHasDispute'
  <2> SUFFICES ASSUME NEW c \in Contract, row'[c].status = "DISPUTED"
               PROVE  \E d \in Dispute : /\ Exists(d)'
                                         /\ disputes'[d].contract = c
                                         /\ disputes'[d].kind = "completion_rejected"
    BY DEF DisputedHasDispute, Exists
  <2>1. CASE t.rows[c].status = Keep
    <3>1. row[c].status = "DISPUTED"
      BY <1>4, <2>1
    <3> QED BY <1>3, <3>1 DEF AccountInv, DisputedHasDispute, Grows, Stays, Exists
  <2>2. CASE t.rows[c].status # Keep
    <3>1. DisputedWrite(t, c) /\ t.rows[c].status = "DISPUTED"
      BY <1>4, <2>2
    <3> QED BY <1>3, <3>1 DEF DisputedWrite, Opens, Exists
  <2> QED BY <2>1, <2>2
<1>8. CancelledHasReason'
  <2> SUFFICES ASSUME NEW c \in Contract, row'[c].status = "CANCELLED"
               PROVE  \/ row'[c].reason
                      \/ \E d \in Dispute : /\ Exists(d)'
                                            /\ disputes'[d].contract = c
                                            /\ disputes'[d].kind = "no_show"
                                            /\ disputes'[d].resolution # "none"
    BY DEF CancelledHasReason, Exists
  <2>1. CASE t.rows[c].status = Keep
    <3>1. row[c].status = "CANCELLED"
      BY <1>4, <2>1
    <3>2. \/ row[c].reason
          \/ \E d \in Dispute : /\ Exists(d)
                                /\ disputes[d].contract = c
                                /\ disputes[d].kind = "no_show"
                                /\ disputes[d].resolution # "none"
      BY <3>1 DEF AccountInv, CancelledHasReason, Exists
    <3>3. (\E d \in Dispute : /\ Exists(d)
                              /\ disputes[d].contract = c
                              /\ disputes[d].kind = "no_show"
                              /\ disputes[d].resolution # "none")
          => \E d \in Dispute : /\ Exists(d)'
                                /\ disputes'[d].contract = c
                                /\ disputes'[d].kind = "no_show"
                                /\ disputes'[d].resolution # "none"
      BY <1>3 DEF Grows, Stays
    <3> QED BY <1>4, <3>2, <3>3
  <2>2. CASE t.rows[c].status # Keep
    <3>1. CancelledWrite(t, c) /\ t.rows[c].status = "CANCELLED"
      BY <1>4, <2>2
    <3> QED BY <1>4, <1>5, <3>1 DEF CancelledWrite
  <2> QED BY <2>1, <2>2
<1> QED BY <1>6, <1>7, <1>8

(* COMMIT, accepted or refused                                             *)
LEMMA CommitAccounts ==
  ASSUME TypeOK, AccountInv, NEW s \in Session, Commit(s)
  PROVE  AccountInv'
<1> DEFINE t == session[s].now
           after == IF session[s].next = NoTxn THEN Idle
                    ELSE [session[s] EXCEPT !.now = session[s].next,
                                            !.next = NoTxn]
<1>1. CASE Fail(s, session[s].op)
  BY <1>1, FailAccounts
<1>2. CASE ~(ForeignKeys /\ t.dangling)
  <2>1. session' = [session EXCEPT ![s] = after]
    BY <1>2 DEF Commit, Become
  <2>2. /\ InFlight(s) /\ session[s] \in Writing
        /\ t \in Txn /\ session[s].next \in Txn
    BY InFlightType DEF Commit, InFlight
  <2>3. /\ OpensNew(s) /\ Accounted(session[s].next)
    BY <2>2 DEF AccountInv, InFlightAccounted
  <2>4. /\ Grows
        /\ \A d \in Dispute : ~Opens(t, d) /\ ~Exists(d) => ~Exists(d)'
    BY <1>2, CommitGrows
  <2>5. \A v \in Txn : Accounted(v) => Accounted(v)'
    BY <2>4, AccountedStays
  <2>6. /\ \A r \in Session : r # s => session'[r] = session[r]
        /\ \/ session'[s] = Idle
           \/ session'[s] = [session[s] EXCEPT !.now = session[s].next,
                                               !.next = NoTxn]
    BY <2>1 DEF TypeOK
  <2>7. /\ \A r \in Session : r # s => InFlight(r)' = InFlight(r)
        /\ InFlight(s)' => /\ session'[s].now = session[s].next
                           /\ session'[s].next = NoTxn
        /\ session'[s].stage # "resolving"
    <3>1. \A r \in Session : r # s => InFlight(r)' = InFlight(r)
      BY <2>6 DEF InFlight
    <3>2. CASE session'[s] = Idle
      BY <3>1, <3>2 DEF InFlight, Idle
    <3>3. CASE session'[s] = [session[s] EXCEPT !.now = session[s].next,
                                                !.next = NoTxn]
      <4>1. /\ session'[s].now = session[s].next
            /\ session'[s].next = NoTxn
            /\ session'[s].stage = "writing"
        BY <2>2, <3>3 DEF Writing
      <4> QED BY <3>1, <4>1
    <3> QED BY <2>6, <3>2, <3>3
  <2>8. \A d \in Dispute : ~Opens(session[s].next, d)
    BY <2>3 DEF OpensNew
  <2>9. InFlightAccounted'
    <3> SUFFICES ASSUME NEW r \in Session
                 PROVE  /\ InFlight(r)' => /\ OpensNew(r)'
                                           /\ Accounted(session[r].now)'
                                           /\ Accounted(session[r].next)'
                        /\ session'[r].stage = "resolving" =>
                             \A d \in session'[r].picked : Exists(d)'
      BY DEF InFlightAccounted
    <3>1. CASE r = s
      <4> SUFFICES ASSUME InFlight(s)'
                   PROVE  /\ OpensNew(s)'
                          /\ Accounted(session[s].now)'
                          /\ Accounted(session[s].next)'
        BY <2>7, <3>1
      <4>1. OpensNew(s)'
        BY <2>7, <2>8, NoTxnAccounted DEF OpensNew, Opens
      <4>2. Accounted(session[s].next)' /\ Accounted(session[s].now)'
        BY <2>2, <2>3, <2>5, <2>7, NoTxnAccounted, NoTxnType, AccountedThen
      <4> QED BY <4>1, <4>2
    <3>2. CASE r # s
      <4>1. ASSUME InFlight(r)
            PROVE  /\ OpensNew(r)'
                   /\ Accounted(session[r].now)'
                   /\ Accounted(session[r].next)'
        <5>1. /\ OpensNew(r)
              /\ Accounted(session[r].now)
              /\ Accounted(session[r].next)
          BY <4>1 DEF AccountInv, InFlightAccounted
        <5>2. session[r].now \in Txn /\ session[r].next \in Txn
          BY <4>1, InFlightType
        <5>3. OpensNew(r)'
          <6> SUFFICES ASSUME NEW d \in Dispute
                       PROVE  /\ ~Opens(session[r].next, d)
                              /\ Opens(session[r].now, d) =>
                                   /\ ~Exists(d)'
                                   /\ \A q \in Session \ {r, s} :
                                        InFlight(q) => ~Opens(session[q].now, d)
            BY <2>6, <2>7, <2>8, <3>2 DEF OpensNew, Opens, Exists
          <6>1. ~Opens(session[r].next, d)
            BY <5>1 DEF OpensNew
          <6>2. ASSUME Opens(session[r].now, d)
                PROVE  /\ ~Exists(d) /\ ~Opens(t, d)
                       /\ \A q \in Session \ {r, s} :
                            InFlight(q) => ~Opens(session[q].now, d)
            BY <2>2, <3>2, <5>1, <6>2 DEF OpensNew
          <6> QED BY <2>4, <6>1, <6>2
        <5>4. /\ Accounted(session[r].now)'
              /\ Accounted(session[r].next)'
          BY <2>5, <2>6, <3>2, <5>1, <5>2, AccountedThen
        <5> QED BY <5>3, <5>4
      <4>2. ASSUME session[r].stage = "resolving"
            PROVE  \A d \in session[r].picked : Exists(d)'
        <5>1. session[r].picked \subseteq Dispute
          BY <4>2 DEF TypeOK, Idle, Writing, Resolving, Failed
        <5> QED BY <2>4, <4>2, <5>1 DEF AccountInv, InFlightAccounted, Grows, Stays
      <4> QED BY <2>6, <2>7, <3>2, <4>1, <4>2
    <3> QED BY <3>1, <3>2
  <2> QED BY <1>2, <2>9, CommitReasons DEF AccountInv
<1> QED BY <1>1, <1>2 DEF Commit

-----------------------------------------------------------------------------
(* The rest of the steps.                                                  *)

(* A clock, a message, a dropped request                                   *)
LEMMA EnvironmentAccounts ==
  ASSUME TypeOK, AccountInv,
         \/ Time
         \/ \E c \in Contract : SendMessage(c)
         \/ \E s \in Session : Drop(s)
         \/ UNCHANGED vars
  PROVE  AccountInv'
<1>1. /\ row' = row
      /\ session' = session \/ \E s \in Session :
                                  session' = [session EXCEPT ![s] = Idle]
  BY DEF Time, ClassPasses, ConfirmationAges, ObjectionDeadlinePasses,
         SendMessage, Drop, Become, vars
<1>2. Grows /\ \A d \in Dispute : ~Exists(d) => ~Exists(d)'
  <2>1. CASE \E c \in Contract : ClassPasses(c)
    BY <2>1 DEF ClassPasses, Grows, Stays, Exists, TypeOK, Row
  <2>2. CASE \E c \in Contract, p \in Party : ConfirmationAges(c, p)
    <3>1. PICK c \in Contract, p \in Party : ConfirmationAges(c, p)
      BY <2>2
    <3>2. \A k \in Contract : aged[k] \subseteq aged'[k]
      BY <3>1 DEF ConfirmationAges, TypeOK
    <3> QED BY <3>1, <3>2 DEF ConfirmationAges, Grows, Stays, Exists, TypeOK, Row
  <2>3. CASE \E d \in Dispute : ObjectionDeadlinePasses(d)
    <3>1. PICK d \in Dispute : ObjectionDeadlinePasses(d)
      BY <2>3
    <3>2. /\ disputes[d] \in DisputeRow
          /\ disputes' = [disputes EXCEPT ![d] = [disputes[d] EXCEPT !.late = TRUE]]
      BY <3>1 DEF ObjectionDeadlinePasses, TypeOK
    <3>3. [disputes[d] EXCEPT !.late = TRUE].status \in DisputeStatus
      BY <3>2 DEF DisputeRow
    <3>4. /\ \A e \in Dispute : Stays(e)
          /\ \A e \in Dispute : ~Exists(e) => ~Exists(e)'
      <4> SUFFICES ASSUME NEW e \in Dispute
                   PROVE  Stays(e) /\ (~Exists(e) => ~Exists(e)')
        OBVIOUS
      <4>1. CASE e = d
        <5>1. /\ disputes'[d].status \in DisputeStatus
              /\ disputes'[d].contract = disputes[d].contract
              /\ disputes'[d].kind = disputes[d].kind
              /\ disputes'[d].resolution = disputes[d].resolution
          BY <3>2, <3>3 DEF TypeOK, DisputeRow
        <5>2. Exists(d) /\ Exists(d)'
          BY <3>1, <5>1 DEF ObjectionDeadlinePasses, Exists, NoDispute, DisputeStatus
        <5> QED BY <4>1, <5>1, <5>2 DEF Stays
      <4>2. CASE e # d
        BY <3>2, <4>2 DEF Stays, Exists, TypeOK
      <4> QED BY <4>1, <4>2
    <3> QED BY <3>1, <3>4 DEF ObjectionDeadlinePasses, Grows, TypeOK, Row
  <2>4. CASE UNCHANGED <<row, disputes, aged, over>>
    BY <2>4, StillGrows DEF Exists
  <2> QED BY <2>1, <2>2, <2>3, <2>4 DEF Time, SendMessage, Drop, vars
<1>3. CASE \E s \in Session : session' = [session EXCEPT ![s] = Idle]
  <2>1. Idle.stage # "writing" /\ Idle.stage # "resolving"
    BY DEF Idle
  <2> QED BY <1>1, <1>2, <1>3, <2>1, QuietAccounts
<1>4. CASE session' = session
  <2>1. CASE Session = {}
    <3>1. InFlightAccounted'
      BY <2>1 DEF InFlightAccounted
    <3> QED BY <1>1, <1>2, <3>1, ReasonsStay DEF AccountInv
  <2>2. CASE Session # {}
    <3>1. PICK s \in Session : TRUE
      BY <2>2
    <3>2. Idle.stage # "writing" /\ Idle.stage # "resolving"
      BY DEF Idle
    <3> QED BY <1>1, <1>2, <1>4, <3>1, <3>2, QuietAccounts
  <2> QED BY <2>1, <2>2
<1> QED BY <1>1, <1>3, <1>4

(* Nothing has happened yet.                                               *)
LEMMA InitAccounts == Init => AccountInv
BY DEF Init, AccountInv, CompletionIsEarned, DisputedHasDispute,
       CancelledHasReason, InFlightAccounted, InFlight, Idle

(* Every step keeps the reasons.                                           *)
LEMMA NextAccounts == TypeOK /\ AccountInv /\ [Next]_vars => AccountInv'
<1> SUFFICES ASSUME TypeOK, AccountInv, [Next]_vars PROVE AccountInv'
  OBVIOUS
<1>1. ASSUME NEW s \in Session, PartyRequest(s) PROVE AccountInv'
  BY <1>1, SignAccounts, ConfirmAccounts, CancelAccounts, RejectAccounts,
     ReportNoShowAccounts DEF PartyRequest
<1>2. ASSUME NEW s \in Session, Maintenance(s) PROVE AccountInv'
  <2>1. CASE AutoComplete(s)
    BY <2>1, AutoCompleteAccounts
  <2>2. CASE AutoResolve(s)
    <3> DEFINE ds == {d \in Dispute : /\ disputes[d] # NoDispute
                                      /\ disputes[d].status = "open"
                                      /\ disputes[d].late}
    <3>1. Resolve(s, "auto_resolve", ds, "reporter_wins")
      BY <2>2 DEF AutoResolve
    <3>2. ds \in SUBSET Dispute /\ \A d \in ds : Exists(d)
      BY DEF Exists
    <3> HIDE DEF ds
    <3> QED BY <3>1, <3>2, ResolveAccounts
  <2>3. ASSUME NEW d \in Dispute, ObjectToDispute(s, d) PROVE AccountInv'
    BY <2>3, ObjectAccounts
  <2>4. ASSUME NEW d \in Dispute, NEW res \in Resolution,
               ResolveManually(s, d, res)
        PROVE  AccountInv'
    BY <2>4, ResolveAccounts DEF ResolveManually, Undecided, Exists
  <2> QED BY <1>2, <2>1, <2>2, <2>3, <2>4 DEF Maintenance
<1> QED BY <1>1, <1>2, DeleteAccountAccounts, FinishResolvingAccounts,
           CommitAccounts, EnvironmentAccounts DEF Next

(* Why a contract has its status is on record in every behaviour.          *)
LEMMA AccountInvariant == Spec => []AccountInv
<1> QED BY InitAccounts, NextAccounts, TypeCorrect, PTL DEF Spec

(* Confirmations, sweeps and decisions may overlap and come late: a        *)
(* contract is COMPLETED only by both confirmations, after a timeout, or   *)
(* by a decision of one of its disputes.                                   *)
THEOREM CompletionsAreEarned == Spec => []CompletionIsEarned
<1>1. AccountInv => CompletionIsEarned
  BY DEF AccountInv
<1> QED BY <1>1, AccountInvariant, PTL

(* A DISPUTED contract has the dispute about its completion, and nothing   *)
(* that commits later gives the identifier of that dispute to another.     *)
THEOREM DisputesAreKept == Spec => []DisputedHasDispute
<1>1. AccountInv => DisputedHasDispute
  BY DEF AccountInv
<1> QED BY <1>1, AccountInvariant, PTL

(* A CANCELLED contract has a reason, or the decision of a no-show dispute *)
(* about it.                                                               *)
THEOREM CancellationsHaveReasons == Spec => []CancelledHasReason
<1>1. AccountInv => CancelledHasReason
  BY DEF AccountInv
<1> QED BY <1>1, AccountInvariant, PTL

-----------------------------------------------------------------------------
(* Transactions, and the rows they meet.                                   *)

(* Writing no column changes no row.                                       *)
LEMMA NoWriteApplied ==
  ASSUME NEW r \in Row
  PROVE  ApplyRow(r, NoRowWrite) = r
BY DEF ApplyRow, Row, NoRowWrite, Keep

(* The rows after a transaction are rows.                                  *)
LEMMA AfterType ==
  ASSUME NEW rs \in [Contract -> Row], NEW t \in Txn
  PROVE  After(rs, t) \in [Contract -> Row]
BY ApplyRowType DEF After, Txn

(* A transaction without contracts leaves the rows as they are.            *)
LEMMA AfterNothing ==
  ASSUME NEW rs \in [Contract -> Row], NEW t,
         t.rows = [c \in Contract |-> NoRowWrite]
  PROVE  After(rs, t) = rs
BY NoWriteApplied DEF After

(* Standing still is a step of the lifecycle.                              *)
LEMMA NothingMoves == ASSUME NEW rs PROVE Moves(rs, rs)
BY DEF Moves, TimesOut, SameParties

(* One write is a step of the lifecycle when it is one of its contract.    *)
LEMMA OneRowMoves ==
  ASSUME NEW rs \in [Contract -> Row], NEW t, NEW c \in Contract,
         NEW w \in RowWrite, NEW q, q = ApplyRow(rs[c], w),
         t.rows = [[k \in Contract |-> NoRowWrite] EXCEPT ![c] = w],
         \/ Signs(rs[c], q)
         \/ Confirms(rs[c], q)
         \/ Leaves(rs[c], q)
         \/ SameParties(rs[c], q) /\ q.status = rs[c].status
  PROVE  Moves(rs, After(rs, t))
<1>1. After(rs, t)[c] = q
  BY DEF After
<1>2. \A k \in Contract \ {c} : After(rs, t)[k] = rs[k]
  BY NoWriteApplied DEF After
<1>3. \A k \in Contract \ {c} : SameParties(rs[k], After(rs, t)[k])
                                /\ After(rs, t)[k].status = rs[k].status
  BY <1>2 DEF SameParties
<1>4. CASE SameParties(rs[c], q) /\ q.status = rs[c].status
  <2>1. \A k \in Contract : TimesOut(rs[k], After(rs, t)[k])
    BY <1>1, <1>3, <1>4 DEF TimesOut
  <2> QED BY <2>1 DEF Moves
<1> QED BY <1>1, <1>3, <1>4 DEF Moves

(* Writing nothing is logged right, and counts nothing.                    *)
LEMMA NothingLogged ==
  ASSUME NEW t, NEW c \in Contract, t.rows[c] = NoRowWrite, NEW st
  PROVE  LogsRight(t, c, st)
BY DEF LogsRight, NoRowWrite

LEMMA SufferedFinite ==
  ASSUME NEW t, NEW u
  PROVE  /\ IsFiniteSet(Suffered(t, u))
         /\ Cardinality(Suffered(t, u)) \in Nat
BY DbAssumption, FS_Subset, FS_CardinalityType DEF Suffered

LEMMA NothingCounted ==
  ASSUME NEW t, t.users = NoTxn.users, t.disputes = NoTxn.disputes
  PROVE  CountsRight(t)
<1>1. ASSUME NEW u \in Party PROVE t.users[u].noShows <= Cardinality(Suffered(t, u))
  <2>1. t.users[u].noShows = -1
    BY DEF NoTxn, NoUserWrite, Unset
  <2> QED BY <2>1, SufferedFinite
<1>2. \A d \in Dispute : t.disputes[d].status = Keep
  BY DEF NoTxn, NoDisputeWrite
<1> QED BY <1>1, <1>2 DEF CountsRight

(* A request with a single transaction is ready when that one is.          *)
LEMMA AloneReady ==
  ASSUME TypeOK, NEW t \in Txn, Moves(row, After(row, t)),
         \A c \in Contract : LogsRight(t, c, row[c].status),
         CountsRight(t)
  PROVE  Ready(t, NoTxn)
<1>1. row \in [Contract -> Row]
  BY DEF TypeOK
<1>2. /\ NoTxn.rows = [c \in Contract |-> NoRowWrite]
      /\ NoTxn = [NoTxn EXCEPT !.rows = NoTxn.rows]
  BY DEF NoTxn
<1>3. After(After(row, t), NoTxn) = After(row, t)
  BY <1>1, <1>2, AfterType, AfterNothing
<1>4. \A c \in Contract : LogsRight(NoTxn, c, After(row, t)[c].status)
  BY <1>2, NothingLogged
<1> QED BY <1>2, <1>3, <1>4, NothingMoves DEF Ready

(* So is a request that writes one contract.                               *)
LEMMA WriteRowReady ==
  ASSUME TypeOK, NEW c \in Contract, NEW w \in RowWrite,
         NEW q, q = ApplyRow(row[c], w),
         \/ Signs(row[c], q)
         \/ Confirms(row[c], q)
         \/ Leaves(row[c], q),
         IF w.status = Keep THEN w.logged \in {Keep, row[c].status}
         ELSE w.logged = w.status
  PROVE  Ready(WriteRow(c, w), NoTxn)
<1> DEFINE t == WriteRow(c, w)
<1>1. /\ t.rows = [[k \in Contract |-> NoRowWrite] EXCEPT ![c] = w]
      /\ t.users = NoTxn.users /\ t.disputes = NoTxn.disputes
  BY DEF WriteRow, NoTxn
<1>2. t \in Txn
  BY WriteRowType
<1> HIDE DEF t
<1>3. Moves(row, After(row, t))
  BY <1>1, OneRowMoves DEF TypeOK
<1>4. ASSUME NEW k \in Contract PROVE LogsRight(t, k, row[k].status)
  <2>1. CASE k = c
    BY <1>1, <2>1 DEF LogsRight
  <2>2. CASE k # c
    BY <1>1, <2>2, NothingLogged
  <2> QED BY <2>1, <2>2
<1>5. Ready(t, NoTxn)
  BY <1>1, <1>2, <1>3, <1>4, NothingCounted, AloneReady
<1> QED BY <1>5 DEF t

-----------------------------------------------------------------------------
(* A step that commits nothing keeps SerialInv.                            *)

(* The disputes tell the same story.                                       *)
SameCases ==
  \A d \in Dispute :
    /\ Exists(d)' = Exists(d)
    /\ Exists(d) => /\ disputes'[d].contract = disputes[d].contract
                    /\ disputes'[d].kind = disputes[d].kind
                    /\ disputes'[d].against = disputes[d].against
                    /\ disputes'[d].status = disputes[d].status
                    /\ disputes'[d].resolution = disputes[d].resolution

LEMMA SameDisputes == ASSUME disputes' = disputes PROVE SameCases
BY DEF SameCases, Exists

(* What is ready stays ready.                                              *)
LEMMA ReadyStays ==
  ASSUME row' = row, SameCases, NEW now, NEW next, Ready(now, next)
  PROVE  Ready(now, next)'
<1>1. /\ After(row, now)' = After(row, now)
      /\ After(After(row, now), next)' = After(After(row, now), next)
  BY DEF After
<1>2. \A t : \A c \in Contract, d \in Dispute :
        Decides(t, d, c)' = Decides(t, d, c)
  BY DEF SameCases, Decides
<1>3. \A u : Suffered(now, u)' = Suffered(now, u)
  BY DEF SameCases, Suffered
<1>4. CountsRight(now)'
  BY <1>3 DEF Ready, CountsRight, SameCases
<1>5. ASSUME NEW t, NEW c \in Contract, NEW st, LogsRight(t, c, st)
      PROVE  LogsRight(t, c, st)'
  BY <1>2, <1>5 DEF LogsRight, Opens
<1> QED BY <1>1, <1>4, <1>5 DEF Ready, Moves

(* What a session holds is ready after a step if the transactions it then  *)
(* holds are.                                                              *)
LEMMA ReadyThen ==
  ASSUME NEW s, NEW now, NEW next, Ready(now, next)',
         session'[s].now = now, session'[s].next = next
  PROVE  Ready(session[s].now, session[s].next)'
BY SMTT(60) DEF Ready, After, Moves, LogsRight, CountsRight, Suffered, Decides,
                Opens, Exists

(* The log and the counters depend on committed tables only.               *)
LEMMA TablesStay ==
  ASSUME SerialInv, row' = row, users' = users, SameCases
  PROVE  TransitionsLogged' /\ OnePenaltyPerDispute'
<1>1. TransitionsLogged'
  BY DEF SerialInv, TransitionsLogged, SameCases, Exists
<1>2. \A u \in Party :
        {d \in Dispute : /\ disputes[d] # NoDispute
                         /\ disputes[d].kind = "no_show"
                         /\ disputes[d].against = u
                         /\ disputes[d].status = "resolved"}'
        = {d \in Dispute : /\ disputes[d] # NoDispute
                           /\ disputes[d].kind = "no_show"
                           /\ disputes[d].against = u
                           /\ disputes[d].status = "resolved"}
  BY DEF SameCases, Exists
<1>3. OnePenaltyPerDispute'
  BY <1>2 DEF SerialInv, OnePenaltyPerDispute
<1> QED BY <1>1, <1>3

LEMMA SubmitSerial ==
  ASSUME OneRequest, TypeOK, SerialInv, NEW s \in Session, NEW op,
         NEW now \in Txn, NEW next \in Txn, Submit2(s, op, now, next),
         Ready(now, next)
  PROVE  SerialInv'
<1>1. /\ UNCHANGED <<row, disputes, users>>
      /\ session'[s].stage = "writing"
      /\ session'[s].now = now /\ session'[s].next = next
  BY DEF Submit2, Become, TypeOK
<1>2. SameCases
  BY <1>1, SameDisputes
<1>3. Ready(session[s].now, session[s].next)'
  BY <1>1, <1>2, ReadyStays, ReadyThen
<1>4. \A r \in Session : r = s
  BY DEF OneRequest
<1> QED BY <1>1, <1>2, <1>3, <1>4, TablesStay DEF SerialInv

LEMMA QuietSerial ==
  ASSUME OneRequest, TypeOK, SerialInv, row' = row, users' = users, SameCases,
         NEW s \in Session, NEW state, state.stage # "writing",
         state.stage = "resolving" =>
           /\ state.picked \subseteq Dispute
           /\ \A d \in state.picked : Undecided(d)
           /\ state.op = "resolve" => \E d \in Dispute : state.picked = {d},
         session' = session \/ session' = [session EXCEPT ![s] = state]
  PROVE  SerialInv'
<1>1. \A r \in Session : r = s
  BY DEF OneRequest
<1>2. \A d \in Dispute : Undecided(d) => Undecided(d)'
  BY DEF SameCases, Undecided, Exists
<1>3. TransitionsLogged' /\ OnePenaltyPerDispute'
  BY TablesStay
<1>4. CASE session' = session
  <2>1. InFlight(s)' = InFlight(s)
    BY <1>4 DEF InFlight
  <2>2. InFlight(s) => Ready(session[s].now, session[s].next)'
    <3> SUFFICES ASSUME InFlight(s) PROVE Ready(session[s].now, session[s].next)'
      OBVIOUS
    <3>1. PICK now, next : now = session[s].now /\ next = session[s].next
      OBVIOUS
    <3>2. Ready(now, next)
      BY <3>1 DEF SerialInv
    <3>3. Ready(now, next)'
      BY <3>2, ReadyStays
    <3>4. session'[s].now = now /\ session'[s].next = next
      BY <1>4, <3>1
    <3> QED BY <3>3, <3>4, ReadyThen
  <2>3. session[s].stage = "resolving" => session[s].picked \subseteq Dispute
    BY DEF TypeOK, Idle, Writing, Resolving, Failed
  <2> QED BY <1>1, <1>2, <1>3, <1>4, <2>1, <2>2, <2>3 DEF SerialInv
<1>5. CASE session' = [session EXCEPT ![s] = state]
  <2>1. session'[s] = state
    BY <1>5 DEF TypeOK
  <2>2. ~InFlight(s)'
    BY <2>1 DEF InFlight
  <2> QED BY <1>1, <1>2, <1>3, <2>1, <2>2 DEF SerialInv
<1> QED BY <1>4, <1>5

(* A request that fails, or dies.                                          *)
LEMMA FailSerial ==
  ASSUME OneRequest, TypeOK, SerialInv, NEW s \in Session, NEW op, Fail(s, op)
  PROVE  SerialInv'
<1> DEFINE state == [stage |-> "failed", op |-> op]
<1>1. /\ session' = [session EXCEPT ![s] = state]
      /\ UNCHANGED <<row, disputes, users>>
  BY DEF Fail, Become
<1>2. state.stage # "writing" /\ state.stage # "resolving"
  OBVIOUS
<1> HIDE DEF state
<1> QED BY <1>1, <1>2, SameDisputes, QuietSerial

-----------------------------------------------------------------------------
(* The transactions of every operation are ready.                          *)

(* set_in_progress *)
LEMMA SignSerial ==
  ASSUME OneRequest, TypeOK, SerialInv, NEW s \in Session,
         NEW c \in Contract, NEW p \in Party, Sign(s, c, p)
  PROVE  SerialInv'
<1> DEFINE w == IF FullySigned(c, p)
                  THEN [NoRowWrite EXCEPT !.signed = {p}, !.hashed = TRUE,
                          !.status = "IN_PROGRESS", !.logged = "IN_PROGRESS"]
                  ELSE [NoRowWrite EXCEPT !.signed = {p},
                          !.logged = "CONFIRMED"]
           q == ApplyRow(row[c], w)
<1>1. /\ w \in RowWrite
      /\ w.signed = {p} /\ w.confirmed = {}
      /\ w.status = IF FullySigned(c, p) THEN "IN_PROGRESS" ELSE Keep
      /\ w.logged = IF FullySigned(c, p) THEN "IN_PROGRESS" ELSE "CONFIRMED"
  BY DEF NoRowWrite, RowWrite, Keep, Status
<1>2. Submit2(s, "sign", WriteRow(c, w), NoTxn) /\ row[c].status = "CONFIRMED"
  BY DEF Sign, Submit
<1> HIDE DEF w
<1>3. Signs(row[c], q)
  <2>1. /\ q.signed = row[c].signed \cup {p}
        /\ q.confirmed = row[c].confirmed
        /\ q.status = IF FullySigned(c, p) THEN "IN_PROGRESS"
                      ELSE row[c].status
    BY <1>1 DEF ApplyRow, Keep
  <2> HIDE DEF q
  <2> QED BY <1>2, <2>1 DEF Signs, FullySigned
<1> HIDE DEF q
<1>4. Ready(WriteRow(c, w), NoTxn)
  BY <1>1, <1>2, <1>3, WriteRowReady DEF q, Keep
<1> QED BY <1>1, <1>2, <1>4, WriteRowType, NoTxnType, SubmitSerial

(* confirm_completion *)
LEMMA ConfirmSerial ==
  ASSUME OneRequest, TypeOK, SerialInv, NEW s \in Session,
         NEW c \in Contract, NEW p \in Party, ConfirmCompletion(s, c, p)
  PROVE  SerialInv'
<1> DEFINE to == IF FullyConfirmed(c, p) THEN "COMPLETED"
                 ELSE IF row[c].status = "IN_PROGRESS"
                        THEN "PENDING_COMPLETION"
                 ELSE Keep
           w == [NoRowWrite EXCEPT !.confirmed = {p}, !.status = to,
                                   !.logged = to]
           q == ApplyRow(row[c], w)
<1>1. to \in Status \cup {Keep}
  BY DEF Keep, Status
<1>2. /\ Submit2(s, "confirm", WriteRow(c, w), NoTxn)
      /\ row[c].status \in {"IN_PROGRESS", "PENDING_COMPLETION"}
      /\ p \notin row[c].confirmed
  BY DEF ConfirmCompletion, Submit
<1>3. /\ to = "COMPLETED" <=> FullyConfirmed(c, p)
      /\ ~FullyConfirmed(c, p) =>
           IF row[c].status = "IN_PROGRESS" THEN to = "PENDING_COMPLETION"
           ELSE to = Keep
  BY DEF Keep
<1> HIDE DEF to
<1>4. /\ w \in RowWrite
      /\ w.signed = {} /\ w.confirmed = {p}
      /\ w.status = to /\ w.logged = to
  BY <1>1 DEF NoRowWrite, RowWrite
<1> HIDE DEF w
<1>5. Confirms(row[c], q)
  <2>1. /\ q.confirmed = row[c].confirmed \cup {p}
        /\ q.signed = row[c].signed
        /\ q.status = IF to = Keep THEN row[c].status ELSE to
    BY <1>4 DEF ApplyRow
  <2> HIDE DEF q
  <2>2. q.status = IF q.confirmed = Party THEN "COMPLETED"
                   ELSE "PENDING_COMPLETION"
    BY <1>2, <1>3, <2>1 DEF FullyConfirmed, Keep
  <2> QED BY <1>2, <2>1, <2>2 DEF Confirms
<1> HIDE DEF q
<1>6. Ready(WriteRow(c, w), NoTxn)
  BY <1>4, <1>5, WriteRowReady DEF q
<1> QED BY <1>2, <1>4, <1>6, WriteRowType, NoTxnType, SubmitSerial

(* What the write of a cancellation is made of.                            *)
LEMMA CancellationWrite ==
  ASSUME NEW c \in Contract
  PROVE  \E w \in RowWrite :
           /\ w.status = "CANCELLED" /\ w.logged = "CANCELLED"
           /\ w.signed = {} /\ w.confirmed = {}
           /\ Cancellation(c) = WriteRow(c, w)
<1> DEFINE w == [NoRowWrite EXCEPT !.status = "CANCELLED", !.reason = TRUE,
                                   !.logged = "CANCELLED"]
<1>1. /\ w \in RowWrite /\ w.status = "CANCELLED" /\ w.logged = "CANCELLED"
      /\ w.signed = {} /\ w.confirmed = {}
  BY DEF NoRowWrite, RowWrite, Status
<1>2. Cancellation(c) = WriteRow(c, w)
  BY DEF Cancellation
<1> HIDE DEF w
<1> QED BY <1>1, <1>2

(* A write of the status alone leaves the evidence of the parties.         *)
LEMMA StatusWritten ==
  ASSUME NEW r \in Row, NEW w \in RowWrite, w.status # Keep,
         w.signed = {}, w.confirmed = {}
  PROVE  /\ SameParties(r, ApplyRow(r, w))
         /\ ApplyRow(r, w).status = w.status
BY DEF ApplyRow, SameParties, Row

(* cancel *)
LEMMA CancelSerial ==
  ASSUME OneRequest, TypeOK, SerialInv, NEW s \in Session,
         NEW c \in Contract, NEW p \in Party, Cancel(s, c, p)
  PROVE  SerialInv'
<1>1. /\ Submit2(s, "cancel", Cancellation(c), NoTxn)
      /\ "CANCELLED" \in ValidTransitions[row[c].status]
      /\ row[c] \in Row
  BY DEF Cancel, Submit, Cancellable, TypeOK
<1>2. PICK w \in RowWrite : /\ w.status = "CANCELLED" /\ w.logged = "CANCELLED"
                            /\ w.signed = {} /\ w.confirmed = {}
                            /\ Cancellation(c) = WriteRow(c, w)
  BY CancellationWrite
<1>3. Leaves(row[c], ApplyRow(row[c], w))
  BY <1>1, <1>2, StatusWritten DEF Leaves, Keep
<1>4. Ready(Cancellation(c), NoTxn)
  BY <1>2, <1>3, WriteRowReady DEF Keep
<1> QED BY <1>1, <1>4, CancellationType, NoTxnType, SubmitSerial

(* What is valid from the states a rejection and a report start from.      *)
LEMMA ValidFrom ==
  /\ "DISPUTED" \in ValidTransitions["PENDING_COMPLETION"]
  /\ "CANCELLED" \in ValidTransitions["CONFIRMED"]
  /\ "CANCELLED" \in ValidTransitions["IN_PROGRESS"]
  /\ ValidTransitions["DISPUTED"] = {"COMPLETED", "CANCELLED"}
BY DEF ValidTransitions, Status

(* reject_completion *)
LEMMA RejectSerial ==
  ASSUME OneRequest, TypeOK, SerialInv, NEW s \in Session,
         NEW c \in Contract, NEW p \in Party, NEW d \in Dispute,
         RejectCompletion(s, c, p, d)
  PROVE  SerialInv'
<1> DEFINE t == Rejection(c, p, d)
           w == [NoRowWrite EXCEPT !.status = "DISPUTED"]
           v == [NoRowWrite EXCEPT !.logged = "DISPUTED"]
           next == WriteRow(c, v)
           n == NewDispute(c, "completion_rejected", p)
           between == After(row, t)
<1>1. CASE Fail(s, "reject")
  BY <1>1, FailSerial
<1>2. CASE Submit2(s, "reject", t, next)
  <2>1. /\ w \in RowWrite /\ w.status = "DISPUTED" /\ w.logged = Keep
        /\ w.signed = {} /\ w.confirmed = {}
    BY DEF NoRowWrite, RowWrite, Status
  <2>2. /\ v \in RowWrite /\ v.status = Keep /\ v.logged = "DISPUTED"
        /\ v.signed = {} /\ v.confirmed = {}
    BY DEF NoRowWrite, RowWrite, Status
  <2>3. /\ t.rows = [[k \in Contract |-> NoRowWrite] EXCEPT ![c] = w]
        /\ t.opened = [[e \in Dispute |-> NoDispute] EXCEPT ![d] = n]
        /\ t.users = NoTxn.users /\ t.disputes = NoTxn.disputes
    BY DEF Rejection, WriteRow, NoTxn
  <2>4. /\ next.rows = [[k \in Contract |-> NoRowWrite] EXCEPT ![c] = v]
        /\ next = [NoTxn EXCEPT !.rows = next.rows]
    BY DEF WriteRow, NoTxn
  <2>5. n # NoDispute /\ n.contract = c
    BY DEF NewDispute, NoDispute
  <2>6. row[c].status = "PENDING_COMPLETION" /\ row \in [Contract -> Row]
    BY DEF RejectCompletion, TypeOK
  <2>7. t \in Txn /\ next \in Txn
    BY <2>2, RejectionType, WriteRowType
  <2> HIDE DEF t, next, n, w, v
  <2>8. /\ between \in [Contract -> Row]
        /\ between[c] = ApplyRow(row[c], w)
        /\ between[c].status = "DISPUTED"
    <3>1. between[c] = ApplyRow(row[c], w)
      BY <2>3 DEF After
    <3>2. ApplyRow(row[c], w).status = "DISPUTED"
      BY <2>1, <2>6, StatusWritten DEF Keep
    <3> QED BY <2>6, <2>7, <3>1, <3>2, AfterType
  <2>9. Leaves(row[c], between[c])
    BY <2>1, <2>6, <2>8, StatusWritten, ValidFrom DEF Leaves, Keep
  <2>10. Moves(row, between)
    BY <2>1, <2>3, <2>6, <2>8, <2>9, OneRowMoves
  <2> HIDE DEF between
  <2>11. Moves(between, After(between, next))
    <3>1. /\ SameParties(between[c], ApplyRow(between[c], v))
          /\ ApplyRow(between[c], v).status = between[c].status
      BY <2>2, <2>8 DEF ApplyRow, SameParties, Row
    <3> QED BY <2>2, <2>4, <2>8, <3>1, OneRowMoves
  <2>12. ASSUME NEW k \in Contract
         PROVE  /\ LogsRight(t, k, row[k].status)
                /\ LogsRight(next, k, between[k].status)
    <3>1. CASE k = c
      <4>1. t.rows[c] = w /\ next.rows[c] = v /\ t.opened[d] = n
        BY <2>3, <2>4
      <4>2. LogsRight(t, c, row[c].status)
        BY <2>1, <2>5, <4>1 DEF LogsRight, Opens
      <4>3. LogsRight(next, c, between[c].status)
        BY <2>2, <2>8, <4>1 DEF LogsRight
      <4> QED BY <3>1, <4>2, <4>3
    <3>2. CASE k # c
      BY <2>3, <2>4, <3>2, NothingLogged
    <3> QED BY <3>1, <3>2
  <2>13. Ready(t, next)
    BY <2>3, <2>4, <2>10, <2>11, <2>12, NothingCounted DEF Ready, between
  <2> QED BY <1>2, <2>7, <2>13, SubmitSerial
<1> QED BY <1>1, <1>2 DEF RejectCompletion

(* report_contract_no_show *)
LEMMA ReportNoShowSerial ==
  ASSUME OneRequest, TypeOK, SerialInv, NEW s \in Session,
         NEW c \in Contract, NEW p \in Party, NEW d \in Dispute,
         ReportNoShow(s, c, p, d)
  PROVE  SerialInv'
<1> DEFINE n == NewDispute(c, "no_show", p)
           t == [NoTxn EXCEPT !.opened = [@ EXCEPT ![d] = n]]
           next == Cancellation(c)
<1>1. CASE Fail(s, "no_show")
  BY <1>1, FailSerial
<1>2. CASE Submit2(s, "no_show", t, next)
  <2>1. n \in DisputeRow
    BY NewDisputeType DEF DisputeKind
  <2>2. t \in Txn /\ next \in Txn
    <3> HIDE DEF n
    <3> QED BY <2>1, NoTxnType, CancellationType DEF Txn
  <2>3. /\ t.rows = [k \in Contract |-> NoRowWrite]
        /\ t.users = NoTxn.users /\ t.disputes = NoTxn.disputes
    BY DEF NoTxn
  <2>4. /\ row[c].status \in {"CONFIRMED", "IN_PROGRESS"}
        /\ row \in [Contract -> Row]
    BY DEF ReportNoShow, TypeOK
  <2>5. PICK w \in RowWrite :
               /\ w.status = "CANCELLED" /\ w.logged = "CANCELLED"
               /\ w.signed = {} /\ w.confirmed = {}
               /\ next = WriteRow(c, w)
    BY CancellationWrite
  <2>6. /\ next.rows = [[k \in Contract |-> NoRowWrite] EXCEPT ![c] = w]
        /\ next = [NoTxn EXCEPT !.rows = next.rows]
    BY <2>5 DEF WriteRow, NoTxn
  <2> HIDE DEF t, next
  <2>7. After(row, t) = row
    BY <2>3, <2>4, AfterNothing
  <2>8. Leaves(row[c], ApplyRow(row[c], w))
    BY <2>4, <2>5, StatusWritten, ValidFrom DEF Leaves, Keep
  <2>9. Moves(row, After(row, next))
    BY <2>4, <2>6, <2>8, OneRowMoves
  <2>10. ASSUME NEW k \in Contract
         PROVE  /\ LogsRight(t, k, row[k].status)
                /\ LogsRight(next, k, row[k].status)
    <3>1. LogsRight(t, k, row[k].status)
      BY <2>3, NothingLogged
    <3>2. CASE k = c
      <4>1. next.rows[c] = w
        BY <2>6
      <4> QED BY <2>5, <3>1, <3>2, <4>1 DEF LogsRight, Keep
    <3>3. CASE k # c
      BY <2>6, <3>1, <3>3, NothingLogged
    <3> QED BY <3>2, <3>3
  <2>11. Ready(t, next)
    BY <2>3, <2>6, <2>7, <2>9, <2>10, NothingMoves, NothingCounted DEF Ready
  <2> QED BY <1>2, <2>2, <2>11, SubmitSerial
<1> QED BY <1>1, <1>2 DEF ReportNoShow

(* auto_complete_pending_contracts *)
LEMMA AutoCompleteSerial ==
  ASSUME OneRequest, TypeOK, SerialInv, NEW s \in Session, AutoComplete(s)
  PROVE  SerialInv'
<1> DEFINE due == {c \in Contract : Overdue(c)}
           w == [NoRowWrite EXCEPT !.status = "COMPLETED",
                                   !.logged = "COMPLETED"]
           rows == [c \in Contract |-> IF c \in due THEN w ELSE NoRowWrite]
           t == [NoTxn EXCEPT !.rows = rows, !.dangling = TRUE]
<1>1. Submit2(s, "auto_complete", t, NoTxn)
  BY DEF AutoComplete, Submit
<1>2. /\ w \in RowWrite /\ NoRowWrite \in RowWrite
      /\ w.status = "COMPLETED" /\ w.logged = "COMPLETED"
      /\ w.signed = {} /\ w.confirmed = {}
  BY DEF NoRowWrite, RowWrite, Status
<1>3. \A c \in due : row[c].status \in {"IN_PROGRESS", "PENDING_COMPLETION"}
  BY DEF Overdue
<1>4. t \in Txn
  <2>1. rows \in [Contract -> RowWrite]
    <3> HIDE DEF w, due
    <3> QED BY <1>2
  <2> HIDE DEF rows
  <2> QED BY <2>1, NoTxnType DEF Txn
<1>5. t.rows = rows /\ t.users = NoTxn.users /\ t.disputes = NoTxn.disputes
  BY DEF NoTxn
<1> HIDE DEF t, w, due
<1>6. ASSUME NEW c \in Contract
      PROVE  /\ TimesOut(row[c], After(row, t)[c])
             /\ LogsRight(t, c, row[c].status)
  <2>1. row[c] \in Row /\ After(row, t)[c] = ApplyRow(row[c], rows[c])
    BY <1>5 DEF TypeOK, After
  <2>2. CASE c \in due
    <3>1. rows[c] = w
      BY <2>2
    <3> QED BY <1>2, <1>3, <1>5, <2>1, <2>2, <3>1, StatusWritten
            DEF TimesOut, LogsRight, Keep
  <2>3. CASE c \notin due
    <3>1. rows[c] = NoRowWrite
      BY <2>3
    <3>2. After(row, t)[c] = row[c]
      BY <2>1, <3>1, NoWriteApplied
    <3> QED BY <1>5, <3>1, <3>2, NothingLogged DEF TimesOut, SameParties
  <2> QED BY <2>2, <2>3
<1>7. Ready(t, NoTxn)
  BY <1>4, <1>5, <1>6, NothingCounted, AloneReady DEF Moves
<1> QED BY <1>1, <1>4, <1>7, NoTxnType, SubmitSerial

(* A transaction that writes no contract and no user, as an objection.     *)
LEMMA ObjectSerial ==
  ASSUME OneRequest, TypeOK, SerialInv, NEW s \in Session, NEW d \in Dispute,
         ObjectToDispute(s, d)
  PROVE  SerialInv'
<1> DEFINE w == [status |-> "objected", resolution |-> "none"]
           t == [NoTxn EXCEPT !.disputes = [@ EXCEPT ![d] = w]]
<1>1. Submit2(s, "object", t, NoTxn) /\ disputes[d].status = "open"
  BY DEF ObjectToDispute, Submit
<1>2. w \in DisputeWrite
  BY DEF DisputeWrite, DisputeStatus
<1>3. t \in Txn
  <2> HIDE DEF w
  <2> QED BY <1>2, NoTxnType DEF Txn
<1>4. /\ t.rows = [c \in Contract |-> NoRowWrite]
      /\ t.users = NoTxn.users
      /\ t.disputes = [[e \in Dispute |-> NoDisputeWrite] EXCEPT ![d] = w]
  BY DEF NoTxn
<1> HIDE DEF t, w
<1>5. After(row, t) = row
  BY <1>4, AfterNothing DEF TypeOK
<1>6. CountsRight(t)
  <2>1. ASSUME NEW u \in Party
        PROVE  t.users[u].noShows <= Cardinality(Suffered(t, u))
    <3>1. t.users[u].noShows = -1
      BY <1>4 DEF NoTxn, NoUserWrite, Unset
    <3> QED BY <3>1, SufferedFinite
  <2>2. \A e \in Dispute : e # d => t.disputes[e].status = Keep
    BY <1>4 DEF NoDisputeWrite
  <2> QED BY <1>1, <2>1, <2>2 DEF CountsRight
<1>7. Ready(t, NoTxn)
  BY <1>3, <1>4, <1>5, <1>6, NothingMoves, NothingLogged, AloneReady
<1> QED BY <1>1, <1>3, <1>7, NoTxnType, SubmitSerial

(* The query of a resolution                                               *)
LEMMA ResolveSerial ==
  ASSUME OneRequest, TypeOK, SerialInv, NEW s \in Session, NEW op,
         NEW ds \in SUBSET Dispute, NEW res, Resolve(s, op, ds, res),
         \A d \in ds : Undecided(d),
         op = "resolve" => \E d \in Dispute : ds = {d}
  PROVE  SerialInv'
<1> DEFINE state == [stage |-> "resolving", op |-> op, picked |-> ds,
                     resolution |-> res]
<1>1. /\ session' = [session EXCEPT ![s] = state]
      /\ UNCHANGED <<row, disputes, users>>
  BY DEF Resolve, Become
<1>2. /\ state.stage # "writing"
      /\ state.picked \subseteq Dispute
      /\ \A d \in state.picked : Undecided(d)
      /\ state.op = "resolve" => \E d \in Dispute : state.picked = {d}
  OBVIOUS
<1> HIDE DEF state
<1> QED BY <1>1, <1>2, SameDisputes, QuietSerial

(* _apply_no_show_penalty counts disputes the same transaction resolves.   *)
LEMMA PenaltyCounts ==
  ASSUME TypeOK, OnePenaltyPerDispute, NEW ds \in SUBSET Dispute,
         \A d \in ds : Undecided(d), NEW res, NEW t, NEW u \in Party,
         \A d \in ds : t.disputes[d].status = "resolved",
         t.users[u] = Penalty(ds, u, res)
  PROVE  t.users[u].noShows <= Cardinality(Suffered(t, u))
<1> DEFINE hits == {d \in ds : /\ disputes[d].kind = "no_show"
                               /\ disputes[d].against = u}
           past == {d \in Dispute : /\ disputes[d] # NoDispute
                                    /\ disputes[d].kind = "no_show"
                                    /\ disputes[d].against = u
                                    /\ disputes[d].status = "resolved"}
<1>1. CASE hits = {} \/ res = "respondent_wins"
  <2>1. t.users[u].noShows = -1
    BY <1>1 DEF Penalty, NoUserWrite, Unset
  <2> QED BY <2>1, SufferedFinite
<1>2. CASE ~(hits = {} \/ res = "respondent_wins")
  <2>1. t.users[u].noShows = users[u].noShows + Cardinality(hits)
    BY <1>2 DEF Penalty
  <2>2. users[u].noShows <= Cardinality(past)
    BY DEF OnePenaltyPerDispute
  <2>3. hits \cup past \subseteq Suffered(t, u)
    BY DEF Suffered, Undecided, Exists
  <2>4. hits \cap past = {}
    BY DEF Undecided
  <2>5. IsFiniteSet(hits) /\ IsFiniteSet(past)
    BY DbAssumption, FS_Subset
  <2>6. users[u].noShows \in Nat
    BY DEF TypeOK, UserRow
  <2> HIDE DEF hits, past
  <2>7. Cardinality(hits \cup past) = Cardinality(hits) + Cardinality(past)
    <3>1. Cardinality(hits \cap past) = 0
      BY <2>4, FS_EmptySet
    <3>2. Cardinality(hits \cup past) =
            Cardinality(hits) + Cardinality(past) - Cardinality(hits \cap past)
      BY <2>5, FS_Union
    <3> QED BY <2>5, <3>1, <3>2, FS_CardinalityType
  <2>8. Cardinality(hits \cup past) <= Cardinality(Suffered(t, u))
    BY <2>3, SufferedFinite, FS_Subset
  <2>9. /\ Cardinality(hits) \in Nat /\ Cardinality(past) \in Nat
        /\ Cardinality(Suffered(t, u)) \in Nat
    BY <2>5, FS_CardinalityType, SufferedFinite
  <2> QED BY <2>1, <2>2, <2>6, <2>7, <2>8, <2>9
<1> QED BY <1>1, <1>2

(* resolve_manually takes a DISPUTED contract where the table allows.      *)
LEMMA VerdictLeaves ==
  ASSUME NEW c \in Contract, row[c] \in Row, NEW ds, NEW res,
         NEW w, w = Verdict(c, ds, res), w # NoRowWrite
  PROVE  /\ w \in RowWrite /\ w.status # Keep
         /\ Leaves(row[c], ApplyRow(row[c], w))
         /\ \E d \in ds : disputes[d].contract = c
<1>1. /\ row[c].status = "DISPUTED"
      /\ w.status \in {"COMPLETED", "CANCELLED"}
      /\ w.signed = {} /\ w.confirmed = {}
      /\ \E d \in ds : disputes[d].contract = c
  BY DEF Verdict, NoRowWrite
<1>2. w \in RowWrite
  BY VerdictType
<1> QED BY <1>1, <1>2, StatusWritten, ValidFrom DEF Leaves, Keep

(* resolve_manually and auto_resolve_expired_disputes, up to the commit    *)
LEMMA FinishResolvingSerial ==
  ASSUME OneRequest, TypeOK, SerialInv, NEW s \in Session, FinishResolving(s)
  PROVE  SerialInv'
<1> DEFINE ds  == session[s].picked
           res == session[s].resolution
           op  == session[s].op
           ws == [d \in Dispute |->
                    IF d \in ds
                      THEN [status |-> "resolved", resolution |-> res]
                      ELSE NoDisputeWrite]
           us == [u \in Party |-> Penalty(ds, u, res)]
           rows == [c \in Contract |->
                      IF op = "resolve" THEN Verdict(c, ds, res)
                      ELSE NoRowWrite]
           t == [NoTxn EXCEPT !.disputes = ws, !.users = us, !.rows = rows]
<1>1. session[s] \in Resolving
  BY DEF TypeOK, FinishResolving, Idle, Writing, Failed
<1>2. /\ ds \in SUBSET Dispute
      /\ res \in Resolution
      /\ \A d \in ds : Undecided(d)
      /\ op = "resolve" => \E d \in Dispute : ds = {d}
  BY <1>1 DEF Resolving, SerialInv
<1>3. Submit2(s, op, t, NoTxn)
  BY DEF FinishResolving, Submit
<1>4. t \in Txn
  <2>1. ws \in [Dispute -> DisputeWrite]
    <3> HIDE DEF ds, res
    <3> QED BY <1>2 DEF NoDisputeWrite, DisputeWrite, DisputeStatus
  <2>2. us \in [Party -> UserWrite]
    <3> HIDE DEF ds, res
    <3> QED BY <1>2, PenaltyType
  <2>3. rows \in [Contract -> RowWrite]
    <3>1. NoRowWrite \in RowWrite
      BY DEF NoRowWrite, RowWrite
    <3>2. ASSUME NEW c \in Contract PROVE Verdict(c, ds, res) \in RowWrite
      BY VerdictType
    <3> QED BY <3>1, <3>2
  <2> HIDE DEF ws, us, rows
  <2> QED BY <2>1, <2>2, <2>3, NoTxnType DEF Txn
<1>5. t.rows = rows /\ t.disputes = ws /\ t.users = us
  BY DEF NoTxn
<1> HIDE DEF t, ds, res, op
<1>6. /\ \A d \in ds : /\ t.disputes[d].status = "resolved"
                       /\ t.disputes[d].resolution # "none"
      /\ \A d \in Dispute \ ds : t.disputes[d].status = Keep
  BY <1>2, <1>5 DEF Resolution, NoDisputeWrite
<1>7. CountsRight(t)
  <2>1. ASSUME NEW u \in Party
        PROVE  t.users[u].noShows <= Cardinality(Suffered(t, u))
    <3>1. t.users[u] = Penalty(ds, u, res)
      BY <1>5
    <3> QED BY <1>2, <1>6, <3>1, PenaltyCounts DEF SerialInv
  <2> QED BY <1>6, <2>1 DEF CountsRight
<1>8. Moves(row, After(row, t)) /\ \A c \in Contract : LogsRight(t, c, row[c].status)
  <2>1. CASE \A c \in Contract : rows[c] = NoRowWrite
    <3>1. t.rows = [c \in Contract |-> NoRowWrite]
      BY <1>5, <2>1
    <3>2. After(row, t) = row
      BY <3>1, AfterNothing DEF TypeOK
    <3> HIDE DEF rows
    <3> QED BY <3>1, <3>2, NothingMoves, NothingLogged
  <2>2. CASE \E c \in Contract : rows[c] # NoRowWrite
    <3>1. PICK c \in Contract : rows[c] # NoRowWrite
      BY <2>2
    <3>2. op = "resolve" /\ rows[c] = Verdict(c, ds, res)
      BY <3>1
    <3>3. /\ rows[c] \in RowWrite /\ rows[c].status # Keep
          /\ Leaves(row[c], ApplyRow(row[c], rows[c]))
          /\ \E d \in ds : disputes[d].contract = c
      BY <3>1, <3>2, VerdictLeaves DEF TypeOK
    <3>4. PICK d \in Dispute : ds = {d}
      BY <1>2, <3>2
    <3>5. \A k \in Contract : k # c => rows[k] = NoRowWrite
      <4>1. disputes[d].contract = c
        BY <3>3, <3>4
      <4> QED BY <3>2, <3>4, <4>1 DEF Verdict
    <3>6. t.rows = [[k \in Contract |-> NoRowWrite] EXCEPT ![c] = rows[c]]
      BY <1>5, <3>5
    <3> HIDE DEF rows
    <3>7. Moves(row, After(row, t))
      BY <3>3, <3>6, OneRowMoves DEF TypeOK
    <3>8. LogsRight(t, c, row[c].status)
      <4>1. disputes[d].contract = c /\ Exists(d)
        BY <1>2, <3>3, <3>4 DEF Undecided, Exists
      <4>2. Decides(t, d, c)
        BY <1>6, <3>4, <4>1 DEF Decides, Keep
      <4>3. t.rows[c] = rows[c]
        BY <3>6
      <4> QED BY <3>3, <4>2, <4>3 DEF LogsRight
    <3>9. \A k \in Contract : k # c => LogsRight(t, k, row[k].status)
      BY <3>6, NothingLogged
    <3> QED BY <3>7, <3>8, <3>9
  <2> QED BY <2>1, <2>2
<1>9. Ready(t, NoTxn)
  BY <1>4, <1>7, <1>8, AloneReady
<1> QED BY <1>3, <1>4, <1>9, NoTxnType, SubmitSerial

(* request_deletion *)
LEMMA DeleteAccountSerial ==
  ASSUME OneRequest, TypeOK, SerialInv, NEW s \in Session, NEW u \in Party,
         DeleteAccount(s, u)
  PROVE  SerialInv'
<1> DEFINE w == [NoUserWrite EXCEPT !.deactivated = TRUE]
           v == [NoRowWrite EXCEPT !.status = "CANCELLED", !.reason = TRUE]
           t == [NoTxn EXCEPT !.rows = CancelActive,
                              !.users = [@ EXCEPT ![u] = w]]
<1>1. Submit2(s, "delete_account", t, NoTxn)
  BY DEF DeleteAccount, Submit
<1>2. /\ w \in UserWrite /\ w.deactivated /\ w.noShows = -1
      /\ v \in RowWrite /\ NoRowWrite \in RowWrite /\ v.status = "CANCELLED"
      /\ v.signed = {} /\ v.confirmed = {}
  BY DEF NoUserWrite, UserWrite, Unset, NoRowWrite, RowWrite, Status
<1>3. \A c \in Contract : CancelActive[c] = IF row[c].status \in Active THEN v
                                            ELSE NoRowWrite
  BY DEF CancelActive
<1>4. t \in Txn
  <2>1. CancelActive \in [Contract -> RowWrite]
    <3> HIDE DEF v
    <3> QED BY <1>2, <1>3 DEF CancelActive
  <2> HIDE DEF w
  <2> QED BY <1>2, <2>1, NoTxnType DEF Txn
<1>5. /\ t.rows = CancelActive
      /\ t.users = [[p \in Party |-> NoUserWrite] EXCEPT ![u] = w]
      /\ t.disputes = NoTxn.disputes
  BY DEF NoTxn
<1> HIDE DEF t, v, w
<1>6. ASSUME NEW c \in Contract
      PROVE  /\ Cascades(row[c], After(row, t)[c])
             /\ LogsRight(t, c, row[c].status)
  <2>1. row[c] \in Row /\ After(row, t)[c] = ApplyRow(row[c], CancelActive[c])
    BY <1>5 DEF TypeOK, After
  <2>2. CASE row[c].status \in Active
    <3>1. CancelActive[c] = v
      BY <1>3, <2>2
    <3>2. t.users[u].deactivated
      BY <1>2, <1>5
    <3> QED BY <1>2, <1>5, <2>1, <2>2, <3>1, <3>2, StatusWritten
            DEF Cascades, LogsRight, Keep
  <2>3. CASE row[c].status \notin Active
    <3>1. CancelActive[c] = NoRowWrite
      BY <1>3, <2>3
    <3>2. After(row, t)[c] = row[c]
      BY <2>1, <3>1, NoWriteApplied
    <3> QED BY <1>5, <2>3, <3>1, <3>2, NothingLogged DEF Cascades, SameParties
  <2> QED BY <2>2, <2>3
<1>7. CountsRight(t)
  <2>1. ASSUME NEW p \in Party
        PROVE  t.users[p].noShows <= Cardinality(Suffered(t, p))
    <3>1. t.users[p].noShows = -1
      BY <1>2, <1>5 DEF NoUserWrite, Unset
    <3> QED BY <3>1, SufferedFinite
  <2>2. \A d \in Dispute : t.disputes[d].status = Keep
    BY <1>5 DEF NoTxn, NoDisputeWrite
  <2> QED BY <2>1, <2>2 DEF CountsRight
<1>8. Ready(t, NoTxn)
  BY <1>4, <1>6, <1>7, AloneReady DEF Moves
<1> QED BY <1>1, <1>4, <1>8, NoTxnType, SubmitSerial

-----------------------------------------------------------------------------
(* COMMIT                                                                  *)

(* What a commit leaves of a dispute's status and party.                   *)
LEMMA CommitCases ==
  ASSUME TypeOK, AccountInv, NEW s \in Session, Commit(s),
         ~(ForeignKeys /\ session[s].now.dangling),
         NEW d \in Dispute, Exists(d)
  PROVE  /\ disputes'[d].against = disputes[d].against
         /\ disputes'[d].status =
              IF session[s].now.disputes[d].status = Keep
                THEN disputes[d].status
                ELSE session[s].now.disputes[d].status
<1> DEFINE t == session[s].now
<1>1. /\ disputes' = [e \in Dispute |->
                        ApplyDispute(disputes[e], t.opened[e], t.disputes[e])]
      /\ InFlight(s)
  BY DEF Commit, InFlight
<1>2. t \in Txn
  BY <1>1, InFlightType
<1>3. ~Opens(t, d)
  BY CommitGrows
<1>4. /\ disputes[d] \in DisputeRow /\ t.disputes[d] \in DisputeWrite
      /\ t.opened[d] = NoDispute
  BY <1>2, <1>3 DEF TypeOK, Txn, Opens, Exists
<1>5. disputes'[d] = ApplyDispute(disputes[d], NoDispute, t.disputes[d])
  BY <1>1, <1>4
<1> HIDE DEF t
<1>6. disputes'[d].against = disputes[d].against
  BY <1>4, <1>5 DEF ApplyDispute, DisputeRow
<1>7. disputes'[d].status = IF t.disputes[d].status = Keep THEN disputes[d].status
                            ELSE t.disputes[d].status
  BY <1>4, <1>5, ApplyDisputeStays
<1> QED BY <1>6, <1>7 DEF t

(* The newest log entry after a commit                                     *)
LEMMA CommitLogs ==
  ASSUME TypeOK, AccountInv, SerialInv, NEW s \in Session, Commit(s),
         ~(ForeignKeys /\ session[s].now.dangling)
  PROVE  TransitionsLogged'
<1> DEFINE t == session[s].now
<1>1. /\ InFlight(s)
      /\ users' = [u \in Party |-> ApplyUser(users[u], t.users[u])]
  BY DEF Commit, InFlight
<1>2. \A c \in Contract : LogsRight(t, c, row[c].status)
  BY <1>1 DEF SerialInv, Ready
<1>3. /\ Grows
      /\ \A c \in Contract : row'[c] = ApplyRow(row[c], t.rows[c])
      /\ \A d \in Dispute : Opens(t, d) => disputes'[d] = t.opened[d]
      /\ \A d \in Dispute, c \in Contract :
           Decides(t, d, c) => disputes'[d].resolution # "none"
  BY CommitGrows DEF Decides
<1>4. \A u \in Party : users'[u].active = (users[u].active /\ ~t.users[u].deactivated)
  BY <1>1 DEF ApplyUser
<1> HIDE DEF t
<1> SUFFICES ASSUME NEW c \in Contract
             PROVE  \/ row'[c].logged = row'[c].status
                    \/ row'[c].status = "CANCELLED"
                         /\ \E u \in Party : ~users'[u].active
                    \/ \E d \in Dispute :
                         /\ Exists(d)'
                         /\ disputes'[d].contract = c
                         /\ row'[c].status = "DISPUTED"
                            \/ disputes'[d].resolution # "none"
  BY DEF TransitionsLogged, Exists
<1>5. /\ row'[c].status = IF t.rows[c].status = Keep THEN row[c].status
                          ELSE t.rows[c].status
      /\ row'[c].logged = IF t.rows[c].logged = Keep THEN row[c].logged
                          ELSE t.rows[c].logged
  <2>1. row'[c] = ApplyRow(row[c], t.rows[c])
    BY <1>3
  <2> QED BY <2>1 DEF ApplyRow
<1>6. CASE t.rows[c].status = Keep /\ t.rows[c].logged = row[c].status
  <2>1. row[c].status # Keep
    BY DEF TypeOK, Row, Status, Keep
  <2> QED BY <1>5, <1>6, <2>1
<1>7. CASE t.rows[c].status = Keep /\ t.rows[c].logged = Keep
  <2>1. row'[c].status = row[c].status /\ row'[c].logged = row[c].logged
    BY <1>5, <1>7
  <2>2. CASE row[c].logged = row[c].status
    BY <2>1, <2>2
  <2>3. CASE row[c].status = "CANCELLED" /\ \E u \in Party : ~users[u].active
    BY <1>4, <2>1, <2>3
  <2>4. CASE \E d \in Dispute :
               /\ Exists(d)
               /\ disputes[d].contract = c
               /\ row[c].status = "DISPUTED" \/ disputes[d].resolution # "none"
    BY <1>3, <2>1, <2>4 DEF Grows, Stays
  <2> QED BY <2>2, <2>3, <2>4 DEF SerialInv, TransitionsLogged, Exists
<1>8. CASE t.rows[c].status # Keep /\ t.rows[c].logged = t.rows[c].status
  BY <1>5, <1>8
<1>9. CASE t.rows[c].status = "CANCELLED" /\ \E u \in Party : t.users[u].deactivated
  BY <1>4, <1>5, <1>9 DEF Keep
<1>10. CASE t.rows[c].status = "DISPUTED"
              /\ \E d \in Dispute : Opens(t, d) /\ t.opened[d].contract = c
  <2>1. row'[c].status = "DISPUTED"
    BY <1>5, <1>10 DEF Keep
  <2> QED BY <1>3, <1>10, <2>1 DEF Opens, Exists
<1>11. CASE \E d \in Dispute : Decides(t, d, c)
  BY <1>3, <1>11 DEF Grows, Stays, Decides
<1> QED BY <1>2, <1>6, <1>7, <1>8, <1>9, <1>10, <1>11 DEF LogsRight

(* The no-show counters after a commit                                     *)
LEMMA CommitCounts ==
  ASSUME TypeOK, AccountInv, SerialInv, NEW s \in Session, Commit(s),
         ~(ForeignKeys /\ session[s].now.dangling)
  PROVE  OnePenaltyPerDispute'
<1> DEFINE t == session[s].now
           past(u) == {d \in Dispute : /\ disputes[d] # NoDispute
                                       /\ disputes[d].kind = "no_show"
                                       /\ disputes[d].against = u
                                       /\ disputes[d].status = "resolved"}
<1>1. /\ InFlight(s)
      /\ users' = [u \in Party |-> ApplyUser(users[u], t.users[u])]
  BY DEF Commit, InFlight
<1>2. CountsRight(t)
  BY <1>1 DEF SerialInv, Ready
<1>3. ASSUME NEW d \in Dispute, Exists(d)
      PROVE  /\ Exists(d)'
             /\ disputes'[d].kind = disputes[d].kind
             /\ disputes'[d].against = disputes[d].against
             /\ disputes'[d].status = IF t.disputes[d].status = Keep
                                      THEN disputes[d].status
                                      ELSE t.disputes[d].status
  BY <1>3, CommitGrows, CommitCases DEF Grows, Stays
<1> HIDE DEF t
<1> SUFFICES ASSUME NEW u \in Party
             PROVE  users'[u].noShows <= Cardinality(past(u)')
  BY DEF OnePenaltyPerDispute
<1>4. Suffered(t, u) \subseteq past(u)'
  <2> SUFFICES ASSUME NEW d \in Suffered(t, u)
               PROVE  /\ d \in Dispute
                      /\ disputes'[d] # NoDispute
                      /\ disputes'[d].kind = "no_show"
                      /\ disputes'[d].against = u
                      /\ disputes'[d].status = "resolved"
    OBVIOUS
  <2>1. /\ d \in Dispute /\ Exists(d)
        /\ disputes[d].kind = "no_show" /\ disputes[d].against = u
        /\ disputes[d].status = "resolved" \/ t.disputes[d].status = "resolved"
    BY DEF Suffered
  <2>2. disputes[d].status = "resolved" => t.disputes[d].status \in {Keep, "resolved"}
    BY <1>2, <2>1 DEF CountsRight
  <2> QED BY <1>3, <2>1, <2>2 DEF Exists, Keep
<1>5. past(u) \subseteq Suffered(t, u)
  BY DEF Suffered, Exists
<1>6. IsFiniteSet(past(u)') /\ IsFiniteSet(past(u))
  BY DbAssumption, FS_Subset
<1>7. /\ users'[u].noShows = IF t.users[u].noShows = Unset THEN users[u].noShows
                             ELSE t.users[u].noShows
      /\ users[u].noShows <= Cardinality(past(u))
      /\ t.users[u].noShows <= Cardinality(Suffered(t, u))
  BY <1>1, <1>2 DEF ApplyUser, CountsRight, SerialInv, OnePenaltyPerDispute
<1>8. /\ users[u].noShows \in Nat
      /\ t.users[u].noShows \in Int
  <2>1. t \in Txn
    BY <1>1, InFlightType DEF t
  <2> QED BY <2>1 DEF TypeOK, UserRow, Txn, UserWrite, Unset
<1> HIDE DEF past
<1>9. /\ Cardinality(past(u)) <= Cardinality(Suffered(t, u))
      /\ Cardinality(Suffered(t, u)) <= Cardinality(past(u)')
  BY <1>4, <1>5, <1>6, SufferedFinite, FS_Subset
<1>10. /\ Cardinality(past(u)) \in Nat /\ Cardinality(past(u)') \in Nat
       /\ Cardinality(Suffered(t, u)) \in Nat
  BY <1>6, SufferedFinite, FS_CardinalityType
<1> QED BY <1>7, <1>8, <1>9, <1>10

(* COMMIT, accepted or refused                                             *)
LEMMA CommitSerial ==
  ASSUME OneRequest, TypeOK, AccountInv, SerialInv, NEW s \in Session,
         Commit(s)
  PROVE  SerialInv'
<1> DEFINE t == session[s].now
           next == session[s].next
           after == IF next = NoTxn THEN Idle
                    ELSE [session[s] EXCEPT !.now = next, !.next = NoTxn]
<1>1. CASE Fail(s, session[s].op)
  BY <1>1, FailSerial
<1>2. CASE ~(ForeignKeys /\ t.dangling)
  <2>1. /\ session'[s] = after
        /\ row' = After(row, t)
    BY <1>2 DEF Commit, Become, After, TypeOK
  <2>2. /\ InFlight(s) /\ session[s] \in Writing
        /\ t \in Txn /\ next \in Txn
    BY InFlightType DEF Commit, InFlight
  <2>3. Ready(t, next)
    BY <2>2 DEF SerialInv
  <2>4. /\ Grows
        /\ \A d \in Dispute : Exists(d) => ~Opens(t, d)
    BY <1>2, CommitGrows
  <2>5. PICK m : m = next
    OBVIOUS
  <2>6. /\ m \in Txn
        /\ m.rows \in [Contract -> RowWrite]
        /\ m.users = NoTxn.users /\ m.disputes = NoTxn.disputes
        /\ m.opened = NoTxn.opened
    <3>1. next = [NoTxn EXCEPT !.rows = next.rows]
      BY <2>3 DEF Ready
    <3> HIDE DEF next
    <3> QED BY <2>2, <2>5, <3>1 DEF NoTxn, Txn
  <2>7. row' \in [Contract -> Row] /\ row \in [Contract -> Row]
    BY <2>1, <2>2, AfterType DEF TypeOK
  <2>8. Ready(m, NoTxn)'
    <3>1. Moves(row', After(row', m))
      BY <2>1, <2>3, <2>5 DEF Ready
    <3>2. /\ After(row', NoTxn) = row'
          /\ After(After(row', m), NoTxn) = After(row', m)
      <4>1. NoTxn.rows = [c \in Contract |-> NoRowWrite]
        BY DEF NoTxn
      <4> QED BY <2>6, <2>7, <4>1, AfterType, AfterNothing
    <3>3. ASSUME NEW c \in Contract PROVE LogsRight(m, c, row[c].status)'
      <4>1. LogsRight(m, c, row'[c].status)
        BY <2>1, <2>3, <2>5 DEF Ready
      <4>2. \A d \in Dispute : Decides(m, d, c) => Decides(m, d, c)'
        BY <2>4 DEF Decides, Grows, Stays
      <4> QED BY <4>1, <4>2 DEF LogsRight, Opens
    <3>4. CountsRight(m)'
      <4>1. ASSUME NEW u \in Party
            PROVE  m.users[u].noShows <= Cardinality(Suffered(m, u)')
        <5>1. m.users[u].noShows = -1
          BY <2>6 DEF NoTxn, NoUserWrite, Unset
        <5>2. Suffered(m, u)' \subseteq Dispute
          BY DEF Suffered
        <5>3. Cardinality(Suffered(m, u)') \in Nat
          BY <5>2, DbAssumption, FS_Subset, FS_CardinalityType
        <5> QED BY <5>1, <5>3
      <4>2. \A d \in Dispute : m.disputes[d].status = Keep
        BY <2>6 DEF NoTxn, NoDisputeWrite
      <4> QED BY <4>1, <4>2 DEF CountsRight
    <3>5. ASSUME NEW c \in Contract
          PROVE  LogsRight(NoTxn, c, After(row, m)[c].status)'
      BY DEF LogsRight, NoTxn, NoRowWrite
    <3>6. Moves(After(row', m), After(row', m))
      BY NothingMoves
    <3>7. NoTxn = [NoTxn EXCEPT !.rows = NoTxn.rows]
      BY DEF NoTxn
    <3> QED BY <3>1, <3>2, <3>3, <3>4, <3>5, <3>6, <3>7 DEF Ready
  <2>9. \/ session'[s] = Idle
        \/ /\ session'[s].stage = "writing"
           /\ session'[s].now = m /\ session'[s].next = NoTxn
    BY <2>1, <2>2, <2>5 DEF Writing
  <2>10. /\ InFlight(s)' => Ready(session[s].now, session[s].next)'
         /\ session'[s].stage # "resolving"
    <3>1. CASE session'[s] = Idle
      BY <3>1 DEF InFlight, Idle
    <3>2. CASE /\ session'[s].stage = "writing"
               /\ session'[s].now = m /\ session'[s].next = NoTxn
      BY <2>8, <3>2, ReadyThen
    <3> QED BY <2>9, <3>1, <3>2
  <2>11. \A r \in Session : r = s
    BY DEF OneRequest
  <2> QED BY <1>2, <2>10, <2>11, CommitLogs, CommitCounts DEF SerialInv
<1> QED BY <1>1, <1>2 DEF Commit

-----------------------------------------------------------------------------
(* The rest of the steps.                                                  *)

(* A clock, a message, a dropped request change no contract, no user and   *)
(* nothing of a dispute but its age.                                       *)
LEMMA EnvironmentCases ==
  ASSUME TypeOK,
         \/ Time
         \/ \E c \in Contract : SendMessage(c)
         \/ \E s \in Session : Drop(s)
         \/ UNCHANGED vars
  PROVE  row' = row /\ users' = users /\ SameCases
<1>1. row' = row /\ users' = users
  BY DEF Time, ClassPasses, ConfirmationAges, ObjectionDeadlinePasses,
         SendMessage, Drop, vars
<1>2. CASE \E d \in Dispute : ObjectionDeadlinePasses(d)
  <2>1. PICK d \in Dispute : ObjectionDeadlinePasses(d)
    BY <1>2
  <2>2. /\ disputes[d] \in DisputeRow /\ Exists(d)
        /\ disputes' = [disputes EXCEPT ![d] = [disputes[d] EXCEPT !.late = TRUE]]
    BY <2>1 DEF ObjectionDeadlinePasses, TypeOK, Exists
  <2>3. /\ disputes'[d].contract = disputes[d].contract
        /\ disputes'[d].kind = disputes[d].kind
        /\ disputes'[d].against = disputes[d].against
        /\ disputes'[d].status = disputes[d].status
        /\ disputes'[d].resolution = disputes[d].resolution
    BY <2>2 DEF TypeOK, DisputeRow
  <2>4. disputes'[d] # NoDispute
    <3>1. disputes'[d].status \in DisputeStatus
      BY <2>2, <2>3 DEF DisputeRow
    <3> QED BY <3>1 DEF NoDispute, DisputeStatus
  <2>5. \A e \in Dispute : e # d => disputes'[e] = disputes[e]
    BY <2>2 DEF TypeOK
  <2> QED BY <1>1, <2>2, <2>3, <2>4, <2>5 DEF SameCases, Exists
<1>3. CASE disputes' = disputes
  BY <1>1, <1>3, SameDisputes
<1> QED BY <1>2, <1>3 DEF Time, ClassPasses, ConfirmationAges, SendMessage,
                          Drop, vars

LEMMA EnvironmentSerial ==
  ASSUME OneRequest, TypeOK, SerialInv,
         \/ Time
         \/ \E c \in Contract : SendMessage(c)
         \/ \E s \in Session : Drop(s)
         \/ UNCHANGED vars
  PROVE  SerialInv'
<1>1. row' = row /\ users' = users /\ SameCases
  BY EnvironmentCases
<1>2. CASE Session = {}
  BY <1>1, <1>2, TablesStay DEF SerialInv
<1>3. CASE Session # {}
  <2>1. PICK s \in Session : TRUE
    BY <1>3
  <2>2. session' = session \/ session' = [session EXCEPT ![s] = Idle]
    BY DEF Time, ClassPasses, ConfirmationAges, ObjectionDeadlinePasses,
           SendMessage, Drop, Become, vars, OneRequest
  <2>3. Idle.stage # "writing" /\ Idle.stage # "resolving"
    BY DEF Idle
  <2> QED BY <1>1, <2>2, <2>3, QuietSerial
<1> QED BY <1>2, <1>3

(* Nothing has happened yet.                                               *)
LEMMA InitSerial == Init => SerialInv
<1> SUFFICES ASSUME Init PROVE SerialInv
  OBVIOUS
<1>1. TransitionsLogged
  BY DEF Init, TransitionsLogged
<1>2. OnePenaltyPerDispute
  <2> SUFFICES ASSUME NEW u \in Party
               PROVE  users[u].noShows <= Cardinality({d \in Dispute :
                        /\ disputes[d] # NoDispute
                        /\ disputes[d].kind = "no_show"
                        /\ disputes[d].against = u
                        /\ disputes[d].status = "resolved"})
    BY DEF OnePenaltyPerDispute
  <2>1. users[u].noShows = 0
    BY DEF Init
  <2>2. {d \in Dispute : /\ disputes[d] # NoDispute
                         /\ disputes[d].kind = "no_show"
                         /\ disputes[d].against = u
                         /\ disputes[d].status = "resolved"} \subseteq Dispute
    OBVIOUS
  <2> QED BY <2>1, <2>2, DbAssumption, FS_Subset, FS_CardinalityType
<1> QED BY <1>1, <1>2 DEF Init, SerialInv, InFlight, Idle

(* Every step of the only request keeps SerialInv.                         *)
LEMMA NextSerial ==
  ASSUME OneRequest, TypeOK, AccountInv, SerialInv, [Next]_vars
  PROVE  SerialInv'
<1>1. ASSUME NEW s \in Session, PartyRequest(s) PROVE SerialInv'
  BY <1>1, SignSerial, ConfirmSerial, CancelSerial, RejectSerial,
     ReportNoShowSerial DEF PartyRequest
<1>2. ASSUME NEW s \in Session, Maintenance(s) PROVE SerialInv'
  <2>1. CASE AutoComplete(s)
    BY <2>1, AutoCompleteSerial
  <2>2. CASE AutoResolve(s)
    <3> DEFINE ds == {d \in Dispute : /\ disputes[d] # NoDispute
                                      /\ disputes[d].status = "open"
                                      /\ disputes[d].late}
    <3>1. Resolve(s, "auto_resolve", ds, "reporter_wins")
      BY <2>2 DEF AutoResolve
    <3>2. ds \in SUBSET Dispute /\ \A d \in ds : Undecided(d)
      BY DEF Undecided
    <3> HIDE DEF ds
    <3> QED BY <3>1, <3>2, ResolveSerial
  <2>3. ASSUME NEW d \in Dispute, ObjectToDispute(s, d) PROVE SerialInv'
    BY <2>3, ObjectSerial
  <2>4. ASSUME NEW d \in Dispute, NEW res \in Resolution,
               ResolveManually(s, d, res)
        PROVE  SerialInv'
    BY <2>4, ResolveSerial DEF ResolveManually
  <2> QED BY <1>2, <2>1, <2>2, <2>3, <2>4 DEF Maintenance
<1> QED BY <1>1, <1>2, DeleteAccountSerial, FinishResolvingSerial,
           CommitSerial, EnvironmentSerial DEF Next

(* One request at a time, SerialInv holds in every behaviour.              *)
LEMMA SerialInvariant == OneRequest => (Spec => []SerialInv)
<1> SUFFICES ASSUME OneRequest PROVE Spec => []SerialInv
  OBVIOUS
<1>1. TypeOK /\ AccountInv /\ SerialInv /\ [Next]_vars => SerialInv'
  BY NextSerial
<1> QED BY <1>1, InitSerial, TypeCorrect, AccountInvariant, PTL DEF Spec

(* The event log tells the status of every contract at every moment, but   *)
(* for the deletion of an account, the decision of a dispute and the       *)
(* moment between the two commits of a rejection.                          *)
THEOREM LogTellsStatus == OneRequest => (Spec => []TransitionsLogged)
<1> SUFFICES ASSUME OneRequest PROVE Spec => []TransitionsLogged
  OBVIOUS
<1>1. SerialInv => TransitionsLogged
  BY DEF SerialInv
<1> QED BY <1>1, SerialInvariant, PTL

(* A party has at most as many no-shows as no-show disputes against it     *)
(* were resolved, however resolutions, sweeps and lost requests follow.    *)
THEOREM PenaltiesAreEarned == OneRequest => (Spec => []OnePenaltyPerDispute)
<1> SUFFICES ASSUME OneRequest PROVE Spec => []OnePenaltyPerDispute
  OBVIOUS
<1>1. SerialInv => OnePenaltyPerDispute
  BY DEF SerialInv
<1> QED BY <1>1, SerialInvariant, PTL

-----------------------------------------------------------------------------
(* The tables implement the contract lifecycle.                            *)

(* The two modules speak of the same states and transitions.               *)
LEMMA SameVocabulary ==
  /\ Lifecycle!Party = Party
  /\ Lifecycle!Status = Status
  /\ Lifecycle!Active = Active
  /\ Lifecycle!ValidTransitions = ValidTransitions
BY DEF Lifecycle!Party, Party, Lifecycle!Status, Status, Lifecycle!Active,
       Active, Lifecycle!ValidTransitions, ValidTransitions

(* What Moves allows the rows is a step of the lifecycle, or none.         *)
LEMMA MovesAreSteps ==
  ASSUME TypeOK, TypeOK', Moves(row, row')
  PROVE  [Lifecycle!Next]_(Lifecycle!lifecycleVars)
<1> DEFINE status == [c \in Contract |-> row[c].status]
           signed == [c \in Contract |-> row[c].signed]
           confirmed == [c \in Contract |-> row[c].confirmed]
<1>1. ASSUME NEW c \in Contract,
             \A k \in Contract \ {c} : SameParties(row[k], row'[k])
                                       /\ row'[k].status = row[k].status,
             Signs(row[c], row'[c])
      PROVE  Lifecycle!Next
  <2>1. PICK p \in Party :
          /\ row[c].status = "CONFIRMED"
          /\ row'[c].signed = row[c].signed \cup {p}
          /\ row'[c].confirmed = row[c].confirmed
          /\ row'[c].status = IF row'[c].signed = Party THEN "IN_PROGRESS"
                              ELSE row[c].status
    BY <1>1 DEF Signs
  <2>2. /\ signed' = [signed EXCEPT ![c] = @ \cup {p}]
        /\ confirmed' = confirmed
        /\ status' = [status EXCEPT ![c] = row'[c].status]
        /\ status[c] = "CONFIRMED" /\ signed'[c] = row'[c].signed
    BY <1>1, <2>1 DEF SameParties
  <2>3. IF signed'[c] = Party THEN status' = [status EXCEPT ![c] = "IN_PROGRESS"]
        ELSE status' = status
    BY <1>1, <2>1, <2>2
  <2>4. Lifecycle!Sign(c, p)
    BY <2>2, <2>3, SameVocabulary DEF Lifecycle!Sign, Lifecycle!Move
  <2> QED BY <2>4, SameVocabulary DEF Lifecycle!Next
<1>2. ASSUME NEW c \in Contract,
             \A k \in Contract \ {c} : SameParties(row[k], row'[k])
                                       /\ row'[k].status = row[k].status,
             Confirms(row[c], row'[c])
      PROVE  Lifecycle!Next
  <2>1. PICK p \in Party \ row[c].confirmed :
          /\ row[c].status \in {"IN_PROGRESS", "PENDING_COMPLETION"}
          /\ row'[c].confirmed = row[c].confirmed \cup {p}
          /\ row'[c].signed = row[c].signed
          /\ row'[c].status = IF row'[c].confirmed = Party THEN "COMPLETED"
                              ELSE "PENDING_COMPLETION"
    BY <1>2 DEF Confirms
  <2>2. /\ confirmed' = [confirmed EXCEPT ![c] = @ \cup {p}]
        /\ signed' = signed
        /\ status' = [status EXCEPT ![c] = row'[c].status]
        /\ status[c] \in {"IN_PROGRESS", "PENDING_COMPLETION"}
        /\ confirmed'[c] = row'[c].confirmed /\ p \notin confirmed[c]
    BY <1>2, <2>1 DEF SameParties
  <2>3. Lifecycle!Confirm(c, p)
    BY <2>1, <2>2, SameVocabulary DEF Lifecycle!Confirm, Lifecycle!Move
  <2> QED BY <2>1, <2>3, SameVocabulary DEF Lifecycle!Next
<1>3. ASSUME NEW c \in Contract,
             \A k \in Contract \ {c} : SameParties(row[k], row'[k])
                                       /\ row'[k].status = row[k].status,
             Leaves(row[c], row'[c])
      PROVE  Lifecycle!Next
  <2>1. /\ confirmed' = confirmed /\ signed' = signed
        /\ status' = [status EXCEPT ![c] = row'[c].status]
        /\ status[c] = row[c].status
    BY <1>3 DEF SameParties, Leaves
  <2>2. Lifecycle!Leave(c, row'[c].status)
    BY <1>3, <2>1, SameVocabulary DEF Leaves, Lifecycle!Leave, Lifecycle!Move
  <2>3. row'[c].status \in Status
    BY DEF TypeOK, Row
  <2> QED BY <2>2, <2>3, SameVocabulary DEF Lifecycle!Next
<1>4. CASE \A c \in Contract : TimesOut(row[c], row'[c])
  <2>0. PICK cs \in SUBSET Contract :
               cs = {c \in Contract : row'[c].status # row[c].status}
    OBVIOUS
  <2>1. /\ \A c \in cs : status[c] \in {"IN_PROGRESS", "PENDING_COMPLETION"}
        /\ status' = [c \in Contract |-> IF c \in cs THEN "COMPLETED"
                                         ELSE status[c]]
        /\ signed' = signed /\ confirmed' = confirmed
    BY <1>4, <2>0 DEF TimesOut, SameParties
  <2>2. Lifecycle!TimeOut(cs)
    BY <2>1 DEF Lifecycle!TimeOut
  <2> QED BY <2>2 DEF Lifecycle!Next
<1>5. CASE \A c \in Contract : Cascades(row[c], row'[c])
  <2>1. /\ status' = [c \in Contract |-> IF status[c] \in Active THEN "CANCELLED"
                                         ELSE status[c]]
        /\ signed' = signed /\ confirmed' = confirmed
    BY <1>5 DEF Cascades, SameParties
  <2>2. Lifecycle!DeleteAccount
    BY <2>1, SameVocabulary DEF Lifecycle!DeleteAccount
  <2> QED BY <2>2 DEF Lifecycle!Next
<1> QED BY <1>1, <1>2, <1>3, <1>4, <1>5 DEF Moves

(* Every step of the tables is a step of the lifecycle, or none.           *)
LEMMA StepsRefine ==
  ASSUME TypeOK, TypeOK', SerialInv, [Next]_vars
  PROVE  [Lifecycle!Next]_(Lifecycle!lifecycleVars)
<1>1. CASE row' = row
  BY <1>1 DEF Lifecycle!lifecycleVars
<1>2. ASSUME NEW s \in Session, Commit(s)
      PROVE  [Lifecycle!Next]_(Lifecycle!lifecycleVars)
  <2>1. CASE Fail(s, session[s].op)
    BY <1>1, <2>1 DEF Fail
  <2>2. CASE row' = After(row, session[s].now)
    <3>1. Moves(row, row')
      BY <1>2, <2>2 DEF SerialInv, Ready, InFlight, Commit
    <3> QED BY <3>1, MovesAreSteps
  <2> QED BY <1>2, <2>1, <2>2 DEF Commit, After
<1> QED BY <1>1, <1>2, OnlyCommitWrites

(* One request at a time, what the two parties of a contract see of it are *)
(* the steps of the contract lifecycle.                                    *)
THEOREM TablesImplementLifecycle == OneRequest => (Spec => LifecycleSpec)
<1> SUFFICES ASSUME OneRequest PROVE Spec => LifecycleSpec
  OBVIOUS
<1>1. Init => Lifecycle!Init
  BY DEF Init, Lifecycle!Init
<1>2. TypeOK /\ TypeOK' /\ SerialInv /\ [Next]_vars
        => [Lifecycle!Next]_(Lifecycle!lifecycleVars)
  BY StepsRefine
<1> QED BY <1>1, <1>2, TypeCorrect, SerialInvariant, PTL
        DEF Spec, LifecycleSpec, Lifecycle!Spec
=============================================================================
