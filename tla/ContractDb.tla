----------------------------- MODULE ContractDb -----------------------------
(***************************************************************************)
(* The tables behind contracts and the way a request touches them.         *)
(*                                                                         *)
(* Each request has its own SQLAlchemy session over PostgreSQL at READ     *)
(* COMMITTED.  The session keeps the rows it has loaded (identity map, no  *)
(* expiry on commit), takes no row lock and no version column, and a       *)
(* commit writes only the columns the request changed, WHERE id = ....     *)
(* So every value a request writes is a function of the rows as it read    *)
(* them, and other requests may commit between its read and its commit.    *)
(* Hence the shape of the model: an operation of a service reads the       *)
(* tables, evaluates its guards and leaves in its session the transactions *)
(* it is going to commit; Commit applies them later, one by one.           *)
(***************************************************************************)
EXTENDS ContractStates, Integers, FiniteSets

CONSTANTS
  Contract,     \* the contracts between one studio and one instructor
  Session,      \* the database sessions that may be open at the same time
  Dispute,      \* the identifiers disputes may get
  ForeignKeys,  \* PostgreSQL checks the foreign keys, the tests' SQLite does not
  Wired         \* the operations without an endpoint that something calls

ASSUME DbAssumption ==
  /\ ForeignKeys \in BOOLEAN
  /\ IsFiniteSet(Dispute)

VARIABLES
  row,       \* table contracts
  disputes,  \* table disputes
  users,     \* table users, the row of each party
  chatted,   \* contracts whose chat thread holds a message
  over,      \* contracts whose class ended more than 48 hours ago
  aged,      \* parties whose confirmation is more than 24 hours old
  session    \* what each open session still has to do

vars == <<row, disputes, users, chatted, over, aged, session>>

-----------------------------------------------------------------------------
(* Rows.  A timestamp column counts as set or not set.  logged is the      *)
(* to_status of the contract's newest event log entry.                     *)

Row == [status : Status, signed : SUBSET Party, hashed : BOOLEAN,
        confirmed : SUBSET Party, reason : BOOLEAN, logged : Status]

NoDispute == [status |-> "none"]

DisputeRow == [status : DisputeStatus, contract : Contract,
               kind : DisputeKind, against : Party,
               resolution : Resolution \cup {"none"}, late : BOOLEAN]

UserRow == [noShows : Nat, suspended : BOOLEAN, active : BOOLEAN]

-----------------------------------------------------------------------------
(* Transactions.  A transaction holds the changed columns of every row;    *)
(* Keep and Unset stand for a column the session leaves alone.             *)

Keep == "keep"
Unset == -1

RowWrite == [status : Status \cup {Keep}, signed : SUBSET Party,
             hashed : BOOLEAN, confirmed : SUBSET Party,
             reason : BOOLEAN, logged : Status \cup {Keep}]

UserWrite == [noShows : Nat \cup {Unset}, suspended : BOOLEAN,
              deactivated : BOOLEAN]

DisputeWrite == [status : DisputeStatus \cup {Keep},
                 resolution : Resolution \cup {"none"}]

Txn == [rows : [Contract -> RowWrite],
        opened : [Dispute -> DisputeRow \cup {NoDispute}],
        disputes : [Dispute -> DisputeWrite],
        users : [Party -> UserWrite],
        dangling : BOOLEAN]   \* a foreign key names a user that is not there

NoRowWrite == [status |-> Keep, signed |-> {}, hashed |-> FALSE,
               confirmed |-> {}, reason |-> FALSE, logged |-> Keep]
NoUserWrite == [noShows |-> Unset, suspended |-> FALSE, deactivated |-> FALSE]
NoDisputeWrite == [status |-> Keep, resolution |-> "none"]

NoTxn == [rows     |-> [c \in Contract |-> NoRowWrite],
          opened   |-> [d \in Dispute |-> NoDispute],
          disputes |-> [d \in Dispute |-> NoDisputeWrite],
          users    |-> [u \in Party |-> NoUserWrite],
          dangling |-> FALSE]

WriteRow(c, w) == [NoTxn EXCEPT !.rows = [@ EXCEPT ![c] = w]]

(* Variants a slip in the schema would give, for the mutation checks: one  *)
(* column for the last signature, and an update of every column.           *)
ApplyRowOneSignature(r, w) ==
  [status    |-> IF w.status = Keep THEN r.status ELSE w.status,
   signed    |-> IF w.signed = {} THEN r.signed ELSE w.signed,
   hashed    |-> r.hashed \/ w.hashed,
   confirmed |-> r.confirmed \cup w.confirmed,
   reason    |-> r.reason \/ w.reason,
   logged    |-> IF w.logged = Keep THEN r.logged ELSE w.logged]
ApplyRowEveryColumn(r, w) == [w EXCEPT !.signed = r.signed \cup w.signed]

(* UPDATE contracts SET the changed columns.                               *)
ApplyRow(r, w) ==
  [status    |-> IF w.status = Keep THEN r.status ELSE w.status,
   signed    |-> r.signed \cup w.signed,
   hashed    |-> r.hashed \/ w.hashed,
   confirmed |-> r.confirmed \cup w.confirmed,
   reason    |-> r.reason \/ w.reason,
   logged    |-> IF w.logged = Keep THEN r.logged ELSE w.logged]

ApplyUser(u, w) ==
  [noShows   |-> IF w.noShows = Unset THEN u.noShows ELSE w.noShows,
   suspended |-> u.suspended \/ w.suspended,
   active    |-> u.active /\ ~w.deactivated]

ApplyDispute(d, new, w) ==
  IF new # NoDispute THEN new
  ELSE IF w.status = Keep \/ d = NoDispute THEN d
  ELSE [d EXCEPT !.status = w.status,
                 !.resolution = IF w.resolution = "none" THEN @
                                ELSE w.resolution]

-----------------------------------------------------------------------------
(* Sessions.                                                               *)

Op == {"sign", "confirm", "reject", "cancel", "no_show", "auto_complete",
       "object", "auto_resolve", "resolve", "delete_account"}

Idle == [stage |-> "idle"]

Writing == [stage : {"writing"}, op : Op, now : Txn, next : Txn]

(* A resolution that has read its disputes and not yet the users.          *)
Resolving == [stage : {"resolving"}, op : {"auto_resolve", "resolve"},
              picked : SUBSET Dispute, resolution : Resolution]

(* A request that ended in an exception no handler expects: HTTP 500.      *)
Failed == [stage : {"failed"}, op : Op]

IsIdle(s) == session[s] = Idle

Become(s, state) == session' = [session EXCEPT ![s] = state]

(* Leave the session two transactions, or one when next is NoTxn.          *)
Submit2(s, op, now, next) ==
  /\ Become(s, [stage |-> "writing", op |-> op, now |-> now, next |-> next])
  /\ UNCHANGED <<row, disputes, users, chatted, over, aged>>

Submit(s, op, txn) == Submit2(s, op, txn, NoTxn)

Fail(s, op) ==
  /\ Become(s, [stage |-> "failed", op |-> op])
  /\ UNCHANGED <<row, disputes, users, chatted, over, aged>>

(* A dispute gets its uuid when it is created: unused, also in flight.     *)
Fresh(d) ==
  /\ disputes[d] = NoDispute
  /\ \A s \in Session : session[s].stage = "writing" =>
       /\ session[s].now.opened[d] = NoDispute
       /\ session[s].next.opened[d] = NoDispute

(* get_current_user: an inactive account is refused.                       *)
Authenticated(u) == users[u].active

-----------------------------------------------------------------------------
(* COMMIT of the session's next transaction.  PostgreSQL refuses one that  *)
(* breaks a foreign key and rolls it back; the request then fails.         *)
Commit(s) ==
  /\ session[s].stage = "writing"
  /\ LET t == session[s].now IN
     IF ForeignKeys /\ t.dangling
       THEN Fail(s, session[s].op)
       ELSE /\ row' = [c \in Contract |-> ApplyRow(row[c], t.rows[c])]
            /\ disputes' = [d \in Dispute |->
                 ApplyDispute(disputes[d], t.opened[d], t.disputes[d])]
            /\ users' = [u \in Party |-> ApplyUser(users[u], t.users[u])]
            /\ Become(s, IF session[s].next = NoTxn THEN Idle
                         ELSE [session[s] EXCEPT !.now = session[s].next,
                                                 !.next = NoTxn])
            /\ UNCHANGED <<chatted, over, aged>>

(* A failed request answers, or the worker dies with the request in        *)
(* flight: what it has not committed is lost.                              *)
Drop(s) ==
  /\ ~IsIdle(s)
  /\ Become(s, Idle)
  /\ UNCHANGED <<row, disputes, users, chatted, over, aged>>

-----------------------------------------------------------------------------
(* Time and chat.                                                          *)

ClassPasses(c) ==
  /\ ~over[c]
  /\ over' = [over EXCEPT ![c] = TRUE]
  /\ UNCHANGED <<row, disputes, users, chatted, aged, session>>

ConfirmationAges(c, p) ==
  /\ p \in row[c].confirmed \ aged[c]
  /\ aged' = [aged EXCEPT ![c] = @ \cup {p}]
  /\ UNCHANGED <<row, disputes, users, chatted, over, session>>

ObjectionDeadlinePasses(d) ==
  /\ disputes[d] # NoDispute
  /\ ~disputes[d].late
  /\ disputes' = [disputes EXCEPT ![d].late = TRUE]
  /\ UNCHANGED <<row, users, chatted, over, aged, session>>

SendMessage(c) ==
  /\ ~chatted[c]
  /\ chatted' = [chatted EXCEPT ![c] = TRUE]
  /\ UNCHANGED <<row, disputes, users, over, aged, session>>
=============================================================================
