------------------------------- MODULE Access -------------------------------
(***************************************************************************)
(* Accounts and the tokens that give access to them: endpoints/auth.py,    *)
(* services/auth.py, core/security.py, core/deps.py and the part of        *)
(* services/account_deletion.py that is about the account itself.          *)
(*                                                                         *)
(* A token is a signed statement: nobody stores it, it is good until it    *)
(* expires unless it is on the blacklist.  The blacklist is in Redis or,   *)
(* while Redis does not answer, in the memory of one worker process.       *)
(***************************************************************************)
EXTENDS Integers, FiniteSets

CONSTANTS
  Account,        \* ids of users; numbers, in the order of their UUIDs
  Address,        \* e-mail addresses
  Session,        \* requests in progress, each in a worker of its own
  Nonce,          \* the jti a password reset token may get
  AccessLife,     \* 30 minutes
  RefreshLife,    \* 7 days
  ResetLife,      \* 60 minutes
  BlacklistLife,  \* 604800 seconds
  UsedResetLife,  \* 3600 seconds
  Grace,          \* 30 days
  LastTick,       \* the end of the run
  Suspended,      \* the users whose accounts are suspended
  Faults,         \* "redis": Redis may be away; "killed": a worker dies
  Wired           \* "deletions": something calls process_expired_deletions

ASSUME AccessAssumption ==
  /\ Account \subseteq Nat
  /\ {AccessLife, RefreshLife, ResetLife, BlacklistLife, UsedResetLife,
      Grace, LastTick} \subseteq Nat
  /\ AccessLife <= BlacklistLife
  /\ RefreshLife <= BlacklistLife
  /\ ResetLife <= UsedResetLife
  /\ ResetLife < Grace
  /\ Faults \subseteq {"redis", "killed"}
  /\ Wired \subseteq {"deletions"}

VARIABLES
  account,    \* table users
  issued,     \* the tokens that were handed out
  blacklist,  \* Redis: blacklist:<token> and when the key expires
  memory,     \* _token_blacklist of each worker
  redisUp,
  now,        \* the clock
  session     \* what each request has checked and still has to do

vars == <<account, issued, blacklist, memory, redisUp, now, session>>

-----------------------------------------------------------------------------
(* Rows and tokens.                                                        *)

(* hashes: how often _anonymize_user has hashed the address.  usable: the  *)
(* password hash is one that a password can match, and not "DELETED".      *)
AccountRow == [email : [address : Address, hashes : Nat], active : BOOLEAN,
               deletion : Nat, usable : BOOLEAN]
NoAccount == [email |-> "none"]
NoDeletion == 0
Exists(a) == account[a] # NoAccount
Active(a) == Exists(a) /\ account[a].active

(* Tokens of one kind minted for a user in the same second are the same.   *)
NoNonce == "none"
AccessToken == [kind : {"access"}, user : Account, minted : Nat, jti : {NoNonce}]
RefreshToken == [kind : {"refresh"}, user : Account, minted : Nat, jti : {NoNonce}]
ResetToken == [kind : {"reset"}, user : Account, minted : Nat, jti : Nonce]
Token == AccessToken \cup RefreshToken \cup ResetToken

Life(t) == CASE t.kind = "access" -> AccessLife
             [] t.kind = "refresh" -> RefreshLife
             [] t.kind = "reset" -> ResetLife
Expiry(t) == t.minted + Life(t)
Expired(t) == now > Expiry(t)

Minted(a) == {[kind |-> "access", user |-> a, minted |-> now, jti |-> NoNonce],
              [kind |-> "refresh", user |-> a, minted |-> now, jti |-> NoNonce]}

Idle == [at |-> "idle"]
Plan == [at : {"signup"}, user : Account, address : Address]
  \cup [at : {"authenticate"}, token : AccessToken]
  \cup [at : {"rotate"}, token : RefreshToken]
  \cup [at : {"delete"}, token : AccessToken]
  \cup [at : {"reset"}, token : ResetToken]
  \cup [at : {"revoke"}, token : Token]

At(s, where) == session[s].at = where
Become(s, plan) == session' = [session EXCEPT ![s] = plan]
Begin(s, plan) ==
  /\ At(s, "idle")
  /\ Become(s, plan)
  /\ UNCHANGED <<account, issued, blacklist, memory, redisUp, now>>

-----------------------------------------------------------------------------
(* The blacklist.                                                          *)

Entry == [token : Token, until : Nat]

(* Redis drops a key when its time is over, a worker keeps it that second. *)
Blacklisted(s, t) ==
  IF redisUp THEN \E e \in blacklist : e.token = t /\ now < e.until
             ELSE \E e \in memory[s] : e.token = t /\ now <= e.until

(* Variant for the mutation checks: the entry lives as long as access.     *)
LifeOfAccess(t) == now + AccessLife

ListedUntil(t) ==
  now + (IF t.kind = "reset" THEN UsedResetLife ELSE BlacklistLife)
Listed(list, t) ==
  {e \in list : e.token # t} \cup {[token |-> t, until |-> ListedUntil(t)]}

BlacklistToken(s, t) ==
  IF redisUp
    THEN blacklist' = Listed(blacklist, t) /\ UNCHANGED memory
    ELSE memory' = [memory EXCEPT ![s] = Listed(@, t)] /\ UNCHANGED blacklist

(* What every request with a token checks before it asks the database.     *)
Accepted(s, t) == t \in issued /\ ~Expired(t) /\ ~Blacklisted(s, t)

Revoke(s) ==
  /\ At(s, "revoke")
  /\ BlacklistToken(s, session[s].token)
  /\ Become(s, Idle)
  /\ UNCHANGED <<account, issued, redisUp, now>>

-----------------------------------------------------------------------------
(* Signing up and in.                                                      *)

EmailsOf(accounts) == {account[a].email : a \in {b \in accounts : Exists(b)}}

(* create_user looks for the address, the unique column has the last word. *)
Signup(s, a, e) ==
  /\ ~Exists(a)
  /\ \A r \in Session : At(r, "signup") => session[r].user # a
  /\ [address |-> e, hashes |-> 0] \notin EmailsOf(Account)
  /\ Begin(s, [at |-> "signup", user |-> a, address |-> e])

(* Variant for the mutation checks: a table without the constraint.        *)
CommitSignupAnyway(s) ==
  /\ At(s, "signup")
  /\ Become(s, Idle)
  /\ LET a == session[s].user IN
       /\ account' = [account EXCEPT ![a] =
            [email |-> [address |-> session[s].address, hashes |-> 0],
             active |-> TRUE, deletion |-> NoDeletion, usable |-> TRUE]]
       /\ issued' = issued \cup Minted(a)
  /\ UNCHANGED <<blacklist, memory, redisUp, now>>

CommitSignup(s) ==
  /\ At(s, "signup")
  /\ Become(s, Idle)
  /\ LET a == session[s].user
         email == [address |-> session[s].address, hashes |-> 0]
     IN IF email \in EmailsOf(Account)
          THEN UNCHANGED <<account, issued>>
          ELSE /\ account' = [account EXCEPT ![a] =
                    [email |-> email, active |-> TRUE,
                     deletion |-> NoDeletion, usable |-> TRUE]]
               /\ issued' = issued \cup Minted(a)
  /\ UNCHANGED <<blacklist, memory, redisUp, now>>

(* Only here is a suspended account refused.                               *)
Login(s, a) ==
  /\ At(s, "idle")
  /\ Active(a)
  /\ account[a].usable
  /\ a \notin Suspended
  /\ issued' = issued \cup Minted(a)
  /\ UNCHANGED <<account, blacklist, memory, redisUp, now, session>>

(* /refresh: between the look at the blacklist and the new tokens there is *)
(* a query; another request may rotate the same token meanwhile.           *)
Refresh(s, t) ==
  /\ t \in RefreshToken
  /\ Accepted(s, t)
  /\ Begin(s, [at |-> "rotate", token |-> t])

Rotate(s) ==
  /\ At(s, "rotate")
  /\ LET t == session[s].token IN
     IF Active(t.user)
       THEN issued' = issued \cup Minted(t.user) /\ BlacklistToken(s, t)
       ELSE UNCHANGED <<issued, blacklist, memory>>
  /\ Become(s, Idle)
  /\ UNCHANGED <<account, redisUp, now>>

-----------------------------------------------------------------------------
(* Requests of a user who is signed in.                                    *)

(* The first half of get_current_user.                                     *)
Present(s, t) ==
  /\ t \in AccessToken
  /\ Accepted(s, t)
  /\ Begin(s, [at |-> "authenticate", token |-> t])

(* The second half: inactive users go no further.                          *)
CurrentUser(s) == session[s].token.user
Authenticated(s) == At(s, "authenticate") /\ Active(CurrentUser(s))

Forbidden(s) ==
  /\ At(s, "authenticate")
  /\ ~Authenticated(s)
  /\ Become(s, Idle)
  /\ UNCHANGED <<account, issued, blacklist, memory, redisUp, now>>

Logout(s) ==
  /\ Authenticated(s)
  /\ Become(s, [at |-> "revoke", token |-> session[s].token])
  /\ UNCHANGED <<account, issued, blacklist, memory, redisUp, now>>

(* DELETE /users/me.  The row is the one get_current_user has loaded.      *)
RequestDeletion(s) ==
  /\ Authenticated(s)
  /\ account[CurrentUser(s)].usable
  /\ Become(s, [at |-> "delete", token |-> session[s].token])
  /\ UNCHANGED <<account, issued, blacklist, memory, redisUp, now>>

CommitDeletion(s) ==
  /\ At(s, "delete")
  /\ account' = [account EXCEPT ![CurrentUser(s)].active = FALSE,
                                ![CurrentUser(s)].deletion = now + Grace]
  /\ Become(s, [at |-> "revoke", token |-> session[s].token])
  /\ UNCHANGED <<issued, blacklist, memory, redisUp, now>>

(* /users/me/cancel-deletion is for a user who is signed in, and one whose *)
(* deletion is pending is not.                                             *)
CancelDeletion(s) ==
  /\ Authenticated(s)
  /\ LET a == CurrentUser(s) IN
     account' = IF account[a].active \/ account[a].deletion < now
                  THEN account
                  ELSE [account EXCEPT ![a].active = TRUE,
                                       ![a].deletion = NoDeletion]
  /\ Become(s, Idle)
  /\ UNCHANGED <<issued, blacklist, memory, redisUp, now>>

-----------------------------------------------------------------------------
(* A forgotten password.                                                   *)

(* Variant for the mutation checks: mail for accounts being deleted.       *)
ForgotWhoeverAsks(s, a, nonce) ==
  /\ At(s, "idle")
  /\ Exists(a)
  /\ \A t \in issued : t.jti # nonce
  /\ issued' = issued \cup {[kind |-> "reset", user |-> a, minted |-> now,
                             jti |-> nonce]}
  /\ UNCHANGED <<account, blacklist, memory, redisUp, now, session>>

(* Variant for the mutation checks: a reset token without a jti, the same  *)
(* for two mails of one second.                                            *)
ForgotWithoutNonce(s, a, nonce) ==
  /\ At(s, "idle")
  /\ Active(a)
  /\ issued' = issued \cup {[kind |-> "reset", user |-> a, minted |-> now,
                             jti |-> NoNonce]}
  /\ UNCHANGED <<account, blacklist, memory, redisUp, now, session>>

ForgotPassword(s, a, nonce) ==
  /\ At(s, "idle")
  /\ Active(a)
  /\ \A t \in issued : t.jti # nonce
  /\ issued' = issued \cup {[kind |-> "reset", user |-> a, minted |-> now,
                             jti |-> nonce]}
  /\ UNCHANGED <<account, blacklist, memory, redisUp, now, session>>

ResetPassword(s, t) ==
  /\ t \in ResetToken
  /\ Accepted(s, t)
  /\ Begin(s, [at |-> "reset", token |-> t])

(* Nobody asks whether the account is active, and no other token of the    *)
(* user is revoked.                                                        *)
CommitReset(s) ==
  /\ At(s, "reset")
  /\ account' = [account EXCEPT ![CurrentUser(s)].usable = TRUE]
  /\ Become(s, [at |-> "revoke", token |-> session[s].token])
  /\ UNCHANGED <<issued, blacklist, memory, redisUp, now>>

-----------------------------------------------------------------------------
(* process_expired_deletions anonymises every account whose grace period   *)
(* is over, those it has anonymised before as well, in one transaction:    *)
(* one address that is taken already rolls all of it back.                 *)

Due == {a \in Account : /\ Exists(a)
                        /\ ~account[a].active
                        /\ account[a].deletion # NoDeletion
                        /\ account[a].deletion <= now}
Anonymous(row) ==
  [row EXCEPT !.email.hashes = @ + 1, !.usable = FALSE]

(* Rows are updated in the order of their ids.                             *)
Clash == \E a \in Due, b \in Account \ {c \in Account : ~Exists(c)} :
  /\ a # b
  /\ Anonymous(account[a]).email =
       IF b \in Due /\ b < a THEN Anonymous(account[b]).email
                             ELSE account[b].email

ProcessExpiredDeletions ==
  /\ "deletions" \in Wired
  /\ Due # {}
  /\ ~Clash
  /\ account' = [a \in Account |->
                   IF a \in Due THEN Anonymous(account[a]) ELSE account[a]]
  /\ UNCHANGED <<issued, blacklist, memory, redisUp, now, session>>

-----------------------------------------------------------------------------
(* Faults, and time, which passes between requests.                        *)

RedisFails == /\ "redis" \in Faults
              /\ redisUp' = ~redisUp
              /\ UNCHANGED <<account, issued, blacklist, memory, now, session>>

Killed(s) ==
  /\ "killed" \in Faults
  /\ session[s] # Idle \/ memory[s] # {}
  /\ memory' = [memory EXCEPT ![s] = {}]
  /\ Become(s, Idle)
  /\ UNCHANGED <<account, issued, blacklist, redisUp, now>>

(* An expired token is no use to anybody, and Redis forgets a key whose    *)
(* time is over, so neither is kept.                                       *)
Tick ==
  /\ now < LastTick
  /\ \A s \in Session : At(s, "idle")
  /\ now' = now + 1
  /\ issued' = {t \in issued : now' <= Expiry(t)}
  /\ blacklist' = {e \in blacklist : now' < e.until}
  /\ memory' = [s \in Session |-> {e \in memory[s] : now' <= e.until}]
  /\ UNCHANGED <<account, redisUp, session>>

Init ==
  /\ account = [a \in Account |-> NoAccount]
  /\ issued = {}
  /\ blacklist = {}
  /\ memory = [s \in Session |-> {}]
  /\ redisUp = TRUE
  /\ now = 1
  /\ session = [s \in Session |-> Idle]

Next ==
  \/ \E s \in Session, a \in Account :
       \/ \E e \in Address : Signup(s, a, e)
       \/ Login(s, a)
       \/ \E nonce \in Nonce : ForgotPassword(s, a, nonce)
  \/ \E s \in Session, t \in issued :
       Refresh(s, t) \/ Present(s, t) \/ ResetPassword(s, t)
  \/ \E s \in Session :
       \/ CommitSignup(s) \/ Rotate(s) \/ Forbidden(s) \/ Logout(s)
       \/ RequestDeletion(s) \/ CommitDeletion(s) \/ CancelDeletion(s)
       \/ CommitReset(s) \/ Revoke(s) \/ Killed(s)
  \/ ProcessExpiredDeletions
  \/ RedisFails
  \/ Tick

Spec == Init /\ [][Next]_vars

-----------------------------------------------------------------------------
TypeOK ==
  /\ account \in [Account -> AccountRow \cup {NoAccount}]
  /\ issued \in SUBSET Token
  /\ blacklist \in SUBSET Entry
  /\ memory \in [Session -> SUBSET Entry]
  /\ redisUp \in BOOLEAN
  /\ now \in Nat
  /\ session \in [Session -> Plan \cup {Idle}]

(* No entry ends before its token: blacklist_token writes a fixed time to  *)
(* live, the tokens have lives of their own.                               *)
EntriesOutliveTokens ==
  \A e \in blacklist \cup UNION {memory[s] : s \in Session} :
    Expiry(e.token) <= e.until

(* A token Redis has on its blacklist stays there until the second in      *)
(* which it expires: no second revocation, no other request, no passing of *)
(* time and no absence of Redis takes it off, so that every worker refuses *)
(* it whenever Redis answers.  It says nothing of the memory of a worker,  *)
(* which is used while Redis does not answer and seen by no other worker.  *)
Revoked(t) == \E e \in blacklist : e.token = t /\ now < e.until
RevokedStaysRefused ==
  [][\A t \in issued : Revoked(t) /\ now' < Expiry(t) => Revoked(t)']_vars

(* An anonymised account gets no password again: a reset token is only     *)
(* given to active users and dies before their grace period ends.          *)
AnonymisedStays ==
  [][\A a \in Account : Exists(a) /\ ~account[a].usable =>
       ~account'[a].usable]_vars

(* No two accounts have the same e-mail, whoever signs up at the same time *)
(* and however often addresses are hashed and taken again.                 *)
OneAccountPerEmail ==
  \A a, b \in Account :
    Exists(a) /\ Exists(b) /\ account[a].email = account[b].email => a = b

(***************************************************************************)
(* What makes them inductive.                                              *)
(***************************************************************************)

(* A token was minted for an account that exists; one that resets the      *)
(* password of an account whose deletion is pending, before the deletion   *)
(* was asked for.                                                          *)
ResetInTime(t) ==
  ~account[t.user].active => t.minted + Grace <= account[t.user].deletion
TokenFounded(t) == /\ Exists(t.user)
                   /\ t.minted <= now
                   /\ t.kind = "reset" => ResetInTime(t)
TokensFounded == \A t \in issued : TokenFounded(t)

(* Accounts without a password that can match were anonymised.             *)
AnonymisedWasDue ==
  \A a \in Account : Exists(a) /\ ~account[a].usable =>
    ~account[a].active /\ account[a].deletion <= now

(* A request that signs up does it for a user that does not exist yet; one *)
(* that resets a password is in time; one that deletes an account finds it *)
(* not anonymised.                                                         *)
Holding == {"authenticate", "rotate", "delete", "reset", "revoke"}
Founded(p) ==
  /\ p.at = "signup" => ~Exists(p.user)
  /\ p.at \in Holding => TokenFounded(p.token)
  /\ p.at = "reset" => ~Expired(p.token)
  /\ p.at = "delete" =>
       LET row == account[p.token.user] IN
       row.usable /\ (row.active \/ row.deletion > now)
PlansFounded == \A s \in Session : Founded(session[s])

SignupsApart ==
  \A s, r \in Session :
    At(s, "signup") /\ At(r, "signup") /\ session[s].user = session[r].user
      => s = r

AccessInv ==
  /\ TypeOK
  /\ EntriesOutliveTokens
  /\ OneAccountPerEmail
  /\ TokensFounded
  /\ AnonymisedWasDue
  /\ PlansFounded
  /\ SignupsApart
=============================================================================
