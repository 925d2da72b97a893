--------------------------- MODULE Access_proofs ---------------------------
(***************************************************************************)
(* Proofs about accounts and tokens, for any users, addresses, requests    *)
(* and lives of tokens, with Redis away and workers dying, and with        *)
(* deletions processed or not.                                             *)
(***************************************************************************)
EXTENDS Access, TLAPS

-----------------------------------------------------------------------------
(* Rows, tokens and plans.                                                 *)

LEMMA Lives ==
  /\ AccessLife \in Nat /\ RefreshLife \in Nat /\ ResetLife \in Nat
  /\ BlacklistLife \in Nat /\ UsedResetLife \in Nat
  /\ Grace \in Nat /\ LastTick \in Nat
  /\ AccessLife <= BlacklistLife /\ RefreshLife <= BlacklistLife
  /\ ResetLife <= UsedResetLife /\ ResetLife < Grace
BY AccessAssumption

(* A token's parts, and that no entry need be longer than its life.        *)
LEMMA TokenParts ==
  ASSUME NEW t \in Token
  PROVE  /\ t.user \in Account
         /\ t.minted \in Nat
         /\ t.kind \in {"access", "refresh", "reset"}
         /\ Life(t) \in Nat
         /\ t.kind = "reset" => Life(t) = ResetLife
         /\ Life(t) <= IF t.kind = "reset" THEN UsedResetLife ELSE BlacklistLife
BY Lives DEF Token, Life, AccessToken, RefreshToken, ResetToken

(* A row is not the absence of one.                                        *)
LEMMA RowExists == \A row \in AccountRow : row # NoAccount
<1> SUFFICES ASSUME NEW row \in AccountRow, row = NoAccount PROVE FALSE
  OBVIOUS
<1>1. DOMAIN row = {"email", "active", "deletion", "usable"}
  BY DEF AccountRow
<1>2. DOMAIN NoAccount = {"email"}
  BY DEF NoAccount
<1> QED BY <1>1, <1>2

(* The columns of a row that exists.                                       *)
LEMMA RowParts ==
  ASSUME TypeOK, NEW a \in Account, Exists(a)
  PROVE  /\ account[a] \in AccountRow
         /\ account[a].active \in BOOLEAN
         /\ account[a].usable \in BOOLEAN
         /\ account[a].deletion \in Nat
         /\ account[a].email \in [address : Address, hashes : Nat]
BY DEF TypeOK, Exists, AccountRow

(* Anonymising hashes the address once more, and only that and the         *)
(* password change.                                                        *)
LEMMA AnonymousRow ==
  ASSUME NEW row \in AccountRow
  PROVE  /\ Anonymous(row) \in AccountRow
         /\ Anonymous(row).active = row.active
         /\ Anonymous(row).deletion = row.deletion
         /\ Anonymous(row).usable = FALSE
         /\ Anonymous(row).email.address = row.email.address
         /\ Anonymous(row).email.hashes = row.email.hashes + 1
<1> DEFINE Mail == [address : Address, hashes : Nat]
<1>1. PICK mail \in Mail : mail = row.email
  BY DEF AccountRow
<1>2. PICK hashed \in Mail : /\ hashed = [mail EXCEPT !.hashes = @ + 1]
                             /\ hashed.address = mail.address
                             /\ hashed.hashes = mail.hashes + 1
  <2>1. [mail EXCEPT !.hashes = @ + 1] \in Mail
    OBVIOUS
  <2> QED BY <2>1
<1>3. Anonymous(row) = [row EXCEPT !.email = hashed, !.usable = FALSE]
  BY <1>1, <1>2 DEF Anonymous
<1> HIDE DEF Mail
<1>4. /\ Anonymous(row) \in [email : Mail, active : BOOLEAN,
                             deletion : Nat, usable : BOOLEAN]
      /\ Anonymous(row).email = hashed
      /\ Anonymous(row).active = row.active
      /\ Anonymous(row).deletion = row.deletion
      /\ Anonymous(row).usable = FALSE
  BY <1>3 DEF AccountRow, Mail
<1> QED BY <1>1, <1>2, <1>4 DEF AccountRow, Mail

(* What a request still has to do is of the kind that its step says.       *)
LEMMA PlanParts ==
  ASSUME NEW p \in Plan \cup {Idle}
  PROVE  /\ p.at = "signup" => p.user \in Account /\ p.address \in Address
         /\ p.at \in {"authenticate", "delete"} => p.token \in AccessToken
         /\ p.at = "rotate" => p.token \in RefreshToken
         /\ p.at = "reset" => p.token \in ResetToken
         /\ p.at \in Holding => p.token \in Token
BY DEF Plan, Idle, Holding, Token

LEMMA SessionParts ==
  ASSUME NEW s \in Session, session \in [Session -> Plan \cup {Idle}]
  PROVE  session[s] \in Plan \cup {Idle}
OBVIOUS

(* A request's next plan replaces that request's plan only.                *)
LEMMA BecomeType ==
  ASSUME NEW s \in Session, session \in [Session -> Plan \cup {Idle}],
         NEW plan \in Plan \cup {Idle}, Become(s, plan)
  PROVE  /\ session' \in [Session -> Plan \cup {Idle}]
         /\ session'[s] = plan
         /\ \A r \in Session : r # s => session'[r] = session[r]
BY DEF Become

(* Tokens that are minted are tokens.                                      *)
LEMMA MintedTokens ==
  ASSUME now \in Nat, NEW a \in Account
  PROVE  /\ Minted(a) \subseteq Token
         /\ \A t \in Minted(a) : t.user = a /\ t.minted = now /\ t.kind # "reset"
BY DEF Minted, Token, AccessToken, RefreshToken

-----------------------------------------------------------------------------
(* The blacklist.                                                          *)

(* An entry for a token that was minted in the past ends no earlier than   *)
(* the token.                                                              *)
LEMMA BlacklistKeeps ==
  ASSUME TypeOK, EntriesOutliveTokens, NEW s \in Session, NEW t \in Token,
         t.minted <= now, BlacklistToken(s, t)
  PROVE  /\ blacklist' \in SUBSET Entry
         /\ memory' \in [Session -> SUBSET Entry]
         /\ EntriesOutliveTokens'
<1> DEFINE e == [token |-> t, until |-> ListedUntil(t)]
<1>1. ListedUntil(t) \in Nat /\ Expiry(t) <= ListedUntil(t)
  BY TokenParts, Lives DEF ListedUntil, Expiry, TypeOK
<1>2. e \in Entry /\ Expiry(e.token) <= e.until
  BY <1>1 DEF Entry
<1> HIDE DEF e
<1>3. \A list \in SUBSET Entry : Listed(list, t) \in SUBSET Entry
  BY <1>2 DEF Listed, e
<1>4. \A list : \A x \in Listed(list, t) : x \in list \/ x = e
  BY DEF Listed, e
<1>5. \A x \in Entry : Expiry(x.token)' = Expiry(x.token)
  BY DEF Expiry, Life
<1>6. CASE redisUp
  <2>1. blacklist' = Listed(blacklist, t) /\ memory' = memory
    BY <1>6 DEF BlacklistToken
  <2>2. blacklist' \in SUBSET Entry
    BY <1>3, <2>1 DEF TypeOK
  <2>3. EntriesOutliveTokens'
    BY <1>2, <1>4, <2>1 DEF EntriesOutliveTokens, Expiry, Life
  <2> QED BY <2>1, <2>2, <2>3 DEF TypeOK
<1>7. CASE ~redisUp
  <2>1. /\ memory' = [memory EXCEPT ![s] = Listed(memory[s], t)]
        /\ blacklist' = blacklist
    BY <1>7 DEF BlacklistToken
  <2>2. memory' \in [Session -> SUBSET Entry]
    BY <1>3, <2>1 DEF TypeOK
  <2>3. \A r \in Session : \A x \in memory'[r] : x \in memory[r] \/ x = e
    BY <1>4, <2>1 DEF TypeOK
  <2>4. EntriesOutliveTokens'
    <3> SUFFICES ASSUME NEW x \in blacklist' \cup UNION {memory'[r] : r \in Session}
                 PROVE  Expiry(x.token) <= x.until
      BY DEF EntriesOutliveTokens, Expiry, Life
    <3>1. x = e \/ x \in blacklist \cup UNION {memory[r] : r \in Session}
      BY <2>1, <2>3
    <3> QED BY <1>2, <3>1 DEF EntriesOutliveTokens
  <2> QED BY <2>1, <2>2, <2>4 DEF TypeOK
<1> QED BY <1>6, <1>7

(* Entries that are dropped change nothing.                                *)
LEMMA FewerEntries ==
  ASSUME TypeOK, EntriesOutliveTokens, blacklist' \subseteq blacklist,
         NEW m \in [Session -> SUBSET Entry], memory' = m,
         \A s \in Session : m[s] \subseteq memory[s]
  PROVE  /\ blacklist' \in SUBSET Entry
         /\ memory' \in [Session -> SUBSET Entry]
         /\ EntriesOutliveTokens'
<1> SUFFICES EntriesOutliveTokens'
  BY DEF TypeOK
<1> SUFFICES ASSUME NEW x \in blacklist' \cup UNION {m[s] : s \in Session}
             PROVE  Expiry(x.token) <= x.until
  BY DEF EntriesOutliveTokens, Expiry, Life
<1>1. x \in blacklist \cup UNION {memory[s] : s \in Session}
  OBVIOUS
<1> QED BY <1>1 DEF EntriesOutliveTokens

(* Steps that leave the blacklists alone.                                  *)
LEMMA SameEntries ==
  ASSUME TypeOK, EntriesOutliveTokens, UNCHANGED <<blacklist, memory>>
  PROVE  /\ blacklist' \in SUBSET Entry
         /\ memory' \in [Session -> SUBSET Entry]
         /\ EntriesOutliveTokens'
BY DEF TypeOK, EntriesOutliveTokens, Expiry, Life

-----------------------------------------------------------------------------
(* What changes of accounts leave founded.                                 *)

(* An account stays; it becomes inactive with a new grace period or stays  *)
(* as inactive as it was; and it keeps its password unless its deletion is *)
(* due.                                                                    *)
Kept(a) ==
  Exists(a) =>
    /\ Exists(a)'
    /\ \/ account'[a].active
       \/ ~account[a].active /\ account'[a].deletion = account[a].deletion
       \/ account'[a].deletion = now + Grace
    /\ account[a].usable /\ (account[a].active \/ account[a].deletion > now) =>
         account'[a].usable

(* Steps that leave the accounts alone keep each of them.                  *)
LEMMA SameAccounts == account' = account => \A a \in Account : Kept(a)
BY DEF Kept, Exists

(* A token stays founded while accounts are kept.                          *)
LEMMA TokenStays ==
  ASSUME TypeOK, now' = now, \A a \in Account : Kept(a)
  PROVE  \A t \in Token : TokenFounded(t) => TokenFounded(t)'
<1> SUFFICES ASSUME NEW t \in Token, TokenFounded(t)
             PROVE  TokenFounded(t)'
  OBVIOUS
<1>1. t.user \in Account /\ t.minted \in Nat
  BY TokenParts
<1>2. Exists(t.user) /\ t.minted <= now /\ Kept(t.user)
  BY <1>1 DEF TokenFounded
<1>3. t.minted + Grace <= now + Grace
  BY <1>1, <1>2, Lives DEF TypeOK
<1> QED BY <1>2, <1>3 DEF Kept, TokenFounded, ResetInTime, Exists

(* So does a plan, unless the user it signs up has come to exist.          *)
LEMMA PlanStays ==
  ASSUME TypeOK, now' = now, \A a \in Account : Kept(a)
  PROVE  \A p \in Plan \cup {Idle} :
           Founded(p) /\ (p.at = "signup" => account'[p.user] = NoAccount) =>
             Founded(p)'
<1> SUFFICES ASSUME NEW p \in Plan \cup {Idle}, Founded(p),
                    p.at = "signup" => account'[p.user] = NoAccount
             PROVE  Founded(p)'
  OBVIOUS
<1>1. p.at \in Holding => TokenFounded(p.token)'
  BY PlanParts, TokenStays DEF Founded
<1>2. p.at = "reset" => ~Expired(p.token)'
  BY DEF Founded, Expired, Expiry, Life
<1>3. ASSUME p.at = "delete"
      PROVE  /\ account'[p.token.user].usable
             /\ account'[p.token.user].active \/ account'[p.token.user].deletion > now
  <2>1. p.token \in Token /\ p.at \in Holding
    BY <1>3, PlanParts DEF Holding
  <2>2. /\ p.token.user \in Account /\ Exists(p.token.user) /\ Kept(p.token.user)
    BY <2>1, TokenParts DEF Founded, TokenFounded
  <2>3. /\ account[p.token.user].usable
        /\ account[p.token.user].active \/ account[p.token.user].deletion > now
    BY <1>3 DEF Founded
  <2>4. now + Grace > now
    BY Lives DEF TypeOK
  <2> QED BY <2>2, <2>3, <2>4 DEF Kept
<1> QED BY <1>1, <1>2, <1>3 DEF Founded, Exists

(* A request goes on with a founded plan; the plans of the others stay.    *)
LEMMA PlansKept ==
  ASSUME TypeOK, PlansFounded, SignupsApart, now' = now,
         \A a \in Account : Kept(a),
         NEW s \in Session, NEW plan \in Plan \cup {Idle}, Become(s, plan),
         plan.at # "signup", Founded(plan)',
         \A r \in Session \ {s} : At(r, "signup") =>
           account'[session[r].user] = NoAccount
  PROVE  PlansFounded' /\ SignupsApart'
<1>1. /\ session'[s] = plan
      /\ \A r \in Session : r # s => session'[r] = session[r]
  BY BecomeType DEF TypeOK
<1>2. ASSUME NEW r \in Session
      PROVE  Founded(session[r])'
  <2>1. CASE r = s
    BY <1>1, <2>1 DEF Founded, TokenFounded, ResetInTime, Exists, Expired, Expiry, Life
  <2>2. CASE r # s
    <3>1. PICK p \in Plan \cup {Idle} : p = session[r]
      BY DEF TypeOK
    <3>2. p = session'[r]
      BY <1>1, <2>2, <3>1
    <3>3. Founded(p)
      BY <3>1 DEF PlansFounded
    <3>4. p.at = "signup" => account'[p.user] = NoAccount
      BY <2>2, <3>1 DEF At
    <3>5. Founded(p)'
      BY <3>3, <3>4, PlanStays
    <3> QED BY <3>2, <3>5 DEF Founded, TokenFounded, ResetInTime, Exists,
       Expired, Expiry, Life
  <2> QED BY <2>1, <2>2
<1>3. SignupsApart'
  BY <1>1 DEF SignupsApart, At
<1> QED BY <1>2, <1>3 DEF PlansFounded

(* Tokens that are handed out are founded, and so are those that were.     *)
LEMMA TokensKept ==
  ASSUME TypeOK, TokensFounded, now' = now, \A a \in Account : Kept(a),
         NEW new \in SUBSET Token, issued' \subseteq issued \cup new,
         \A t \in new : TokenFounded(t)'
  PROVE  issued' \in SUBSET Token /\ TokensFounded'
<1>1. issued' \in SUBSET Token
  BY DEF TypeOK
<1>2. \A t \in issued' : TokenFounded(t)'
  BY TokenStays DEF TypeOK, TokensFounded
<1> QED BY <1>1, <1>2 DEF TokensFounded

(* Access and refresh tokens that an existing account gets are founded.    *)
LEMMA MintedFounded ==
  ASSUME TypeOK, now' = now, NEW a \in Account, account'[a] # NoAccount
  PROVE  \A t \in Minted(a) : TokenFounded(t)'
<1> SUFFICES ASSUME NEW t \in Minted(a)
             PROVE  TokenFounded(t)'
  OBVIOUS
<1>1. t.user = a /\ t.minted = now /\ t.kind # "reset"
  BY MintedTokens DEF TypeOK
<1> QED BY <1>1 DEF TokenFounded, Exists, TypeOK

-----------------------------------------------------------------------------
(* Steps that leave the accounts alone.                                    *)

(* What the accounts alone promise.                                        *)
AccountsInv == OneAccountPerEmail /\ AnonymisedWasDue

(* They keep what is said of the accounts themselves.                      *)
LEMMA SameAccountsInv ==
  ASSUME AccountsInv, account' = account, now' = now
  PROVE  AccountsInv'
BY DEF AccountsInv, OneAccountPerEmail, AnonymisedWasDue, Exists

(* The invariant in the parts the lemmas below are about.                  *)
LEMMA InvParts ==
  AccessInv <=> /\ TypeOK /\ EntriesOutliveTokens /\ AccountsInv
                /\ TokensFounded /\ PlansFounded /\ SignupsApart
BY DEF AccessInv, AccountsInv

(* A request that changes no account and begins to sign nobody up.         *)
LEMMA AccountsAlone ==
  ASSUME AccessInv, UNCHANGED <<account, now, redisUp>>,
         NEW s \in Session, NEW plan \in Plan \cup {Idle}, Become(s, plan),
         plan.at # "signup", Founded(plan),
         NEW new \in SUBSET Token, issued' \subseteq issued \cup new,
         \A t \in new : TokenFounded(t),
         blacklist' \in SUBSET Entry, memory' \in [Session -> SUBSET Entry],
         EntriesOutliveTokens'
  PROVE  AccessInv'
<1> USE InvParts
<1>1. \A a \in Account : Kept(a)
  BY SameAccounts
<1>2. Founded(plan)'
  BY DEF Founded, TokenFounded, ResetInTime, Exists, Expired, Expiry, Life
<1>3. \A t \in new : TokenFounded(t)'
  BY DEF TokenFounded, ResetInTime, Exists
<1>4. \A r \in Session \ {s} : At(r, "signup") => account'[session[r].user] = NoAccount
  BY DEF PlansFounded, Founded, Exists, At
<1>5. PlansFounded' /\ SignupsApart'
  BY <1>1, <1>2, <1>4, PlansKept
<1>6. issued' \in SUBSET Token /\ TokensFounded'
  BY <1>1, <1>3, TokensKept
<1>7. AccountsInv'
  BY SameAccountsInv
<1>8. TypeOK'
  BY <1>6, BecomeType DEF TypeOK
<1> QED BY <1>5, <1>6, <1>7, <1>8 DEF AccessInv, AccountsInv

(* A request that only goes on with a plan.                                *)
LEMMA Planning ==
  ASSUME AccessInv, UNCHANGED <<account, issued, blacklist, memory, redisUp, now>>,
         NEW s \in Session, NEW plan \in Plan \cup {Idle}, Become(s, plan),
         plan.at # "signup", Founded(plan)
  PROVE  AccessInv'
<1>1. /\ blacklist' \in SUBSET Entry /\ memory' \in [Session -> SUBSET Entry]
      /\ EntriesOutliveTokens'
  BY InvParts, SameEntries
<1>2. issued' \subseteq issued \cup {} /\ {} \in SUBSET Token
  OBVIOUS
<1> QED BY <1>1, <1>2, AccountsAlone

(* An idle request promises nothing.                                       *)
LEMMA IdleFounded == Idle \in Plan \cup {Idle} /\ Idle.at # "signup" /\ Founded(Idle)
BY DEF Idle, Founded, Holding

(* A request with a token that is issued or carried by its plan.           *)
LEMMA Carried ==
  ASSUME AccessInv, NEW s \in Session, session[s].at \in Holding
  PROVE  session[s].token \in Token /\ TokenFounded(session[s].token)
BY PlanParts DEF AccessInv, TypeOK, PlansFounded, Founded

(* The requests that present a token and go on with it.                    *)
LEMMA Begins ==
  ASSUME AccessInv, NEW s \in Session, NEW t \in issued,
         Refresh(s, t) \/ Present(s, t) \/ ResetPassword(s, t)
  PROVE  AccessInv'
<1>1. t \in Token /\ TokenFounded(t)
  BY DEF AccessInv, TypeOK, TokensFounded
<1>2. CASE Refresh(s, t)
  <2> DEFINE plan == [at |-> "rotate", token |-> t]
  <2>1. plan \in Plan /\ plan.at # "signup" /\ Founded(plan)
    BY <1>1, <1>2 DEF Refresh, Plan, Founded
  <2>2. Begin(s, plan)
    BY <1>2 DEF Refresh
  <2> HIDE DEF plan
  <2> QED BY <2>1, <2>2, Planning DEF Begin
<1>3. CASE Present(s, t)
  <2> DEFINE plan == [at |-> "authenticate", token |-> t]
  <2>1. plan \in Plan /\ plan.at # "signup" /\ Founded(plan)
    BY <1>1, <1>3 DEF Present, Plan, Founded
  <2>2. Begin(s, plan)
    BY <1>3 DEF Present
  <2> HIDE DEF plan
  <2> QED BY <2>1, <2>2, Planning DEF Begin
<1>4. CASE ResetPassword(s, t)
  <2> DEFINE plan == [at |-> "reset", token |-> t]
  <2>1. plan \in Plan /\ plan.at # "signup" /\ Founded(plan)
    BY <1>1, <1>4 DEF ResetPassword, Accepted, Plan, Founded
  <2>2. Begin(s, plan)
    BY <1>4 DEF ResetPassword
  <2> HIDE DEF plan
  <2> QED BY <2>1, <2>2, Planning DEF Begin
<1> QED BY <1>2, <1>3, <1>4

(* The second half of get_current_user, and what it lets through.          *)
LEMMA SignedIn ==
  ASSUME AccessInv, NEW s \in Session,
         Forbidden(s) \/ Logout(s) \/ RequestDeletion(s)
  PROVE  AccessInv'
<1> DEFINE t == session[s].token
<1>0. At(s, "authenticate")
  BY DEF Forbidden, Logout, RequestDeletion, Authenticated
<1>1. t \in Token /\ TokenFounded(t)
  BY <1>0, Carried DEF At, Holding
<1>2. t \in AccessToken
  BY <1>0, PlanParts DEF At, AccessInv, TypeOK
<1>3. CASE Forbidden(s)
  BY <1>3, IdleFounded, Planning DEF Forbidden
<1>4. CASE Logout(s)
  <2> DEFINE plan == [at |-> "revoke", token |-> t]
  <2>1. plan \in Plan /\ plan.at # "signup" /\ Founded(plan)
    BY <1>1 DEF Plan, Founded
  <2>2. Become(s, plan)
    BY <1>4 DEF Logout
  <2> HIDE DEF plan
  <2> QED BY <1>4, <2>1, <2>2, Planning DEF Logout
<1>5. CASE RequestDeletion(s)
  <2> DEFINE plan == [at |-> "delete", token |-> t]
  <2>1. account[t.user].active /\ account[t.user].usable
    BY <1>5 DEF RequestDeletion, Authenticated, CurrentUser, Active
  <2>2. plan \in Plan /\ plan.at # "signup" /\ Founded(plan)
    BY <1>1, <1>2, <2>1 DEF Plan, Founded
  <2>3. Become(s, plan)
    BY <1>5 DEF RequestDeletion
  <2> HIDE DEF plan
  <2> QED BY <1>5, <2>2, <2>3, Planning DEF RequestDeletion
<1> QED BY <1>3, <1>4, <1>5

(* Only users who are active may cancel, and then there is nothing to.     *)
LEMMA NothingToCancel ==
  ASSUME AccessInv, NEW s \in Session, CancelDeletion(s)
  PROVE  account' = account
BY DEF CancelDeletion, Authenticated, Active

(* Cancelling a deletion, which finds nothing to cancel.                   *)
LEMMA CancelKeeps ==
  ASSUME AccessInv, NEW s \in Session, CancelDeletion(s)
  PROVE  AccessInv'
BY NothingToCancel, IdleFounded, Planning DEF CancelDeletion

(* Handing out and revoking tokens.                                        *)
LEMMA TokensMove ==
  ASSUME AccessInv, NEW s \in Session, Rotate(s) \/ Revoke(s)
  PROVE  AccessInv'
<1> DEFINE t == session[s].token
<1>0. session[s].at \in Holding
  BY DEF Rotate, Revoke, At, Holding
<1>1. t \in Token /\ TokenFounded(t)
  BY <1>0, Carried
<1>2. t.user \in Account /\ t.minted <= now /\ Exists(t.user)
  BY <1>1, TokenParts DEF TokenFounded
<1>3. TypeOK /\ EntriesOutliveTokens
  BY DEF AccessInv
<1>4. CASE BlacklistToken(s, t)
  <2>1. /\ blacklist' \in SUBSET Entry /\ memory' \in [Session -> SUBSET Entry]
        /\ EntriesOutliveTokens'
    BY <1>1, <1>2, <1>3, <1>4, BlacklistKeeps
  <2>2. Minted(t.user) \in SUBSET Token
    BY <1>2, <1>3, MintedTokens DEF TypeOK
  <2>3. \A m \in Minted(t.user) : TokenFounded(m)
    <3>1. \A m \in Minted(t.user) : m.user = t.user /\ m.minted = now /\ m.kind # "reset"
      BY <1>2, <1>3, MintedTokens DEF TypeOK
    <3> QED BY <1>2, <1>3, <3>1 DEF TokenFounded, TypeOK
  <2>4. issued' \subseteq issued \cup Minted(t.user)
    BY DEF Rotate, Revoke
  <2>5. Become(s, Idle) /\ UNCHANGED <<account, now, redisUp>>
    BY DEF Rotate, Revoke
  <2> HIDE DEF t
  <2> QED BY <2>1, <2>2, <2>3, <2>4, <2>5, IdleFounded, AccountsAlone
<1>5. CASE ~BlacklistToken(s, t)
  <2>1. /\ UNCHANGED <<account, issued, blacklist, memory, redisUp, now>>
        /\ Become(s, Idle)
    BY <1>5 DEF Rotate, Revoke
  <2> QED BY <2>1, IdleFounded, Planning
<1> QED BY <1>4, <1>5

(* Requests that are one step.                                             *)
LEMMA HandOut ==
  ASSUME AccessInv, NEW s \in Session, NEW a \in Account,
         Login(s, a) \/ \E nonce \in Nonce : ForgotPassword(s, a, nonce)
  PROVE  AccessInv'
<1>1. Active(a) /\ Exists(a) /\ now \in Nat
  BY DEF Login, ForgotPassword, Active, AccessInv, TypeOK
<1>2. PICK new \in SUBSET Token : /\ issued' = issued \cup new
                                  /\ \A t \in new : TokenFounded(t)
  <2>1. CASE Login(s, a)
    <3>1. \A t \in Minted(a) : t.user = a /\ t.minted = now /\ t.kind # "reset"
      BY <1>1, MintedTokens
    <3>2. \A t \in Minted(a) : TokenFounded(t)
      BY <1>1, <3>1 DEF TokenFounded
    <3> QED BY <1>1, <2>1, <3>2, MintedTokens DEF Login
  <2>2. ASSUME NEW nonce \in Nonce, ForgotPassword(s, a, nonce)
        PROVE  \E new \in SUBSET Token : /\ issued' = issued \cup new
                                         /\ \A t \in new : TokenFounded(t)
    <3> DEFINE t == [kind |-> "reset", user |-> a, minted |-> now, jti |-> nonce]
    <3>1. t \in Token
      BY <1>1 DEF Token, ResetToken
    <3>2. TokenFounded(t)
      BY <1>1 DEF TokenFounded, ResetInTime, Active
    <3>3. issued' = issued \cup {t}
      BY <2>2 DEF ForgotPassword
    <3>4. {t} \in SUBSET Token /\ \A x \in {t} : TokenFounded(x)
      BY <3>1, <3>2
    <3> QED BY <3>3, <3>4
  <2> QED BY <2>1, <2>2
<1>3. UNCHANGED <<account, blacklist, memory, redisUp, now, session>>
  BY DEF Login, ForgotPassword
<1>4. session[s] = Idle
  <2>1. session[s].at = "idle" /\ session[s] \in Plan \cup {Idle}
    BY DEF Login, ForgotPassword, At, AccessInv, TypeOK
  <2> QED BY <2>1 DEF Plan
<1>5. Become(s, Idle)
  BY <1>3, <1>4 DEF Become, AccessInv, TypeOK
<1>6. /\ blacklist' \in SUBSET Entry /\ memory' \in [Session -> SUBSET Entry]
      /\ EntriesOutliveTokens'
  BY <1>3, SameEntries DEF AccessInv
<1> QED BY <1>2, <1>3, <1>5, <1>6, IdleFounded, AccountsAlone

(* A worker that dies forgets what it kept in memory.                      *)
LEMMA KilledKeeps ==
  ASSUME AccessInv, NEW s \in Session, Killed(s)
  PROVE  AccessInv'
<1> DEFINE m == [memory EXCEPT ![s] = {}]
<1>1. /\ m \in [Session -> SUBSET Entry] /\ memory' = m
      /\ \A r \in Session : m[r] \subseteq memory[r]
  BY DEF Killed, AccessInv, TypeOK
<1>2. /\ blacklist' \subseteq blacklist /\ issued' \subseteq issued \cup {}
      /\ {} \in SUBSET Token
      /\ Become(s, Idle) /\ UNCHANGED <<account, now, redisUp>>
  BY DEF Killed
<1> HIDE DEF m
<1>3. /\ blacklist' \in SUBSET Entry /\ memory' \in [Session -> SUBSET Entry]
      /\ EntriesOutliveTokens'
  BY <1>1, <1>2, FewerEntries DEF AccessInv
<1> QED BY <1>2, <1>3, IdleFounded, AccountsAlone

-----------------------------------------------------------------------------
(* Signing up.                                                             *)

(* A request that will sign up has a user of its own.                      *)
LEMMA SignupKeeps ==
  ASSUME AccessInv, NEW s \in Session, NEW a \in Account, NEW e \in Address,
         Signup(s, a, e)
  PROVE  AccessInv'
<1> DEFINE plan == [at |-> "signup", user |-> a, address |-> e]
<1>1. Become(s, plan) /\ UNCHANGED <<account, issued, blacklist, memory, redisUp, now>>
  BY DEF Signup, Begin
<1>2. plan \in Plan /\ plan.at = "signup" /\ plan.user = a
  BY DEF Plan
<1> HIDE DEF plan
<1>3. ~Exists(a) /\ \A r \in Session : At(r, "signup") => session[r].user # a
  BY DEF Signup
<1>4. /\ session' \in [Session -> Plan \cup {Idle}]
      /\ session'[s] = plan
      /\ \A r \in Session : r # s => session'[r] = session[r]
  BY <1>1, <1>2, BecomeType DEF AccessInv, TypeOK
<1>5. ASSUME NEW r \in Session
      PROVE  Founded(session[r])'
  <2>1. CASE r = s
    BY <1>1, <1>2, <1>3, <1>4, <2>1 DEF Founded, Exists, Holding
  <2>2. CASE r # s
    <3>1. Founded(session[r]) /\ session'[r] = session[r]
      BY <1>4, <2>2 DEF AccessInv, PlansFounded
    <3> QED BY <1>1, <3>1 DEF Founded, TokenFounded, ResetInTime, Exists,
       Expired, Expiry, Life
  <2> QED BY <2>1, <2>2
<1>6. SignupsApart'
  BY <1>2, <1>3, <1>4 DEF AccessInv, SignupsApart, At
<1>7. /\ blacklist' \in SUBSET Entry /\ memory' \in [Session -> SUBSET Entry]
      /\ EntriesOutliveTokens'
  BY <1>1, SameEntries DEF AccessInv
<1>8. TypeOK'
  BY <1>1, <1>4, <1>7 DEF AccessInv, TypeOK
<1>9. TokensFounded'
  BY <1>1 DEF AccessInv, TokensFounded, TokenFounded, ResetInTime, Exists
<1>10. AccountsInv'
  BY <1>1, SameAccountsInv, InvParts
<1> QED BY <1>5, <1>6, <1>7, <1>8, <1>9, <1>10
        DEF AccessInv, PlansFounded, AccountsInv

(* A new account has an address nobody has.                                *)
LEMMA CommitSignupKeeps ==
  ASSUME AccessInv, NEW s \in Session, CommitSignup(s)
  PROVE  AccessInv'
<1> DEFINE p == session[s]
           email == [address |-> p.address, hashes |-> 0]
           row == [email |-> email, active |-> TRUE, deletion |-> NoDeletion,
                   usable |-> TRUE]
<1>1. p.at = "signup" /\ p \in Plan \cup {Idle} /\ Founded(p)
  BY DEF CommitSignup, At, AccessInv, TypeOK, PlansFounded
<1>2. p.user \in Account /\ p.address \in Address /\ ~Exists(p.user)
  BY <1>1, PlanParts DEF Founded
<1>3. CASE email \in EmailsOf(Account)
  <2>1. UNCHANGED <<account, issued, blacklist, memory, redisUp, now>>
    BY <1>3 DEF CommitSignup
  <2> QED BY <2>1, IdleFounded, Planning DEF CommitSignup
<1>4. CASE email \notin EmailsOf(Account)
  <2>1. PICK a \in Account : a = p.user
    BY <1>2
  <2>2. /\ account' = [account EXCEPT ![a] = row]
        /\ issued' = issued \cup Minted(a)
        /\ UNCHANGED <<blacklist, memory, redisUp, now>>
        /\ Become(s, Idle)
    BY <1>4, <2>1 DEF CommitSignup
  <2>3. row \in AccountRow /\ row.active = TRUE /\ row.usable = TRUE /\ row.email = email
    <3>1. email \in [address : Address, hashes : Nat]
      BY <1>2
    <3> HIDE DEF email
    <3> QED BY <3>1 DEF AccountRow, NoDeletion
  <2> DEFINE mail == email
  <2>4. PICK new \in AccountRow : new = row
    BY <2>3
  <2>5. /\ new.active = TRUE /\ new.usable = TRUE
        /\ new.email = email
        /\ account' = [account EXCEPT ![a] = new]
    BY <2>2, <2>3, <2>4
  <2>6. \A b \in Account : Exists(b) => account[b].email # new.email
    BY <1>4, <2>5 DEF EmailsOf
  <2>7. account[a] = NoAccount
    BY <1>2, <2>1 DEF Exists
  <2>8. \A r \in Session \ {s} : At(r, "signup") => session[r].user # a
    BY <1>1, <2>1 DEF AccessInv, SignupsApart, At
  <2>9. \A r \in Session : At(r, "signup") =>
          session[r].user \in Account /\ account[session[r].user] = NoAccount
    BY PlanParts DEF AccessInv, TypeOK, PlansFounded, Founded, Exists, At
  <2> HIDE DEF row, email, mail, p
  <2>10. /\ account' \in [Account -> AccountRow \cup {NoAccount}]
         /\ account'[a] = new
         /\ account'[a] # NoAccount
         /\ \A b \in Account : b # a => account'[b] = account[b]
    BY <2>5, RowExists DEF AccessInv, TypeOK
  <2>11. \A b \in Account : Kept(b)
    BY <2>7, <2>10 DEF Kept, Exists
  <2>12. \A r \in Session \ {s} : At(r, "signup") =>
           account'[session[r].user] = NoAccount
    BY <2>8, <2>9, <2>10
  <2>13. Founded(Idle)' /\ Idle \in Plan \cup {Idle} /\ Idle.at # "signup"
    BY DEF Founded, Idle, Holding
  <2>14. PlansFounded' /\ SignupsApart'
    BY <2>2, <2>11, <2>12, <2>13, PlansKept DEF AccessInv
  <2>15. issued' \in SUBSET Token /\ TokensFounded'
    <3>1. Minted(a) \in SUBSET Token
      BY MintedTokens DEF AccessInv, TypeOK
    <3>2. \A t \in Minted(a) : TokenFounded(t)'
      BY <2>2, <2>10, MintedFounded DEF AccessInv
    <3> QED BY <2>2, <2>11, <3>1, <3>2, TokensKept DEF AccessInv
  <2>16. OneAccountPerEmail'
    <3> SUFFICES ASSUME NEW b \in Account, NEW c \in Account,
                        account'[b] # NoAccount, account'[c] # NoAccount,
                        account'[b].email = account'[c].email
                 PROVE  b = c
      BY DEF OneAccountPerEmail, Exists
    <3> QED BY <2>6, <2>10 DEF AccessInv, OneAccountPerEmail, Exists
  <2>17. AnonymisedWasDue'
    BY <2>2, <2>5, <2>10 DEF AccessInv, AnonymisedWasDue, Exists
  <2>18. /\ blacklist' \in SUBSET Entry /\ memory' \in [Session -> SUBSET Entry]
         /\ EntriesOutliveTokens'
    BY <2>2, SameEntries DEF AccessInv
  <2>19. TypeOK'
    BY <2>2, <2>10, <2>15, <2>18, BecomeType DEF AccessInv, TypeOK
  <2> QED BY <2>14, <2>15, <2>16, <2>17, <2>18, <2>19 DEF AccessInv
<1> QED BY <1>3, <1>4

-----------------------------------------------------------------------------
(* Changes of an account.                                                  *)

(* A row is changed, but not its address; the token of the request stays   *)
(* founded, and it goes on to revoke it.                                   *)
LEMMA RowKeeps ==
  ASSUME AccessInv, NEW s \in Session, session[s].at \in Holding,
         NEW a \in Account, Exists(a), NEW row \in AccountRow,
         account' = [account EXCEPT ![a] = row],
         row.email = account[a].email,
         Become(s, [at |-> "revoke", token |-> session[s].token]),
         UNCHANGED <<issued, blacklist, memory, redisUp, now>>,
         Kept(a),
         ~row.usable => ~row.active /\ row.deletion <= now
  PROVE  AccessInv'
<1>1. /\ account' \in [Account -> AccountRow \cup {NoAccount}]
      /\ account'[a] = row
      /\ account'[a] # NoAccount
      /\ \A b \in Account : b # a => account'[b] = account[b]
  BY RowExists DEF AccessInv, TypeOK
<1>2. \A b \in Account : Kept(b)
  BY <1>1 DEF Kept, Exists
<1> DEFINE plan == [at |-> "revoke", token |-> session[s].token]
<1>3. /\ session[s].token \in Token
      /\ TokenFounded(session[s].token)
  BY Carried
<1>4. plan \in Plan /\ plan.at = "revoke" /\ plan.token = session[s].token
  BY <1>3 DEF Plan
<1>5. Become(s, plan)
  OBVIOUS
<1> HIDE DEF plan
<1>6. PICK q \in Plan : q = plan
  BY <1>4
<1>7. TokenFounded(q.token)'
  BY <1>2, <1>3, <1>4, <1>6, TokenStays DEF AccessInv
<1>8. Founded(q)' /\ q.at # "signup" /\ Become(s, q)
  BY <1>4, <1>5, <1>6, <1>7 DEF Founded
<1>9. \A r \in Session : At(r, "signup") => account'[session[r].user] = NoAccount
  <2>1. \A r \in Session : At(r, "signup") =>
          session[r].user \in Account /\ account[session[r].user] = NoAccount
    BY PlanParts DEF AccessInv, TypeOK, PlansFounded, Founded, Exists, At
  <2> QED BY <1>1, <2>1 DEF Exists
<1>10. PlansFounded' /\ SignupsApart'
  BY <1>2, <1>8, <1>9, PlansKept DEF AccessInv
<1>11. TokensFounded'
  BY <1>2, TokenStays DEF AccessInv, TypeOK, TokensFounded
<1>12. OneAccountPerEmail'
  <2>1. \A b \in Account : Exists(b) => account'[b].email = account[b].email
    BY <1>1
  <2>2. \A b \in Account : account'[b] # NoAccount <=> Exists(b)
    BY <1>1 DEF Exists
  <2> QED BY <2>1, <2>2 DEF AccessInv, OneAccountPerEmail, Exists
<1>13. AnonymisedWasDue'
  BY <1>1 DEF AccessInv, AnonymisedWasDue, Exists
<1>14. /\ blacklist' \in SUBSET Entry /\ memory' \in [Session -> SUBSET Entry]
       /\ EntriesOutliveTokens'
  BY SameEntries DEF AccessInv
<1>15. TypeOK'
  BY <1>1, <1>8, <1>14, BecomeType DEF AccessInv, TypeOK
<1> QED BY <1>10, <1>11, <1>12, <1>13, <1>14, <1>15 DEF AccessInv

(* A deletion and a new password change the row of the token's user.       *)
LEMMA RowSteps ==
  ASSUME AccessInv, NEW s \in Session, CommitDeletion(s) \/ CommitReset(s)
  PROVE  AccessInv'
<1>0. session[s].at \in Holding /\ Founded(session[s])
  BY DEF CommitDeletion, CommitReset, At, Holding, AccessInv, PlansFounded
<1>1. TokenFounded(session[s].token) /\ session[s].token \in Token
  BY <1>0, Carried
<1>2. PICK a \in Account : a = session[s].token.user
  BY <1>1, TokenParts
<1>3. Exists(a) /\ account[a] \in AccountRow
  BY <1>1, <1>2, RowParts DEF TokenFounded, AccessInv
<1>4. now \in Nat /\ now + Grace \in Nat /\ TypeOK
  BY Lives DEF AccessInv, TypeOK
<1>5. CASE CommitDeletion(s)
  <2>1. account[a].usable = TRUE
    BY <1>0, <1>2, <1>3, <1>5, RowParts, <1>4 DEF CommitDeletion, At, Founded
  <2>2. PICK row \in AccountRow :
          /\ row = [account[a] EXCEPT !.active = FALSE, !.deletion = now + Grace]
          /\ row.email = account[a].email
          /\ row.usable = TRUE /\ row.active = FALSE /\ row.deletion = now + Grace
    <3>1. [account[a] EXCEPT !.active = FALSE, !.deletion = now + Grace] \in AccountRow
      BY <1>3, <1>4 DEF AccountRow
    <3> QED BY <1>3, <2>1, <3>1 DEF AccountRow
  <2>3. account' = [account EXCEPT ![a] = row]
    BY <1>2, <1>5, <2>2 DEF CommitDeletion, CurrentUser
  <2>4. account'[a] = row /\ row # NoAccount
    BY <2>3, RowExists DEF AccessInv, TypeOK
  <2>5. Kept(a)
    BY <2>2, <2>4 DEF Kept, Exists
  <2> QED BY <1>0, <1>3, <1>5, <2>2, <2>3, <2>5, RowKeeps DEF CommitDeletion
<1>6. CASE CommitReset(s)
  <2>1. PICK row \in AccountRow :
          /\ row = [account[a] EXCEPT !.usable = TRUE]
          /\ row.email = account[a].email
          /\ row.usable = TRUE /\ row.active = account[a].active
          /\ row.deletion = account[a].deletion
    <3>1. [account[a] EXCEPT !.usable = TRUE] \in AccountRow
      BY <1>3 DEF AccountRow
    <3> QED BY <1>3, <3>1 DEF AccountRow
  <2>2. account' = [account EXCEPT ![a] = row]
    BY <1>2, <1>6, <2>1 DEF CommitReset, CurrentUser
  <2>3. account'[a] = row /\ row # NoAccount
    BY <2>2, RowExists DEF AccessInv, TypeOK
  <2>4. Kept(a)
    BY <2>1, <2>3 DEF Kept, Exists
  <2> QED BY <1>0, <1>3, <1>6, <2>1, <2>2, <2>4, RowKeeps DEF CommitReset
<1> QED BY <1>5, <1>6

(* Anonymising clashes with no other address, or all of it is rolled back. *)
LEMMA AnonymisingKeeps ==
  ASSUME AccessInv, ProcessExpiredDeletions
  PROVE  AccessInv'
<1>0. TypeOK
  BY DEF AccessInv
<1>1. /\ ~Clash
      /\ account' = [a \in Account |->
                       IF a \in Due THEN Anonymous(account[a]) ELSE account[a]]
      /\ UNCHANGED <<issued, blacklist, memory, redisUp, now, session>>
  BY DEF ProcessExpiredDeletions
<1>2. \A a \in Account : a \notin Due => account'[a] = account[a]
  BY <1>1
<1>3. ASSUME NEW a \in Due
      PROVE  /\ Exists(a) /\ ~account[a].active /\ account[a].deletion <= now
             /\ account'[a] = Anonymous(account[a])
             /\ account'[a] \in AccountRow
             /\ account'[a].active = account[a].active
             /\ account'[a].deletion = account[a].deletion
             /\ account'[a].usable = FALSE
             /\ account'[a].email.address = account[a].email.address
             /\ account'[a].email.hashes = account[a].email.hashes + 1
             /\ account[a].email \in [address : Address, hashes : Nat]
  <2>1. a \in Account /\ Exists(a) /\ ~account[a].active /\ account[a].deletion <= now
    BY DEF Due
  <2>2. account[a] \in AccountRow
    BY <1>0, <2>1, RowParts
  <2>3. account'[a] = Anonymous(account[a])
    BY <1>1, <2>1
  <2> QED BY <1>0, <2>1, <2>2, <2>3, AnonymousRow, RowParts
<1>4. account' \in [Account -> AccountRow \cup {NoAccount}]
  BY <1>0, <1>1, <1>2, <1>3 DEF TypeOK
<1>5. \A a \in Account : account'[a] = NoAccount <=> account[a] = NoAccount
  BY <1>2, <1>3, RowExists DEF Exists
<1>6. \A a \in Account : Kept(a)
  <2> SUFFICES ASSUME NEW a \in Account, Exists(a) PROVE Kept(a)
    BY DEF Kept
  <2>1. CASE a \in Due
    <3>1. account[a].deletion \in Nat /\ now \in Nat /\ account[a].deletion <= now
      BY <1>0, <1>3, <2>1, RowParts DEF TypeOK
    <3>2. ~(account[a].deletion > now)
      BY <3>1
    <3> QED BY <1>3, <1>5, <2>1, <3>2 DEF Kept, Exists
  <2>2. CASE a \notin Due
    BY <1>2, <2>2 DEF Kept, Exists
  <2> QED BY <2>1, <2>2
<1>7. TypeOK'
  BY <1>0, <1>1, <1>4 DEF TypeOK
<1>8. /\ blacklist' \in SUBSET Entry /\ memory' \in [Session -> SUBSET Entry]
      /\ EntriesOutliveTokens'
  BY <1>1, SameEntries DEF AccessInv
<1>9. TokensFounded'
  BY <1>0, <1>1, <1>6, TokenStays DEF AccessInv, TypeOK, TokensFounded
<1>10. PlansFounded'
  <2> SUFFICES ASSUME NEW r \in Session PROVE Founded(session[r])'
    BY DEF PlansFounded
  <2>1. PICK p \in Plan \cup {Idle} : p = session[r] /\ p = session'[r]
    BY <1>0, <1>1 DEF TypeOK
  <2>2. Founded(p)
    BY <2>1 DEF AccessInv, PlansFounded
  <2>3. p.at = "signup" => account'[p.user] = NoAccount
    BY <1>5, <2>2, PlanParts DEF Founded, Exists
  <2>4. Founded(p)'
    BY <1>0, <1>1, <1>6, <2>2, <2>3, PlanStays
  <2> QED BY <2>1, <2>4 DEF Founded, TokenFounded, ResetInTime, Exists,
     Expired, Expiry, Life
<1>11. SignupsApart'
  BY <1>1 DEF AccessInv, SignupsApart, At
<1>12. OneAccountPerEmail'
  <2> SUFFICES ASSUME NEW a \in Account, NEW b \in Account, a # b,
                      Exists(a), Exists(b), account'[a].email = account'[b].email
               PROVE  FALSE
    BY <1>5 DEF OneAccountPerEmail, Exists
  <2>1. account[a].email # account[b].email
    BY DEF AccessInv, OneAccountPerEmail
  <2>2. CASE a \in Due /\ b \in Due
    <3> DEFINE Mail == [address : Address, hashes : Nat]
    <3>1. PICK m \in Mail : m = account[a].email
      BY <1>3, <2>2
    <3>2. PICK n \in Mail : n = account[b].email
      BY <1>3, <2>2
    <3>3. m.address = n.address /\ m.hashes + 1 = n.hashes + 1
      BY <1>3, <2>2, <3>1, <3>2
    <3>4. m = n
      BY <3>3
    <3> QED BY <2>1, <3>1, <3>2, <3>4
  <2>3. CASE a \in Due /\ b \notin Due
    BY <1>1, <1>2, <1>3, <2>3 DEF Clash
  <2>4. CASE a \notin Due /\ b \in Due
    BY <1>1, <1>2, <1>3, <2>4 DEF Clash
  <2>5. CASE a \notin Due /\ b \notin Due
    BY <1>2, <2>1, <2>5
  <2> QED BY <2>2, <2>3, <2>4, <2>5
<1>13. AnonymisedWasDue'
  <2> SUFFICES ASSUME NEW a \in Account, Exists(a), ~account'[a].usable
               PROVE  ~account'[a].active /\ account'[a].deletion <= now
    BY <1>1, <1>5 DEF AnonymisedWasDue, Exists
  <2>1. CASE a \in Due
    BY <1>3, <2>1
  <2>2. CASE a \notin Due
    BY <1>2, <2>2 DEF AccessInv, AnonymisedWasDue
  <2> QED BY <2>1, <2>2
<1> QED BY <1>7, <1>8, <1>9, <1>10, <1>11, <1>12, <1>13 DEF AccessInv

(* Time passes between requests.                                           *)
LEMMA TickKeeps ==
  ASSUME AccessInv, Tick
  PROVE  AccessInv'
<1>1. /\ now \in Nat /\ now' = now + 1 /\ TypeOK
      /\ UNCHANGED <<account, redisUp, session>>
      /\ issued' \subseteq issued
      /\ blacklist' \subseteq blacklist
      /\ \A s \in Session : session[s].at = "idle"
  BY DEF Tick, AccessInv, TypeOK, At
<1> DEFINE m == [s \in Session |-> {e \in memory[s] : now' <= e.until}]
<1>2. /\ memory' = m
      /\ m \in [Session -> SUBSET Entry]
      /\ \A s \in Session : m[s] \subseteq memory[s]
  BY <1>1 DEF Tick, TypeOK
<1> HIDE DEF m
<1>3. /\ blacklist' \in SUBSET Entry /\ memory' \in [Session -> SUBSET Entry]
      /\ EntriesOutliveTokens'
  BY <1>1, <1>2, FewerEntries DEF AccessInv
<1>4. TypeOK'
  BY <1>1, <1>3 DEF TypeOK
<1>5. TokensFounded'
  <2> SUFFICES ASSUME NEW t \in issued PROVE TokenFounded(t)'
    BY <1>1 DEF TokensFounded
  <2>1. t \in Token /\ TokenFounded(t)
    BY <1>1 DEF AccessInv, TypeOK, TokensFounded
  <2>2. t.minted \in Nat
    BY <2>1, TokenParts
  <2> QED BY <1>1, <2>1, <2>2 DEF TokenFounded, ResetInTime, Exists
<1>6. PlansFounded' /\ SignupsApart'
  BY <1>1 DEF PlansFounded, Founded, Holding, SignupsApart, At
<1>7. OneAccountPerEmail'
  BY <1>1 DEF AccessInv, OneAccountPerEmail, Exists
<1>8. AnonymisedWasDue'
  <2>1. \A a \in Account : Exists(a) => account[a].deletion \in Nat
    BY <1>1, RowParts
  <2> QED BY <1>1, <2>1 DEF AccessInv, AnonymisedWasDue, Exists
<1> QED BY <1>3, <1>4, <1>5, <1>6, <1>7, <1>8 DEF AccessInv

(* Nothing here depends on whether Redis answers.                          *)
LEMMA RedisKeeps ==
  ASSUME AccessInv, redisUp' \in BOOLEAN,
         UNCHANGED <<account, issued, blacklist, memory, now, session>>
  PROVE  AccessInv'
<1>1. TypeOK' /\ EntriesOutliveTokens' /\ OneAccountPerEmail' /\ AnonymisedWasDue'
  BY DEF AccessInv, TypeOK, EntriesOutliveTokens, OneAccountPerEmail,
     AnonymisedWasDue, Exists, Expiry, Life
<1>2. TokensFounded' /\ SignupsApart'
  BY DEF AccessInv, TokensFounded, TokenFounded, ResetInTime, SignupsApart, Exists, At
<1>3. PlansFounded'
  BY DEF AccessInv, PlansFounded, Founded, TokenFounded, ResetInTime, Exists,
     Expired, Expiry, Life
<1> QED BY <1>1, <1>2, <1>3 DEF AccessInv

-----------------------------------------------------------------------------
(* The invariant, and what follows from it.                                *)

(* The empty tables, and every step from a state of the invariant.         *)
LEMMA AccessInit == Init => AccessInv
BY DEF Init, AccessInv, TypeOK, EntriesOutliveTokens, OneAccountPerEmail,
   TokensFounded, AnonymisedWasDue, PlansFounded, Founded, Holding, SignupsApart,
   Idle, Exists, At

LEMMA AccessStep == AccessInv /\ [Next]_vars => AccessInv'
<1> SUFFICES ASSUME AccessInv, [Next]_vars PROVE AccessInv'
  OBVIOUS
<1>1. CASE UNCHANGED vars
  <2>1. redisUp' \in BOOLEAN
    BY <1>1 DEF vars, AccessInv, TypeOK
  <2> QED BY <1>1, <2>1, RedisKeeps DEF vars
<1>2. CASE RedisFails
  BY <1>2, RedisKeeps DEF RedisFails, AccessInv, TypeOK
<1>3. ASSUME NEW s \in Session, NEW a \in Account, NEW e \in Address, Signup(s, a, e)
      PROVE  AccessInv'
  BY <1>3, SignupKeeps
<1>4. ASSUME NEW s \in Session, NEW a \in Account,
             Login(s, a) \/ \E nonce \in Nonce : ForgotPassword(s, a, nonce)
      PROVE  AccessInv'
  BY <1>4, HandOut
<1>5. ASSUME NEW s \in Session, NEW t \in issued,
             Refresh(s, t) \/ Present(s, t) \/ ResetPassword(s, t)
      PROVE  AccessInv'
  BY <1>5, Begins
<1>6. ASSUME NEW s \in Session,
             \/ CommitSignup(s) \/ Rotate(s) \/ Forbidden(s) \/ Logout(s)
             \/ RequestDeletion(s) \/ CommitDeletion(s) \/ CancelDeletion(s)
             \/ CommitReset(s) \/ Revoke(s) \/ Killed(s)
      PROVE  AccessInv'
  BY <1>6, CommitSignupKeeps, TokensMove, SignedIn, RowSteps, CancelKeeps, KilledKeeps
<1> QED BY <1>1, <1>2, <1>3, <1>4, <1>5, <1>6, AnonymisingKeeps, TickKeeps DEF Next

(* What makes the properties inductive holds in every reachable state, for *)
(* any users, tokens, workers, lives of tokens and faults.                 *)
THEOREM AccessInvariant == Spec => []AccessInv
BY AccessInit, AccessStep, PTL DEF Spec

(* Accounts, tokens, blacklists and plans hold values of their types.      *)
THEOREM AccessTypeCorrect == Spec => []TypeOK
<1>1. AccessInv => TypeOK
  BY DEF AccessInv
<1> QED BY <1>1, AccessInvariant, PTL

(* What is on the blacklist of Redis is taken off only when its time is    *)
(* over: an entry is replaced by a later one or waits for the clock.       *)
LEMMA EntriesStay ==
  ASSUME AccessInv, [Next]_vars, NEW e \in blacklist
  PROVE  \/ \E f \in blacklist' : f.token = e.token
         \/ ~(now' < e.until)
<1>1. CASE Tick
  BY <1>1 DEF Tick
<1>2. ASSUME NEW s \in Session, NEW t, BlacklistToken(s, t)
      PROVE  \E f \in blacklist' : f.token = e.token
  <2>1. blacklist' = Listed(blacklist, t) \/ blacklist' = blacklist
    BY <1>2 DEF BlacklistToken
  <2>2. CASE blacklist' = Listed(blacklist, t) /\ e.token = t
    <3>1. PICK f : f = [token |-> t, until |-> ListedUntil(t)]
      OBVIOUS
    <3>2. f \in blacklist' /\ f.token = t
      BY <2>2, <3>1 DEF Listed
    <3> QED BY <2>2, <3>2
  <2>3. CASE blacklist' = Listed(blacklist, t) /\ e.token # t
    BY <2>3 DEF Listed
  <2> QED BY <2>1, <2>2, <2>3
<1>3. CASE blacklist' = blacklist
  BY <1>3
<1>4. ASSUME NEW s \in Session
      PROVE  /\ Rotate(s) =>
                  BlacklistToken(s, session[s].token) \/ blacklist' = blacklist
             /\ Revoke(s) => BlacklistToken(s, session[s].token)
             /\ \/ CommitSignup(s) \/ Forbidden(s) \/ Logout(s)
                \/ RequestDeletion(s) \/ CommitDeletion(s) \/ CancelDeletion(s)
                \/ CommitReset(s) \/ Killed(s)
                => blacklist' = blacklist
             /\ \A a \in Account :
                  /\ \A m \in Address : Signup(s, a, m) => blacklist' = blacklist
                  /\ Login(s, a) => blacklist' = blacklist
                  /\ \A k \in Nonce :
                       ForgotPassword(s, a, k) => blacklist' = blacklist
             /\ \A t \in issued : Refresh(s, t) \/ Present(s, t) \/ ResetPassword(s, t)
                  => blacklist' = blacklist
  BY DEF Rotate, Revoke, CommitSignup, Forbidden, Logout, RequestDeletion,
     CommitDeletion, CancelDeletion, CommitReset, Killed, Signup, Login,
     ForgotPassword, Refresh, Present, ResetPassword, Begin
<1>5. ProcessExpiredDeletions \/ RedisFails \/ UNCHANGED vars
        => blacklist' = blacklist
  BY DEF ProcessExpiredDeletions, RedisFails, vars
<1> QED BY <1>1, <1>2, <1>3, <1>4, <1>5 DEF Next

(* A token that is on the blacklist of Redis stays there until the second  *)
(* in which it expires (blacklist_token, core/security.py), for any lives  *)
(* that are ordered as those of the settings.                              *)
THEOREM RevokedForLife == Spec => RevokedStaysRefused
<1>1. AccessInv /\ AccessInv' /\ [Next]_vars =>
        \A t \in issued : Revoked(t) /\ now' < Expiry(t) => Revoked(t)'
  <2> SUFFICES ASSUME AccessInv, AccessInv', [Next]_vars, NEW t \in issued,
                      Revoked(t), now' < Expiry(t)
               PROVE  Revoked(t)'
    OBVIOUS
  <2>1. PICK e \in blacklist : e.token = t
    BY DEF Revoked
  <2>2. /\ now' \in Nat /\ t \in Token /\ e.until \in Nat
        /\ Expiry(t) \in Nat /\ Expiry(t) <= e.until
        /\ \A f \in blacklist' : f.until \in Nat
    <3>1. TypeOK /\ TypeOK'
      BY DEF AccessInv
    <3>2. t \in Token /\ now' \in Nat /\ e \in Entry /\ blacklist' \subseteq Entry
      BY <3>1 DEF TypeOK
    <3>3. Expiry(t) <= e.until
      BY <2>1 DEF AccessInv, EntriesOutliveTokens
    <3> QED BY <3>2, <3>3, TokenParts DEF Expiry, Entry
  <2>3. PICK f \in blacklist' : f.token = t
    <3>1. now' < e.until
      BY <2>2
    <3> QED BY <2>1, <3>1, EntriesStay
  <2>4. Expiry(t) <= f.until
    BY <2>3 DEF AccessInv, EntriesOutliveTokens, Expiry, Life
  <2>5. now' < f.until
    BY <2>2, <2>4
  <2> QED BY <2>3, <2>5 DEF Revoked
<1>2. AccessInv /\ AccessInv' /\ [Next]_vars =>
        [\A t \in issued : Revoked(t) /\ now' < Expiry(t) => Revoked(t)']_vars
  BY <1>1
<1> QED BY <1>2, AccessInvariant, PTL DEF Spec, RevokedStaysRefused

(* No two accounts have the same address, whoever signs up at the same     *)
(* time and whatever is anonymised (AuthService.create_user,               *)
(* AccountDeletionService._anonymize_user).                                *)
THEOREM AddressesAreUnique == Spec => []OneAccountPerEmail
<1>1. AccessInv => OneAccountPerEmail
  BY DEF AccessInv
<1> QED BY <1>1, AccessInvariant, PTL

(* The steps that write to the table users, whatever they write.           *)
LEMMA AccountSteps ==
  ASSUME [Next]_vars, account' # account
  PROVE  \/ ProcessExpiredDeletions
         \/ \E s \in Session : \/ CommitSignup(s) \/ CommitDeletion(s)
                               \/ CommitReset(s) \/ CancelDeletion(s)
<1>1. ~UNCHANGED vars /\ ~RedisFails /\ ~Tick
  BY DEF vars, RedisFails, Tick
<1>2. ASSUME NEW s \in Session
      PROVE  /\ \A b \in Account : \A e \in Address : ~Signup(s, b, e)
             /\ \A b \in Account : ~Login(s, b)
             /\ \A b \in Account : \A nonce \in Nonce : ~ForgotPassword(s, b, nonce)
             /\ \A t \in issued : ~(Refresh(s, t) \/ Present(s, t) \/ ResetPassword(s, t))
             /\ ~Rotate(s) /\ ~Forbidden(s) /\ ~Logout(s) /\ ~RequestDeletion(s)
             /\ ~Revoke(s) /\ ~Killed(s)
  BY DEF Signup, Login, ForgotPassword, Refresh, Present, ResetPassword, Begin,
     Rotate, Forbidden, Logout, RequestDeletion, Revoke, Killed
<1> QED BY <1>1, <1>2 DEF Next

(* An account whose address was hashed and whose password was taken away   *)
(* never gets a password again: a reset token was given to an active user, *)
(* and is dead when the grace period ends.                                 *)
THEOREM AnonymisedForEver == Spec => AnonymisedStays
<1>1. AccessInv /\ [Next]_vars =>
        \A a \in Account : Exists(a) /\ ~account[a].usable => ~account'[a].usable
  <2> SUFFICES ASSUME AccessInv, [Next]_vars, NEW a \in Account, Exists(a),
                      ~account[a].usable, account'[a] # account[a]
               PROVE  ~account'[a].usable
    OBVIOUS
  <2>0. account[a] \in AccountRow /\ TypeOK
    BY RowParts DEF AccessInv
  <2>1. CASE ProcessExpiredDeletions
    <3>1. account'[a] \in {account[a], Anonymous(account[a])}
      BY <2>1 DEF ProcessExpiredDeletions
    <3> QED BY <2>0, <3>1, AnonymousRow
  <2>2. ASSUME NEW s \in Session, CommitSignup(s)
        PROVE  FALSE
    <3>1. session[s].user # a
      BY <2>2 DEF CommitSignup, At, AccessInv, PlansFounded, Founded
    <3> QED BY <2>0, <2>2, <3>1 DEF CommitSignup, TypeOK
  <2>3. ASSUME NEW s \in Session, CommitDeletion(s)
        PROVE  ~account'[a].usable
    <3>1. PICK u : account' = [account EXCEPT ![u].active = FALSE,
                                              ![u].deletion = now + Grace]
      BY <2>3 DEF CommitDeletion
    <3>2. [account[a] EXCEPT !.active = FALSE, !.deletion = now + Grace].usable
            = account[a].usable
      BY <2>0 DEF AccountRow
    <3> QED BY <2>0, <3>1, <3>2 DEF TypeOK
  <2>4. ASSUME NEW s \in Session, CommitReset(s)
        PROVE  FALSE
    <3>0. PICK t : t = session[s].token
      OBVIOUS
    <3>1. /\ account' = [account EXCEPT ![CurrentUser(s)].usable = TRUE]
          /\ session[s].at = "reset"
      BY <2>4 DEF CommitReset, At
    <3>2. t \in ResetToken
      <4>1. session[s] \in Plan \cup {Idle}
        BY <2>0 DEF TypeOK
      <4> QED BY <3>0, <3>1, <4>1, PlanParts
    <3>3. t.user = a
      <4>1. account'[a] = IF a = t.user THEN [account[a] EXCEPT !.usable = TRUE]
                                       ELSE account[a]
        BY <2>0, <3>0, <3>1 DEF CurrentUser, TypeOK
      <4> QED BY <4>1
    <3>4. TokenFounded(t) /\ ~Expired(t)
      BY <3>0, <3>1 DEF AccessInv, PlansFounded, Founded, Holding
    <3>5. ~account[a].active /\ account[a].deletion <= now
      BY DEF AccessInv, AnonymisedWasDue
    <3>6. t.minted \in Nat /\ t.kind = "reset" /\ Life(t) = ResetLife
      <4>1. t \in Token
        BY <3>2 DEF Token
      <4>2. t.kind = "reset"
        BY <3>2 DEF ResetToken
      <4> QED BY <4>1, <4>2, TokenParts
    <3>7. t.minted + Grace <= account[a].deletion
      BY <3>3, <3>4, <3>5, <3>6 DEF TokenFounded, ResetInTime
    <3>8. now <= t.minted + ResetLife
      BY <2>0, <3>4, <3>6, Lives DEF Expired, Expiry, TypeOK
    <3>9. /\ now \in Nat /\ account[a].deletion \in Nat
          /\ ResetLife \in Nat /\ Grace \in Nat /\ ResetLife < Grace
      BY <2>0, AccessAssumption DEF TypeOK, AccountRow
    <3> QED BY <3>5, <3>6, <3>7, <3>8, <3>9
  <2>5. ASSUME NEW s \in Session, CancelDeletion(s)
        PROVE  FALSE
    BY <2>5, NothingToCancel
  <2>6. \/ ProcessExpiredDeletions
        \/ \E s \in Session : \/ CommitSignup(s) \/ CommitDeletion(s)
                              \/ CommitReset(s) \/ CancelDeletion(s)
    BY AccountSteps
  <2> QED BY <2>1, <2>2, <2>3, <2>4, <2>5, <2>6
<1>2. AccessInv /\ [Next]_vars =>
        [\A a \in Account : Exists(a) /\ ~account[a].usable => ~account'[a].usable]_vars
  BY <1>1
<1> QED BY <1>2, AccessInvariant, PTL DEF Spec, AnonymisedStays

=============================================================================
