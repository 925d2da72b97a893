------------------------ MODULE Verification_proofs ------------------------
(***************************************************************************)
(* Proofs about verification, for any users, phones and requests, any      *)
(* lives of the keys, and with workers dying between two commands.         *)
(***************************************************************************)
EXTENDS Verification, FiniteSetTheorems, TLAPS

-----------------------------------------------------------------------------
(* The keys that are set live for a while.                                 *)
LEMMA Lives ==
  /\ CodeLife \in 0..CodeLife /\ CooldownLife \in 0..CooldownLife
  /\ 0 \in 0..CodeLife /\ 0 \in 0..CooldownLife
  /\ LockLife \in 1..LockLife /\ LockLife \in Nat
  /\ MaxAttempts \in Nat /\ MaxAttempts > 1
<1>1. /\ CodeLife \in Nat \ {0}
      /\ CooldownLife \in Nat \ {0}
      /\ LockLife \in Nat \ {0}
  BY VerificationAssumption
<1> QED BY <1>1, VerificationAssumption

(* What the steps do to the plan of a request.                             *)

(* A request that goes on to another step keeps its user and its phone.    *)
LEMMA GotoType ==
  ASSUME NEW s \in Session, session \in [Session -> Plan \cup {Idle}],
         NEW here \in RequestSteps \cup VerifySteps, At(s, here),
         NEW step \in RequestSteps \cup VerifySteps
  PROVE  /\ UserOf(s) \in User
         /\ PhoneOf(s) \in Phone
         /\ [session[s] EXCEPT !.at = step] \in Plan
         /\ Goto(s, step) => session' \in [Session -> Plan \cup {Idle}]
<1>1. session[s] \in Plan
  <2>1. here # "idle"
    BY DEF RequestSteps, VerifySteps
  <2>2. Idle.at = "idle"
    BY DEF Idle
  <2>3. session[s] # Idle
    BY <2>1, <2>2 DEF At
  <2> QED BY <2>3
<1>2. session[s] \in [at : RequestSteps \cup VerifySteps, user : User, phone : Phone]
  BY <1>1 DEF At, Plan, RequestSteps, VerifySteps
<1>3. [session[s] EXCEPT !.at = step] \in Plan
  BY <1>2 DEF Plan
<1> QED BY <1>2, <1>3 DEF UserOf, PhoneOf, Goto

(* A request that ends keeps the types.                                    *)
LEMMA EndType ==
  ASSUME NEW s \in Session, session \in [Session -> Plan \cup {Idle}],
         Become(s, Idle)
  PROVE  session' \in [Session -> Plan \cup {Idle}]
BY DEF Become

(* Every step of a request keeps the types.                                *)
LEMMA RequestStepType ==
  ASSUME TypeOK, NEW s \in Session,
         \/ CheckCooldown(s) \/ SetCode(s) \/ SetCooldown(s) \/ CommitPhone(s)
         \/ SmsSent(s) \/ SmsFailed(s)
  PROVE  TypeOK'
<1> USE DEF TypeOK, keys
<1>1. CASE CheckCooldown(s)
  BY <1>1, EndType, GotoType DEF CheckCooldown, RequestSteps
<1>2. CASE SetCode(s)
  BY <1>2, GotoType, Lives DEF SetCode, RequestSteps
<1>3. CASE SetCooldown(s)
  BY <1>3, GotoType, Lives DEF SetCooldown, RequestSteps
<1>4. CASE CommitPhone(s)
  <2>1. UserOf(s) \in User /\ PhoneOf(s) \in Phone
    BY <1>4, GotoType DEF CommitPhone, RequestSteps
  <2>2. user' \in [User -> UserRow]
    BY <1>4, <2>1 DEF CommitPhone, UserRow
  <2> QED BY <1>4, <2>2, GotoType DEF CommitPhone, RequestSteps
<1>5. CASE SmsSent(s)
  BY <1>5, EndType DEF SmsSent
<1>6. CASE SmsFailed(s)
  BY <1>6, GotoType DEF SmsFailed, RequestSteps
<1> QED BY <1>1, <1>2, <1>3, <1>4, <1>5, <1>6

(* Counting a failure keeps the types.                                     *)
LEMMA CountFailureType ==
  ASSUME TypeOK, NEW s \in Session, CountFailure(s)
  PROVE  TypeOK'
<1> DEFINE p == PhoneOf(s)
           count == attempts[p].count + 1
           new == [count |-> count,
                   ttl |-> IF count = 1 THEN Forever ELSE attempts[p].ttl]
<1>1. p \in Phone
  BY GotoType DEF CountFailure, VerifySteps, TypeOK
<1>2. attempts[p] \in CountKey
  BY <1>1 DEF TypeOK
<1>3. attempts[p].count \in Nat
  BY <1>2 DEF CountKey
<1>4. count # 1 => attempts[p].ttl \in 1..LockLife \cup {Forever}
  BY <1>2, <1>3 DEF CountKey
<1>5. new \in CountKey
  BY <1>3, <1>4 DEF CountKey
<1>6. attempts' = [attempts EXCEPT ![p] = new]
  BY DEF CountFailure
<1>7. attempts' \in [Phone -> CountKey]
  BY <1>1, <1>5, <1>6 DEF TypeOK
<1>8. session' \in [Session -> Plan \cup {Idle}]
  BY EndType, GotoType DEF CountFailure, VerifySteps, TypeOK
<1> QED BY <1>7, <1>8 DEF CountFailure, TypeOK

(* Giving the count a time to live keeps the types.                        *)
LEMMA ExpireType ==
  ASSUME TypeOK, NEW s \in Session, Expire(s)
  PROVE  TypeOK'
<1> DEFINE p == PhoneOf(s)
<1>1. p \in Phone
  BY GotoType DEF Expire, VerifySteps, TypeOK
<1>2. attempts[p] \in CountKey
  BY <1>1 DEF TypeOK
<1>3. attempts[p] # AbsentCount =>
        [attempts[p] EXCEPT !.ttl = LockLife] \in CountKey
  BY <1>2, Lives DEF CountKey, AbsentCount
<1>4. attempts' \in [Phone -> CountKey]
  BY <1>1, <1>3 DEF Expire, TypeOK
<1> QED BY <1>4, EndType DEF Expire, TypeOK

(* The other steps of checking a code keep the types.                      *)
LEMMA VerifyStepType ==
  ASSUME TypeOK, NEW s \in Session,
         \/ CompareCode(s) \/ CommitVerified(s) \/ ClearAttempts(s)
         \/ DeleteCodeSteps(s) \/ DeleteCooldownSteps(s) \/ CommitBusiness(s)
  PROVE  TypeOK'
<1> USE DEF TypeOK, keys
<1>1. CASE CompareCode(s)
  BY <1>1, EndType, GotoType DEF CompareCode, VerifySteps
<1>2. CASE CommitVerified(s)
  <2>1. UserOf(s) \in User /\ PhoneOf(s) \in Phone
    BY <1>2, GotoType DEF CommitVerified, VerifySteps
  <2>2. user' \in [User -> UserRow]
    BY <1>2, <2>1 DEF CommitVerified, UserRow
  <2> QED BY <1>2, <2>2, GotoType DEF CommitVerified, VerifySteps
<1>3. CASE ClearAttempts(s)
  <2>1. AbsentCount \in CountKey
    BY DEF AbsentCount, CountKey
  <2> QED BY <1>3, <2>1, GotoType DEF ClearAttempts, VerifySteps
<1>4. CASE DeleteCodeSteps(s)
  <2>1. code' \in [Phone -> 0..CodeLife]
    BY <1>4, Lives DEF DeleteCodeSteps, DeleteCode
  <2>2. CASE DeleteCode(s, "forget", Idle)
    BY <2>1, <2>2 DEF DeleteCode
  <2>3. CASE DeleteCode(s, "unset code", [session[s] EXCEPT !.at = "unset cooldown"])
    BY <2>1, <2>3, GotoType DEF DeleteCode, RequestSteps
  <2>4. CASE DeleteCode(s, "clear code", [session[s] EXCEPT !.at = "clear attempts"])
    BY <2>1, <2>4, GotoType DEF DeleteCode, VerifySteps
  <2> QED BY <1>4, <2>2, <2>3, <2>4 DEF DeleteCodeSteps
<1>5. CASE DeleteCooldownSteps(s)
  BY <1>5, EndType, Lives DEF DeleteCooldownSteps, DeleteCooldown
<1>6. CASE CommitBusiness(s)
  <2>1. session[s] \in [at : {"ask"}, user : Studio, number : Business]
    <3>1. session[s].at = "ask" /\ session[s] \in Plan \cup {Idle}
      BY <1>6 DEF CommitBusiness, At
    <3> HIDE DEF TypeOK
    <3>2. session[s] # Idle
      BY <3>1 DEF Idle
    <3>3. "ask" \notin RequestSteps \cup VerifySteps
      BY DEF RequestSteps, VerifySteps
    <3> QED BY <3>1, <3>2, <3>3 DEF Plan
  <2>2. UserOf(s) \in User /\ session[s].number \in Business
    BY <2>1, VerificationAssumption DEF UserOf
  <2>3. user' \in [User -> UserRow]
    BY <1>6, <2>2 DEF CommitBusiness, UserRow
  <2> QED BY <1>6, <2>3, EndType DEF CommitBusiness
<1> QED BY <1>1, <1>2, <1>3, <1>4, <1>5, <1>6

(* New requests keep the types.                                            *)
LEMMA BeginType ==
  ASSUME TypeOK, NEW s \in Session, NEW u \in User,
         \/ \E p \in Phone : RequestCode(s, u, p) \/ CheckLock(s, u, p)
         \/ \E n \in Business : VerifyBusiness(s, u, n)
  PROVE  TypeOK'
<1>1. ASSUME NEW p \in Phone, RequestCode(s, u, p)
      PROVE  TypeOK'
  BY <1>1 DEF RequestCode, Become, TypeOK, keys, Plan, RequestSteps
<1>2. ASSUME NEW p \in Phone, CheckLock(s, u, p)
      PROVE  TypeOK'
  BY <1>2 DEF CheckLock, Become, TypeOK, keys, Plan, VerifySteps
<1>3. ASSUME NEW n \in Business, VerifyBusiness(s, u, n)
      PROVE  TypeOK'
  BY <1>3 DEF VerifyBusiness, Become, TypeOK, keys, Plan
<1> QED BY <1>1, <1>2, <1>3

(* Time keeps the types.                                                   *)
LEMMA TickType == TypeOK /\ Tick => TypeOK'
<1> SUFFICES ASSUME TypeOK, Tick PROVE TypeOK'
  OBVIOUS
<1>1. \A n \in Nat : \A t \in 0..n : Older(t) \in 0..n
  BY DEF Older
<1>2. ASSUME NEW p \in Phone
      PROVE  /\ Older(code[p]) \in 0..CodeLife
             /\ Older(cooldown[p]) \in 0..CooldownLife
  BY <1>1, VerificationAssumption DEF TypeOK
<1>3. ASSUME NEW a \in CountKey
      PROVE  (IF a.ttl = Forever THEN a
              ELSE IF a.ttl <= 1 THEN AbsentCount
              ELSE [a EXCEPT !.ttl = @ - 1]) \in CountKey
  <2>1. CASE a \in [count : Nat \ {0}, ttl : 1..LockLife \cup {Forever}]
    <3>1. CASE a.ttl = Forever
      BY <2>1, <3>1 DEF CountKey
    <3>2. CASE a.ttl # Forever /\ a.ttl <= 1
      <4>1. AbsentCount \in CountKey
        BY DEF CountKey, AbsentCount
      <4> QED BY <3>2, <4>1
    <3>3. CASE a.ttl # Forever /\ ~(a.ttl <= 1)
      <4>1. a.ttl \in 1..LockLife /\ a.ttl - 1 \in 1..LockLife
        BY <2>1, <3>3, Lives
      <4> QED BY <2>1, <3>3, <4>1 DEF CountKey
    <3> QED BY <3>1, <3>2, <3>3
  <2>2. CASE a \in [count : {0}, ttl : {0}]
    BY <2>2 DEF CountKey, AbsentCount, Forever
  <2> QED BY <2>1, <2>2 DEF CountKey
<1>4. attempts' \in [Phone -> CountKey]
  BY <1>3 DEF Tick, TypeOK
<1> QED BY <1>2, <1>4 DEF Tick, TypeOK

(* The keys of Redis, the columns of users and every request hold values   *)
(* of their types, however commands interleave and workers die.            *)
THEOREM VerificationTypeCorrect == Spec => []TypeOK
<1>1. Init => TypeOK
  BY VerificationAssumption DEF Init, TypeOK, CountKey, AbsentCount, UserRow
<1>2. TypeOK /\ [Next]_vars => TypeOK'
  <2> SUFFICES ASSUME TypeOK, [Next]_vars PROVE TypeOK'
    OBVIOUS
  <2>1. CASE UNCHANGED vars
    BY <2>1 DEF TypeOK, vars
  <2>2. ASSUME NEW s \in Session, Step(s) PROVE TypeOK'
    BY <2>2, RequestStepType, CountFailureType, ExpireType, VerifyStepType
       DEF Step
  <2>3. ASSUME NEW s \in Session, Killed(s) PROVE TypeOK'
    BY <2>3, EndType DEF Killed, TypeOK, keys
  <2> QED BY <2>1, <2>2, <2>3, BeginType, TickType DEF Next
<1> QED BY <1>1, <1>2, PTL DEF Spec

-----------------------------------------------------------------------------
(* How many attempts a phone gets.                                         *)

(* The requests are finitely many, and so are those that may still count.  *)
LEMMA Guesses ==
  ASSUME NEW p
  PROVE  /\ IsFiniteSet(Guessing(p))
         /\ Cardinality(Guessing(p)) \in Nat
         /\ Cardinality(Session) \in Nat
         /\ Cardinality(Guessing(p)) <= Cardinality(Session)
<1>1. Guessing(p) \in SUBSET Session
  BY DEF Guessing
<1> QED BY <1>1, VerificationAssumption, FS_Subset, FS_CardinalityType

(* Bounds add up.                                                          *)
LEMMA BoundsAdd ==
  ASSUME NEW a \in Int, NEW b \in Int, NEW c \in Int, NEW d \in Int,
         a <= c, b <= d
  PROVE  a + b <= c + d
OBVIOUS

(* As long as no count grows and no request begins to guess, the bound is  *)
(* kept.                                                                   *)
LEMMA FewerGuesses ==
  ASSUME TypeOK, AttemptsBounded,
         \A p \in Phone : /\ attempts'[p].count \in Nat
                          /\ attempts'[p].count <= attempts[p].count
                          /\ Guessing(p)' \subseteq Guessing(p)
  PROVE  AttemptsBounded'
<1> SUFFICES ASSUME NEW p \in Phone
             PROVE  attempts'[p].count + Cardinality(Guessing(p)')
                      <= MaxAttempts - 1 + Cardinality(Session)
  BY DEF AttemptsBounded
<1>1. Guessing(p)' \in SUBSET Guessing(p)
  OBVIOUS
<1>2. /\ Cardinality(Guessing(p)') <= Cardinality(Guessing(p))
      /\ Cardinality(Guessing(p)') \in Nat
  BY <1>1, Guesses, FS_Subset, FS_CardinalityType
<1>3. attempts[p].count \in Nat
  BY DEF TypeOK, CountKey
<1>4. attempts[p].count + Cardinality(Guessing(p))
        <= MaxAttempts - 1 + Cardinality(Session)
  BY DEF AttemptsBounded
<1> QED BY <1>2, <1>3, <1>4, Guesses, Lives

(* A request moves on to a step that counts nothing.                       *)
LEMMA MovesOn ==
  ASSUME NEW T, session \in [Session -> T],
         NEW s \in Session, NEW plan, Become(s, plan),
         \/ plan.at \notin {"compare", "count"}
         \/ /\ session[s].at \in {"compare", "count"}
            /\ plan.phone = session[s].phone
  PROVE  \A p \in Phone : Guessing(p)' \subseteq Guessing(p)
<1> SUFFICES ASSUME NEW p \in Phone, NEW r \in Session,
                    session'[r].at \in {"compare", "count"},
                    session'[r].phone = p
             PROVE  session[r].at \in {"compare", "count"} /\ session[r].phone = p
  BY DEF Guessing, PhoneOf
<1>1. CASE r = s
  <2>1. session'[r] = plan
    BY <1>1 DEF Become
  <2> QED BY <1>1, <2>1
<1>2. CASE r # s
  <2>1. session'[r] = session[r]
    BY <1>2 DEF Become
  <2> QED BY <2>1
<1> QED BY <1>1, <1>2

(* To go to a step is to become the same request at that step.             *)
LEMMA GotoBecomes ==
  ASSUME NEW s \in Session, session \in [Session -> Plan \cup {Idle}],
         NEW here \in RequestSteps \cup VerifySteps, At(s, here),
         NEW step \in RequestSteps \cup VerifySteps, Goto(s, step)
  PROVE  \E plan : Become(s, plan) /\ plan.at = step /\ plan.phone = session[s].phone
<1> DEFINE plan == [session[s] EXCEPT !.at = step]
<1>1. session[s] \in [at : RequestSteps \cup VerifySteps, user : User, phone : Phone]
  <2>1. here # "idle" /\ here # "ask"
    BY DEF RequestSteps, VerifySteps
  <2>2. session[s].at = here /\ session[s] \in Plan \cup {Idle}
    BY DEF At
  <2>3. session[s] # Idle
    BY <2>1, <2>2 DEF Idle
  <2> QED BY <2>1, <2>2, <2>3 DEF Plan
<1>2. plan.at = step /\ plan.phone = session[s].phone
  BY <1>1
<1>3. Become(s, plan)
  BY DEF Goto, Become
<1> QED BY <1>2, <1>3

(* Going to a step that counts nothing, and ending, guess no more.         *)
LEMMA GoesOn ==
  ASSUME TypeOK, NEW s \in Session,
         NEW here \in RequestSteps \cup VerifySteps, At(s, here),
         \/ Become(s, Idle)
         \/ \E step \in (RequestSteps \cup VerifySteps) \ {"compare", "count"} :
              Goto(s, step)
  PROVE  \A p \in Phone : Guessing(p)' \subseteq Guessing(p)
<1>1. CASE Become(s, Idle)
  <2>1. Idle.at \notin {"compare", "count"}
    BY DEF Idle
  <2> QED BY <1>1, <2>1, MovesOn DEF TypeOK
<1>2. ASSUME NEW step \in (RequestSteps \cup VerifySteps) \ {"compare", "count"},
             Goto(s, step)
      PROVE  \A p \in Phone : Guessing(p)' \subseteq Guessing(p)
  <2>1. PICK plan : Become(s, plan) /\ plan.at = step
    BY <1>2, GotoBecomes DEF TypeOK
  <2>2. plan.at \notin {"compare", "count"}
    BY <1>2, <2>1
  <2> QED BY <2>1, <2>2, MovesOn DEF TypeOK
<1> QED BY <1>1, <1>2

(* A counted failure moves one request from the guessing to the count.     *)
LEMMA CountFailureBounded ==
  ASSUME TypeOK, AttemptsBounded, NEW s \in Session, CountFailure(s)
  PROVE  AttemptsBounded'
<1>1. PICK q \in Phone : q = PhoneOf(s)
  BY GotoType DEF CountFailure, VerifySteps, TypeOK
<1>2. At(s, "count") /\ "count" \in RequestSteps \cup VerifySteps
  BY DEF CountFailure, VerifySteps
<1>3. \/ Become(s, Idle)
      \/ \E step \in (RequestSteps \cup VerifySteps) \ {"compare", "count"} :
           Goto(s, step)
  BY DEF CountFailure, VerifySteps
<1>4. \A p \in Phone : Guessing(p)' \subseteq Guessing(p)
  BY <1>2, <1>3, GoesOn
<1>10. s \in Guessing(q)
  BY <1>1, <1>2 DEF Guessing, At
<1>11. session'[s].at \notin {"compare", "count"}
  <2>1. CASE Become(s, Idle)
    BY <2>1 DEF Become, Idle, TypeOK
  <2>2. ASSUME NEW step \in (RequestSteps \cup VerifySteps) \ {"compare", "count"},
               Goto(s, step)
        PROVE  session'[s].at \notin {"compare", "count"}
    <3>1. PICK plan : Become(s, plan) /\ plan.at = step
      BY <1>2, <2>2, GotoBecomes DEF TypeOK
    <3> QED BY <2>2, <3>1 DEF Become, TypeOK
  <2> QED BY <1>3, <2>1, <2>2
<1>12. s \notin Guessing(q)'
  BY <1>11 DEF Guessing
<1>5. /\ attempts'[q].count = attempts[q].count + 1
      /\ \A p \in Phone : p # q => attempts'[p] = attempts[p]
  BY <1>1 DEF CountFailure, TypeOK
<1>6. \A p \in Phone : attempts[p].count \in Nat
  BY DEF TypeOK, CountKey
<1> SUFFICES ASSUME NEW p \in Phone
             PROVE  attempts'[p].count + Cardinality(Guessing(p)')
                      <= MaxAttempts - 1 + Cardinality(Session)
  BY DEF AttemptsBounded
<1>7. attempts[p].count + Cardinality(Guessing(p))
        <= MaxAttempts - 1 + Cardinality(Session)
  BY DEF AttemptsBounded
<1>8. CASE p = q
  <2>1. Guessing(q)' \in SUBSET (Guessing(q) \ {s})
    <3>1. Guessing(q)' \subseteq Guessing(q)
      BY <1>4
    <3> QED BY <3>1, <1>12
  <2>2. /\ IsFiniteSet(Guessing(q) \ {s})
        /\ Cardinality(Guessing(q) \ {s}) = Cardinality(Guessing(q)) - 1
    BY <1>10, Guesses, FS_RemoveElement
  <2>3. /\ Cardinality(Guessing(q)') <= Cardinality(Guessing(q)) - 1
        /\ Cardinality(Guessing(q)') \in Nat
    BY <2>1, <2>2, FS_Subset, FS_CardinalityType
  <2>4. /\ attempts'[p].count = attempts[p].count + 1
        /\ attempts[p].count \in Nat
    BY <1>1, <1>5, <1>6, <1>8
  <2>5. Cardinality(Guessing(p)') <= Cardinality(Guessing(p)) - 1
    BY <1>8, <2>3
  <2>6. Cardinality(Guessing(p)') \in Nat
    BY <1>8, <2>3
  <2> QED BY <1>7, <2>4, <2>5, <2>6, Guesses, Lives
<1>9. CASE p # q
  <2>1. Guessing(p)' \in SUBSET Guessing(p)
    BY <1>4
  <2>2. /\ Cardinality(Guessing(p)') <= Cardinality(Guessing(p))
        /\ Cardinality(Guessing(p)') \in Nat
    BY <2>1, Guesses, FS_Subset, FS_CardinalityType
  <2> QED BY <1>5, <1>6, <1>7, <1>9, <2>2, Guesses, Lives
<1> QED BY <1>8, <1>9

(* A request that begins to guess has seen a count below the limit.        *)
LEMMA CheckLockBounded ==
  ASSUME TypeOK, AttemptsBounded, NEW s \in Session, NEW u \in User,
         NEW q \in Phone, CheckLock(s, u, q)
  PROVE  AttemptsBounded'
<1> SUFFICES ASSUME NEW p \in Phone
             PROVE  attempts'[p].count + Cardinality(Guessing(p)')
                      <= MaxAttempts - 1 + Cardinality(Session)
  BY DEF AttemptsBounded
<1>1. attempts' = attempts /\ attempts[p].count \in Nat
  BY DEF CheckLock, keys, TypeOK, CountKey
<1>2. Guessing(p)' \in SUBSET Session
  BY DEF Guessing
<1>3. /\ Cardinality(Guessing(p)') <= Cardinality(Session)
      /\ Cardinality(Guessing(p)') \in Nat
  BY <1>2, VerificationAssumption, FS_Subset, FS_CardinalityType
<1>4. CASE p = q
  <2>1. attempts[p].count <= MaxAttempts - 1
    BY <1>1, <1>4, Lives DEF CheckLock, Locked
  <2>2. MaxAttempts - 1 \in Int
    BY Lives
  <2>3. Cardinality(Session) \in Int
    BY Guesses
  <2> QED BY <1>1, <1>3, <2>1, <2>2, <2>3, BoundsAdd
<1>5. CASE p # q
  <2>1. Guessing(p)' \in SUBSET Guessing(p)
    <3> SUFFICES ASSUME NEW r \in Session,
                        session'[r].at \in {"compare", "count"},
                        session'[r].phone = p
                 PROVE  session[r].at \in {"compare", "count"} /\ session[r].phone = p
      BY DEF Guessing, PhoneOf
    <3>1. session'[s].phone = q
      BY DEF CheckLock, Become, TypeOK
    <3>2. r # s
      BY <1>5, <3>1
    <3>3. session'[r] = session[r]
      BY <3>2 DEF CheckLock, Become, TypeOK
    <3> QED BY <3>3
  <2>2. Cardinality(Guessing(p)') <= Cardinality(Guessing(p))
    BY <2>1, Guesses, FS_Subset
  <2>3. attempts[p].count + Cardinality(Guessing(p))
          <= MaxAttempts - 1 + Cardinality(Session)
    BY DEF AttemptsBounded
  <2> QED BY <1>1, <1>3, <2>2, <2>3, Guesses, Lives
<1> QED BY <1>4, <1>5

(* The steps that change no count keep the bound.                          *)
LEMMA SameCountsBounded ==
  ASSUME TypeOK, AttemptsBounded, attempts' = attempts,
         \A p \in Phone : Guessing(p)' \subseteq Guessing(p)
  PROVE  AttemptsBounded'
<1>1. \A p \in Phone : attempts[p].count \in Nat
  BY DEF TypeOK, CountKey
<1> QED BY <1>1, FewerGuesses

(* A code that is compared was going to be: the guessing goes on.          *)
LEMMA CompareBounded ==
  ASSUME TypeOK, AttemptsBounded, NEW s \in Session, CompareCode(s)
  PROVE  AttemptsBounded'
<1>1. At(s, "compare") /\ "compare" \in VerifySteps /\ attempts' = attempts
  BY DEF CompareCode, VerifySteps, keys
<1>2. CASE Become(s, Idle) \/ Goto(s, "commit verified")
  <2>1. "commit verified" \in VerifySteps
    BY DEF VerifySteps
  <2> QED BY <1>1, <1>2, <2>1, GoesOn, SameCountsBounded
<1>3. CASE Goto(s, "count")
  <2>1. "count" \in VerifySteps
    BY DEF VerifySteps
  <2>2. PICK plan : Become(s, plan) /\ plan.phone = session[s].phone
    BY <1>1, <1>3, <2>1, GotoBecomes DEF TypeOK
  <2>3. session[s].at \in {"compare", "count"}
    BY <1>1 DEF At
  <2>4. \A p \in Phone : Guessing(p)' \subseteq Guessing(p)
    BY <2>2, <2>3, MovesOn DEF TypeOK
  <2> QED BY <1>1, <2>4, SameCountsBounded
<1> QED BY <1>2, <1>3 DEF CompareCode

(* The commands that delete a key go on to a step that counts nothing.     *)
LEMMA DeleteBounded ==
  ASSUME TypeOK, AttemptsBounded, NEW s \in Session,
         DeleteCodeSteps(s) \/ DeleteCooldownSteps(s)
  PROVE  AttemptsBounded'
<1>1. attempts' = attempts
  BY DEF DeleteCodeSteps, DeleteCode, DeleteCooldownSteps, DeleteCooldown
<1>2. CASE DeleteCodeSteps(s)
  <2>1. CASE DeleteCode(s, "forget", Idle)
    BY <1>1, <2>1, GoesOn, SameCountsBounded DEF DeleteCode, Become, VerifySteps
  <2>2. CASE DeleteCode(s, "unset code", [session[s] EXCEPT !.at = "unset cooldown"])
    <3>1. At(s, "unset code") /\ Goto(s, "unset cooldown")
      BY <2>2 DEF DeleteCode, Goto
    <3> QED BY <1>1, <3>1, GoesOn, SameCountsBounded DEF RequestSteps
  <2>3. CASE DeleteCode(s, "clear code", [session[s] EXCEPT !.at = "clear attempts"])
    <3>1. At(s, "clear code") /\ Goto(s, "clear attempts")
      BY <2>3 DEF DeleteCode, Goto
    <3> QED BY <1>1, <3>1, GoesOn, SameCountsBounded DEF VerifySteps
  <2> QED BY <1>2, <2>1, <2>2, <2>3 DEF DeleteCodeSteps
<1>3. CASE DeleteCooldownSteps(s)
  BY <1>1, <1>3, GoesOn, SameCountsBounded
     DEF DeleteCooldownSteps, DeleteCooldown, RequestSteps, VerifySteps
<1> QED BY <1>2, <1>3

(* Forgetting the wrong codes and giving their count a time to live keep   *)
(* the bound.                                                              *)
LEMMA CountStepsBounded ==
  ASSUME TypeOK, AttemptsBounded, NEW s \in Session,
         ClearAttempts(s) \/ Expire(s)
  PROVE  AttemptsBounded'
<1>1. \A p \in Phone : attempts[p].count \in Nat
  BY DEF TypeOK, CountKey
<1>2. \A p \in Phone : Guessing(p)' \subseteq Guessing(p)
  <2>1. CASE ClearAttempts(s)
    BY <2>1, GoesOn DEF ClearAttempts, VerifySteps
  <2>2. CASE Expire(s)
    BY <2>2, GoesOn DEF Expire, VerifySteps
  <2> QED BY <2>1, <2>2
<1>3. \A p \in Phone : attempts'[p].count \in {attempts[p].count, 0}
  <2>1. CASE ClearAttempts(s)
    BY <2>1 DEF ClearAttempts, AbsentCount, TypeOK
  <2>2. CASE Expire(s)
    BY <2>2 DEF Expire, TypeOK, CountKey
  <2> QED BY <2>1, <2>2
<1>4. \A p \in Phone : /\ attempts'[p].count \in Nat
                        /\ attempts'[p].count <= attempts[p].count
  BY <1>1, <1>3
<1> QED BY <1>2, <1>4, FewerGuesses

(* No step of a request exceeds the bound.                                 *)
LEMMA StepBounded ==
  ASSUME TypeOK, AttemptsBounded, NEW s \in Session, Step(s)
  PROVE  AttemptsBounded'
<1> USE DEF keys
<1>1. CASE \/ CheckCooldown(s) \/ SetCode(s) \/ SetCooldown(s)
           \/ CommitPhone(s) \/ SmsSent(s) \/ SmsFailed(s)
  BY <1>1, GoesOn, SameCountsBounded
     DEF CheckCooldown, SetCode, SetCooldown, CommitPhone, SmsSent, SmsFailed,
         RequestSteps
<1>2. CASE CommitVerified(s)
  BY <1>2, GoesOn, SameCountsBounded DEF CommitVerified, VerifySteps
<1>3. CASE CommitBusiness(s)
  <2>1. Idle.at \notin {"compare", "count"}
    BY DEF Idle
  <2> QED BY <1>3, <2>1, MovesOn, SameCountsBounded DEF CommitBusiness, TypeOK
<1> QED BY <1>1, <1>2, <1>3, CountFailureBounded, CompareBounded, DeleteBounded,
           CountStepsBounded DEF Step

(* A phone is granted at most one attempt too many for each other request  *)
(* in progress, whatever overlaps and dies (verify_phone looks at the lock *)
(* before it compares, and counts after).                                  *)
THEOREM AttemptsAreBounded == Spec => []AttemptsBounded
<1>1. Init => AttemptsBounded
  <2> SUFFICES ASSUME Init, NEW p \in Phone
               PROVE  attempts[p].count + Cardinality(Guessing(p))
                        <= MaxAttempts - 1 + Cardinality(Session)
    BY DEF AttemptsBounded
  <2>1. Guessing(p) = {}
    BY DEF Init, Guessing, Idle
  <2>2. attempts[p].count = 0
    BY DEF Init, AbsentCount
  <2> QED BY <2>1, <2>2, FS_EmptySet, Guesses, Lives
<1>2. TypeOK /\ AttemptsBounded /\ [Next]_vars => AttemptsBounded'
  <2> SUFFICES ASSUME TypeOK, AttemptsBounded, [Next]_vars
               PROVE  AttemptsBounded'
    OBVIOUS
  <2>1. \A p \in Phone : attempts[p].count \in Nat
    BY DEF TypeOK, CountKey
  <2>2. CASE UNCHANGED vars
    BY <2>2 DEF vars, AttemptsBounded, Guessing, PhoneOf
  <2>3. ASSUME NEW s \in Session, NEW u \in User, NEW p \in Phone,
               RequestCode(s, u, p)
        PROVE  AttemptsBounded'
    BY <2>3, MovesOn, SameCountsBounded DEF RequestCode, keys, TypeOK
  <2>4. ASSUME NEW s \in Session, NEW u \in User, NEW p \in Phone,
               CheckLock(s, u, p)
        PROVE  AttemptsBounded'
    BY <2>4, CheckLockBounded
  <2>5. ASSUME NEW s \in Session, NEW u \in User, NEW n \in Business,
               VerifyBusiness(s, u, n)
        PROVE  AttemptsBounded'
    BY <2>5, MovesOn, SameCountsBounded DEF VerifyBusiness, keys, TypeOK
  <2>6. ASSUME NEW s \in Session, Killed(s) PROVE AttemptsBounded'
    <3>1. Idle.at \notin {"compare", "count"}
      BY DEF Idle
    <3> QED BY <2>6, <3>1, MovesOn, SameCountsBounded DEF Killed, keys, TypeOK
  <2>7. CASE Tick
    <3>1. \A q \in Phone : Guessing(q)' = Guessing(q)
      BY <2>7 DEF Tick, Guessing, PhoneOf
    <3>2. \A q \in Phone : /\ attempts'[q].count \in Nat
                            /\ attempts'[q].count <= attempts[q].count
      BY <2>1, <2>7 DEF Tick, AbsentCount, TypeOK, CountKey
    <3> QED BY <3>1, <3>2, FewerGuesses
  <2> QED BY <2>2, <2>3, <2>4, <2>5, <2>6, <2>7, StepBounded DEF Next
<1> QED BY <1>1, <1>2, VerificationTypeCorrect, PTL DEF Spec

-----------------------------------------------------------------------------
(* The digits of a number, one by one.                                     *)
LEMMA Digits ==
  ASSUME NEW n \in Number
  PROVE  /\ n[1] \in Nat /\ n[2] \in Nat /\ n[3] \in Nat /\ n[4] \in Nat
         /\ n[5] \in Nat /\ n[6] \in Nat /\ n[7] \in Nat /\ n[8] \in Nat
         /\ n[9] \in Nat /\ n[10] \in Nat
  BY DEF Number, Digit

(* The digits of one weight.                                               *)
Ones(n) == n[1] + n[4] + n[7]
Threes(n) == n[2] + n[5] + n[8]
Sevens(n) == n[3] + n[6]
Carry(n) == (n[9] * 5) \div 10

LEMMA TotalIs ==
  ASSUME NEW n \in Number
  PROVE  /\ Ones(n) \in Nat /\ Threes(n) \in Nat /\ Sevens(n) \in Nat
         /\ Carry(n) \in Nat
         /\ Total(n) = Ones(n) + 3 * Threes(n) + 7 * Sevens(n) + 5 * n[9] + Carry(n)
         /\ Total(n) \in Nat
<1>1. Ones(n) \in Nat /\ Threes(n) \in Nat /\ Sevens(n) \in Nat
  BY Digits DEF Ones, Threes, Sevens
<1>2. PICK d \in Nat : d = n[9]
  BY Digits
<1>3. Carry(n) \in Nat
  BY <1>2 DEF Carry
<1>4. Total(n) = Ones(n) + 3 * Threes(n) + 7 * Sevens(n) + 5 * n[9] + Carry(n)
  BY DEF Total, WeightedSum, Ones, Threes, Sevens, Carry
<1> QED BY <1>1, <1>2, <1>3, <1>4

(* Totals with the same check digit leave the same remainder.              *)
LEMMA SameCheckDigit ==
  ASSUME NEW a \in Nat, NEW b \in Nat,
         (10 - (a % 10)) % 10 = (10 - (b % 10)) % 10
  PROVE  a % 10 = b % 10
  OBVIOUS

(* A digit that is wrong changes the remainder: the weights are prime to   *)
(* ten, and the carry makes up for the five of the ninth digit.            *)
LEMMA WrongDigitCounts ==
  ASSUME NEW a \in Nat, NEW b \in Nat, NEW c \in 0..9, NEW d \in 0..9, c # d,
         \/ a - b = c - d
         \/ a - b = 3 * c - 3 * d
         \/ a - b = 7 * c - 7 * d
         \/ a - b = (5 * c + (c * 5) \div 10) - (5 * d + (d * 5) \div 10)
  PROVE  a % 10 # b % 10
<1>1. CASE a - b = c - d
  BY <1>1
<1>2. CASE a - b = 3 * c - 3 * d
  BY <1>2
<1>3. CASE a - b = 7 * c - 7 * d
  BY <1>3
<1>4. CASE a - b = (5 * c + (c * 5) \div 10) - (5 * d + (d * 5) \div 10)
  BY <1>4
<1> QED BY <1>1, <1>2, <1>3, <1>4

(* Two sound numbers are never one digit apart, whatever digit it is.      *)
LEMMA TypingErrorsAreCaught ==
  ASSUME NEW m \in Number, NEW n \in Number, ChecksumHolds(m), ChecksumHolds(n)
  PROVE  ~OneDigitApart(m, n)
<1> SUFFICES ASSUME OneDigitApart(m, n) PROVE FALSE
  OBVIOUS
<1> DEFINE wrong == {i \in 1..10 : m[i] # n[i]}
<1>1. IsFiniteSet(wrong)
  <2>1. IsFiniteSet(1..10)
    BY FS_Interval, 1 \in Int, 10 \in Int
  <2> QED BY <2>1, FS_Subset
<1>2. PICK k : wrong = {k}
  BY <1>1, FS_Singleton DEF OneDigitApart
<1>3. k \in 1..10 /\ m[k] # n[k] /\ \A i \in 1..10 : i # k => m[i] = n[i]
  BY <1>2
<1>4. /\ k # 1 => m[1] = n[1]
      /\ k # 2 => m[2] = n[2]
      /\ k # 3 => m[3] = n[3]
      /\ k # 4 => m[4] = n[4]
      /\ k # 5 => m[5] = n[5]
      /\ k # 6 => m[6] = n[6]
      /\ k # 7 => m[7] = n[7]
      /\ k # 8 => m[8] = n[8]
      /\ k # 9 => m[9] = n[9]
      /\ k # 10 => m[10] = n[10]
  BY <1>3
<1>5. PICK a \in Nat : a = Total(m)
  BY TotalIs
<1>6. PICK b \in Nat : b = Total(n)
  BY TotalIs
<1>7. /\ (10 - (a % 10)) % 10 = m[10]
      /\ (10 - (b % 10)) % 10 = n[10]
  BY <1>5, <1>6 DEF ChecksumHolds
<1>8. CASE k = 10
  <2>1. a = b
    BY <1>4, <1>5, <1>6, <1>8 DEF Total, WeightedSum
  <2> QED BY <1>3, <1>7, <1>8, <2>1
<1>9. CASE k # 10
  <2>1. a % 10 = b % 10
    BY <1>4, <1>7, <1>9, SameCheckDigit
  <2>2. PICK c \in 0..9 : c = m[k]
    BY <1>3 DEF Number, Digit
  <2>3. PICK d \in 0..9 : d = n[k]
    BY <1>3 DEF Number, Digit
  <2>4. c # d
    BY <1>3, <2>2, <2>3
  <2>5. CASE k \in {1, 4, 7}
    <3>1. Ones(m) - Ones(n) = c - d
      BY <1>4, <2>2, <2>3, <2>5, Digits DEF Ones
    <3>2. /\ Threes(m) = Threes(n) /\ Sevens(m) = Sevens(n)
          /\ m[9] = n[9] /\ Carry(m) = Carry(n)
      BY <1>4, <2>5 DEF Threes, Sevens, Carry
    <3>3. a - b = c - d
      BY <1>5, <1>6, <3>1, <3>2, TotalIs, Digits
    <3> QED BY <2>1, <2>4, <3>3, WrongDigitCounts
  <2>6. CASE k \in {2, 5, 8}
    <3>1. Threes(m) - Threes(n) = c - d
      BY <1>4, <2>2, <2>3, <2>6, Digits DEF Threes
    <3>2. /\ Ones(m) = Ones(n) /\ Sevens(m) = Sevens(n)
          /\ m[9] = n[9] /\ Carry(m) = Carry(n)
      BY <1>4, <2>6 DEF Ones, Sevens, Carry
    <3>3. a - b = 3 * c - 3 * d
      BY <1>5, <1>6, <3>1, <3>2, TotalIs, Digits
    <3> QED BY <2>1, <2>4, <3>3, WrongDigitCounts
  <2>7. CASE k \in {3, 6}
    <3>1. Sevens(m) - Sevens(n) = c - d
      BY <1>4, <2>2, <2>3, <2>7, Digits DEF Sevens
    <3>2. /\ Ones(m) = Ones(n) /\ Threes(m) = Threes(n)
          /\ m[9] = n[9] /\ Carry(m) = Carry(n)
      BY <1>4, <2>7 DEF Ones, Threes, Carry
    <3>3. a - b = 7 * c - 7 * d
      BY <1>5, <1>6, <3>1, <3>2, TotalIs, Digits
    <3> QED BY <2>1, <2>4, <3>3, WrongDigitCounts
  <2>8. CASE k = 9
    <3>1. /\ Ones(m) = Ones(n) /\ Threes(m) = Threes(n) /\ Sevens(m) = Sevens(n)
      BY <1>4, <2>8 DEF Ones, Threes, Sevens
    <3>2. a - b = (5 * c + Carry(m)) - (5 * d + Carry(n))
      BY <1>5, <1>6, <2>2, <2>3, <2>8, <3>1, TotalIs
    <3>3. Carry(m) = (c * 5) \div 10 /\ Carry(n) = (d * 5) \div 10
      BY <2>2, <2>3, <2>8 DEF Carry
    <3>4. a - b = (5 * c + (c * 5) \div 10) - (5 * d + (d * 5) \div 10)
      BY <3>2, <3>3
    <3> QED BY <2>1, <2>4, <3>4, WrongDigitCounts
  <2> QED BY <1>3, <1>9, <2>5, <2>6, <2>7, <2>8
<1> QED BY <1>8, <1>9

-----------------------------------------------------------------------------
(* Every number that is stored was known to the tax office or passed the   *)
(* checksum, so it is sound.                                               *)
NumbersSound ==
  \A u \in User :
    user[u].number # NoNumber =>
      user[u].number \in Number /\ ChecksumHolds(user[u].number)

LEMMA OperatingIsSound ==
  ASSUME NEW n \in Business, NEW answered, IsOperating(n, answered, Operating)
  PROVE  n \in Number /\ ChecksumHolds(n)
  BY VerificationAssumption DEF IsOperating

LEMMA CommitBusinessSound ==
  ASSUME TypeOK, NumbersSound, NEW s \in Session, CommitBusiness(s)
  PROVE  NumbersSound'
<1> DEFINE n == session[s].number
           w == UserOf(s)
<1>1. n \in Business /\ w \in User
  <2>1. session[s] # Idle
    BY DEF CommitBusiness, At, Idle
  <2>2. session[s] \in Plan /\ session[s].at = "ask"
    BY <2>1 DEF TypeOK, CommitBusiness, At
  <2>3. session[s] \in [at : {"ask"}, user : Studio, number : Business]
    BY <2>2 DEF Plan, RequestSteps, VerifySteps
  <2> QED BY <2>3, VerificationAssumption DEF UserOf
<1>2. PICK answered \in BOOLEAN :
        user' = IF IsOperating(n, answered, Operating)
                  THEN [user EXCEPT ![w].number = n] ELSE user
  BY DEF CommitBusiness
<1>3. CASE IsOperating(n, answered, Operating)
  <2>1. n \in Number /\ ChecksumHolds(n)
    BY <1>1, <1>3, OperatingIsSound
  <2>2. user' = [user EXCEPT ![w].number = n]
    BY <1>2, <1>3
  <2>3. ASSUME NEW u \in User
        PROVE  user'[u].number = n \/ user'[u].number = user[u].number
    BY <1>1, <2>2 DEF TypeOK, UserRow
  <2> QED BY <2>1, <2>3 DEF NumbersSound
<1>4. CASE ~IsOperating(n, answered, Operating)
  BY <1>2, <1>4 DEF NumbersSound
<1> QED BY <1>3, <1>4

LEMMA SameNumbersSound ==
  ASSUME NumbersSound, \A u \in User : user'[u].number = user[u].number
  PROVE  NumbersSound'
  BY DEF NumbersSound

LEMMA StepKeepsSound ==
  ASSUME TypeOK, NumbersSound, NEW s \in Session, Step(s)
  PROVE  NumbersSound'
<1>1. CASE CommitPhone(s)
  <2>1. \A u \in User : user'[u].number = user[u].number
    BY <1>1 DEF CommitPhone, TypeOK, UserRow
  <2> QED BY <2>1, SameNumbersSound
<1>2. CASE CommitVerified(s)
  <2>1. \A u \in User : user'[u].number = user[u].number
    BY <1>2 DEF CommitVerified, TypeOK, UserRow
  <2> QED BY <2>1, SameNumbersSound
<1>3. CASE CommitBusiness(s)
  BY <1>3, CommitBusinessSound
<1>4. CASE \/ CheckCooldown(s) \/ SetCode(s) \/ SetCooldown(s)
           \/ SmsSent(s) \/ SmsFailed(s) \/ CompareCode(s) \/ CountFailure(s)
           \/ Expire(s) \/ ClearAttempts(s)
           \/ DeleteCodeSteps(s) \/ DeleteCooldownSteps(s)
  <2>1. user' = user
    BY <1>4 DEF CheckCooldown, SetCode, SetCooldown, SmsSent, SmsFailed, CompareCode,
         CountFailure, Expire, ClearAttempts, DeleteCodeSteps, DeleteCooldownSteps,
         DeleteCode, DeleteCooldown
  <2> QED BY <2>1, SameNumbersSound
<1> QED BY <1>1, <1>2, <1>3, <1>4 DEF Step

(* No number is verified that differs in one digit from one that was       *)
(* verified before, by whomever, whether the tax office answers or not:    *)
(* for all ten-digit numbers, not for the pair of the instance only.       *)
THEOREM TypingErrorsAreRefused == Spec => NoTypingErrors
<1>1. Init => NumbersSound
  BY DEF Init, NumbersSound
<1>2. TypeOK /\ NumbersSound /\ [Next]_vars => NumbersSound'
  <2> SUFFICES ASSUME TypeOK, NumbersSound, [Next]_vars PROVE NumbersSound'
    OBVIOUS
  <2>1. CASE user' = user
    BY <2>1, SameNumbersSound
  <2>2. ASSUME NEW s \in Session, Step(s) PROVE NumbersSound'
    BY <2>2, StepKeepsSound
  <2>3. (\E s \in Session : Step(s)) \/ user' = user
    BY DEF Next, RequestCode, CheckLock, VerifyBusiness, Killed, Tick, vars
  <2> QED BY <2>1, <2>2, <2>3
<1>3. ASSUME NumbersSound, NumbersSound', NEW u \in User, NEW w \in User,
             user[u].number # NoNumber, user'[w].number # NoNumber
      PROVE  ~OneDigitApart(user[u].number, user'[w].number)
  <2>1. PICK m : m = user[u].number
    OBVIOUS
  <2>2. PICK n : n = user'[w].number
    OBVIOUS
  <2>3. m \in Number /\ ChecksumHolds(m)
    BY <1>3, <2>1 DEF NumbersSound
  <2>4. n \in Number /\ ChecksumHolds(n)
    BY <1>3, <2>2 DEF NumbersSound
  <2>5. ~OneDigitApart(m, n)
    BY <2>3, <2>4, TypingErrorsAreCaught
  <2> QED BY <2>1, <2>2, <2>5
<1>4. NumbersSound /\ NumbersSound' =>
        [\A u, w \in User :
           user[u].number # NoNumber /\ user'[w].number # NoNumber =>
             ~OneDigitApart(user[u].number, user'[w].number)]_vars
  BY <1>3
<1> QED BY <1>1, <1>2, <1>4, VerificationTypeCorrect, PTL DEF Spec, NoTypingErrors
=============================================================================
