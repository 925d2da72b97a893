---------------------------- MODULE Verification ----------------------------
(***************************************************************************)
(* Verifying a phone with a code sent by SMS, and a business number:       *)
(* services/verification.py.                                               *)
(*                                                                         *)
(* The code, the cooldown and the count of wrong codes of a phone are keys *)
(* of Redis with a time to live.  Every command to Redis is awaited, so it *)
(* is a step of its own here, and the commands of two requests interleave. *)
(***************************************************************************)
EXTENDS Integers, FiniteSets, BusinessNumber

CONSTANTS
  User,
  Studio,        \* the users who are studios
  Phone,         \* numbers, after normalize_phone
  Session,       \* requests in progress
  Business,      \* the business numbers that are sent
  Operating,     \* what the tax office says operates
  MaxAttempts,   \* 5
  CodeLife,      \* 180 seconds
  CooldownLife,  \* 60 seconds
  LockLife,      \* 600 seconds
  Faults         \* "killed": a worker may die between two commands

(* What Redis answers for a key without a time to live.                    *)
Forever == 0 - 1
NoPhone == "no phone"
NoNumber == <<>>

ASSUME VerificationAssumption ==
  /\ IsFiniteSet(Session)
  /\ Studio \subseteq User
  /\ Business \subseteq Number
  /\ Operating \subseteq {n \in Business : ChecksumHolds(n)}
  /\ MaxAttempts \in Nat \ {0, 1}
  /\ {CodeLife, CooldownLife, LockLife} \subseteq Nat \ {0}
  /\ Faults \subseteq {"killed"}

VARIABLES
  code,      \* auth:sms:code:<phone>: what is left of its life
  cooldown,  \* auth:sms:cooldown:<phone>: what is left of it
  attempts,  \* auth:sms:attempt:<phone>
  user,      \* the columns of users
  session    \* what each request has still to do

vars == <<code, cooldown, attempts, user, session>>
keys == <<code, cooldown, attempts>>

CountKey == [count : Nat \ {0}, ttl : 1..LockLife \cup {Forever}]
            \cup [count : {0}, ttl : {0}]
AbsentCount == [count |-> 0, ttl |-> 0]
UserRow == [phone : Phone \cup {NoPhone}, verified : BOOLEAN,
            number : Business \cup {NoNumber}]

Idle == [at |-> "idle"]
RequestSteps == {"wait", "set code", "set cooldown", "commit phone", "send",
                 "unset code", "unset cooldown"}
VerifySteps == {"compare", "count", "expire", "forget", "commit verified",
                "clear code", "clear attempts", "clear cooldown"}
Plan == [at : RequestSteps \cup VerifySteps, user : User, phone : Phone]
  \cup [at : {"ask"}, user : Studio, number : Business]

At(s, step) == session[s].at = step
PhoneOf(s) == session[s].phone
UserOf(s) == session[s].user
Become(s, plan) == session' = [session EXCEPT ![s] = plan]
Goto(s, step) == session' = [session EXCEPT ![s].at = step]
Locked(p) == attempts[p].count >= MaxAttempts

-----------------------------------------------------------------------------
(* POST /verification/phone/request                                        *)

(* The lock is looked at before the cooldown.                              *)
RequestCode(s, u, p) ==
  /\ At(s, "idle")
  /\ ~Locked(p)
  /\ Become(s, [at |-> "wait", user |-> u, phone |-> p])
  /\ UNCHANGED <<keys, user>>

CheckCooldown(s) ==
  /\ At(s, "wait")
  /\ IF cooldown[PhoneOf(s)] > 0
       THEN Become(s, Idle)
       ELSE Goto(s, "set code")
  /\ UNCHANGED <<keys, user>>

SetCode(s) ==
  /\ At(s, "set code")
  /\ code' = [code EXCEPT ![PhoneOf(s)] = CodeLife]
  /\ Goto(s, "set cooldown")
  /\ UNCHANGED <<cooldown, attempts, user>>

SetCooldown(s) ==
  /\ At(s, "set cooldown")
  /\ cooldown' = [cooldown EXCEPT ![PhoneOf(s)] = CooldownLife]
  /\ Goto(s, "commit phone")
  /\ UNCHANGED <<code, attempts, user>>

(* The new number is stored before it is verified; phone_verified stays.   *)
CommitPhone(s) ==
  /\ At(s, "commit phone")
  /\ user' = [user EXCEPT ![UserOf(s)].phone = PhoneOf(s)]
  /\ Goto(s, "send")
  /\ UNCHANGED keys

SmsSent(s) ==
  /\ At(s, "send")
  /\ Become(s, Idle)
  /\ UNCHANGED <<keys, user>>

SmsFailed(s) ==
  /\ At(s, "send")
  /\ Goto(s, "unset code")
  /\ UNCHANGED <<keys, user>>

(* _delete of the code, on the way from one step to another.               *)
DeleteCode(s, from, to) ==
  /\ At(s, from)
  /\ code' = [code EXCEPT ![PhoneOf(s)] = 0]
  /\ session' = [session EXCEPT ![s] = to]
  /\ UNCHANGED <<cooldown, attempts, user>>

DeleteCooldown(s, from) ==
  /\ At(s, from)
  /\ cooldown' = [cooldown EXCEPT ![PhoneOf(s)] = 0]
  /\ Become(s, Idle)
  /\ UNCHANGED <<code, attempts, user>>

-----------------------------------------------------------------------------
(* POST /verification/phone/verify                                         *)

(* Variant for the mutation checks: an attempt during the lock renews it.  *)
RenewingCheck(s, u, p) ==
  /\ At(s, "idle")
  /\ IF Locked(p)
       THEN /\ attempts' = [attempts EXCEPT ![p].ttl = LockLife]
            /\ UNCHANGED session
       ELSE /\ Become(s, [at |-> "compare", user |-> u, phone |-> p])
            /\ UNCHANGED attempts
  /\ UNCHANGED <<code, cooldown, user>>

(* Variant for the mutation checks: one attempt too many.                  *)
LateCheck(s, u, p) ==
  /\ At(s, "idle")
  /\ attempts[p].count <= MaxAttempts
  /\ Become(s, [at |-> "compare", user |-> u, phone |-> p])
  /\ UNCHANGED <<keys, user>>

CheckLock(s, u, p) ==
  /\ At(s, "idle")
  /\ ~Locked(p)
  /\ Become(s, [at |-> "compare", user |-> u, phone |-> p])
  /\ UNCHANGED <<keys, user>>

(* Six digits were sent: they are those of the code or they are not.       *)
CompareCode(s) ==
  /\ At(s, "compare")
  /\ IF code[PhoneOf(s)] = 0
       THEN Become(s, Idle)
       ELSE Goto(s, "count") \/ Goto(s, "commit verified")
  /\ UNCHANGED <<keys, user>>

(* INCR creates a key that lives for ever; EXPIRE is another command.      *)
CountFailure(s) ==
  /\ At(s, "count")
  /\ LET p == PhoneOf(s)
         count == attempts[p].count + 1
     IN /\ attempts' = [attempts EXCEPT ![p] =
             [count |-> count, ttl |-> IF count = 1 THEN Forever ELSE @.ttl]]
        /\ \/ count = 1 /\ Goto(s, "expire")
           \/ count > 1 /\ count < MaxAttempts /\ Become(s, Idle)
           \/ count >= MaxAttempts /\ Goto(s, "forget")
  /\ UNCHANGED <<code, cooldown, user>>

(* Variant for the mutation checks: no time to live.                       *)
ExpireNothing(s) ==
  /\ At(s, "expire")
  /\ attempts' = [attempts EXCEPT ![PhoneOf(s)].ttl = 0]
  /\ Become(s, Idle)
  /\ UNCHANGED <<code, cooldown, user>>

Expire(s) ==
  /\ At(s, "expire")
  /\ attempts' = IF attempts[PhoneOf(s)] = AbsentCount
                   THEN attempts
                   ELSE [attempts EXCEPT ![PhoneOf(s)].ttl = LockLife]
  /\ Become(s, Idle)
  /\ UNCHANGED <<code, cooldown, user>>

CommitVerified(s) ==
  /\ At(s, "commit verified")
  /\ user' = [user EXCEPT ![UserOf(s)].phone = PhoneOf(s),
                          ![UserOf(s)].verified = TRUE]
  /\ Goto(s, "clear code")
  /\ UNCHANGED keys

ClearAttempts(s) ==
  /\ At(s, "clear attempts")
  /\ attempts' = [attempts EXCEPT ![PhoneOf(s)] = AbsentCount]
  /\ Goto(s, "clear cooldown")
  /\ UNCHANGED <<code, cooldown, user>>

DeleteCodeSteps(s) ==
  \/ DeleteCode(s, "unset code", [session[s] EXCEPT !.at = "unset cooldown"])
  \/ DeleteCode(s, "forget", Idle)
  \/ DeleteCode(s, "clear code", [session[s] EXCEPT !.at = "clear attempts"])

DeleteCooldownSteps(s) ==
  DeleteCooldown(s, "unset cooldown") \/ DeleteCooldown(s, "clear cooldown")

-----------------------------------------------------------------------------
(* POST /verification/business/verify                                      *)

VerifyBusiness(s, u, n) ==
  /\ At(s, "idle")
  /\ u \in Studio
  /\ Become(s, [at |-> "ask", user |-> u, number |-> n])
  /\ UNCHANGED <<keys, user>>

CommitBusiness(s) ==
  /\ At(s, "ask")
  /\ \E answered \in BOOLEAN :
       user' = IF IsOperating(session[s].number, answered, Operating)
                 THEN [user EXCEPT ![UserOf(s)].number = session[s].number]
                 ELSE user
  /\ Become(s, Idle)
  /\ UNCHANGED keys

-----------------------------------------------------------------------------
Killed(s) ==
  /\ "killed" \in Faults
  /\ session[s] # Idle
  /\ Become(s, Idle)
  /\ UNCHANGED <<keys, user>>

(* Redis drops what has come to its end.                                   *)
Older(ttl) == IF ttl = 0 THEN 0 ELSE ttl - 1
Tick ==
  /\ code' = [p \in Phone |-> Older(code[p])]
  /\ cooldown' = [p \in Phone |-> Older(cooldown[p])]
  /\ attempts' = [p \in Phone |->
       IF attempts[p].ttl = Forever THEN attempts[p]
       ELSE IF attempts[p].ttl <= 1 THEN AbsentCount
       ELSE [attempts[p] EXCEPT !.ttl = @ - 1]]
  /\ UNCHANGED <<user, session>>

Init ==
  /\ code = [p \in Phone |-> 0]
  /\ cooldown = [p \in Phone |-> 0]
  /\ attempts = [p \in Phone |-> AbsentCount]
  /\ user = [u \in User |->
               [phone |-> NoPhone, verified |-> FALSE, number |-> NoNumber]]
  /\ session = [s \in Session |-> Idle]

Step(s) ==
  \/ CheckCooldown(s) \/ SetCode(s) \/ SetCooldown(s) \/ CommitPhone(s)
  \/ SmsSent(s) \/ SmsFailed(s)
  \/ CompareCode(s) \/ CountFailure(s) \/ Expire(s)
  \/ CommitVerified(s) \/ ClearAttempts(s)
  \/ DeleteCodeSteps(s) \/ DeleteCooldownSteps(s) \/ CommitBusiness(s)

Next ==
  \/ \E s \in Session, u \in User :
       \/ \E p \in Phone : RequestCode(s, u, p) \/ CheckLock(s, u, p)
       \/ \E n \in Business : VerifyBusiness(s, u, n)
  \/ \E s \in Session : Step(s) \/ Killed(s)
  \/ Tick

Spec == Init /\ [][Next]_vars

(* Time passes, and a worker that lives goes on with what it has begun.    *)
FairSpec == Spec /\ WF_vars(Tick) /\ \A s \in Session : WF_vars(Step(s))

-----------------------------------------------------------------------------
TypeOK ==
  /\ code \in [Phone -> 0..CodeLife]
  /\ cooldown \in [Phone -> 0..CooldownLife]
  /\ attempts \in [Phone -> CountKey]
  /\ user \in [User -> UserRow]
  /\ session \in [Session -> Plan \cup {Idle}]

(* The requests that may still count a wrong code for the phone.           *)
Guessing(p) ==
  {s \in Session : session[s].at \in {"compare", "count"} /\ PhoneOf(s) = p}

(* A phone gets no more attempts than it is granted, except for one of     *)
(* each other request that looked at the lock (line 279) before the last   *)
(* of them was counted (line 292).                                         *)
AttemptsBounded ==
  \A p \in Phone :
    attempts[p].count + Cardinality(Guessing(p))
      <= MaxAttempts - 1 + Cardinality(Session)

(* A lock comes to its end, whatever the user tries meanwhile, unless the  *)
(* worker that counted the first failure has died before it gave the count *)
(* a time to live: then the phone is never verified again.                 *)
LockLifts ==
  \A p \in Phone :
    \/ Locked(p) ~> ~Locked(p)
    \/ <>[](attempts[p].ttl = Forever)

(* No number is verified that differs in one digit from one that was       *)
(* verified before, by this user or another: when the tax office is away   *)
(* the checksum (nts_client.py:24) still catches a typing error.           *)
NoTypingErrors ==
  [][\A u, w \in User :
       user[u].number # NoNumber /\ user'[w].number # NoNumber =>
         ~OneDigitApart(user[u].number, user'[w].number)]_vars
=============================================================================
