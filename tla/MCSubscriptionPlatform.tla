----------------------- MODULE MCSubscriptionPlatform -----------------------
(* Instances of SubscriptionPlatform for TLC.                              *)
EXTENDS SubscriptionPlatform, TLC

CONSTANTS u1, r1, r2, w1, w2, o1, o2, o3

OneUser == {u1}
OneClient == {r1}
TwoClients == {r1, r2}
TwoWorkers == {w1, w2}
TwoOrders == {o1, o2}
ThreeOrders == {o1, o2, o3}

AllFaults == {"lost", "killed"}
NoFaults == {}
BankWired == {"bank_transfer"}
NothingWired == {}

(* Where sessions do not overlap there is one, for requests and renewals;  *)
(* where they do, TwoClients is given to Client and Worker alike, and each *)
(* of the two is a request or a scheduler as it pleases.                   *)
OneSession == {r1}

(* Members of old: active since an order before those of the run, with or  *)
(* without a billing key.                                                  *)
MemberInit ==
  /\ sub \in [User -> [status : {"active"}, autoRenew : {TRUE},
                       key : BOOLEAN, next : {1}]]
  /\ tier = [u \in User |-> "premium"]
  /\ history = [u \in User |-> "premium"]
  /\ active = User
  /\ payment = [o \in Order |-> NoPayment]
  /\ ledger = [o \in Order |-> Uncaptured]
  /\ refused = {}
  /\ month = 0
  /\ session = [s \in Session |-> Idle]

MemberSpec == (Init \/ MemberInit) /\ [][Next]_vars

(* Bound: one order fails as often as it may, or two fail once each.  A    *)
(* state with more failures is not followed any further.                   *)
Failures(o) == IF payment[o] = NoPayment THEN 0 ELSE payment[o].retries
FewFailures ==
  \A o, q \in Order : o # q => Failures(o) * Failures(q) <= 1

Symmetric == Permutations(Client) \cup Permutations(Order)
               \cup Permutations(User)
=============================================================================
