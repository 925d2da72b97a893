----------------------------- MODULE Membership -----------------------------
(***************************************************************************)
(* What premium membership promises whoever pays for it, without tables,   *)
(* sessions or webhooks: money is taken once per order, a renewal only     *)
(* from a member and once per period, and nobody becomes a member but by   *)
(* an order that was paid and not used before.                             *)
(***************************************************************************)
EXTENDS Integers

CONSTANTS User, Order

VARIABLES
  member,  \* the premium users
  renews,  \* the members whose membership goes on by itself
  paid,    \* for each order the money taken, if any
  used,    \* the orders that have had their effect
  month

membershipVars == <<member, renews, paid, used, month>>

Untouched == [charge |-> "none"]

(* There may be members of old.                                            *)
Init ==
  /\ member \in SUBSET User
  /\ renews \in SUBSET member
  /\ paid = [o \in Order |-> Untouched]
  /\ used = {}
  /\ month = 0

RenewedNow(u) ==
  \E o \in Order : /\ paid[o] # Untouched
                   /\ paid[o].charge = "renewal"
                   /\ paid[o].user = u
                   /\ paid[o].month = month

TakeMoney(u, o, charge) ==
  /\ paid[o] = Untouched
  /\ paid' = [paid EXCEPT ![o] =
                [user |-> u, charge |-> charge, month |-> month]]
  /\ UNCHANGED <<member, renews, used, month>>

Pay(u, o, charge) == TakeMoney(u, o, charge)

Renew(u, o) ==
  /\ u \in member \cap renews
  /\ ~RenewedNow(u)
  /\ TakeMoney(u, o, "renewal")

(* An order has its effect: its user is a member, as before or from now.   *)
Use(o) ==
  /\ paid[o] # Untouched
  /\ o \notin used
  /\ used' = used \cup {o}
  /\ member' = member \cup {paid[o].user}
  /\ renews' \in {renews, renews \cup {paid[o].user}}
  /\ UNCHANGED <<paid, month>>

(* A membership ends, or will not go on by itself.                         *)
Stop(u) ==
  /\ renews' = renews \ {u}
  /\ member' \in {member, member \ {u}}
  /\ UNCHANGED <<paid, used, month>>

NextMonth ==
  /\ month' = month + 1
  /\ UNCHANGED <<member, renews, paid, used>>

Next ==
  \/ \E u \in User, o \in Order :
       Renew(u, o) \/ \E c \in {"confirm", "register", "deposit"} : Pay(u, o, c)
  \/ \E o \in Order : Use(o)
  \/ \E u \in User : Stop(u)
  \/ NextMonth

Spec == Init /\ [][Next]_membershipVars
=============================================================================
