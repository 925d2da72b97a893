---------------------------- MODULE Recruitment ----------------------------
(***************************************************************************)
(* What hiring promises studios and instructors, without tables and        *)
(* requests: a candidate applies once to a post that is open; an offer     *)
(* answers an application nobody else's offer answers, is taken or         *)
(* declined once and in time, and what it becomes decides the application; *)
(* a contract follows from a taken offer, once.                            *)
(***************************************************************************)
EXTENDS Integers

CONSTANTS Post, Instructor, Offer

VARIABLES
  posted,     \* the posts there are
  open,       \* those that take applications
  candidate,  \* what became of each instructor's application to each post
  proposal,   \* the offers: for which application, and what became of them
  lapsed,     \* the pending offers whose time is over
  agreed      \* the offers a contract was made of

hiringVars == <<posted, open, candidate, proposal, lapsed, agreed>>

Nobody == <<>>
Unmade == [state |-> "unmade", for |-> Nobody]

Init ==
  /\ posted = {}
  /\ open = {}
  /\ candidate = [c \in Post \X Instructor |-> "none"]
  /\ proposal = [o \in Offer |-> Unmade]
  /\ lapsed = {}
  /\ agreed = {}

Publish(j) ==
  /\ j \notin posted
  /\ posted' = posted \cup {j}
  /\ open' = open \cup {j}
  /\ UNCHANGED <<candidate, proposal, lapsed, agreed>>

ChangeStatus(j) ==
  /\ j \in posted
  /\ open' \in {open \cup {j}, open \ {j}}
  /\ UNCHANGED <<posted, candidate, proposal, lapsed, agreed>>

TakeDown(j) ==
  /\ \A i \in Instructor : candidate[<<j, i>>] = "none"
  /\ posted' = posted \ {j}
  /\ open' = open \ {j}
  /\ UNCHANGED <<candidate, proposal, lapsed, agreed>>

Apply(c) ==
  /\ c[1] \in open
  /\ candidate[c] = "none"
  /\ candidate' = [candidate EXCEPT ![c] = "pending"]
  /\ UNCHANGED <<posted, open, proposal, lapsed, agreed>>

Withdraw(c) ==
  /\ candidate[c] = "pending"
  /\ candidate' = [candidate EXCEPT ![c] = "withdrawn"]
  /\ UNCHANGED <<posted, open, proposal, lapsed, agreed>>

Propose(o, c) ==
  /\ proposal[o] = Unmade
  /\ c # Nobody => /\ candidate[c] = "pending"
                   /\ \A q \in Offer : proposal[q].for # c
  /\ proposal' = [proposal EXCEPT ![o] = [state |-> "pending", for |-> c]]
  /\ UNCHANGED <<posted, open, candidate, lapsed, agreed>>

Lapse(o) ==
  /\ proposal[o].state = "pending"
  /\ lapsed' = lapsed \cup {o}
  /\ UNCHANGED <<posted, open, candidate, proposal, agreed>>

(* Even a candidate who has withdrawn may still take the offer.            *)
Settle(o, answer) ==
  /\ proposal[o].state = "pending"
  /\ answer = "accepted" => o \notin lapsed
  /\ proposal' = [proposal EXCEPT ![o].state = answer]
  /\ candidate' = IF proposal[o].for = Nobody \/ answer = "expired"
                    THEN candidate
                    ELSE [candidate EXCEPT ![proposal[o].for] = answer]
  /\ lapsed' = lapsed \ {o}
  /\ UNCHANGED <<posted, open, agreed>>

Agree(o) ==
  /\ proposal[o].state = "accepted"
  /\ o \notin agreed
  /\ agreed' = agreed \cup {o}
  /\ UNCHANGED <<posted, open, candidate, proposal, lapsed>>

Next ==
  \/ \E j \in Post : Publish(j) \/ ChangeStatus(j) \/ TakeDown(j)
  \/ \E c \in Post \X Instructor : Apply(c) \/ Withdraw(c)
  \/ \E o \in Offer : \/ \E c \in (Post \X Instructor) \cup {Nobody} : Propose(o, c)
                      \/ \E a \in {"accepted", "rejected", "expired"} : Settle(o, a)
                      \/ Lapse(o)
                      \/ Agree(o)

Spec == Init /\ [][Next]_hiringVars
=============================================================================
