--------------------------- MODULE HiringService ---------------------------
(***************************************************************************)
(* services/job_post.py, application.py, offer.py, daily_usage.py and      *)
(* ContractService.create_from_offer: what each request decides on what it *)
(* has read, and the plan it goes on with.                                 *)
(***************************************************************************)
EXTENDS HiringDb

CONSTANT Profile   \* the fields of each instructor's profile that are filled

Completeness == INSTANCE ProfileCompleteness

(* Variants a slip in the code would give, for the mutation checks.        *)
ResetForgotten(u) == [usage[u] EXCEPT !.day = today]
OneOverLimit(u, c) == usage[u].used[c] <= Limit
WithdrawnUncounted(s) ==
  /\ At(s, "recount")
  /\ Become(s, [at |-> "withdraw", slot |-> session[s].slot, count |-> NoWrite])
  /\ UNCHANGED <<tables, clock>>
AcceptWhateverTime(s, o, answer) ==
  /\ offer[o] # NoOffer
  /\ offer[o].status = "pending"
  /\ answer \in {"accepted", "rejected"}
  /\ Begin(s, [at |-> IF offer[o].application # Direct THEN "reread" ELSE "answer",
               offer |-> o, status |-> answer, writeApplication |-> FALSE])

-----------------------------------------------------------------------------
(* Job posts; each request is one step.  An update writes what the studio  *)
(* sends, whatever the status was.  Deleting takes the applications out of *)
(* their post first, which their NOT NULL column refuses: only a post      *)
(* without any goes.                                                       *)

CreatePost(s, j) ==
  /\ IsIdle(s)
  /\ NewPost(j)
  /\ post' = [post EXCEPT ![j] = [status |-> "open", count |-> 0]]
  /\ UNCHANGED <<application, offer, contracts, usage, tracked, clock, session>>

UpdatePost(s, j, status) ==
  /\ IsIdle(s)
  /\ post[j] # NoPost
  /\ post[j].status # status
  /\ post' = [post EXCEPT ![j].status = status]
  /\ UNCHANGED <<application, offer, contracts, usage, tracked, clock, session>>

DeletePost(s, j) ==
  /\ IsIdle(s)
  /\ post[j] # NoPost
  /\ \A i \in Instructor : application[<<j, i>>] = NoApplication
  /\ post' = [post EXCEPT ![j] = NoPost]
  /\ UNCHANGED <<application, offer, contracts, usage, tracked, clock, session>>

-----------------------------------------------------------------------------
(* The daily limits of free users.                                         *)

(* The counters of a user, emptied when they are of an earlier day.        *)
OnDay(row, day) == IF row.day = day THEN row ELSE Unused(day)
Refreshed(u) == OnDay(usage[u], today)

Charged(u, c) ==
  LET row == Refreshed(u) IN [row EXCEPT !.used[c] = @ + 1]

WithinLimit(u, c) == Refreshed(u).used[c] < Limit

ToUse(u, c, wanted, slot, count) ==
  [at |-> "usage", user |-> u, loaded |-> usage[u], wanted |-> wanted,
   counter |-> c, seen |-> tracked[<<u, today>>][c], slot |-> slot, count |-> count]

(* get_usage_status: the counters of an earlier day are emptied.           *)
UsageStatus(s, u) ==
  /\ usage[u].day # today
  /\ Begin(s, [at |-> "reset", user |-> u, loaded |-> usage[u],
               wanted |-> Refreshed(u)])

(* track_profile_view.  A list that holds something already is changed in  *)
(* place and assigned to itself, which SQLAlchemy does not notice: of a    *)
(* day's profiles only the first is stored.                                *)
ViewProfile(s, u, i) ==
  /\ u \in Viewer \ Premium
  /\ i \notin Refreshed(u).viewed
  /\ WithinLimit(u, "profile_view")
  /\ LET charged == Charged(u, "profile_view") IN
     Begin(s, ToUse(u, "profile_view",
       [charged EXCEPT !.viewed = IF @ = {} THEN {i} ELSE @], NoSlot, 0))

-----------------------------------------------------------------------------
(* Applications.                                                           *)

(* Checks, then the daily counter in a transaction of its own; a premium   *)
(* user is only tracked, together with the application.                    *)
Apply(s, j, i) ==
  /\ post[j] # NoPost
  /\ post[j].status = "open"
  /\ application[<<j, i>>] = NoApplication
  /\ Completeness!Allowed(Completeness!InstructorWeight, Profile[i], "apply")
  /\ \/ /\ i \in Premium
        /\ Begin(s, [at |-> "insert", slot |-> <<j, i>>,
                     count |-> post[j].count,
                     seen |-> tracked[<<i, today>>]["application"],
                     day |-> today])
     \/ /\ i \notin Premium
        /\ WithinLimit(i, "application")
        /\ Begin(s, ToUse(i, "application", Charged(i, "application"),
                          <<j, i>>, post[j].count))

(* The application is read first, its post in a query of its own.          *)
Withdraw(s, j, i) ==
  /\ application[<<j, i>>] # NoApplication
  /\ application[<<j, i>>].status = "pending"
  /\ Begin(s, [at |-> "recount", slot |-> <<j, i>>])

ReadCount(s) ==
  /\ At(s, "recount")
  /\ LET slot == session[s].slot
         count == post[slot[1]].count
     IN Become(s, [at |-> "withdraw", slot |-> slot,
                   count |-> IF count > 0 THEN count - 1 ELSE NoWrite])
  /\ UNCHANGED <<tables, clock>>

-----------------------------------------------------------------------------
(* Offers and the contract made of one.                                    *)

CreateOffer(s, o, slot) ==
  /\ NewOffer(o)
  /\ slot # Direct =>
       /\ application[slot] # NoApplication
       /\ application[slot].status = "pending"
       /\ OfferOf(slot) = {}
  /\ Begin(s, [at |-> "offer", offer |-> o, application |-> slot])

(* accept and reject; a late acceptance turns the offer EXPIRED.           *)
Answer(s, o, answer) ==
  /\ offer[o] # NoOffer
  /\ offer[o].status = "pending"
  /\ answer \in {"accepted", "rejected"}
  /\ LET expired == answer = "accepted" /\ o \in late
         reread == ~expired /\ offer[o].application # Direct
     IN Begin(s, [at |-> IF reread THEN "reread" ELSE "answer", offer |-> o,
                  status |-> IF expired THEN "expired" ELSE answer,
                  writeApplication |-> FALSE])

(* The application gets the status of its offer, whatever it was; one that *)
(* has it already is not written.                                          *)
ReadApplication(s) ==
  /\ At(s, "reread")
  /\ LET p == session[s] IN
     Become(s, [p EXCEPT !.at = "answer", !.writeApplication =
       application[offer[p.offer].application].status # p.status])
  /\ UNCHANGED <<tables, clock>>

CreateContract(s, o) ==
  /\ offer[o] # NoOffer
  /\ offer[o].status = "accepted"
  /\ contracts[o] = 0
  /\ Begin(s, [at |-> "contract", offer |-> o])

-----------------------------------------------------------------------------
(* Seven days have passed since an offer was made.                         *)
OfferLapses(o) ==
  /\ offer[o] # NoOffer
  /\ offer[o].status = "pending"
  /\ o \notin late
  /\ late' = late \cup {o}
  /\ UNCHANGED <<tables, today, session>>

(* Midnight, whatever requests are under way.                              *)
NextDay ==
  /\ today < LastDay
  /\ today' = today + 1
  /\ UNCHANGED <<tables, late, session>>
=============================================================================
