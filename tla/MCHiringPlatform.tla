-------------------------- MODULE MCHiringPlatform --------------------------
(* Instances of HiringPlatform for TLC.                                    *)
EXTENDS HiringPlatform, TLC

CONSTANTS j1, j2, i1, i2, v1, f1, f2, s1, s2

OnePost == {j1}
TwoPosts == {j1, j2}
OneInstructor == {i1}
TwoInstructors == {i1, i2}
NoViewer == {}
OneViewer == {v1}
TwoOffers == {f1, f2}
OneSession == {s1}
TwoSessions == {s1, s2}

NobodyPremium == {}
OnePremium == {i2}

MayBeKilled == {"killed"}
NoFaults == {}

(* The first instructor has what it takes to apply, and no more.           *)
Filled == [i \in Instructor |->
             {"display_name", "phone", "bio", "available_regions", "categories"}]

Symmetric == Permutations(Session) \cup Permutations(Offer)
=============================================================================
