---------------------------- MODULE MCReputation ----------------------------
(* Instances of Reputation for TLC.                                        *)
EXTENDS Reputation

CONSTANTS i1, st1, c1, c2, s1

Both == {i1, st1}
Roles == [u \in Both |-> IF u = i1 THEN "instructor" ELSE "studio"]
TwoContracts == {c1, c2}
Parties == [c \in TwoContracts |-> Both]
(* One more contract takes the instructor over a step of the scale.        *)
Before == [u \in Both |-> IF u = i1 THEN 5 ELSE 0]
WorstAndBest == {1, 5}
TheInstructor == {i1}
SomeFields == [u \in Both |-> IF u = i1 THEN {"bio"} ELSE {"address"}]
TheStudio == {st1}
OneSession == {s1}
MayBeKilled == {"killed"}
=============================================================================
