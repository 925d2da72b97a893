----------------------------- MODULE MCJobBoard -----------------------------
(* Instances of JobBoard for TLC.                                          *)
EXTENDS JobBoard

CONSTANTS seoul, gangnam, mat, reformer, p1, p2

Words == {seoul, gangnam, mat, reformer}
(* "Seoul Gangnam" contains "Seoul".                                       *)
Contained == {<<seoul, gangnam>>, <<gangnam, seoul>>}
RegionWords == {seoul, gangnam}
CertificateWords == {mat, reformer}
SomeYears == {0, 1, 3}
SomeRates == {40, 98, 100}

Studio(region, years, certificates, rate, premium) ==
  [region |-> region, experience |-> years, certifications |-> certificates,
   rate |-> rate, premium |-> premium, posted |-> 0,
   class |-> IF premium THEN 12 ELSE 48]
SomePosts ==
  {Studio(gangnam, 3, {mat, reformer}, 97, FALSE),
   Studio(NoWord, 1, {mat}, 98, TRUE),
   Studio(seoul, 0, {}, 50, FALSE)}
TwoPosts == {p1, p2}

(* Days are counted from a Monday.                                         *)
SomeSchedules ==
  {[start |-> 0, end |-> 14, weekdays |-> {7}],
   [start |-> 1, end |-> 8, weekdays |-> {2, 5}]}
=============================================================================
