-------------------------- MODULE JobBoard_proofs --------------------------
(***************************************************************************)
(* Proofs about what an instructor is shown, for any words, experience,    *)
(* rates, posts, schedules and days.  Nothing here depends on an inductive *)
(* invariant beyond the types: what has to be shown is arithmetic, the     *)
(* truncated quotients of the four scores, their rounded sum and the days  *)
(* of a week.                                                              *)
(***************************************************************************)
EXTENDS JobBoard, FiniteSetTheorems, TLAPS

-----------------------------------------------------------------------------
(* What a truncated quotient is.                                           *)
LEMMA Quotient ==
  ASSUME NEW a \in Nat, NEW d \in Nat \ {0}
  PROVE  /\ a \div d \in Nat
         /\ d * (a \div d) <= a
         /\ a < d * (a \div d) + d
  OBVIOUS

(* It grows with the dividend and falls with the divisor.                  *)
LEMMA QuotientGrows ==
  ASSUME NEW a \in Nat, NEW b \in Nat, NEW d \in Nat \ {0}, a <= b
  PROVE  a \div d <= b \div d
  OBVIOUS

LEMMA QuotientFalls ==
  ASSUME NEW a \in Nat, NEW d \in Nat \ {0}, NEW e \in Nat \ {0}, e <= d
  PROVE  a \div d <= a \div e
  OBVIOUS

(* A share of a whole, in per cent: at most a hundred, and what it says of *)
(* the share.                                                              *)
LEMMA Percentage ==
  ASSUME NEW a \in Nat, NEW d \in Nat \ {0}, a <= d
  PROVE  /\ (a * 100) \div d \in 0..100
         /\ (a * 100) \div d >= 98 => 100 * a >= 98 * d
<1> DEFINE q == (a * 100) \div d
<1>1. q \in Nat /\ d * q <= a * 100 /\ a * 100 < d * q + d
  BY Quotient
<1> HIDE DEF q
<1>2. q <= 100
  <2>1. SUFFICES ASSUME q >= 101 PROVE FALSE
    BY <1>1
  <2>2. d * q >= d * 101
    BY <1>1, <2>1
  <2> QED BY <1>1, <2>2
<1>3. ASSUME q >= 98
      PROVE  100 * a >= 98 * d
  <2>1. d * q >= d * 98
    BY <1>1, <1>3
  <2> QED BY <1>1, <2>1
<1> QED BY <1>1, <1>2, <1>3 DEF q

-----------------------------------------------------------------------------
(* The rounded total.                                                      *)
LEMMA RoundPercentRange ==
  ASSUME NEW n \in Nat, n <= 10000
  PROVE  /\ RoundPercent(n) \in 0..100
         /\ RoundPercent(n) = 100 => n >= 9950
<1>1. n \div 100 \in 0..100
  OBVIOUS
<1>2. n % 100 \in 0..99
  OBVIOUS
<1>3. n = 100 * (n \div 100) + (n % 100)
  OBVIOUS
<1> QED BY <1>1, <1>2, <1>3 DEF RoundPercent

LEMMA RoundPercentGrows ==
  ASSUME NEW n \in Nat, NEW m \in Nat, n <= m
  PROVE  RoundPercent(n) <= RoundPercent(m)
<1>1. \/ n \div 100 < m \div 100
      \/ n \div 100 = m \div 100 /\ n % 100 <= m % 100
  OBVIOUS
<1>2. PICK q \in Nat : q = n \div 100
  OBVIOUS
<1>3. PICK p \in Nat : p = m \div 100
  OBVIOUS
<1>4. PICK r \in Nat : r = n % 100
  OBVIOUS
<1>5. PICK s \in Nat : s = m % 100
  OBVIOUS
<1>6. RoundPercent(n) = (IF r > 50 \/ (r = 50 /\ q % 2 = 1) THEN q + 1 ELSE q)
  BY <1>2, <1>4 DEF RoundPercent
<1>7. RoundPercent(m) = (IF s > 50 \/ (s = 50 /\ p % 2 = 1) THEN p + 1 ELSE p)
  BY <1>3, <1>5 DEF RoundPercent
<1>8. q < p \/ (q = p /\ r <= s)
  BY <1>1, <1>2, <1>3, <1>4, <1>5
<1> QED BY <1>6, <1>7, <1>8

-----------------------------------------------------------------------------
(* What of an instructor and a post the scores count on.                   *)
Comparable(i, j) ==
  /\ i.experience \in Nat
  /\ i.min \in Nat /\ i.max \in Nat
  /\ j.experience \in Nat
  /\ j.rate \in Nat
  /\ IsFiniteSet(j.certifications)

Met(i, j) == {c \in j.certifications : \E d \in i.certifications : Alike(c, d)}

LEMMA RegionScoreSays ==
  ASSUME NEW i, NEW j
  PROVE  /\ RegionScore(i, j) \in {0, 70, 100}
         /\ RegionScore(i, j) = 100 => j.region = NoWord \/ j.region \in i.regions
  BY DEF RegionScore

LEMMA ExperienceScoreSays ==
  ASSUME NEW i, NEW j, Comparable(i, j)
  PROVE  /\ ExperienceScore(i, j) \in 0..100
         /\ ExperienceScore(i, j) >= 98 => 100 * i.experience >= 98 * j.experience
<1>1. i.experience \in Nat /\ j.experience \in Nat
  BY DEF Comparable
<1>2. CASE i.experience >= j.experience
  BY <1>1, <1>2 DEF ExperienceScore
<1>3. CASE i.experience < j.experience
  <2>1. j.experience \in Nat \ {0} /\ i.experience <= j.experience
    BY <1>1, <1>3
  <2>2. ExperienceScore(i, j) = (i.experience * 100) \div j.experience
    BY <1>1, <1>3 DEF ExperienceScore
  <2>3. PICK a \in Nat : a = i.experience
    BY <1>1
  <2>4. PICK d \in Nat \ {0} : d = j.experience
    BY <1>1, <2>1
  <2>5. a <= d
    BY <1>1, <2>1, <2>3, <2>4
  <2>6. /\ (a * 100) \div d \in 0..100
        /\ (a * 100) \div d >= 98 => 100 * a >= 98 * d
    BY <2>5, Percentage
  <2> QED BY <2>2, <2>3, <2>4, <2>6
<1> QED BY <1>1, <1>2, <1>3

LEMMA MetAreFew ==
  ASSUME NEW i, NEW j, Comparable(i, j)
  PROVE  /\ IsFiniteSet(Met(i, j))
         /\ Cardinality(Met(i, j)) \in Nat
         /\ Cardinality(j.certifications) \in Nat
         /\ Cardinality(Met(i, j)) <= Cardinality(j.certifications)
<1>1. IsFiniteSet(j.certifications)
  BY DEF Comparable
<1>2. Met(i, j) \subseteq j.certifications
  BY DEF Met
<1>3. /\ IsFiniteSet(Met(i, j))
      /\ Cardinality(Met(i, j)) <= Cardinality(j.certifications)
  BY <1>1, <1>2, FS_Subset
<1> QED BY <1>1, <1>3, FS_CardinalityType

LEMMA CertificationScoreSays ==
  ASSUME NEW i, NEW j, Comparable(i, j)
  PROVE  /\ CertificationScore(i, j) \in 0..100
         /\ CertificationScore(i, j) >= 98 =>
              100 * Cardinality(Met(i, j)) >= 98 * Cardinality(j.certifications)
<1>1. /\ Cardinality(Met(i, j)) \in Nat
      /\ Cardinality(j.certifications) \in Nat
      /\ Cardinality(Met(i, j)) <= Cardinality(j.certifications)
  BY MetAreFew
<1>2. CASE j.certifications = {}
  <2>1. Cardinality(j.certifications) = 0
    BY <1>2, FS_EmptySet
  <2> QED BY <1>1, <1>2, <2>1 DEF CertificationScore
<1>3. CASE j.certifications # {}
  <2>1. Cardinality(j.certifications) # 0
    BY <1>3, FS_EmptySet DEF Comparable
  <2>2. CertificationScore(i, j)
          = (Cardinality(Met(i, j)) * 100) \div Cardinality(j.certifications)
    BY <1>3 DEF CertificationScore, Met
  <2>3. PICK a \in Nat : a = Cardinality(Met(i, j))
    BY <1>1
  <2>4. PICK d \in Nat \ {0} : d = Cardinality(j.certifications)
    BY <1>1, <2>1
  <2>5. a <= d
    BY <1>1, <2>1, <2>3, <2>4
  <2>6. /\ (a * 100) \div d \in 0..100
        /\ (a * 100) \div d >= 98 => 100 * a >= 98 * d
    BY <2>5, Percentage
  <2> QED BY <2>2, <2>3, <2>4, <2>6
<1> QED BY <1>2, <1>3

LEMMA RateScoreSays ==
  ASSUME NEW i, NEW j, Comparable(i, j)
  PROVE  /\ RateScore(i, j) \in 0..100
         /\ RateScore(i, j) >= 98 =>
              100 * j.rate >= 98 * i.min \/ PaysBeyond(i, j)
<1>1. i.min \in Nat /\ j.rate \in Nat
  BY DEF Comparable
<1>2. CASE j.rate >= i.min \/ PaysBeyond(i, j)
  BY <1>1, <1>2 DEF RateScore
<1>3. CASE ~(j.rate >= i.min \/ PaysBeyond(i, j))
  <2>1. i.min \in Nat \ {0} /\ j.rate <= i.min
    BY <1>1, <1>3
  <2>2. RateScore(i, j) = (j.rate * 100) \div i.min
    BY <1>1, <1>3 DEF RateScore
  <2>3. PICK a \in Nat : a = j.rate
    BY <1>1
  <2>4. PICK d \in Nat \ {0} : d = i.min
    BY <1>1, <2>1
  <2>5. a <= d
    BY <1>1, <2>1, <2>3, <2>4
  <2>6. /\ (a * 100) \div d \in 0..100
        /\ (a * 100) \div d >= 98 => 100 * a >= 98 * d
    BY <2>5, Percentage
  <2> QED BY <2>2, <2>3, <2>4, <2>6
<1> QED BY <1>1, <1>2, <1>3

(* A full total leaves half a per cent to be lost: no more than two of the *)
(* points of a part, and none of the region, which has no such points.     *)
LEMMA TotalScoreSays ==
  ASSUME NEW i, NEW j, Comparable(i, j)
  PROVE  /\ TotalScore(i, j) \in 0..100
         /\ TotalScore(i, j) = 100 =>
              /\ RegionScore(i, j) = 100
              /\ ExperienceScore(i, j) >= 98
              /\ CertificationScore(i, j) >= 98
              /\ RateScore(i, j) >= 98
<1> DEFINE r == RegionScore(i, j)
           e == ExperienceScore(i, j)
           c == CertificationScore(i, j)
           t == RateScore(i, j)
           sum == 30 * r + 25 * e + 25 * c + 20 * t
<1>1. r \in {0, 70, 100} /\ e \in 0..100 /\ c \in 0..100 /\ t \in 0..100
  BY RegionScoreSays, ExperienceScoreSays, CertificationScoreSays, RateScoreSays
<1>2. TotalScore(i, j) = RoundPercent(sum)
  BY DEF TotalScore, Weight
<1> HIDE DEF r, e, c, t
<1>3. sum \in Nat /\ sum <= 10000
  BY <1>1
<1>4. sum >= 9950 => r = 100 /\ e >= 98 /\ c >= 98 /\ t >= 98
  BY <1>1
<1>5. PICK k \in Nat : k = sum /\ k <= 10000
  BY <1>3
<1>6. RoundPercent(k) \in 0..100 /\ (RoundPercent(k) = 100 => k >= 9950)
  BY <1>5, RoundPercentRange
<1>7. TotalScore(i, j) = RoundPercent(k)
  BY <1>2, <1>5
<1> HIDE DEF sum
<1> QED BY <1>4, <1>5, <1>6, <1>7 DEF r, e, c, t

-----------------------------------------------------------------------------
(* A better profile has no part of its score lowered.                      *)
LEMMA RegionScoreGrows ==
  ASSUME NEW old, NEW new, NEW j, old.regions \subseteq new.regions
  PROVE  RegionScore(old, j) <= RegionScore(new, j)
<1>1. CASE RegionScore(old, j) = 0
  BY <1>1, RegionScoreSays
<1>2. CASE RegionScore(old, j) = 70
  <2>1. \E r \in old.regions : Alike(r, j.region)
    BY <1>2 DEF RegionScore
  <2> QED BY <1>2, <2>1 DEF RegionScore
<1>3. CASE RegionScore(old, j) = 100
  <2>1. RegionScore(new, j) = 100
    BY <1>3, RegionScoreSays DEF RegionScore
  <2> QED BY <1>3, <2>1
<1> QED BY <1>1, <1>2, <1>3, RegionScoreSays

LEMMA ExperienceScoreGrows ==
  ASSUME NEW old, NEW new, NEW j, Comparable(old, j), Comparable(new, j),
         old.experience <= new.experience
  PROVE  ExperienceScore(old, j) <= ExperienceScore(new, j)
<1>1. /\ old.experience \in Nat /\ new.experience \in Nat /\ j.experience \in Nat
      /\ ExperienceScore(old, j) \in 0..100
  BY ExperienceScoreSays DEF Comparable
<1>2. CASE new.experience >= j.experience
  BY <1>1, <1>2 DEF ExperienceScore
<1>3. CASE new.experience < j.experience
  <2>1. PICK a \in Nat : a = old.experience * 100
    BY <1>1
  <2>2. PICK b \in Nat : b = new.experience * 100
    BY <1>1
  <2>3. PICK d \in Nat \ {0} : d = j.experience
    BY <1>1, <1>3
  <2>4. a <= b
    BY <1>1, <2>1, <2>2
  <2>5. a \div d <= b \div d
    BY <2>4, QuotientGrows
  <2>6. ExperienceScore(old, j) = a \div d
    BY <1>1, <1>3, <2>1, <2>3 DEF ExperienceScore
  <2>7. ExperienceScore(new, j) = b \div d
    BY <1>1, <1>3, <2>2, <2>3 DEF ExperienceScore
  <2> QED BY <2>5, <2>6, <2>7
<1> QED BY <1>1, <1>2, <1>3

LEMMA CertificationScoreGrows ==
  ASSUME NEW old, NEW new, NEW j, Comparable(old, j), Comparable(new, j),
         old.certifications \subseteq new.certifications
  PROVE  CertificationScore(old, j) <= CertificationScore(new, j)
<1>1. CASE j.certifications = {}
  BY <1>1 DEF CertificationScore
<1>2. CASE j.certifications # {}
  <2>1. /\ IsFiniteSet(Met(new, j))
        /\ Cardinality(Met(new, j)) \in Nat
        /\ Cardinality(Met(old, j)) \in Nat
        /\ Cardinality(j.certifications) \in Nat
    BY MetAreFew
  <2>2. Met(old, j) \subseteq Met(new, j)
    BY DEF Met
  <2>3. Cardinality(Met(old, j)) <= Cardinality(Met(new, j))
    BY <2>1, <2>2, FS_Subset
  <2>4. Cardinality(j.certifications) # 0
    BY <1>2, FS_EmptySet DEF Comparable
  <2>5. PICK a \in Nat : a = Cardinality(Met(old, j)) * 100
    BY <2>1
  <2>6. PICK b \in Nat : b = Cardinality(Met(new, j)) * 100
    BY <2>1
  <2>7. PICK d \in Nat \ {0} : d = Cardinality(j.certifications)
    BY <2>1, <2>4
  <2>8. a <= b
    BY <2>1, <2>3, <2>5, <2>6
  <2>9. a \div d <= b \div d
    BY <2>8, QuotientGrows
  <2>10. CertificationScore(old, j) = a \div d
    BY <1>2, <2>5, <2>7 DEF CertificationScore, Met
  <2>11. CertificationScore(new, j) = b \div d
    BY <1>2, <2>6, <2>7 DEF CertificationScore, Met
  <2> QED BY <2>9, <2>10, <2>11
<1> QED BY <1>1, <1>2

LEMMA RateScoreGrows ==
  ASSUME NEW old, NEW new, NEW j, Comparable(old, j), Comparable(new, j),
         new.min <= old.min,
         old.max # NoRate => new.max # NoRate /\ new.max <= old.max
  PROVE  RateScore(old, j) <= RateScore(new, j)
<1>1. /\ old.min \in Nat /\ new.min \in Nat /\ j.rate \in Nat
      /\ RateScore(old, j) \in 0..100
      /\ PaysBeyond(old, j) => PaysBeyond(new, j)
  <2>1. /\ old.min \in Nat /\ new.min \in Nat /\ j.rate \in Nat
        /\ old.max \in Nat /\ new.max \in Nat
    BY DEF Comparable
  <2>2. PaysBeyond(old, j) => PaysBeyond(new, j)
    BY <2>1 DEF PaysBeyond
  <2> QED BY <2>1, <2>2, RateScoreSays
<1>2. CASE j.rate >= new.min \/ PaysBeyond(new, j)
  BY <1>1, <1>2 DEF RateScore
<1>3. CASE ~(j.rate >= new.min \/ PaysBeyond(new, j))
  <2>1. PICK a \in Nat : a = j.rate * 100
    BY <1>1
  <2>2. PICK d \in Nat \ {0} : d = old.min
    BY <1>1, <1>3
  <2>3. PICK e \in Nat \ {0} : e = new.min
    BY <1>1, <1>3
  <2>4. a \div d <= a \div e
    BY <2>2, <2>3, QuotientFalls
  <2>5. RateScore(old, j) = a \div d
    BY <1>1, <1>3, <2>1, <2>2 DEF RateScore
  <2>6. RateScore(new, j) = a \div e
    BY <1>1, <1>3, <2>1, <2>3 DEF RateScore
  <2> QED BY <2>4, <2>5, <2>6
<1> QED BY <1>1, <1>2, <1>3

LEMMA TotalScoreGrows ==
  ASSUME NEW old, NEW new, NEW j, Comparable(old, j), Comparable(new, j),
         Improves(old, new)
  PROVE  TotalScore(old, j) <= TotalScore(new, j)
<1> DEFINE r == RegionScore(old, j)
           e == ExperienceScore(old, j)
           c == CertificationScore(old, j)
           t == RateScore(old, j)
           s == RegionScore(new, j)
           f == ExperienceScore(new, j)
           d == CertificationScore(new, j)
           u == RateScore(new, j)
           low == 30 * r + 25 * e + 25 * c + 20 * t
           high == 30 * s + 25 * f + 25 * d + 20 * u
<1>1. r \in {0, 70, 100} /\ e \in 0..100 /\ c \in 0..100 /\ t \in 0..100
  BY RegionScoreSays, ExperienceScoreSays, CertificationScoreSays, RateScoreSays
<1>2. s \in {0, 70, 100} /\ f \in 0..100 /\ d \in 0..100 /\ u \in 0..100
  BY RegionScoreSays, ExperienceScoreSays, CertificationScoreSays, RateScoreSays
<1>3. r <= s /\ e <= f /\ c <= d /\ t <= u
  BY RegionScoreGrows, ExperienceScoreGrows, CertificationScoreGrows,
     RateScoreGrows DEF Improves
<1>4. TotalScore(old, j) = RoundPercent(low) /\ TotalScore(new, j) = RoundPercent(high)
  BY DEF TotalScore, Weight
<1> HIDE DEF r, e, c, t, s, f, d, u
<1>5. PICK n \in Nat : n = low
  BY <1>1
<1>6. PICK m \in Nat : m = high
  BY <1>2
<1>7. n <= m
  BY <1>1, <1>2, <1>3, <1>5, <1>6
<1>8. RoundPercent(n) <= RoundPercent(m)
  BY <1>7, RoundPercentGrows
<1>9. TotalScore(old, j) = RoundPercent(n) /\ TotalScore(new, j) = RoundPercent(m)
  BY <1>4, <1>5, <1>6
<1> QED BY <1>8, <1>9

-----------------------------------------------------------------------------
(* The days of a week: the next day with the same weekday as a later one   *)
(* is less than a week away, and not after it.                             *)
LEMMA SameWeekday ==
  ASSUME NEW day \in Nat, NEW later \in Nat, day <= later
  PROVE  LET next == day + ((later - day) % 7)
         IN /\ next \in day..(day + 6)
            /\ next <= later
            /\ IsoWeekday(next) = IsoWeekday(later)
<1> DEFINE k == (later - day) % 7
<1>1. k \in 0..6 /\ k <= later - day
  OBVIOUS
<1>2. (day + k) % 7 = later % 7
  OBVIOUS
<1> HIDE DEF k
<1>3. /\ day + k \in day..(day + 6)
      /\ day + k <= later
      /\ IsoWeekday(day + k) = IsoWeekday(later)
  BY <1>1, <1>2 DEF IsoWeekday
<1> QED BY <1>3 DEF k

LEMMA FirstOfSome ==
  ASSUME NEW day \in Nat, NEW S, S \subseteq day..(day + 7), S # {}
  PROVE  \E first \in S : \A other \in S : first <= other
<1>1. \A d \in S : d \in {day, day + 1, day + 2, day + 3,
                          day + 4, day + 5, day + 6, day + 7}
  OBVIOUS
<1>2. CASE day \in S
  BY <1>1, <1>2
<1>3. CASE day \notin S /\ day + 1 \in S
  BY <1>1, <1>3
<1>4. CASE day \notin S /\ day + 1 \notin S /\ day + 2 \in S
  BY <1>1, <1>4
<1>5. CASE day \notin S /\ day + 1 \notin S /\ day + 2 \notin S /\ day + 3 \in S
  BY <1>1, <1>5
<1>6. CASE S \subseteq {day + 4, day + 5, day + 6, day + 7}
  <2>1. CASE day + 4 \in S
    BY <1>6, <2>1
  <2>2. CASE day + 4 \notin S /\ day + 5 \in S
    BY <1>6, <2>2
  <2>3. CASE day + 4 \notin S /\ day + 5 \notin S /\ day + 6 \in S
    BY <1>6, <2>3
  <2>4. CASE day + 4 \notin S /\ day + 5 \notin S /\ day + 6 \notin S
    <3>1. S \subseteq {day + 7}
      BY <1>6, <2>4
    <3>2. day + 7 \in S
      BY <3>1
    <3> QED BY <3>1, <3>2
  <2> QED BY <1>6, <2>1, <2>2, <2>3, <2>4
<1> QED BY <1>1, <1>2, <1>3, <1>4, <1>5, <1>6

LEMMA NextSessionIs ==
  ASSUME NEW day \in Nat, NEW start \in Nat, NEW end \in Nat, NEW weekdays,
         start <= day
  PROVE  LET left == {date \in RecurringDates(start, end, weekdays) : date >= day}
             next == NextSession(day, weekdays, end)
         IN IF left = {} THEN next = NoDate
            ELSE next \in left /\ \A date \in left : next <= date
<1> DEFINE left == {date \in RecurringDates(start, end, weekdays) : date >= day}
           next == NextSession(day, weekdays, end)
           found == {date \in day..(day + 7) :
                       date <= end /\ IsoWeekday(date) \in weekdays}
<1>1. \A date : date \in left <=>
        date \in Nat /\ date >= day /\ date <= end /\ IsoWeekday(date) \in weekdays
  BY DEF RecurringDates
<1>2. \A date : date \in found <=>
        /\ date \in Nat /\ date >= day /\ date <= day + 7
        /\ date <= end /\ IsoWeekday(date) \in weekdays
  OBVIOUS
<1>3. next = (IF found = {} THEN NoDate
              ELSE CHOOSE date \in found : \A other \in found : date <= other)
  BY DEF NextSession
<1>4. found \subseteq day..(day + 7)
  OBVIOUS
<1> HIDE DEF left, found, next
<1>5. found \subseteq left
  BY <1>1, <1>2
<1>6. CASE left = {}
  <2>1. next = NoDate
    BY <1>3, <1>5, <1>6
  <2> QED BY <1>6, <2>1 DEF left, next
<1>7. CASE left # {}
  <2>1. PICK later \in left : TRUE
    BY <1>7
  <2>2. later \in Nat /\ day <= later /\ later <= end /\ IsoWeekday(later) \in weekdays
    BY <1>1, <2>1
  <2>3. PICK date : date = day + ((later - day) % 7)
    OBVIOUS
  <2>4. /\ date \in day..(day + 6)
        /\ date <= later
        /\ IsoWeekday(date) = IsoWeekday(later)
    BY <2>2, <2>3, SameWeekday
  <2>5. date \in found
    BY <1>2, <2>2, <2>4
  <2>6. PICK first \in found : \A other \in found : first <= other
    BY <1>4, <2>5, FirstOfSome
  <2>7. /\ next \in found
        /\ \A other \in found : next <= other
    BY <1>3, <2>5, <2>6
  <2>8. ASSUME NEW other \in left PROVE next <= other
    <3>1. CASE other <= day + 7
      BY <1>1, <1>2, <2>7, <3>1
    <3>2. CASE other > day + 7
      BY <1>1, <1>2, <2>7, <3>2
    <3> QED BY <1>1, <3>1, <3>2
  <2> QED BY <1>5, <1>7, <2>7, <2>8 DEF left, next
<1> QED BY <1>6, <1>7

-----------------------------------------------------------------------------
(* The types are an invariant.                                             *)
LEMMA TypesHoldAtFirst == Init => TypeOK
  BY JobBoardAssumption DEF Init, TypeOK, Profile

LEMMA EditsAreProfiles ==
  ASSUME profile \in Profile
  PROVE  Edits \subseteq Profile
<1>1. \A r \in SUBSET Regions : [profile EXCEPT !.regions = r] \in Profile
  BY DEF Profile
<1>2. \A y \in Years : [profile EXCEPT !.experience = y] \in Profile
  BY DEF Profile
<1>3. \A c \in SUBSET Certificates : [profile EXCEPT !.certifications = c] \in Profile
  BY DEF Profile
<1>4. \A m \in Rates \cup {NoRate} : /\ [profile EXCEPT !.min = m] \in Profile
                                     /\ [profile EXCEPT !.max = m] \in Profile
  BY DEF Profile
<1> QED BY <1>1, <1>2, <1>3, <1>4 DEF Edits

LEMMA TypesAreKept == TypeOK /\ [Next]_vars => TypeOK'
<1> SUFFICES ASSUME TypeOK, [Next]_vars PROVE TypeOK'
  OBVIOUS
<1>1. ASSUME NEW p \in Edits, EditProfile(p) PROVE TypeOK'
  BY <1>1, EditsAreProfiles DEF EditProfile, TypeOK
<1>2. ASSUME NEW id \in PostId, NEW j \in Posts, UpdatePost(id, j) PROVE TypeOK'
  BY <1>2 DEF UpdatePost, TypeOK
<1>3. ASSUME NEW w \in Schedules, AgreeOn(w) PROVE TypeOK'
  BY <1>3 DEF AgreeOn, TypeOK
<1>4. ASSUME DayPasses PROVE TypeOK'
  BY <1>4, JobBoardAssumption DEF DayPasses, TypeOK
<1>5. ASSUME UNCHANGED vars PROVE TypeOK'
  BY <1>5 DEF vars, TypeOK
<1> QED BY <1>1, <1>2, <1>3, <1>4, <1>5 DEF Next

(* Profiles, posts, schedules and the day keep their types, whatever is    *)
(* edited.                                                                 *)
THEOREM JobBoardTypeCorrect == Spec => []TypeOK
  BY TypesHoldAtFirst, TypesAreKept, PTL DEF Spec

-----------------------------------------------------------------------------
(* An entry of the listing is the score of an open post.                   *)
LEMMA PostsAreComparable ==
  ASSUME TypeOK, NEW id \in PostId
  PROVE  Comparable(profile, WithId(id))
<1>1. post[id] \in Posts
  BY DEF TypeOK
<1>2. profile.experience \in Nat /\ profile.min \in Nat /\ profile.max \in Nat
  BY JobBoardAssumption DEF TypeOK, Profile, NoRate
<1>3. /\ post[id].experience \in Nat /\ post[id].rate \in Nat
      /\ IsFiniteSet(post[id].certifications)
  BY <1>1, JobBoardAssumption
<1> QED BY <1>2, <1>3 DEF Comparable, WithId

LEMMA ListedAre ==
  ASSUME NEW i, NEW posts, NEW least, NEW shown \in Listing(i, posts, least)
  PROVE  \E j \in posts : /\ shown.id = j.id
                          /\ shown.score = TotalScore(i, j)
                          /\ shown.score >= least
  BY DEF Listing

LEMMA MatchesAreListed ==
  ASSUME NEW i, NEW posts, NEW least, NEW j \in posts, TotalScore(i, j) >= least
  PROVE  \E shown \in Listing(i, posts, least) :
           shown.id = j.id /\ shown.score = TotalScore(i, j)
<1> DEFINE shown == [id |-> j.id, premium |-> j.premium,
                     urgent |-> Urgent(j.posted, j.class),
                     score |-> TotalScore(i, j), label |-> Label(TotalScore(i, j))]
<1>1. shown.id = j.id /\ shown.score = TotalScore(i, j)
  OBVIOUS
<1>2. shown \in Listing(i, posts, least)
  BY <1>1 DEF Listing
<1> QED BY <1>1, <1>2

-----------------------------------------------------------------------------
(* A full score on the list means the region that is asked for and, within *)
(* two per cent, the experience, the certificates and the rate, or a rate  *)
(* beyond the most the instructor asks (matching.py:81-103): in any state, *)
(* for any posts and profiles.                                             *)
LEMMA FullScoresSay == TypeOK => FullScoreIsDeserved
<1> SUFFICES ASSUME TypeOK, NEW shown \in Shown, shown.score = 100
             PROVE  LET j == post[shown.id]
                        met == {c \in j.certifications :
                                  \E d \in profile.certifications : Alike(c, d)}
                    IN /\ j.region = NoWord \/ j.region \in profile.regions
                       /\ 100 * profile.experience >= 98 * j.experience
                       /\ 100 * Cardinality(met) >= 98 * Cardinality(j.certifications)
                       /\ \/ 100 * j.rate >= 98 * profile.min
                          \/ PaysBeyond(profile, j)
  BY DEF FullScoreIsDeserved
<1>1. PICK id \in PostId : /\ shown.id = WithId(id).id
                           /\ shown.score = TotalScore(profile, WithId(id))
  BY ListedAre DEF Shown
<1>2. Comparable(profile, WithId(id))
  BY PostsAreComparable
<1>3. /\ RegionScore(profile, WithId(id)) = 100
      /\ ExperienceScore(profile, WithId(id)) >= 98
      /\ CertificationScore(profile, WithId(id)) >= 98
      /\ RateScore(profile, WithId(id)) >= 98
  BY <1>1, <1>2, TotalScoreSays
<1>4. /\ WithId(id).region = NoWord \/ WithId(id).region \in profile.regions
      /\ 100 * profile.experience >= 98 * WithId(id).experience
      /\ 100 * Cardinality(Met(profile, WithId(id)))
           >= 98 * Cardinality(WithId(id).certifications)
      /\ 100 * WithId(id).rate >= 98 * profile.min \/ PaysBeyond(profile, WithId(id))
  BY <1>2, <1>3, RegionScoreSays, ExperienceScoreSays, CertificationScoreSays,
     RateScoreSays
<1>5. /\ shown.id = id
      /\ WithId(id).region = post[id].region
      /\ WithId(id).experience = post[id].experience
      /\ WithId(id).certifications = post[id].certifications
      /\ WithId(id).rate = post[id].rate
  BY <1>1 DEF WithId
<1>6. PaysBeyond(profile, WithId(id)) => PaysBeyond(profile, post[id])
  BY <1>5 DEF PaysBeyond
<1> QED BY <1>4, <1>5, <1>6 DEF Met

(* Truncating four percentages and rounding their sum never makes a match  *)
(* with a missing region or a clearly missing part look full, whatever the *)
(* code takes for the part: a rate beyond the most that is asked is whole  *)
(* to it (matching.py:84-90).                                              *)
THEOREM FullScoresAreDeserved == Spec => []FullScoreIsDeserved
  BY JobBoardTypeCorrect, FullScoresSay, PTL

-----------------------------------------------------------------------------
(* Eight days from today are enough to find the first session that is      *)
(* left, and none is found only when all have passed                       *)
(* (recurring_schedule.py:62), for any schedule and any day after its      *)
(* start.                                                                  *)
LEMMA NextIsFirst == TypeOK => NextIsTheFirst
<1> SUFFICES ASSUME TypeOK, today >= contract.start
             PROVE  LET left == {date \in Dates : date >= today}
                    IN IF left = {} THEN NextShown = NoDate
                       ELSE /\ NextShown \in left
                            /\ \A date \in left : NextShown <= date
  BY DEF NextIsTheFirst
<1>1. PICK start : start = contract.start
  OBVIOUS
<1>2. PICK end : end = contract.end
  OBVIOUS
<1>3. start \in Nat /\ end \in Nat
  BY <1>1, <1>2, JobBoardAssumption DEF TypeOK
<1>4. today \in Nat /\ start <= today
  BY <1>1, JobBoardAssumption DEF TypeOK
<1>5. LET left == {date \in RecurringDates(start, end, contract.weekdays) :
                     date >= today}
          next == NextSession(today, contract.weekdays, end)
      IN IF left = {} THEN next = NoDate
         ELSE next \in left /\ \A date \in left : next <= date
  BY <1>3, <1>4, NextSessionIs
<1> QED BY <1>1, <1>2, <1>5 DEF Dates, NextShown

(* The next session an instructor is shown is the first that is left.      *)
THEOREM NextSessionIsFirst == Spec => []NextIsTheFirst
  BY JobBoardTypeCorrect, NextIsFirst, PTL

-----------------------------------------------------------------------------
(* Only an edit changes the profile, and it leaves the posts alone.        *)
LEMMA ProfilesAreEdited ==
  ASSUME Next, profile' # profile
  PROVE  \E p \in Edits : profile' = p /\ post' = post
  BY DEF Next, EditProfile, UpdatePost, AgreeOn, DayPasses

LEMMA BetterShowsMore ==
  ASSUME TypeOK, Next, profile' # profile, Improves(profile, profile'),
         NEW before \in Shown
  PROVE  \E after \in Shown' : after.id = before.id /\ after.score >= before.score
<1>1. PICK new \in Edits : profile' = new /\ post' = post
  BY ProfilesAreEdited
<1>2. new \in Profile
  BY <1>1, EditsAreProfiles DEF TypeOK
<1>3. PICK id \in PostId : /\ before.id = WithId(id).id
                           /\ before.score = TotalScore(profile, WithId(id))
                           /\ before.score >= Least
  BY ListedAre DEF Shown
<1>4. Comparable(profile, WithId(id))
  BY PostsAreComparable
<1>5. Comparable(new, WithId(id))
  BY <1>2, <1>4, JobBoardAssumption DEF Comparable, Profile, NoRate
<1>6. Improves(profile, new)
  BY <1>1
<1>7. TotalScore(profile, WithId(id)) <= TotalScore(new, WithId(id))
  BY <1>4, <1>5, <1>6, TotalScoreGrows
<1>8. /\ TotalScore(profile, WithId(id)) \in 0..100
      /\ TotalScore(new, WithId(id)) \in 0..100
  BY <1>4, <1>5, TotalScoreSays
<1>9. TotalScore(new, WithId(id)) >= Least
  BY <1>3, <1>7, <1>8, JobBoardAssumption
<1>10. PICK after \in Listing(new, {WithId(k) : k \in PostId}, Least) :
         after.id = WithId(id).id /\ after.score = TotalScore(new, WithId(id))
  BY <1>9, MatchesAreListed
<1>11. Shown' = Listing(new, {WithId(k) : k \in PostId}, Least)
  BY <1>1 DEF Shown, WithId
<1>12. after.score >= before.score
  BY <1>3, <1>7, <1>8, <1>10
<1> QED BY <1>3, <1>10, <1>11, <1>12

(* Whoever learns, moves further or asks for less is shown no post fewer   *)
(* and no post with a lower score, through every branch, truncation and    *)
(* rounding of matching.py:31-103 and the filter of job_posts.py:187.      *)
THEOREM BetterProfilesNeverHurt == Spec => BetterNeverHurts
<1>1. TypeOK /\ [Next]_vars =>
        [profile' # profile /\ Improves(profile, profile') =>
           \A before \in Shown : \E after \in Shown' :
             after.id = before.id /\ after.score >= before.score]_vars
  BY BetterShowsMore DEF vars
<1> QED BY <1>1, JobBoardTypeCorrect, PTL DEF Spec, BetterNeverHurts
=============================================================================
