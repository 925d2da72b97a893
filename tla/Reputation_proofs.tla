------------------------- MODULE Reputation_proofs -------------------------
(***************************************************************************)
(* Proofs about ratings and trust scores, for any users, contracts and     *)
(* ratings, with workers dying between the commits of a deletion.          *)
(***************************************************************************)
EXTENDS Reputation, FiniteSetTheorems, WellFoundedInduction, TLAPS

-----------------------------------------------------------------------------
(* Sums over finite sets.  SumFunctionOnSet folds: it takes away one       *)
(* element after the other, in an order nobody knows.                      *)
Pick(s) == CHOOSE x \in s : TRUE

Sums(f, S, g) ==
  g = [s \in SUBSET S |-> IF s = {} THEN 0 ELSE f[Pick(s)] + g[s \ {Pick(s)}]]

LEMMA SumIsFold ==
  ASSUME NEW f, NEW S
  PROVE  SumFunctionOnSet(f, S) = (CHOOSE g : Sums(f, S, g))[S]
BY DEF SumFunctionOnSet, FoldFunctionOnSet, MapThenFoldSet, Sums, Pick

(* Whatever is true of some subset of a finite set is true of one that has *)
(* no smaller one: what replaces induction here.                           *)
LEMMA SmallestSubset ==
  ASSUME NEW S, IsFiniteSet(S), NEW T, T \subseteq SUBSET S, T # {}
  PROVE  \E m \in T : \A s \in T : s \subseteq m => s = m
<1>1. IsWellFoundedOn(StrictSubsetOrdering(S), SUBSET S)
  BY FS_StrictSubsetOrderingWellFounded, FS_FiniteSubsetsOfFinite
<1>2. PICK m \in T : \A s \in T : <<s, m>> \notin StrictSubsetOrdering(S)
  BY <1>1, WFMin
<1>3. ASSUME NEW s \in T, s \subseteq m PROVE s = m
  <2>1. <<s, m>> \in (SUBSET S) \X (SUBSET S)
    OBVIOUS
  <2> QED BY <1>2, <1>3, <2>1 DEF StrictSubsetOrdering
<1> QED BY <1>3

LEMMA PickIsIn ==
  ASSUME NEW s, s # {}
  PROVE  Pick(s) \in s
BY DEF Pick

LEMMA SumsUnfold ==
  ASSUME NEW f, NEW S, NEW g, Sums(f, S, g), NEW s \in SUBSET S
  PROVE  g[s] = IF s = {} THEN 0 ELSE f[Pick(s)] + g[s \ {Pick(s)}]
<1>1. g = [t \in SUBSET S |-> IF t = {} THEN 0 ELSE f[Pick(t)] + g[t \ {Pick(t)}]]
  BY DEF Sums
<1> QED BY <1>1

(* There is one function of sums at most, and it agrees with the one of a  *)
(* larger set.                                                             *)
LEMMA SumsAgree ==
  ASSUME NEW f, NEW S, NEW R, R \subseteq S, IsFiniteSet(S),
         NEW g, Sums(f, S, g), NEW h, Sums(f, R, h)
  PROVE  \A s \in SUBSET R : g[s] = h[s]
<1> DEFINE T == {s \in SUBSET R : g[s] # h[s]}
<1>1. SUFFICES ASSUME T # {} PROVE FALSE
  OBVIOUS
<1>2. IsFiniteSet(R)
  BY FS_Subset
<1>3. PICK m \in T : \A s \in T : s \subseteq m => s = m
  <2>1. T \subseteq SUBSET R
    OBVIOUS
  <2> HIDE DEF T
  <2> QED BY <1>1, <1>2, <2>1, SmallestSubset
<1>4. /\ g[m] = IF m = {} THEN 0 ELSE f[Pick(m)] + g[m \ {Pick(m)}]
      /\ h[m] = IF m = {} THEN 0 ELSE f[Pick(m)] + h[m \ {Pick(m)}]
  BY SumsUnfold
<1>5. m # {}
  BY <1>4
<1>6. Pick(m) \in m
  BY <1>5, PickIsIn
<1>7. m \ {Pick(m)} \in SUBSET R /\ m \ {Pick(m)} # m
  BY <1>6
<1>8. g[m \ {Pick(m)}] = h[m \ {Pick(m)}]
  BY <1>3, <1>7
<1> QED BY <1>4, <1>5, <1>8

LEMMA SumsRestrict ==
  ASSUME NEW f, NEW S, NEW g, Sums(f, S, g), NEW R \in SUBSET S
  PROVE  Sums(f, R, [s \in SUBSET R |-> g[s]])
<1> DEFINE h == [s \in SUBSET R |-> g[s]]
<1>1. ASSUME NEW s \in SUBSET R
      PROVE  h[s] = IF s = {} THEN 0 ELSE f[Pick(s)] + h[s \ {Pick(s)}]
  <2>1. g[s] = IF s = {} THEN 0 ELSE f[Pick(s)] + g[s \ {Pick(s)}]
    BY SumsUnfold
  <2>2. s \ {Pick(s)} \in SUBSET R
    OBVIOUS
  <2> QED BY <2>1, <2>2
<1>2. h = [s \in SUBSET R |-> IF s = {} THEN 0 ELSE f[Pick(s)] + h[s \ {Pick(s)}]]
  BY <1>1
<1> HIDE DEF h
<1> QED BY <1>2 DEF Sums, h

(* And there is one: on the smallest set without one, it could be put      *)
(* together from those of smaller sets.                                    *)
LEMMA SumsExist ==
  ASSUME NEW f, NEW S, IsFiniteSet(S)
  PROVE  \E g : Sums(f, S, g)
<1> DEFINE T == {R \in SUBSET S : ~\E g : Sums(f, R, g)}
<1>1. SUFFICES ASSUME T # {} PROVE FALSE
  OBVIOUS
<1>2. PICK m \in T : \A s \in T : s \subseteq m => s = m
  <2>1. T \subseteq SUBSET S
    OBVIOUS
  <2> HIDE DEF T
  <2> QED BY <1>1, <2>1, SmallestSubset
<1>3. IsFiniteSet(m)
  BY FS_Subset
<1> DEFINE of(R) == CHOOSE g : Sums(f, R, g)
           whole == [s \in SUBSET m |-> IF s = {} THEN 0
                       ELSE f[Pick(s)] + of(s \ {Pick(s)})[s \ {Pick(s)}]]
<1>4. ASSUME NEW R \in SUBSET m, R # m PROVE Sums(f, R, of(R))
  <2>1. R \in SUBSET S /\ R \notin T
    BY <1>2, <1>4
  <2>2. \E g : Sums(f, R, g)
    BY <2>1
  <2> QED BY <2>2
<1>5. ASSUME NEW s \in SUBSET m, s # m PROVE whole[s] = of(s)[s]
  <2>1. CASE s = {}
    <3>1. of(s)[s] = 0
      BY <1>4, <1>5, <2>1, SumsUnfold
    <3> QED BY <2>1, <3>1
  <2>2. CASE s # {}
    <3> DEFINE r == s \ {Pick(s)}
    <3>1. r \subseteq s /\ r \in SUBSET m /\ r # m /\ r \in SUBSET r
      BY <1>5
    <3>2. IsFiniteSet(s)
      BY <1>3, FS_Subset
    <3>3. of(s)[r] = of(r)[r]
      <4>1. Sums(f, s, of(s)) /\ Sums(f, r, of(r))
        BY <1>4, <1>5, <3>1
      <4> HIDE DEF of, r
      <4> QED BY <3>1, <3>2, <4>1, SumsAgree
    <3>4. of(s)[s] = f[Pick(s)] + of(s)[r]
      <4>1. Sums(f, s, of(s))
        BY <1>4, <1>5
      <4>2. s \in SUBSET s
        OBVIOUS
      <4> HIDE DEF of
      <4> QED BY <2>2, <4>1, <4>2, SumsUnfold
    <3>5. whole[s] = f[Pick(s)] + of(r)[r]
      BY <2>2
    <3> QED BY <3>3, <3>4, <3>5
  <2> QED BY <2>1, <2>2
<1>6. ASSUME NEW s \in SUBSET m
      PROVE  whole[s] = IF s = {} THEN 0 ELSE f[Pick(s)] + whole[s \ {Pick(s)}]
  <2>1. CASE s = {}
    BY <2>1
  <2>2. CASE s # {}
    <3>1. Pick(s) \in s
      BY <2>2, PickIsIn
    <3>2. s \ {Pick(s)} \in SUBSET m /\ s \ {Pick(s)} # m
      BY <3>1
    <3>3. whole[s] = f[Pick(s)] + of(s \ {Pick(s)})[s \ {Pick(s)}]
      BY <2>2
    <3>4. whole[s \ {Pick(s)}] = of(s \ {Pick(s)})[s \ {Pick(s)}]
      BY <1>5, <3>2
    <3> HIDE DEF whole
    <3> QED BY <2>2, <3>3, <3>4
  <2> QED BY <2>1, <2>2
<1>7. whole = [s \in SUBSET m |-> IF s = {} THEN 0
                 ELSE f[Pick(s)] + whole[s \ {Pick(s)}]]
  <2>1. whole = [s \in SUBSET m |-> whole[s]]
    OBVIOUS
  <2> HIDE DEF whole
  <2> QED BY <1>6, <2>1
<1>8. Sums(f, m, whole)
  <2> HIDE DEF whole
  <2> QED BY <1>7 DEF Sums
<1> QED BY <1>2, <1>8

LEMMA SumUnfolds ==
  ASSUME NEW f, NEW S, IsFiniteSet(S)
  PROVE  SumFunctionOnSet(f, S) =
           IF S = {} THEN 0
           ELSE f[Pick(S)] + SumFunctionOnSet(f, S \ {Pick(S)})
<1> DEFINE R == S \ {Pick(S)}
<1>1. PICK g : Sums(f, S, g) /\ SumFunctionOnSet(f, S) = g[S]
  BY SumsExist, SumIsFold
<1>2. IsFiniteSet(R) /\ R \subseteq S
  BY FS_Subset
<1>3. PICK h : Sums(f, R, h) /\ SumFunctionOnSet(f, R) = h[R]
  BY <1>2, SumsExist, SumIsFold
<1>4. g[R] = h[R]
  BY <1>1, <1>2, <1>3, SumsAgree
<1>5. g[S] = IF S = {} THEN 0 ELSE f[Pick(S)] + g[R]
  BY <1>1, SumsUnfold
<1> QED BY <1>1, <1>3, <1>4, <1>5

(* A sum of natural numbers is one.                                        *)
LEMMA SumIsNat ==
  ASSUME NEW f, NEW S, IsFiniteSet(S), \A x \in S : f[x] \in Nat
  PROVE  SumFunctionOnSet(f, S) \in Nat
<1> DEFINE T == {R \in SUBSET S : SumFunctionOnSet(f, R) \notin Nat}
<1>1. SUFFICES ASSUME T # {} PROVE FALSE
  OBVIOUS
<1>2. PICK m \in T : \A s \in T : s \subseteq m => s = m
  <2>1. T \subseteq SUBSET S
    OBVIOUS
  <2> HIDE DEF T
  <2> QED BY <1>1, <2>1, SmallestSubset
<1>3. IsFiniteSet(m) /\ m \subseteq S
  BY FS_Subset
<1>4. SumFunctionOnSet(f, m) =
        IF m = {} THEN 0 ELSE f[Pick(m)] + SumFunctionOnSet(f, m \ {Pick(m)})
  BY <1>3, SumUnfolds
<1>5. m # {}
  BY <1>4
<1>6. Pick(m) \in m
  BY <1>5, PickIsIn
<1>7. SumFunctionOnSet(f, m \ {Pick(m)}) \in Nat
  BY <1>2, <1>3, <1>6
<1> QED BY <1>3, <1>4, <1>5, <1>6, <1>7

(* It does not matter which element is added last.                         *)
LEMMA SumSplits ==
  ASSUME NEW f, NEW S, IsFiniteSet(S), \A x \in S : f[x] \in Nat, NEW y \in S
  PROVE  SumFunctionOnSet(f, S) = f[y] + SumFunctionOnSet(f, S \ {y})
<1> DEFINE sum(R) == SumFunctionOnSet(f, R)
           T == {R \in SUBSET S : \E x \in R : sum(R) # f[x] + sum(R \ {x})}
<1>1. SUFFICES ASSUME T # {} PROVE FALSE
  OBVIOUS
<1>2. PICK m \in T : \A s \in T : s \subseteq m => s = m
  <2>1. T \subseteq SUBSET S
    OBVIOUS
  <2> HIDE DEF T
  <2> QED BY <1>1, <2>1, SmallestSubset
<1>3. PICK x \in m : sum(m) # f[x] + sum(m \ {x})
  OBVIOUS
<1>4. PICK p : p = Pick(m)
  OBVIOUS
<1>5. IsFiniteSet(m) /\ m \subseteq S /\ p \in m
  BY <1>3, <1>4, FS_Subset, PickIsIn
<1>6. sum(m) = f[p] + sum(m \ {p})
  BY <1>3, <1>4, <1>5, SumUnfolds
<1>7. x # p
  BY <1>3, <1>6
<1>8. ASSUME NEW z \in m, NEW w \in m, w # z
      PROVE  sum(m \ {z}) = f[w] + sum((m \ {z}) \ {w})
  <2>1. m \ {z} \in SUBSET S /\ m \ {z} \notin T
    BY <1>2, <1>5
  <2>2. w \in m \ {z}
    BY <1>8
  <2> QED BY <2>1, <2>2
<1>9. (m \ {p}) \ {x} = (m \ {x}) \ {p}
  OBVIOUS
<1>10. sum(m \ {p}) = f[x] + sum((m \ {x}) \ {p})
  BY <1>5, <1>7, <1>8, <1>9
<1>11. sum(m \ {x}) = f[p] + sum((m \ {x}) \ {p})
  BY <1>5, <1>7, <1>8
<1>12. sum((m \ {x}) \ {p}) \in Nat
  <2>1. IsFiniteSet((m \ {x}) \ {p}) /\ (m \ {x}) \ {p} \subseteq S
    BY <1>5, FS_Subset
  <2> QED BY <2>1, SumIsNat
<1>13. f[x] \in Nat /\ f[p] \in Nat
  BY <1>5
<1> HIDE DEF sum
<1> QED BY <1>3, <1>6, <1>10, <1>11, <1>12, <1>13

(* A sum does not fall when the set grows.                                 *)
LEMMA SumGrows ==
  ASSUME NEW f, NEW S, IsFiniteSet(S), \A x \in S : f[x] \in Nat,
         NEW R, R \subseteq S
  PROVE  SumFunctionOnSet(f, R) <= SumFunctionOnSet(f, S)
<1> DEFINE sum(Q) == SumFunctionOnSet(f, Q)
           T == {Q \in SUBSET S : R \subseteq Q /\ ~(sum(R) <= sum(Q))}
<1>1. SUFFICES ASSUME T # {} PROVE FALSE
  OBVIOUS
<1>2. PICK m \in T : \A s \in T : s \subseteq m => s = m
  <2>1. T \subseteq SUBSET S
    OBVIOUS
  <2> HIDE DEF T
  <2> QED BY <1>1, <2>1, SmallestSubset
<1>3. /\ IsFiniteSet(m) /\ m \subseteq S /\ R \subseteq m
      /\ ~(sum(R) <= sum(m))
  BY FS_Subset
<1>4. sum(R) \in Nat /\ sum(m) \in Nat
  <2>1. IsFiniteSet(R)
    BY FS_Subset
  <2> QED BY <1>3, <2>1, SumIsNat
<1>5. R # m
  BY <1>3, <1>4
<1>6. PICK y \in m : y \notin R
  BY <1>3, <1>5
<1>7. sum(m) = f[y] + sum(m \ {y})
  BY <1>3, SumSplits
<1>8. m \ {y} \in SUBSET S /\ R \subseteq m \ {y} /\ m \ {y} \notin T
  BY <1>2, <1>3, <1>6
<1>9. sum(R) <= sum(m \ {y})
  BY <1>8
<1>10. sum(m \ {y}) \in Nat
  <2>1. IsFiniteSet(m \ {y})
    BY <1>3, FS_Subset
  <2> QED BY <1>3, <2>1, SumIsNat
<1>11. f[y] \in Nat
  BY <1>3
<1> HIDE DEF sum
<1> QED BY <1>3, <1>4, <1>7, <1>9, <1>10, <1>11

-----------------------------------------------------------------------------
(* What writing one review does to the sets of reviews.                    *)
LEMMA Counting ==
  ASSUME RowsInv, NEW u
  PROVE  IsFiniteSet(Reviews(u)) /\ Cardinality(Reviews(u)) \in Nat
<1>1. Reviews(u) \subseteq Reviewed
  BY DEF Reviews, Reviewed
<1>2. IsFiniteSet(Reviews(u))
  BY <1>1, FS_Subset DEF RowsInv
<1> QED BY <1>2, FS_CardinalityType

LEMMA ReviewsDependOnRows ==
  ASSUME review' = review
  PROVE  (\A u : Reviews(u)' = Reviews(u)) /\ Reviewed' = Reviewed
  BY DEF Reviews, Reviewed

LEMMA RowWritten ==
  ASSUME RowsInv, NEW c \in Contract, NEW a \in User, NEW r \in Rating \cup {NoReview},
         review' = [review EXCEPT ![c][a] = r]
  PROVE  /\ review' \in [Contract -> [User -> Rating \cup {NoReview}]]
         /\ review'[c][a] = r
         /\ \A d \in Contract, b \in User :
              <<d, b>> # <<c, a>> => review'[d][b] = review[d][b]
  BY DEF RowsInv

LEMMA Inserted ==
  ASSUME RowsInv, NEW c \in Contract, NEW a \in User, NEW r \in Rating,
         a \in Between[c], review[c][a] = NoReview,
         review' = [review EXCEPT ![c][a] = r]
  PROVE  /\ Reviewed' = Reviewed \cup {<<c, a>>}
         /\ <<c, a>> \notin Reviews(Reviewee(c, a))
         /\ Reviews(Reviewee(c, a))' = Reviews(Reviewee(c, a)) \cup {<<c, a>>}
         /\ \A u : u # Reviewee(c, a) => Reviews(u)' = Reviews(u)
<1>1. /\ review'[c][a] = r
      /\ \A d \in Contract, b \in User :
           <<d, b>> # <<c, a>> => review'[d][b] = review[d][b]
  BY RowWritten
<1>2. r # NoReview
  BY ReputationAssumption DEF NoReview
<1>3. \A x \in Contract \X User :
        review'[x[1]][x[2]] # NoReview <=>
          x = <<c, a>> \/ review[x[1]][x[2]] # NoReview
  BY <1>1, <1>2
<1>4. Reviewed' = Reviewed \cup {<<c, a>>}
  BY <1>3 DEF Reviewed
<1>5. <<c, a>> \notin Reviews(Reviewee(c, a))
  BY DEF Reviews
<1>6. Reviews(Reviewee(c, a))' = Reviews(Reviewee(c, a)) \cup {<<c, a>>}
  BY <1>3 DEF Reviews, Reviewee
<1>7. ASSUME NEW u, u # Reviewee(c, a) PROVE Reviews(u)' = Reviews(u)
  BY <1>3, <1>7 DEF Reviews, Reviewee
<1> QED BY <1>4, <1>5, <1>6, <1>7

LEMMA Changed ==
  ASSUME RowsInv, NEW c \in Contract, NEW a \in User, NEW r \in Rating,
         review[c][a] # NoReview, review' = [review EXCEPT ![c][a] = r]
  PROVE  Reviewed' = Reviewed /\ \A u : Reviews(u)' = Reviews(u)
<1>0. r \in Rating \cup {NoReview}
  OBVIOUS
<1>1. /\ review'[c][a] = r
      /\ \A d \in Contract, b \in User :
           <<d, b>> # <<c, a>> => review'[d][b] = review[d][b]
  BY <1>0, RowWritten
<1>2. r # NoReview
  BY ReputationAssumption DEF NoReview
<1>3. \A x \in Contract \X User :
        review'[x[1]][x[2]] # NoReview <=> review[x[1]][x[2]] # NoReview
  BY <1>1, <1>2
<1> QED BY <1>3 DEF Reviewed, Reviews, Reviewee

LEMMA Deleted ==
  ASSUME RowsInv, NEW c \in Contract, NEW a \in User,
         review' = [review EXCEPT ![c][a] = NoReview]
  PROVE  Reviewed' \subseteq Reviewed
<1>1. \A d \in Contract, b \in User :
        review'[d][b] # NoReview => review[d][b] # NoReview
  BY RowWritten
<1> QED BY <1>1 DEF Reviewed

-----------------------------------------------------------------------------
(* What a request is about to do: a plan that is made of what there is, or *)
(* the end of the request.                                                 *)
Sound(p) ==
  p.at \in {"create", "update", "delete", "measure", "rate"} =>
    /\ p.contract \in Contract
    /\ p.author \in Between[p.contract]
    /\ p.at \in {"create", "update"} => p.rating \in Rating

Fresh(p) ==
  p.at \in {"create", "update", "rate"} =>
    /\ p.loaded = profile[Reviewee(p.contract, p.author)]
    /\ p.measured.count = Cardinality(Reviews(Reviewee(p.contract, p.author)))

LEMMA Planned ==
  ASSUME MeasuredInv, NEW s \in Session
  PROVE  Sound(session[s]) /\ Fresh(session[s])
  BY DEF MeasuredInv, PlansInv, CurrentInv, Sound, Fresh, Subject

LEMMA Parties ==
  ASSUME NEW c \in Contract, NEW a \in Between[c]
  PROVE  a \in User /\ Reviewee(c, a) \in User
<1>1. Between[c] \in SUBSET User /\ Cardinality(Between[c]) = 2
  BY ReputationAssumption
<1>2. \E u \in Between[c] : u # a
  <2>1. SUFFICES ASSUME \A u \in Between[c] : u = a PROVE FALSE
    OBVIOUS
  <2>2. Between[c] = {a}
    BY <2>1
  <2>3. Cardinality({a}) = 1
    BY FS_Singleton
  <2> QED BY <1>1, <2>2, <2>3
<1> QED BY <1>1, <1>2 DEF Reviewee

(* A request that changes no table only has to plan well.                  *)
LEMMA Planning ==
  ASSUME MeasuredInv, UNCHANGED <<review, profile>>, NEW s \in Session,
         NEW p, Become(s, p), Sound(p), Fresh(p)
  PROVE  MeasuredInv'
<1>1. /\ \A u : Reviews(u)' = Reviews(u)
      /\ Reviewed' = Reviewed
  BY ReviewsDependOnRows
<1>2. RowsInv'
  BY <1>1 DEF MeasuredInv, RowsInv
<1>3. /\ DOMAIN session' = Session
      /\ session'[s] = p
      /\ \A t \in Session : t # s => session'[t] = session[t]
  BY DEF Become, MeasuredInv, PlansInv
<1>4. ASSUME NEW t \in Session PROVE Sound(session'[t]) /\ Fresh(session'[t])
  BY <1>3, Planned
<1>5. PlansInv'
  BY <1>3, <1>4 DEF PlansInv, Sound
<1>6. CurrentInv'
  BY <1>1, <1>4 DEF CurrentInv, Fresh, Subject
<1> QED BY <1>2, <1>5, <1>6 DEF MeasuredInv

LEMMA Waiting ==
  ASSUME MeasuredInv, UNCHANGED <<review, profile, session>>
  PROVE  MeasuredInv'
<1>1. /\ \A u : Reviews(u)' = Reviews(u)
      /\ Reviewed' = Reviewed
  BY ReviewsDependOnRows
<1>2. RowsInv'
  BY <1>1 DEF MeasuredInv, RowsInv
<1>3. PlansInv'
  BY DEF MeasuredInv, PlansInv
<1>4. CurrentInv'
  BY <1>1 DEF MeasuredInv, CurrentInv, Subject
<1> QED BY <1>2, <1>3, <1>4 DEF MeasuredInv

(* With one request at a time nothing is planned when it has ended.        *)
LEMMA Ending ==
  ASSUME OneAtATime, MeasuredInv, NEW s \in Session, Become(s, Idle), RowsInv'
  PROVE  MeasuredInv'
<1>1. DOMAIN session' = Session /\ \A t \in Session : session'[t] = Idle
  BY DEF Become, MeasuredInv, PlansInv, OneAtATime
<1>2. Idle.at = "idle"
  BY DEF Idle
<1>3. PlansInv'
  BY <1>1, <1>2 DEF PlansInv
<1>4. CurrentInv'
  BY <1>1, <1>2 DEF CurrentInv
<1> QED BY <1>3, <1>4 DEF MeasuredInv

-----------------------------------------------------------------------------
(* What a write of a rating leaves: the count that was measured, whether   *)
(* it is written or was there already.                                     *)
LEMMA CountWritten ==
  ASSUME MeasuredInv, NEW s \in Session, StoreRating(s),
         session[s].at \in {"create", "update", "rate"},
         NEW w, w = Subject(s)
  PROVE  /\ DOMAIN profile' = User
         /\ profile'[w].count = Cardinality(Reviews(w))
         /\ \A u \in User : u # w => profile'[u] = profile[u]
<1>1. Subject(s) \in User
  BY Planned, Parties DEF Subject, Sound
<1>2. /\ session[s].loaded = profile[Subject(s)]
      /\ session[s].measured.count = Cardinality(Reviews(Subject(s)))
  BY DEF MeasuredInv, CurrentInv
<1>3. /\ DOMAIN profile' = User
      /\ profile'[Subject(s)] = Written(s, profile[Subject(s)])
      /\ \A u \in User : u # Subject(s) => profile'[u] = profile[u]
  BY <1>1 DEF StoreRating, MeasuredInv, RowsInv
<1>4. Written(s, profile[Subject(s)]).count = session[s].measured.count
  BY <1>2 DEF Written
<1> QED BY <1>2, <1>3, <1>4

Recovers ==
  \A u \in User : profile'[u] # profile[u] =>
    profile'[u].count \in {Cardinality(Reviews(u))', Cardinality(Reviews(u))' - 1}

LEMMA CommitReviewStep ==
  ASSUME OneAtATime, MeasuredInv, NEW s \in Session, CommitReview(s)
  PROVE  MeasuredInv' /\ Recovers
<1>1. Become(s, Idle) /\ session[s].at = "create"
  BY DEF CommitReview, At
<1>2. PICK c \in Contract, a \in User, r \in Rating :
        /\ c = session[s].contract /\ a = session[s].author /\ r = session[s].rating
        /\ a \in Between[c]
  BY <1>1, Planned, Parties DEF Sound
<1>3. CASE review[c][a] = NoReview
  <2>1. review' = [review EXCEPT ![c][a] = r] /\ StoreRating(s)
    BY <1>2, <1>3 DEF CommitReview
  <2>2. PICK w : w = Reviewee(c, a)
    OBVIOUS
  <2>3. /\ Reviewed' = Reviewed \cup {<<c, a>>}
        /\ <<c, a>> \notin Reviews(w)
        /\ Reviews(w)' = Reviews(w) \cup {<<c, a>>}
    BY <1>2, <1>3, <2>1, <2>2, Inserted DEF MeasuredInv
  <2>4. w = Subject(s)
    BY <1>2, <2>2 DEF Subject
  <2>5. /\ DOMAIN profile' = User
        /\ profile'[w].count = Cardinality(Reviews(w))
        /\ \A u \in User : u # w => profile'[u] = profile[u]
    BY <1>1, <2>1, <2>4, CountWritten
  <2>6. RowsInv'
    <3>1. IsFiniteSet(Reviewed')
      BY <2>3, FS_AddElement DEF MeasuredInv, RowsInv
    <3>2. review' \in [Contract -> [User -> Rating \cup {NoReview}]]
      BY <1>2, <2>1 DEF MeasuredInv, RowsInv
    <3> QED BY <2>5, <3>1, <3>2 DEF RowsInv
  <2>7. IsFiniteSet(Reviews(w)) /\ Cardinality(Reviews(w)) \in Nat
    BY Counting DEF MeasuredInv
  <2>8. Cardinality(Reviews(w)') = Cardinality(Reviews(w)) + 1
    BY <2>3, <2>7, FS_AddElement
  <2>9. profile'[w].count = Cardinality(Reviews(w))' - 1
    BY <2>5, <2>7, <2>8
  <2> QED BY <1>1, <2>5, <2>6, <2>9, Ending DEF Recovers
<1>4. CASE review[c][a] # NoReview
  <2>1. UNCHANGED <<review, profile>>
    BY <1>2, <1>4 DEF CommitReview
  <2>2. RowsInv'
    BY <2>1, ReviewsDependOnRows DEF MeasuredInv, RowsInv
  <2> QED BY <1>1, <2>1, <2>2, Ending DEF Recovers
<1> QED BY <1>3, <1>4

LEMMA CommitUpdateStep ==
  ASSUME OneAtATime, MeasuredInv, NEW s \in Session, CommitUpdate(s)
  PROVE  MeasuredInv' /\ Recovers
<1>1. Become(s, Idle) /\ session[s].at = "update"
  BY DEF CommitUpdate, At
<1>2. PICK c \in Contract, a \in User, r \in Rating :
        /\ c = session[s].contract /\ a = session[s].author /\ r = session[s].rating
        /\ a \in Between[c]
  BY <1>1, Planned, Parties DEF Sound
<1>3. CASE review[c][a] # NoReview
  <2>1. review' = [review EXCEPT ![c][a] = r] /\ StoreRating(s)
    BY <1>2, <1>3 DEF CommitUpdate
  <2>2. PICK w : w = Subject(s)
    OBVIOUS
  <2>3. Reviewed' = Reviewed /\ \A u : Reviews(u)' = Reviews(u)
    BY <1>2, <1>3, <2>1, Changed DEF MeasuredInv
  <2>4. /\ DOMAIN profile' = User
        /\ profile'[w].count = Cardinality(Reviews(w))
        /\ \A u \in User : u # w => profile'[u] = profile[u]
    BY <1>1, <2>1, <2>2, CountWritten
  <2>5. RowsInv'
    <3>1. review' \in [Contract -> [User -> Rating \cup {NoReview}]]
      BY <1>2, <2>1 DEF MeasuredInv, RowsInv
    <3> QED BY <2>3, <2>4, <3>1 DEF MeasuredInv, RowsInv
  <2>6. profile'[w].count = Cardinality(Reviews(w))'
    BY <2>3, <2>4
  <2> QED BY <1>1, <2>4, <2>5, <2>6, Ending DEF Recovers
<1>4. CASE review[c][a] = NoReview
  <2>1. UNCHANGED <<review, profile>>
    BY <1>2, <1>4 DEF CommitUpdate
  <2>2. RowsInv'
    BY <2>1, ReviewsDependOnRows DEF MeasuredInv, RowsInv
  <2> QED BY <1>1, <2>1, <2>2, Ending DEF Recovers
<1> QED BY <1>3, <1>4

LEMMA CommitRatingStep ==
  ASSUME OneAtATime, MeasuredInv, NEW s \in Session, CommitRating(s)
  PROVE  MeasuredInv' /\ Recovers
<1>1. /\ Become(s, Idle) /\ session[s].at = "rate"
      /\ StoreRating(s) /\ review' = review
  BY DEF CommitRating, At
<1>2. PICK w : w = Subject(s)
  OBVIOUS
<1>3. Reviewed' = Reviewed /\ \A u : Reviews(u)' = Reviews(u)
  BY <1>1, ReviewsDependOnRows
<1>4. /\ DOMAIN profile' = User
      /\ profile'[w].count = Cardinality(Reviews(w))
      /\ \A u \in User : u # w => profile'[u] = profile[u]
  BY <1>1, <1>2, CountWritten
<1>5. RowsInv'
  BY <1>1, <1>3, <1>4 DEF MeasuredInv, RowsInv
<1>6. profile'[w].count = Cardinality(Reviews(w))'
  BY <1>3, <1>4
<1> QED BY <1>1, <1>4, <1>5, <1>6, Ending DEF Recovers

(* The deletion: the row goes first, then the rating follows.              *)
LEMMA CommitDeleteStep ==
  ASSUME OneAtATime, MeasuredInv, NEW s \in Session, CommitDelete(s)
  PROVE  MeasuredInv' /\ profile' = profile
<1>1. /\ session[s].at = "delete" /\ profile' = profile
      /\ Become(s, [session[s] EXCEPT !.at = "measure"])
  BY DEF CommitDelete, At
<1>2. PICK c \in Contract, a \in User :
        c = session[s].contract /\ a = session[s].author /\ a \in Between[c]
  BY <1>1, Planned, Parties DEF Sound
<1>3. review' = [review EXCEPT ![c][a] = NoReview]
  BY <1>2 DEF CommitDelete
<1>4. Reviewed' \subseteq Reviewed
  BY <1>3, Deleted DEF MeasuredInv
<1>5. RowsInv'
  <2>1. IsFiniteSet(Reviewed')
    BY <1>4, FS_Subset DEF MeasuredInv, RowsInv
  <2>2. review' \in [Contract -> [User -> Rating \cup {NoReview}]]
    BY <1>3 DEF MeasuredInv, RowsInv
  <2> QED BY <1>1, <2>1, <2>2 DEF MeasuredInv, RowsInv
<1>6. PICK p : p = [session[s] EXCEPT !.at = "measure"]
  OBVIOUS
<1>7. /\ DOMAIN session' = Session
      /\ \A t \in Session : session'[t] = p
  BY <1>1, <1>6 DEF Become, OneAtATime, MeasuredInv, PlansInv
<1>8. p.at = "measure" /\ p.contract \in Contract /\ p.author \in Between[p.contract]
  BY <1>1, <1>2, <1>6
<1>9. PlansInv'
  BY <1>7, <1>8 DEF PlansInv
<1>10. CurrentInv'
  BY <1>7, <1>8 DEF CurrentInv
<1> QED BY <1>1, <1>5, <1>9, <1>10 DEF MeasuredInv

-----------------------------------------------------------------------------
(* The steps that only plan.                                               *)
LEMMA MeasuringFresh ==
  ASSUME MeasuredInv, NEW s \in Session, NEW step \in {"create", "update"},
         NEW c \in Contract, NEW a \in Between[c], NEW r \in Rating,
         UNCHANGED <<review, profile>>, Measuring(s, step, c, a, r)
  PROVE  MeasuredInv'
<1>1. PICK p : p = [at |-> step, contract |-> c, author |-> a, rating |-> r,
                    loaded |-> profile[Reviewee(c, a)],
                    measured |-> Measured(Reviewee(c, a))]
  OBVIOUS
<1>2. Become(s, p)
  BY <1>1 DEF Measuring
<1>3. Sound(p)
  BY <1>1 DEF Sound
<1>4. Measured(Reviewee(c, a)).count = Cardinality(Reviews(Reviewee(c, a)))
  BY DEF Measured
<1>5. Fresh(p)
  BY <1>1, <1>4 DEF Fresh
<1> QED BY <1>2, <1>3, <1>5, Planning

LEMMA MeasureAgainStep ==
  ASSUME MeasuredInv, NEW s \in Session, MeasureAgain(s)
  PROVE  MeasuredInv' /\ profile' = profile
<1>1. /\ UNCHANGED <<review, profile>> /\ session[s].at = "measure"
  BY DEF MeasureAgain, At
<1>2. PICK c \in Contract, a \in User :
        c = session[s].contract /\ a = session[s].author /\ a \in Between[c]
  BY <1>1, Planned, Parties DEF Sound
<1>3. PICK p : p = [at |-> "rate", contract |-> c, author |-> a,
                    loaded |-> profile[Reviewee(c, a)],
                    measured |-> Measured(Reviewee(c, a))]
  OBVIOUS
<1>4. Become(s, p)
  BY <1>2, <1>3 DEF MeasureAgain, Subject
<1>5. Sound(p)
  BY <1>2, <1>3 DEF Sound
<1>6. Measured(Reviewee(c, a)).count = Cardinality(Reviews(Reviewee(c, a)))
  BY DEF Measured
<1>7. Fresh(p)
  BY <1>3, <1>6 DEF Fresh
<1> QED BY <1>1, <1>4, <1>5, <1>7, Planning

LEMMA DeleteReviewStep ==
  ASSUME MeasuredInv, NEW s \in Session, NEW c \in Contract, NEW a \in Author,
         DeleteReview(s, c, a)
  PROVE  MeasuredInv' /\ profile' = profile
<1>1. PICK p : p = [at |-> "delete", contract |-> c, author |-> a]
  OBVIOUS
<1>2. Become(s, p) /\ UNCHANGED <<review, profile>> /\ a \in Between[c]
  BY <1>1 DEF DeleteReview
<1>3. Sound(p) /\ Fresh(p)
  BY <1>1, <1>2 DEF Sound, Fresh
<1> QED BY <1>2, <1>3, Planning

LEMMA RefreshTrustStep ==
  ASSUME MeasuredInv, NEW s \in Session, NEW u, RefreshTrust(s, u)
  PROVE  MeasuredInv' /\ profile' = profile
<1>1. PICK p : p = [at |-> "refresh", user |-> u, seen |-> Seen(u)]
  OBVIOUS
<1>2. Become(s, p) /\ UNCHANGED <<review, profile>>
  BY <1>1 DEF RefreshTrust
<1>3. Sound(p) /\ Fresh(p)
  BY <1>1 DEF Sound, Fresh
<1> QED BY <1>2, <1>3, Planning

LEMMA EndingStep ==
  ASSUME OneAtATime, MeasuredInv, NEW s \in Session, CommitTrust(s) \/ Killed(s)
  PROVE  MeasuredInv' /\ profile' = profile
<1>1. Become(s, Idle) /\ UNCHANGED <<review, profile>>
  BY DEF CommitTrust, Killed
<1>2. RowsInv'
  BY <1>1, ReviewsDependOnRows DEF MeasuredInv, RowsInv
<1> QED BY <1>1, <1>2, Ending

-----------------------------------------------------------------------------
LEMMA MeasuredAtFirst == Init => MeasuredInv
<1> SUFFICES ASSUME Init PROVE MeasuredInv
  OBVIOUS
<1>1. Reviewed = {}
  BY DEF Init, Reviewed
<1>2. RowsInv
  BY <1>1, FS_EmptySet DEF Init, RowsInv
<1>3. Idle.at = "idle"
  BY DEF Idle
<1>4. PlansInv /\ CurrentInv
  BY <1>3 DEF Init, PlansInv, CurrentInv
<1> QED BY <1>2, <1>4 DEF MeasuredInv

LEMMA MeasuredStep ==
  ASSUME OneAtATime, MeasuredInv, [Next]_vars
  PROVE  MeasuredInv' /\ Recovers
<1>1. ASSUME NEW s \in Session, NEW c \in Contract, NEW a \in Author,
             NEW r \in Rating, CreateReview(s, c, a, r)
      PROVE  MeasuredInv' /\ Recovers
  <2>1. /\ a \in Between[c] /\ UNCHANGED <<review, profile>>
        /\ Measuring(s, "create", c, a, r)
    BY <1>1 DEF CreateReview, Reviewers
  <2> QED BY <2>1, MeasuringFresh DEF Recovers
<1>2. ASSUME NEW s \in Session, NEW c \in Contract, NEW a \in Author,
             NEW r \in Rating, UpdateReview(s, c, a, r)
      PROVE  MeasuredInv' /\ Recovers
  <2>1. /\ a \in Between[c] /\ UNCHANGED <<review, profile>>
        /\ Measuring(s, "update", c, a, r)
    BY <1>2 DEF UpdateReview
  <2> QED BY <2>1, MeasuringFresh DEF Recovers
<1>3. ASSUME NEW s \in Session, NEW c \in Contract, NEW a \in Author,
             DeleteReview(s, c, a)
      PROVE  MeasuredInv' /\ Recovers
  BY <1>3, DeleteReviewStep DEF Recovers
<1>4. ASSUME NEW s \in Session, CommitReview(s) \/ CommitUpdate(s) \/ CommitRating(s)
      PROVE  MeasuredInv' /\ Recovers
  BY <1>4, CommitReviewStep, CommitUpdateStep, CommitRatingStep
<1>5. ASSUME NEW s \in Session, CommitDelete(s) \/ MeasureAgain(s)
      PROVE  MeasuredInv' /\ Recovers
  BY <1>5, CommitDeleteStep, MeasureAgainStep DEF Recovers
<1>6. ASSUME NEW s \in Session, NEW u \in Refresher, RefreshTrust(s, u)
      PROVE  MeasuredInv' /\ Recovers
  BY <1>6, RefreshTrustStep DEF Recovers
<1>7. ASSUME NEW s \in Session, CommitTrust(s) \/ Killed(s)
      PROVE  MeasuredInv' /\ Recovers
  BY <1>7, EndingStep DEF Recovers
<1>8. ASSUME UNCHANGED <<review, profile, session>>
      PROVE  MeasuredInv' /\ Recovers
  BY <1>8, Waiting DEF Recovers
<1>9. ASSUME NEW u \in User,
             \/ VerifyPhone(u) \/ NoShow(u) \/ VerifyBusiness(u)
             \/ \E fields \in SUBSET Field[u], n \in 0..MaxCertificates :
                  EditProfile(u, fields, n)
      PROVE  UNCHANGED <<review, profile, session>>
  BY <1>9 DEF VerifyPhone, NoShow, VerifyBusiness, EditProfile, Change
<1>10. ASSUME \/ \E c \in Contract : Complete(c)
              \/ DaysPass \/ HourPasses \/ UNCHANGED vars
       PROVE  UNCHANGED <<review, profile, session>>
  BY <1>10 DEF Complete, DaysPass, HourPasses, vars
<1>11. Editor \subseteq User
  BY ReputationAssumption
<1> QED BY <1>1, <1>2, <1>3, <1>4, <1>5, <1>6, <1>7, <1>8, <1>9, <1>10, <1>11 DEF Next

(* While requests follow one another, what is written to a profile is the  *)
(* number of its reviews, or lacks the one written with it, whatever was   *)
(* left by a worker that died after it deleted a review: the next request  *)
(* counts again (review.py:83-87, 228-237).                                *)
THEOREM CountsRecover ==
  ASSUME OneAtATime
  PROVE  Spec => CountRecovers
<1>1. MeasuredInv /\ [Next]_vars => MeasuredInv' /\ Recovers
  BY MeasuredStep
<1>2. MeasuredInv /\ Recovers =>
        [\A u \in User : profile'[u] # profile[u] =>
           profile'[u].count \in {Cardinality(Reviews(u))',
                                   Cardinality(Reviews(u))' - 1}]_vars
  BY DEF Recovers
<1> QED BY <1>1, <1>2, MeasuredAtFirst, PTL DEF Spec, CountRecovers

-----------------------------------------------------------------------------
(* The points of the trust score, one kind after the other.                *)
LEMMA DivisionGrows ==
  ASSUME NEW a \in Nat, NEW b \in Nat, a <= b, NEW d \in Nat, d > 0
  PROVE  a \div d \in Nat /\ b \div d \in Nat /\ a \div d <= b \div d
<1>1. PICK q \in Int, r \in Int : q = a \div d /\ r = a % d
  OBVIOUS
<1>2. PICK p \in Int, t \in Int : p = b \div d /\ t = b % d
  OBVIOUS
<1>3. a = d * q + r /\ r \in 0..(d - 1)
  BY <1>1
<1>4. b = d * p + t /\ t \in 0..(d - 1)
  BY <1>2
<1>5. q >= 0 /\ p >= 0
  BY <1>3, <1>4
<1>6. q <= p
  <2>1. SUFFICES ASSUME p + 1 <= q PROVE FALSE
    OBVIOUS
  <2>2. d * (p + 1) <= d * q
    BY <2>1
  <2> QED BY <1>3, <1>4, <2>2
<1> QED BY <1>1, <1>2, <1>5, <1>6

LEMMA HundredthsGrow ==
  ASSUME NEW a \in Nat, NEW b \in Nat, a <= b
  PROVE  a \div 100 \in Nat /\ b \div 100 \in Nat /\ a \div 100 <= b \div 100
OBVIOUS

LEMMA ContractPointsGrow ==
  ASSUME NEW m \in Nat, NEW n \in Nat, m <= n
  PROVE  /\ ContractPoints(m) \in Nat /\ ContractPoints(n) \in Nat
         /\ ContractPoints(m) <= ContractPoints(n)
BY DEF ContractPoints

LEMMA RatingPointsGrow ==
  ASSUME NEW a \in Int, NEW b \in Int, a <= b
  PROVE  /\ RatingPoints(a) \in Int /\ RatingPoints(b) \in Int
         /\ RatingPoints(a) <= RatingPoints(b)
BY DEF RatingPoints, BelowInteger

LEMMA AgesGivePoints ==
  ASSUME NEW n \in Nat
  PROVE  ActivityPoints(n) \in Nat /\ AgePoints(n) \in Nat
BY DEF ActivityPoints, AgePoints

LEMMA OneMoreIsFinite ==
  \A S, x : IsFiniteSet(S) => IsFiniteSet(S \cup {x})
BY FS_AddElement

LEMMA SixAreFinite ==
  ASSUME NEW a, NEW b, NEW c, NEW d, NEW e, NEW f
  PROVE  IsFiniteSet({a, b, c, d, e, f})
<1>1. IsFiniteSet((((({a} \cup {b}) \cup {c}) \cup {d}) \cup {e}) \cup {f})
  BY FS_Singleton, OneMoreIsFinite, ZenonT(30)
<1>2. {a, b, c, d, e, f} = (((({a} \cup {b}) \cup {c}) \cup {d}) \cup {e}) \cup {f}
  OBVIOUS
<1> QED BY <1>1, <1>2, Zenon

LEMMA WeightsAre ==
  ASSUME NEW role \in {"instructor", "studio"}
  PROVE  /\ IsFiniteSet(DOMAIN WeightsOf(role))
         /\ \A f \in DOMAIN WeightsOf(role) : WeightsOf(role)[f] \in Nat
         /\ "phone" \in DOMAIN WeightsOf(role)
         /\ WeightsOf(role)["phone"] > 0
<1>1. CASE role = "instructor"
  <2>1. WeightsOf(role) = InstructorWeight
    BY <1>1 DEF WeightsOf
  <2>2. DOMAIN InstructorWeight =
          {"display_name", "phone", "bio", "experience_years", "categories",
           "available_regions"} \cup {"hourly_rate_min"} \cup {"hourly_rate_max"}
    BY DEF InstructorWeight
  <2>3. IsFiniteSet(DOMAIN InstructorWeight)
    <3>1. IsFiniteSet({"display_name", "phone", "bio", "experience_years",
                       "categories", "available_regions"}
                        \cup {"hourly_rate_min"} \cup {"hourly_rate_max"})
      BY SixAreFinite, OneMoreIsFinite, Zenon
    <3> QED BY <2>2, <3>1, Zenon
  <2>4. /\ \A f \in DOMAIN InstructorWeight : InstructorWeight[f] \in Nat
        /\ "phone" \in DOMAIN InstructorWeight
        /\ InstructorWeight["phone"] > 0
    BY DEF InstructorWeight
  <2> QED BY <2>1, <2>3, <2>4
<1>2. CASE role = "studio"
  <2>1. WeightsOf(role) = StudioWeight
    BY <1>2 DEF WeightsOf
  <2>2. DOMAIN StudioWeight =
          {"business_name", "phone", "description", "address", "region", "categories"}
    BY DEF StudioWeight
  <2>3. IsFiniteSet(DOMAIN StudioWeight)
    <3>1. IsFiniteSet({"business_name", "phone", "description", "address",
                       "region", "categories"})
      BY SixAreFinite, Zenon
    <3> QED BY <2>2, <3>1, Zenon
  <2>4. /\ \A f \in DOMAIN StudioWeight : StudioWeight[f] \in Nat
        /\ "phone" \in DOMAIN StudioWeight
        /\ StudioWeight["phone"] > 0
    BY DEF StudioWeight
  <2> QED BY <2>1, <2>3, <2>4
<1> QED BY <1>1, <1>2

(* A field more never lowers the percentage, although it is truncated.     *)
LEMMA PercentageGrows ==
  ASSUME NEW w, IsFiniteSet(DOMAIN w), \A f \in DOMAIN w : w[f] \in Nat,
         NEW p \in DOMAIN w, w[p] > 0,
         NEW B, B \subseteq DOMAIN w, NEW A, A \subseteq B
  PROVE  /\ Percentage(w, A) \in Nat /\ Percentage(w, B) \in Nat
         /\ Percentage(w, A) <= Percentage(w, B)
<1>1. IsFiniteSet(A) /\ IsFiniteSet(B)
  BY FS_Subset
<1>2. PICK a, b, d : /\ a = SumFunctionOnSet(w, A)
                     /\ b = SumFunctionOnSet(w, B)
                     /\ d = SumFunctionOnSet(w, DOMAIN w)
  OBVIOUS
<1>3. a \in Nat /\ b \in Nat
  BY <1>1, <1>2, SumIsNat
<1>4. a <= b
  BY <1>1, <1>2, SumGrows
<1>5. d \in Nat /\ d > 0
  <2>1. d = w[p] + SumFunctionOnSet(w, (DOMAIN w) \ {p})
    BY <1>2, SumSplits
  <2>2. SumFunctionOnSet(w, (DOMAIN w) \ {p}) \in Nat
    <3>1. IsFiniteSet((DOMAIN w) \ {p})
      BY FS_Subset
    <3> QED BY <3>1, SumIsNat
  <2>3. w[p] \in Nat
    OBVIOUS
  <2> QED BY <2>1, <2>2, <2>3
<1>6. a * 100 \in Nat /\ b * 100 \in Nat /\ a * 100 <= b * 100
  BY <1>3, <1>4
<1>7. /\ (a * 100) \div d \in Nat /\ (b * 100) \div d \in Nat
      /\ (a * 100) \div d <= (b * 100) \div d
  BY <1>5, <1>6, DivisionGrows
<1> QED BY <1>2, <1>7 DEF Percentage, WeightOf

LEMMA CompletenessPointsGrow ==
  ASSUME NEW role \in {"instructor", "studio"},
         NEW B, B \subseteq DOMAIN WeightsOf(role), NEW A, A \subseteq B
  PROVE  /\ CompletenessPoints[role][A] \in Nat
         /\ CompletenessPoints[role][B] \in Nat
         /\ CompletenessPoints[role][A] <= CompletenessPoints[role][B]
<1>1. PICK w : w = WeightsOf(role)
  OBVIOUS
<1>2. /\ Percentage(w, A) \in Nat /\ Percentage(w, B) \in Nat
      /\ Percentage(w, A) <= Percentage(w, B)
  BY <1>1, WeightsAre, PercentageGrows
<1>3. PICK a \in Nat, b \in Nat :
        a = Percentage(w, A) * 15 /\ b = Percentage(w, B) * 15 /\ a <= b
  BY <1>2
<1>4. a \div 100 \in Nat /\ b \div 100 \in Nat /\ a \div 100 <= b \div 100
  BY <1>3, HundredthsGrow
<1>5. /\ CompletenessPoints[role][A] = (Percentage(w, A) * 15) \div 100
      /\ CompletenessPoints[role][B] = (Percentage(w, B) * 15) \div 100
  BY <1>1 DEF CompletenessPoints
<1> QED BY <1>3, <1>4, <1>5

UserFacts ==
  [role : {"instructor", "studio"}, phone : BOOLEAN, business : BOOLEAN,
   filled : SUBSET UNION {DOMAIN WeightsOf(r) : r \in {"instructor", "studio"}},
   certificates : Nat, noShows : Nat, age : Nat, completed : Nat]

LEMMA CertificationPointsGrow ==
  ASSUME NEW old \in UserFacts, NEW new \in UserFacts,
         new.role = old.role, old.business => new.business,
         old.certificates <= new.certificates
  PROVE  /\ CertificationPoints(old) \in Nat /\ CertificationPoints(new) \in Nat
         /\ CertificationPoints(old) <= CertificationPoints(new)
<1>1. PICK m \in Nat, n \in Nat :
        m = old.certificates /\ n = new.certificates /\ m <= n
  BY DEF UserFacts
<1>2. /\ old.business \in BOOLEAN /\ new.business \in BOOLEAN
      /\ old.role \in {"instructor", "studio"}
  BY DEF UserFacts
<1>3. CASE old.role = "instructor"
  <2>1. /\ CertificationPoints(old) = IF m >= 3 THEN 15 ELSE m * 5
        /\ CertificationPoints(new) = IF n >= 3 THEN 15 ELSE n * 5
    BY <1>1, <1>3 DEF CertificationPoints
  <2> QED BY <1>1, <2>1
<1>4. CASE old.role = "studio"
  <2>1. /\ CertificationPoints(old) = IF old.business THEN 15 ELSE 0
        /\ CertificationPoints(new) = IF new.business THEN 15 ELSE 0
    BY <1>4 DEF CertificationPoints
  <2> QED BY <1>2, <2>1
<1> QED BY <1>2, <1>3, <1>4

LEMMA ScoreGrows ==
  ASSUME NEW old \in UserFacts, NEW new \in UserFacts,
         new.filled \subseteq DOMAIN WeightsOf(new.role),
         NEW a \in Int, NEW b \in Int,
         new.role = old.role, old.phone => new.phone,
         old.business => new.business, old.filled \subseteq new.filled,
         old.certificates <= new.certificates, new.noShows <= old.noShows,
         new.age = old.age, old.completed <= new.completed, a <= b
  PROVE  /\ Score(old, a) \in Int /\ Score(new, b) \in Int
         /\ Score(new, b) >= Score(old, a)
<1>1. PICK i, j \in Nat : /\ i = IdentityPoints(old) /\ j = IdentityPoints(new)
                          /\ i \in Nat /\ i <= j
  BY DEF IdentityPoints, UserFacts
<1>2. PICK k, l \in Nat : /\ k = CompletenessPoints[old.role][Filled(old)]
                          /\ l = CompletenessPoints[new.role][Filled(new)]
                          /\ k \in Nat /\ k <= l
  <2>1. new.role \in {"instructor", "studio"} /\ old.role = new.role
    BY DEF UserFacts
  <2>2. Filled(new) \subseteq DOMAIN WeightsOf(new.role)
    BY <2>1, WeightsAre DEF Filled
  <2>3. Filled(old) \subseteq Filled(new)
    BY DEF Filled
  <2> QED BY <2>1, <2>2, <2>3, CompletenessPointsGrow
<1>3. PICK m, n \in Nat : /\ m = ContractPoints(old.completed)
                          /\ n = ContractPoints(new.completed)
                          /\ m \in Nat /\ m <= n
  BY ContractPointsGrow DEF UserFacts
<1>4. PICK p, q \in Int : /\ p = RatingPoints(a) /\ q = RatingPoints(b)
                          /\ p \in Int /\ p <= q
  BY RatingPointsGrow
<1>5. PICK r, s \in Nat : /\ r = CertificationPoints(old)
                          /\ s = CertificationPoints(new)
                          /\ r \in Nat /\ r <= s
  BY CertificationPointsGrow
<1>6. PICK u, v \in Nat : /\ u = ActivityPoints(old.age) /\ v = AgePoints(old.age)
                          /\ u = ActivityPoints(new.age) /\ v = AgePoints(new.age)
                          /\ u \in Nat
  BY AgesGivePoints DEF UserFacts
<1>7. PICK x, y \in Nat : /\ x = old.noShows /\ y = new.noShows
                          /\ x \in Nat /\ y <= x
  BY DEF UserFacts
<1>8. TotalPoints(old, a) = i + k + m + p + u + r - 20 * x + v
  BY <1>1, <1>2, <1>3, <1>4, <1>5, <1>6, <1>7 DEF TotalPoints
<1>9. TotalPoints(new, b) = j + l + n + q + u + s - 20 * y + v
  BY <1>1, <1>2, <1>3, <1>4, <1>5, <1>6, <1>7 DEF TotalPoints
<1>10. /\ TotalPoints(old, a) \in Int /\ TotalPoints(new, b) \in Int
       /\ TotalPoints(old, a) <= TotalPoints(new, b)
  BY <1>1, <1>2, <1>3, <1>4, <1>5, <1>6, <1>7, <1>8, <1>9
<1> QED BY <1>10 DEF Score

-----------------------------------------------------------------------------
(* What scores are computed from keeps its types, whatever overlaps.       *)
LEMMA AveragesAreNumbers ==
  ASSUME RowsInv, NEW u
  PROVE  Measured(u).average \in Int
<1>1. IsFiniteSet(Reviews(u)) /\ Cardinality(Reviews(u)) \in Nat
  BY Counting
<1>2. PICK f : f = [r \in Reviews(u) |-> review[r[1]][r[2]]]
  OBVIOUS
<1>3. \A r \in Reviews(u) : f[r] \in Nat
  <2>1. ASSUME NEW r \in Reviews(u) PROVE f[r] \in Nat
    <3>1. r[1] \in Contract /\ r[2] \in User /\ f[r] = review[r[1]][r[2]]
      BY <1>2 DEF Reviews
    <3>2. review[r[1]][r[2]] \in Rating \cup {NoReview}
      BY <3>1 DEF RowsInv
    <3>3. \A n \in Rating \cup {NoReview} : n \in Nat
      BY ReputationAssumption DEF NoReview
    <3> QED BY <3>1, <3>2, <3>3
  <2> QED BY <2>1
<1>4. Sum(u) \in Nat
  <2>1. DOMAIN f = Reviews(u)
    BY <1>2
  <2>2. SumFunctionOnSet(f, Reviews(u)) \in Nat
    BY <1>1, <1>3, SumIsNat
  <2> QED BY <1>2, <2>1, <2>2, Zenon DEF Sum, SumFunction
<1>5. PICK n \in Nat, total \in Nat : n = Cardinality(Reviews(u)) /\ total = Sum(u)
  BY <1>1, <1>4
<1>6. CASE n = 0
  BY <1>5, <1>6 DEF Measured
<1>7. CASE n # 0
  <2>1. PICK a \in Nat, d \in Nat : a = 200 * total + n /\ d = 2 * n /\ d > 0
    BY <1>5, <1>7
  <2>2. a \div d \in Nat
    BY <2>1, DivisionGrows
  <2>3. Measured(u).average = a \div d
    BY <1>5, <1>7, <2>1 DEF Measured
  <2> QED BY <2>2, <2>3
<1> QED BY <1>6, <1>7

LEMMA RowWrittenKept ==
  ASSUME RowsInv, NEW c \in Contract, NEW a \in User, NEW r \in Rating \cup {NoReview},
         review' = [review EXCEPT ![c][a] = r], DOMAIN profile' = User
  PROVE  RowsInv'
<1>1. review' \in [Contract -> [User -> Rating \cup {NoReview}]]
  BY RowWritten
<1>2. \A x \in Contract \X User :
        x # <<c, a>> => review'[x[1]][x[2]] = review[x[1]][x[2]]
  BY RowWritten
<1>3. Reviewed' \subseteq Reviewed \cup {<<c, a>>}
  BY <1>2 DEF Reviewed
<1>4. IsFiniteSet(Reviewed \cup {<<c, a>>})
  BY FS_AddElement DEF RowsInv
<1>5. IsFiniteSet(Reviewed')
  BY <1>3, <1>4, FS_Subset
<1> QED BY <1>1, <1>5 DEF RowsInv

(* The invariant without its part about the facts.                         *)
RatedInv ==
  /\ RowsInv
  /\ PlansInv
  /\ \A u \in User : profile[u].average \in Int
  /\ \A s \in Session :
       session[s].at \in {"create", "update", "rate"} =>
         session[s].measured.average \in Int

LEMMA PlanKept ==
  ASSUME KnownInv, NEW s \in Session, NEW p, Become(s, p), Sound(p),
         p.at \in {"create", "update", "rate"} => p.measured.average \in Int,
         RowsInv', \A u \in User : profile'[u].average \in Int
  PROVE  RatedInv'
<1>1. /\ DOMAIN session' = Session
      /\ session'[s] = p
      /\ \A t \in Session : t # s => session'[t] = session[t]
  BY DEF Become, KnownInv, PlansInv
<1>2. ASSUME NEW t \in Session PROVE Sound(session'[t])
  BY <1>1 DEF KnownInv, PlansInv, Sound
<1>3. PlansInv'
  BY <1>1, <1>2 DEF PlansInv, Sound
<1>4. ASSUME NEW t \in Session, session'[t].at \in {"create", "update", "rate"}
      PROVE  session'[t].measured.average \in Int
  BY <1>1, <1>4 DEF KnownInv
<1> QED BY <1>3, <1>4 DEF RatedInv

LEMMA UnratedKept ==
  ASSUME KnownInv, NEW s \in Session, NEW p, Become(s, p), Sound(p),
         p.at \in {"create", "update", "rate"} => p.measured.average \in Int,
         UNCHANGED <<review, profile>>
  PROVE  RatedInv'
<1>1. RowsInv'
  BY ReviewsDependOnRows DEF KnownInv, RowsInv
<1>2. \A u \in User : profile'[u].average \in Int
  BY DEF KnownInv
<1> QED BY <1>1, <1>2, PlanKept

LEMMA EndKept ==
  ASSUME KnownInv, NEW s \in Session, Become(s, Idle),
         RowsInv', \A u \in User : profile'[u].average \in Int
  PROVE  RatedInv'
<1>1. PICK p : p = Idle
  OBVIOUS
<1>2. p.at = "idle"
  BY <1>1 DEF Idle
<1>3. Become(s, p) /\ Sound(p)
  BY <1>1, <1>2 DEF Sound
<1> QED BY <1>2, <1>3, PlanKept

LEMMA RatingStored ==
  ASSUME KnownInv, NEW s \in Session, StoreRating(s),
         session[s].at \in {"create", "update", "rate"}
  PROVE  DOMAIN profile' = User /\ \A u \in User : profile'[u].average \in Int
<1>1. Subject(s) \in User
  <2>1. session[s].contract \in Contract
        /\ session[s].author \in Between[session[s].contract]
    BY DEF KnownInv, PlansInv
  <2> QED BY <2>1, Parties DEF Subject
<1>2. /\ DOMAIN profile' = User
      /\ profile'[Subject(s)] = Written(s, profile[Subject(s)])
      /\ \A u \in User : u # Subject(s) => profile'[u] = profile[u]
  BY <1>1 DEF StoreRating, KnownInv, RowsInv
<1>3. session[s].measured.average \in Int /\ profile[Subject(s)].average \in Int
  BY <1>1 DEF KnownInv
<1>4. Written(s, profile[Subject(s)]).average \in Int
  BY <1>3 DEF Written
<1> QED BY <1>2, <1>4 DEF KnownInv

LEMMA ReviewCommitKept ==
  ASSUME KnownInv, NEW s \in Session, CommitReview(s) \/ CommitUpdate(s) \/ CommitRating(s)
  PROVE  RatedInv'
<1>1. Become(s, Idle) /\ session[s].at \in {"create", "update", "rate"}
  BY DEF CommitReview, CommitUpdate, CommitRating, At
<1>2. PICK c \in Contract, a \in User :
        c = session[s].contract /\ a = session[s].author
  BY <1>1, Parties DEF KnownInv, PlansInv
<1>3. CASE StoreRating(s) /\ \E r \in Rating : review' = [review EXCEPT ![c][a] = r]
  <2>1. PICK r \in Rating \cup {NoReview} : review' = [review EXCEPT ![c][a] = r]
    BY <1>3
  <2>2. DOMAIN profile' = User /\ \A u \in User : profile'[u].average \in Int
    BY <1>1, <1>3, RatingStored
  <2>3. RowsInv'
    BY <2>1, <2>2, RowWrittenKept DEF KnownInv
  <2> QED BY <1>1, <2>2, <2>3, EndKept
<1>4. CASE StoreRating(s) /\ review' = review
  <2>1. DOMAIN profile' = User /\ \A u \in User : profile'[u].average \in Int
    BY <1>1, <1>4, RatingStored
  <2>2. RowsInv'
    BY <1>4, <2>1, ReviewsDependOnRows DEF KnownInv, RowsInv
  <2> QED BY <1>1, <2>1, <2>2, EndKept
<1>5. CASE UNCHANGED <<review, profile>>
  <2>1. RowsInv' /\ \A u \in User : profile'[u].average \in Int
    BY <1>5, ReviewsDependOnRows DEF KnownInv, RowsInv
  <2> QED BY <1>1, <2>1, EndKept
<1>6. session[s].at \in {"create", "update"} => session[s].rating \in Rating
  BY DEF KnownInv, PlansInv
<1>7. \/ StoreRating(s) /\ \E r \in Rating : review' = [review EXCEPT ![c][a] = r]
      \/ StoreRating(s) /\ review' = review
      \/ UNCHANGED <<review, profile>>
  BY <1>2, <1>6 DEF CommitReview, CommitUpdate, CommitRating, At
<1> QED BY <1>3, <1>4, <1>5, <1>7

LEMMA DeleteCommitKept ==
  ASSUME KnownInv, NEW s \in Session, CommitDelete(s)
  PROVE  RatedInv'
<1>1. session[s].at = "delete" /\ profile' = profile
  BY DEF CommitDelete, At
<1>2. PICK c \in Contract, a \in User :
        /\ c = session[s].contract /\ a = session[s].author
        /\ a \in Between[c]
  BY <1>1, Parties DEF KnownInv, PlansInv
<1>3. review' = [review EXCEPT ![c][a] = NoReview]
  BY <1>2 DEF CommitDelete
<1>4. RowsInv'
  BY <1>1, <1>3, RowWrittenKept DEF KnownInv, RowsInv
<1>5. PICK p : p = [session[s] EXCEPT !.at = "measure"]
  OBVIOUS
<1>6. /\ Become(s, p) /\ p.at = "measure"
      /\ p.contract \in Contract /\ p.author \in Between[p.contract]
  BY <1>1, <1>2, <1>5 DEF CommitDelete
<1>7. Sound(p)
  BY <1>6 DEF Sound
<1> QED BY <1>1, <1>4, <1>6, <1>7, PlanKept DEF KnownInv

LEMMA MeasuringKept ==
  ASSUME KnownInv, NEW s \in Session, NEW c \in Contract, NEW a \in Between[c],
         NEW step \in {"create", "update"}, NEW r \in Rating,
         UNCHANGED <<review, profile>>, Measuring(s, step, c, a, r)
  PROVE  RatedInv'
<1>1. PICK p : p = [at |-> step, contract |-> c, author |-> a, rating |-> r,
                    loaded |-> profile[Reviewee(c, a)],
                    measured |-> Measured(Reviewee(c, a))]
  OBVIOUS
<1>2. Become(s, p) /\ Sound(p)
  BY <1>1 DEF Measuring, Sound
<1>3. p.measured.average \in Int
  BY <1>1, AveragesAreNumbers DEF KnownInv
<1> QED BY <1>2, <1>3, UnratedKept

LEMMA MeasureAgainKept ==
  ASSUME KnownInv, NEW s \in Session, MeasureAgain(s)
  PROVE  RatedInv'
<1>1. /\ UNCHANGED <<review, profile>> /\ session[s].at = "measure"
  BY DEF MeasureAgain, At
<1>2. PICK c \in Contract, a \in User :
        c = session[s].contract /\ a = session[s].author /\ a \in Between[c]
  BY <1>1, Parties DEF KnownInv, PlansInv
<1>3. PICK p : p = [at |-> "rate", contract |-> c, author |-> a,
                    loaded |-> profile[Reviewee(c, a)],
                    measured |-> Measured(Reviewee(c, a))]
  OBVIOUS
<1>4. Become(s, p)
  BY <1>2, <1>3 DEF MeasureAgain, Subject
<1>5. Sound(p)
  BY <1>2, <1>3 DEF Sound
<1>6. p.measured.average \in Int
  BY <1>3, AveragesAreNumbers DEF KnownInv
<1> QED BY <1>1, <1>4, <1>5, <1>6, UnratedKept

LEMMA OtherPlansKept ==
  ASSUME KnownInv, NEW s \in Session,
         \/ \E c \in Contract, a \in Author : DeleteReview(s, c, a)
         \/ \E u \in Refresher : RefreshTrust(s, u)
         \/ CommitTrust(s) \/ Killed(s)
  PROVE  RatedInv'
<1>1. CASE \E c \in Contract, a \in Author : DeleteReview(s, c, a)
  <2>1. PICK c \in Contract, a \in Author : DeleteReview(s, c, a)
    BY <1>1
  <2>2. PICK p : p = [at |-> "delete", contract |-> c, author |-> a]
    OBVIOUS
  <2>3. Become(s, p) /\ UNCHANGED <<review, profile>> /\ a \in Between[c]
    BY <2>1, <2>2 DEF DeleteReview
  <2>4. Sound(p) /\ p.at = "delete"
    BY <2>2, <2>3 DEF Sound
  <2> QED BY <2>3, <2>4, UnratedKept
<1>2. CASE \E u \in Refresher : RefreshTrust(s, u)
  <2>1. PICK u \in Refresher : RefreshTrust(s, u)
    BY <1>2
  <2>2. PICK p : p = [at |-> "refresh", user |-> u, seen |-> Seen(u)]
    OBVIOUS
  <2>3. Become(s, p) /\ UNCHANGED <<review, profile>>
    BY <2>1, <2>2 DEF RefreshTrust
  <2>4. Sound(p) /\ p.at = "refresh"
    BY <2>2 DEF Sound
  <2> QED BY <2>3, <2>4, UnratedKept
<1>3. CASE CommitTrust(s) \/ Killed(s)
  <2>1. Become(s, Idle) /\ UNCHANGED <<review, profile>>
    BY <1>3 DEF CommitTrust, Killed
  <2>2. RowsInv' /\ \A u \in User : profile'[u].average \in Int
    BY <2>1, ReviewsDependOnRows DEF KnownInv, RowsInv
  <2> QED BY <2>1, <2>2, EndKept
<1> QED BY <1>1, <1>2, <1>3

(* A step of a request changes no fact.                                    *)
RequestStep ==
  \/ \E s \in Session, c \in Contract, a \in Author :
       \/ \E r \in Rating : CreateReview(s, c, a, r) \/ UpdateReview(s, c, a, r)
       \/ DeleteReview(s, c, a)
  \/ \E s \in Session :
       \/ CommitReview(s) \/ CommitUpdate(s)
       \/ CommitDelete(s) \/ MeasureAgain(s) \/ CommitRating(s)
       \/ \E u \in Refresher : RefreshTrust(s, u)
       \/ CommitTrust(s) \/ Killed(s)

LEMMA RequestsKeep ==
  ASSUME KnownInv, RequestStep
  PROVE  RatedInv' /\ UNCHANGED <<completed, fact>>
<1>1. UNCHANGED <<completed, fact>>
  BY DEF RequestStep, CreateReview, UpdateReview, DeleteReview, CommitReview,
     CommitUpdate, CommitDelete, MeasureAgain, CommitRating, RefreshTrust,
     CommitTrust, Killed
<1>2. ASSUME NEW s \in Session, NEW c \in Contract, NEW a \in Author,
             NEW r \in Rating, CreateReview(s, c, a, r)
      PROVE  RatedInv'
  <2>1. /\ a \in Between[c] /\ UNCHANGED <<review, profile>>
        /\ Measuring(s, "create", c, a, r)
    BY <1>2 DEF CreateReview, Reviewers
  <2> QED BY <2>1, MeasuringKept
<1>3. ASSUME NEW s \in Session, NEW c \in Contract, NEW a \in Author,
             NEW r \in Rating, UpdateReview(s, c, a, r)
      PROVE  RatedInv'
  <2>1. /\ a \in Between[c] /\ UNCHANGED <<review, profile>>
        /\ Measuring(s, "update", c, a, r)
    BY <1>3 DEF UpdateReview
  <2> QED BY <2>1, MeasuringKept
<1>4. ASSUME NEW s \in Session,
             \/ CommitReview(s) \/ CommitUpdate(s) \/ CommitRating(s)
             \/ CommitDelete(s) \/ MeasureAgain(s)
      PROVE  RatedInv'
  BY <1>4, ReviewCommitKept, DeleteCommitKept, MeasureAgainKept
<1> QED BY <1>1, <1>2, <1>3, <1>4, OtherPlansKept DEF RequestStep

(* What the world does to the facts: nothing is taken back but by an edit  *)
(* of the profile.                                                         *)
Onwards ==
  \A u \in User :
    /\ fact[u].phone => fact'[u].phone
    /\ fact[u].business => fact'[u].business
    /\ fact'[u].age >= fact[u].age

WorldStep ==
  \/ \E u \in User :
       \/ VerifyPhone(u) \/ NoShow(u) \/ VerifyBusiness(u)
       \/ \E fields \in SUBSET Field[u], n \in 0..MaxCertificates :
            EditProfile(u, fields, n)
  \/ DaysPass

LEMMA ChangeKeeps ==
  ASSUME KnownInv, NEW u \in User, NEW f \in Facts(u), Change(u, f),
         fact[u].phone => f.phone, fact[u].business => f.business,
         f.age = fact[u].age
  PROVE  /\ UNCHANGED <<completed, review, profile, session>>
         /\ DOMAIN fact' = User /\ \A v \in User : fact'[v] \in Facts(v)
         /\ Onwards
<1>1. /\ DOMAIN fact' = User /\ fact'[u] = f
      /\ \A v \in User : v # u => fact'[v] = fact[v]
  BY DEF Change, KnownInv
<1>2. \A v \in User : fact[v] \in Facts(v)
  BY DEF KnownInv
<1>3. \A v \in User : fact[v].age \in Nat
  BY <1>2 DEF Facts
<1> QED BY <1>1, <1>2, <1>3 DEF Change, Onwards

LEMMA WorldKeeps ==
  ASSUME KnownInv, WorldStep
  PROVE  /\ UNCHANGED <<completed, review, profile, session>>
         /\ DOMAIN fact' = User /\ \A v \in User : fact'[v] \in Facts(v)
         /\ Onwards
<1>1. ASSUME NEW u \in User,
             \/ VerifyPhone(u) \/ NoShow(u) \/ VerifyBusiness(u)
             \/ \E fields \in SUBSET Field[u], n \in 0..MaxCertificates :
                  EditProfile(u, fields, n)
      PROVE  \E f \in Facts(u) :
               /\ Change(u, f)
               /\ fact[u].phone => f.phone
               /\ fact[u].business => f.business
               /\ f.age = fact[u].age
  <2>1. fact[u] \in Facts(u)
    BY DEF KnownInv
  <2>2. CASE VerifyPhone(u)
    <3>1. PICK f : f = [fact[u] EXCEPT !.phone = TRUE]
      OBVIOUS
    <3>2. /\ f \in Facts(u) /\ f.phone /\ f.business = fact[u].business
          /\ f.age = fact[u].age
      BY <2>1, <3>1 DEF Facts
    <3>3. Change(u, f)
      BY <2>2, <3>1 DEF VerifyPhone
    <3> QED BY <3>2, <3>3
  <2>3. CASE VerifyBusiness(u)
    <3>1. PICK f : f = [fact[u] EXCEPT !.business = TRUE]
      OBVIOUS
    <3>2. /\ f \in Facts(u) /\ f.business /\ f.phone = fact[u].phone
          /\ f.age = fact[u].age
      BY <2>1, <3>1 DEF Facts
    <3>3. Change(u, f)
      BY <2>3, <3>1 DEF VerifyBusiness
    <3> QED BY <3>2, <3>3
  <2>4. CASE NoShow(u)
    <3>1. PICK f : f = [fact[u] EXCEPT !.noShows = @ + 1]
      OBVIOUS
    <3>2. /\ f \in Facts(u) /\ f.business = fact[u].business
          /\ f.phone = fact[u].phone /\ f.age = fact[u].age
      BY <2>1, <3>1 DEF Facts
    <3>3. Change(u, f)
      BY <2>4, <3>1 DEF NoShow
    <3> QED BY <3>2, <3>3
  <2>5. CASE \E fields \in SUBSET Field[u], n \in 0..MaxCertificates :
               EditProfile(u, fields, n)
    <3>1. PICK fields \in SUBSET Field[u], n \in 0..MaxCertificates :
            EditProfile(u, fields, n)
      BY <2>5
    <3>2. PICK f : f = [fact[u] EXCEPT !.filled = fields, !.certificates = n]
      OBVIOUS
    <3>3. n \in Nat
      BY ReputationAssumption
    <3>4. /\ f \in Facts(u) /\ f.business = fact[u].business
          /\ f.phone = fact[u].phone /\ f.age = fact[u].age
      BY <2>1, <3>2, <3>3 DEF Facts
    <3>5. Change(u, f)
      BY <3>1, <3>2 DEF EditProfile
    <3> QED BY <3>4, <3>5
  <2> QED BY <1>1, <2>2, <2>3, <2>4, <2>5
<1>2. CASE DaysPass
  <2>1. \A u \in User : fact[u] \in Facts(u)
    BY DEF KnownInv
  <2>2. ASSUME NEW u \in User
        PROVE  /\ fact'[u] \in Facts(u)
               /\ fact'[u].phone = fact[u].phone
               /\ fact'[u].business = fact[u].business
               /\ fact'[u].age >= fact[u].age
    <3>1. Day \in Nat
      BY ReputationAssumption
    <3>2. \/ fact'[u] = fact[u]
          \/ fact'[u] = [fact[u] EXCEPT !.age = @ + Day]
      BY <1>2 DEF DaysPass
    <3> QED BY <2>1, <3>1, <3>2 DEF Facts
  <2> QED BY <1>2, <2>2 DEF DaysPass, Onwards
<1>3. CASE ~DaysPass
  <2>1. PICK u \in User : \E f \in Facts(u) :
          /\ Change(u, f)
          /\ fact[u].phone => f.phone
          /\ fact[u].business => f.business
          /\ f.age = fact[u].age
    BY <1>1, <1>3 DEF WorldStep
  <2> QED BY <2>1, ChangeKeeps
<1> QED BY <1>2, <1>3

LEMMA KnownStep ==
  ASSUME KnownInv, [Next]_vars
  PROVE  KnownInv' /\ Onwards /\ completed \subseteq completed'
<1>1. \A u \in User : fact[u] \in Facts(u)
  BY DEF KnownInv
<1>2. fact' = fact => Onwards
  BY <1>1 DEF Onwards, Facts
<1>3. CASE RequestStep
  <2>1. RatedInv' /\ UNCHANGED <<completed, fact>>
    BY <1>3, RequestsKeep
  <2>2. KnownInv'
    BY <1>1, <2>1 DEF KnownInv, RatedInv, Facts
  <2> QED BY <1>2, <2>1, <2>2
<1>4. ASSUME UNCHANGED <<review, profile, session>>
      PROVE  RatedInv'
  <2>1. RowsInv' /\ PlansInv'
    BY <1>4, ReviewsDependOnRows DEF KnownInv, RowsInv, PlansInv
  <2> QED BY <1>4, <2>1 DEF KnownInv, RatedInv
<1>5. CASE WorldStep
  <2>1. /\ UNCHANGED <<completed, review, profile, session>>
        /\ DOMAIN fact' = User /\ \A v \in User : fact'[v] \in Facts(v)
        /\ Onwards
    BY <1>5, WorldKeeps
  <2>2. KnownInv'
    BY <1>4, <2>1 DEF KnownInv, RatedInv, Facts
  <2> QED BY <2>1, <2>2
<1>6. CASE \E c \in Contract : Complete(c)
  <2>1. PICK c \in Contract : Complete(c)
    BY <1>6
  <2>2. /\ completed' = completed \cup {c}
        /\ UNCHANGED <<review, profile, session, fact>>
    BY <2>1 DEF Complete
  <2>3. IsFiniteSet(completed')
    BY <2>2, FS_AddElement DEF KnownInv
  <2>4. KnownInv'
    BY <1>1, <1>4, <2>2, <2>3 DEF KnownInv, RatedInv, Facts
  <2> QED BY <1>2, <2>2, <2>4
<1>7. CASE HourPasses \/ UNCHANGED vars
  <2>1. UNCHANGED <<completed, review, profile, session, fact>>
    BY <1>7 DEF HourPasses, vars
  <2>2. KnownInv'
    BY <1>1, <1>4, <2>1 DEF KnownInv, RatedInv, Facts
  <2> QED BY <1>2, <2>1, <2>2
<1>8. Editor \subseteq User
  BY ReputationAssumption
<1>9. Next => \/ RequestStep \/ WorldStep \/ HourPasses
               \/ \E c \in Contract : Complete(c)
  BY <1>8 DEF Next, RequestStep, WorldStep
<1> QED BY <1>3, <1>5, <1>6, <1>7, <1>9

LEMMA KnownAtFirst == Init => KnownInv
<1> SUFFICES ASSUME Init PROVE KnownInv
  OBVIOUS
<1>1. RowsInv /\ PlansInv
  BY MeasuredAtFirst DEF MeasuredInv
<1>2. IsFiniteSet(completed)
  BY FS_EmptySet DEF Init
<1>3. DOMAIN fact = User /\ \A u \in User : fact[u] \in Facts(u)
  BY DEF Init, Facts
<1>4. \A u \in User : profile[u].average \in Int
  BY DEF Init
<1>5. Idle.at = "idle"
  BY DEF Idle
<1>6. \A s \in Session : session[s].at = "idle"
  BY <1>5 DEF Init
<1> QED BY <1>1, <1>2, <1>3, <1>4, <1>6 DEF KnownInv

LEMMA CompletedGrows ==
  ASSUME KnownInv, KnownInv', completed \subseteq completed', NEW u \in User
  PROVE  /\ Completed(u) \in Nat /\ Completed(u)' \in Nat
         /\ Completed(u)' >= Completed(u)
<1>1. PICK A, B : /\ A = {c \in completed : u \in Between[c]}
                  /\ B = {c \in completed' : u \in Between[c]}
  OBVIOUS
<1>2. A \subseteq B /\ B \subseteq completed'
  BY <1>1
<1>3. IsFiniteSet(B)
  BY <1>2, FS_Subset DEF KnownInv
<1>4. Cardinality(A) <= Cardinality(B) /\ IsFiniteSet(A)
  BY <1>2, <1>3, FS_Subset
<1>5. Cardinality(A) \in Nat /\ Cardinality(B) \in Nat
  BY <1>3, <1>4, FS_CardinalityType
<1>6. Past[u] \in Nat
  BY ReputationAssumption
<1>7. Completed(u) = Past[u] + Cardinality(A)
  BY <1>1 DEF Completed
<1>8. Completed(u)' = Past[u] + Cardinality(B)
  BY <1>1 DEF Completed
<1> QED BY <1>4, <1>5, <1>6, <1>7, <1>8

(* What a score is computed from is what the lemmas about points ask for.  *)
LEMMA SightsAreKnown ==
  ASSUME NEW u \in User, NEW x \in Sights(u)
  PROVE  /\ x.known \in UserFacts
         /\ x.known.filled \subseteq DOMAIN WeightsOf(x.known.role)
         /\ x.average \in Int
<1>1. /\ Role[u] \in {"instructor", "studio"}
      /\ Field[u] \subseteq DOMAIN WeightsOf(Role[u])
  BY ReputationAssumption
<1>2. PICK k : k = x.known
  OBVIOUS
<1>3. /\ k \in [role : {Role[u]}, phone : BOOLEAN, business : BOOLEAN,
                filled : SUBSET Field[u], certificates : Nat, noShows : Nat,
                age : Nat, completed : Nat]
      /\ x.average \in Int
  BY <1>2 DEF Sights
<1>4. k.role = Role[u] /\ k.filled \subseteq Field[u]
  BY <1>3
<1>5. k.filled \in
        SUBSET UNION {DOMAIN WeightsOf(r) : r \in {"instructor", "studio"}}
  BY <1>1, <1>4
<1>6. k \in UserFacts
  BY <1>1, <1>3, <1>5 DEF UserFacts
<1> QED BY <1>1, <1>2, <1>3, <1>4, <1>6

(* Without a cause a score that is computed again does not fall.           *)
LEMMA FallsForACause ==
  ASSUME NEW u \in User, NEW old \in Sights(u), NEW new \in Sights(u),
         Outlasts(new, old),
         ~(new.known.noShows > old.known.noShows),
         ~(new.average < old.average),
         old.known.filled \subseteq new.known.filled,
         ~(new.known.certificates < old.known.certificates),
         ~(new.known.age > old.known.age)
  PROVE  ~(Score(new.known, new.average) < Score(old.known, old.average))
<1>1. PICK k, l, a, b : /\ k = old.known /\ l = new.known
                        /\ a = old.average /\ b = new.average
  OBVIOUS
<1>2. /\ k \in UserFacts /\ l \in UserFacts
      /\ l.filled \subseteq DOMAIN WeightsOf(l.role)
      /\ a \in Int /\ b \in Int
  BY <1>1, SightsAreKnown
<1>3. l.role = k.role
  BY <1>1 DEF Sights
<1>4. /\ k.noShows \in Nat /\ l.noShows \in Nat
      /\ k.certificates \in Nat /\ l.certificates \in Nat
      /\ k.age \in Nat /\ l.age \in Nat
  BY <1>2 DEF UserFacts
<1>5. /\ k.phone => l.phone
      /\ k.business => l.business
      /\ k.completed <= l.completed
      /\ k.age <= l.age
  BY <1>1 DEF Outlasts
<1>6. /\ l.noShows <= k.noShows /\ k.certificates <= l.certificates
      /\ l.age = k.age /\ a <= b /\ k.filled \subseteq l.filled
  BY <1>1, <1>2, <1>4, <1>5
<1>7. /\ Score(k, a) \in Int /\ Score(l, b) \in Int
      /\ Score(l, b) >= Score(k, a)
  BY <1>2, <1>3, <1>5, <1>6, ScoreGrows
<1>8. ~(Score(l, b) < Score(k, a))
  BY <1>7
<1> QED BY <1>1, <1>8

LEMMA ScoresAreNumbers ==
  ASSUME NEW u \in User, NEW x \in Sights(u)
  PROVE  Score(x.known, x.average) \in Int
<1>1. PICK k, a : k = x.known /\ a = x.average
  OBVIOUS
<1>2. /\ k \in UserFacts /\ a \in Int
      /\ k.filled \subseteq DOMAIN WeightsOf(k.role)
  BY <1>1, SightsAreKnown
<1>3. /\ k.certificates \in Nat /\ k.noShows \in Nat /\ k.completed \in Nat
      /\ k.age \in Nat
  BY <1>2 DEF UserFacts
<1>4. k.certificates <= k.certificates /\ k.noShows <= k.noShows
      /\ k.completed <= k.completed /\ a <= a
  BY <1>2, <1>3
<1>5. Score(k, a) \in Int
  BY <1>2, <1>4, ScoreGrows
<1> QED BY <1>1, <1>5

LEMMA OutlastsTwice ==
  ASSUME NEW u \in User, NEW x \in Sights(u), NEW y \in Sights(u),
         NEW z \in Sights(u), Outlasts(y, x), Outlasts(z, y)
  PROVE  Outlasts(z, x)
<1>1. PICK k, l, m : k = x.known /\ l = y.known /\ m = z.known
  OBVIOUS
<1>2. /\ k.completed \in Nat /\ l.completed \in Nat /\ m.completed \in Nat
      /\ k.age \in Nat /\ l.age \in Nat /\ m.age \in Nat
  BY <1>1 DEF Sights
<1> QED BY <1>1, <1>2 DEF Outlasts

LEMMA SeenIsASight ==
  ASSUME KnownInv, NEW u \in User, Completed(u) \in Nat
  PROVE  Seen(u) \in Sights(u)
<1>1. PICK f \in Facts(u) : f = fact[u]
  BY DEF KnownInv
<1>2. PICK n \in Nat : n = Completed(u)
  OBVIOUS
<1>3. PICK a \in Int : a = profile[u].average
  BY DEF KnownInv
<1>4. Known(u) = [role |-> f.role, phone |-> f.phone, business |-> f.business,
                  filled |-> f.filled, certificates |-> f.certificates,
                  noShows |-> f.noShows, age |-> f.age, completed |-> n]
  BY <1>1, <1>2 DEF Known
<1>5. Known(u) \in [role : {Role[u]}, phone : BOOLEAN, business : BOOLEAN,
                    filled : SUBSET Field[u], certificates : Nat,
                    noShows : Nat, age : Nat, completed : Nat]
  BY <1>4 DEF Facts
<1> QED BY <1>3, <1>5 DEF Seen, Sights

(* What is seen of a user now and after a step.                            *)
LEMMA SightsLast ==
  ASSUME KnownInv, KnownInv', Onwards, completed \subseteq completed',
         NEW u \in User, NEW x, NEW y, x = Seen(u), y = Seen(u)'
  PROVE  x \in Sights(u) /\ y \in Sights(u) /\ Outlasts(y, x)
<1>1. /\ Completed(u) \in Nat /\ Completed(u)' \in Nat
      /\ Completed(u) <= Completed(u)'
  BY CompletedGrows
<1>2. x \in Sights(u)
  BY <1>1, SeenIsASight
<1>3. y \in Sights(u)
  <2>1. PICK f \in Facts(u) : f = fact'[u]
    BY DEF KnownInv, Facts
  <2>2. PICK n \in Nat, a \in Int :
          n = Completed(u)' /\ a = profile'[u].average
    BY <1>1 DEF KnownInv
  <2>3. PICK k : k = Known(u)'
    OBVIOUS
  <2>4. k = [role |-> f.role, phone |-> f.phone, business |-> f.business,
             filled |-> f.filled, certificates |-> f.certificates,
             noShows |-> f.noShows, age |-> f.age, completed |-> n]
    BY <2>1, <2>2, <2>3 DEF Known
  <2>5. k \in [role : {Role[u]}, phone : BOOLEAN, business : BOOLEAN,
               filled : SUBSET Field[u], certificates : Nat,
               noShows : Nat, age : Nat, completed : Nat]
    BY <2>4 DEF Facts
  <2>6. y = [known |-> k, average |-> a]
    BY <2>2, <2>3 DEF Seen
  <2> QED BY <2>2, <2>5, <2>6 DEF Sights
<1>4. /\ x.known = Known(u) /\ y.known = Known(u)'
  BY DEF Seen
<1>5. /\ x.known.phone = fact[u].phone /\ x.known.business = fact[u].business
      /\ x.known.age = fact[u].age /\ x.known.completed = Completed(u)
  BY <1>4 DEF Known
<1>6. /\ y.known.phone = fact'[u].phone /\ y.known.business = fact'[u].business
      /\ y.known.age = fact'[u].age /\ y.known.completed = Completed(u)'
  BY <1>4 DEF Known
<1>7. x.known.age <= y.known.age
  <2>1. PICK f \in Facts(u), g \in Facts(u) : f = fact[u] /\ g = fact'[u]
    BY DEF KnownInv, Facts
  <2>2. f.age \in Nat /\ g.age \in Nat /\ g.age >= f.age
    BY <2>1 DEF Facts, Onwards
  <2> QED BY <1>5, <1>6, <2>1, <2>2
<1>8. Outlasts(y, x)
  BY <1>1, <1>5, <1>6, <1>7 DEF Outlasts, Onwards
<1> QED BY <1>2, <1>3, <1>8

-----------------------------------------------------------------------------
(* The stored score.  Everything but the two steps of a refresh leaves it  *)
(* alone, and begins no refresh.                                           *)
NoRefresh ==
  /\ UNCHANGED <<trust, basis>>
  /\ \A s \in Session : session'[s].at = "refresh" => session'[s] = session[s]

LEMMA OthersRefreshNothing ==
  ASSUME KnownInv, [Next]_vars,
         ~ \E s \in Session, u \in Refresher : RefreshTrust(s, u),
         ~ \E s \in Session : CommitTrust(s)
  PROVE  NoRefresh
<1>1. ASSUME NEW s \in Session, NEW p, Become(s, p), p.at # "refresh",
             UNCHANGED <<trust, basis>>
      PROVE  NoRefresh
  <2>1. /\ session'[s] = p
        /\ \A t \in Session : t # s => session'[t] = session[t]
    BY <1>1 DEF Become, KnownInv, PlansInv
  <2> QED BY <1>1, <2>1 DEF NoRefresh
<1>2. ASSUME NEW s \in Session, NEW c \in Contract, NEW a \in Author,
             NEW r \in Rating, NEW step \in {"create", "update"},
             Measuring(s, step, c, a, r), UNCHANGED <<trust, basis>>
      PROVE  NoRefresh
  <2>1. PICK p : /\ p = [at |-> step, contract |-> c, author |-> a,
                         rating |-> r, loaded |-> profile[Reviewee(c, a)],
                         measured |-> Measured(Reviewee(c, a))]
                 /\ Become(s, p)
    BY <1>2 DEF Measuring
  <2>2. p.at # "refresh"
    BY <2>1
  <2> QED BY <1>1, <1>2, <2>1, <2>2
<1>3. ASSUME NEW s \in Session, NEW c \in Contract, NEW a \in Author,
             DeleteReview(s, c, a)
      PROVE  NoRefresh
  <2>1. PICK p : p = [at |-> "delete", contract |-> c, author |-> a]
    OBVIOUS
  <2>2. Become(s, p) /\ p.at # "refresh" /\ UNCHANGED <<trust, basis>>
    BY <1>3, <2>1 DEF DeleteReview
  <2> QED BY <1>1, <2>2
<1>4. ASSUME NEW s \in Session,
             \/ CommitReview(s) \/ CommitUpdate(s) \/ CommitRating(s)
             \/ Killed(s)
      PROVE  NoRefresh
  <2>1. PICK p : p = Idle
    OBVIOUS
  <2>2. Become(s, p) /\ p.at # "refresh" /\ UNCHANGED <<trust, basis>>
    BY <1>4, <2>1 DEF CommitReview, CommitUpdate, CommitRating, Killed, Idle
  <2> QED BY <1>1, <2>2
<1>5. ASSUME NEW s \in Session, CommitDelete(s)
      PROVE  NoRefresh
  <2>1. PICK p : p = [session[s] EXCEPT !.at = "measure"]
    OBVIOUS
  <2>2. /\ Become(s, p) /\ session[s].at = "delete"
        /\ UNCHANGED <<trust, basis>>
    BY <1>5, <2>1 DEF CommitDelete, At
  <2>3. p.at # "refresh"
    BY <2>1, <2>2
  <2> QED BY <1>1, <2>2, <2>3
<1>6. ASSUME NEW s \in Session, MeasureAgain(s)
      PROVE  NoRefresh
  <2>1. PICK p : p = [at |-> "rate", contract |-> session[s].contract,
                      author |-> session[s].author,
                      loaded |-> profile[Subject(s)],
                      measured |-> Measured(Subject(s))]
    OBVIOUS
  <2>2. Become(s, p) /\ p.at # "refresh" /\ UNCHANGED <<trust, basis>>
    BY <1>6, <2>1 DEF MeasureAgain
  <2> QED BY <1>1, <2>2
<1>7. ASSUME \/ WorldStep \/ HourPasses \/ UNCHANGED vars
             \/ \E c \in Contract : Complete(c)
      PROVE  NoRefresh
  BY <1>7 DEF WorldStep, VerifyPhone, NoShow, VerifyBusiness, EditProfile,
     Change, DaysPass, HourPasses, Complete, vars, NoRefresh
<1>8. Editor \subseteq User
  BY ReputationAssumption
<1>9. \/ RequestStep \/ WorldStep \/ HourPasses \/ UNCHANGED vars
      \/ \E c \in Contract : Complete(c)
  BY <1>8 DEF Next, RequestStep, WorldStep
<1>10. ASSUME RequestStep PROVE NoRefresh
  <2>1. ASSUME NEW s \in Session, NEW c \in Contract, NEW a \in Author,
               NEW r \in Rating, CreateReview(s, c, a, r) \/ UpdateReview(s, c, a, r)
        PROVE  NoRefresh
    BY <1>2, <2>1 DEF CreateReview, UpdateReview
  <2> QED BY <1>3, <1>4, <1>5, <1>6, <1>10, <2>1 DEF RequestStep
<1> QED BY <1>7, <1>9, <1>10

(* What NeverFallsUnearned says of a step.                                 *)
Caused ==
  \A u \in User : \A old \in basis[u], new \in basis'[u] :
    trust'[u].score < trust[u].score =>
      \/ new.known.noShows > old.known.noShows
      \/ new.average < old.average
      \/ ~(old.known.filled \subseteq new.known.filled)
      \/ new.known.certificates < old.known.certificates
      \/ new.known.age > old.known.age

LEMMA StillLasts ==
  ASSUME KnownInv, KnownInv', Onwards, completed \subseteq completed',
         NEW u \in User, NEW old \in Sights(u), Outlasts(Seen(u), old)
  PROVE  Outlasts(Seen(u)', old)
<1>1. PICK x, y : x = Seen(u) /\ y = Seen(u)'
  OBVIOUS
<1>2. x \in Sights(u) /\ y \in Sights(u) /\ Outlasts(y, x)
  BY <1>1, SightsLast
<1>3. Outlasts(y, old)
  BY <1>1, <1>2, OutlastsTwice
<1> QED BY <1>1, <1>3

LEMMA ScoresLast ==
  ASSUME KnownInv, KnownInv', Onwards, completed \subseteq completed',
         ScoredInv, NoRefresh
  PROVE  ScoredInv' /\ Caused
<1>1. trust' = trust /\ basis' = basis
  BY DEF NoRefresh
<1>2. ASSUME NEW u \in User, NEW old \in basis[u]
      PROVE  /\ old \in Sights(u)
             /\ trust[u].score = Score(old.known, old.average)
             /\ Outlasts(Seen(u)', old)
  BY <1>2, StillLasts DEF ScoredInv
<1>3. ASSUME NEW s \in Session, session'[s].at = "refresh"
      PROVE  /\ session'[s] = session[s] /\ session[s].user \in User
             /\ session[s].seen \in Sights(session[s].user)
             /\ \A old \in basis[session[s].user] :
                  Outlasts(session[s].seen, old)
             /\ \A u \in User :
                  u = session[s].user => Outlasts(Seen(u)', session[s].seen)
  <2>1. session'[s] = session[s]
    BY <1>3 DEF NoRefresh
  <2>2. PICK u, x : u = session[s].user /\ x = session[s].seen
    OBVIOUS
  <2>3. /\ u \in User /\ x \in Sights(u) /\ Outlasts(Seen(u), x)
        /\ \A old \in basis[u] : Outlasts(x, old)
    BY <1>3, <2>1, <2>2 DEF ScoredInv
  <2>4. Outlasts(Seen(u)', x)
    BY <2>3, StillLasts
  <2> QED BY <2>1, <2>2, <2>3, <2>4
<1>4. ScoredInv'
  BY <1>1, <1>2, <1>3 DEF ScoredInv, Sights
<1>5. Caused
  <2>1. ASSUME NEW u \in User, NEW old \in basis[u], NEW new \in basis'[u],
               trust'[u].score < trust[u].score
        PROVE  FALSE
    <3>1. trust[u].score \in Int
      BY <1>2, ScoresAreNumbers
    <3> QED BY <1>1, <2>1, <3>1
  <2> QED BY <2>1 DEF Caused
<1> QED BY <1>4, <1>5

LEMMA RefreshesSee ==
  ASSUME OneAtATime, KnownInv, KnownInv', Onwards,
         completed \subseteq completed', ScoredInv,
         NEW s \in Session, NEW u \in User, RefreshTrust(s, u)
  PROVE  ScoredInv' /\ Caused
<1>1. trust' = trust /\ basis' = basis
  BY DEF RefreshTrust
<1>2. PICK x, p : x = Seen(u) /\ p = [at |-> "refresh", user |-> u, seen |-> x]
  OBVIOUS
<1>3. \A t \in Session : session'[t] = p
  BY <1>2 DEF RefreshTrust, Become, OneAtATime, KnownInv, PlansInv
<1>4. x \in Sights(u) /\ Outlasts(Seen(u)', x)
  <2>1. PICK y : y = Seen(u)'
    OBVIOUS
  <2> QED BY <1>2, <2>1, SightsLast
<1>5. \A old \in basis[u] : Outlasts(x, old)
  BY <1>2 DEF ScoredInv
<1>6. ASSUME NEW v \in User, NEW old \in basis[v]
      PROVE  /\ old \in Sights(v)
             /\ trust[v].score = Score(old.known, old.average)
             /\ Outlasts(Seen(v)', old)
  BY <1>6, StillLasts DEF ScoredInv
<1>7. p.user = u /\ p.seen = x /\ p.at = "refresh"
  BY <1>2
<1>8. ScoredInv'
  BY <1>1, <1>3, <1>4, <1>5, <1>6, <1>7 DEF ScoredInv, Sights
<1>9. Caused
  BY <1>1, <1>6, ScoresAreNumbers DEF Caused
<1> QED BY <1>8, <1>9

LEMMA CommitsHaveCauses ==
  ASSUME OneAtATime, KnownInv, KnownInv', Onwards,
         completed \subseteq completed', ScoredInv,
         NEW s \in Session, CommitTrust(s)
  PROVE  ScoredInv' /\ Caused
<1>1. PICK u, x : u = session[s].user /\ x = session[s].seen
  OBVIOUS
<1>2. /\ u \in User /\ x \in Sights(u) /\ Outlasts(Seen(u), x)
      /\ \A old \in basis[u] : Outlasts(x, old)
  BY <1>1 DEF CommitTrust, At, ScoredInv
<1>3. /\ trust' = [trust EXCEPT ![u] =
                     [score |-> Score(x.known, x.average),
                      level |-> Level(Score(x.known, x.average))]]
      /\ basis' = [basis EXCEPT ![u] = {x}]
  BY <1>1 DEF CommitTrust
<1>4. /\ DOMAIN trust' = User /\ DOMAIN basis' = User
      /\ trust'[u].score = Score(x.known, x.average) /\ basis'[u] = {x}
      /\ \A v \in User : v # u => trust'[v] = trust[v] /\ basis'[v] = basis[v]
  BY <1>2, <1>3 DEF ScoredInv
<1>5. \A t \in Session : session'[t].at = "idle"
  BY DEF CommitTrust, Become, OneAtATime, KnownInv, PlansInv, Idle
<1>6. ASSUME NEW v \in User, NEW old \in basis[v]
      PROVE  /\ old \in Sights(v)
             /\ trust[v].score = Score(old.known, old.average)
             /\ Outlasts(Seen(v)', old)
  BY <1>6, StillLasts DEF ScoredInv
<1>7. Outlasts(Seen(u)', x)
  BY <1>2, StillLasts
<1>8. ScoredInv'
  <2>1. ASSUME NEW v \in User, NEW old \in basis'[v]
        PROVE  /\ old \in Sights(v)
               /\ trust'[v].score = Score(old.known, old.average)
               /\ Outlasts(Seen(v)', old)
    <3>1. CASE v = u
      BY <1>2, <1>4, <1>7, <2>1, <3>1
    <3>2. CASE v # u
      BY <1>4, <1>6, <2>1, <3>2
    <3> QED BY <3>1, <3>2
  <2> QED BY <1>4, <1>5, <2>1 DEF ScoredInv, Sights
<1>9. Caused
  <2>1. ASSUME NEW v \in User, NEW old \in basis[v], NEW new \in basis'[v],
               trust'[v].score < trust[v].score,
               ~ \/ new.known.noShows > old.known.noShows
                 \/ new.average < old.average
                 \/ ~(old.known.filled \subseteq new.known.filled)
                 \/ new.known.certificates < old.known.certificates
                 \/ new.known.age > old.known.age
        PROVE  FALSE
    <3>1. CASE v = u
      <4>1. new = x /\ Outlasts(new, old) /\ old \in Sights(u)
        BY <1>2, <1>4, <1>6, <2>1, <3>1
      <4>2. ~(Score(new.known, new.average) < Score(old.known, old.average))
        BY <1>2, <2>1, <4>1, FallsForACause
      <4> QED BY <1>4, <1>6, <2>1, <3>1, <4>1, <4>2
    <3>2. CASE v # u
      <4>1. trust'[v] = trust[v] /\ trust[v].score \in Int
        BY <1>4, <1>6, <3>2, ScoresAreNumbers
      <4> QED BY <2>1, <4>1
    <3> QED BY <3>1, <3>2
  <2> QED BY <2>1 DEF Caused
<1> QED BY <1>8, <1>9

LEMMA ScoredAtFirst == Init => ScoredInv
<1> SUFFICES ASSUME Init PROVE ScoredInv
  OBVIOUS
<1>1. DOMAIN trust = User /\ DOMAIN basis = User
  BY DEF Init
<1>2. \A u \in User : basis[u] = {}
  BY DEF Init
<1>3. \A s \in Session : session[s].at = "idle"
  BY DEF Init, Idle
<1> QED BY <1>1, <1>2, <1>3 DEF ScoredInv

(* While requests follow one another, no stored trust score falls below    *)
(* what was last computed unless there is a no-show, a lower average, a    *)
(* field or a certificate that is gone, or time without activity: for any  *)
(* users, fields of each of them, contracts and reviews, whatever changes  *)
(* between the reading of the facts and the storing of the score, through  *)
(* every step and truncation of trust_score.py and profile_completeness.py.*)
THEOREM NoScoreFallsUnearned ==
  ASSUME OneAtATime
  PROVE  Spec => NeverFallsUnearned
<1>1. KnownInv /\ ScoredInv /\ [Next]_vars =>
        KnownInv' /\ ScoredInv' /\ Caused
  <2> SUFFICES ASSUME KnownInv, ScoredInv, [Next]_vars
               PROVE  KnownInv' /\ ScoredInv' /\ Caused
    OBVIOUS
  <2>1. KnownInv' /\ Onwards /\ completed \subseteq completed'
    BY KnownStep
  <2>2. CASE \E s \in Session, u \in Refresher : RefreshTrust(s, u)
    <3>1. Refresher \subseteq User
      BY ReputationAssumption
    <3> QED BY <2>1, <2>2, <3>1, RefreshesSee
  <2>3. CASE \E s \in Session : CommitTrust(s)
    BY <2>1, <2>3, CommitsHaveCauses
  <2>4. CASE /\ ~ \E s \in Session, u \in Refresher : RefreshTrust(s, u)
             /\ ~ \E s \in Session : CommitTrust(s)
    BY <2>1, <2>4, OthersRefreshNothing, ScoresLast
  <2> QED BY <2>1, <2>2, <2>3, <2>4
<1>2. Caused =>
        [\A u \in User : \A old \in basis[u], new \in basis'[u] :
           trust'[u].score < trust[u].score =>
             \/ new.known.noShows > old.known.noShows
             \/ new.average < old.average
             \/ ~(old.known.filled \subseteq new.known.filled)
             \/ new.known.certificates < old.known.certificates
             \/ new.known.age > old.known.age]_vars
  BY DEF Caused
<1> QED BY <1>1, <1>2, KnownAtFirst, ScoredAtFirst, PTL DEF Spec, NeverFallsUnearned
=============================================================================
