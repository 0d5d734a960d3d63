----------------------------- MODULE NatLemmas -----------------------------
(***************************************************************************)
(* Facts that the proofs of several modules cite: a least element of a set *)
(* of naturals, a greatest one below a bound, and induction over a set     *)
(* (the library states induction over a predicate); the elements of a      *)
(* sequence; sums over finite sets, by the definition of the community     *)
(* modules' fold.                                                          *)
(***************************************************************************)
EXTENDS Integers, Sequences, SetSums, FiniteSetTheorems, WellFoundedInduction, TLAPS

\* Every nonempty set of naturals has a least element.
LEMMA LeastElement ==
  ASSUME NEW T, T \subseteq Nat, T # {}
  PROVE  \E m \in T : \A k \in T : m <= k
<1> DEFINE R == OpToRel(<, Nat)
<1>1. IsWellFoundedOn(R, Nat)
  BY NatLessThanWellFounded
<1>2. PICK m \in T : \A k \in T : ~ (<<k, m>> \in R)
  <2> HIDE DEF R
  <2> QED BY <1>1, WFMin
<1>3. \A k \in T : ~ (k < m)
  BY <1>2 DEF OpToRel
<1>4. QED
  BY <1>3

\* Every nonempty set of naturals with an upper bound has a greatest element.
LEMMA GreatestElement ==
  ASSUME NEW T, T \subseteq Nat, T # {}, NEW b \in Nat, \A k \in T : k <= b
  PROVE  \E m \in T : \A k \in T : k <= m
<1> DEFINE U == {b - k : k \in T}
<1>1. U \subseteq Nat /\ U # {}
  <2>1. ASSUME NEW k \in T PROVE b - k \in Nat
    <3>1. k \in Nat /\ k <= b
      OBVIOUS
    <3>2. QED
      BY <3>1
  <2>2. QED
    BY <2>1
<1>2. PICK u \in U : \A v \in U : u <= v
  BY <1>1, LeastElement
<1>3. PICK m \in T : u = b - m
  OBVIOUS
<1>4. ASSUME NEW k \in T PROVE k <= m
  <2>1. b - m <= b - k
    BY <1>2, <1>3
  <2>2. k \in Nat /\ m \in Nat
    OBVIOUS
  <2>3. QED
    BY <2>1, <2>2
<1>5. QED
  BY <1>4

\* A set that holds 0 and is closed under successor holds every natural.
LEMMA SetInduction ==
  ASSUME NEW S, 0 \in S, \A n \in Nat : n \in S => n + 1 \in S
  PROVE  Nat \subseteq S
<1> DEFINE T == Nat \ S
<1>1. SUFFICES ASSUME T # {} PROVE FALSE
  OBVIOUS
<1>2. PICK m \in T : \A k \in T : m <= k
  BY <1>1, LeastElement
<1>3. m # 0
  OBVIOUS
<1>4. m - 1 \in Nat /\ m - 1 \notin T
  BY <1>2, <1>3
<1>5. QED
  BY <1>4

\* The elements of a sequence over a set.
LEMMA SeqElements ==
  ASSUME NEW S, NEW s \in Seq(S)
  PROVE  Len(s) \in Nat /\ DOMAIN s = 1 .. Len(s) /\ \A k \in 1 .. Len(s) : s[k] \in S
OBVIOUS
-----------------------------------------------------------------------------
(* Products *)

LEMMA MulMono ==
  ASSUME NEW a \in Int, NEW b \in Int, NEW n \in Nat, a <= b
  PROVE  n * a <= n * b
<1>1. PICK d \in Nat : b = a + d
  <2>1. b - a \in Nat /\ b = a + (b - a)
    OBVIOUS
  <2>2. QED
    BY <2>1
<1>2. n * b = n * a + n * d
  BY <1>1
<1>3. n * d \in Nat /\ n * a \in Int
  BY SMT
<1>4. QED
  BY <1>2, <1>3

LEMMA MulCancel ==
  ASSUME NEW a \in Int, NEW b \in Int, NEW n \in Nat \ {0}, n * a <= n * b
  PROVE  a <= b
<1>1. SUFFICES ASSUME b + 1 <= a PROVE FALSE
  OBVIOUS
<1>2. n * (b + 1) <= n * a
  BY <1>1, MulMono
<1>3. n * (b + 1) = n * b + n
  OBVIOUS
<1>4. n * a \in Int /\ n * b \in Int
  OBVIOUS
<1>5. QED
  BY <1>2, <1>3, <1>4

LEMMA SquareMono ==
  ASSUME NEW a \in Nat, NEW b \in Nat
  PROVE  /\ a * a \in Nat
         /\ a <= b => a * a <= b * b
         /\ a * a <= b * b => a <= b
<1>1. a * a \in Nat /\ b * b \in Nat /\ a * b \in Nat /\ b * a = a * b
  BY SMT
<1>2. ASSUME a <= b PROVE a * a <= b * b
  <2>1. a * a <= a * b
    BY <1>2, MulMono
  <2>2. b * a <= b * b
    BY <1>2, MulMono
  <2>3. QED
    BY <1>1, <2>1, <2>2
<1>3. ASSUME a * a <= b * b PROVE a <= b
  <2>1. SUFFICES ASSUME b + 1 <= a PROVE FALSE
    OBVIOUS
  <2>2. a * (b + 1) <= a * a
    BY <2>1, MulMono
  <2>3. b * b <= b * a
    BY <2>1, MulMono
  <2>4. a * (b + 1) = a * b + a
    OBVIOUS
  <2>5. QED
    BY <1>1, <1>3, <2>1, <2>2, <2>3, <2>4
<1>4. QED
  BY <1>1, <1>2, <1>3

-----------------------------------------------------------------------------
(* Sums over finite sets *)


\* What holds of {} and survives one more element holds of a finite set.
LEMMA FiniteInduction ==
  ASSUME NEW U, IsFiniteSet(U), NEW F, {} \in F,
         \A s \in SUBSET U, x \in U : s \in F /\ x \notin s => s \union {x} \in F
  PROVE  U \in F
<1> DEFINE Good == {n \in Nat : \A s \in SUBSET U : Cardinality(s) = n => s \in F}
<1>1. \A s \in SUBSET U : IsFiniteSet(s) /\ Cardinality(s) \in Nat
  BY FS_Subset, FS_CardinalityType
<1>2. 0 \in Good
  BY <1>1, FS_EmptySet
<1>3. ASSUME NEW n \in Nat, n \in Good PROVE n + 1 \in Good
  <2> SUFFICES ASSUME NEW s \in SUBSET U, Cardinality(s) = n + 1 PROVE s \in F
    OBVIOUS
  <2>1. s # {}
    BY FS_EmptySet
  <2>2. PICK x \in s : TRUE
    BY <2>1
  <2>3. s \ {x} \in SUBSET U /\ Cardinality(s \ {x}) = n
    <3>1. IsFiniteSet(s) /\ Cardinality(s) = n + 1 /\ x \in s
      BY <1>1, <2>1, <2>2
    <3>2. Cardinality(s \ {x}) = Cardinality(s) - 1
      BY <3>1, FS_RemoveElement
    <3>3. QED
      BY <3>1, <3>2
  <2>4. s \ {x} \in F
    BY <1>3, <2>3
  <2>5. (s \ {x}) \union {x} = s
    OBVIOUS
  <2>6. QED
    BY <2>3, <2>4, <2>5
<1>4. Cardinality(U) \in Good
  <2> HIDE DEF Good
  <2>1. QED
    BY <1>1, <1>2, <1>3, SetInduction
<1>5. QED
  BY <1>1, <1>4

\* What holds of a set when it holds of its smaller parts holds of a finite set.
LEMMA SubsetInduction ==
  ASSUME NEW S, IsFiniteSet(S), NEW F,
         \A T \in SUBSET S : (\A U \in SUBSET T : U # T => U \in F) => T \in F
  PROVE  S \in F
<1> DEFINE Good == {n \in Nat : \A T \in SUBSET S : Cardinality(T) <= n => T \in F}
<1>1. \A T \in SUBSET S : IsFiniteSet(T) /\ Cardinality(T) \in Nat
  BY FS_Subset, FS_CardinalityType
<1>2. ASSUME NEW n \in Nat, \A T \in SUBSET S : Cardinality(T) < n => T \in F,
             NEW T \in SUBSET S, Cardinality(T) <= n
      PROVE  T \in F
  <2>1. ASSUME NEW U \in SUBSET T, U # T PROVE U \in F
    <3>1. Cardinality(U) < Cardinality(T)
      BY <1>1, <2>1, FS_Subset
    <3>2. QED
      BY <1>1, <1>2, <3>1
  <2>2. QED
    BY <2>1
<1>3. 0 \in Good
  <2>1. \A T \in SUBSET S : ~(Cardinality(T) < 0)
    BY <1>1
  <2>2. QED
    BY <1>2, <2>1
<1>4. ASSUME NEW n \in Nat, n \in Good PROVE n + 1 \in Good
  <2>1. \A T \in SUBSET S : Cardinality(T) < n + 1 => T \in F
    BY <1>1, <1>4
  <2>2. QED
    BY <1>2, <2>1
<1>5. Cardinality(S) \in Nat /\ Cardinality(S) \in Good
  <2> HIDE DEF Good
  <2>1. QED
    BY <1>1, <1>3, <1>4, SetInduction
<1>6. QED
  BY <1>5

\* The element the fold takes from s.
Picked(s) == CHOOSE x \in s : TRUE

\* One unfolding of the fold, and its recursive function.
SumStep(g, s, f) == IF s = {} THEN 0 ELSE f[Picked(s)] + g[s \ {Picked(s)}]

Iter(S, f) == CHOOSE iter : iter = [s \in SUBSET S |-> SumStep(iter, s, f)]

LEMMA SumIs ==
  ASSUME NEW S, NEW f
  PROVE  SumOver(S, f) = Iter(S, f)[S]
BY DEF SumOver, MapThenSumSet, MapThenFoldSet, Iter, SumStep, Picked

LEMMA PickedIn == \A s : s # {} => Picked(s) \in s
BY DEF Picked

\* The fold's recursive function exists: it is built cardinality by cardinality.
LEMMA IterIs ==
  ASSUME NEW S, IsFiniteSet(S), NEW f
  PROVE  \A s \in SUBSET S : Iter(S, f)[s] = SumStep(Iter(S, f), s, f)
<1> DEFINE Upto(m) == {t \in SUBSET S : Cardinality(t) <= m}
           Defined == {m \in Nat : \E g : g = [s \in Upto(m) |-> SumStep(g, s, f)]}
<1>1. \A s \in SUBSET S : IsFiniteSet(s) /\ Cardinality(s) \in Nat /\ Cardinality(s) <= Cardinality(S)
  BY FS_Subset, FS_CardinalityType
<1>2. 0 \in Defined
  <2>1. \A s \in Upto(0) : s = {}
    BY <1>1, FS_EmptySet
  <2>2. PICK g : g = [s \in Upto(0) |-> 0]
    OBVIOUS
  <2>3. g = [s \in Upto(0) |-> SumStep(g, s, f)]
    BY <2>1, <2>2 DEF SumStep
  <2>4. QED
    BY <2>3
<1>3. ASSUME NEW m \in Nat, m \in Defined PROVE m + 1 \in Defined
  <2>1. PICK g : g = [s \in Upto(m) |-> SumStep(g, s, f)]
    BY <1>3
  <2>2. PICK h : h = [s \in Upto(m + 1) |-> IF s \in Upto(m) THEN g[s] ELSE SumStep(g, s, f)]
    OBVIOUS
  <2>3. Upto(m) \subseteq Upto(m + 1)
    BY <1>1
  <2>4. ASSUME NEW s \in Upto(m + 1), s # {} PROVE s \ {Picked(s)} \in Upto(m)
    <3>1. Picked(s) \in s
      BY <2>4, PickedIn
    <3>2. Cardinality(s \ {Picked(s)}) = Cardinality(s) - 1
      BY <1>1, <3>1, FS_RemoveElement
    <3>3. QED
      BY <1>1, <3>2
  <2>5. \A s \in Upto(m) : g[s] = SumStep(g, s, f)
    <3> HIDE DEF Upto
    <3>1. QED
      BY <2>1
  <2>6. ASSUME NEW s \in Upto(m + 1) PROVE h[s] = SumStep(h, s, f)
    <3>1. h[s] = SumStep(g, s, f)
      <4> HIDE DEF Upto
      <4>1. QED
        BY <2>2, <2>5
    <3>2. CASE s = {}
      BY <3>1, <3>2 DEF SumStep
    <3>3. CASE s # {}
      <4>1. h[s \ {Picked(s)}] = g[s \ {Picked(s)}]
        <5>1. s \ {Picked(s)} \in Upto(m)
          BY <2>4, <3>3
        <5> HIDE DEF Upto
        <5>2. QED
          BY <2>2, <2>3, <5>1
      <4>2. QED
        BY <3>1, <3>3, <4>1 DEF SumStep
    <3>4. QED
      BY <3>2, <3>3
  <2>7. h = [s \in Upto(m + 1) |-> h[s]]
    <3> HIDE DEF Upto
    <3>1. QED
      BY <2>2
  <2>8. h = [s \in Upto(m + 1) |-> SumStep(h, s, f)]
    <3> HIDE DEF Upto
    <3>1. QED
      BY <2>6, <2>7
  <2>9. QED
    <3> HIDE DEF Upto
    <3>1. QED
      BY <2>8
<1>4. Cardinality(S) \in Defined
  <2> HIDE DEF Defined
  <2>1. QED
    BY <1>1, <1>2, <1>3, SetInduction
<1>5. Upto(Cardinality(S)) = SUBSET S
  BY <1>1
<1>6. \E g : g = [s \in SUBSET S |-> SumStep(g, s, f)]
  <2> HIDE DEF Upto
  <2>1. QED
    BY <1>4, <1>5
<1>7. Iter(S, f) = [s \in SUBSET S |-> SumStep(Iter(S, f), s, f)]
  BY <1>6 DEF Iter
<1> DEFINE it == Iter(S, f)
<1> HIDE DEF it
<1>8. it = [s \in SUBSET S |-> SumStep(it, s, f)]
  BY <1>7 DEF it
<1>9. \A s \in SUBSET S : it[s] = SumStep(it, s, f)
  BY <1>8
<1>10. QED
  BY <1>9 DEF it

\* The value of a subset does not depend on the set it is a subset of.
LEMMA IterAgree ==
  ASSUME NEW S, IsFiniteSet(S), NEW f, NEW T \in SUBSET S
  PROVE  \A s \in SUBSET T : Iter(S, f)[s] = Iter(T, f)[s]
<1> DEFINE Good == {n \in Nat : \A s \in SUBSET T :
                       Cardinality(s) = n => Iter(S, f)[s] = Iter(T, f)[s]}
<1>1. IsFiniteSet(T)
  BY FS_Subset
<1>2. \A s \in SUBSET T : IsFiniteSet(s) /\ Cardinality(s) \in Nat
  BY <1>1, FS_Subset, FS_CardinalityType
<1>3. \A s \in SUBSET T : /\ Iter(S, f)[s] = SumStep(Iter(S, f), s, f)
                          /\ Iter(T, f)[s] = SumStep(Iter(T, f), s, f)
  BY <1>1, IterIs
<1>4. 0 \in Good
  <2>1. ASSUME NEW s \in SUBSET T, Cardinality(s) = 0 PROVE Iter(S, f)[s] = Iter(T, f)[s]
    <3>1. s = {}
      BY <1>2, <2>1, FS_EmptySet
    <3>2. QED
      BY <1>3, <3>1 DEF SumStep
  <2>2. QED
    BY <2>1
<1>5. ASSUME NEW n \in Nat, n \in Good PROVE n + 1 \in Good
  <2> SUFFICES ASSUME NEW s \in SUBSET T, Cardinality(s) = n + 1
               PROVE  Iter(S, f)[s] = Iter(T, f)[s]
    OBVIOUS
  <2>1. s # {}
    BY FS_EmptySet
  <2>2. Picked(s) \in s
    BY <2>1, PickedIn
  <2>3. Cardinality(s \ {Picked(s)}) = Cardinality(s) - 1
    BY <1>2, <2>2, FS_RemoveElement
  <2>4. Iter(S, f)[s \ {Picked(s)}] = Iter(T, f)[s \ {Picked(s)}]
    BY <1>5, <2>3
  <2>5. QED
    BY <1>3, <2>1, <2>4 DEF SumStep
<1>6. Cardinality(T) \in Nat /\ \A n \in Nat : n \in Good
  <2> HIDE DEF Good
  <2>1. QED
    BY <1>1, <1>4, <1>5, SetInduction, FS_CardinalityType
<1>7. QED
  BY <1>2, <1>6

\* The sum over a set is one of its elements and the sum over the rest.
LEMMA SumUnfold ==
  ASSUME NEW f
  PROVE  /\ SumOver({}, f) = 0
         /\ \A S : IsFiniteSet(S) /\ S # {} =>
              SumOver(S, f) = f[Picked(S)] + SumOver(S \ {Picked(S)}, f)
<1>1. SumOver({}, f) = 0
  <2>1. IsFiniteSet({})
    BY FS_EmptySet
  <2>2. Iter({}, f)[{}] = SumStep(Iter({}, f), {}, f)
    BY <2>1, IterIs
  <2>3. QED
    BY <2>2, SumIs DEF SumStep
<1>2. ASSUME NEW S, IsFiniteSet(S), S # {}
      PROVE  SumOver(S, f) = f[Picked(S)] + SumOver(S \ {Picked(S)}, f)
  <2>1. PICK R : R = S \ {Picked(S)}
    OBVIOUS
  <2>2. Iter(S, f)[S] = SumStep(Iter(S, f), S, f)
    BY <1>2, IterIs
  <2>3. Iter(S, f)[S] = f[Picked(S)] + Iter(S, f)[R]
    BY <1>2, <2>1, <2>2 DEF SumStep
  <2>4. Iter(S, f)[R] = Iter(R, f)[R]
    BY <1>2, <2>1, IterAgree
  <2>5. QED
    BY <2>1, <2>3, <2>4, SumIs
<1>3. QED
  BY <1>1, <1>2

\* The sum of integers is an integer.
LEMMA SumInt ==
  ASSUME NEW S, IsFiniteSet(S), NEW f, \A x \in S : f[x] \in Int
  PROVE  SumOver(S, f) \in Int
<1> DEFINE Good == {n \in Nat : \A s \in SUBSET S : Cardinality(s) = n => SumOver(s, f) \in Int}
<1>1. \A s \in SUBSET S : IsFiniteSet(s) /\ Cardinality(s) \in Nat
  BY FS_Subset, FS_CardinalityType
<1>2. 0 \in Good
  <2>1. ASSUME NEW s \in SUBSET S, Cardinality(s) = 0 PROVE SumOver(s, f) \in Int
    <3>1. s = {}
      BY <1>1, <2>1, FS_EmptySet
    <3>2. QED
      BY <3>1, SumUnfold
  <2>2. QED
    BY <2>1
<1>3. ASSUME NEW n \in Nat, n \in Good PROVE n + 1 \in Good
  <2> SUFFICES ASSUME NEW s \in SUBSET S, Cardinality(s) = n + 1 PROVE SumOver(s, f) \in Int
    OBVIOUS
  <2>1. s # {}
    BY FS_EmptySet
  <2>2. Picked(s) \in s
    BY <2>1, PickedIn
  <2>3. Cardinality(s \ {Picked(s)}) = n
    <3>1. Cardinality(s \ {Picked(s)}) = Cardinality(s) - 1
      BY <1>1, <2>2, FS_RemoveElement
    <3>2. QED
      BY <1>1, <3>1
  <2>4. SumOver(s \ {Picked(s)}, f) \in Int
    BY <1>3, <2>3
  <2>5. SumOver(s, f) = f[Picked(s)] + SumOver(s \ {Picked(s)}, f)
    BY <1>1, <2>1, SumUnfold
  <2>6. QED
    BY <2>2, <2>4, <2>5
<1>4. Cardinality(S) \in Good
  <2> HIDE DEF Good
  <2>1. QED
    BY <1>1, <1>2, <1>3, SetInduction
<1>5. QED
  BY <1>4

\* Whichever element is taken out first, the sum is the same.
LEMMA IntSumAdd ==
  ASSUME NEW U, IsFiniteSet(U), NEW f, \A x \in U : f[x] \in Int
  PROVE  \A S \in SUBSET U :
           /\ SumOver(S, f) \in Int
           /\ \A x \in S : SumOver(S, f) = f[x] + SumOver(S \ {x}, f)
<1> DEFINE Sum(S) == SumOver(S, f)
           Known(S) == Sum(S) \in Int /\ \A x \in S : Sum(S) = f[x] + Sum(S \ {x})
           Good == {n \in Nat : \A S \in SUBSET U : Cardinality(S) <= n => Known(S)}
<1>1. \A S \in SUBSET U : IsFiniteSet(S) /\ Cardinality(S) \in Nat
  BY FS_Subset, FS_CardinalityType
<1>2. 0 \in Good
  <2>1. ASSUME NEW S \in SUBSET U, Cardinality(S) <= 0 PROVE Known(S)
    <3>1. S = {}
      BY <1>1, <2>1, FS_EmptySet
    <3>2. QED
      BY <3>1, SumUnfold
  <2> HIDE DEF Known
  <2>2. QED
    BY <2>1
<1>3. ASSUME NEW n \in Nat, n \in Good PROVE n + 1 \in Good
  <2>1. \A S \in SUBSET U : Cardinality(S) <= n => Known(S)
    <3> HIDE DEF Known
    <3>1. QED
      BY <1>3
  <2>2. \A S \in SUBSET U, x \in U :
          x \in S => /\ S \ {x} \in SUBSET U
                     /\ Cardinality(S \ {x}) = Cardinality(S) - 1
    BY <1>1, FS_RemoveElement
  <2>3. ASSUME NEW S \in SUBSET U, Cardinality(S) <= n + 1, S # {} PROVE Known(S)
    <3> DEFINE p == Picked(S)
    <3>1. p \in S /\ p \in U /\ f[p] \in Int
      BY <2>3, PickedIn
    <3>2. Sum(S) = f[p] + Sum(S \ {p})
      BY <1>1, <2>3, SumUnfold
    <3> HIDE DEF p
    <3>3. \A x \in S : Cardinality(S \ {x}) <= n /\ S \ {x} \in SUBSET U
      BY <1>1, <2>2, <2>3
    <3>4. \A x \in S : Known(S \ {x})
      <4> HIDE DEF Known
      <4>1. QED
        BY <2>1, <3>3
    <3> HIDE DEF Sum
    <3>5. Sum(S) \in Int
      BY <3>1, <3>2, <3>4
    <3>6. ASSUME NEW x \in S, x # p PROVE Sum(S) = f[x] + Sum(S \ {x})
      <4>1. Sum(S \ {p}) = f[x] + Sum((S \ {p}) \ {x})
        BY <3>1, <3>4, <3>6
      <4>2. Sum(S \ {x}) = f[p] + Sum((S \ {x}) \ {p})
        BY <3>1, <3>4, <3>6
      <4>3. (S \ {p}) \ {x} = (S \ {x}) \ {p}
        OBVIOUS
      <4>4. Sum((S \ {x}) \ {p}) \in Int
        <5>1. (S \ {x}) \ {p} \in SUBSET U /\ Cardinality((S \ {x}) \ {p}) <= n
          <6>1. PICK T : T = S \ {x}
            OBVIOUS
          <6>2. T \in SUBSET U /\ p \in T /\ Cardinality(T) <= n /\ Cardinality(T) \in Nat
            BY <1>1, <3>1, <3>3, <3>6, <6>1
          <6>3. Cardinality(T \ {p}) = Cardinality(T) - 1
            BY <2>2, <3>1, <6>2
          <6>4. QED
            BY <6>1, <6>2, <6>3
        <5>2. Known((S \ {x}) \ {p})
          <6> HIDE DEF Known
          <6>1. QED
            BY <2>1, <5>1
        <5>3. QED
          BY <5>2
      <4>5. f[x] \in Int
        OBVIOUS
      <4>6. PICK rest : rest = Sum((S \ {x}) \ {p})
        OBVIOUS
      <4>7. rest \in Int /\ Sum(S \ {p}) = f[x] + rest /\ Sum(S \ {x}) = f[p] + rest
        BY <4>1, <4>2, <4>3, <4>4, <4>6
      <4>8. Sum(S) = f[p] + (f[x] + rest)
        BY <3>2, <4>7
      <4>9. f[p] + (f[x] + rest) = f[x] + (f[p] + rest)
        BY <3>1, <4>5, <4>7
      <4>10. QED
        BY <4>7, <4>8, <4>9
    <3>7. QED
      BY <3>2, <3>5, <3>6
  <2>4. ASSUME NEW S \in SUBSET U, S = {} PROVE Known(S)
    BY <2>4, SumUnfold
  <2>5. QED
    <3> HIDE DEF Known
    <3>1. QED
      BY <2>3, <2>4
<1>4. Cardinality(U) \in Nat /\ \A n \in Nat : n \in Good
  <2> HIDE DEF Good
  <2>1. QED
    BY <1>1, <1>2, <1>3, SetInduction
<1>5. \A S \in SUBSET U : Known(S)
  <2>1. \A S \in SUBSET U : Cardinality(S) <= Cardinality(U)
    BY FS_Subset
  <2> HIDE DEF Known
  <2>2. QED
    BY <1>4, <2>1
<1>6. QED
  BY <1>5

\* A sum of naturals is a natural.
LEMMA SumAdd ==
  ASSUME NEW U, IsFiniteSet(U), NEW f, \A x \in U : f[x] \in Nat
  PROVE  \A S \in SUBSET U :
           /\ SumOver(S, f) \in Nat
           /\ \A x \in S : SumOver(S, f) = f[x] + SumOver(S \ {x}, f)
<1> DEFINE F == {s \in SUBSET U : SumOver(s, f) \in Nat}
<1>1. \A x \in U : f[x] \in Int
  OBVIOUS
<1>2. \A S \in SUBSET U : \A x \in S : SumOver(S, f) = f[x] + SumOver(S \ {x}, f)
  BY <1>1, IntSumAdd
<1>3. {} \in F
  BY SumUnfold
<1>4. ASSUME NEW s \in SUBSET U, NEW x \in U, s \in F, x \notin s PROVE s \union {x} \in F
  <2>1. PICK t : t = s \union {x}
    OBVIOUS
  <2>2. t \in SUBSET U /\ x \in t /\ t \ {x} = s
    BY <1>4, <2>1
  <2>3. SumOver(t, f) = f[x] + SumOver(s, f)
    BY <1>2, <2>2
  <2>4. SumOver(s, f) \in Nat
    BY <1>4
  <2>5. SumOver(t, f) \in Nat
    BY <2>3, <2>4
  <2>6. QED
    BY <2>1, <2>2, <2>5
<1>5. ASSUME NEW S \in SUBSET U PROVE SumOver(S, f) \in Nat
  <2>1. IsFiniteSet(S)
    BY FS_Subset
  <2>2. S \in F
    <3> HIDE DEF F
    <3>1. QED
      BY <1>3, <1>4, <2>1, FiniteInduction
  <2>3. QED
    BY <2>2
<1>6. QED
  BY <1>2, <1>5

\* A new element adds its value.
LEMMA IntSumInsert ==
  ASSUME NEW U, IsFiniteSet(U), NEW f, \A x \in U : f[x] \in Int,
         NEW S \in SUBSET U, NEW x \in U, x \notin S
  PROVE  SumOver(S \union {x}, f) = f[x] + SumOver(S, f) /\ SumOver(S, f) \in Int
<1>1. PICK T : T = S \union {x}
  OBVIOUS
<1>2. T \in SUBSET U /\ x \in T /\ T \ {x} = S
  BY <1>1
<1>3. SumOver(T, f) = f[x] + SumOver(T \ {x}, f)
  BY <1>2, IntSumAdd
<1>4. SumOver(S, f) \in Int
  BY IntSumAdd
<1>5. QED
  BY <1>1, <1>2, <1>3, <1>4

\* ... and so is what was there before a new element.
LEMMA SumInsert ==
  ASSUME NEW U, IsFiniteSet(U), NEW f, \A x \in U : f[x] \in Nat,
         NEW S \in SUBSET U, NEW x \in U, x \notin S
  PROVE  SumOver(S \union {x}, f) = f[x] + SumOver(S, f) /\ SumOver(S, f) \in Nat
<1>1. PICK T : T = S \union {x}
  OBVIOUS
<1>2. T \in SUBSET U /\ x \in T /\ T \ {x} = S
  BY <1>1
<1>3. SumOver(T, f) = f[x] + SumOver(T \ {x}, f)
  BY <1>2, SumAdd
<1>4. SumOver(S, f) \in Nat
  BY SumAdd
<1>5. QED
  BY <1>1, <1>2, <1>3, <1>4

\* The sum over one element is its value.
LEMMA SumSingle ==
  ASSUME NEW f, NEW x, f[x] \in Int
  PROVE  SumOver({x}, f) = f[x]
<1>1. PICK U : U = {x}
  OBVIOUS
<1>2. IsFiniteSet(U) /\ U \in SUBSET U /\ x \in U /\ U \ {x} = {} /\ \A y \in U : f[y] \in Int
  BY <1>1, FS_Singleton
<1>3. SumOver(U, f) = f[x] + SumOver(U \ {x}, f)
  BY <1>2, IntSumAdd
<1>4. SumOver({}, f) = 0
  BY SumUnfold
<1>5. QED
  BY <1>1, <1>2, <1>3, <1>4

\* Only the values on the set count.
LEMMA SumSame ==
  ASSUME NEW S, IsFiniteSet(S), NEW f, NEW g, \A x \in S : f[x] = g[x]
  PROVE  SumOver(S, f) = SumOver(S, g)
<1> DEFINE Good == {n \in Nat : \A s \in SUBSET S :
                       Cardinality(s) = n => SumOver(s, f) = SumOver(s, g)}
<1>1. \A s \in SUBSET S : IsFiniteSet(s) /\ Cardinality(s) \in Nat
  BY FS_Subset, FS_CardinalityType
<1>2. 0 \in Good
  <2>1. ASSUME NEW s \in SUBSET S, Cardinality(s) = 0 PROVE SumOver(s, f) = SumOver(s, g)
    <3>1. s = {}
      BY <1>1, <2>1, FS_EmptySet
    <3>2. QED
      BY <3>1, SumUnfold
  <2>2. QED
    BY <2>1
<1>3. ASSUME NEW n \in Nat, n \in Good PROVE n + 1 \in Good
  <2> SUFFICES ASSUME NEW s \in SUBSET S, Cardinality(s) = n + 1
               PROVE  SumOver(s, f) = SumOver(s, g)
    OBVIOUS
  <2>1. s # {}
    BY FS_EmptySet
  <2>2. Picked(s) \in s
    BY <2>1, PickedIn
  <2>3. Cardinality(s \ {Picked(s)}) = n
    <3>1. Cardinality(s \ {Picked(s)}) = Cardinality(s) - 1
      BY <1>1, <2>2, FS_RemoveElement
    <3>2. QED
      BY <1>1, <3>1
  <2>4. SumOver(s \ {Picked(s)}, f) = SumOver(s \ {Picked(s)}, g)
    BY <1>3, <2>3
  <2>5. /\ SumOver(s, f) = f[Picked(s)] + SumOver(s \ {Picked(s)}, f)
        /\ SumOver(s, g) = g[Picked(s)] + SumOver(s \ {Picked(s)}, g)
    BY <1>1, <2>1, SumUnfold
  <2>6. QED
    BY <2>2, <2>4, <2>5
<1>4. Cardinality(S) \in Good
  <2> HIDE DEF Good
  <2>1. QED
    BY <1>1, <1>2, <1>3, SetInduction
<1>5. QED
  BY <1>4

\* The sum over two disjoint sets is the sum of the sums.
LEMMA SumUnion ==
  ASSUME NEW U, IsFiniteSet(U), NEW f, \A x \in U : f[x] \in Int,
         NEW S \in SUBSET U, NEW T \in SUBSET U, S \intersect T = {}
  PROVE  SumOver(S \union T, f) = SumOver(S, f) + SumOver(T, f)
<1> DEFINE F == {t \in SUBSET T : SumOver(S \union t, f) = SumOver(S, f) + SumOver(t, f)}
<1>1. \A s \in SUBSET U : SumOver(s, f) \in Int
  BY IntSumAdd
<1>2. {} \in F
  <2>1. S \union {} = S /\ SumOver({}, f) = 0 /\ SumOver(S, f) \in Int
    BY <1>1, SumUnfold
  <2>2. QED
    BY <2>1
<1>3. ASSUME NEW t \in SUBSET T, NEW x \in T, t \in F, x \notin t PROVE t \union {x} \in F
  <2>1. PICK st : st = S \union t
    OBVIOUS
  <2>2. st \in SUBSET U /\ x \notin st /\ x \in U /\ S \union (t \union {x}) = st \union {x}
    BY <1>3, <2>1
  <2>3. SumOver(st \union {x}, f) = f[x] + SumOver(st, f)
    BY <2>2, IntSumInsert
  <2>4. SumOver(t \union {x}, f) = f[x] + SumOver(t, f)
    BY <1>3, IntSumInsert
  <2>5. SumOver(st, f) = SumOver(S, f) + SumOver(t, f)
    BY <1>3, <2>1
  <2>6. PICK a, b, c : a = SumOver(S, f) /\ b = SumOver(t, f) /\ c = f[x]
    OBVIOUS
  <2>7. a \in Int /\ b \in Int /\ c \in Int
    BY <1>1, <2>2, <2>6
  <2>8. SumOver(S \union (t \union {x}), f) = c + (a + b)
    BY <2>2, <2>3, <2>5, <2>6
  <2>9. SumOver(S, f) + SumOver(t \union {x}, f) = a + (c + b)
    BY <2>4, <2>6
  <2>10. c + (a + b) = a + (c + b)
    BY <2>7
  <2>11. QED
    BY <2>8, <2>9, <2>10
<1>4. T \in F
  <2>1. IsFiniteSet(T)
    BY FS_Subset
  <2> HIDE DEF F
  <2>2. QED
    BY <1>2, <1>3, <2>1, FiniteInduction
<1>5. QED
  BY <1>4

\* Values add up pointwise.
LEMMA SumPlus ==
  ASSUME NEW S, IsFiniteSet(S), NEW f, NEW g, NEW h,
         \A x \in S : f[x] \in Nat /\ g[x] \in Nat /\ h[x] = f[x] + g[x]
  PROVE  SumOver(S, h) = SumOver(S, f) + SumOver(S, g)
<1> DEFINE F == {s \in SUBSET S : SumOver(s, h) = SumOver(s, f) + SumOver(s, g)}
<1>1. {} \in F
  <2>1. SumOver({}, f) = 0 /\ SumOver({}, g) = 0 /\ SumOver({}, h) = 0
    BY SumUnfold
  <2>2. QED
    BY <2>1
<1>2. ASSUME NEW s \in SUBSET S, NEW x \in S, s \in F, x \notin s PROVE s \union {x} \in F
  <2>1. SumOver(s \union {x}, f) = f[x] + SumOver(s, f) /\ SumOver(s, f) \in Nat
    BY <1>2, SumInsert
  <2>2. SumOver(s \union {x}, g) = g[x] + SumOver(s, g) /\ SumOver(s, g) \in Nat
    BY <1>2, SumInsert
  <2>3. \A y \in S : h[y] \in Nat
    OBVIOUS
  <2>4. SumOver(s \union {x}, h) = h[x] + SumOver(s, h)
    BY <1>2, <2>3, SumInsert
  <2>5. SumOver(s, h) = SumOver(s, f) + SumOver(s, g)
    BY <1>2
  <2>6. PICK a, b, c, d : a = SumOver(s, f) /\ b = SumOver(s, g) /\ c = f[x] /\ d = g[x]
    OBVIOUS
  <2>7. a \in Nat /\ b \in Nat /\ c \in Nat /\ d \in Nat
    BY <2>1, <2>2, <2>6
  <2>8. SumOver(s \union {x}, h) = (c + d) + (a + b)
    BY <2>4, <2>5, <2>6
  <2>9. SumOver(s \union {x}, f) + SumOver(s \union {x}, g) = (c + a) + (d + b)
    BY <2>1, <2>2, <2>6
  <2>10. (c + d) + (a + b) = (c + a) + (d + b)
    BY <2>7
  <2>11. QED
    BY <2>8, <2>9, <2>10
<1>3. S \in F
  <2> HIDE DEF F
  <2>1. QED
    BY <1>1, <1>2, FiniteInduction
<1>4. QED
  BY <1>3

\* A sum of zeros.
LEMMA SumZero ==
  ASSUME NEW S, IsFiniteSet(S), NEW f, \A x \in S : f[x] = 0
  PROVE  SumOver(S, f) = 0
<1> DEFINE F == {s \in SUBSET S : SumOver(s, f) = 0}
<1>1. {} \in F
  BY SumUnfold
<1>2. ASSUME NEW s \in SUBSET S, NEW x \in S, s \in F, x \notin s PROVE s \union {x} \in F
  <2>1. \A y \in S : f[y] \in Nat
    OBVIOUS
  <2>2. SumOver(s \union {x}, f) = f[x] + SumOver(s, f)
    BY <1>2, <2>1, SumInsert
  <2>3. QED
    BY <1>2, <2>2
<1>3. S \in F
  <2> HIDE DEF F
  <2>1. QED
    BY <1>1, <1>2, FiniteInduction
<1>4. QED
  BY <1>3

\* Summing by groups, G[j] being the group of j.
LEMMA SumFibres ==
  ASSUME NEW D, IsFiniteSet(D), NEW v, \A x \in D : v[x] \in Nat,
         NEW K, IsFiniteSet(K), NEW G, NEW all, all = {j \in D : G[j] \in K},
         NEW fibre, \A k \in K : fibre[k] = {j \in D : G[j] = k},
         NEW f, \A k \in K : f[k] = SumOver(fibre[k], v)
  PROVE  SumOver(all, v) = SumOver(K, f)
<1> DEFINE Over(s) == {j \in D : G[j] \in s}
           F == {s \in SUBSET K : SumOver(Over(s), v) = SumOver(s, f)}
<1>1. \A S \in SUBSET D : SumOver(S, v) \in Nat
  BY SumAdd
<1>2. \A k \in K : f[k] \in Nat
  BY <1>1
<1>3. {} \in F
  <2>1. Over({}) = {}
    OBVIOUS
  <2>2. QED
    BY <2>1, SumUnfold
<1>4. ASSUME NEW s \in SUBSET K, NEW x \in K, s \in F, x \notin s PROVE s \union {x} \in F
  <2>1. PICK a, b : a = Over(s) /\ b = {j \in D : G[j] = x}
    OBVIOUS
  <2>2. /\ a \in SUBSET D /\ b \in SUBSET D /\ a \intersect b = {}
        /\ Over(s \union {x}) = a \union b
    BY <1>4, <2>1
  <2>3. SumOver(a \union b, v) = SumOver(a, v) + SumOver(b, v)
    BY <2>2, SumUnion
  <2>4. SumOver(s \union {x}, f) = f[x] + SumOver(s, f)
    BY <1>2, <1>4, SumInsert
  <2>5. SumOver(a, v) = SumOver(s, f) /\ SumOver(b, v) = f[x] /\ SumOver(a, v) \in Nat /\ f[x] \in Nat
    BY <1>1, <1>2, <1>4, <2>1, <2>2
  <2>6. SumOver(a, v) + SumOver(b, v) = f[x] + SumOver(s, f)
    <3>1. PICK m, n : m = SumOver(a, v) /\ n = f[x]
      OBVIOUS
    <3>2. m \in Nat /\ n \in Nat /\ SumOver(b, v) = n /\ SumOver(s, f) = m
      BY <2>5, <3>1
    <3>3. m + n = n + m
      BY <3>2
    <3>4. QED
      BY <3>1, <3>2, <3>3
  <2>7. SumOver(Over(s \union {x}), v) = SumOver(s \union {x}, f)
    BY <2>2, <2>3, <2>4, <2>6
  <2>8. QED
    BY <2>7
<1>5. K \in F
  <2> HIDE DEF F
  <2>1. QED
    BY <1>3, <1>4, FiniteInduction
<1>6. QED
  BY <1>5

\* A sum of values none of which is greater is not greater.
LEMMA SumAtMost ==
  ASSUME NEW S, IsFiniteSet(S), NEW f, NEW g,
         \A x \in S : f[x] \in Int /\ g[x] \in Int /\ f[x] <= g[x]
  PROVE  SumOver(S, f) <= SumOver(S, g)
<1> DEFINE F == {s \in SUBSET S : SumOver(s, f) <= SumOver(s, g)}
<1>1. {} \in F
  <2>1. SumOver({}, f) = 0 /\ SumOver({}, g) = 0
    BY SumUnfold
  <2>2. QED
    BY <2>1
<1>2. ASSUME NEW s \in SUBSET S, NEW x \in S, s \in F, x \notin s PROVE s \union {x} \in F
  <2>1. SumOver(s \union {x}, f) = f[x] + SumOver(s, f) /\ SumOver(s, f) \in Int
    BY <1>2, IntSumInsert
  <2>2. SumOver(s \union {x}, g) = g[x] + SumOver(s, g) /\ SumOver(s, g) \in Int
    BY <1>2, IntSumInsert
  <2>3. SumOver(s, f) <= SumOver(s, g) /\ f[x] \in Int /\ g[x] \in Int /\ f[x] <= g[x]
    BY <1>2
  <2>4. f[x] + SumOver(s, f) <= g[x] + SumOver(s, g)
    BY <2>1, <2>2, <2>3
  <2>5. QED
    BY <2>1, <2>2, <2>4
<1>3. S \in F
  <2> HIDE DEF F
  <2>1. QED
    BY <1>1, <1>2, FiniteInduction
<1>4. QED
  BY <1>3

\* Summing part by part, V[k] being the part of k.
LEMMA SumParts ==
  ASSUME NEW D, IsFiniteSet(D), NEW v, \A x \in D : v[x] \in Int,
         NEW K, IsFiniteSet(K), NEW V, \A k \in K : V[k] \subseteq D,
         \A j, k \in K : j # k => V[j] \intersect V[k] = {},
         NEW f, \A k \in K : f[k] = SumOver(V[k], v)
  PROVE  SumOver(UNION {V[k] : k \in K}, v) = SumOver(K, f)
<1> DEFINE Over(s) == UNION {V[k] : k \in s}
           F == {s \in SUBSET K : SumOver(Over(s), v) = SumOver(s, f)}
<1>1. \A S \in SUBSET D : SumOver(S, v) \in Int
  BY IntSumAdd
<1>2. \A k \in K : f[k] \in Int
  BY <1>1
<1>3. {} \in F
  <2>1. Over({}) = {}
    OBVIOUS
  <2>2. QED
    BY <2>1, SumUnfold
<1>4. ASSUME NEW s \in SUBSET K, NEW x \in K, s \in F, x \notin s PROVE s \union {x} \in F
  <2>1. PICK a, b : a = Over(s) /\ b = V[x]
    OBVIOUS
  <2>2. /\ a \in SUBSET D /\ b \in SUBSET D /\ a \intersect b = {}
        /\ Over(s \union {x}) = a \union b
    <3>1. \A k \in s : k \in K /\ k # x
      BY <1>4
    <3>2. QED
      BY <2>1, <3>1
  <2>3. SumOver(a \union b, v) = SumOver(a, v) + SumOver(b, v)
    BY <2>2, SumUnion
  <2>4. SumOver(s \union {x}, f) = f[x] + SumOver(s, f)
    BY <1>2, <1>4, IntSumInsert
  <2>5. SumOver(a, v) = SumOver(s, f) /\ SumOver(b, v) = f[x] /\ SumOver(a, v) \in Int /\ f[x] \in Int
    BY <1>1, <1>2, <1>4, <2>1, <2>2
  <2>6. SumOver(a, v) + SumOver(b, v) = f[x] + SumOver(s, f)
    <3>1. PICK m, n : m = SumOver(a, v) /\ n = f[x]
      OBVIOUS
    <3>2. m \in Int /\ n \in Int /\ SumOver(b, v) = n /\ SumOver(s, f) = m
      BY <2>5, <3>1
    <3>3. m + n = n + m
      BY <3>2
    <3>4. QED
      BY <3>1, <3>2, <3>3
  <2>7. SumOver(Over(s \union {x}), v) = SumOver(s \union {x}, f)
    BY <2>2, <2>3, <2>4, <2>6
  <2>8. QED
    BY <2>7
<1>5. K \in F
  <2> HIDE DEF F
  <2>1. QED
    BY <1>3, <1>4, FiniteInduction
<1>6. QED
  BY <1>5

\* A sum of one number over and over.
LEMMA SumConst ==
  ASSUME NEW S, IsFiniteSet(S), NEW n \in Int, NEW f, \A x \in S : f[x] = n
  PROVE  SumOver(S, f) = n * Cardinality(S)
<1> DEFINE F == {s \in SUBSET S : SumOver(s, f) = n * Cardinality(s)}
<1>1. {} \in F
  <2>1. SumOver({}, f) = 0
    BY SumUnfold
  <2>2. Cardinality({}) = 0
    BY FS_EmptySet
  <2>3. QED
    BY <2>1, <2>2
<1>2. ASSUME NEW s \in SUBSET S, NEW x \in S, s \in F, x \notin s PROVE s \union {x} \in F
  <2>1. SumOver(s \union {x}, f) = f[x] + SumOver(s, f)
    BY <1>2, IntSumInsert
  <2>2. IsFiniteSet(s) /\ Cardinality(s) \in Nat
    BY FS_Subset, FS_CardinalityType
  <2>3. Cardinality(s \union {x}) = Cardinality(s) + 1
    BY <1>2, <2>2, FS_AddElement
  <2>4. PICK m : m = Cardinality(s)
    OBVIOUS
  <2>5. m \in Nat /\ SumOver(s, f) = n * m /\ n * (m + 1) = n + n * m
    BY <1>2, <2>2, <2>4
  <2>6. SumOver(s \union {x}, f) = n * Cardinality(s \union {x})
    BY <2>1, <2>3, <2>4, <2>5
  <2>7. QED
    BY <2>6
<1>3. S \in F
  <2> HIDE DEF F
  <2>1. QED
    BY <1>1, <1>2, FiniteInduction
<1>4. QED
  BY <1>3

\* Elements of value 0 can be left out.
LEMMA SumPart ==
  ASSUME NEW E, IsFiniteSet(E), NEW f, \A x \in E : f[x] \in Nat,
         NEW A \in SUBSET E, \A x \in E \ A : f[x] = 0
  PROVE  SumOver(E, f) = SumOver(A, f)
<1>1. PICK B : B = E \ A
  OBVIOUS
<1>2. B \in SUBSET E /\ A \intersect B = {} /\ A \union B = E /\ IsFiniteSet(B)
  BY <1>1, FS_Subset
<1>3. SumOver(A \union B, f) = SumOver(A, f) + SumOver(B, f)
  BY <1>2, SumUnion
<1>4. SumOver(B, f) = 0
  BY <1>1, <1>2, SumZero
<1>5. PICK n : n = SumOver(A, f)
  OBVIOUS
<1>6. n \in Nat
  BY <1>5, SumAdd
<1>7. SumOver(E, f) = n + 0
  BY <1>2, <1>3, <1>4, <1>5
<1>8. QED
  BY <1>5, <1>6, <1>7

\* A value in two parts, each given on its own set.
LEMMA SumBoth ==
  ASSUME NEW A, IsFiniteSet(A), NEW B, IsFiniteSet(B), NEW f, NEW g, NEW h,
         \A x \in A : f[x] \in Nat, \A x \in B : g[x] \in Nat,
         \A x \in A \union B : h[x] = (IF x \in A THEN f[x] ELSE 0) + (IF x \in B THEN g[x] ELSE 0)
  PROVE  SumOver(A \union B, h) = SumOver(A, f) + SumOver(B, g)
<1>1. PICK U : U = A \union B
  OBVIOUS
<1>2. IsFiniteSet(U) /\ A \in SUBSET U /\ B \in SUBSET U
  BY <1>1, FS_Union
<1>3. PICK p, q : /\ p = [x \in U |-> IF x \in A THEN f[x] ELSE 0]
                  /\ q = [x \in U |-> IF x \in B THEN g[x] ELSE 0]
  OBVIOUS
<1>4. \A x \in U : p[x] \in Nat /\ q[x] \in Nat /\ h[x] = p[x] + q[x]
  BY <1>1, <1>3
<1>5. SumOver(U, h) = SumOver(U, p) + SumOver(U, q)
  BY <1>2, <1>4, SumPlus
<1>6. SumOver(U, p) = SumOver(A, p) /\ SumOver(U, q) = SumOver(B, q)
  <2>1. \A x \in U \ A : p[x] = 0
    BY <1>3
  <2>2. \A x \in U \ B : q[x] = 0
    BY <1>3
  <2>3. SumOver(U, p) = SumOver(A, p)
    BY <1>2, <1>4, <2>1, SumPart
  <2>4. SumOver(U, q) = SumOver(B, q)
    BY <1>2, <1>4, <2>2, SumPart
  <2>5. QED
    BY <2>3, <2>4
<1>7. SumOver(A, f) = SumOver(A, p)
  <2>1. \A x \in A : f[x] \in Nat /\ f[x] = p[x]
    BY <1>2, <1>3
  <2>2. QED
    BY <2>1, SumSame
<1>8. SumOver(B, g) = SumOver(B, q)
  <2>1. \A x \in B : g[x] \in Nat /\ g[x] = q[x]
    BY <1>2, <1>3
  <2>2. QED
    BY <2>1, SumSame
<1>9. QED
  BY <1>1, <1>5, <1>6, <1>7, <1>8

\* The image of a finite set is finite.
LEMMA ImageFinite ==
  ASSUME NEW D, IsFiniteSet(D), NEW G
  PROVE  IsFiniteSet({G[x] : x \in D})
<1> DEFINE F == {s \in SUBSET D : IsFiniteSet({G[x] : x \in s})}
<1>1. {} \in F
  <2>1. {G[x] : x \in {}} = {}
    OBVIOUS
  <2>2. QED
    BY <2>1, FS_EmptySet
<1>2. ASSUME NEW s \in SUBSET D, NEW y \in D, s \in F, y \notin s PROVE s \union {y} \in F
  <2>1. PICK a : a = {G[x] : x \in s}
    OBVIOUS
  <2>2. IsFiniteSet(a) /\ {G[x] : x \in s \union {y}} = a \union {G[y]}
    BY <1>2, <2>1
  <2>3. IsFiniteSet(a \union {G[y]})
    BY <2>2, FS_AddElement
  <2>4. QED
    BY <2>2, <2>3
<1>3. D \in F
  <2> HIDE DEF F
  <2>1. QED
    BY <1>1, <1>2, FiniteInduction
<1>4. QED
  BY <1>3


\* As many numbers as an ascending sequence has from lo + 1 to hi: a set that holds
\* them has at least so many, a set they cover at most.
LEMMA AscendingCount ==
  ASSUME NEW f, NEW lo \in Nat, NEW hi \in Nat, lo <= hi, NEW S, IsFiniteSet(S),
         \A m \in lo + 1 .. hi : f[m] \in Nat,
         \A m, n \in lo + 1 .. hi : m < n => f[m] < f[n]
  PROVE  /\ (\A m \in lo + 1 .. hi : f[m] \in S) => hi - lo <= Cardinality(S)
         /\ (\A x \in S : \E m \in lo + 1 .. hi : f[m] = x) => Cardinality(S) <= hi - lo
<1> DEFINE D == lo + 1 .. hi
<1>1. IsFiniteSet(D) /\ Cardinality(D) = hi - lo
  <2>1. lo + 1 \in Int /\ hi \in Int
    OBVIOUS
  <2>2. IsFiniteSet(D) /\ Cardinality(D) = IF lo + 1 > hi THEN 0 ELSE hi - (lo + 1) + 1
    BY <2>1, FS_Interval
  <2>3. QED
    BY <2>2
<1>2. ASSUME \A m \in D : f[m] \in S PROVE hi - lo <= Cardinality(S)
  <2>1. [m \in D |-> f[m]] \in Injection(D, S)
    <3>1. ASSUME NEW m \in D, NEW n \in D, f[m] = f[n] PROVE m = n
      <4>1. ~(m < n) /\ ~(n < m)
        BY <3>1
      <4>2. QED
        BY <4>1
    <3>2. QED
      BY <1>2, <3>1 DEF Injection, IsInjective
  <2>2. QED
    BY <1>1, <2>1, FS_Injection
<1>3. ASSUME \A x \in S : \E m \in D : f[m] = x PROVE Cardinality(S) <= hi - lo
  <2> DEFINE E == {m \in D : f[m] \in S}
  <2>1. IsFiniteSet(E) /\ Cardinality(E) <= Cardinality(D)
    BY <1>1, FS_Subset
  <2>2. [m \in E |-> f[m]] \in Surjection(E, S)
    BY <1>3 DEF Surjection
  <2>3. Cardinality(S) <= Cardinality(E)
    BY <2>1, <2>2, FS_Surjection
  <2>4. Cardinality(S) \in Nat /\ Cardinality(E) \in Nat
    BY <2>1, FS_CardinalityType
  <2>5. QED
    BY <1>1, <2>1, <2>3, <2>4
<1>4. QED
  BY <1>2, <1>3

=============================================================================
