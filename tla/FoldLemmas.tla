----------------------------- MODULE FoldLemmas -----------------------------
(***************************************************************************)
(* Induction over the naturals and over finite sets, existence of the      *)
(* functions that MapThenFoldSet is defined by, and what follows for sums  *)
(* over a finite set.  The induction theorems of the library have an       *)
(* operator as parameter; these have a set in its place.                   *)
(***************************************************************************)
EXTENDS SequencesExt, FiniteSetTheorems, WellFoundedInduction, TLAPS

\* A set that contains 0 and is closed under successor contains Nat.
LEMMA NatSetInduction ==
    ASSUME NEW T, 0 \in T, \A n \in Nat : n \in T => n + 1 \in T
    PROVE  \A n \in Nat : n \in T
<1> SUFFICES ASSUME Nat \ T # {} PROVE FALSE
  OBVIOUS
<1> DEFINE R == OpToRel(<, Nat)
<1>1. IsWellFoundedOn(R, Nat)
  BY NatLessThanWellFounded
<1>2. \A k, m \in Nat : k < m => <<k, m>> \in R
  BY DEF OpToRel
<1> HIDE DEF R
<1>3. PICK m \in Nat \ T : \A k \in Nat \ T : ~(<<k, m>> \in R)
  BY <1>1, WFMin, Zenon
<1>4. m # 0 /\ m - 1 \in Nat /\ m - 1 < m
  OBVIOUS
<1>5. m - 1 \in Nat \ T
  BY <1>4, m - 1 + 1 = m
<1>6. QED
  BY <1>2, <1>3, <1>4, <1>5

\* pick chooses an element of every non-empty subset of D.
Picks(pick, D) == \A s \in SUBSET D : s # {} => pick[s] \in s

\* A subset without its picked element is a smaller subset.
LEMMA Smaller ==
    ASSUME NEW D, IsFiniteSet(D), NEW pick, Picks(pick, D),
           NEW s \in SUBSET D, s # {}
    PROVE  /\ pick[s] \in s /\ s \ {pick[s]} \in SUBSET D
           /\ Cardinality(s) \in Nat \ {0}
           /\ Cardinality(s \ {pick[s]}) = Cardinality(s) - 1
  BY FS_Subset, FS_RemoveElement, FS_CardinalityType, FS_EmptySet DEF Picks

\* A set of subsets of D that contains {} and, with what is left of s when its
\* picked element is taken out, also s, contains every subset of D.
LEMMA SetInduction ==
    ASSUME NEW D, IsFiniteSet(D), NEW pick, Picks(pick, D), NEW T, {} \in T,
           \A s \in SUBSET D : s # {} /\ s \ {pick[s]} \in T => s \in T
    PROVE  \A s \in SUBSET D : s \in T
<1> DEFINE Upto(n) == \A s \in SUBSET D : Cardinality(s) <= n => s \in T
           N == {n \in Nat : Upto(n)}
<1>1. 0 \in N
  <2>1. \A s \in SUBSET D : Cardinality(s) <= 0 => s = {}
    BY FS_Subset, FS_CardinalityType, FS_EmptySet
  <2>2. QED
    BY <2>1
<1>2. ASSUME NEW n \in Nat, n \in N PROVE n + 1 \in N
  <2>1. ASSUME NEW s \in SUBSET D, Cardinality(s) <= n + 1, s # {} PROVE s \in T
    <3>1. /\ s \ {pick[s]} \in SUBSET D /\ Cardinality(s) \in Nat
          /\ Cardinality(s \ {pick[s]}) = Cardinality(s) - 1
      BY <2>1, Smaller
    <3>2. s \ {pick[s]} \in T
      BY <1>2, <2>1, <3>1
    <3>3. QED
      BY <2>1, <3>2
  <2>2. QED
    BY <2>1
<1> HIDE DEF N
<1>3. \A n \in Nat : n \in N
  BY <1>1, <1>2, NatSetInduction
<1>4. ASSUME NEW s \in SUBSET D PROVE s \in T
  <2>1. Cardinality(s) \in Nat
    BY FS_Subset, FS_CardinalityType
  <2>2. QED
    BY <1>3, <2>1 DEF N
<1>5. QED
  BY <1>4

\* The premise of SetInduction by name.
Inductive(T, D, pick) ==
    {} \in T /\ \A s \in SUBSET D : s # {} /\ s \ {pick[s]} \in T => s \in T

\* SetInduction for an inductive set.
LEMMA InductiveSet ==
    ASSUME NEW D, IsFiniteSet(D), NEW pick, Picks(pick, D), NEW T, Inductive(T, D, pick)
    PROVE  \A s \in SUBSET D : s \in T
  BY SetInduction DEF Inductive

\* The equation of a fold over the subsets of D: what is picked is applied last.
Unfolds(it, D, pick, base, step) ==
    \A s \in SUBSET D :
        it[s] = IF s = {} THEN base ELSE step[<<it[s \ {pick[s]}], pick[s]>>]

\* A fold with a step that is closed on S exists, and stays in S.
LEMMA FoldExists ==
    ASSUME NEW D, IsFiniteSet(D), NEW pick, Picks(pick, D),
           NEW S, NEW base \in S, NEW step \in [S \X D -> S]
    PROVE  \E it \in [SUBSET D -> S] : Unfolds(it, D, pick, base, step)
<1> DEFINE Eq(g, s) == g[s] = IF s = {} THEN base ELSE step[<<g[s \ {pick[s]}], pick[s]>>]
           Upto(g, n) == \A s \in SUBSET D : Cardinality(s) <= n => Eq(g, s)
           N == {n \in Nat : \E g \in [SUBSET D -> S] : Upto(g, n)}
<1>1. 0 \in N
  <2> DEFINE g == [s \in SUBSET D |-> base]
  <2>1. g \in [SUBSET D -> S]
    OBVIOUS
  <2>2. \A s \in SUBSET D : Cardinality(s) <= 0 => s = {}
    BY FS_Subset, FS_CardinalityType, FS_EmptySet
  <2>3. Upto(g, 0)
    BY <2>2
  <2>4. QED
    BY <2>1, <2>3
<1>2. ASSUME NEW n \in Nat, n \in N PROVE n + 1 \in N
  <2>1. PICK g \in [SUBSET D -> S] : Upto(g, n)
    BY <1>2
  <2> DEFINE h == [s \in SUBSET D |-> IF s = {} THEN base
                                      ELSE step[<<g[s \ {pick[s]}], pick[s]>>]]
  <2>2. ASSUME NEW s \in SUBSET D PROVE h[s] \in S
    <3>1. CASE s = {}
      BY <3>1
    <3>2. CASE s # {}
      <4>1. pick[s] \in D /\ s \ {pick[s]} \in SUBSET D
        BY <3>2, Smaller
      <4>2. QED
        BY <3>2, <4>1
    <3>3. QED
      BY <3>1, <3>2
  <2>3. h \in [SUBSET D -> S]
    BY <2>2
  <2>4. \A s \in SUBSET D : Cardinality(s) <= n => h[s] = g[s]
    BY <2>1
  <2>5. ASSUME NEW s \in SUBSET D, Cardinality(s) <= n + 1, s # {} PROVE Eq(h, s)
    <3>1. /\ s \ {pick[s]} \in SUBSET D /\ Cardinality(s) \in Nat
          /\ Cardinality(s \ {pick[s]}) = Cardinality(s) - 1
      BY <2>5, Smaller
    <3> DEFINE r == s \ {pick[s]}
    <3>2. h[r] = g[r]
      <4>1. Cardinality(r) <= n
        BY <2>5, <3>1
      <4> HIDE DEF r, h
      <4>2. QED
        BY <2>4, <3>1, <4>1 DEF r
    <3>3. h[s] = step[<<g[s \ {pick[s]}], pick[s]>>]
      BY <2>5
    <3>4. QED
      BY <2>5, <3>2, <3>3
  <2>6. Upto(h, n + 1)
    BY <2>5
  <2> HIDE DEF h
  <2>7. \E k \in [SUBSET D -> S] : Upto(k, n + 1)
    BY <2>3, <2>6
  <2> HIDE DEF Upto
  <2>8. QED
    BY <2>7, n + 1 \in Nat
<1> HIDE DEF N
<1>3. Cardinality(D) \in N
  BY <1>1, <1>2, NatSetInduction, FS_CardinalityType
<1>4. PICK g \in [SUBSET D -> S] : Upto(g, Cardinality(D))
  BY <1>3 DEF N
<1>5. \A s \in SUBSET D : Cardinality(s) <= Cardinality(D)
  BY FS_Subset
<1>6. Unfolds(g, D, pick, base, step)
  BY <1>4, <1>5 DEF Unfolds
<1>7. QED
  BY <1>6
-----------------------------------------------------------------------------
(* Sums. *)

SumPick(D) == [s \in SUBSET D |-> CHOOSE x \in s : TRUE]
SumStep(f, D) == [p \in Int \X D |-> f[p[2]] + p[1]]

\* The choice a sum makes is an element.
LEMMA SumPicks == ASSUME NEW D PROVE Picks(SumPick(D), D)
  BY DEF Picks, SumPick

\* it[s] is the sum of f over s, for every subset s of D.
IsSum(it, f, D) ==
    /\ it \in [SUBSET D -> Int]
    /\ it[{}] = 0
    /\ \A s \in SUBSET D : s # {} =>
          it[s] = f[SumPick(D)[s]] + it[s \ {SumPick(D)[s]}]

\* A sum obeys the equation of a fold.
LEMMA SumUnfolds ==
    ASSUME NEW D, IsFiniteSet(D), NEW f \in [D -> Int]
    PROVE  \E it : IsSum(it, f, D) /\ SumFunctionOnSet(f, D) = it[D]
<1> DEFINE Body(it) == [s \in SUBSET D |->
                          IF s = {} THEN 0
                          ELSE f[CHOOSE x \in s : TRUE] + it[s \ {CHOOSE x \in s : TRUE}]]
           sum == CHOOSE it : it = Body(it)
<1>1. SumFunctionOnSet(f, D) = sum[D]
  BY Zenon DEF SumFunctionOnSet, FoldFunctionOnSet, MapThenFoldSet
<1>2. PICK it \in [SUBSET D -> Int] : Unfolds(it, D, SumPick(D), 0, SumStep(f, D))
  <2>1. SumStep(f, D) \in [Int \X D -> Int]
    BY DEF SumStep
  <2>2. Picks(SumPick(D), D) /\ 0 \in Int
    BY SumPicks
  <2> HIDE DEF sum, Body
  <2>3. QED
    BY <2>1, <2>2, FoldExists
<1>3. it = Body(it)
  <2>1. ASSUME NEW s \in SUBSET D, s # {} PROVE it[s] = Body(it)[s]
    <3>1. SumPick(D)[s] = (CHOOSE x \in s : TRUE) /\ SumPick(D)[s] \in D
      BY <2>1 DEF SumPick
    <3>2. it[s \ {SumPick(D)[s]}] \in Int
      OBVIOUS
    <3>3. it[s] = SumStep(f, D)[<<it[s \ {SumPick(D)[s]}], SumPick(D)[s]>>]
      BY <1>2, <2>1 DEF Unfolds
    <3>4. it[s] = f[SumPick(D)[s]] + it[s \ {SumPick(D)[s]}]
      BY <3>1, <3>2, <3>3 DEF SumStep
    <3>5. QED
      BY <2>1, <3>1, <3>4
  <2>2. it[{}] = Body(it)[{}]
    BY <1>2 DEF Unfolds
  <2>3. QED
    BY <2>1, <2>2
<1>4. sum = Body(sum)
  <2> HIDE DEF Body
  <2>1. \E g : g = Body(g)
    BY <1>3
  <2>2. QED
    BY <2>1
<1>5. IsSum(sum, f, D)
  <2> HIDE DEF sum
  <2>1. sum[{}] = 0
    BY <1>4
  <2>2. ASSUME NEW s \in SUBSET D, s # {}
        PROVE  sum[s] = f[SumPick(D)[s]] + sum[s \ {SumPick(D)[s]}]
    BY <1>4, <2>2 DEF SumPick
  <2> DEFINE T == {s \in SUBSET D : sum[s] \in Int}
  <2>3. ASSUME NEW s \in SUBSET D, s # {}, s \ {SumPick(D)[s]} \in T PROVE s \in T
    <3>1. SumPick(D)[s] \in D /\ sum[s] = f[SumPick(D)[s]] + sum[s \ {SumPick(D)[s]}]
      BY <2>2, <2>3, SumPicks DEF Picks
    <3>2. f[SumPick(D)[s]] \in Int /\ sum[s \ {SumPick(D)[s]}] \in Int
      BY <2>3, <3>1
    <3>3. QED
      BY <3>1, <3>2
  <2>4. \A s \in SUBSET D : s \in T
    <3>1. {} \in T
      BY <2>1
    <3> HIDE DEF T
    <3>2. QED
      BY <2>3, <3>1, SumPicks, SetInduction
  <2>5. sum \in [SUBSET D -> Int]
    <3>1. sum = [s \in SUBSET D |-> sum[s]]
      BY <1>4
    <3>2. QED
      BY <2>4, <3>1
  <2>6. QED
    BY <2>1, <2>2, <2>5 DEF IsSum
<1>6. QED
  BY <1>1, <1>5

\* The sum of integers is an integer.
LEMMA SumInt ==
    ASSUME NEW D, IsFiniteSet(D), NEW f \in [D -> Int]
    PROVE  SumFunctionOnSet(f, D) \in Int
<1>1. PICK it : IsSum(it, f, D) /\ SumFunctionOnSet(f, D) = it[D]
  BY SumUnfolds
<1>2. QED
  BY <1>1 DEF IsSum

\* A sum changes by what one of its terms changes.
LEMMA SumUpdate ==
    ASSUME NEW D, IsFiniteSet(D), NEW f \in [D -> Int], NEW g \in [D -> Int],
           NEW a \in D, \A x \in D : x # a => g[x] = f[x]
    PROVE  SumFunctionOnSet(g, D) = SumFunctionOnSet(f, D) + (g[a] - f[a])
<1>1. PICK itf : IsSum(itf, f, D) /\ SumFunctionOnSet(f, D) = itf[D]
  BY SumUnfolds
<1>2. PICK itg : IsSum(itg, g, D) /\ SumFunctionOnSet(g, D) = itg[D]
  BY SumUnfolds
<1> DEFINE T == {s \in SUBSET D : itg[s] = itf[s] + (IF a \in s THEN g[a] - f[a] ELSE 0)}
<1>3. {} \in T
  BY <1>1, <1>2 DEF IsSum
<1>4. ASSUME NEW s \in SUBSET D, s # {}, s \ {SumPick(D)[s]} \in T PROVE s \in T
  <2> DEFINE x == SumPick(D)[s]
             r == s \ {x}
  <2>1. x \in s /\ x \in D /\ r \in SUBSET D
    BY <1>4, SumPicks DEF Picks
  <2>2. /\ itf[s] = f[x] + itf[r] /\ itg[s] = g[x] + itg[r]
        /\ itf[r] \in Int /\ itg[r] \in Int
    BY <1>1, <1>2, <1>4, <2>1 DEF IsSum
  <2>3. itg[r] = itf[r] + (IF a \in r THEN g[a] - f[a] ELSE 0)
    BY <1>4
  <2>4. f[x] \in Int /\ g[x] \in Int /\ f[a] \in Int /\ g[a] \in Int
    BY <2>1
  <2> HIDE DEF x
  <2>5. CASE x = a
    BY <2>1, <2>2, <2>3, <2>4, <2>5
  <2>6. CASE x # a
    BY <2>1, <2>2, <2>3, <2>4, <2>6
  <2>7. QED
    BY <2>5, <2>6
<1> HIDE DEF T
<1>5. D \in T
  BY <1>3, <1>4, SumPicks, SetInduction
<1>6. QED
  BY <1>1, <1>2, <1>5 DEF T

\* A sum is as large as its terms are.
LEMMA SumMonotone ==
    ASSUME NEW D, IsFiniteSet(D), NEW f \in [D -> Int], NEW g \in [D -> Int],
           \A x \in D : f[x] <= g[x]
    PROVE  SumFunctionOnSet(f, D) <= SumFunctionOnSet(g, D)
<1>1. PICK itf : IsSum(itf, f, D) /\ SumFunctionOnSet(f, D) = itf[D]
  BY SumUnfolds
<1>2. PICK itg : IsSum(itg, g, D) /\ SumFunctionOnSet(g, D) = itg[D]
  BY SumUnfolds
<1> DEFINE T == {s \in SUBSET D : itf[s] <= itg[s]}
<1>3. {} \in T
  BY <1>1, <1>2 DEF IsSum
<1>4. ASSUME NEW s \in SUBSET D, s # {}, s \ {SumPick(D)[s]} \in T PROVE s \in T
  <2> DEFINE x == SumPick(D)[s]
             r == s \ {x}
  <2>1. x \in D /\ r \in SUBSET D
    BY <1>4, SumPicks DEF Picks
  <2>2. /\ itf[s] = f[x] + itf[r] /\ itg[s] = g[x] + itg[r]
        /\ itf[r] \in Int /\ itg[r] \in Int
    BY <1>1, <1>2, <1>4, <2>1 DEF IsSum
  <2>3. itf[r] <= itg[r] /\ f[x] <= g[x] /\ f[x] \in Int /\ g[x] \in Int
    BY <1>4, <2>1
  <2>4. QED
    BY <2>2, <2>3
<1> HIDE DEF T
<1>5. D \in T
  BY <1>3, <1>4, SumPicks, SetInduction
<1>6. QED
  BY <1>1, <1>2, <1>5 DEF T

\* The same for the change of one term by name.
Alters(f, g, a, D) == \A x \in D : x # a => g[x] = f[x]

LEMMA SumAlters ==
    ASSUME NEW D, IsFiniteSet(D), NEW f \in [D -> Int], NEW g \in [D -> Int],
           NEW a \in D, Alters(f, g, a, D)
    PROVE  SumFunctionOnSet(g, D) = SumFunctionOnSet(f, D) + (g[a] - f[a])
  BY SumUpdate DEF Alters

Added(h, f, g, D) == \A x \in D : h[x] = f[x] + g[x]

\* The sum of sums.
LEMMA SumPlus ==
    ASSUME NEW D, IsFiniteSet(D), NEW f \in [D -> Int], NEW g \in [D -> Int],
           NEW h \in [D -> Int], Added(h, f, g, D)
    PROVE  SumFunctionOnSet(h, D) = SumFunctionOnSet(f, D) + SumFunctionOnSet(g, D)
<1>1. PICK itf : IsSum(itf, f, D) /\ SumFunctionOnSet(f, D) = itf[D]
  BY SumUnfolds
<1>2. PICK itg : IsSum(itg, g, D) /\ SumFunctionOnSet(g, D) = itg[D]
  BY SumUnfolds
<1>3. PICK ith : IsSum(ith, h, D) /\ SumFunctionOnSet(h, D) = ith[D]
  BY SumUnfolds
<1> DEFINE T == {s \in SUBSET D : ith[s] = itf[s] + itg[s]}
<1>4. {} \in T
  BY <1>1, <1>2, <1>3 DEF IsSum
<1>5. ASSUME NEW s \in SUBSET D, s # {}, s \ {SumPick(D)[s]} \in T PROVE s \in T
  <2> DEFINE x == SumPick(D)[s]
             r == s \ {x}
  <2>1. x \in D /\ r \in SUBSET D
    BY <1>5, SumPicks DEF Picks
  <2>2. /\ itf[s] = f[x] + itf[r] /\ itg[s] = g[x] + itg[r] /\ ith[s] = h[x] + ith[r]
        /\ itf[r] \in Int /\ itg[r] \in Int
    BY <1>1, <1>2, <1>3, <1>5, <2>1 DEF IsSum
  <2>3. ith[r] = itf[r] + itg[r] /\ h[x] = f[x] + g[x] /\ f[x] \in Int /\ g[x] \in Int
    BY <1>5, <2>1 DEF Added
  <2>4. QED
    BY <2>2, <2>3
<1> HIDE DEF T
<1>6. D \in T
  BY <1>4, <1>5, SumPicks, SetInduction
<1>7. QED
  BY <1>1, <1>2, <1>3, <1>6 DEF T

Scaled(g, f, c, D) == \A x \in D : g[x] = c * f[x]

\* A common factor can be taken out of a sum.
LEMMA SumScale ==
    ASSUME NEW D, IsFiniteSet(D), NEW f \in [D -> Int], NEW g \in [D -> Int], NEW c \in Int,
           Scaled(g, f, c, D)
    PROVE  SumFunctionOnSet(g, D) = c * SumFunctionOnSet(f, D)
<1>1. PICK itf : IsSum(itf, f, D) /\ SumFunctionOnSet(f, D) = itf[D]
  BY SumUnfolds
<1>2. PICK itg : IsSum(itg, g, D) /\ SumFunctionOnSet(g, D) = itg[D]
  BY SumUnfolds
<1> DEFINE T == {s \in SUBSET D : itg[s] = c * itf[s]}
<1>3. {} \in T
  BY <1>1, <1>2 DEF IsSum
<1>4. ASSUME NEW s \in SUBSET D, s # {}, s \ {SumPick(D)[s]} \in T PROVE s \in T
  <2> DEFINE x == SumPick(D)[s]
             r == s \ {x}
  <2>1. x \in D /\ r \in SUBSET D
    BY <1>4, SumPicks DEF Picks
  <2>2. /\ itf[s] = f[x] + itf[r] /\ itg[s] = g[x] + itg[r]
        /\ itf[r] \in Int /\ itg[r] \in Int
    BY <1>1, <1>2, <1>4, <2>1 DEF IsSum
  <2>3. itg[r] = c * itf[r] /\ g[x] = c * f[x] /\ f[x] \in Int /\ g[x] \in Int
    BY <1>4, <2>1 DEF Scaled
  <2> DEFINE u == f[x]
             v == itf[r]
  <2>4. \A m, n \in Int : c * m + c * n = c * (m + n)
    OBVIOUS
  <2>5. c * u + c * v = c * (u + v)
    BY <2>2, <2>3, <2>4
  <2>6. QED
    BY <2>2, <2>3, <2>5
<1> HIDE DEF T
<1>5. \A s \in SUBSET D : s \in T
  BY <1>3, <1>4, SumPicks, SetInduction
<1>6. QED
  BY <1>1, <1>2, <1>5 DEF T

\* A sum of zeros is zero.
LEMMA SumZero ==
    ASSUME NEW D, IsFiniteSet(D), NEW f \in [D -> Int], \A x \in D : f[x] = 0
    PROVE  SumFunctionOnSet(f, D) = 0
<1>1. SumFunctionOnSet(f, D) = 0 * SumFunctionOnSet(f, D)
  BY SumScale DEF Scaled
<1>2. QED
  BY <1>1, SumInt

\* A sum of terms that are not negative is not negative.
LEMMA SumNat ==
    ASSUME NEW D, IsFiniteSet(D), NEW f \in [D -> Int], \A x \in D : f[x] >= 0
    PROVE  SumFunctionOnSet(f, D) >= 0
<1>1. PICK z : z = [x \in D |-> 0]
  OBVIOUS
<1>2. z \in [D -> Int] /\ \A x \in D : z[x] = 0
  BY <1>1
<1>3. SumFunctionOnSet(z, D) = 0
  BY <1>2, SumZero
<1>4. \A x \in D : z[x] <= f[x]
  BY <1>2
<1>5. SumFunctionOnSet(z, D) <= SumFunctionOnSet(f, D)
  BY <1>2, <1>4, SumMonotone
<1>6. QED
  BY <1>3, <1>5

\* A sum of terms that are not negative is zero only if every term is.
LEMMA SumZeroTerm ==
    ASSUME NEW D, IsFiniteSet(D), NEW f \in [D -> Int], \A x \in D : f[x] >= 0,
           SumFunctionOnSet(f, D) = 0
    PROVE  \A x \in D : f[x] = 0
<1> SUFFICES ASSUME NEW a \in D PROVE f[a] = 0
  OBVIOUS
<1>1. PICK g : g = [f EXCEPT ![a] = 0]
  OBVIOUS
<1>2. g \in [D -> Int] /\ g[a] = 0 /\ (\A x \in D : x # a => g[x] = f[x])
      /\ \A x \in D : g[x] >= 0
  BY <1>1
<1>3. SumFunctionOnSet(g, D) = SumFunctionOnSet(f, D) + (g[a] - f[a])
  BY <1>2, SumUpdate
<1>4. PICK z : z = [x \in D |-> 0]
  OBVIOUS
<1>5. z \in [D -> Int] /\ \A x \in D : z[x] = 0
  BY <1>4
<1>6. SumFunctionOnSet(z, D) = 0
  BY <1>5, SumZero
<1>7. SumFunctionOnSet(z, D) <= SumFunctionOnSet(g, D)
  <2>1. \A x \in D : z[x] <= g[x]
    BY <1>2, <1>5
  <2>2. QED
    BY <1>2, <1>5, <2>1, SumMonotone
<1>8. f[a] \in Int /\ f[a] >= 0
  OBVIOUS
<1>9. QED
  BY <1>2, <1>3, <1>6, <1>7, <1>8

\* f is 1 on the elements of Q and 0 on the others.
Indicates(f, Q, D) == \A x \in D : f[x] = IF x \in Q THEN 1 ELSE 0

\* The sum of an indicator is the number of elements it indicates.
LEMMA SumCard ==
    ASSUME NEW D, IsFiniteSet(D), NEW f \in [D -> Int], NEW Q, Q \subseteq D,
           Indicates(f, Q, D)
    PROVE  SumFunctionOnSet(f, D) = Cardinality(Q)
<1>1. PICK it : IsSum(it, f, D) /\ SumFunctionOnSet(f, D) = it[D]
  BY SumUnfolds
<1> DEFINE T == {s \in SUBSET D : it[s] = Cardinality(s \intersect Q)}
<1>2. {} \in T
  <2>1. {} \intersect Q = {}
    OBVIOUS
  <2>2. QED
    BY <1>1, <2>1, FS_EmptySet DEF IsSum
<1>3. ASSUME NEW s \in SUBSET D, s # {}, s \ {SumPick(D)[s]} \in T PROVE s \in T
  <2> DEFINE x == SumPick(D)[s]
             r == s \ {x}
             R == r \intersect Q
  <2>1. x \in D /\ x \in s /\ r \in SUBSET D
    BY <1>3, SumPicks DEF Picks
  <2>2. it[s] = f[x] + it[r] /\ it[r] = Cardinality(R)
    BY <1>1, <1>3, <2>1 DEF IsSum
  <2>3. IsFiniteSet(R)
    BY <2>1, FS_Subset
  <2>4. Cardinality(R) \in Nat
    BY <2>3, FS_CardinalityType
  <2>5. f[x] = IF x \in Q THEN 1 ELSE 0
    BY <2>1 DEF Indicates
  <2>6. CASE x \in Q
    <3>1. s \intersect Q = R \union {x} /\ x \notin R
      BY <2>1, <2>6
    <3>2. Cardinality(s \intersect Q) = Cardinality(R) + 1
      BY <2>3, <3>1, FS_AddElement
    <3>3. QED
      BY <2>2, <2>4, <2>5, <2>6, <3>2
  <2>7. CASE x \notin Q
    <3>1. s \intersect Q = R
      BY <2>1, <2>7
    <3>2. f[x] = 0
      BY <2>5, <2>7
    <3>3. it[s] = Cardinality(R)
      BY <2>2, <2>4, <3>2
    <3>4. QED
      BY <3>1, <3>3
  <2>8. QED
    BY <2>6, <2>7
<1> HIDE DEF T
<1>4. D \in T
  BY <1>2, <1>3, SumPicks, SetInduction
<1>5. D \intersect Q = Q
  OBVIOUS
<1>6. QED
  BY <1>1, <1>4, <1>5 DEF T

-----------------------------------------------------------------------------
(* Shares: j holds q[j] * m / a[j] rounded down, and a total that covers them *)

\* A common factor that is positive can be dropped, ...
LEMMA Cancel ==
    ASSUME NEW x \in Int, NEW y \in Int, NEW c \in Nat \ {0}, c * x <= c * y
    PROVE  x <= y
<1> SUFFICES ASSUME x >= y + 1 PROVE FALSE
  OBVIOUS
<1>1. c * x >= c * (y + 1)
  OBVIOUS
<1>2. c * (y + 1) = c * y + c
  OBVIOUS
<1>3. c * x \in Int /\ c * y \in Int /\ c > 0
  OBVIOUS
<1>4. QED
  BY <1>1, <1>2, <1>3

\* ... and one that is not negative can be added.
LEMMA Multiply ==
    ASSUME NEW x \in Int, NEW y \in Int, NEW c \in Nat, x <= y
    PROVE  c * x \in Int /\ c * y \in Int /\ c * x <= c * y
<1>1. y - x \in Nat /\ c * (y - x) >= 0
  OBVIOUS
<1>2. c * (y - x) = c * y - c * x
  OBVIOUS
<1>3. QED
  BY <1>1, <1>2

\* What \div computes.
LEMMA Quotient ==
    ASSUME NEW x \in Nat, NEW d \in Nat \ {0}
    PROVE  /\ x \div d \in Nat
           /\ d * (x \div d) <= x
           /\ x < d * (x \div d) + d
<1>1. x \div d \in Int /\ (x % d) \in 0..(d - 1) /\ x = d * (x \div d) + (x % d)
  OBVIOUS
<1>2. x \div d >= 0
  <2> SUFFICES ASSUME x \div d <= -1 PROVE FALSE
    BY <1>1
  <2>1. d * (x \div d) <= d * (-1)
    BY <1>1, Multiply
  <2>2. QED
    BY <1>1, <2>1
<1>3. d * (x \div d) \in Int
  BY <1>1
<1>4. QED
  BY <1>1, <1>2, <1>3

\* The share of one: what is held of q units taken at a and marked at m.
Share(q, a, m) == (q * m) \div a

LEMMA ShareNat ==
    ASSUME NEW q \in Nat, NEW a \in Nat \ {0}, NEW m \in Nat
    PROVE  /\ Share(q, a, m) \in Nat
           /\ a * Share(q, a, m) <= q * m
           /\ q * m < a * Share(q, a, m) + a
           /\ q = 0 => Share(q, a, m) = 0
<1>1. q * m \in Nat
  OBVIOUS
<1>2. /\ Share(q, a, m) \in Nat
      /\ a * Share(q, a, m) <= q * m
      /\ q * m < a * Share(q, a, m) + a
  BY <1>1, Quotient DEF Share
<1>3. ASSUME q = 0 PROVE Share(q, a, m) = 0
  <2>1. PICK h \in Nat : h = Share(q, a, m) /\ a * h <= 0
    BY <1>2, <1>3
  <2>2. a * h <= a * 0
    BY <2>1
  <2>3. h <= 0
    BY <2>2, Cancel
  <2>4. QED
    BY <2>1, <2>3
<1>4. QED
  BY <1>2, <1>3

\* A share is not more than its exact weight w / n.
LEMMA ShareWeight ==
    ASSUME NEW q \in Nat, NEW a \in Nat \ {0}, NEW m \in Nat, NEW n \in Nat, NEW w \in Nat,
           w * a = n * q
    PROVE  n * Share(q, a, m) <= m * w
<1>1. PICK h \in Nat : h = Share(q, a, m) /\ a * h <= q * m
  BY ShareNat
<1>2. n * (a * h) <= n * (q * m)
  BY <1>1, Multiply
<1>3. n * (a * h) = a * (n * h)
  OBVIOUS
<1>4. n * (q * m) = (n * q) * m
  OBVIOUS
<1>5. (w * a) * m = a * (m * w)
  OBVIOUS
<1>6. a * (n * h) <= a * (m * w)
  BY <1>2, <1>3, <1>4, <1>5
<1>7. n * h \in Int /\ m * w \in Int
  OBVIOUS
<1>8. QED
  BY <1>1, <1>6, <1>7, Cancel

Shares(D, q, a, m) == [j \in D |-> Share(q[j], a[j], m)]
Held(D, q, a, m) == SumFunctionOnSet(Shares(D, q, a, m), D)

\* With w[j] / n the exact share of j, the total is not less than their sum.
Weighs(D, q, a, m, total, n, w) ==
    /\ n \in Nat \ {0} /\ w \in [D -> Nat]
    /\ \A j \in D : w[j] * a[j] = n * q[j]
    /\ m * SumFunctionOnSet(w, D) <= n * total

\* The total covers the exact shares, and exceeds those held by at most d.
Covers(D, q, a, m, total, d) ==
    /\ total <= Held(D, q, a, m) + d
    /\ \E n, w : Weighs(D, q, a, m, total, n, w)

\* The shares are natural numbers, and so is their sum.
LEMMA HeldNat ==
    ASSUME NEW D, IsFiniteSet(D), NEW q \in [D -> Nat], NEW a \in [D -> Nat \ {0}], NEW m \in Nat
    PROVE  /\ Shares(D, q, a, m) \in [D -> Nat] /\ Shares(D, q, a, m) \in [D -> Int]
           /\ Held(D, q, a, m) \in Int
<1>1. \A j \in D : Share(q[j], a[j], m) \in Nat
  BY ShareNat
<1>2. Shares(D, q, a, m) \in [D -> Nat] /\ Shares(D, q, a, m) \in [D -> Int]
  BY <1>1 DEF Shares
<1>3. QED
  BY <1>2, SumInt DEF Held

\* A total that covers the shares is not less than what is held.
LEMMA CoversHeld ==
    ASSUME NEW D, IsFiniteSet(D), NEW q \in [D -> Nat], NEW a \in [D -> Nat \ {0}], NEW m \in Nat,
           NEW total \in Int, NEW d, Covers(D, q, a, m, total, d)
    PROVE  Held(D, q, a, m) <= total
<1>1. PICK n, w : Weighs(D, q, a, m, total, n, w)
  BY DEF Covers
<1>2. PICK s \in [D -> Int] : s = Shares(D, q, a, m) /\ \A j \in D : s[j] \in Nat
  BY HeldNat
<1>3. n \in Nat \ {0} /\ w \in [D -> Nat] /\ w \in [D -> Int] /\ \A j \in D : w[j] * a[j] = n * q[j]
  BY <1>1 DEF Weighs
<1>4. PICK u : u = [j \in D |-> n * s[j]]
  OBVIOUS
<1>5. PICK v : v = [j \in D |-> m * w[j]]
  OBVIOUS
<1>6. u \in [D -> Int] /\ v \in [D -> Int]
  <2>1. \A j \in D : n * s[j] \in Int /\ m * w[j] \in Int
    BY <1>2, <1>3
  <2>2. QED
    BY <1>4, <1>5, <2>1
<1>7. SumFunctionOnSet(u, D) = n * SumFunctionOnSet(s, D)
  <2>1. Scaled(u, s, n, D) /\ n \in Int
    BY <1>3, <1>4 DEF Scaled
  <2>2. QED
    BY <1>2, <1>6, <2>1, SumScale
<1>8. SumFunctionOnSet(v, D) = m * SumFunctionOnSet(w, D)
  <2>1. Scaled(v, w, m, D) /\ m \in Int
    BY <1>5 DEF Scaled
  <2>2. QED
    BY <1>3, <1>6, <2>1, SumScale
<1>9. SumFunctionOnSet(u, D) <= SumFunctionOnSet(v, D)
  <2>1. ASSUME NEW j \in D PROVE u[j] <= v[j]
    <3>1. n * Share(q[j], a[j], m) <= m * w[j]
      BY <1>3, ShareWeight
    <3>2. u[j] = n * Share(q[j], a[j], m) /\ v[j] = m * w[j]
      BY <1>2, <1>4, <1>5 DEF Shares
    <3>3. QED
      BY <3>1, <3>2
  <2>2. QED
    BY <1>6, <2>1, SumMonotone
<1>10. n * SumFunctionOnSet(s, D) <= n * total
  <2>1. m * SumFunctionOnSet(w, D) <= n * total
    BY <1>1 DEF Weighs
  <2>2. m * SumFunctionOnSet(w, D) \in Int /\ n * SumFunctionOnSet(s, D) \in Int /\ n * total \in Int
    BY <1>2, <1>3, SumInt
  <2>3. QED
    BY <1>7, <1>8, <1>9, <2>1, <2>2
<1>11. SumFunctionOnSet(s, D) \in Int
  BY <1>2, SumInt
<1>12. SumFunctionOnSet(s, D) <= total
  BY <1>3, <1>10, <1>11, Cancel
<1>13. QED
  BY <1>2, <1>12 DEF Held

\* The bound may be larger than it need be.
LEMMA CoversLooser ==
    ASSUME NEW D, IsFiniteSet(D), NEW q \in [D -> Nat], NEW a \in [D -> Nat \ {0}], NEW m \in Nat,
           NEW total \in Int, NEW d \in Int, NEW c \in Int, d <= c, Covers(D, q, a, m, total, d)
    PROVE  Covers(D, q, a, m, total, c)
<1>1. Held(D, q, a, m) \in Int
  BY HeldNat
<1>2. total <= Held(D, q, a, m) + c
  BY <1>1 DEF Covers
<1>3. QED
  BY <1>2 DEF Covers

\* Where nobody holds anything, the total is within the bound d, ...
LEMMA CoversNobody ==
    ASSUME NEW D, IsFiniteSet(D), NEW q \in [D -> Nat], NEW a \in [D -> Nat \ {0}], NEW m \in Nat,
           NEW total \in Int, NEW d \in Int, \A j \in D : q[j] = 0
    PROVE  Covers(D, q, a, m, total, d) <=> total >= 0 /\ total <= d
<1>1. Held(D, q, a, m) = 0
  <2>1. \A j \in D : Shares(D, q, a, m)[j] = 0
    BY ShareNat DEF Shares
  <2>2. QED
    BY <2>1, HeldNat, SumZero DEF Held
<1>2. ASSUME Covers(D, q, a, m, total, d) PROVE total >= 0 /\ total <= d
  <2>1. 0 <= total
    BY <1>1, <1>2, CoversHeld
  <2>2. QED
    BY <1>1, <1>2, <2>1 DEF Covers
<1>3. ASSUME total >= 0, total <= d PROVE Covers(D, q, a, m, total, d)
  <2>1. PICK w : w = [j \in D |-> 0]
    OBVIOUS
  <2>2. w \in [D -> Nat] /\ w \in [D -> Int] /\ \A j \in D : w[j] = 0
    BY <2>1
  <2>3. SumFunctionOnSet(w, D) = 0
    BY <2>2, SumZero
  <2>4. m * SumFunctionOnSet(w, D) <= 1 * total
    BY <1>3, <2>3
  <2>5. \A j \in D : w[j] * a[j] = 1 * q[j]
    BY <2>2
  <2>6. Weighs(D, q, a, m, total, 1, w)
    BY <2>2, <2>4, <2>5 DEF Weighs
  <2>7. QED
    BY <1>1, <1>3, <2>6 DEF Covers
<1>4. QED
  BY <1>2, <1>3

\* ... the total can give up the share that one of them loses, ...
LEMMA CoversDropped ==
    ASSUME NEW D, IsFiniteSet(D), NEW q \in [D -> Nat], NEW a \in [D -> Nat \ {0}], NEW m \in Nat,
           NEW r \in [D -> Nat], NEW b \in [D -> Nat \ {0}], NEW i \in D, r[i] = 0,
           \A j \in D : j # i => r[j] = q[j] /\ b[j] = a[j],
           NEW total \in Int, NEW d \in Int, Covers(D, q, a, m, total, d)
    PROVE  Covers(D, r, b, m, total - Share(q[i], a[i], m), d)
<1>1. PICK h \in Nat : h = Share(q[i], a[i], m)
  BY ShareNat
<1>2. PICK n, w : Weighs(D, q, a, m, total, n, w)
  BY DEF Covers
<1>3. n \in Nat \ {0} /\ w \in [D -> Nat] /\ w \in [D -> Int] /\ \A j \in D : w[j] * a[j] = n * q[j]
  BY <1>2 DEF Weighs
<1>4. PICK v : v = [w EXCEPT ![i] = 0]
  OBVIOUS
<1>5. v \in [D -> Nat] /\ v \in [D -> Int] /\ v[i] = 0 /\ \A j \in D : j # i => v[j] = w[j]
  BY <1>3, <1>4
<1>6. Held(D, r, b, m) = Held(D, q, a, m) - h
  <2>1. \A j \in D : j # i => Shares(D, r, b, m)[j] = Shares(D, q, a, m)[j]
    BY DEF Shares
  <2>2. Shares(D, r, b, m)[i] = 0 /\ Shares(D, q, a, m)[i] = h
    BY <1>1, ShareNat DEF Shares
  <2>3. Shares(D, r, b, m) \in [D -> Int] /\ Shares(D, q, a, m) \in [D -> Int]
    BY HeldNat
  <2>4. Held(D, r, b, m) = Held(D, q, a, m) + (Shares(D, r, b, m)[i] - Shares(D, q, a, m)[i])
    BY <2>1, <2>3, SumUpdate DEF Held
  <2>5. Held(D, q, a, m) \in Int
    BY HeldNat
  <2>6. QED
    BY <2>2, <2>4, <2>5
<1>7. Weighs(D, r, b, m, total - h, n, v)
  <2>1. ASSUME NEW j \in D PROVE v[j] * b[j] = n * r[j]
    <3>1. CASE j = i
      BY <1>3, <1>5, <3>1
    <3>2. CASE j # i
      BY <1>3, <1>5, <3>2
    <3>3. QED
      BY <3>1, <3>2
  <2>2. PICK W \in Int : W = SumFunctionOnSet(w, D)
    BY <1>3, SumInt
  <2>3. SumFunctionOnSet(v, D) = SumFunctionOnSet(w, D) + (v[i] - w[i])
    <3>1. Alters(w, v, i, D)
      BY <1>5 DEF Alters
    <3>2. w \in [D -> Int] /\ v \in [D -> Int]
      BY <1>3, <1>5
    <3>3. QED
      BY <3>1, <3>2, SumAlters
  <2>4. PICK x \in Nat : x = w[i] /\ v[i] = 0
    BY <1>3, <1>5
  <2>5. n * h <= m * x
    BY <1>1, <1>3, <2>4, ShareWeight
  <2>6. m * W <= n * total
    BY <1>2, <2>2 DEF Weighs
  <2>7. m * (W - x) = m * W - m * x
    OBVIOUS
  <2>8. n * (total - h) = n * total - n * h
    BY <1>3
  <2>9. m * W \in Int /\ m * x \in Int /\ n * h \in Int /\ n * total \in Int
    BY <1>3
  <2>10. m * (W - x) <= n * (total - h)
    BY <2>5, <2>6, <2>7, <2>8, <2>9
  <2>11. SumFunctionOnSet(v, D) = W - x
    BY <2>2, <2>3, <2>4
  <2>12. m * SumFunctionOnSet(v, D) <= n * (total - h)
    BY <2>10, <2>11
  <2>13. QED
    BY <1>3, <1>5, <2>1, <2>12 DEF Weighs
<1>8. total <= Held(D, q, a, m) + d /\ Held(D, q, a, m) \in Int
  BY HeldNat DEF Covers
<1>9. total - h <= Held(D, r, b, m) + d
  BY <1>6, <1>8
<1>10. Covers(D, r, b, m, total - h, d)
  BY <1>7, <1>9 DEF Covers
<1>11. QED
  BY <1>1, <1>10

\* ... and takes up the share that one of them gains.
LEMMA CoversAdded ==
    ASSUME NEW D, IsFiniteSet(D), NEW q \in [D -> Nat], NEW a \in [D -> Nat \ {0}],
           NEW m \in Nat \ {0},
           NEW r \in [D -> Nat], NEW b \in [D -> Nat \ {0}], NEW i \in D, q[i] = 0, b[i] = m,
           \A j \in D : j # i => r[j] = q[j] /\ b[j] = a[j],
           NEW total \in Int, NEW d \in Int, Covers(D, q, a, m, total, d)
    PROVE  Covers(D, r, b, m, total + r[i], d)
<1>1. PICK x \in Nat : x = r[i]
  OBVIOUS
<1>2. PICK n, w : Weighs(D, q, a, m, total, n, w)
  BY DEF Covers
<1>3. n \in Nat \ {0} /\ w \in [D -> Nat] /\ w \in [D -> Int] /\ \A j \in D : w[j] * a[j] = n * q[j]
  BY <1>2 DEF Weighs
<1>4. PICK k : k = n * m
  OBVIOUS
<1>5. k \in Nat \ {0}
  <2>1. n * m \in Nat
    BY <1>3
  <2>2. n * m # 0
    <3>1. n * 1 <= n * m
      BY <1>3, Multiply
    <3>2. QED
      BY <1>3, <3>1
  <2>3. QED
    BY <1>4, <2>1, <2>2
<1>6. PICK u : u = [j \in D |-> m * w[j]]
  OBVIOUS
<1>7. u \in [D -> Int] /\ (\A j \in D : u[j] \in Nat) /\ SumFunctionOnSet(u, D) = m * SumFunctionOnSet(w, D)
  <2>1. \A j \in D : m * w[j] \in Nat
    BY <1>3
  <2>2. u \in [D -> Int] /\ \A j \in D : u[j] \in Nat
    BY <1>6, <2>1
  <2>3. Scaled(u, w, m, D) /\ m \in Int
    BY <1>6 DEF Scaled
  <2>4. QED
    BY <1>3, <2>2, <2>3, SumScale
<1>8. PICK v : v = [u EXCEPT ![i] = n * x]
  OBVIOUS
<1>9. /\ v \in [D -> Nat] /\ v \in [D -> Int] /\ v[i] = n * x
      /\ \A j \in D : j # i => v[j] = m * w[j]
  <2>a. n * x \in Nat
    BY <1>3
  <2>b. v = [j \in D |-> IF j = i THEN n * x ELSE u[j]]
    BY <1>7, <1>8, Zenon
  <2>1. n * x \in Nat /\ v = [j \in D |-> IF j = i THEN n * x ELSE u[j]]
    BY <2>a, <2>b
  <2>2. \A j \in D : v[j] \in Nat /\ v[j] \in Int
    BY <1>7, <2>1
  <2>3. v \in [D -> Nat] /\ v \in [D -> Int]
    BY <2>1, <2>2
  <2>4. QED
    BY <1>6, <2>1, <2>3
<1>10. Held(D, r, b, m) = Held(D, q, a, m) + x
  <2>1. \A j \in D : j # i => Shares(D, r, b, m)[j] = Shares(D, q, a, m)[j]
    BY DEF Shares
  <2>2. Share(x, m, m) = x
    <3>1. PICK h \in Nat : h = Share(x, m, m) /\ m * h <= x * m /\ x * m < m * h + m
      BY ShareNat
    <3>2. h <= x
      BY <3>1, Cancel, x * m = m * x
    <3>3. m * x < m * (h + 1)
      BY <3>1, x * m = m * x, m * (h + 1) = m * h + m
    <3>4. ~(m * (h + 1) <= m * x)
      BY <3>3, m * x \in Int, m * (h + 1) \in Int
    <3>5. ~(h + 1 <= x)
      BY <3>4, Multiply
    <3>6. QED
      BY <3>1, <3>2, <3>5
  <2>3. Shares(D, r, b, m)[i] = x /\ Shares(D, q, a, m)[i] = 0
    BY <1>1, <2>2, ShareNat DEF Shares
  <2>4. Shares(D, r, b, m) \in [D -> Int] /\ Shares(D, q, a, m) \in [D -> Int]
    BY HeldNat
  <2>5. Held(D, r, b, m) = Held(D, q, a, m) + (Shares(D, r, b, m)[i] - Shares(D, q, a, m)[i])
    BY <2>1, <2>4, SumUpdate DEF Held
  <2>6. Held(D, q, a, m) \in Int
    BY HeldNat
  <2>7. QED
    BY <2>3, <2>5, <2>6
<1>11. Weighs(D, r, b, m, total + x, k, v)
  <2>1. ASSUME NEW j \in D PROVE v[j] * b[j] = k * r[j]
    <3>1. CASE j = i
      <4>1. v[j] = n * x /\ b[j] = m /\ r[j] = x
        BY <1>1, <1>9, <3>1
      <4>2. (n * x) * m = (n * m) * x
        BY <1>3
      <4>3. QED
        BY <1>4, <4>1, <4>2
    <3>2. CASE j # i
      <4>1. PICK p \in Nat, c \in Nat, y \in Nat : p = w[j] /\ c = a[j] /\ y = q[j] /\ p * c = n * y
        BY <1>3
      <4>2. v[j] = m * p /\ b[j] = c /\ r[j] = y
        BY <1>9, <3>2, <4>1
      <4>3. (m * p) * c = m * (p * c)
        OBVIOUS
      <4>4. m * (n * y) = (n * m) * y
        BY <1>3
      <4>5. QED
        BY <1>4, <4>1, <4>2, <4>3, <4>4
    <3>3. QED
      BY <3>1, <3>2
  <2>2. PICK W \in Int : W = SumFunctionOnSet(w, D)
    BY <1>3, SumInt
  <2>3. u[i] = 0
    <3>1. w[i] * a[i] = 0 /\ w[i] \in Nat /\ a[i] \in Nat \ {0}
      BY <1>3
    <3>2. a[i] * w[i] <= a[i] * 0
      BY <3>1
    <3>3. w[i] <= 0
      BY <3>1, <3>2, Cancel
    <3>4. w[i] = 0
      BY <3>1, <3>3
    <3>5. QED
      BY <1>6, <3>4
  <2>4. PICK y \in Int : y = n * x
    BY <1>3
  <2>5. SumFunctionOnSet(v, D) = m * W + y
    <3>1. \A j \in D : j # i => v[j] = u[j]
      BY <1>6, <1>9
    <3>2. SumFunctionOnSet(v, D) = SumFunctionOnSet(u, D) + (v[i] - u[i])
      BY <1>7, <1>9, <3>1, SumUpdate
    <3>3. SumFunctionOnSet(u, D) \in Int
      BY <1>7, SumInt
    <3>4. SumFunctionOnSet(v, D) = SumFunctionOnSet(u, D) + y
      BY <1>9, <2>3, <2>4, <3>2, <3>3
    <3>5. QED
      BY <1>7, <2>2, <3>4
  <2>6. m * W <= n * total
    BY <1>2, <2>2 DEF Weighs
  <2>7. m * (m * W + y) = m * (m * W) + m * y
    BY m * W \in Int
  <2>8. k * (total + x) = k * total + k * x
    BY <1>5
  <2>9. m * (m * W) <= m * (n * total)
    BY <1>3, <2>6, Multiply, m * W \in Int, n * total \in Int
  <2>10. m * (n * total) = k * total
    BY <1>3, <1>4
  <2>11. m * y = k * x
    BY <1>3, <1>4, <2>4, m * (n * x) = (n * m) * x
  <2>12. m * (m * W) \in Int /\ m * y \in Int /\ k * total \in Int
    BY <1>5
  <2>13. m * (m * W + y) <= k * (total + x)
    BY <2>7, <2>8, <2>9, <2>10, <2>11, <2>12
  <2>14. m * SumFunctionOnSet(v, D) <= k * (total + x)
    BY <2>5, <2>13
  <2>15. QED
    BY <1>5, <1>9, <2>1, <2>14 DEF Weighs
<1>12. total <= Held(D, q, a, m) + d /\ Held(D, q, a, m) \in Int
  BY HeldNat DEF Covers
<1>13. total + x <= Held(D, r, b, m) + d
  BY <1>10, <1>12
<1>14. Covers(D, r, b, m, total + x, d)
  BY <1>11, <1>13 DEF Covers
<1>15. QED
  BY <1>1, <1>14

\* One share after the marking has gone from m to k, with one unit for the
\* rounding of those who hold anything.
LEMMA ShareShrunk ==
    ASSUME NEW q \in Nat, NEW a \in Nat \ {0}, NEW m \in Nat, NEW k \in Nat, q # 0
    PROVE  k * Share(q, a, m) <= m * Share(q, a, k) + m
<1>1. PICK h \in Nat : h = Share(q, a, m) /\ a * h <= q * m
  BY ShareNat
<1>2. PICK g \in Nat : g = Share(q, a, k) /\ q * k < a * g + a
  BY ShareNat
<1>3. k * (a * h) <= k * (q * m)
  BY <1>1, Multiply
<1>4. m * (q * k) <= m * (a * g + a)
  BY <1>2, Multiply, q * k \in Int, a * g + a \in Int
<1>5. k * (q * m) = m * (q * k)
  OBVIOUS
<1>6. k * (a * h) = a * (k * h)
  OBVIOUS
<1>7. m * (a * g + a) = a * (m * g + m)
  OBVIOUS
<1>8. a * (k * h) <= a * (m * g + m)
  <2>1. k * (a * h) \in Int /\ k * (q * m) \in Int /\ m * (a * g + a) \in Int
    OBVIOUS
  <2>2. QED
    BY <1>3, <1>4, <1>5, <1>6, <1>7, <2>1
<1>9. k * h <= m * g + m
  BY <1>8, Cancel, k * h \in Int, m * g + m \in Int
<1>10. QED
  BY <1>1, <1>2, <1>9

\* ... and still covers them when the total and the marking shrink together:
\* one unit for the rounding of everybody who holds anything, and what the
\* rounding of the marking itself can amount to.
LEMMA HeldShrunk ==
    ASSUME NEW D, IsFiniteSet(D), NEW q \in [D -> Nat], NEW a \in [D -> Nat \ {0}],
           NEW m \in Nat, NEW k \in Nat, NEW c \in [D -> Int],
           \A j \in D : c[j] = IF q[j] = 0 THEN 0 ELSE 1
    PROVE  k * Held(D, q, a, m) <= m * Held(D, q, a, k) + m * SumFunctionOnSet(c, D)
<1>1. PICK s \in [D -> Int] : s = Shares(D, q, a, m) /\ \A j \in D : s[j] = Share(q[j], a[j], m)
  <2>1. Shares(D, q, a, m) \in [D -> Int]
    BY HeldNat
  <2>2. \A j \in D : Shares(D, q, a, m)[j] = Share(q[j], a[j], m)
    BY DEF Shares
  <2>3. QED
    BY <2>1, <2>2
<1>2. PICK t \in [D -> Int] : t = Shares(D, q, a, k) /\ \A j \in D : t[j] = Share(q[j], a[j], k)
  <2>1. Shares(D, q, a, k) \in [D -> Int]
    BY HeldNat
  <2>2. \A j \in D : Shares(D, q, a, k)[j] = Share(q[j], a[j], k)
    BY DEF Shares
  <2>3. QED
    BY <2>1, <2>2
<1>3. PICK u : u = [j \in D |-> t[j] + c[j]]
  OBVIOUS
<1>4. u \in [D -> Int] /\ \A j \in D : u[j] = t[j] + c[j]
  BY <1>3
<1>5. PICK x : x = [j \in D |-> k * s[j]]
  OBVIOUS
<1>6. PICK y : y = [j \in D |-> m * u[j]]
  OBVIOUS
<1>7. x \in [D -> Int] /\ y \in [D -> Int]
  <2>1. \A j \in D : k * s[j] \in Int /\ m * u[j] \in Int
    BY <1>4
  <2>2. QED
    BY <1>5, <1>6, <2>1
<1>8. SumFunctionOnSet(x, D) = k * SumFunctionOnSet(s, D)
  <2>1. Scaled(x, s, k, D) /\ k \in Int
    BY <1>5 DEF Scaled
  <2>2. QED
    BY <1>7, <2>1, SumScale
<1>9. SumFunctionOnSet(y, D) = m * SumFunctionOnSet(u, D)
  <2>1. Scaled(y, u, m, D) /\ m \in Int
    BY <1>6 DEF Scaled
  <2>2. QED
    BY <1>4, <1>7, <2>1, SumScale
<1>10. SumFunctionOnSet(u, D) = SumFunctionOnSet(t, D) + SumFunctionOnSet(c, D)
  BY <1>4, SumPlus DEF Added
<1>11. ASSUME NEW j \in D PROVE x[j] <= y[j]
  <2>1. PICK h \in Nat : h = Share(q[j], a[j], m)
    BY ShareNat
  <2>2. PICK g \in Nat : g = Share(q[j], a[j], k)
    BY ShareNat
  <2>3. x[j] = k * h /\ u[j] = g + c[j] /\ y[j] = m * (g + c[j])
    BY <1>1, <1>2, <1>4, <1>5, <1>6, <2>1, <2>2
  <2>4. CASE q[j] = 0
    <3>1. h = 0 /\ g = 0 /\ c[j] = 0
      BY <2>1, <2>2, <2>4, ShareNat
    <3>2. QED
      BY <2>3, <3>1
  <2>5. CASE q[j] # 0
    <3>1. k * h <= m * g + m
      BY <2>1, <2>2, <2>5, ShareShrunk
    <3>2. c[j] = 1 /\ m * (g + 1) = m * g + m
      BY <2>5
    <3>3. QED
      BY <2>3, <3>1, <3>2
  <2>6. QED
    BY <2>4, <2>5
<1>12. SumFunctionOnSet(x, D) <= SumFunctionOnSet(y, D)
  BY <1>7, <1>11, SumMonotone
<1>13. PICK T \in Int : T = SumFunctionOnSet(t, D)
  BY SumInt
<1>14. PICK C \in Int : C = SumFunctionOnSet(c, D)
  BY SumInt
<1>15. m * (T + C) = m * T + m * C
  OBVIOUS
<1>16. k * SumFunctionOnSet(s, D) <= m * T + m * C
  BY <1>8, <1>9, <1>10, <1>12, <1>13, <1>14, <1>15
<1>17. QED
  BY <1>1, <1>2, <1>13, <1>14, <1>16 DEF Held

LEMMA CoversShrunk ==
    ASSUME NEW D, IsFiniteSet(D), NEW q \in [D -> Nat], NEW a \in [D -> Nat \ {0}],
           NEW m \in Nat, NEW total \in Nat, NEW d \in Nat, Covers(D, q, a, m, total, d),
           NEW rest \in Nat, rest <= total, total # 0,
           NEW c \in [D -> Int], \A j \in D : c[j] = IF q[j] = 0 THEN 0 ELSE 1,
           NEW x \in Int, m * x >= total
    PROVE  Covers(D, q, a, (m * rest) \div total, rest, d + SumFunctionOnSet(c, D) + x)
<1>1. PICK k \in Nat : k = (m * rest) \div total /\ total * k <= m * rest /\ m * rest < total * k + total
  BY Quotient, m * rest \in Nat
<1>2. PICK C \in Int : C = SumFunctionOnSet(c, D)
  BY SumInt
<1>3. PICK H \in Int : H = Held(D, q, a, m)
  BY HeldNat
<1>4. PICK K \in Int : K = Held(D, q, a, k)
  BY HeldNat
<1>5. rest <= K + (d + C + x)
  <2>1. k * H <= m * K + m * C
    BY <1>2, <1>3, <1>4, HeldShrunk
  <2>2. k * total <= k * H + k * d
    <3>1. total <= H + d
      BY <1>3 DEF Covers
    <3>2. k * total <= k * (H + d)
      BY <3>1, Multiply
    <3>3. k * (H + d) = k * H + k * d
      OBVIOUS
    <3>4. QED
      BY <3>2, <3>3
  <2>3. k * d <= m * d
    <3>1. total * k <= total * m
      <4>1. m * rest <= m * total
        BY Multiply
      <4>2. m * rest \in Int /\ m * total = total * m /\ total * k \in Int /\ total * m \in Int
        OBVIOUS
      <4>3. QED
        BY <1>1, <4>1, <4>2
    <3>2. k <= m
      BY <3>1, Cancel
    <3>3. d * k <= d * m
      BY <3>2, Multiply
    <3>4. d * k = k * d /\ d * m = m * d
      OBVIOUS
    <3>5. QED
      BY <3>3, <3>4
  <2>4. total * k = k * total
    OBVIOUS
  <2>5. /\ m * rest \in Int /\ k * total \in Int /\ k * H \in Int /\ k * d \in Int /\ m * d \in Int
        /\ m * K \in Int /\ m * C \in Int /\ m * x \in Int
    OBVIOUS
  <2>6. m * rest <= m * K + m * C + m * d + m * x
    BY <1>1, <2>1, <2>2, <2>3, <2>4, <2>5
  <2>7. m * (K + (d + C + x)) = m * K + m * C + m * d + m * x
    OBVIOUS
  <2>8. m * rest <= m * (K + (d + C + x))
    BY <2>6, <2>7
  <2>9. m # 0
    <3>1. ASSUME m = 0 PROVE FALSE
      <4>1. m * x = 0
        BY <3>1
      <4>2. QED
        BY <4>1
    <3>2. QED
      BY <3>1
  <2>10. QED
    BY <2>8, <2>9, Cancel
<1>6. PICK n, w : Weighs(D, q, a, m, total, n, w)
  BY DEF Covers
<1>7. n \in Nat \ {0} /\ w \in [D -> Nat]
  BY <1>6 DEF Weighs
<1>8. PICK W \in Int : W = SumFunctionOnSet(w, D) /\ W >= 0
  <2>1. w \in [D -> Int] /\ \A j \in D : w[j] >= 0
    BY <1>7
  <2>2. SumFunctionOnSet(w, D) >= 0
    BY <2>1, SumNat
  <2>3. QED
    BY <2>1, <2>2, SumInt
<1>9. k * W <= n * rest
  <2>1. m * W <= n * total
    BY <1>6, <1>8 DEF Weighs
  <2>2. W * (total * k) <= W * (m * rest)
    BY <1>1, <1>8, Multiply, total * k \in Int, m * rest \in Int
  <2>3. rest * (m * W) <= rest * (n * total)
    BY <1>7, <2>1, Multiply, m * W \in Int, n * total \in Int
  <2>4. W * (total * k) = total * (k * W)
    OBVIOUS
  <2>5. W * (m * rest) = rest * (m * W)
    OBVIOUS
  <2>6. rest * (n * total) = total * (n * rest)
    BY <1>7
  <2>7. W * (total * k) \in Int /\ W * (m * rest) \in Int /\ rest * (n * total) \in Int
    BY <1>7
  <2>8. total * (k * W) <= total * (n * rest)
    BY <2>2, <2>3, <2>4, <2>5, <2>6, <2>7
  <2>9. QED
    BY <1>7, <2>8, Cancel, k * W \in Int, n * rest \in Int
<1>10. Weighs(D, q, a, k, rest, n, w)
  BY <1>6, <1>8, <1>9 DEF Weighs
<1>11. Covers(D, q, a, k, rest, d + C + x)
  BY <1>4, <1>5, <1>10 DEF Covers
<1>12. QED
  BY <1>1, <1>2, <1>11

-----------------------------------------------------------------------------
(* Folds that take the largest element last: MapThenFoldSet with Max, FoldLeft. *)

MaxPick(D) == [s \in SUBSET D |-> Max(s)]

\* A finite set of integers that is not empty has a largest element.
LEMMA MaxPicks ==
    ASSUME NEW D, IsFiniteSet(D), D \subseteq Int
    PROVE  Picks(MaxPick(D), D)
<1> DEFINE Largest(x, s) == x \in s /\ \A y \in s : x >= y
           T == {s \in SUBSET D : s = {} \/ \E x \in s : Largest(x, s)}
<1>1. {} \in T
  OBVIOUS
<1>2. ASSUME NEW s \in SUBSET D, s # {}, s \ {SumPick(D)[s]} \in T PROVE s \in T
  <2> DEFINE x == SumPick(D)[s]
             r == s \ {x}
  <2>1. x \in s
    BY <1>2, SumPicks DEF Picks
  <2> HIDE DEF x
  <2>2. CASE r = {}
    <3>1. s = {x}
      BY <2>1, <2>2
    <3>2. x >= x
      BY <2>1
    <3>3. Largest(x, s)
      BY <3>1, <3>2
    <3>4. QED
      BY <2>1, <3>3
  <2>3. CASE r # {}
    <3>1. PICK y \in r : Largest(y, r)
      BY <1>2, <2>3 DEF x
    <3>2. x \in Int /\ y \in Int /\ \A z \in s : z \in Int /\ (z = x \/ z \in r)
      BY <2>1, <3>1
    <3>3. CASE x >= y
      <4>1. \A z \in s : x >= z
        BY <3>1, <3>2, <3>3
      <4>2. QED
        BY <2>1, <4>1
    <3>4. CASE ~(x >= y)
      <4>1. \A z \in s : y >= z
        BY <3>1, <3>2, <3>4
      <4>2. QED
        BY <3>1, <4>1
    <3>5. QED
      BY <3>3, <3>4
  <2>4. QED
    BY <2>2, <2>3
<1> HIDE DEF T
<1>3. \A s \in SUBSET D : s \in T
  <2>1. Picks(SumPick(D), D)
    BY SumPicks
  <2>2. Inductive(T, D, SumPick(D))
    BY <1>1, <1>2 DEF Inductive
  <2>3. QED
    BY <2>1, <2>2, InductiveSet
<1>4. ASSUME NEW s \in SUBSET D, s # {} PROVE MaxPick(D)[s] \in s
  <2>1. \E x \in s : \A y \in s : x >= y
    BY <1>3, <1>4 DEF T
  <2>2. QED
    BY <2>1 DEF MaxPick, Max
<1>5. QED
  BY <1>4 DEF Picks

\* What satisfies the equation of a closed fold stays in the set it is closed on.
FoldsTo(it, D, base, S) ==
    /\ it[{}] = base
    /\ \A s \in SUBSET D : s # {} /\ it[s \ {Max(s)}] \in S => it[s] \in S

\* A fold whose every step stays in S ends in S.
LEMMA FoldStays ==
    ASSUME NEW D, IsFiniteSet(D), D \subseteq Int, NEW S, NEW base \in S,
           NEW it, FoldsTo(it, D, base, S)
    PROVE  it[D] \in S
<1> DEFINE T == {s \in SUBSET D : it[s] \in S}
<1>1. {} \in T
  BY DEF FoldsTo
<1>2. ASSUME NEW s \in SUBSET D, s # {}, s \ {MaxPick(D)[s]} \in T PROVE s \in T
  <2>1. MaxPick(D)[s] = Max(s)
    BY DEF MaxPick
  <2>2. QED
    BY <1>2, <2>1 DEF FoldsTo
<1> HIDE DEF T
<1>3. \A s \in SUBSET D : s \in T
  <2>1. Picks(MaxPick(D), D)
    BY MaxPicks
  <2>2. Inductive(T, D, MaxPick(D))
    BY <1>1, <1>2 DEF Inductive
  <2>3. QED
    BY <2>1, <2>2, InductiveSet
<1>4. QED
  BY <1>3 DEF T
=============================================================================
