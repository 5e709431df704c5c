----------------------------- MODULE MoneyProofs -----------------------------
(***************************************************************************)
(* What the operators of Money do, for every amount: a sum over any finite *)
(* set of rows, the places of some numbers, powers, rounded quotients and  *)
(* fractions.  The sum and the power are defined by recursion: that their  *)
(* equations have a solution, and what it is worth, is proved by looking   *)
(* at a smallest set, or a smallest number, for which it would fail.       *)
(***************************************************************************)
EXTENDS Money, FiniteSetTheorems, WellFoundedInduction, TLAPS

(* Sums *)

\* The subsets of a finite set, by strict inclusion, have no infinite descent.
LEMMA SubsetsWellFounded ==
    ASSUME NEW S, IsFiniteSet(S)
    PROVE  IsWellFoundedOn(StrictSubsetOrdering(S), SUBSET S)
  BY FS_StrictSubsetOrderingWellFounded, FS_FiniteSubsetsOfFinite

\* Where some subset is bad, one is bad whose own subsets, one element less,
\* are not.
LEMMA SmallestSubset ==
    ASSUME NEW S, IsFiniteSet(S), NEW Bad, Bad \subseteq SUBSET S, Bad # {}
    PROVE  \E T \in Bad : \A x \in T : T \ {x} \notin Bad
  <1>1. IsWellFoundedOn(StrictSubsetOrdering(S), SUBSET S)
    BY SubsetsWellFounded
  <1>2. PICK T \in Bad : \A U \in Bad : <<U, T>> \notin StrictSubsetOrdering(S)
    BY <1>1, WFMin
  <1>3. ASSUME NEW x \in T PROVE <<T \ {x}, T>> \in StrictSubsetOrdering(S)
    BY <1>2, <1>3 DEF StrictSubsetOrdering
  <1>4. QED
    BY <1>2, <1>3

\* Induction over a finite set: what holds of the empty set, and is kept when an
\* element is added, holds of the set.
LEMMA SetInduction ==
    ASSUME NEW S, IsFiniteSet(S), NEW G,
           {} \in G,
           \A T \in SUBSET S : \A x \in S \ T : T \in G => T \cup {x} \in G
    PROVE  S \in G
  <1>. SUFFICES ASSUME S \notin G PROVE FALSE
      OBVIOUS
  <1>. DEFINE Bad == {T \in SUBSET S : T \notin G}
  <1>1. Bad \subseteq SUBSET S /\ S \in Bad
    OBVIOUS
  <1>2. PICK T \in Bad : \A x \in T : T \ {x} \notin Bad
    <2> HIDE DEF Bad
    <2> QED
      BY <1>1, SmallestSubset
  <1>3. PICK x \in T : TRUE
    BY <1>2
  <1>4. T = (T \ {x}) \cup {x} /\ x \in S \ (T \ {x}) /\ T \ {x} \in SUBSET S
    BY <1>2, <1>3
  <1>5. QED
    BY <1>2, <1>3, <1>4

------------------------------------------------------------------------------
\* The fold's choice of the next row, the equation of the fold, and its solution.
Chosen(s) == CHOOSE x \in s : TRUE
IsSum(g, f, S) ==
    g = [s \in SUBSET S |-> IF s = {} THEN 0 ELSE f[Chosen(s)] + g[s \ {Chosen(s)}]]
Iter(f, S) == CHOOSE g : IsSum(g, f, S)

\* A sum is the value of that function at the whole set.
LEMMA SumIsIter == ASSUME NEW f, NEW S PROVE SumOver(f, S) = Iter(f, S)[S]
  BY DEF SumOver, MapThenSumSet, MapThenFoldSet, Iter, IsSum, Chosen

\* Two such functions agree where both are defined.
LEMMA IterUnique ==
    ASSUME NEW V, IsFiniteSet(V), NEW U \in SUBSET V, NEW f, NEW g, NEW h,
           IsSum(g, f, U), IsSum(h, f, V)
    PROVE  g[U] = h[U]
  <1> DEFINE Bad == {T \in SUBSET U : g[T] # h[T]}
  <1>1. SUFFICES ASSUME U \in Bad PROVE FALSE
    OBVIOUS
  <1>2. PICK T \in Bad : \A x \in T : T \ {x} \notin Bad
    <2>1. IsFiniteSet(U)
      BY FS_Subset
    <2>2. Bad \subseteq SUBSET U
      OBVIOUS
    <2> HIDE DEF Bad
    <2>3. QED
      BY <1>1, <2>1, <2>2, SmallestSubset
  <1>3. /\ g[T] = IF T = {} THEN 0 ELSE f[Chosen(T)] + g[T \ {Chosen(T)}]
        /\ h[T] = IF T = {} THEN 0 ELSE f[Chosen(T)] + h[T \ {Chosen(T)}]
    <2>1. T \in SUBSET U /\ T \in SUBSET V
      BY <1>2
    <2>2. QED
      BY <2>1 DEF IsSum
  <1>4. CASE T = {}
    BY <1>2, <1>3, <1>4
  <1>5. CASE T # {}
    <2>1. Chosen(T) \in T
      BY <1>5 DEF Chosen
    <2>2. g[T \ {Chosen(T)}] = h[T \ {Chosen(T)}]
      BY <1>2, <2>1
    <2>3. QED
      BY <1>2, <1>3, <1>5, <2>2
  <1>6. QED
    BY <1>4, <1>5

\* There is such a function: a smallest set without one would get one from those
\* of its subsets.
LEMMA IterExists ==
    ASSUME NEW S, IsFiniteSet(S), NEW f
    PROVE  IsSum(Iter(f, S), f, S)
  <1> DEFINE Bad == {T \in SUBSET S : ~ \E g : IsSum(g, f, T)}
  <1>1. SUFFICES S \notin Bad
    BY DEF Iter
  <1>2. SUFFICES ASSUME NEW T \in Bad, \A U \in SUBSET T : U # T => U \notin Bad
                 PROVE  FALSE
    <2>1. IsWellFoundedOn(StrictSubsetOrdering(S), SUBSET S)
      BY SubsetsWellFounded
    <2>2. Bad \subseteq SUBSET S
      OBVIOUS
    <2> HIDE DEF Bad
    <2>3. ASSUME Bad # {} PROVE FALSE
      <3>1. PICK T \in Bad : \A U \in Bad : <<U, T>> \notin StrictSubsetOrdering(S)
        BY <2>1, <2>2, <2>3, WFMin
      <3>2. ASSUME NEW U \in SUBSET T, U # T PROVE U \notin Bad
        BY <2>2, <3>1, <3>2 DEF StrictSubsetOrdering
      <3>3. QED
        BY <1>2, <3>1, <3>2
    <2>4. QED
      BY <2>3
  <1>3. ASSUME NEW U \in SUBSET T, U # T PROVE IsSum(Iter(f, U), f, U)
    <2>1. \E g : IsSum(g, f, U)
      BY <1>2, <1>3
    <2>2. QED
      BY <2>1 DEF Iter
  <1>4. ASSUME NEW U \in SUBSET T, U # T, NEW W \in SUBSET U
        PROVE  Iter(f, U)[W] = Iter(f, W)[W]
    <2>1. IsSum(Iter(f, U), f, U) /\ IsSum(Iter(f, W), f, W)
      BY <1>3, <1>4
    <2>2. IsFiniteSet(U)
      BY FS_Subset
    <2>3. QED
      BY <2>1, <2>2, IterUnique
  <1> DEFINE sum(s) == Iter(f, s)[s]
             step(s) == IF s = {} THEN 0 ELSE f[Chosen(s)] + sum(s \ {Chosen(s)})
             g == [s \in SUBSET T |-> step(s)]
  <1>5. ASSUME NEW s \in SUBSET T, s # T PROVE sum(s) = step(s)
    <2>1. sum(s) = IF s = {} THEN 0 ELSE f[Chosen(s)] + Iter(f, s)[s \ {Chosen(s)}]
      BY <1>3, <1>5 DEF IsSum
    <2>2. Iter(f, s)[s \ {Chosen(s)}] = Iter(f, s \ {Chosen(s)})[s \ {Chosen(s)}]
      BY <1>4, <1>5
    <2>3. QED
      BY <2>1, <2>2
  <1>6. ASSUME NEW s \in SUBSET T, s # {}
        PROVE  g[s \ {Chosen(s)}] = sum(s \ {Chosen(s)})
    <2>1. s \ {Chosen(s)} \in SUBSET T /\ s \ {Chosen(s)} # T
      BY <1>6 DEF Chosen
    <2>2. g[s \ {Chosen(s)}] = step(s \ {Chosen(s)})
      BY <2>1
    <2> HIDE DEF g, step, sum
    <2>3. QED
      BY <2>1, <2>2, <1>5
  <1>7. IsSum(g, f, T)
    <2>1. ASSUME NEW s \in SUBSET T
          PROVE  step(s) = IF s = {} THEN 0 ELSE f[Chosen(s)] + g[s \ {Chosen(s)}]
      <3> HIDE DEF g, sum
      <3>1. QED
        BY <1>6
    <2>2. g = [s \in SUBSET T |-> IF s = {} THEN 0 ELSE f[Chosen(s)] + g[s \ {Chosen(s)}]]
      <3> HIDE DEF step
      <3>1. g = [s \in SUBSET T |-> step(s)]
        OBVIOUS
      <3> HIDE DEF g
      <3>2. QED
        BY <2>1, <3>1
    <2> HIDE DEF g
    <2>3. QED
      BY <2>2 DEF IsSum
  <1>8. QED
    <2> HIDE DEF g
    <2> QED
      BY <1>2, <1>7

------------------------------------------------------------------------------
\* No rows are worth nothing (the 0 that reduce starts from).
LEMMA SumEmpty == ASSUME NEW f PROVE SumOver(f, {}) = 0
  <1>1. IsSum(Iter(f, {}), f, {})
    BY IterExists, FS_EmptySet
  <1>2. Iter(f, {})[{}] = 0
    BY <1>1 DEF IsSum
  <1>3. QED
    BY <1>2, SumIsIter

\* A sum is the amount of one row, the chosen one, and the sum of the others.
LEMMA SumPick ==
    ASSUME NEW f, NEW S, IsFiniteSet(S), S # {}
    PROVE  SumOver(f, S) = f[Chosen(S)] + SumOver(f, S \ {Chosen(S)})
  <1> DEFINE R == S \ {Chosen(S)}
  <1>1. IsFiniteSet(R) /\ R \in SUBSET S
    BY FS_Subset
  <1>2. IsSum(Iter(f, S), f, S) /\ IsSum(Iter(f, R), f, R)
    BY <1>1, IterExists
  <1>3. Iter(f, R)[R] = Iter(f, S)[R]
    BY <1>1, <1>2, IterUnique
  <1>4. Iter(f, S)[S] = f[Chosen(S)] + Iter(f, S)[R]
    BY <1>2 DEF IsSum
  <1>5. QED
    BY <1>3, <1>4, SumIsIter

\* Whole amounts make a whole sum.
LEMMA SumInt ==
    ASSUME NEW f, NEW S, IsFiniteSet(S), \A i \in S : f[i] \in Int
    PROVE  SumOver(f, S) \in Int
  <1> DEFINE Bad == {T \in SUBSET S : SumOver(f, T) \notin Int}
  <1>1. SUFFICES ASSUME S \in Bad PROVE FALSE
    OBVIOUS
  <1>2. PICK T \in Bad : \A x \in T : T \ {x} \notin Bad
    <2> Bad \subseteq SUBSET S
      OBVIOUS
    <2> HIDE DEF Bad
    <2> QED
      BY <1>1, SmallestSubset
  <1>3. T # {}
    BY <1>2, SumEmpty
  <1>4. Chosen(T) \in T /\ IsFiniteSet(T)
    BY <1>2, <1>3, FS_Subset DEF Chosen
  <1>5. SumOver(f, T \ {Chosen(T)}) \in Int /\ f[Chosen(T)] \in Int
    BY <1>2, <1>4
  <1>6. QED
    BY <1>2, <1>3, <1>4, <1>5, SumPick

\* A sum is the amount of any one of its rows and the sum of the others: the
\* order of the rows does not matter.
LEMMA SumRemove ==
    ASSUME NEW f, NEW S, IsFiniteSet(S), \A i \in S : f[i] \in Int, NEW x \in S
    PROVE  SumOver(f, S) = f[x] + SumOver(f, S \ {x})
  <1> DEFINE Bad == {T \in SUBSET S : \E y \in T :
                        SumOver(f, T) # f[y] + SumOver(f, T \ {y})}
  <1>1. SUFFICES ASSUME S \in Bad PROVE FALSE
    OBVIOUS
  <1>2. PICK T \in Bad : \A y \in T : T \ {y} \notin Bad
    <2> Bad \subseteq SUBSET S
      OBVIOUS
    <2> HIDE DEF Bad
    <2> QED
      BY <1>1, SmallestSubset
  <1>3. PICK y \in T : SumOver(f, T) # f[y] + SumOver(f, T \ {y})
    BY <1>2
  <1> DEFINE p == Chosen(T)
             Q == (T \ {y}) \ {p}
  <1>4. p \in T /\ IsFiniteSet(T) /\ T \in SUBSET S
    BY <1>2, <1>3, FS_Subset DEF Chosen
  <1>5. SumOver(f, T) = f[p] + SumOver(f, T \ {p})
    BY <1>3, <1>4, SumPick
  <1>6. y # p
    BY <1>3, <1>5
  <1>7. SumOver(f, T \ {p}) = f[y] + SumOver(f, Q)
    <2>1. y \in T \ {p} /\ (T \ {p}) \ {y} = Q
      BY <1>3, <1>6
    <2>2. T \ {p} \notin Bad /\ T \ {p} \in SUBSET S
      BY <1>2, <1>4
    <2> HIDE DEF p, Q
    <2>3. QED
      BY <2>1, <2>2
  <1>8. SumOver(f, T \ {y}) = f[p] + SumOver(f, Q)
    <2>1. p \in T \ {y} /\ T \ {y} \in SUBSET S
      BY <1>4, <1>6
    <2>2. T \ {y} \notin Bad
      BY <1>2, <1>3
    <2> HIDE DEF p
    <2>3. QED
      BY <2>1, <2>2
  <1>9. SumOver(f, Q) \in Int /\ f[p] \in Int /\ f[y] \in Int
    <2>1. IsFiniteSet(Q) /\ Q \in SUBSET S
      BY <1>4, FS_Subset
    <2> HIDE DEF Q, p
    <2>2. QED
      BY <2>1, <1>3, <1>4, SumInt
  <1> HIDE DEF p, Q, Bad
  <1>10. QED
    BY <1>3, <1>5, <1>7, <1>8, <1>9

\* One row more adds its amount.
LEMMA SumAdd ==
    ASSUME NEW f, NEW S, IsFiniteSet(S), NEW x, x \notin S,
           \A i \in S \cup {x} : f[i] \in Int
    PROVE  SumOver(f, S \cup {x}) = f[x] + SumOver(f, S)
  <1>1. IsFiniteSet(S \cup {x}) /\ (S \cup {x}) \ {x} = S
    BY FS_AddElement
  <1>2. QED
    BY <1>1, SumRemove

\* Amounts that are not negative have a sum that is not.
LEMMA SumNat ==
    ASSUME NEW f, NEW S, IsFiniteSet(S), \A i \in S : f[i] \in Nat
    PROVE  SumOver(f, S) \in Nat
  <1> DEFINE Good == {T \in SUBSET S : SumOver(f, T) \in Nat}
  <1>1. {} \in Good
    BY SumEmpty
  <1>2. ASSUME NEW T \in SUBSET S, NEW x \in S \ T, T \in Good
        PROVE  T \cup {x} \in Good
    <2>1. IsFiniteSet(T)
      BY FS_Subset
    <2>2. SumOver(f, T \cup {x}) = f[x] + SumOver(f, T)
      BY <1>2, <2>1, SumAdd
    <2>3. QED
      BY <1>2, <2>2
  <1>3. S \in Good
    <2> HIDE DEF Good
    <2> QED
      BY <1>1, <1>2, SetInduction
  <1>4. QED
    BY <1>3

\* Amounts none of which is larger have a sum that is not larger.
LEMMA SumMonotone ==
    ASSUME NEW S, IsFiniteSet(S), NEW f, NEW g,
           \A i \in S : f[i] \in Int /\ g[i] \in Int /\ f[i] <= g[i]
    PROVE  SumOver(f, S) <= SumOver(g, S)
  <1> DEFINE Good == {T \in SUBSET S : SumOver(f, T) <= SumOver(g, T)}
  <1>1. {} \in Good
    BY SumEmpty
  <1>2. ASSUME NEW T \in SUBSET S, NEW x \in S \ T, T \in Good
        PROVE  T \cup {x} \in Good
    <2>1. IsFiniteSet(T)
      BY FS_Subset
    <2>2. /\ SumOver(f, T \cup {x}) = f[x] + SumOver(f, T)
          /\ SumOver(g, T \cup {x}) = g[x] + SumOver(g, T)
      BY <1>2, <2>1, SumAdd
    <2>3. SumOver(f, T) \in Int /\ SumOver(g, T) \in Int
      BY <2>1, SumInt
    <2>4. QED
      BY <1>2, <2>2, <2>3
  <1>3. S \in Good
    <2> HIDE DEF Good
    <2> QED
      BY <1>1, <1>2, SetInduction
  <1>4. QED
    BY <1>3

\* Equal amounts make equal sums.
LEMMA SumEqual ==
    ASSUME NEW S, IsFiniteSet(S), NEW f, NEW g,
           \A i \in S : f[i] \in Int /\ f[i] = g[i]
    PROVE  SumOver(f, S) = SumOver(g, S)
  <1>1. SumOver(f, S) \in Int /\ SumOver(g, S) \in Int
    BY SumInt
  <1>2. SumOver(f, S) <= SumOver(g, S) /\ SumOver(g, S) <= SumOver(f, S)
    BY SumMonotone
  <1>3. QED
    BY <1>1, <1>2

\* Amounts added row by row add up to the two sums.
LEMMA SumPlus ==
    ASSUME NEW S, IsFiniteSet(S), NEW f, NEW g, NEW h,
           \A i \in S : f[i] \in Int /\ g[i] \in Int /\ h[i] = f[i] + g[i]
    PROVE  SumOver(h, S) = SumOver(f, S) + SumOver(g, S)
  <1> DEFINE Good == {T \in SUBSET S : SumOver(h, T) = SumOver(f, T) + SumOver(g, T)}
  <1>1. {} \in Good
    BY SumEmpty
  <1>2. ASSUME NEW T \in SUBSET S, NEW x \in S \ T, T \in Good
        PROVE  T \cup {x} \in Good
    <2>1. IsFiniteSet(T)
      BY FS_Subset
    <2>2. /\ SumOver(f, T \cup {x}) = f[x] + SumOver(f, T)
          /\ SumOver(g, T \cup {x}) = g[x] + SumOver(g, T)
          /\ SumOver(h, T \cup {x}) = h[x] + SumOver(h, T)
      BY <1>2, <2>1, SumAdd
    <2>3. SumOver(f, T) \in Int /\ SumOver(g, T) \in Int
      BY <2>1, SumInt
    <2>4. QED
      BY <1>2, <2>2, <2>3
  <1>3. S \in Good
    <2> HIDE DEF Good
    <2> QED
      BY <1>1, <1>2, SetInduction
  <1>4. QED
    BY <1>3

\* Rows counted in two parts that share none count once.
LEMMA SumDisjoint ==
    ASSUME NEW f, NEW S, NEW R, IsFiniteSet(S), IsFiniteSet(R), S \cap R = {},
           \A i \in S \cup R : f[i] \in Int
    PROVE  SumOver(f, S \cup R) = SumOver(f, S) + SumOver(f, R)
  <1> DEFINE Good == {T \in SUBSET S : SumOver(f, T \cup R) = SumOver(f, T) + SumOver(f, R)}
  <1>1. {} \in Good
    BY SumEmpty, SumInt
  <1>2. ASSUME NEW T \in SUBSET S, NEW x \in S \ T, T \in Good
        PROVE  T \cup {x} \in Good
    <2>1. IsFiniteSet(T) /\ IsFiniteSet(T \cup R)
      BY FS_Subset, FS_Union
    <2>2. (T \cup {x}) \cup R = (T \cup R) \cup {x} /\ x \notin T \cup R
      BY <1>2
    <2>3. /\ SumOver(f, T \cup {x}) = f[x] + SumOver(f, T)
          /\ SumOver(f, (T \cup R) \cup {x}) = f[x] + SumOver(f, T \cup R)
      BY <1>2, <2>1, <2>2, SumAdd
    <2>4. SumOver(f, T) \in Int /\ f[x] \in Int
      BY <2>1, SumInt
    <2>5. SumOver(f, R) \in Int
      BY SumInt
    <2>6. SumOver(f, (T \cup {x}) \cup R) = SumOver(f, T \cup {x}) + SumOver(f, R)
      <3>1. SumOver(f, T \cup R) = SumOver(f, T) + SumOver(f, R)
        BY <1>2
      <3>2. SumOver(f, (T \cup {x}) \cup R) = SumOver(f, (T \cup R) \cup {x})
        BY <2>2, Zenon
      <3>3. QED
        BY <2>3, <2>4, <2>5, <3>1, <3>2
    <2>7. QED
      BY <2>6
  <1>3. S \in Good
    <2> HIDE DEF Good
    <2> QED
      BY <1>1, <1>2, SetInduction
  <1>4. QED
    BY <1>3

\* Leaving out rows that are not negative does not raise a sum.
LEMMA SumSubset ==
    ASSUME NEW f, NEW S, IsFiniteSet(S), NEW R \in SUBSET S,
           \A i \in R : f[i] \in Int, \A i \in S \ R : f[i] \in Nat
    PROVE  SumOver(f, R) <= SumOver(f, S)
  <1>1. IsFiniteSet(R) /\ IsFiniteSet(S \ R) /\ R \cup (S \ R) = S
    BY FS_Subset
  <1>2. R \cap (S \ R) = {} /\ \A i \in R \cup (S \ R) : f[i] \in Int
    OBVIOUS
  <1>3. SumOver(f, S) = SumOver(f, R) + SumOver(f, S \ R)
    BY <1>1, <1>2, SumDisjoint
  <1>4. SumOver(f, R) \in Int /\ SumOver(f, S \ R) \in Nat
    BY <1>1, SumInt, SumNat
  <1>5. QED
    BY <1>3, <1>4
\* Amounts added up class by class, over some classes, are the amounts of those
\* classes added up.
LEMMA SumByClass ==
    ASSUME NEW f, NEW S, IsFiniteSet(S), \A i \in S : f[i] \in Int,
           NEW class, NEW C, IsFiniteSet(C),
           NEW g, \A c \in C : g[c] = SumOver(f, {i \in S : class[i] = c})
    PROVE  SumOver(g, C) = SumOver(f, {i \in S : class[i] \in C})
  <1> DEFINE In(T) == {i \in S : class[i] \in T}
             Good == {T \in SUBSET C : SumOver(g, T) = SumOver(f, In(T))}
  <1>1. {} \in Good
    <2>1. In({}) = {}
      OBVIOUS
    <2>2. QED
      BY <2>1, SumEmpty
  <1>2. ASSUME NEW T \in SUBSET C, NEW x \in C \ T, T \in Good
        PROVE  T \cup {x} \in Good
    <2> DEFINE own == {i \in S : class[i] = x}
    <2>1. IsFiniteSet(T) /\ IsFiniteSet(own) /\ IsFiniteSet(In(T))
      BY FS_Subset
    <2>2. In(T \cup {x}) = own \cup In(T) /\ own \cap In(T) = {}
      OBVIOUS
    <2>3. \A i \in own \cup In(T) : f[i] \in Int
      OBVIOUS
    <2>4. \A c \in C : g[c] \in Int
      <3>1. ASSUME NEW c \in C PROVE SumOver(f, {i \in S : class[i] = c}) \in Int
        <4>1. IsFiniteSet({i \in S : class[i] = c})
          BY FS_Subset
        <4>2. QED
          BY <4>1, SumInt
      <3>2. QED
        BY <3>1
    <2>5. SumOver(g, T \cup {x}) = g[x] + SumOver(g, T)
      BY <2>1, <2>4, SumAdd
    <2>6. g[x] = SumOver(f, own) /\ SumOver(g, T) = SumOver(f, In(T))
      BY <1>2
    <2> HIDE DEF In, own
    <2>7. SumOver(f, own \cup In(T)) = SumOver(f, own) + SumOver(f, In(T))
      BY <2>1, <2>2, <2>3, SumDisjoint
    <2>8. SumOver(g, T \cup {x}) = SumOver(f, In(T \cup {x}))
      BY <2>2, <2>5, <2>6, <2>7
    <2>9. QED
      BY <2>8
  <1>3. C \in Good
    <2> HIDE DEF Good
    <2> QED
      BY <1>1, <1>2, SetInduction
  <1>4. QED
    BY <1>3

\* One amount grows: so does every sum it is part of, and no other.
LEMMA SumChanged ==
    ASSUME NEW f, NEW g, NEW S, IsFiniteSet(S), NEW x, NEW more \in Int,
           \A i \in S : f[i] \in Int, \A i \in S \ {x} : g[i] = f[i],
           x \in S => g[x] = f[x] + more
    PROVE  /\ x \in S => SumOver(g, S) = SumOver(f, S) + more
           /\ x \notin S => SumOver(g, S) = SumOver(f, S)
  <1>0. \A i \in S : g[i] \in Int
    <2>1. ASSUME NEW i \in S, i = x PROVE g[i] \in Int
      BY <2>1
    <2>2. QED
      BY <2>1
  <1>1. CASE x \notin S
    <2>1. \A i \in S : f[i] \in Int /\ f[i] = g[i]
      BY <1>1
    <2>2. QED
      BY <1>1, <2>1, SumEqual
  <1>2. CASE x \in S
    <2>1. /\ SumOver(f, S) = f[x] + SumOver(f, S \ {x})
          /\ SumOver(g, S) = g[x] + SumOver(g, S \ {x})
      BY <1>0, <1>2, SumRemove
    <2>2. IsFiniteSet(S \ {x}) /\ \A i \in S \ {x} : f[i] \in Int /\ f[i] = g[i]
      BY FS_Subset
    <2>3. SumOver(f, S \ {x}) = SumOver(g, S \ {x}) /\ SumOver(f, S \ {x}) \in Int
      BY <2>2, SumEqual, SumInt
    <2>4. g[x] = f[x] + more /\ f[x] \in Int
      BY <1>2
    <2>5. QED
      BY <1>2, <2>1, <2>3, <2>4
  <1>3. QED
    BY <1>1, <1>2

\* A factor common to all amounts is a factor of the sum.
LEMMA SumScaled ==
    ASSUME NEW S, IsFiniteSet(S), NEW c \in Int, NEW f, NEW g,
           \A i \in S : f[i] \in Int /\ g[i] = f[i] * c
    PROVE  SumOver(g, S) = SumOver(f, S) * c
  <1> DEFINE Good == {T \in SUBSET S : SumOver(g, T) = SumOver(f, T) * c}
  <1>1. {} \in Good
    BY SumEmpty
  <1>2. ASSUME NEW T \in SUBSET S, NEW x \in S \ T, T \in Good
        PROVE  T \cup {x} \in Good
    <2>1. IsFiniteSet(T)
      BY FS_Subset
    <2>2. \A i \in T \cup {x} : f[i] \in Int /\ g[i] \in Int
      OBVIOUS
    <2>3. /\ SumOver(f, T \cup {x}) = f[x] + SumOver(f, T)
          /\ SumOver(g, T \cup {x}) = g[x] + SumOver(g, T)
      BY <2>1, <2>2, SumAdd
    <2>4. PICK s \in Int : s = SumOver(f, T)
      BY <2>1, <2>2, SumInt
    <2>5. SumOver(g, T) = s * c /\ g[x] = f[x] * c /\ f[x] \in Int
      BY <1>2, <2>4
    <2>6. f[x] * c + s * c = (f[x] + s) * c
      BY <2>5
    <2>7. QED
      BY <2>3, <2>4, <2>5, <2>6
  <1> HIDE DEF Good
  <1>3. S \in Good
    BY <1>1, <1>2, SetInduction
  <1>4. QED
    BY <1>3 DEF Good
------------------------------------------------------------------------------
(* Places *)

\* The n-th of some numbers exists, is the only one of its place, and each has one.
LEMMA NthExact ==
    ASSUME NEW S, IsFiniteSet(S), S \subseteq Int
    PROVE  /\ Cardinality(S) \in Nat
           /\ \A n \in 1..Cardinality(S) : Nth(S, n) \in S
           /\ S = {Nth(S, n) : n \in 1..Cardinality(S)}
  <1> DEFINE upTo(i) == {j \in S : j <= i}
             rank == [i \in S |-> Cardinality(upTo(i))]
             C == Cardinality(S)
  <1>1. IsFiniteSet(S) /\ C \in Nat
    BY FS_CardinalityType
  <1>2. S \subseteq Int
    OBVIOUS
  <1>3. ASSUME NEW i \in S
        PROVE  /\ upTo(i) \in SUBSET S /\ i \in upTo(i) /\ IsFiniteSet(upTo(i))
               /\ rank[i] \in 1..C
    <2>1. upTo(i) \in SUBSET S /\ i \in upTo(i)
      BY <1>2, <1>3
    <2> HIDE DEF upTo
    <2>2. /\ IsFiniteSet(upTo(i)) /\ Cardinality(upTo(i)) <= C
          /\ Cardinality(upTo(i)) \in Nat
      BY <1>1, <2>1, FS_Subset, FS_CardinalityType
    <2>3. Cardinality(upTo(i)) # 0
      BY <2>1, <2>2, FS_EmptySet
    <2>4. rank[i] = Cardinality(upTo(i))
      BY <1>3
    <2> HIDE DEF rank, C
    <2>5. QED
      BY <1>1, <2>1, <2>2, <2>3, <2>4
  <1>4. ASSUME NEW i \in S, NEW k \in S, i < k PROVE rank[i] # rank[k]
    <2>0. i \in Int /\ k \in Int
      BY <1>2
    <2>1. /\ \A j \in S : j <= i => j <= k
          /\ ~(k <= i) /\ k <= k
      BY <1>2, <1>4, <2>0
    <2>2. /\ upTo(i) \in SUBSET upTo(k) /\ k \notin upTo(i) /\ k \in upTo(k)
          /\ IsFiniteSet(upTo(k))
      BY <1>3, <2>1
    <2> HIDE DEF upTo
    <2>3. Cardinality(upTo(i)) # Cardinality(upTo(k))
      BY <2>2, FS_Subset
    <2>4. QED
      BY <2>3
  <1>5. rank \in Injection(S, 1..C)
    <2>1. rank \in [S -> 1..C]
      BY <1>3
    <2>2. ASSUME NEW i \in S, NEW k \in S, rank[i] = rank[k] PROVE i = k
      <3>1. ~(i < k) /\ ~(k < i)
        BY <1>4, <2>2
      <3>2. QED
        BY <1>2, <3>1
    <2> HIDE DEF rank, upTo
    <2>3. QED
      BY <2>1, <2>2 DEF Injection, IsInjective
  <1>6. rank \in Surjection(S, 1..C)
    <2>1. IsFiniteSet(1..C) /\ Cardinality(1..C) = C
      BY <1>1, FS_Interval
    <2> HIDE DEF rank, upTo
    <2>2. QED
      BY <1>5, <2>1, FS_Injection
  <1>7. ASSUME NEW n \in 1..C
        PROVE  Nth(S, n) \in S /\ rank[Nth(S, n)] = n
    <2>1. \E i \in S : rank[i] = n
      <3> HIDE DEF rank, C
      <3> QED
        BY <1>6, <1>7 DEF Surjection
    <2>2. \E i \in S : Cardinality({j \in S : j <= i}) = n
      BY <2>1
    <2>3. Nth(S, n) \in S /\ Cardinality({j \in S : j <= Nth(S, n)}) = n
      BY <2>2 DEF Nth
    <2>4. QED
      BY <2>3
  <1>8. ASSUME NEW i \in S PROVE \E n \in 1..C : Nth(S, n) = i
    <2>1. rank[i] \in 1..C
      BY <1>3, <1>8
    <2>2. Nth(S, rank[i]) \in S /\ rank[Nth(S, rank[i])] = rank[i]
      <3> HIDE DEF rank, C
      <3> QED
        BY <1>7, <2>1
    <2> HIDE DEF rank, C
    <2>3. Nth(S, rank[i]) = i
      BY <1>5, <2>2 DEF Injection, IsInjective
    <2>4. QED
      BY <2>1, <2>3
  <1> HIDE DEF rank, upTo
  <1>9. QED
    BY <1>1, <1>7, <1>8
------------------------------------------------------------------------------
(* Quotients *)

\* What a quotient of integers is.
LEMMA Quotient ==
    ASSUME NEW a \in Int, NEW b \in Nat \ {0}
    PROVE  /\ a \div b \in Int /\ b * (a \div b) <= a /\ a < b * (a \div b) + b
           /\ a % b \in Int /\ a = b * (a \div b) + (a % b)
OBVIOUS

\* A larger factor makes a larger product.
LEMMA Product ==
    ASSUME NEW a \in Int, NEW b \in Int, NEW c \in Nat, a <= b
    PROVE  c * a \in Int /\ c * b \in Int /\ c * a <= c * b
OBVIOUS

\* A positive factor can be taken out of a comparison.
LEMMA Divide ==
    ASSUME NEW a \in Int, NEW b \in Int, NEW c \in Nat \ {0}, c * a < c * b
    PROVE  a < b
<1>1. b <= a => c * b <= c * a
    BY Product
<1>. QED
    BY <1>1

\* Math.round is half a unit off at most.
LEMMA RoundIsNear ==
    ASSUME NEW num \in Int, NEW den \in Nat \ {0}
    PROVE  /\ Round(num, den) \in Int
           /\ den * (2 * Round(num, den)) <= 2 * num + den
           /\ 2 * num + den < den * (2 * (Round(num, den) + 1))
<1>1. PICK a \in Int, b \in Nat \ {0} : a = 2 * num + den /\ b = 2 * den
    OBVIOUS
<1>2. PICK q \in Int : q = a \div b /\ b * q <= a /\ a < b * q + b
    BY Quotient
<1>3. Round(num, den) = q
    BY <1>1, <1>2 DEF Round
<1>4. b * q = den * (2 * q) /\ b * q + b = den * (2 * (q + 1))
    BY <1>1
<1>. QED
    BY <1>1, <1>2, <1>3, <1>4

\* Math.round keeps the order of two quotients.
LEMMA RoundMonotone ==
    ASSUME NEW m \in Int, NEW d \in Nat \ {0}, NEW n \in Int, NEW e \in Nat \ {0}, m * e <= n * d
    PROVE  Round(m, d) <= Round(n, e)
<1>1. PICK p \in Int, q \in Int :
          /\ p = Round(m, d) /\ d * (2 * p) <= 2 * m + d
          /\ q = Round(n, e) /\ 2 * n + e < e * (2 * (q + 1))
    BY RoundIsNear
<1>2. e * (d * (2 * p)) <= e * (2 * m + d)
    BY <1>1, Product
<1>3. e * (2 * m + d) = 2 * (m * e) + e * d /\ d * (2 * n + e) = 2 * (n * d) + e * d
    OBVIOUS
<1>4. e * (2 * m + d) <= d * (2 * n + e)
    BY <1>3
<1>5. d * (2 * n + e) < d * (e * (2 * (q + 1)))
    <2>1. 2 * n + e + 1 <= e * (2 * (q + 1))
        BY <1>1
    <2>2. d * (2 * n + e + 1) <= d * (e * (2 * (q + 1)))
        BY <2>1, Product
    <2>. QED
        BY <2>2
<1>6. e * d \in Nat \ {0}
    OBVIOUS
<1>7. e * (d * (2 * p)) = (e * d) * (2 * p) /\ d * (e * (2 * (q + 1))) = (e * d) * (2 * (q + 1))
    OBVIOUS
<1>8. (e * d) * (2 * p) < (e * d) * (2 * (q + 1))
    BY <1>2, <1>4, <1>5, <1>7
<1>9. 2 * p < 2 * (q + 1)
    BY <1>6, <1>8, Divide
<1>. QED
    BY <1>1, <1>9

\* A whole quotient is not changed by rounding.
LEMMA RoundWhole ==
    ASSUME NEW k \in Int, NEW d \in Nat \ {0}
    PROVE  Round(d * k, d) = k
<1>0. PICK m \in Int : m = d * k
    OBVIOUS
<1>1. PICK r \in Int : /\ r = Round(d * k, d)
                       /\ d * (2 * r) <= 2 * (d * k) + d
                       /\ 2 * (d * k) + d < d * (2 * (r + 1))
    BY <1>0, RoundIsNear
<1>2. d * (2 * k + 1) = 2 * (d * k) + d
    OBVIOUS
<1>3. ASSUME 2 * k + 2 <= 2 * r PROVE FALSE
    <2>1. d * (2 * k + 2) <= d * (2 * r)
        BY <1>3, Product
    <2>2. d * (2 * k + 2) = d * (2 * k + 1) + d
        OBVIOUS
    <2>. QED
        BY <1>1, <1>2, <2>1, <2>2
<1>4. 2 * k + 1 < 2 * (r + 1)
    BY <1>1, <1>2, Divide
<1>. QED
    BY <1>1, <1>3, <1>4

\* What clamp returns is a whole number of 0..100.
LEMMA ScoresInRange ==
    ASSUME NEW num \in Int, NEW den \in Nat \ {0}
    PROVE  Clamp(num, den) \in 0..100
<1>1. Round(num, den) \in Int
    BY RoundIsNear
<1>. QED
    BY <1>1 DEF Clamp, Larger, Smaller

\* The cut to 0..100 keeps the order, too.
LEMMA ClampMonotone ==
    ASSUME NEW m \in Int, NEW d \in Nat \ {0}, NEW n \in Int, NEW e \in Nat \ {0}, m * e <= n * d
    PROVE  Clamp(m, d) <= Clamp(n, e)
<1>1. Round(m, d) \in Int /\ Round(n, e) \in Int /\ Round(m, d) <= Round(n, e)
    BY RoundIsNear, RoundMonotone
<1>. QED
    BY <1>1 DEF Clamp, Larger, Smaller

\* What is at least k hundredths of a whole scores k at least.
LEMMA ScoreAtLeast ==
    ASSUME NEW num \in Int, NEW den \in Nat \ {0}, NEW k \in 0..100, den * k <= num
    PROVE  Clamp(num, den) >= k
<1>1. (den * k) * den <= num * den
    <2>1. den * (den * k) <= den * num
        BY Product
    <2>2. (den * k) * den = den * (den * k) /\ num * den = den * num
        OBVIOUS
    <2>. QED
        BY <2>1, <2>2
<1>2. Round(den * k, den) <= Round(num, den) /\ Round(den * k, den) = k
    <2>1. PICK m \in Int : m = den * k /\ m * den <= num * den
        BY <1>1
    <2>2. Round(m, den) <= Round(num, den)
        BY <2>1, RoundMonotone
    <2>3. Round(m, den) = k
        BY <2>1, RoundWhole
    <2>. QED
        BY <2>1, <2>2, <2>3
<1>3. Round(num, den) \in Int
    BY RoundIsNear
<1>. QED
    BY <1>2, <1>3 DEF Clamp, Larger, Smaller

\* Factors that are positive have a positive product.
LEMMA ProductPositive == \A a, b \in Nat \ {0} : a * b \in Nat \ {0}
  OBVIOUS

\* A common factor that is not zero can be taken out of an equation.
LEMMA Cancel ==
    ASSUME NEW a \in Int, NEW b \in Int, NEW c \in Nat \ {0}, c * a = c * b
    PROVE  a = b
  <1>1. ~(a < b) /\ ~(b < a)
    <2>1. \A x, y \in Int : x < y => c * x < c * y
      <3>1. ASSUME NEW x \in Int, NEW y \in Int, x < y PROVE c * x < c * y
        <4>1. c * (x + 1) <= c * y
          BY <3>1, Product
        <4>2. c * (x + 1) = c * x + c /\ c * x \in Int /\ c * y \in Int
          OBVIOUS
        <4>3. QED
          BY <4>1, <4>2
      <3>2. QED
        BY <3>1
    <2>2. c * a \in Int /\ c * b \in Int
      OBVIOUS
    <2>3. QED
      BY <2>1, <2>2
  <1>2. QED
    BY <1>1

\* A positive factor can be taken out of a comparison that is not strict.
LEMMA DivideWeak ==
    ASSUME NEW a \in Int, NEW b \in Int, NEW c \in Nat \ {0}, c * a <= c * b
    PROVE  a <= b
  <1>1. b < a => c * (b + 1) <= c * a
    BY Product
  <1>2. c * (b + 1) = c * b + c /\ c * a \in Int /\ c * b \in Int
    OBVIOUS
  <1>3. QED
    BY <1>1, <1>2

\* Equal products of factors that are not negative have equal signs and sizes.
LEMMA EqualSizes ==
    ASSUME NEW a \in Nat, NEW b \in Nat \ {0}, NEW x \in Int, NEW y \in Int,
           a * x = b * y
    PROVE  a * Magnitude(x) = b * Magnitude(y)
  <1>1. CASE x >= 0
    <2>1. y >= 0
      <3>1. a * x \in Nat
        BY <1>1
      <3>2. y < 0 => b * y < 0
        <4>1. \A c \in Nat \ {0} : b * c \in Nat \ {0}
          BY ProductPositive
        <4>2. b * y = -(b * (-y))
          OBVIOUS
        <4>3. y < 0 => -y \in Nat \ {0}
          OBVIOUS
        <4>4. QED
          BY <4>1, <4>2, <4>3
      <3>3. QED
        BY <3>1, <3>2
    <2>2. QED
      BY <1>1, <2>1 DEF Magnitude
  <1>2. CASE x < 0
    <2>1. y <= 0
      <3>1. a * x <= 0
        <4>1. a * (-x) \in Nat /\ a * x = -(a * (-x))
          <5>1. -x \in Nat
            BY <1>2
          <5>2. \A c, d \in Nat : c * d \in Nat
            OBVIOUS
          <5>3. a * x = -(a * (-x))
            OBVIOUS
          <5>4. QED
            BY <5>1, <5>2, <5>3
        <4>2. QED
          BY <4>1
      <3>2. y > 0 => b * y > 0
        BY ProductPositive
      <3>3. QED
        BY <3>1, <3>2
    <2>2. Magnitude(x) = -x /\ Magnitude(y) = -y
      BY <1>2, <2>1 DEF Magnitude
    <2>3. a * (-x) = b * (-y)
      <3>1. a * (-x) = -(a * x) /\ b * (-y) = -(b * y)
        OBVIOUS
      <3>2. QED
        BY <3>1
    <2>4. QED
      BY <2>2, <2>3
  <1>3. QED
    BY <1>1, <1>2

\* A size that is bounded scales with the factor.
LEMMA ScaledBounds ==
    ASSUME NEW x \in Int, NEW b \in Nat, NEW c \in Nat, -b <= x, x <= b
    PROVE  c * x \in Int /\ c * b \in Nat /\ -(c * b) <= c * x /\ c * x <= c * b
  <1>1. c * x <= c * b /\ c * (-b) <= c * x
    BY Product
  <1>2. c * (-b) = -(c * b) /\ c * x \in Int
    OBVIOUS
  <1>3. c * b \in Nat
    <2>1. \A s, t \in Nat : s * t \in Nat
      OBVIOUS
    <2>2. QED
      BY <2>1
  <1>4. QED
    BY <1>1, <1>2, <1>3

\* What rounding is off by, without a quotient.
LEMMA RoundingError ==
    ASSUME NEW num \in Int, NEW den \in Nat \ {0}
    PROVE  /\ Round(num, den) \in Int
           /\ -den <= den * (2 * Round(num, den)) - 2 * num
           /\ den * (2 * Round(num, den)) - 2 * num <= den
  <1>1. PICK r \in Int : /\ r = Round(num, den)
                         /\ den * (2 * r) <= 2 * num + den
                         /\ 2 * num + den < den * (2 * (r + 1))
    BY RoundIsNear
  <1>2. den * (2 * (r + 1)) = den * (2 * r) + 2 * den /\ den * (2 * r) \in Int
    OBVIOUS
  <1>3. QED
    BY <1>1, <1>2
------------------------------------------------------------------------------
(* Powers *)

\* Where some number is bad, one is the smallest.
LEMMA SmallestNumber ==
    ASSUME NEW Bad \in SUBSET Nat, Bad # {}
    PROVE  \E n \in Bad : \A k \in Bad : n <= k
  <1>1. PICK n \in Bad : \A k \in Bad : <<k, n>> \notin OpToRel(<, Nat)
    BY NatLessThanWellFounded, WFMin
  <1>2. ASSUME NEW k \in Bad PROVE n <= k
    <2>1. ~(k < n)
      BY <1>1 DEF OpToRel
    <2>2. QED
      BY <2>1
  <1>3. QED
    BY <1>2

(* Numbers one after the other *)

\* What holds of 0 and passes from each number to the next holds up to n.
LEMMA CountingUp ==
    ASSUME NEW n \in Nat, NEW S, 0 \in S, \A m \in 0..(n - 1) : m \in S => m + 1 \in S
    PROVE  \A m \in 0..n : m \in S
  <1> DEFINE Bad == {m \in 0..n : m \notin S}
  <1>1. SUFFICES ASSUME Bad # {} PROVE FALSE
    OBVIOUS
  <1>2. PICK m \in Bad : \A k \in Bad : m <= k
    <2>1. Bad \in SUBSET Nat
      OBVIOUS
    <2> HIDE DEF Bad
    <2>2. QED
      BY <1>1, <2>1, SmallestNumber
  <1>3. m # 0 /\ m - 1 \in 0..(n - 1) /\ m - 1 \in 0..n /\ ~(m <= m - 1)
    BY <1>2
  <1>4. m - 1 \in S
    BY <1>2, <1>3
  <1>5. QED
    BY <1>2, <1>3, <1>4

\* An entry of the table of powers that Power looks its result up in, and the table.
PowerEntry(p, base, k) ==
    IF k = 0 THEN 1
    ELSE LET root == p[k \div 2]
         IN  IF k % 2 = 0 THEN root * root ELSE base * (root * root)
IsPowers(p, base, n) == p = [k \in 0..n |-> PowerEntry(p, base, k)]
Powers(base, n) == CHOOSE p : IsPowers(p, base, n)

\* A power is the last entry of that table.
LEMMA PowerIsEntry == ASSUME NEW base, NEW n PROVE Power(base, n) = Powers(base, n)[n]
  BY DEF Power, Powers, IsPowers, PowerEntry

\* Half of a positive number is smaller.
LEMMA Half == ASSUME NEW k \in Nat \ {0} PROVE k \div 2 \in 0..(k - 1)
  OBVIOUS

\* There is such a table: the smallest exponent without one would get one from
\* the table of the exponent before it.
LEMMA PowersExist ==
    ASSUME NEW base, NEW n \in Nat
    PROVE  IsPowers(Powers(base, n), base, n)
  <1> DEFINE Bad == {m \in Nat : ~ \E p : IsPowers(p, base, m)}
  <1>1. SUFFICES n \notin Bad
    BY DEF Powers
  <1>2. SUFFICES ASSUME Bad # {} PROVE FALSE
    OBVIOUS
  <1>3. PICK m \in Bad : \A k \in Bad : m <= k
    <2> HIDE DEF Bad
    <2>1. Bad \in SUBSET Nat
      BY DEF Bad
    <2>2. QED
      BY <1>2, <2>1, SmallestNumber
  <1>4. CASE m = 0
    <2> DEFINE p == [k \in 0..0 |-> 1]
    <2>1. p = [k \in 0..m |-> PowerEntry(p, base, k)]
      BY <1>4 DEF PowerEntry
    <2> HIDE DEF p
    <2>2. QED
      BY <1>3, <2>1 DEF IsPowers
  <1>5. CASE m # 0
    <2>1. m - 1 \in Nat /\ m - 1 \notin Bad
      BY <1>3, <1>5
    <2>2. PICK p : IsPowers(p, base, m - 1)
      BY <2>1
    <2> DEFINE q == [k \in 0..m |-> IF k < m THEN p[k] ELSE PowerEntry(p, base, m)]
    <2>3. \A k \in 0..(m - 1) : q[k] = p[k] /\ p[k] = PowerEntry(p, base, k)
      <3>1. ASSUME NEW k \in 0..(m - 1) PROVE q[k] = p[k]
        BY <2>1
      <3>2. \A k \in 0..(m - 1) : p[k] = PowerEntry(p, base, k)
        <4>1. p = [k \in 0..(m - 1) |-> PowerEntry(p, base, k)]
          BY <2>2 DEF IsPowers
        <4>2. QED
          BY <4>1, Zenon
      <3>3. QED
        BY <3>1, <3>2
    <2>4. ASSUME NEW k \in 0..m PROVE PowerEntry(q, base, k) = PowerEntry(p, base, k)
      <3>1. CASE k = 0
        BY <3>1 DEF PowerEntry
      <3>2. CASE k # 0
        <4>1. k \div 2 \in 0..(m - 1)
          <5>1. k \div 2 \in 0..(k - 1) /\ k <= m /\ k \in Nat
            BY <3>2, Half
          <5>2. QED
            BY <5>1
        <4>2. q[k \div 2] = p[k \div 2]
          BY <2>3, <4>1
        <4> HIDE DEF q
        <4>3. QED
          BY <4>2, Zenon DEF PowerEntry
      <3>3. QED
        BY <3>1, <3>2
    <2>5. ASSUME NEW k \in 0..m PROVE q[k] = PowerEntry(q, base, k)
      <3>1. CASE k < m
        <4>1. k \in 0..(m - 1)
          BY <3>1
        <4> HIDE DEF q
        <4>2. QED
          BY <2>3, <2>4, <4>1
      <3>2. CASE ~(k < m)
        <4>1. k = m
          BY <3>2
        <4>2. q[m] = PowerEntry(p, base, m)
          OBVIOUS
        <4> HIDE DEF q
        <4>3. QED
          BY <2>4, <4>1, <4>2
      <3>3. QED
        BY <3>1, <3>2
    <2>6. q = [k \in 0..m |-> q[k]]
      OBVIOUS
    <2> HIDE DEF q
    <2>7. q = [k \in 0..m |-> PowerEntry(q, base, k)]
      BY <2>5, <2>6
    <2>8. QED
      BY <1>3, <2>7 DEF IsPowers
  <1>6. QED
    BY <1>4, <1>5

\* A power of a whole number is whole, of a positive one positive.
LEMMA PowerType ==
    ASSUME NEW base \in Int, NEW n \in Nat
    PROVE  /\ Power(base, n) \in Int
           /\ base > 0 => Power(base, n) > 0
  <1> DEFINE p == Powers(base, n)
             Good(k) == p[k] \in Int /\ (base > 0 => p[k] > 0)
             Bad == {k \in 0..n : ~Good(k)}
  <1>1. \A k \in 0..n : p[k] = PowerEntry(p, base, k)
    <2>1. p = [k \in 0..n |-> PowerEntry(p, base, k)]
      BY PowersExist DEF IsPowers
    <2> HIDE DEF p
    <2>2. QED
      BY <2>1
  <1> HIDE DEF p
  <1>2. SUFFICES n \notin Bad
    BY PowerIsEntry DEF p
  <1>3. SUFFICES ASSUME Bad # {} PROVE FALSE
    OBVIOUS
  <1>4. PICK k \in Bad : \A j \in Bad : k <= j
    <2>1. Bad \in SUBSET Nat
      OBVIOUS
    <2> HIDE DEF Bad
    <2>2. QED
      BY <1>3, <2>1, SmallestNumber
  <1>5. CASE k = 0
    <2>1. p[k] = 1
      BY <1>1, <1>4, <1>5 DEF PowerEntry
    <2>2. QED
      BY <1>4, <2>1
  <1>6. CASE k # 0
    <2>1. k \div 2 \in 0..(k - 1) /\ k \in 0..n /\ k \in Nat
      BY <1>4, <1>6, Half
    <2>2. k \div 2 \in 0..n /\ ~(k <= k \div 2)
      BY <2>1
    <2>3. Good(k \div 2)
      <3>1. k \div 2 \notin Bad
        BY <1>4, <2>2
      <3>2. QED
        BY <2>2, <3>1
    <2>4. PICK root \in Int : root = p[k \div 2] /\ (base > 0 => root > 0)
      BY <2>3
    <2>5. root * root \in Int /\ base * (root * root) \in Int
      OBVIOUS
    <2>6. base > 0 => root * root > 0 /\ base * (root * root) > 0
      <3>1. \A a, b \in Int : a > 0 /\ b > 0 => a * b > 0
        OBVIOUS
      <3>2. QED
        BY <2>4, <2>5, <3>1
    <2>7. p[k] \in {root * root, base * (root * root)}
      <3>1. p[k] = PowerEntry(p, base, k)
        BY <1>1, <2>1
      <3>2. QED
        BY <1>6, <2>4, <3>1, Zenon DEF PowerEntry
    <2>8. Good(k)
      <3>1. CASE p[k] = root * root
        BY <2>5, <2>6, <3>1
      <3>2. CASE p[k] = base * (root * root)
        BY <2>5, <2>6, <3>2
      <3>3. QED
        BY <2>7, <3>1, <3>2
    <2>9. QED
      BY <1>4, <2>8
  <1>7. QED
    BY <1>5, <1>6

\* The table of powers, entry by entry.
LEMMA PowersEntry ==
    ASSUME NEW base, NEW n \in Nat, NEW k \in 0..n
    PROVE  Powers(base, n)[k] = PowerEntry(Powers(base, n), base, k)
  <1> DEFINE p == Powers(base, n)
  <1>1. p = [j \in 0..n |-> PowerEntry(p, base, j)]
    BY PowersExist DEF IsPowers
  <1> HIDE DEF p
  <1>2. p[k] = PowerEntry(p, base, k)
    BY <1>1
  <1>3. QED
    BY <1>2 DEF p

\* An entry does not depend on how long the table is.
LEMMA PowersAgree ==
    ASSUME NEW base, NEW n \in Nat, NEW k \in 0..n
    PROVE  Powers(base, n)[k] = Power(base, k)
  <1> DEFINE Bad == {m \in 0..k : Powers(base, n)[m] # Powers(base, k)[m]}
  <1>1. SUFFICES k \notin Bad
    BY PowerIsEntry
  <1>2. SUFFICES ASSUME Bad # {} PROVE FALSE
    OBVIOUS
  <1>3. PICK m \in Bad : \A j \in Bad : m <= j
    <2>1. Bad \in SUBSET Nat
      OBVIOUS
    <2> HIDE DEF Bad
    <2>2. QED
      BY <1>2, <2>1, SmallestNumber
  <1>4. m \in 0..n /\ m \in 0..k /\ k \in Nat
    BY <1>3
  <1>5. /\ Powers(base, n)[m] = PowerEntry(Powers(base, n), base, m)
        /\ Powers(base, k)[m] = PowerEntry(Powers(base, k), base, m)
    BY <1>4, PowersEntry
  <1>6. PowerEntry(Powers(base, n), base, m) = PowerEntry(Powers(base, k), base, m)
    <2>1. CASE m = 0
      BY <2>1 DEF PowerEntry
    <2>2. CASE m # 0
      <3>1. m \div 2 \in 0..k /\ ~(m <= m \div 2)
        <4>1. m \in Nat \ {0}
          BY <1>4, <2>2
        <4>2. m \div 2 \in 0..(m - 1)
          BY <4>1, Half
        <4>3. QED
          BY <1>4, <4>2
      <3>2. m \div 2 \notin Bad
        BY <1>3, <3>1
      <3>3. Powers(base, n)[m \div 2] = Powers(base, k)[m \div 2]
        BY <3>1, <3>2
      <3>4. QED
        BY <3>3, Zenon DEF PowerEntry
    <2>3. QED
      BY <2>1, <2>2
  <1>7. QED
    BY <1>3, <1>5, <1>6

\* A power to an exponent is what its square root makes (money's Math.pow).
LEMMA PowerUnfold ==
    ASSUME NEW base, NEW n \in Nat
    PROVE  /\ Power(base, 0) = 1
           /\ n > 0 => LET root == Power(base, n \div 2)
                       IN  Power(base, n) = IF n % 2 = 0 THEN root * root
                                            ELSE base * (root * root)
  <1>1. Power(base, 0) = 1
    BY PowersEntry, PowerIsEntry DEF PowerEntry
  <1>2. ASSUME n > 0
        PROVE  LET root == Power(base, n \div 2)
               IN  Power(base, n) = IF n % 2 = 0 THEN root * root
                                    ELSE base * (root * root)
    <2>1. n \div 2 \in 0..n /\ n \in 0..n
      <3>1. n \in Nat \ {0}
        BY <1>2
      <3>2. n \div 2 \in 0..(n - 1)
        BY <3>1, Half
      <3>3. QED
        BY <3>2
    <2>2. Powers(base, n)[n \div 2] = Power(base, n \div 2)
      BY <2>1, PowersAgree
    <2>3. Power(base, n) = PowerEntry(Powers(base, n), base, n)
      BY <2>1, PowersEntry, PowerIsEntry
    <2>4. n # 0
      BY <1>2
    <2>5. QED
      BY <2>2, <2>3, <2>4, Zenon DEF PowerEntry
  <1>3. QED
    BY <1>1, <1>2

\* One exponent more is one factor more.
LEMMA PowerNext ==
    ASSUME NEW base \in Int, NEW n \in Nat
    PROVE  Power(base, n + 1) = Power(base, n) * base
  <1> DEFINE Bad == {m \in Nat : Power(base, m + 1) # Power(base, m) * base}
  <1>1. SUFFICES ASSUME Bad # {} PROVE FALSE
    OBVIOUS
  <1>2. PICK m \in Bad : \A k \in Bad : m <= k
    <2>1. Bad \in SUBSET Nat
      OBVIOUS
    <2> HIDE DEF Bad
    <2>2. QED
      BY <1>1, <2>1, SmallestNumber
  <1>3. CASE m = 0
    <2>1. Power(base, 1) = base * (Power(base, 0) * Power(base, 0)) /\ Power(base, 0) = 1
      <3>1. 1 \div 2 = 0 /\ 1 % 2 # 0 /\ 1 > 0 /\ 1 \in Nat
        OBVIOUS
      <3>2. QED
        BY <3>1, PowerUnfold
    <2>2. QED
      BY <1>2, <1>3, <2>1
  <1>4. CASE m # 0 /\ m % 2 = 0
    <2>1. (m + 1) \div 2 = m \div 2 /\ (m + 1) % 2 # 0 /\ m \div 2 \in Nat /\ m + 1 \in Nat
      BY <1>4
    <2>2. PICK root \in Int : root = Power(base, m \div 2)
      BY <2>1, PowerType
    <2>3. Power(base, m) = root * root
      <3>1. m > 0 /\ m % 2 = 0
        BY <1>4
      <3>2. QED
        BY <2>2, <3>1, PowerUnfold
    <2>4. Power(base, m + 1) = base * (root * root)
      <3>1. m + 1 > 0
        OBVIOUS
      <3>2. QED
        BY <2>1, <2>2, <3>1, PowerUnfold
    <2>5. base * (root * root) = (root * root) * base
      OBVIOUS
    <2>6. QED
      BY <1>2, <2>3, <2>4, <2>5
  <1>5. CASE m % 2 # 0
    <2> DEFINE h == m \div 2
    <2>1. h \in Nat /\ (m + 1) \div 2 = h + 1 /\ (m + 1) % 2 = 0 /\ m > 0 /\ ~(m <= h)
      BY <1>5
    <2> HIDE DEF h
    <2>2. Power(base, h + 1) = Power(base, h) * base
      <3>1. h \notin Bad
        BY <1>2, <2>1
      <3>2. QED
        BY <2>1, <3>1
    <2>3. PICK root \in Int : root = Power(base, h)
      BY <2>1, PowerType
    <2>4. Power(base, m) = base * (root * root)
      BY <1>5, <2>1, <2>3, PowerUnfold DEF h
    <2>5. Power(base, m + 1) = (root * base) * (root * base)
      <3>1. m + 1 \in Nat /\ m + 1 > 0
        OBVIOUS
      <3>2. QED
        BY <2>1, <2>2, <2>3, <3>1, PowerUnfold
    <2>6. (root * base) * (root * base) = (base * (root * root)) * base
      OBVIOUS
    <2>7. QED
      BY <1>2, <2>4, <2>5, <2>6
  <1>6. QED
    BY <1>3, <1>4, <1>5

\* Exponents add up.
LEMMA PowerAdd ==
    ASSUME NEW base \in Int, NEW m \in Nat, NEW n \in Nat
    PROVE  Power(base, m + n) = Power(base, m) * Power(base, n)
  <1> DEFINE Good == {k \in 0..n : Power(base, m + k) = Power(base, m) * Power(base, k)}
  <1>1. 0 \in Good
    <2>1. Power(base, 0) = 1 /\ Power(base, m) \in Int /\ m + 0 = m
      BY PowerUnfold, PowerType
    <2>2. QED
      BY <2>1
  <1>2. ASSUME NEW k \in 0..(n - 1), k \in Good PROVE k + 1 \in Good
    <2>1. /\ Power(base, m + k + 1) = Power(base, m + k) * base
          /\ Power(base, k + 1) = Power(base, k) * base
      BY PowerNext
    <2>2. PICK a \in Int, b \in Int : a = Power(base, m) /\ b = Power(base, k)
      <3>1. k \in Nat
        OBVIOUS
      <3>2. QED
        BY <3>1, PowerType
    <2>3. (a * b) * base = a * (b * base)
      OBVIOUS
    <2>4. m + (k + 1) = m + k + 1 /\ k + 1 \in 0..n
      OBVIOUS
    <2>5. QED
      BY <1>2, <2>1, <2>2, <2>3, <2>4
  <1> HIDE DEF Good
  <1>3. n \in Good
    BY <1>1, <1>2, CountingUp
  <1>4. QED
    BY <1>3 DEF Good

\* A power of a product is the product of the powers.
LEMMA PowerTimes ==
    ASSUME NEW a \in Int, NEW b \in Int, NEW n \in Nat
    PROVE  Power(a * b, n) = Power(a, n) * Power(b, n)
  <1> DEFINE Good == {k \in 0..n : Power(a * b, k) = Power(a, k) * Power(b, k)}
  <1>1. 0 \in Good
    BY PowerUnfold
  <1>2. ASSUME NEW k \in 0..(n - 1), k \in Good PROVE k + 1 \in Good
    <2>1. /\ Power(a * b, k + 1) = Power(a * b, k) * (a * b)
          /\ Power(a, k + 1) = Power(a, k) * a /\ Power(b, k + 1) = Power(b, k) * b
      <3>1. a * b \in Int /\ k \in Nat
        OBVIOUS
      <3>2. QED
        BY <3>1, PowerNext
    <2>2. PICK p \in Int, q \in Int : p = Power(a, k) /\ q = Power(b, k)
      <3>1. k \in Nat
        OBVIOUS
      <3>2. QED
        BY <3>1, PowerType
    <2>3. (p * q) * (a * b) = (p * a) * (q * b)
      OBVIOUS
    <2>4. k + 1 \in 0..n
      OBVIOUS
    <2>5. QED
      BY <1>2, <2>1, <2>2, <2>3, <2>4
  <1> HIDE DEF Good
  <1>3. n \in Good
    BY <1>1, <1>2, CountingUp
  <1>4. QED
    BY <1>3 DEF Good

\* A power of a positive number is positive.
LEMMA PositivePower ==
    ASSUME NEW a \in Nat \ {0}, NEW n \in Nat
    PROVE  Power(a, n) \in Nat \ {0}
  <1>1. a \in Int /\ a > 0
    OBVIOUS
  <1>2. Power(a, n) \in Int /\ Power(a, n) > 0
    BY <1>1, PowerType
  <1>3. QED
    BY <1>2

\* The powers of one.
LEMMA PowerOfOne ==
    ASSUME NEW n \in Nat
    PROVE  Power(1, n) = 1
  <1> DEFINE Good == {k \in 0..n : Power(1, k) = 1}
  <1>1. 0 \in Good
    BY PowerUnfold
  <1>2. ASSUME NEW k \in 0..(n - 1), k \in Good PROVE k + 1 \in Good
    <2>1. Power(1, k + 1) = Power(1, k) * 1
      BY PowerNext
    <2>2. QED
      BY <1>2, <2>1
  <1> HIDE DEF Good
  <1>3. n \in Good
    BY <1>1, <1>2, CountingUp
  <1>4. QED
    BY <1>3 DEF Good
------------------------------------------------------------------------------
(* Fractions *)

\* A multiple is divided without a rest.
LEMMA Multiple ==
    ASSUME NEW b \in Nat \ {0}, NEW c \in Int
    PROVE  (b * c) % b = 0 /\ (b * c) \div b = c
  <1>1. PICK a \in Int : a = b * c
    OBVIOUS
  <1>2. PICK q \in Int, r \in Int :
           /\ q = a \div b /\ r = a % b /\ b * q <= a /\ a < b * q + b /\ a = b * q + r
    BY Quotient
  <1>3. b * c < b * (q + 1) /\ b * q < b * (c + 1)
    <2>1. b * (q + 1) = b * q + b /\ b * (c + 1) = b * c + b
      OBVIOUS
    <2>2. b * q \in Int /\ b * c \in Int
      OBVIOUS
    <2>3. QED
      BY <1>1, <1>2, <2>1, <2>2
  <1>4. c < q + 1 /\ q < c + 1
    BY <1>3, Divide
  <1>5. q = c
    BY <1>4
  <1>6. QED
    BY <1>1, <1>2, <1>5

\* A percentage in lowest terms is a fraction of that value.
LEMMA FractionType ==
    ASSUME NEW percent \in Int, NEW whole \in Nat \ {0}
    PROVE  /\ Fraction(percent, whole).d \in 1..whole
           /\ Fraction(percent, whole).n \in Int
           /\ whole * Fraction(percent, whole).n = Fraction(percent, whole).d * percent
  <1> DEFINE Common == {k \in 1..whole : (k * percent) % whole = 0}
             d == CHOOSE k \in 1..whole : /\ (k * percent) % whole = 0
                                          /\ \A j \in 1..(k - 1) : (j * percent) % whole # 0
  <1>1. PICK k \in Common : \A j \in Common : k <= j
    <2>1. whole \in Common /\ Common \in SUBSET Nat
      BY Multiple
    <2> HIDE DEF Common
    <2>2. QED
      BY <2>1, SmallestNumber
  <1>2. /\ k \in 1..whole /\ (k * percent) % whole = 0
        /\ \A j \in 1..(k - 1) : (j * percent) % whole # 0
    <2>1. ASSUME NEW j \in 1..(k - 1) PROVE (j * percent) % whole # 0
      <3>1. j \in 1..whole /\ ~(k <= j)
        BY <1>1
      <3>2. j \notin Common
        BY <1>1, <3>1
      <3>3. QED
        BY <3>1, <3>2
    <2>2. QED
      BY <1>1, <2>1
  <1>3. d \in 1..whole /\ (d * percent) % whole = 0
    BY <1>2, Zenon
  <1>4. Fraction(percent, whole) = [n |-> (d * percent) \div whole, d |-> d]
    BY DEF Fraction
  <1> HIDE DEF d
  <1>5. PICK a \in Int : a = d * percent
    BY <1>3
  <1>6. a \div whole \in Int /\ a = whole * (a \div whole)
    BY <1>3, <1>5, Quotient
  <1>7. QED
    BY <1>3, <1>4, <1>5, <1>6

\* A share of nothing is nothing, over one.
LEMMA FractionZero ==
    ASSUME NEW whole \in Nat \ {0}
    PROVE  Fraction(0, whole) = [n |-> 0, d |-> 1]
  <1> DEFINE d == CHOOSE k \in 1..whole : /\ (k * 0) % whole = 0
                                          /\ \A j \in 1..(k - 1) : (j * 0) % whole # 0
  <1>1. \A k \in 1..whole : (k * 0) % whole = 0
    OBVIOUS
  <1>2. \E k \in 1..whole : (k * 0) % whole = 0 /\ \A j \in 1..(k - 1) : (j * 0) % whole # 0
    <2>1. 1 \in 1..whole /\ 1..(1 - 1) = {}
      OBVIOUS
    <2>2. QED
      BY <1>1, <2>1
  <1>3. d \in 1..whole /\ \A j \in 1..(d - 1) : (j * 0) % whole # 0
    BY <1>2, Zenon
  <1>4. d = 1
    <2> HIDE DEF d
    <2>1. SUFFICES ASSUME d # 1 PROVE FALSE
      OBVIOUS
    <2>2. 1 \in 1..(d - 1) /\ 1 \in 1..whole
      BY <1>3, <2>1
    <2>3. QED
      BY <1>1, <1>3, <2>2
  <1>5. Fraction(0, whole) = [n |-> (d * 0) \div whole, d |-> d]
    BY DEF Fraction
  <1> HIDE DEF d
  <1>6. (1 * 0) \div whole = 0
    OBVIOUS
  <1>7. QED
    BY <1>4, <1>5, <1>6

\* A fraction of a rate that is not a loss.
LEMMA GainType ==
    ASSUME NEW percent \in Nat, NEW whole \in Nat \ {0}
    PROVE  LET f == Fraction(percent, whole)
           IN  /\ f.d \in Nat \ {0} /\ f.n \in Nat /\ f.d + f.n \in Nat \ {0}
               /\ f.n = 0 => f.d = 1
  <1>1. PICK d \in Nat \ {0}, n \in Int :
           /\ d = Fraction(percent, whole).d /\ n = Fraction(percent, whole).n
           /\ whole * n = d * percent
    <2>1. percent \in Int
      OBVIOUS
    <2>2. /\ Fraction(percent, whole).d \in 1..whole /\ Fraction(percent, whole).n \in Int
          /\ whole * Fraction(percent, whole).n = Fraction(percent, whole).d * percent
      BY <2>1, FractionType
    <2>3. Fraction(percent, whole).d \in Nat \ {0}
      BY <2>2
    <2>4. QED
      BY <2>2, <2>3
  <1>2. n >= 0
    <2>1. d * percent \in Nat
      <3>1. \A a, b \in Nat : a * b \in Nat
        OBVIOUS
      <3>2. QED
        BY <3>1
    <2>2. n < 0 => whole * n < 0
      <3>1. n < 0 => whole * (n + 1) <= whole * 0
        BY Product
      <3>2. whole * (n + 1) = whole * n + whole /\ whole * 0 = 0 /\ whole * n \in Int
        OBVIOUS
      <3>3. QED
        BY <3>1, <3>2
    <2>3. QED
      BY <1>1, <2>1, <2>2
  <1>3. n = 0 => d = 1
    <2>1. SUFFICES ASSUME n = 0 PROVE d = 1
      OBVIOUS
    <2>2. d * percent = 0
      <3>1. whole * 0 = 0
        OBVIOUS
      <3>2. QED
        BY <1>1, <2>1, <3>1
    <2>3. percent = 0
      <3>1. percent # 0 => d * percent \in Nat \ {0}
        BY ProductPositive
      <3>2. QED
        BY <2>2, <3>1
    <2>4. Fraction(0, whole).d = 1
      BY FractionZero
    <2>5. QED
      BY <1>1, <2>3, <2>4
  <1>4. QED
    BY <1>1, <1>2, <1>3

\* A rate above -100% has a growth factor above nothing.
LEMMA RateType ==
    ASSUME NEW percent \in Int, percent > -100
    PROVE  LET f == Fraction(percent, 100)
           IN  /\ f.d \in Nat \ {0} /\ f.n \in Int
               /\ f.n + f.d \in Nat \ {0} /\ f.d + f.n \in Nat \ {0}
               /\ 100 * (f.n + f.d) = f.d * (100 + percent)
  <1>1. PICK d \in 1..100, n \in Int :
           /\ d = Fraction(percent, 100).d /\ n = Fraction(percent, 100).n
           /\ 100 * n = d * percent
    <2>1. 100 \in Nat \ {0}
      OBVIOUS
    <2>2. /\ Fraction(percent, 100).d \in 1..100 /\ Fraction(percent, 100).n \in Int
          /\ 100 * Fraction(percent, 100).n = Fraction(percent, 100).d * percent
      BY <2>1, FractionType
    <2>3. QED
      BY <2>2
  <1>2. 100 * (n + d) = d * (100 + percent)
    BY <1>1
  <1>3. n + d > 0
    <2>1. 100 + percent \in Nat \ {0} /\ d \in Nat \ {0}
      OBVIOUS
    <2>2. PICK e \in Nat \ {0} : e = d * (100 + percent)
      BY <2>1, ProductPositive
    <2>3. QED
      BY <1>2, <2>2
  <1>4. QED
    BY <1>1, <1>2, <1>3
==============================================================================
