----------------------------------- MODULE Sums -----------------------------------
(* Sums over finite sets: what SumFunctionOnSet of the community modules does when an
   element comes, goes or changes. Its recursion removes an element that CHOOSE picks;
   the induction is over subsets, by a smallest one of which a claim fails. *)
EXTENDS Integers, FiniteSets, Functions, FiniteSetTheorems, TLAPS

(* What the fold's recursion asks of a function. *)
Adds(f, S, g) ==
  g = [s \in SUBSET S |-> IF s = {} THEN 0
                          ELSE LET x == CHOOSE x \in s : TRUE IN f[x] + g[s \ {x}]]

LEMMA SmallestSubset ==
  ASSUME NEW S, IsFiniteSet(S), NEW Bad, Bad \subseteq SUBSET S, Bad # {}
  PROVE  \E T \in Bad : \A U \in SUBSET T : U # T => U \notin Bad
<1>1. IsWellFoundedOn(StrictSubsetOrdering(S), SUBSET S)
  BY FS_StrictSubsetOrderingWellFounded, FS_FiniteSubsetsOfFinite
<1>2. PICK T \in Bad : \A U \in Bad : ~(<<U, T>> \in StrictSubsetOrdering(S))
  <2> DEFINE R == StrictSubsetOrdering(S)
             D == SUBSET S
  <2>1. IsWellFoundedOn(R, D) /\ Bad \subseteq D /\ Bad # {}
    BY <1>1
  <2>2. \E T \in Bad : \A U \in Bad : ~(<<U, T>> \in R)
    <3> HIDE DEF R, D
    <3> QED BY <2>1, WFMin, Zenon
  <2> QED BY <2>2
<1>3. \A U \in SUBSET T : U # T /\ U \in Bad => <<U, T>> \in StrictSubsetOrdering(S)
  BY DEF StrictSubsetOrdering
<1>4. \A U \in SUBSET T : U # T => U \notin Bad
  BY <1>2, <1>3
<1> QED BY <1>4

LEMMA SumIsFold == \A f, S : SumFunctionOnSet(f, S) = (CHOOSE g : Adds(f, S, g))[S]
BY DEF SumFunctionOnSet, FoldFunctionOnSet, MapThenFoldSet, Adds

LEMMA AddsAgree ==
  ASSUME NEW f, NEW S, NEW T, IsFiniteSet(S), NEW g, NEW h, Adds(f, S, g), Adds(f, T, h),
         NEW W \in SUBSET S, W \in SUBSET T
  PROVE  g[W] = h[W]
<1> DEFINE Bad == {U \in SUBSET W : g[U] # h[U]}
<1> SUFFICES ASSUME Bad # {} PROVE FALSE
  OBVIOUS
<1>1. IsFiniteSet(W)
  BY FS_Subset
<1>2. PICK U \in Bad : \A V \in SUBSET U : V # U => V \notin Bad
  <2>1. Bad \subseteq SUBSET W
    OBVIOUS
  <2> HIDE DEF Bad
  <2> QED BY <1>1, <2>1, SmallestSubset
<1>3. U \in SUBSET S /\ U \in SUBSET T
  OBVIOUS
<1>4. g[U] = IF U = {} THEN 0 ELSE LET x == CHOOSE x \in U : TRUE IN f[x] + g[U \ {x}]
  BY <1>3 DEF Adds
<1>5. h[U] = IF U = {} THEN 0 ELSE LET x == CHOOSE x \in U : TRUE IN f[x] + h[U \ {x}]
  BY <1>3 DEF Adds
<1>6. U # {}
  BY <1>4, <1>5
<1> DEFINE y == CHOOSE x \in U : TRUE
<1>7. y \in U
  BY <1>6
<1>8. g[U] = f[y] + g[U \ {y}] /\ h[U] = f[y] + h[U \ {y}]
  BY <1>4, <1>5, <1>6
<1> HIDE DEF y
<1>9. g[U \ {y}] = h[U \ {y}]
  BY <1>2, <1>7
<1> QED BY <1>8, <1>9

LEMMA AddsExists ==
  ASSUME NEW f, NEW S, IsFiniteSet(S)
  PROVE  \E g : Adds(f, S, g)
<1> DEFINE Bad == {T \in SUBSET S : ~\E g : Adds(f, T, g)}
<1> SUFFICES ASSUME Bad # {} PROVE FALSE
  OBVIOUS
<1>1. PICK T \in Bad : \A U \in SUBSET T : U # T => U \notin Bad
  <2>1. Bad \subseteq SUBSET S
    OBVIOUS
  <2> HIDE DEF Bad
  <2> QED BY <2>1, SmallestSubset
<1>2. IsFiniteSet(T) /\ T \in SUBSET S
  BY FS_Subset
<1> DEFINE G(U) == CHOOSE g : Adds(f, U, g)
<1>3. \A U \in SUBSET T : U # T => Adds(f, U, G(U))
  BY <1>1, <1>2
<1> HIDE DEF G
<1> DEFINE h == [s \in SUBSET T |-> IF s = {} THEN 0
                                    ELSE LET x == CHOOSE x \in s : TRUE
                                         IN  f[x] + G(s \ {x})[s \ {x}]]
<1>4. \A U \in SUBSET T : U # T => h[U] = G(U)[U]
  <2> SUFFICES ASSUME NEW U \in SUBSET T, U # T PROVE h[U] = G(U)[U]
    OBVIOUS
  <2> DEFINE x == CHOOSE x \in U : TRUE
  <2>1. G(U)[U] = IF U = {} THEN 0 ELSE f[x] + G(U)[U \ {x}]
    <3>1. Adds(f, U, G(U)) /\ U \in SUBSET U
      BY <1>3
    <3> QED BY <3>1 DEF Adds
  <2>2. h[U] = IF U = {} THEN 0 ELSE f[x] + G(U \ {x})[U \ {x}]
    OBVIOUS
  <2>3. CASE U = {}
    BY <2>1, <2>2, <2>3
  <2>4. CASE U # {}
    <3> HIDE DEF x, h
    <3>1. Adds(f, U, G(U)) /\ Adds(f, U \ {x}, G(U \ {x})) /\ IsFiniteSet(U)
      BY <1>2, <1>3, FS_Subset
    <3>2. U \ {x} \in SUBSET U /\ U \ {x} \in SUBSET (U \ {x})
      OBVIOUS
    <3>3. G(U)[U \ {x}] = G(U \ {x})[U \ {x}]
      BY <3>1, <3>2, AddsAgree
    <3> QED BY <2>1, <2>2, <2>4, <3>3
  <2> QED BY <2>3, <2>4
<1>5. Adds(f, T, h)
  <2>1. ASSUME NEW s \in SUBSET T, s # {}
        PROVE  LET x == CHOOSE x \in s : TRUE IN h[s \ {x}] = G(s \ {x})[s \ {x}]
    <3> DEFINE x == CHOOSE x \in s : TRUE
    <3>1. x \in s
      BY <2>1
    <3> HIDE DEF x
    <3>2. s \ {x} \in SUBSET T /\ s \ {x} # T
      BY <3>1
    <3> HIDE DEF h
    <3>3. h[s \ {x}] = G(s \ {x})[s \ {x}]
      BY <1>4, <3>2
    <3> QED BY <3>3 DEF x
  <2>2. h = [s \in SUBSET T |-> IF s = {} THEN 0
                                ELSE LET x == CHOOSE x \in s : TRUE IN f[x] + h[s \ {x}]]
    <3>1. ASSUME NEW s \in SUBSET T
          PROVE  h[s] = IF s = {} THEN 0 ELSE LET x == CHOOSE x \in s : TRUE IN f[x] + h[s \ {x}]
      <4>1. h[s] = IF s = {} THEN 0
                   ELSE LET x == CHOOSE x \in s : TRUE IN f[x] + G(s \ {x})[s \ {x}]
        OBVIOUS
      <4> HIDE DEF h
      <4> QED BY <2>1, <4>1
    <3>2. h = [s \in SUBSET T |-> h[s]]
      OBVIOUS
    <3> HIDE DEF h
    <3> QED BY <3>1, <3>2
  <2> HIDE DEF h
  <2> QED BY <2>2 DEF Adds
<1> HIDE DEF h
<1> QED BY <1>5

-----------------------------------------------------------------------------
LEMMA SumOfNone == \A f : SumFunctionOnSet(f, {}) = 0
<1> TAKE f
<1>1. IsFiniteSet({})
  BY FS_EmptySet
<1>2. \E g : Adds(f, {}, g)
  BY <1>1, AddsExists
<1> DEFINE h == CHOOSE g : Adds(f, {}, g)
<1>3. Adds(f, {}, h)
  BY <1>2
<1>4. SumFunctionOnSet(f, {}) = h[{}]
  BY SumIsFold
<1> HIDE DEF h
<1> QED BY <1>3, <1>4 DEF Adds

(* The step of the recursion. *)
LEMMA SumStep ==
  ASSUME NEW f, NEW S, IsFiniteSet(S), S # {}
  PROVE  LET x == CHOOSE x \in S : TRUE
         IN  SumFunctionOnSet(f, S) = f[x] + SumFunctionOnSet(f, S \ {x})
<1> DEFINE x == CHOOSE x \in S : TRUE
           g == CHOOSE g : Adds(f, S, g)
           h == CHOOSE h : Adds(f, S \ {x}, h)
<1>1. IsFiniteSet(S \ {x})
  BY FS_RemoveElement
<1>2. Adds(f, S, g) /\ Adds(f, S \ {x}, h)
  BY <1>1, AddsExists
<1>3. SumFunctionOnSet(f, S) = g[S] /\ SumFunctionOnSet(f, S \ {x}) = h[S \ {x}]
  BY SumIsFold
<1> HIDE DEF g, h
<1>4. g[S] = f[x] + g[S \ {x}]
  <2>1. S \in SUBSET S
    OBVIOUS
  <2> QED BY <1>2, <2>1 DEF Adds
<1> HIDE DEF x
<1>5. g[S \ {x}] = h[S \ {x}]
  BY <1>2, AddsAgree
<1>6. SumFunctionOnSet(f, S) = f[x] + SumFunctionOnSet(f, S \ {x})
  BY <1>3, <1>4, <1>5
<1> QED BY <1>6 DEF x

-----------------------------------------------------------------------------
(* The sum does not depend on the element chosen first. *)
LEMMA SumRemove ==
  ASSUME NEW f, NEW S, IsFiniteSet(S), \A y \in S : f[y] \in Int
  PROVE  /\ SumFunctionOnSet(f, S) \in Int
         /\ \A x \in S : SumFunctionOnSet(f, S) = f[x] + SumFunctionOnSet(f, S \ {x})
<1> DEFINE Right(T) == /\ SumFunctionOnSet(f, T) \in Int
                       /\ \A x \in T : SumFunctionOnSet(f, T) = f[x] + SumFunctionOnSet(f, T \ {x})
           Bad == {T \in SUBSET S : ~Right(T)}
<1> SUFFICES ASSUME Bad # {} PROVE FALSE
  OBVIOUS
<1>1. PICK T \in Bad : \A U \in SUBSET T : U # T => U \notin Bad
  <2>1. Bad \subseteq SUBSET S
    OBVIOUS
  <2> HIDE DEF Bad
  <2> QED BY <2>1, SmallestSubset
<1>2. IsFiniteSet(T) /\ T \in SUBSET S /\ ~Right(T)
  BY FS_Subset
<1>3. \A U \in SUBSET T : U # T => Right(U)
  BY <1>1, <1>2
<1>4. T # {}
  BY SumOfNone
<1> DEFINE c == CHOOSE x \in T : TRUE
           Sum(U) == SumFunctionOnSet(f, U)
<1>5. c \in T
  BY <1>4
<1>6. Sum(T) = f[c] + Sum(T \ {c})
  BY <1>2, <1>4, SumStep
<1>7. \A U \in SUBSET T : U # T => Sum(U) \in Int /\ \A x \in U : Sum(U) = f[x] + Sum(U \ {x})
  BY <1>3
<1>8. \A x \in T : f[x] \in Int
  BY <1>2
<1> HIDE DEF c, Sum
<1>9. ASSUME NEW x \in T PROVE Sum(T) = f[x] + Sum(T \ {x})
  <2>1. CASE x = c
    BY <1>6, <2>1
  <2>2. CASE x # c
    <3>1. T \ {c} \in SUBSET T /\ T \ {c} # T /\ x \in T \ {c}
      BY <1>5, <2>2
    <3>2. T \ {x} \in SUBSET T /\ T \ {x} # T /\ c \in T \ {x}
      BY <1>5, <2>2
    <3>3. (T \ {c}) \ {x} = (T \ {x}) \ {c}
      OBVIOUS
    <3>4. Sum(T \ {c}) = f[x] + Sum((T \ {x}) \ {c})
      BY <1>7, <3>1, <3>3
    <3>5. Sum(T \ {x}) = f[c] + Sum((T \ {x}) \ {c})
      BY <1>7, <3>2
    <3>6. (T \ {x}) \ {c} \in SUBSET T /\ (T \ {x}) \ {c} # T
      BY <1>5
    <3>7. Sum((T \ {x}) \ {c}) \in Int
      BY <1>7, <3>6
    <3>8. f[x] \in Int /\ f[c] \in Int
      BY <1>5, <1>8
    <3> QED BY <1>6, <3>4, <3>5, <3>7, <3>8
  <2> QED BY <2>1, <2>2
<1>10. Sum(T) \in Int
  <2>1. T \ {c} \in SUBSET T /\ T \ {c} # T
    BY <1>5
  <2>2. Sum(T \ {c}) \in Int
    BY <1>7, <2>1
  <2> QED BY <1>5, <1>6, <1>8, <2>2
<1>11. Right(T)
  BY <1>9, <1>10 DEF Sum
<1> QED BY <1>2, <1>11

LEMMA SumInt ==
  ASSUME NEW f, NEW S, IsFiniteSet(S), \A y \in S : f[y] \in Int
  PROVE  SumFunctionOnSet(f, S) \in Int
BY SumRemove

(* One more element. *)
LEMMA SumAdd ==
  ASSUME NEW f, NEW S, IsFiniteSet(S), \A y \in S : f[y] \in Int, NEW x, x \notin S, f[x] \in Int
  PROVE  SumFunctionOnSet(f, S \cup {x}) = f[x] + SumFunctionOnSet(f, S)
<1>1. IsFiniteSet(S \cup {x}) /\ \A y \in S \cup {x} : f[y] \in Int
  BY FS_AddElement
<1>2. (S \cup {x}) \ {x} = S
  OBVIOUS
<1>3. SumFunctionOnSet(f, S \cup {x}) = f[x] + SumFunctionOnSet(f, (S \cup {x}) \ {x})
  BY <1>1, SumRemove
<1> QED BY <1>2, <1>3

(* Functions that agree on the set have one sum. *)
LEMMA SumSame ==
  ASSUME NEW f, NEW g, NEW S, IsFiniteSet(S), \A y \in S : f[y] = g[y]
  PROVE  SumFunctionOnSet(f, S) = SumFunctionOnSet(g, S)
<1> DEFINE Bad == {T \in SUBSET S : SumFunctionOnSet(f, T) # SumFunctionOnSet(g, T)}
<1> SUFFICES ASSUME Bad # {} PROVE FALSE
  OBVIOUS
<1>1. PICK T \in Bad : \A U \in SUBSET T : U # T => U \notin Bad
  <2>1. Bad \subseteq SUBSET S
    OBVIOUS
  <2> HIDE DEF Bad
  <2> QED BY <2>1, SmallestSubset
<1>2. IsFiniteSet(T) /\ T \in SUBSET S
  BY FS_Subset
<1>3. T # {}
  BY SumOfNone
<1> DEFINE c == CHOOSE x \in T : TRUE
<1>4. c \in T
  BY <1>3
<1>5. /\ SumFunctionOnSet(f, T) = f[c] + SumFunctionOnSet(f, T \ {c})
      /\ SumFunctionOnSet(g, T) = g[c] + SumFunctionOnSet(g, T \ {c})
  BY <1>2, <1>3, SumStep
<1> HIDE DEF c
<1>6. SumFunctionOnSet(f, T \ {c}) = SumFunctionOnSet(g, T \ {c})
  BY <1>1, <1>2, <1>4
<1>7. f[c] = g[c]
  BY <1>2, <1>4
<1> QED BY <1>5, <1>6, <1>7

(* The two functions differ at one element at most. *)
LEMMA SumUpdate ==
  ASSUME NEW f, NEW g, NEW S, IsFiniteSet(S), NEW x \in S,
         \A y \in S : f[y] \in Int, g[x] \in Int, \A y \in S \ {x} : g[y] = f[y]
  PROVE  SumFunctionOnSet(g, S) = SumFunctionOnSet(f, S) - f[x] + g[x]
<1>1. IsFiniteSet(S \ {x}) /\ \A y \in S : g[y] \in Int
  BY FS_RemoveElement
<1>2. SumFunctionOnSet(g, S \ {x}) = SumFunctionOnSet(f, S \ {x})
  BY <1>1, SumSame
<1>3. SumFunctionOnSet(g, S) = g[x] + SumFunctionOnSet(g, S \ {x})
  BY <1>1, SumRemove
<1>4. SumFunctionOnSet(f, S) = f[x] + SumFunctionOnSet(f, S \ {x})
  BY SumRemove
<1>5. SumFunctionOnSet(f, S \ {x}) \in Int
  BY <1>1, SumInt
<1>6. f[x] \in Int /\ g[x] \in Int
  OBVIOUS
<1> QED BY <1>2, <1>3, <1>4, <1>5, <1>6

(* Two parts of a set, summed apart. *)
LEMMA SumSplit ==
  ASSUME NEW f, NEW S, NEW A, A \subseteq S, IsFiniteSet(S), \A y \in S : f[y] \in Int
  PROVE  SumFunctionOnSet(f, S) = SumFunctionOnSet(f, A) + SumFunctionOnSet(f, S \ A)
<1> DEFINE Sum(U) == SumFunctionOnSet(f, U)
           Bad == {T \in SUBSET A : Sum(S) # Sum(T) + Sum(S \ T)}
<1>0. IsFiniteSet(A)
  BY FS_Subset
<1>1. \A U \in SUBSET S : Sum(U) \in Int /\ \A x \in U : Sum(U) = f[x] + Sum(U \ {x})
  BY FS_Subset, SumRemove
<1>2. Sum({}) = 0
  BY SumOfNone
<1> HIDE DEF Sum
<1>3. ASSUME Bad # {} PROVE FALSE
  <2>1. PICK T \in Bad : \A U \in SUBSET T : U # T => U \notin Bad
    <3>1. Bad \subseteq SUBSET A
      OBVIOUS
    <3> HIDE DEF Bad
    <3> QED BY <1>0, <1>3, <3>1, SmallestSubset
  <2>2. S \ {} = S /\ S \in SUBSET S
    OBVIOUS
  <2>3. Sum(S) = Sum({}) + Sum(S \ {})
    BY <1>1, <1>2, <2>2
  <2>4. PICK x : x \in T
    BY <2>3
  <2>5. T \ {x} \in SUBSET T /\ T \ {x} # T /\ T \ {x} \in SUBSET A
    BY <2>4
  <2>6. Sum(S) = Sum(T \ {x}) + Sum(S \ (T \ {x}))
    BY <2>1, <2>5
  <2>7. T \in SUBSET S /\ T \ {x} \in SUBSET S /\ S \ T \in SUBSET S /\ S \ (T \ {x}) \in SUBSET S
    OBVIOUS
  <2>8. x \in S \ (T \ {x}) /\ (S \ (T \ {x})) \ {x} = S \ T
    BY <2>4, <2>7
  <2>9. Sum(T) = f[x] + Sum(T \ {x})
    BY <1>1, <2>4, <2>7
  <2>10. Sum(S \ (T \ {x})) = f[x] + Sum(S \ T)
    BY <1>1, <2>7, <2>8
  <2>11. f[x] \in Int /\ Sum(T \ {x}) \in Int /\ Sum(S \ T) \in Int
    BY <1>1, <2>4, <2>7
  <2>12. Sum(S) # Sum(T) + Sum(S \ T)
    OBVIOUS
  <2> QED BY <2>6, <2>9, <2>10, <2>11, <2>12
<1>4. Sum(S) = Sum(A) + Sum(S \ A)
  BY <1>3
<1> QED BY <1>4 DEF Sum

(* The sum of two functions. *)
LEMMA SumPlus ==
  ASSUME NEW f, NEW g, NEW h, NEW S, IsFiniteSet(S),
         \A y \in S : f[y] \in Int /\ g[y] \in Int /\ h[y] = f[y] + g[y]
  PROVE  SumFunctionOnSet(h, S) = SumFunctionOnSet(f, S) + SumFunctionOnSet(g, S)
<1> DEFINE F(T) == SumFunctionOnSet(f, T)
           G(T) == SumFunctionOnSet(g, T)
           H(T) == SumFunctionOnSet(h, T)
           Bad == {T \in SUBSET S : H(T) # F(T) + G(T)}
<1>1. \A y \in S : f[y] \in Int /\ g[y] \in Int /\ h[y] \in Int
  OBVIOUS
<1>2. \A T \in SUBSET S : /\ F(T) \in Int /\ G(T) \in Int
                          /\ \A x \in T : F(T) = f[x] + F(T \ {x})
                          /\ \A x \in T : G(T) = g[x] + G(T \ {x})
                          /\ \A x \in T : H(T) = h[x] + H(T \ {x})
  BY <1>1, FS_Subset, SumRemove
<1>3. F({}) = 0 /\ G({}) = 0 /\ H({}) = 0
  BY SumOfNone
<1> HIDE DEF F, G, H
<1>4. ASSUME Bad # {} PROVE FALSE
  <2>1. PICK T \in Bad : \A U \in SUBSET T : U # T => U \notin Bad
    <3>1. Bad \subseteq SUBSET S
      OBVIOUS
    <3> HIDE DEF Bad
    <3> QED BY <1>4, <3>1, SmallestSubset
  <2>2. PICK x : x \in T
    BY <1>3
  <2>3. T \ {x} \in SUBSET T /\ T \ {x} # T /\ T \ {x} \in SUBSET S /\ x \in S
    BY <2>2
  <2>4. H(T \ {x}) = F(T \ {x}) + G(T \ {x})
    BY <2>1, <2>3
  <2>5. F(T) = f[x] + F(T \ {x}) /\ G(T) = g[x] + G(T \ {x}) /\ H(T) = h[x] + H(T \ {x})
    BY <1>2, <2>2
  <2>6. f[x] \in Int /\ g[x] \in Int /\ h[x] = f[x] + g[x] /\ F(T \ {x}) \in Int /\ G(T \ {x}) \in Int
    BY <1>2, <2>3
  <2>7. H(T) # F(T) + G(T)
    OBVIOUS
  <2> QED BY <2>4, <2>5, <2>6, <2>7
<1>5. S \in SUBSET S /\ H(S) = F(S) + G(S)
  BY <1>4
<1> QED BY <1>5 DEF F, G, H

(* A sum of what is not negative is not negative, and no part of it is more than the whole. *)
LEMMA SumNat ==
  ASSUME NEW f, NEW S, IsFiniteSet(S), \A y \in S : f[y] \in Nat
  PROVE  SumFunctionOnSet(f, S) \in Nat
<1> DEFINE Sum(T) == SumFunctionOnSet(f, T)
           Bad == {T \in SUBSET S : Sum(T) \notin Nat}
<1>0. \A y \in S : f[y] \in Int
  OBVIOUS
<1>1. \A T \in SUBSET S : \A x \in T : Sum(T) = f[x] + Sum(T \ {x})
  <2>1. \A T \in SUBSET S : IsFiniteSet(T) /\ \A y \in T : f[y] \in Int
    BY <1>0, FS_Subset
  <2> QED BY <2>1, SumRemove
<1>2. Sum({}) = 0
  BY SumOfNone
<1> HIDE DEF Sum
<1>3. ASSUME Bad # {} PROVE FALSE
  <2>1. PICK T \in Bad : \A U \in SUBSET T : U # T => U \notin Bad
    <3>1. Bad \subseteq SUBSET S
      OBVIOUS
    <3> HIDE DEF Bad
    <3> QED BY <1>3, <3>1, SmallestSubset
  <2>2. PICK x : x \in T
    BY <1>2
  <2>3. T \ {x} \in SUBSET T /\ T \ {x} # T /\ T \ {x} \in SUBSET S /\ x \in S
    BY <2>2
  <2>4. Sum(T \ {x}) \in Nat
    BY <2>1, <2>3
  <2>5. Sum(T) = f[x] + Sum(T \ {x}) /\ f[x] \in Nat /\ Sum(T) \notin Nat
    BY <1>1, <2>2, <2>3
  <2> QED BY <2>4, <2>5
<1>4. Sum(S) \in Nat
  BY <1>3
<1> QED BY <1>4 DEF Sum

LEMMA SumPart ==
  ASSUME NEW f, NEW S, NEW A, A \subseteq S, IsFiniteSet(S), \A y \in S : f[y] \in Nat
  PROVE  SumFunctionOnSet(f, A) \in Nat /\ SumFunctionOnSet(f, A) =< SumFunctionOnSet(f, S)
<1>1. IsFiniteSet(A) /\ IsFiniteSet(S \ A)
  BY FS_Subset
<1>2. SumFunctionOnSet(f, A) \in Nat /\ SumFunctionOnSet(f, S \ A) \in Nat
  BY <1>1, SumNat
<1>3. SumFunctionOnSet(f, S) = SumFunctionOnSet(f, A) + SumFunctionOnSet(f, S \ A)
  BY SumSplit
<1> QED BY <1>2, <1>3

(* Nothing everywhere sums to nothing. *)
LEMMA SumZero ==
  ASSUME NEW f, NEW S, IsFiniteSet(S), \A y \in S : f[y] = 0
  PROVE  SumFunctionOnSet(f, S) = 0
<1>1. \A y \in S : f[y] \in Int /\ f[y] = f[y] + f[y]
  OBVIOUS
<1>2. SumFunctionOnSet(f, S) = SumFunctionOnSet(f, S) + SumFunctionOnSet(f, S)
  BY <1>1, SumPlus
<1> DEFINE n == SumFunctionOnSet(f, S)
<1>3. n \in Int /\ n = n + n
  BY <1>1, <1>2, SumInt
<1> HIDE DEF n
<1>4. n = 0
  BY <1>3
<1> QED BY <1>4 DEF n

(* A function that is nowhere more than another sums to no more. *)
LEMMA SumMonotone ==
  ASSUME NEW f, NEW g, NEW S, IsFiniteSet(S), \A y \in S : f[y] \in Int /\ g[y] \in Int /\ f[y] =< g[y]
  PROVE  SumFunctionOnSet(f, S) =< SumFunctionOnSet(g, S)
<1> DEFINE d == [y \in S |-> g[y] - f[y]]
<1>1. \A y \in S : d[y] \in Nat /\ d[y] \in Int /\ g[y] = f[y] + d[y]
  OBVIOUS
<1> HIDE DEF d
<1>2. SumFunctionOnSet(d, S) \in Nat
  BY <1>1, SumNat
<1>3. SumFunctionOnSet(g, S) = SumFunctionOnSet(f, S) + SumFunctionOnSet(d, S)
  BY <1>1, SumPlus
<1>4. SumFunctionOnSet(f, S) \in Int
  BY SumInt
<1> QED BY <1>2, <1>3, <1>4

(* A finite set that is not empty has an element no other is above. *)
LEMMA GreatestElement ==
  ASSUME NEW f, NEW S, IsFiniteSet(S), S # {}, \A y \in S : f[y] \in Int
  PROVE  \E x \in S : \A y \in S : f[y] =< f[x]
<1> DEFINE Has(T) == \E x \in T : \A y \in T : f[y] =< f[x]
           Bad == {T \in SUBSET S : T # {} /\ ~Has(T)}
<1> SUFFICES ASSUME Bad # {} PROVE FALSE
  OBVIOUS
<1>1. PICK T \in Bad : \A U \in SUBSET T : U # T => U \notin Bad
  <2>1. Bad \subseteq SUBSET S
    OBVIOUS
  <2> HIDE DEF Bad
  <2> QED BY <2>1, SmallestSubset
<1>2. PICK x : x \in T
  OBVIOUS
<1>3. T \in SUBSET S /\ ~Has(T) /\ f[x] \in Int
  BY <1>2
<1>4. CASE T = {x}
  BY <1>3, <1>4
<1>5. CASE T # {x}
  <2>1. T \ {x} \in SUBSET T /\ T \ {x} # T /\ T \ {x} # {} /\ T \ {x} \in SUBSET S
    BY <1>2, <1>5
  <2>2. Has(T \ {x})
    BY <1>1, <2>1
  <2>3. PICK m \in T \ {x} : \A y \in T \ {x} : f[y] =< f[m]
    BY <2>2
  <2>4. f[m] \in Int /\ \A y \in T : f[y] \in Int
    BY <2>1
  <2>5. CASE f[x] =< f[m]
    BY <1>3, <2>3, <2>5
  <2>6. CASE ~(f[x] =< f[m])
    BY <1>2, <1>3, <2>3, <2>4, <2>6
  <2> QED BY <2>5, <2>6
<1> QED BY <1>4, <1>5
===================================================================================
