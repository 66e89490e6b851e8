----------------------------- MODULE SumTheorems -----------------------------
(***************************************************************************)
(* Facts about SumFunctionOnSet, the fold the totals are written with.     *)
(* Each is proved by the smallest counterexample: a finite set has no      *)
(* infinite descent of subsets, so a family of its subsets that is not     *)
(* empty has a member none of whose proper subsets is in the family.       *)
(***************************************************************************)
EXTENDS Functions, Integers, FiniteSetTheorems, WellFoundedInduction, TLAPS

\* A family of subsets of a finite set has a smallest member.
LEMMA SmallestSubset ==
  ASSUME NEW S, IsFiniteSet(S), NEW B \in SUBSET (SUBSET S), B # {}
  PROVE  \E T \in B : \A U \in SUBSET T : U # T => U \notin B
<1>1. IsWellFoundedOn(StrictSubsetOrdering(S), SUBSET S)
  BY FS_StrictSubsetOrderingWellFounded, FS_FiniteSubsetsOfFinite
<1>2. PICK T \in B : \A U \in B : ~(<<U, T>> \in StrictSubsetOrdering(S))
  BY <1>1, WFMin
<1>3. \A U \in SUBSET T : U # T => U \notin B
  <2> SUFFICES ASSUME NEW U \in SUBSET T, U # T, U \in B PROVE FALSE
    OBVIOUS
  <2>1. <<U, T>> \in (SUBSET S) \X (SUBSET S) /\ <<U, T>>[1] = U /\ <<U, T>>[2] = T
    OBVIOUS
  <2>2. <<U, T>> \in StrictSubsetOrdering(S)
    BY <2>1 DEF StrictSubsetOrdering
  <2> QED BY <1>2, <2>2
<1> QED BY <1>3

-----------------------------------------------------------------------------
(* The recursion behind the fold is well defined *)

\* The element the fold takes out of a set first.
Chosen(s) == CHOOSE x \in s : TRUE

\* One step of the fold, and the functions that satisfy it throughout SUBSET S.
SumStep(f, h, s) == IF s = {} THEN 0 ELSE f[Chosen(s)] + h[s \ {Chosen(s)}]
IsSum(f, S, h)   == h = [s \in SUBSET S |-> SumStep(f, h, s)]

LEMMA ChosenIn == ASSUME NEW s, s # {} PROVE Chosen(s) \in s
  BY DEF Chosen

LEMMA SumIsChosen ==
  ASSUME NEW f, NEW S
  PROVE  SumFunctionOnSet(f, S) = (CHOOSE h : IsSum(f, S, h))[S]
<1>1. PICK g :
        /\ g = CHOOSE h : h = [s \in SUBSET S |->
                 IF s = {} THEN 0
                 ELSE f[CHOOSE x \in s : TRUE] + h[s \ {CHOOSE x \in s : TRUE}]]
        /\ SumFunctionOnSet(f, S) = g[S]
  BY DEF SumFunctionOnSet, FoldFunctionOnSet, MapThenFoldSet
<1> QED BY <1>1 DEF IsSum, SumStep, Chosen

LEMMA SumUnique ==
  ASSUME NEW f, NEW S, IsFiniteSet(S), NEW T \in SUBSET S,
         NEW g, IsSum(f, S, g), NEW h, IsSum(f, T, h)
  PROVE  g[T] = h[T]
<1> DEFINE B == {U \in SUBSET T : g[U] # h[U]}
<1>1. SUFFICES ASSUME B # {} PROVE FALSE
  OBVIOUS
<1>2. IsFiniteSet(T)
  BY FS_Subset
<1>3. PICK U \in B : \A V \in SUBSET U : V # U => V \notin B
  <2> HIDE DEF B
  <2>1. B \in SUBSET (SUBSET T)
    BY DEF B
  <2> QED BY <1>1, <1>2, <2>1, SmallestSubset
<1>4. g[U] = SumStep(f, g, U) /\ h[U] = SumStep(f, h, U)
  BY DEF IsSum
<1>5. CASE U = {}
  BY <1>3, <1>4, <1>5 DEF SumStep
<1>6. CASE U # {}
  <2>1. Chosen(U) \in U
    BY <1>6, ChosenIn
  <2>2. U \ {Chosen(U)} \in SUBSET U /\ U \ {Chosen(U)} # U /\ U \ {Chosen(U)} \in SUBSET T
    BY <2>1
  <2>3. g[U \ {Chosen(U)}] = h[U \ {Chosen(U)}]
    BY <1>3, <2>2
  <2> QED BY <1>3, <1>4, <1>6, <2>3 DEF SumStep
<1> QED BY <1>5, <1>6

LEMMA SumExists ==
  ASSUME NEW f, NEW S, IsFiniteSet(S)
  PROVE  \E h : IsSum(f, S, h)
<1> DEFINE B == {T \in SUBSET S : ~\E h : IsSum(f, T, h)}
<1>1. SUFFICES ASSUME B # {} PROVE FALSE
  OBVIOUS
<1>2. PICK T \in B : \A U \in SUBSET T : U # T => U \notin B
  <2> HIDE DEF B
  <2>1. B \in SUBSET (SUBSET S)
    BY DEF B
  <2> QED BY <1>1, <2>1, SmallestSubset
<1>3. T \in SUBSET S /\ ~\E h : IsSum(f, T, h)
  OBVIOUS
<1> DEFINE part(U) == CHOOSE h : IsSum(f, U, h)
           total(U) == IF U = {} THEN 0
                       ELSE f[Chosen(U)] + part(U \ {Chosen(U)})[U \ {Chosen(U)}]
           whole == [U \in SUBSET T |-> total(U)]
<1>4. ASSUME NEW U \in SUBSET T, U # T PROVE IsSum(f, U, part(U))
  <2>1. U \in SUBSET S
    BY <1>3
  <2>2. \E h : IsSum(f, U, h)
    BY <1>2, <1>4, <2>1
  <2> QED BY <2>2
<1>5. ASSUME NEW U \in SUBSET T, U # T PROVE total(U) = part(U)[U]
  <2> DEFINE V == U \ {Chosen(U)}
  <2>1. IsSum(f, U, part(U))
    BY <1>4, <1>5
  <2>2. part(U)[U] = SumStep(f, part(U), U)
    <3> HIDE DEF part
    <3> QED BY <2>1 DEF IsSum
  <2>3. CASE U = {}
    BY <2>2, <2>3 DEF SumStep
  <2>4. CASE U # {}
    <3>1. V \in SUBSET U /\ V \in SUBSET T /\ V # T /\ IsFiniteSet(U)
      <4>1. Chosen(U) \in U
        BY <2>4, ChosenIn
      <4> QED BY <1>3, <4>1, FS_Subset
    <3>2. IsSum(f, V, part(V))
      BY <1>4, <3>1
    <3>3. part(U)[V] = part(V)[V]
      <4> HIDE DEF part, V
      <4> QED BY <2>1, <3>1, <3>2, SumUnique
    <3> QED BY <2>2, <2>4, <3>3 DEF SumStep
  <2> QED BY <2>3, <2>4
<1>6. ASSUME NEW U \in SUBSET T PROVE total(U) = SumStep(f, whole, U)
  <2> DEFINE V == U \ {Chosen(U)}
  <2>1. CASE U = {}
    BY <2>1 DEF SumStep
  <2>2. CASE U # {}
    <3>1. V \in SUBSET T /\ V # T
      BY <2>2, ChosenIn
    <3>2. whole[V] = total(V)
      <4> HIDE DEF total, V
      <4> QED BY <3>1
    <3>3. whole[V] = part(V)[V]
      <4> HIDE DEF total, whole, part
      <4> QED BY <1>5, <3>1, <3>2
    <3> HIDE DEF whole, part
    <3> QED BY <2>2, <3>3 DEF SumStep
  <2> QED BY <2>1, <2>2
<1>7. IsSum(f, T, whole)
  <2>1. whole = [U \in SUBSET T |-> total(U)]
    OBVIOUS
  <2> HIDE DEF whole, total
  <2> QED BY <1>6, <2>1 DEF IsSum
<1> QED BY <1>3, <1>7

-----------------------------------------------------------------------------
(* What a total is, and how it moves *)

\* The total of nothing is zero, another total is that of its first element
\* and the rest: the recursive definition, as an equation.
THEOREM SumDef ==
  ASSUME NEW f, NEW S, IsFiniteSet(S)
  PROVE  SumFunctionOnSet(f, S) =
           IF S = {} THEN 0
           ELSE f[Chosen(S)] + SumFunctionOnSet(f, S \ {Chosen(S)})
<1> DEFINE part(U) == CHOOSE h : IsSum(f, U, h)
           R == S \ {Chosen(S)}
<1>1. IsSum(f, S, part(S))
  BY SumExists
<1>2. SumFunctionOnSet(f, S) = part(S)[S]
  BY SumIsChosen
<1>3. part(S)[S] = SumStep(f, part(S), S)
  <2> HIDE DEF part
  <2> QED BY <1>1 DEF IsSum
<1>4. CASE S = {}
  BY <1>2, <1>3, <1>4 DEF SumStep
<1>5. CASE S # {}
  <2>1. R \in SUBSET S /\ IsFiniteSet(R)
    BY FS_Subset
  <2>2. IsSum(f, R, part(R))
    <3> HIDE DEF R
    <3> QED BY <2>1, SumExists
  <2>3. SumFunctionOnSet(f, R) = part(R)[R]
    <3> HIDE DEF R
    <3> QED BY SumIsChosen
  <2>4. part(S)[R] = part(R)[R]
    <3> HIDE DEF R, part
    <3> QED BY <1>1, <2>1, <2>2, SumUnique
  <2> HIDE DEF part
  <2> QED BY <1>2, <1>3, <1>5, <2>3, <2>4 DEF SumStep
<1> QED BY <1>4, <1>5

LEMMA SumEmpty == ASSUME NEW f PROVE SumFunctionOnSet(f, {}) = 0
  BY SumDef, FS_EmptySet

\* Whole amounts add up to a whole amount.
LEMMA SumInt ==
  ASSUME NEW f, NEW S, IsFiniteSet(S), \A x \in S : f[x] \in Int
  PROVE  SumFunctionOnSet(f, S) \in Int
<1> DEFINE B == {T \in SUBSET S : SumFunctionOnSet(f, T) \notin Int}
<1>1. SUFFICES ASSUME B # {} PROVE FALSE
  OBVIOUS
<1>2. PICK T \in B : \A U \in SUBSET T : U # T => U \notin B
  <2> HIDE DEF B
  <2>1. B \in SUBSET (SUBSET S)
    BY DEF B
  <2> QED BY <1>1, <2>1, SmallestSubset
<1>3. T \in SUBSET S /\ IsFiniteSet(T) /\ SumFunctionOnSet(f, T) \notin Int
  BY FS_Subset
<1>4. CASE T = {}
  BY <1>3, <1>4, SumEmpty
<1>5. CASE T # {}
  <2>1. Chosen(T) \in T
    BY <1>5, ChosenIn
  <2>2. SumFunctionOnSet(f, T \ {Chosen(T)}) \in Int
    BY <1>2, <1>3, <2>1
  <2>3. f[Chosen(T)] \in Int
    BY <1>3, <2>1
  <2> QED BY <1>3, <1>5, <2>2, <2>3, SumDef
<1> QED BY <1>4, <1>5

\* Any element may be taken out first.
THEOREM SumRemove ==
  ASSUME NEW f, NEW S, IsFiniteSet(S), \A x \in S : f[x] \in Int, NEW e \in S
  PROVE  SumFunctionOnSet(f, S) = f[e] + SumFunctionOnSet(f, S \ {e})
<1> DEFINE Sum(T) == SumFunctionOnSet(f, T)
           B == {T \in SUBSET S : \E x \in T : Sum(T) # f[x] + Sum(T \ {x})}
<1>1. SUFFICES ASSUME B # {} PROVE FALSE
  <2> SUFFICES ASSUME Sum(S) # f[e] + Sum(S \ {e}) PROVE S \in B
    OBVIOUS
  <2> QED OBVIOUS
<1>2. PICK T \in B : \A U \in SUBSET T : U # T => U \notin B
  <2> HIDE DEF B
  <2>1. B \in SUBSET (SUBSET S)
    BY DEF B
  <2> QED BY <1>1, <2>1, SmallestSubset
<1>3. T \in SUBSET S /\ IsFiniteSet(T)
  BY FS_Subset
<1>4. PICK x \in T : Sum(T) # f[x] + Sum(T \ {x})
  BY <1>2
<1> DEFINE c == Chosen(T)
<1>5. c \in T /\ Sum(T) = f[c] + Sum(T \ {c})
  BY <1>3, ChosenIn, SumDef
<1>6. x # c
  BY <1>4, <1>5
<1>7. \A U \in SUBSET T : Sum(U) \in Int
  <2> TAKE U \in SUBSET T
  <2> QED BY <1>3, FS_Subset, SumInt
<1>8. Sum(T \ {c}) = f[x] + Sum((T \ {c}) \ {x})
  <2>1. T \ {c} \in SUBSET T /\ T \ {c} # T /\ T \ {c} \in SUBSET S /\ x \in T \ {c}
    BY <1>3, <1>5, <1>6
  <2> HIDE DEF Sum, c
  <2> QED BY <1>2, <2>1
<1>9. Sum(T \ {x}) = f[c] + Sum((T \ {x}) \ {c})
  <2>1. T \ {x} \in SUBSET T /\ T \ {x} # T /\ T \ {x} \in SUBSET S /\ c \in T \ {x}
    BY <1>3, <1>5, <1>6
  <2> HIDE DEF Sum, c
  <2> QED BY <1>2, <2>1
<1>10. (T \ {x}) \ {c} = (T \ {c}) \ {x}
  OBVIOUS
<1>11. f[c] \in Int /\ f[x] \in Int /\ Sum((T \ {c}) \ {x}) \in Int
  <2> HIDE DEF Sum, c
  <2> QED BY <1>3, <1>5, <1>7
<1>12. Sum(T \ {x}) = f[c] + Sum((T \ {c}) \ {x})
  <2> HIDE DEF Sum, c
  <2> QED BY <1>9, <1>10, Zenon
<1>13. Sum(T) = f[c] + (f[x] + Sum((T \ {c}) \ {x}))
  <2> HIDE DEF Sum, c
  <2> QED BY <1>5, <1>8, Zenon
<1>14. Sum(T) = f[x] + (f[c] + Sum((T \ {c}) \ {x}))
  <2> DEFINE rest == Sum((T \ {c}) \ {x})
             a == f[c]
             b == f[x]
  <2>1. Sum(T) = a + (b + rest) /\ a \in Int /\ b \in Int /\ rest \in Int
    BY <1>11, <1>13, Zenon
  <2> HIDE DEF Sum, a, b, rest
  <2>2. Sum(T) = b + (a + rest)
    BY <2>1
  <2> QED BY <2>2 DEF a, b, rest
<1> HIDE DEF Sum, c, B
<1> QED BY <1>4, <1>12, <1>14, Zenon

\* Adding an element adds its value.
LEMMA SumAdd ==
  ASSUME NEW f, NEW S, IsFiniteSet(S), NEW e, e \notin S,
         \A x \in S \cup {e} : f[x] \in Int
  PROVE  SumFunctionOnSet(f, S \cup {e}) = f[e] + SumFunctionOnSet(f, S)
<1>1. (S \cup {e}) \ {e} = S /\ e \in S \cup {e} /\ IsFiniteSet(S \cup {e})
  BY FS_AddElement
<1>2. SumFunctionOnSet(f, S \cup {e}) = f[e] + SumFunctionOnSet(f, (S \cup {e}) \ {e})
  <2> DEFINE U == S \cup {e}
  <2>1. IsFiniteSet(U) /\ e \in U /\ \A x \in U : f[x] \in Int
    BY <1>1
  <2> HIDE DEF U
  <2>2. SumFunctionOnSet(f, U) = f[e] + SumFunctionOnSet(f, U \ {e})
    BY <2>1, SumRemove
  <2> QED BY <2>2 DEF U
<1> QED BY <1>1, <1>2, Zenon

\* Totals depend on the values of their elements only.
LEMMA SumAgree ==
  ASSUME NEW f, NEW g, NEW S, IsFiniteSet(S), \A x \in S : f[x] = g[x]
  PROVE  SumFunctionOnSet(f, S) = SumFunctionOnSet(g, S)
<1> DEFINE B == {T \in SUBSET S : SumFunctionOnSet(f, T) # SumFunctionOnSet(g, T)}
<1>1. SUFFICES ASSUME B # {} PROVE FALSE
  OBVIOUS
<1>2. PICK T \in B : \A U \in SUBSET T : U # T => U \notin B
  <2> HIDE DEF B
  <2>1. B \in SUBSET (SUBSET S)
    BY DEF B
  <2> QED BY <1>1, <2>1, SmallestSubset
<1>3. T \in SUBSET S /\ IsFiniteSet(T) /\ SumFunctionOnSet(f, T) # SumFunctionOnSet(g, T)
  BY FS_Subset
<1>4. CASE T = {}
  BY <1>3, <1>4, SumEmpty
<1>5. CASE T # {}
  <2>1. Chosen(T) \in T
    BY <1>5, ChosenIn
  <2>2. SumFunctionOnSet(f, T \ {Chosen(T)}) = SumFunctionOnSet(g, T \ {Chosen(T)})
    BY <1>2, <1>3, <2>1
  <2>3. f[Chosen(T)] = g[Chosen(T)]
    BY <1>3, <2>1
  <2> QED BY <1>3, <1>5, <2>2, <2>3, SumDef
<1> QED BY <1>4, <1>5

-----------------------------------------------------------------------------
(* Amounts that are not negative *)

LEMMA SumNat ==
  ASSUME NEW f, NEW S, IsFiniteSet(S), \A x \in S : f[x] \in Nat
  PROVE  SumFunctionOnSet(f, S) \in Nat
<1> DEFINE B == {T \in SUBSET S : SumFunctionOnSet(f, T) \notin Nat}
<1>1. SUFFICES ASSUME B # {} PROVE FALSE
  OBVIOUS
<1>2. PICK T \in B : \A U \in SUBSET T : U # T => U \notin B
  <2> HIDE DEF B
  <2>1. B \in SUBSET (SUBSET S)
    BY DEF B
  <2> QED BY <1>1, <2>1, SmallestSubset
<1>3. T \in SUBSET S /\ IsFiniteSet(T) /\ SumFunctionOnSet(f, T) \notin Nat
  BY FS_Subset
<1>4. CASE T = {}
  BY <1>3, <1>4, SumEmpty
<1>5. CASE T # {}
  <2>1. Chosen(T) \in T
    BY <1>5, ChosenIn
  <2>2. SumFunctionOnSet(f, T \ {Chosen(T)}) \in Nat
    BY <1>2, <1>3, <2>1
  <2>3. f[Chosen(T)] \in Nat
    BY <1>3, <2>1
  <2> QED BY <1>3, <1>5, <2>2, <2>3, SumDef
<1> QED BY <1>4, <1>5

\* Money taken away never makes a total larger.
THEOREM SumMonotone ==
  ASSUME NEW f, NEW S, IsFiniteSet(S), \A x \in S : f[x] \in Nat, NEW T \in SUBSET S
  PROVE  SumFunctionOnSet(f, T) <= SumFunctionOnSet(f, S)
<1> DEFINE Sum(U) == SumFunctionOnSet(f, U)
           B == {U \in SUBSET S : T \subseteq U /\ ~(Sum(T) <= Sum(U))}
<1>1. SUFFICES ASSUME B # {} PROVE FALSE
  <2> SUFFICES ASSUME ~(Sum(T) <= Sum(S)) PROVE S \in B
    OBVIOUS
  <2> QED OBVIOUS
<1>2. PICK U \in B : \A V \in SUBSET U : V # U => V \notin B
  <2> HIDE DEF B
  <2>1. B \in SUBSET (SUBSET S)
    BY DEF B
  <2> QED BY <1>1, <2>1, SmallestSubset
<1>3. U \in SUBSET S /\ T \subseteq U /\ ~(Sum(T) <= Sum(U)) /\ IsFiniteSet(U)
  BY FS_Subset
<1>4. \A V \in SUBSET S : Sum(V) \in Nat
  <2> TAKE V \in SUBSET S
  <2> QED BY FS_Subset, SumNat
<1>5. U # T
  BY <1>3, <1>4
<1>6. PICK x \in U : x \notin T
  BY <1>3, <1>5
<1>7. Sum(U) = f[x] + Sum(U \ {x})
  BY <1>3, SumRemove
<1>8. Sum(T) <= Sum(U \ {x})
  <2>1. U \ {x} \in SUBSET U /\ U \ {x} # U /\ U \ {x} \in SUBSET S /\ T \subseteq U \ {x}
    BY <1>3, <1>6
  <2> HIDE DEF Sum
  <2> QED BY <1>2, <2>1
<1>9. Sum(U \ {x}) \in Nat /\ Sum(T) \in Nat /\ f[x] \in Nat
  <2> HIDE DEF Sum
  <2> QED BY <1>3, <1>4
<1> HIDE DEF Sum, B
<1> QED BY <1>3, <1>7, <1>8, <1>9

-----------------------------------------------------------------------------
(* Totals of two sets *)

\* Money of two sets that share nothing is the money of each.
THEOREM SumUnion ==
  ASSUME NEW f, NEW S, NEW T, IsFiniteSet(S), IsFiniteSet(T), S \cap T = {},
         \A x \in S \cup T : f[x] \in Int
  PROVE  SumFunctionOnSet(f, S \cup T) = SumFunctionOnSet(f, S) + SumFunctionOnSet(f, T)
<1> DEFINE Sum(U) == SumFunctionOnSet(f, U)
           B == {U \in SUBSET T : Sum(S \cup U) # Sum(S) + Sum(U)}
<1>1. SUFFICES ASSUME B # {} PROVE FALSE
  <2> SUFFICES ASSUME Sum(S \cup T) # Sum(S) + Sum(T) PROVE T \in B
    OBVIOUS
  <2> QED OBVIOUS
<1>2. PICK U \in B : \A V \in SUBSET U : V # U => V \notin B
  <2> HIDE DEF B
  <2>1. B \in SUBSET (SUBSET T)
    BY DEF B
  <2> QED BY <1>1, <2>1, SmallestSubset
<1>3. U \in SUBSET T /\ Sum(S \cup U) # Sum(S) + Sum(U)
  OBVIOUS
<1>4. IsFiniteSet(U) /\ IsFiniteSet(S \cup U)
  BY <1>3, FS_Subset, FS_Union
<1>5. Sum(S) \in Int /\ \A V \in SUBSET T : Sum(V) \in Int /\ Sum(S \cup V) \in Int
  <2>1. Sum(S) \in Int
    BY SumInt
  <2>2. ASSUME NEW V \in SUBSET T PROVE Sum(V) \in Int /\ Sum(S \cup V) \in Int
    <3>1. IsFiniteSet(V) /\ IsFiniteSet(S \cup V) /\ \A x \in S \cup V : f[x] \in Int
      BY FS_Subset, FS_Union
    <3> QED BY <3>1, SumInt
  <2> QED BY <2>1, <2>2
<1>6. U # {}
  <2> SUFFICES ASSUME U = {} PROVE FALSE
    OBVIOUS
  <2>1. S \cup U = S /\ Sum(U) = 0
    BY SumEmpty
  <2>2. Sum(S \cup U) = Sum(S)
    BY <2>1
  <2> HIDE DEF Sum
  <2> QED BY <1>3, <1>5, <2>1, <2>2
<1>7. PICK e : e \in U
  BY <1>6
<1>8. Sum(U) = f[e] + Sum(U \ {e})
  BY <1>3, <1>4, <1>7, SumRemove
<1>9. Sum(S \cup U) = f[e] + Sum(S \cup (U \ {e}))
  <2>1. (S \cup U) \ {e} = S \cup (U \ {e}) /\ e \in S \cup U /\ \A x \in S \cup U : f[x] \in Int
    BY <1>3, <1>7
  <2>2. Sum(S \cup U) = f[e] + Sum((S \cup U) \ {e})
    BY <1>4, <2>1, SumRemove
  <2> HIDE DEF Sum
  <2> QED BY <2>1, <2>2, Zenon
<1>10. Sum(S \cup (U \ {e})) = Sum(S) + Sum(U \ {e})
  <2>1. U \ {e} \in SUBSET U /\ U \ {e} # U /\ U \ {e} \in SUBSET T
    BY <1>3, <1>7
  <2> HIDE DEF Sum
  <2> QED BY <1>2, <2>1
<1>11. PICK a \in Int, b \in Int, c \in Int :
            a = Sum(S) /\ b = Sum(U \ {e}) /\ c = f[e]
  <2>1. U \ {e} \in SUBSET T /\ f[e] \in Int
    BY <1>3, <1>7
  <2> HIDE DEF Sum
  <2> QED BY <1>5, <2>1
<1> HIDE DEF Sum, B
<1>12. Sum(S \cup U) = c + (a + b) /\ Sum(U) = c + b
  BY <1>8, <1>9, <1>10, <1>11
<1>13. Sum(S \cup U) # a + (c + b)
  BY <1>3, <1>11, <1>12
<1> QED BY <1>12, <1>13

LEMMA SumNotPositive ==
  ASSUME NEW f, NEW S, IsFiniteSet(S), \A x \in S : f[x] \in Int /\ f[x] <= 0
  PROVE  SumFunctionOnSet(f, S) <= 0
<1> DEFINE Sum(U) == SumFunctionOnSet(f, U)
           B == {T \in SUBSET S : ~(Sum(T) <= 0)}
<1>1. SUFFICES ASSUME B # {} PROVE FALSE
  <2> SUFFICES ASSUME ~(Sum(S) <= 0) PROVE S \in B
    OBVIOUS
  <2> QED OBVIOUS
<1>2. PICK T \in B : \A U \in SUBSET T : U # T => U \notin B
  <2> HIDE DEF B
  <2>1. B \in SUBSET (SUBSET S)
    BY DEF B
  <2> QED BY <1>1, <2>1, SmallestSubset
<1>3. T \in SUBSET S /\ IsFiniteSet(T) /\ ~(Sum(T) <= 0)
  BY FS_Subset
<1>4. T # {}
  <2> SUFFICES ASSUME T = {} PROVE FALSE
    OBVIOUS
  <2>1. Sum(T) = 0
    BY SumEmpty
  <2> HIDE DEF Sum
  <2> QED BY <1>3, <2>1
<1>5. PICK e : e \in T
  BY <1>4
<1>6. Sum(T) = f[e] + Sum(T \ {e})
  BY <1>3, <1>5, SumRemove
<1>7. T \ {e} \in SUBSET T /\ T \ {e} # T /\ T \ {e} \in SUBSET S
  BY <1>3, <1>5
<1>8. Sum(T \ {e}) \in Int
  BY <1>7, FS_Subset, SumInt
<1>9. Sum(T \ {e}) <= 0 /\ f[e] \in Int /\ f[e] <= 0
  <2> HIDE DEF Sum
  <2> QED BY <1>2, <1>3, <1>5, <1>7
<1>10. PICK a \in Int, b \in Int : a = f[e] /\ b = Sum(T \ {e}) /\ a <= 0 /\ b <= 0
  <2> HIDE DEF Sum
  <2> QED BY <1>8, <1>9
<1> HIDE DEF Sum, B
<1>11. Sum(T) = a + b
  BY <1>6, <1>10
<1> QED BY <1>3, <1>10, <1>11

\* Trading what only takes away for what only adds makes a total no smaller.
THEOREM SumTrade ==
  ASSUME NEW f, NEW S, NEW T, IsFiniteSet(S), IsFiniteSet(T), \A x \in S \cup T : f[x] \in Int,
         \A x \in S \ T : f[x] <= 0, \A x \in T \ S : f[x] >= 0
  PROVE  SumFunctionOnSet(f, S) <= SumFunctionOnSet(f, T)
<1> DEFINE Sum(U) == SumFunctionOnSet(f, U)
           C == S \cap T
           L == S \ T
           M == T \ S
<1>1. IsFiniteSet(C) /\ IsFiniteSet(L) /\ IsFiniteSet(M)
  BY FS_Subset
<1>2. C \cup L = S /\ C \cup M = T /\ C \cap L = {} /\ C \cap M = {}
  OBVIOUS
<1>3. /\ \A x \in C \cup L : f[x] \in Int
      /\ \A x \in C \cup M : f[x] \in Int
      /\ \A x \in L : f[x] \in Int /\ f[x] <= 0
      /\ \A x \in M : f[x] \in Nat
  OBVIOUS
<1> HIDE DEF C, L, M
<1>4. Sum(C \cup L) = Sum(C) + Sum(L)
  BY <1>1, <1>2, <1>3, SumUnion
<1>5. Sum(C \cup M) = Sum(C) + Sum(M)
  BY <1>1, <1>2, <1>3, SumUnion
<1>6. Sum(C) \in Int /\ Sum(L) \in Int /\ Sum(L) <= 0 /\ Sum(M) \in Nat
  BY <1>1, <1>3, SumInt, SumNat, SumNotPositive
<1> HIDE DEF Sum
<1>7. Sum(S) = Sum(C) + Sum(L) /\ Sum(T) = Sum(C) + Sum(M)
  BY <1>2, <1>4, <1>5, Zenon
<1>8. Sum(S) <= Sum(T)
  <2>1. PICK a \in Int, b \in Int, c \in Nat : a = Sum(C) /\ b = Sum(L) /\ c = Sum(M) /\ b <= 0
    BY <1>6
  <2>2. Sum(S) = a + b /\ Sum(T) = a + c
    BY <1>7, <2>1
  <2> QED BY <2>1, <2>2
<1> QED BY <1>8 DEF Sum
=============================================================================
