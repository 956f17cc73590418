-------------------------- MODULE FiniteSetLemmas --------------------------
(***************************************************************************)
(* Least and greatest elements, and sums over finite sets, for the proofs  *)
(* about cursors, horizons and minutes. An induction is made by choosing a *)
(* counterexample that is least in a well-founded ordering.                *)
(***************************************************************************)
EXTENDS Integers, FiniteSets, FiniteSetTheorems, FiniteSetsExt, TLAPS

\* Every nonempty collection of finite subsets of a set has a smallest member.
LEMMA SmallestSet ==
  ASSUME NEW S, NEW C, C \subseteq FiniteSubsetsOf(S), C # {}
  PROVE  \E U \in C : \A V \in C : V \subseteq U => V = U
<1> DEFINE R == StrictSubsetOrdering(S)
           D == FiniteSubsetsOf(S)
<1>1. IsWellFoundedOn(R, D)
  BY FS_StrictSubsetOrderingWellFounded
<1>2. PICK U \in C : \A V \in C : <<V, U>> \notin R
  <2>1. C \subseteq D
    OBVIOUS
  <2> HIDE DEF R, D
  <2>2. QED
    BY <1>1, <2>1, WFMin, Zenon
<1>3. QED
  BY <1>2 DEF StrictSubsetOrdering, FiniteSubsetsOf

\* A nonempty finite set of integers has a greatest element.
LEMMA MaxOfFinite ==
  ASSUME NEW S \in SUBSET Int, S # {}, IsFiniteSet(S)
  PROVE  Max(S) \in S /\ \A y \in S : y <= Max(S)
<1> DEFINE HasGreatest(U) == \E x \in U : \A y \in U : x >= y
           Bad == {U \in SUBSET S : U # {} /\ ~HasGreatest(U)}
<1>1. HasGreatest(S)
  <2> SUFFICES ASSUME Bad # {} PROVE FALSE
    OBVIOUS
  <2>1. Bad \subseteq FiniteSubsetsOf(S)
    BY FS_Subset DEF FiniteSubsetsOf
  <2>2. PICK U \in Bad : \A V \in Bad : V \subseteq U => V = U
    <3> HIDE DEF Bad, HasGreatest
    <3>1. QED
      BY <2>1, SmallestSet
  <2>3. PICK x \in U : TRUE
    OBVIOUS
  <2>4. U \ {x} \notin Bad /\ x \in Int /\ U \subseteq Int
    BY <2>2
  <2>5. CASE U = {x}
    BY <2>4, <2>5
  <2>6. CASE U # {x}
    <3>1. PICK m \in U \ {x} : \A y \in U \ {x} : m >= y
      BY <2>4, <2>6
    <3>2. CASE m >= x
      <4>1. \A y \in U : m >= y
        BY <3>1, <3>2, <2>4
      <4>2. QED
        BY <4>1
    <3>3. CASE x > m
      <4>1. \A y \in U : x >= y
        BY <3>1, <3>3, <2>4
      <4>2. QED
        BY <4>1
    <3>4. QED
      BY <3>2, <3>3, <2>4
  <2>7. QED
    BY <2>5, <2>6
<1>2. PICK x \in S : \A y \in S : x >= y
  BY <1>1
<1>3. Max(S) \in S /\ \A y \in S : Max(S) >= y
  BY <1>2 DEF Max
<1>4. QED
  BY <1>3

\* A nonempty set of naturals with an upper bound has a greatest element.
LEMMA MaxOfBounded ==
  ASSUME NEW S \in SUBSET Nat, S # {}, NEW n \in Nat, \A x \in S : x <= n
  PROVE  Max(S) \in S /\ \A y \in S : y <= Max(S)
BY FS_BoundedSetOfNaturals, MaxOfFinite

\* A nonempty set of naturals has a least element.
LEMMA MinOfNaturals ==
  ASSUME NEW S \in SUBSET Nat, S # {}
  PROVE  Min(S) \in S /\ \A y \in S : Min(S) <= y
<1>1. PICK n \in S : TRUE
  OBVIOUS
<1> DEFINE D == {d \in 0 .. n : n - d \in S}
<1>2. D \in SUBSET Nat /\ 0 \in D /\ \A x \in D : x <= n
  BY <1>1
<1>3. Max(D) \in D /\ \A y \in D : y <= Max(D)
  <2> HIDE DEF D
  <2>1. QED
    BY <1>1, <1>2, MaxOfBounded
<1> DEFINE m == n - Max(D)
<1>4. m \in S
  BY <1>3
<1>5. ASSUME NEW y \in S PROVE m <= y
  <2>1. CASE y <= n
    <3>1. n - y \in D
      BY <2>1
    <3>2. n - y <= Max(D)
      BY <1>3, <3>1
    <3>3. QED
      BY <1>3, <3>2
  <2>2. CASE y > n
    BY <1>3, <2>2
  <2>3. QED
    BY <2>1, <2>2
<1>6. Min(S) \in S /\ \A y \in S : Min(S) =< y
  BY <1>4, <1>5 DEF Min
<1>7. QED
  BY <1>6

-----------------------------------------------------------------------------
(***************************************************************************)
(* Sums over finite sets. MapThenSumSet takes the members in an order of   *)
(* its own; that a member may be split off in any order is proved here.    *)
(***************************************************************************)
Total(f, S) == MapThenSumSet(LAMBDA x : f[x], S)

Pick(s) == CHOOSE x \in s : TRUE
Rest(s) == s \ {Pick(s)}

\* The function on the subsets of S that the sum over S is defined by.
Sums(f, S, g) ==
  g = [s \in SUBSET S |-> IF s = {} THEN 0 ELSE f[Pick(s)] + g[Rest(s)]]

SumsOf(f, S) == CHOOSE g : Sums(f, S, g)

LEMMA RestFacts ==
  ASSUME NEW s, s # {}
  PROVE  Pick(s) \in s /\ Rest(s) \subseteq s /\ Rest(s) # s
BY DEF Pick, Rest

LEMMA TotalIsSum == ASSUME NEW f, NEW S PROVE Total(f, S) = SumsOf(f, S)[S]
BY DEF Total, MapThenSumSet, MapThenFoldSet, SumsOf, Sums, Pick, Rest

\* Two such functions agree on what they have in common.
LEMMA SumsAgree ==
  ASSUME NEW f, NEW S, IsFiniteSet(S), NEW T \in SUBSET S,
         NEW g, Sums(f, S, g), NEW h, Sums(f, T, h)
  PROVE  \A s \in SUBSET T : g[s] = h[s]
<1> DEFINE Bad == {s \in SUBSET T : g[s] # h[s]}
<1> SUFFICES ASSUME Bad # {} PROVE FALSE
  OBVIOUS
<1>1. Bad \subseteq FiniteSubsetsOf(S)
  BY FS_Subset DEF FiniteSubsetsOf
<1>2. PICK s \in Bad : \A t \in Bad : t \subseteq s => t = s
  <2> HIDE DEF Bad
  <2>1. QED
    BY <1>1, SmallestSet
<1>3. /\ g[s] = IF s = {} THEN 0 ELSE f[Pick(s)] + g[Rest(s)]
      /\ h[s] = IF s = {} THEN 0 ELSE f[Pick(s)] + h[Rest(s)]
  BY DEF Sums
<1>4. s # {}
  BY <1>3
<1>5. g[Rest(s)] = h[Rest(s)]
  BY <1>2, <1>4, RestFacts
<1>6. QED
  BY <1>3, <1>4, <1>5

\* There is such a function.
LEMMA SumsExist ==
  ASSUME NEW f, NEW S, IsFiniteSet(S)
  PROVE  Sums(f, S, SumsOf(f, S))
<1> DEFINE Bad == {U \in SUBSET S : ~\E g : Sums(f, U, g)}
<1>1. Bad = {}
  <2> SUFFICES ASSUME Bad # {} PROVE FALSE
    OBVIOUS
  <2>1. Bad \subseteq FiniteSubsetsOf(S)
    BY FS_Subset DEF FiniteSubsetsOf
  <2>2. PICK U \in Bad : \A V \in Bad : V \subseteq U => V = U
    <3> HIDE DEF Bad
    <3>1. QED
      BY <2>1, SmallestSet
  <2>3. \A V \in SUBSET U : V # U => IsFiniteSet(V) /\ Sums(f, V, SumsOf(f, V))
    BY <2>2, FS_Subset DEF SumsOf
  <2> DEFINE w == [s \in SUBSET U |-> IF s = {} THEN 0
                                     ELSE f[Pick(s)] + SumsOf(f, Rest(s))[Rest(s)]]
  <2>4. ASSUME NEW s \in SUBSET U, s # {} PROVE w[Rest(s)] = SumsOf(f, Rest(s))[Rest(s)]
    <3> DEFINE T == Rest(s)
               g == SumsOf(f, T)
    <3>1. T \in SUBSET U /\ T # U /\ T \in SUBSET S
      BY <2>4, RestFacts
    <3>2. Sums(f, T, g) /\ IsFiniteSet(T)
      BY <2>3, <3>1
    <3>3. g[T] = IF T = {} THEN 0 ELSE f[Pick(T)] + g[Rest(T)]
      <4> HIDE DEF g, T
      <4>1. QED
        BY <3>2 DEF Sums
    <3>4. T # {} => g[Rest(T)] = SumsOf(f, Rest(T))[Rest(T)]
      <4> SUFFICES ASSUME T # {} PROVE g[Rest(T)] = SumsOf(f, Rest(T))[Rest(T)]
        OBVIOUS
      <4> HIDE DEF T
      <4>1. Rest(T) \in SUBSET T /\ Rest(T) # U /\ Rest(T) \in SUBSET U
        BY <3>1, RestFacts
      <4>2. Sums(f, Rest(T), SumsOf(f, Rest(T)))
        BY <2>3, <4>1
      <4> HIDE DEF g
      <4>3. QED
        BY <3>2, <4>1, <4>2, SumsAgree
    <3>5. w[T] = IF T = {} THEN 0 ELSE f[Pick(T)] + SumsOf(f, Rest(T))[Rest(T)]
      <4> HIDE DEF T
      <4>1. QED
        BY <3>1
    <3> HIDE DEF w, T, g
    <3>6. w[T] = g[T]
      BY <3>3, <3>4, <3>5
    <3>7. QED
      BY <3>6 DEF T, g
  <2>5. Sums(f, U, w)
    <3>1. \A s \in SUBSET U : (IF s = {} THEN 0 ELSE f[Pick(s)] + SumsOf(f, Rest(s))[Rest(s)])
                           = (IF s = {} THEN 0 ELSE f[Pick(s)] + w[Rest(s)])
      <4> HIDE DEF w
      <4>1. QED
        BY <2>4
    <3>2. w = [s \in SUBSET U |-> IF s = {} THEN 0 ELSE f[Pick(s)] + SumsOf(f, Rest(s))[Rest(s)]]
      OBVIOUS
    <3> HIDE DEF w
    <3>3. w = [s \in SUBSET U |-> IF s = {} THEN 0 ELSE f[Pick(s)] + w[Rest(s)]]
      BY <3>1, <3>2
    <3>4. QED
      BY <3>3 DEF Sums
  <2>6. QED
    <3> HIDE DEF w
    <3>1. QED
      BY <2>5
<1>2. \E g : Sums(f, S, g)
  BY <1>1
<1>3. QED
  BY <1>2 DEF SumsOf

LEMMA TotalEmpty == ASSUME NEW f PROVE Total(f, {}) = 0
<1>1. IsFiniteSet({})
  BY FS_EmptySet
<1>2. Sums(f, {}, SumsOf(f, {}))
  BY <1>1, SumsExist
<1>3. SumsOf(f, {})[{}] = 0
  <2> DEFINE g == SumsOf(f, {})
  <2>1. Sums(f, {}, g)
    BY <1>2
  <2> HIDE DEF g
  <2>2. g[{}] = 0
    BY <2>1 DEF Sums
  <2>3. QED
    BY <2>2 DEF g
<1>4. QED
  BY <1>3, TotalIsSum

LEMMA TotalPick ==
  ASSUME NEW f, NEW S, IsFiniteSet(S), S # {}
  PROVE  Total(f, S) = f[Pick(S)] + Total(f, Rest(S))
<1> DEFINE g == SumsOf(f, S)
           h == SumsOf(f, Rest(S))
<1>1. Rest(S) \in SUBSET S /\ IsFiniteSet(Rest(S))
  BY RestFacts, FS_Subset
<1>2. Sums(f, S, g) /\ Sums(f, Rest(S), h)
  BY <1>1, SumsExist
<1>3. Total(f, S) = g[S] /\ Total(f, Rest(S)) = h[Rest(S)]
  BY TotalIsSum
<1> HIDE DEF g, h
<1>4. g[S] = f[Pick(S)] + g[Rest(S)]
  BY <1>2 DEF Sums
<1>5. g[Rest(S)] = h[Rest(S)]
  BY <1>1, <1>2, SumsAgree
<1>6. QED
  BY <1>3, <1>4, <1>5

LEMMA TotalType ==
  ASSUME NEW X, NEW f \in [X -> Nat], NEW S \in SUBSET X, IsFiniteSet(S)
  PROVE  Total(f, S) \in Nat
<1> DEFINE Bad == {U \in SUBSET S : Total(f, U) \notin Nat}
<1> SUFFICES ASSUME Bad # {} PROVE FALSE
  OBVIOUS
<1>1. Bad \subseteq FiniteSubsetsOf(S)
  BY FS_Subset DEF FiniteSubsetsOf
<1>2. PICK U \in Bad : \A V \in Bad : V \subseteq U => V = U
  <2> HIDE DEF Bad
  <2>1. QED
    BY <1>1, SmallestSet
<1>3. U # {} /\ U \in SUBSET S /\ IsFiniteSet(U)
  <2>1. Total(f, {}) \in Nat
    BY TotalEmpty
  <2>2. QED
    BY <2>1, FS_Subset
<1>4. Total(f, Rest(U)) \in Nat
  BY <1>2, <1>3, RestFacts
<1>5. f[Pick(U)] \in Nat
  BY <1>3, RestFacts
<1>6. QED
  BY <1>3, <1>4, <1>5, TotalPick

\* Any member may be taken out of a sum.
LEMMA TotalRemove ==
  ASSUME NEW X, NEW f \in [X -> Nat], NEW S \in SUBSET X, IsFiniteSet(S), NEW x \in S
  PROVE  Total(f, S) = f[x] + Total(f, S \ {x})
<1> DEFINE Splits(U) == \A y \in U : Total(f, U) = f[y] + Total(f, U \ {y})
           Bad == {U \in SUBSET S : ~Splits(U)}
<1> SUFFICES ASSUME Bad # {} PROVE FALSE
  OBVIOUS
<1>1. Bad \subseteq FiniteSubsetsOf(S)
  BY FS_Subset DEF FiniteSubsetsOf
<1>2. PICK U \in Bad : \A V \in Bad : V \subseteq U => V = U
  <2> HIDE DEF Bad
  <2>1. QED
    BY <1>1, SmallestSet
<1>3. PICK y \in U : Total(f, U) # f[y] + Total(f, U \ {y})
  OBVIOUS
<1> DEFINE p == Pick(U)
<1>4. /\ p \in U /\ U \in SUBSET S /\ IsFiniteSet(U)
      /\ Total(f, U) = f[p] + Total(f, U \ {p})
  BY <1>3, RestFacts, FS_Subset, TotalPick DEF Rest
<1> HIDE DEF p
<1>5. p # y
  BY <1>3, <1>4
<1>6. U \ {p} \notin Bad /\ U \ {y} \notin Bad
  BY <1>2, <1>4
<1>7. /\ Total(f, U \ {p}) = f[y] + Total(f, (U \ {p}) \ {y})
      /\ Total(f, U \ {y}) = f[p] + Total(f, (U \ {y}) \ {p})
  BY <1>4, <1>5, <1>6
<1>8. (U \ {p}) \ {y} = (U \ {y}) \ {p}
  OBVIOUS
<1>9. f[p] \in Nat /\ f[y] \in Nat /\ Total(f, (U \ {y}) \ {p}) \in Nat
  <2>1. (U \ {y}) \ {p} \in SUBSET X /\ IsFiniteSet((U \ {y}) \ {p})
    BY <1>4, FS_Subset
  <2>2. QED
    BY <1>4, <2>1, TotalType
<1> DEFINE rest == Total(f, (U \ {y}) \ {p})
<1>10. Total(f, U) = f[p] + (f[y] + rest) /\ f[y] + Total(f, U \ {y}) = f[y] + (f[p] + rest)
  BY <1>4, <1>7, <1>8
<1>11. f[p] + (f[y] + rest) = f[y] + (f[p] + rest)
  <2> HIDE DEF rest
  <2>1. rest \in Nat
    BY <1>9 DEF rest
  <2>2. QED
    BY <1>9, <2>1
<1>12. QED
  BY <1>3, <1>10, <1>11

LEMMA TotalAdd ==
  ASSUME NEW X, NEW f \in [X -> Nat], NEW S \in SUBSET X, IsFiniteSet(S), NEW x \in X \ S
  PROVE  Total(f, S \cup {x}) = Total(f, S) + f[x]
<1>1. /\ S \cup {x} \in SUBSET X /\ IsFiniteSet(S \cup {x})
      /\ (S \cup {x}) \ {x} = S /\ x \in S \cup {x}
  BY FS_AddElement
<1>2. Total(f, S \cup {x}) = f[x] + Total(f, S)
  BY <1>1, TotalRemove
<1>3. Total(f, S) \in Nat /\ f[x] \in Nat
  BY TotalType
<1>4. QED
  BY <1>2, <1>3

\* A sum grows with its set.
LEMMA TotalSubset ==
  ASSUME NEW X, NEW f \in [X -> Nat], NEW S \in SUBSET X, IsFiniteSet(S), NEW T \in SUBSET S
  PROVE  Total(f, T) <= Total(f, S)
<1> DEFINE Bad == {U \in SUBSET S : T \subseteq U /\ ~(Total(f, T) <= Total(f, U))}
<1>1. \A U \in SUBSET S : U \in SUBSET X /\ IsFiniteSet(U) /\ Total(f, U) \in Nat
  BY FS_Subset, TotalType
<1> SUFFICES ASSUME Bad # {} PROVE FALSE
  OBVIOUS
<1>2. Bad \subseteq FiniteSubsetsOf(S)
  BY <1>1 DEF FiniteSubsetsOf
<1>3. PICK U \in Bad : \A V \in Bad : V \subseteq U => V = U
  <2> HIDE DEF Bad
  <2>1. QED
    BY <1>2, SmallestSet
<1>4. U # T
  BY <1>1
<1>5. PICK x \in U : x \notin T
  BY <1>4
<1>6. U \ {x} \in SUBSET S /\ T \subseteq U \ {x} /\ U \ {x} \notin Bad
  BY <1>3, <1>5
<1>7. Total(f, T) <= Total(f, U \ {x})
  BY <1>6
<1>8. Total(f, U) = f[x] + Total(f, U \ {x})
  BY <1>1, TotalRemove
<1>9. f[x] \in Nat /\ Total(f, U \ {x}) \in Nat /\ Total(f, T) \in Nat
  BY <1>1, <1>6
<1>10. Total(f, T) <= Total(f, U)
  BY <1>7, <1>8, <1>9
<1>11. QED
  BY <1>10

\* A sum over S is at most one over E, if every member of S is the end of a
\* member of E that weighs as much.
LEMMA TotalByEnds ==
  ASSUME NEW X, NEW f \in [X -> Nat], NEW S \in SUBSET X, IsFiniteSet(S),
         NEW Y, NEW g \in [Y -> Nat], NEW E \in SUBSET Y, IsFiniteSet(E),
         \A x \in S : \E e \in E : e[2] = x /\ g[e] = f[x]
  PROVE  Total(f, S) <= Total(g, E)
<1> DEFINE Into(U) == {e \in E : e[2] \in U}
           Bad == {U \in SUBSET S : ~(Total(f, U) <= Total(g, Into(U)))}
<1>1. \A U \in SUBSET S : U \in SUBSET X /\ IsFiniteSet(U) /\ Total(f, U) \in Nat
  BY FS_Subset, TotalType
<1>2. \A U : Into(U) \in SUBSET Y /\ IsFiniteSet(Into(U)) /\ Total(g, Into(U)) \in Nat
  <2>1. \A U : Into(U) \in SUBSET E
    OBVIOUS
  <2> HIDE DEF Into
  <2>2. QED
    BY <2>1, FS_Subset, TotalType
<1>3. Bad = {}
  <2> SUFFICES ASSUME Bad # {} PROVE FALSE
    OBVIOUS
  <2>1. Bad \subseteq FiniteSubsetsOf(S)
    BY <1>1 DEF FiniteSubsetsOf
  <2>2. PICK U \in Bad : \A V \in Bad : V \subseteq U => V = U
    <3> HIDE DEF Bad
    <3>1. QED
      BY <2>1, SmallestSet
  <2>3. U \in SUBSET S /\ ~(Total(f, U) <= Total(g, Into(U)))
    BY <2>2
  <2>4. U # {}
    <3> SUFFICES ASSUME U = {} PROVE FALSE
      OBVIOUS
    <3>1. Total(f, U) = 0
      BY TotalEmpty
    <3> HIDE DEF Into
    <3>2. QED
      BY <1>2, <2>3, <3>1
  <2>5. PICK x \in U : TRUE
    BY <2>4
  <2> DEFINE V == U \ {x}
  <2>6. V \in SUBSET S /\ V \notin Bad
    BY <2>2, <2>5
  <2>7. Total(f, V) <= Total(g, Into(V))
    BY <2>6
  <2>8. PICK e \in E : e[2] = x /\ g[e] = f[x]
    BY <2>3
  <2>9. e \in Y \ Into(V) /\ Into(V) \cup {e} \in SUBSET Into(U)
    BY <2>5, <2>8
  <2> HIDE DEF Into, Bad
  <2>10. Total(f, U) = f[x] + Total(f, V) /\ f[x] \in Nat /\ Total(f, V) \in Nat
    BY <1>1, <2>3, <2>6, TotalRemove
  <2>11. Total(g, Into(V) \cup {e}) = Total(g, Into(V)) + g[e]
    <3> DEFINE W == Into(V)
    <3>1. W \in SUBSET Y /\ IsFiniteSet(W) /\ e \in Y \ W
      BY <1>2, <2>9
    <3> HIDE DEF W
    <3>2. Total(g, W \cup {e}) = Total(g, W) + g[e]
      BY <3>1, TotalAdd
    <3>3. QED
      BY <3>2 DEF W
  <2>12. Total(g, Into(V) \cup {e}) <= Total(g, Into(U))
    BY <1>2, <2>9, TotalSubset
  <2> HIDE DEF V
  <2>13. Total(g, Into(V)) \in Nat /\ Total(g, Into(U)) \in Nat
    BY <1>2
  <2>14. Total(f, U) <= Total(g, Into(U))
    BY <2>7, <2>8, <2>10, <2>11, <2>12, <2>13
  <2>15. QED
    BY <2>3, <2>14
<1>4. Total(f, S) <= Total(g, Into(S))
  BY <1>3
<1>5. Into(S) \in SUBSET E
  OBVIOUS
<1> HIDE DEF Into
<1>6. Total(g, Into(S)) <= Total(g, E)
  BY <1>5, TotalSubset
<1>7. Total(f, S) \in Nat /\ Total(g, Into(S)) \in Nat /\ Total(g, E) \in Nat
  BY <1>1, <1>2, TotalType
<1>8. QED
  BY <1>4, <1>6, <1>7

\* What any function of that shape says of S is the sum.
LEMMA SumsTotal ==
  ASSUME NEW f, NEW S, IsFiniteSet(S), NEW h, Sums(f, S, h)
  PROVE  h[S] = Total(f, S)
<1> DEFINE k == SumsOf(f, S)
<1>1. Sums(f, S, k)
  BY SumsExist
<1> HIDE DEF k
<1>2. h[S] = k[S]
  BY <1>1, SumsAgree
<1>3. QED
  BY <1>2, TotalIsSum DEF k
=============================================================================
