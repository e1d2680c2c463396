------------------------------ MODULE SumProofs -----------------------------
(***************************************************************************)
(* Facts about SumFunctionOnSet, the sum of f[x] over the x of a finite    *)
(* set: it is 0 for no x, adding an x adds f[x] whatever order the members *)
(* are taken in, and it depends on nothing but these values.               *)
(***************************************************************************)
EXTENDS Integers, FiniteSets, Functions, FiniteSetTheorems, TLAPS

\* Some sets of subsets of a finite set: one of them has no other inside.
LEMMA MinimalSubset ==
  ASSUME NEW S, IsFiniteSet(S), NEW Sets \in SUBSET (SUBSET S), Sets # {}
  PROVE  \E T \in Sets : \A U \in Sets : U \subseteq T => U = T
<1>1. IsWellFoundedOn(StrictSubsetOrdering(S), SUBSET S)
  BY FS_StrictSubsetOrderingWellFounded, FS_FiniteSubsetsOfFinite
<1>2. PICK T \in Sets : \A U \in Sets : <<U, T>> \notin StrictSubsetOrdering(S)
  BY <1>1, WFMin
<1>3. ASSUME NEW U \in Sets, U \subseteq T PROVE U = T
  BY <1>2, <1>3 DEF StrictSubsetOrdering
<1>4. QED
  BY <1>3

Picked(s) == CHOOSE x \in s : TRUE
Others(s)  == s \ {Picked(s)}

\* The sums over all subsets of S.
IsTable(g, f, S) ==
  g = [s \in SUBSET S |-> IF s = {} THEN 0 ELSE f[Picked(s)] + g[Others(s)]]

\* Without the element that is picked a set is smaller.
LEMMA OthersAreLess ==
  ASSUME NEW s, s # {} PROVE Picked(s) \in s /\ Others(s) \subseteq s /\ Others(s) # s
BY DEF Picked, Others

\* What a table of sums says at the empty set and at another.
LEMMA TableAt ==
  ASSUME NEW g, NEW f, NEW S, IsTable(g, f, S), NEW s \in SUBSET S
  PROVE  /\ s = {} => g[s] = 0
         /\ s # {} => g[s] = f[Picked(s)] + g[Others(s)]
BY DEF IsTable

\* There are no two ways to fill the table.
LEMMA TablesAgree ==
  ASSUME NEW S, IsFiniteSet(S), NEW T \in SUBSET S, NEW f, NEW g, NEW h,
         IsTable(g, f, S), IsTable(h, f, T)
  PROVE  \A s \in SUBSET T : g[s] = h[s]
<1> DEFINE Bad == {s \in SUBSET T : g[s] # h[s]}
<1>1. SUFFICES ASSUME Bad # {} PROVE FALSE
  OBVIOUS
<1>2. PICK s \in Bad : \A u \in Bad : u \subseteq s => u = s
  <2>1. IsFiniteSet(T) /\ Bad \in SUBSET (SUBSET T)
    BY FS_Subset
  <2> HIDE DEF Bad
  <2>2. QED
    BY <1>1, <2>1, MinimalSubset
<1>3. s \in SUBSET S /\ s \in SUBSET T
  OBVIOUS
<1>4. CASE s = {}
  BY <1>3, <1>4, TableAt
<1>5. CASE s # {}
  <2>1. Picked(s) \in s /\ Others(s) \subseteq s /\ Others(s) # s
    BY <1>5, OthersAreLess
  <2>2. g[Others(s)] = h[Others(s)]
    BY <1>2, <2>1
  <2>3. g[s] = h[s]
    BY <1>3, <1>5, <2>2, TableAt
  <2>4. QED
    BY <2>3
<1>6. QED
  BY <1>4, <1>5

TableOf(f, S) == CHOOSE g : IsTable(g, f, S)

\* And there is one way.
LEMMA TableExists ==
  ASSUME NEW S, IsFiniteSet(S), NEW f PROVE IsTable(TableOf(f, S), f, S)
<1> DEFINE Bad == {T \in SUBSET S : ~IsTable(TableOf(f, T), f, T)}
<1>1. SUFFICES ASSUME Bad # {} PROVE FALSE
  OBVIOUS
<1>2. PICK T \in Bad : \A U \in Bad : U \subseteq T => U = T
  <2>1. Bad \in SUBSET (SUBSET S)
    OBVIOUS
  <2> HIDE DEF Bad
  <2>2. QED
    BY <1>1, <2>1, MinimalSubset
<1>3. T \in SUBSET S /\ IsFiniteSet(T)
  BY FS_Subset
<1>4. ASSUME NEW U \in SUBSET T, U # T PROVE IsTable(TableOf(f, U), f, U) /\ IsFiniteSet(U)
  BY <1>2, <1>3, <1>4, FS_Subset
<1> DEFINE At(s) == TableOf(f, s)[s]
           g == [s \in SUBSET T |-> IF s = {} THEN 0 ELSE f[Picked(s)] + At(Others(s))]
<1> HIDE DEF Bad
<1>5. ASSUME NEW u \in SUBSET T, u # T PROVE g[u] = At(u)
  <2>1. IsTable(TableOf(f, u), f, u) /\ IsFiniteSet(u)
    BY <1>4, <1>5
  <2>2. CASE u = {}
    BY <2>1, <2>2, TableAt
  <2>3. CASE u # {}
    <3>1. Others(u) \in SUBSET u /\ Others(u) \in SUBSET T /\ Others(u) # T
      BY <1>5, <2>3, OthersAreLess
    <3>2. IsTable(TableOf(f, Others(u)), f, Others(u))
      BY <1>4, <3>1
    <3>3. TableOf(f, u)[Others(u)] = TableOf(f, Others(u))[Others(u)]
      BY <2>1, <3>1, <3>2, TablesAgree
    <3>4. TableOf(f, u)[u] = f[Picked(u)] + TableOf(f, u)[Others(u)]
      BY <2>1, <2>3, TableAt
    <3>5. QED
      BY <2>3, <3>3, <3>4
  <2>4. QED
    BY <2>2, <2>3
<1>6. ASSUME NEW s \in SUBSET T, s # {} PROVE g[Others(s)] = At(Others(s))
  <2>1. Others(s) \in SUBSET T /\ Others(s) # T
    BY <1>6, OthersAreLess
  <2> HIDE DEF g, At
  <2>2. QED
    BY <1>5, <2>1
<1>7. g = [s \in SUBSET T |-> IF s = {} THEN 0 ELSE f[Picked(s)] + g[Others(s)]]
  <2> DEFINE h == [s \in SUBSET T |-> IF s = {} THEN 0 ELSE f[Picked(s)] + g[Others(s)]]
  <2>1. \A s \in SUBSET T : g[s] = h[s]
    <3> SUFFICES ASSUME NEW s \in SUBSET T PROVE g[s] = h[s]
      OBVIOUS
    <3>1. g[s] = IF s = {} THEN 0 ELSE f[Picked(s)] + At(Others(s))
      OBVIOUS
    <3>2. h[s] = IF s = {} THEN 0 ELSE f[Picked(s)] + g[Others(s)]
      OBVIOUS
    <3> HIDE DEF g, h, At
    <3>3. QED
      BY <1>6, <3>1, <3>2
  <2>2. DOMAIN g = SUBSET T /\ DOMAIN h = SUBSET T /\ g = [s \in DOMAIN g |-> g[s]] /\ h = [s \in DOMAIN h |-> h[s]]
    OBVIOUS
  <2> HIDE DEF g, h
  <2>3. g = h
    BY <2>1, <2>2
  <2>4. QED
    BY <2>3 DEF h
<1>8. IsTable(g, f, T)
  <2> HIDE DEF g
  <2>1. QED
    BY <1>7 DEF IsTable
<1>9. IsTable(TableOf(f, T), f, T)
  <2> HIDE DEF g
  <2>1. QED
    BY <1>8 DEF TableOf
<1>10. QED
  BY <1>2, <1>9 DEF Bad

-----------------------------------------------------------------------------
\* The definition of the library, unfolded.
LEMMA SumIs ==
  ASSUME NEW S, NEW f PROVE SumFunctionOnSet(f, S) = TableOf(f, S)[S]
BY DEF SumFunctionOnSet, FoldFunctionOnSet, MapThenFoldSet, TableOf, IsTable, Picked, Others

Total(f, S) == SumFunctionOnSet(f, S)

\* The library's sum over a function is Total over its domain.
LEMMA SumFunctionIs == ASSUME NEW f PROVE SumFunction(f) = Total(f, DOMAIN f)
BY DEF SumFunction, FoldFunction, Total, SumFunctionOnSet

\* No sum is 0.
LEMMA TotalNone == ASSUME NEW f PROVE Total(f, {}) = 0
BY SumIs, TableExists, TableAt, FS_EmptySet DEF Total

\* A sum is one element and the sum of the others.
LEMMA TotalFirst ==
  ASSUME NEW S, IsFiniteSet(S), S # {}, NEW f
  PROVE  Total(f, S) = f[Picked(S)] + Total(f, Others(S))
<1>1. Others(S) \in SUBSET S /\ IsFiniteSet(Others(S))
  BY OthersAreLess, FS_Subset
<1>2. IsTable(TableOf(f, S), f, S) /\ IsTable(TableOf(f, Others(S)), f, Others(S))
  BY <1>1, TableExists
<1>3. TableOf(f, S)[Others(S)] = TableOf(f, Others(S))[Others(S)]
  BY <1>1, <1>2, TablesAgree
<1>4. TableOf(f, S)[S] = f[Picked(S)] + TableOf(f, S)[Others(S)]
  BY <1>2, TableAt
<1>5. QED
  BY <1>3, <1>4, SumIs DEF Total

\* A set of numbers with 0 in it and closed under addition has the sum of its members.
LEMMA TotalType ==
  ASSUME NEW S, IsFiniteSet(S), NEW f, NEW N, 0 \in N, \A a, b \in N : a + b \in N,
         \A x \in S : f[x] \in N
  PROVE  Total(f, S) \in N
<1> DEFINE Bad == {T \in SUBSET S : Total(f, T) \notin N}
<1>1. SUFFICES ASSUME Bad # {} PROVE FALSE
  OBVIOUS
<1>2. PICK T \in Bad : \A U \in Bad : U \subseteq T => U = T
  <2>1. Bad \in SUBSET (SUBSET S)
    OBVIOUS
  <2> HIDE DEF Bad
  <2>2. QED
    BY <1>1, <2>1, MinimalSubset
<1>3. T \in SUBSET S /\ IsFiniteSet(T)
  BY FS_Subset
<1>4. T # {}
  BY TotalNone
<1>5. Picked(T) \in T /\ Others(T) \in SUBSET T /\ Others(T) # T
  BY <1>4, OthersAreLess
<1>6. Total(f, Others(T)) \in N
  BY <1>2, <1>3, <1>5
<1>7. Total(f, T) \in N
  BY <1>3, <1>4, <1>5, <1>6, TotalFirst
<1>8. QED
  BY <1>7

\* The sum does not depend on other values of the function.
LEMMA TotalAgrees ==
  ASSUME NEW S, IsFiniteSet(S), NEW f, NEW g, \A x \in S : f[x] = g[x] PROVE Total(f, S) = Total(g, S)
<1> DEFINE Bad == {T \in SUBSET S : Total(f, T) # Total(g, T)}
<1>1. SUFFICES ASSUME Bad # {} PROVE FALSE
  OBVIOUS
<1>2. PICK T \in Bad : \A U \in Bad : U \subseteq T => U = T
  <2>1. Bad \in SUBSET (SUBSET S)
    OBVIOUS
  <2> HIDE DEF Bad
  <2>2. QED
    BY <1>1, <2>1, MinimalSubset
<1>3. T \in SUBSET S /\ IsFiniteSet(T)
  BY FS_Subset
<1>4. T # {}
  BY TotalNone
<1>5. Picked(T) \in T /\ Others(T) \in SUBSET T /\ Others(T) # T
  BY <1>4, OthersAreLess
<1>6. Total(f, Others(T)) = Total(g, Others(T))
  BY <1>2, <1>3, <1>5
<1>7. Total(f, T) = Total(g, T)
  BY <1>3, <1>4, <1>5, <1>6, TotalFirst
<1>8. QED
  BY <1>7

\* Nor on the order: any member may be taken out first.
LEMMA TotalAdds ==
  ASSUME NEW S, IsFiniteSet(S), NEW f, \A x \in S : f[x] \in Int, NEW x \in S
  PROVE  Total(f, S) = f[x] + Total(f, S \ {x})
<1> DEFINE Bad == {T \in SUBSET S : \E y \in T : Total(f, T) # f[y] + Total(f, T \ {y})}
<1>1. SUFFICES ASSUME Bad # {} PROVE FALSE
  OBVIOUS
<1>2. PICK T \in Bad : \A U \in Bad : U \subseteq T => U = T
  <2>1. Bad \in SUBSET (SUBSET S)
    OBVIOUS
  <2> HIDE DEF Bad
  <2>2. QED
    BY <1>1, <2>1, MinimalSubset
<1>3. T \in SUBSET S /\ IsFiniteSet(T)
  BY FS_Subset
<1>4. PICK y \in T : Total(f, T) # f[y] + Total(f, T \ {y})
  OBVIOUS
<1>5. Picked(T) \in T /\ Others(T) \in SUBSET T /\ Others(T) # T
  BY <1>4, OthersAreLess
<1>6. Total(f, T) = f[Picked(T)] + Total(f, Others(T))
  BY <1>3, <1>4, TotalFirst
<1>7. y # Picked(T)
  BY <1>4, <1>6 DEF Others
<1> DEFINE R == T \ {y}
           Q == Others(T) \ {y}
<1>8. /\ R \in SUBSET S /\ R \subseteq T /\ R # T /\ Picked(T) \in R /\ R \ {Picked(T)} = Q
      /\ Others(T) \in SUBSET S /\ y \in Others(T) /\ Q \in SUBSET S
  BY <1>3, <1>5, <1>7 DEF Others
<1>9. Total(f, Others(T)) = f[y] + Total(f, Q)
  <2>1. Others(T) \notin Bad
    BY <1>2, <1>5
  <2>2. QED
    BY <1>8, <2>1
<1>10. Total(f, R) = f[Picked(T)] + Total(f, R \ {Picked(T)})
  <2>1. R \notin Bad
    <3> HIDE DEF Bad, R
    <3>1. QED
      BY <1>2, <1>8
  <2> HIDE DEF R
  <2>2. QED
    BY <1>8, <2>1
<1>11. /\ f[y] \in Int /\ f[Picked(T)] \in Int /\ Total(f, Q) \in Int
  <2>1. IsFiniteSet(Q)
    BY <1>8, FS_Subset
  <2> HIDE DEF Q, R
  <2>2. QED
    BY <1>3, <1>5, <1>8, <2>1, TotalType
<1> HIDE DEF Bad, Q, R
<1>12. Total(f, T) = f[y] + Total(f, R)
  <2>1. Total(f, R) = f[Picked(T)] + Total(f, Q)
    BY <1>8, <1>10
  <2>2. Total(f, T) = f[Picked(T)] + (f[y] + Total(f, Q))
    BY <1>6, <1>9
  <2>3. \A a, b, c \in Int : a + (b + c) = b + (a + c)
    OBVIOUS
  <2>4. f[Picked(T)] + (f[y] + Total(f, Q)) = f[y] + (f[Picked(T)] + Total(f, Q))
    BY <1>11, <2>3
  <2>5. QED
    BY <2>1, <2>2, <2>4
<1>13. QED
  BY <1>4, <1>12 DEF R

\* A set may be summed in two parts.
LEMMA TotalSplit ==
  ASSUME NEW S, IsFiniteSet(S), NEW f, \A x \in S : f[x] \in Int, NEW T \in SUBSET S
  PROVE  Total(f, S) = Total(f, T) + Total(f, S \ T)
<1> DEFINE Bad == {U \in SUBSET S : Total(f, S) # Total(f, U) + Total(f, S \ U)}
<1>1. SUFFICES ASSUME Bad # {} PROVE FALSE
  OBVIOUS
<1>2. PICK U \in Bad : \A V \in Bad : V \subseteq U => V = U
  <2>1. Bad \in SUBSET (SUBSET S)
    OBVIOUS
  <2> HIDE DEF Bad
  <2>2. QED
    BY <1>1, <2>1, MinimalSubset
<1>3. U \in SUBSET S /\ Total(f, S) # Total(f, U) + Total(f, S \ U)
  OBVIOUS
<1>4. \A V \in SUBSET S : IsFiniteSet(V) /\ Total(f, V) \in Int
  <2> SUFFICES ASSUME NEW V \in SUBSET S PROVE IsFiniteSet(V) /\ Total(f, V) \in Int
    OBVIOUS
  <2>1. IsFiniteSet(V) /\ (\A x \in V : f[x] \in Int) /\ 0 \in Int /\ \A a, b \in Int : a + b \in Int
    BY FS_Subset
  <2>2. QED
    BY <2>1, TotalType
<1>5. CASE U = {}
  <2>1. S \ U = S /\ S \in SUBSET S
    BY <1>5
  <2>2. QED
    BY <1>3, <1>4, <1>5, <2>1, TotalNone
<1>6. CASE U # {}
  <2>1. PICK x \in U : TRUE
    BY <1>6
  <2>2. PICK V : V = U \ {x}
    OBVIOUS
  <2>3. PICK W : W = S \ V
    OBVIOUS
  <2>4. V \in SUBSET S /\ W \in SUBSET S /\ x \in W /\ W \ {x} = S \ U /\ S \ U \in SUBSET S
    BY <1>3, <2>1, <2>2, <2>3
  <2>5. Total(f, S) = Total(f, V) + Total(f, W)
    BY <1>2, <2>1, <2>2, <2>3, <2>4
  <2> HIDE DEF Bad
  <2>6. Total(f, U) = f[x] + Total(f, V)
    BY <1>3, <1>4, <2>1, <2>2, TotalAdds
  <2>7. Total(f, W) = f[x] + Total(f, S \ U)
    <3>1. Total(f, W) = f[x] + Total(f, W \ {x})
      BY <1>4, <2>4, TotalAdds
    <3>2. QED
      BY <2>4, <3>1
  <2>8. f[x] \in Int /\ Total(f, V) \in Int /\ Total(f, S \ U) \in Int
    BY <1>3, <1>4, <2>4
  <2>9. Total(f, S) = Total(f, U) + Total(f, S \ U)
    <3>1. \A a, b, c \in Int : b + (a + c) = (a + b) + c
      OBVIOUS
    <3>2. Total(f, V) + (f[x] + Total(f, S \ U)) = (f[x] + Total(f, V)) + Total(f, S \ U)
      BY <2>8, <3>1
    <3>3. QED
      BY <2>5, <2>6, <2>7, <3>2
  <2>10. QED
    BY <1>3, <2>9
<1>7. QED
  BY <1>5, <1>6

\* The members with key c.
Group(S, k, c) == {x \in S : k[x] = c}

\* The totals of the groups add up to the total.
LEMMA TotalGroups ==
  ASSUME NEW S, IsFiniteSet(S), NEW f, \A x \in S : f[x] \in Int,
         NEW k, NEW h, \A x \in S : h[k[x]] = Total(f, Group(S, k, k[x]))
  PROVE  /\ IsFiniteSet({k[x] : x \in S})
         /\ Total(h, {k[x] : x \in S}) = Total(f, S)
<1> DEFINE K == {k[x] : x \in S}
           In(C) == {x \in S : k[x] \in C}
           Bad == {C \in SUBSET K : Total(h, C) # Total(f, In(C))}
<1>1. IsFiniteSet(K)
  <2>1. PICK g : g = [x \in S |-> k[x]]
    OBVIOUS
  <2>2. K = {g[x] : x \in S} /\ g \in Surjection(S, K)
    BY <2>1 DEF Surjection
  <2> HIDE DEF K
  <2>3. QED
    BY <2>2, FS_Surjection
<1>2. SUFFICES ASSUME Bad # {} PROVE FALSE
  <2>1. In(K) = S /\ K \in SUBSET K
    OBVIOUS
  <2>2. QED
    BY <1>1, <2>1
<1>3. PICK C \in Bad : \A D \in Bad : D \subseteq C => D = C
  <2>1. Bad \in SUBSET (SUBSET K)
    OBVIOUS
  <2> HIDE DEF Bad, K
  <2>2. QED
    BY <1>1, <1>2, <2>1, MinimalSubset
<1>4. C \in SUBSET K /\ Total(h, C) # Total(f, In(C))
  OBVIOUS
<1>5. IsFiniteSet(C)
  <2> HIDE DEF K
  <2>1. QED
    BY <1>1, <1>4, FS_Subset
<1>6. C # {}
  <2>1. ASSUME C = {} PROVE In(C) = {}
    BY <2>1
  <2> HIDE DEF In
  <2>2. QED
    BY <1>4, <2>1, TotalNone
<1>7. PICK c : c = Picked(C)
  OBVIOUS
<1>8. PICK D : D = Others(C)
  OBVIOUS
<1>9. c \in C /\ D = C \ {c} /\ D \subseteq C /\ D # C
  BY <1>6, <1>7, <1>8, OthersAreLess DEF Others
<1>10. Total(h, D) = Total(f, In(D))
  <2> HIDE DEF In, K
  <2>1. QED
    BY <1>3, <1>4, <1>9
<1>11. Total(h, C) = h[c] + Total(h, D)
  BY <1>5, <1>6, <1>7, <1>8, TotalFirst
<1>12. h[c] = Total(f, Group(S, k, c))
  BY <1>4, <1>9
<1>13. /\ In(C) \in SUBSET S /\ Group(S, k, c) \in SUBSET In(C)
       /\ In(C) \ Group(S, k, c) = In(D)
  BY <1>9 DEF Group
<1>14. Total(f, In(C)) = Total(f, Group(S, k, c)) + Total(f, In(D))
  <2> HIDE DEF In
  <2>1. IsFiniteSet(In(C)) /\ \A x \in In(C) : f[x] \in Int
    BY <1>13, FS_Subset
  <2>2. Total(f, In(C)) = Total(f, Group(S, k, c)) + Total(f, In(C) \ Group(S, k, c))
    BY <1>13, <2>1, TotalSplit
  <2>3. QED
    BY <1>13, <2>2
<1>15. QED
  BY <1>4, <1>10, <1>11, <1>12, <1>14

\* The sum of ones is the number of members.
LEMMA TotalCounts ==
  ASSUME NEW S, IsFiniteSet(S), NEW f, \A x \in S : f[x] = 1
  PROVE  Total(f, S) = Cardinality(S)
<1> DEFINE Bad == {T \in SUBSET S : Total(f, T) # Cardinality(T)}
<1>1. SUFFICES ASSUME Bad # {} PROVE FALSE
  OBVIOUS
<1>2. PICK T \in Bad : \A U \in Bad : U \subseteq T => U = T
  <2>1. Bad \in SUBSET (SUBSET S)
    OBVIOUS
  <2> HIDE DEF Bad
  <2>2. QED
    BY <1>1, <2>1, MinimalSubset
<1>3. T \in SUBSET S /\ IsFiniteSet(T)
  BY FS_Subset
<1>4. T # {}
  BY TotalNone, FS_EmptySet
<1>5. Picked(T) \in T /\ Others(T) \in SUBSET T /\ Others(T) # T /\ Others(T) = T \ {Picked(T)}
  BY <1>4, OthersAreLess DEF Others
<1>6. Total(f, Others(T)) = Cardinality(Others(T))
  BY <1>2, <1>3, <1>5
<1>7. Total(f, T) = 1 + Cardinality(Others(T))
  BY <1>3, <1>4, <1>5, <1>6, TotalFirst
<1>8. Cardinality(Others(T)) = Cardinality(T) - 1 /\ Cardinality(T) \in Nat
  BY <1>3, <1>5, FS_RemoveElement, FS_CardinalityType
<1>9. Total(f, T) = Cardinality(T)
  BY <1>7, <1>8
<1>10. QED
  BY <1>9

\* A sum of zeros is 0.
LEMMA TotalZero ==
  ASSUME NEW S, IsFiniteSet(S), NEW f, \A x \in S : f[x] = 0
  PROVE  Total(f, S) = 0
<1>1. 0 \in {0} /\ (\A a, b \in {0} : a + b \in {0}) /\ \A x \in S : f[x] \in {0}
  OBVIOUS
<1>2. Total(f, S) \in {0}
  <2> DEFINE Zero == {0}
  <2>1. 0 \in Zero /\ (\A a, b \in Zero : a + b \in Zero) /\ \A x \in S : f[x] \in Zero
    BY <1>1
  <2> HIDE DEF Zero
  <2>2. Total(f, S) \in Zero
    BY <2>1, TotalType
  <2>3. QED
    BY <2>2 DEF Zero
<1>3. QED
  BY <1>2

\* The groups may include empty ones.
LEMMA TotalByKey ==
  ASSUME NEW S, IsFiniteSet(S), NEW f, \A x \in S : f[x] \in Int,
         NEW C, IsFiniteSet(C), NEW k, \A x \in S : k[x] \in C,
         NEW h, \A c \in C : h[c] = Total(f, Group(S, k, c))
  PROVE  Total(h, C) = Total(f, S)
<1>1. PICK K : K = {k[x] : x \in S}
  OBVIOUS
<1>2. K \in SUBSET C /\ \A x \in S : h[k[x]] = Total(f, Group(S, k, k[x]))
  BY <1>1
<1>3. IsFiniteSet(K) /\ Total(h, K) = Total(f, S)
  BY <1>1, <1>2, TotalGroups
<1>4. \A c \in C : h[c] \in Int
  <2> SUFFICES ASSUME NEW c \in C PROVE h[c] \in Int
    OBVIOUS
  <2>1. Group(S, k, c) \in SUBSET S
    BY DEF Group
  <2>2. IsFiniteSet(Group(S, k, c)) /\ \A x \in Group(S, k, c) : f[x] \in Int
    BY <2>1, FS_Subset
  <2>3. 0 \in Int /\ \A a, b \in Int : a + b \in Int
    OBVIOUS
  <2>4. Total(f, Group(S, k, c)) \in Int
    BY <2>2, <2>3, TotalType
  <2>5. QED
    BY <2>4
<1>5. \A c \in C \ K : h[c] = 0
  <2> SUFFICES ASSUME NEW c \in C \ K PROVE h[c] = 0
    OBVIOUS
  <2>1. Group(S, k, c) = {}
    BY <1>1 DEF Group
  <2>2. QED
    BY <2>1, TotalNone
<1>6. Total(h, C \ K) = 0
  <2>1. IsFiniteSet(C \ K)
    BY FS_Difference
  <2>2. QED
    BY <1>5, <2>1, TotalZero
<1>7. Total(h, C) = Total(h, K) + Total(h, C \ K)
  BY <1>2, <1>4, TotalSplit
<1>8. Total(h, K) \in Int
  <2>1. 0 \in Int /\ \A a, b \in Int : a + b \in Int
    OBVIOUS
  <2>2. \A c \in K : h[c] \in Int
    BY <1>2, <1>4
  <2>3. QED
    BY <1>3, <2>1, <2>2, TotalType
<1>9. QED
  BY <1>3, <1>6, <1>7, <1>8
=============================================================================
