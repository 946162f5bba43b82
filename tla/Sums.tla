-------------------------------- MODULE Sums --------------------------------
(* What sums over finite sets come to (SumFunctionOnSet of Functions), for  *)
(* the proofs that count money or uses.  Where one would use induction over *)
(* the set, the proofs take a smallest subset for which the claim fails.    *)
EXTENDS Integers, Functions, FiniteSetTheorems, WellFoundedInduction, TLAPS

\* The element a sum goes on with.
Pick(S) == CHOOSE x \in S : TRUE

\* g holds the sums of F over the subsets of S.
SumsOf(F, S, g) ==
    g = [s \in SUBSET S |-> IF s = {} THEN 0 ELSE F[Pick(s)] + g[s \ {Pick(s)}]]

\* The sum over S is taken from one that holds all of them.
LEMMA SumIs ==
    ASSUME NEW F, NEW S
    PROVE  SumFunctionOnSet(F, S) = (CHOOSE g : SumsOf(F, S, g))[S]
BY DEF SumFunctionOnSet, FoldFunctionOnSet, MapThenFoldSet, SumsOf, Pick

\* Of the subsets of a finite set, some is smallest among those of a kind.
LEMMA SmallestSubset ==
    ASSUME NEW S, IsFiniteSet(S), NEW D, D \subseteq SUBSET S, D # {}
    PROVE  \E T \in D : \A U \in D : ~(U \subseteq T /\ U # T)
<1>1. D \subseteq FiniteSubsetsOf(S)
  BY FS_FiniteSubsetsOfFinite
<1>2. PICK T \in D : \A U \in D : <<U, T>> \notin StrictSubsetOrdering(S)
  BY <1>1, FS_StrictSubsetOrderingWellFounded, WFMin
<1>3. ASSUME NEW U \in D, U \subseteq T, U # T
      PROVE  FALSE
  <2>1. <<U, T>> \in StrictSubsetOrdering(S)
    BY <1>3 DEF StrictSubsetOrdering
  <2> QED
    BY <1>2, <2>1
<1>4. \A U \in D : ~(U \subseteq T /\ U # T)
  BY <1>3
<1> QED
  BY <1>4

\* What a nonempty set is left with.
LEMMA PickIn ==
    ASSUME NEW S, S # {}
    PROVE  Pick(S) \in S /\ S \ {Pick(S)} \subseteq S /\ S \ {Pick(S)} # S
BY DEF Pick

\* Two that hold sums hold the same ones.
LEMMA SumsAgree ==
    ASSUME NEW F, NEW S, NEW T, IsFiniteSet(S), NEW g, NEW h,
           SumsOf(F, S, g), SumsOf(F, T, h), NEW s \in SUBSET S, s \in SUBSET T
    PROVE  g[s] = h[s]
<1> DEFINE D == {u \in SUBSET s : g[u] # h[u]}
<1>1. D = {}
  <2>1. SUFFICES ASSUME D # {} PROVE FALSE
    OBVIOUS
  <2>2. IsFiniteSet(s) /\ D \subseteq SUBSET s
    BY FS_Subset
  <2>3. PICK u \in D : \A v \in D : ~(v \subseteq u /\ v # u)
    <3> HIDE DEF D
    <3> QED
      BY <2>1, <2>2, SmallestSubset
  <2>4. u \in SUBSET s /\ u \in SUBSET S /\ u \in SUBSET T /\ g[u] # h[u]
    OBVIOUS
  <2>5. CASE u = {}
    BY <2>4, <2>5 DEF SumsOf
  <2>6. CASE u # {}
    <3> DEFINE v == u \ {Pick(u)}
    <3>1. v \subseteq u /\ v # u
      BY <2>6, PickIn
    <3>2. g[v] = h[v]
      BY <2>3, <2>4, <3>1
    <3>3. g[u] = F[Pick(u)] + g[v] /\ h[u] = F[Pick(u)] + h[v]
      BY <2>4, <2>6 DEF SumsOf
    <3> QED
      BY <2>4, <3>2, <3>3
  <2> QED
    BY <2>5, <2>6
<1> QED
  BY <1>1

\* There is one that holds the sums over the subsets of a finite set.
LEMMA SumsExist ==
    ASSUME NEW F, NEW S, IsFiniteSet(S)
    PROVE  \E g : SumsOf(F, S, g)
<1> DEFINE D == {T \in SUBSET S : ~\E g : SumsOf(F, T, g)}
           V(u) == SumFunctionOnSet(F, u)
<1>1. ASSUME NEW u \in SUBSET S, u \notin D, NEW g, SumsOf(F, u, g)
      PROVE  V(u) = g[u]
  <2>1. SumsOf(F, u, CHOOSE k : SumsOf(F, u, k))
    BY <1>1
  <2>2. IsFiniteSet(u)
    BY FS_Subset
  <2> QED
    BY <1>1, <2>1, <2>2, SumIs, SumsAgree
<1>2. ASSUME NEW u \in SUBSET S, u \notin D, u # {}, u \ {Pick(u)} \notin D
      PROVE  V(u) = F[Pick(u)] + V(u \ {Pick(u)})
  <2> DEFINE v == u \ {Pick(u)}
  <2>1. PICK g : SumsOf(F, u, g)
    BY <1>2
  <2>2. PICK h : SumsOf(F, v, h)
    BY <1>2
  <2>3. g[u] = F[Pick(u)] + g[v]
    BY <1>2, <2>1 DEF SumsOf
  <2>4. IsFiniteSet(u) /\ v \in SUBSET u /\ v \in SUBSET v
    BY FS_Subset
  <2>5. g[v] = h[v]
    BY <2>1, <2>2, <2>4, SumsAgree
  <2>6. V(u) = g[u] /\ V(v) = h[v]
    BY <1>1, <1>2, <2>1, <2>2
  <2> QED
    BY <2>3, <2>5, <2>6
<1>3. ASSUME {} \notin D
      PROVE  V({}) = 0
  <2>1. PICK g : SumsOf(F, {}, g)
    BY <1>3
  <2>2. g[{}] = 0
    BY <2>1 DEF SumsOf
  <2> QED
    BY <1>1, <1>3, <2>1, <2>2
<1>4. D = {}
  <2>1. SUFFICES ASSUME D # {} PROVE FALSE
    OBVIOUS
  <2>2. PICK T \in D : \A U \in D : ~(U \subseteq T /\ U # T)
    <3>1. D \subseteq SUBSET S
      OBVIOUS
    <3> HIDE DEF D
    <3> QED
      BY <2>1, <3>1, SmallestSubset
  <2>3. T \in SUBSET S /\ ~\E g : SumsOf(F, T, g)
    OBVIOUS
  <2> DEFINE g == [s \in SUBSET T |-> IF s = {} THEN 0 ELSE F[Pick(s)] + V(s \ {Pick(s)})]
  <2>4. ASSUME NEW w \in SUBSET T, w # T
        PROVE  g[w] = V(w)
    <3>1. w \in SUBSET S /\ w \notin D
      BY <2>2, <2>3, <2>4
    <3>2. CASE w = {}
      BY <1>3, <3>1, <3>2
    <3>3. CASE w # {}
      <4>1. w \ {Pick(w)} \subseteq T /\ w \ {Pick(w)} # T
        BY <2>4, <3>3, PickIn
      <4>2. w \ {Pick(w)} \notin D
        BY <2>2, <4>1
      <4>3. V(w) = F[Pick(w)] + V(w \ {Pick(w)})
        BY <1>2, <3>1, <3>3, <4>2
      <4> QED
        BY <3>3, <4>3
    <3> QED
      BY <3>2, <3>3
  <2>5. ASSUME NEW s \in SUBSET T, s # {}
        PROVE  g[s] = F[Pick(s)] + g[s \ {Pick(s)}]
    <3>1. s \ {Pick(s)} \in SUBSET T /\ s \ {Pick(s)} # T
      BY <2>5, PickIn
    <3>2. g[s \ {Pick(s)}] = V(s \ {Pick(s)})
      BY <2>4, <3>1
    <3>3. g[s] = F[Pick(s)] + V(s \ {Pick(s)})
      BY <2>5
    <3> QED
      BY <3>2, <3>3
  <2>6. g[{}] = 0
    OBVIOUS
  <2>7. g \in [SUBSET T -> {g[s] : s \in SUBSET T}]
    OBVIOUS
  <2> HIDE DEF g
  <2>8. SumsOf(F, T, g)
    BY <2>5, <2>6, <2>7 DEF SumsOf
  <2> QED
    BY <2>3, <2>8
<1> QED
  BY <1>4

\* A sum of nothing, and a sum of something.
THEOREM SumStep ==
    ASSUME NEW F, NEW S, IsFiniteSet(S)
    PROVE  /\ S = {} => SumFunctionOnSet(F, S) = 0
           /\ S # {} => SumFunctionOnSet(F, S) =
                            F[Pick(S)] + SumFunctionOnSet(F, S \ {Pick(S)})
<1> DEFINE v == S \ {Pick(S)}
           g == CHOOSE k : SumsOf(F, S, k)
           h == CHOOSE k : SumsOf(F, v, k)
<1>1. SumsOf(F, S, g)
  BY SumsExist
<1>2. IsFiniteSet(v) /\ v \in SUBSET S
  BY FS_Subset
<1>3. SumsOf(F, v, h)
  BY <1>2, SumsExist
<1>4. SumFunctionOnSet(F, S) = g[S] /\ SumFunctionOnSet(F, v) = h[v]
  BY SumIs
<1> HIDE DEF g, h, v
<1>5. g[v] = h[v]
  BY <1>1, <1>2, <1>3, SumsAgree
<1>6. S = {} => g[S] = 0
  BY <1>1 DEF SumsOf
<1>7. S # {} => g[S] = F[Pick(S)] + g[v]
  BY <1>1 DEF SumsOf, v
<1> QED
  BY <1>4, <1>5, <1>6, <1>7 DEF v

\* Sums of integers are integers, and of natural numbers natural numbers.
THEOREM SumType ==
    ASSUME NEW F, NEW S, IsFiniteSet(S), NEW N, N \in {Nat, Int}, \A x \in S : F[x] \in N
    PROVE  SumFunctionOnSet(F, S) \in N
<1> DEFINE D == {T \in SUBSET S : SumFunctionOnSet(F, T) \notin N}
<1>1. D = {}
  <2>1. SUFFICES ASSUME D # {} PROVE FALSE
    OBVIOUS
  <2>2. PICK T \in D : \A U \in D : ~(U \subseteq T /\ U # T)
    <3>1. D \subseteq SUBSET S
      OBVIOUS
    <3> HIDE DEF D
    <3> QED
      BY <2>1, <3>1, SmallestSubset
  <2>3. IsFiniteSet(T) /\ T \subseteq S /\ SumFunctionOnSet(F, T) \notin N
    BY FS_Subset
  <2>4. T # {}
    BY <2>3, SumStep
  <2>5. T \ {Pick(T)} \notin D /\ Pick(T) \in S
    BY <2>2, <2>3, <2>4, PickIn
  <2>6. SumFunctionOnSet(F, T \ {Pick(T)}) \in N /\ F[Pick(T)] \in N
    BY <2>3, <2>5
  <2>7. SumFunctionOnSet(F, T) = F[Pick(T)] + SumFunctionOnSet(F, T \ {Pick(T)})
    BY <2>3, <2>4, SumStep
  <2> HIDE DEF D
  <2>8. \A a, b \in N : a + b \in N
    OBVIOUS
  <2> QED
    BY <2>3, <2>6, <2>7, <2>8
<1> QED
  BY <1>1

\* A sum may be taken apart at any of its elements.
THEOREM SumSplit ==
    ASSUME NEW F, NEW S, IsFiniteSet(S), \A y \in S : F[y] \in Int, NEW x \in S
    PROVE  SumFunctionOnSet(F, S) = F[x] + SumFunctionOnSet(F, S \ {x})
<1> DEFINE Apart(T, y) == SumFunctionOnSet(F, T) = F[y] + SumFunctionOnSet(F, T \ {y})
           D == {T \in SUBSET S : \E y \in T : ~Apart(T, y)}
<1>1. D = {}
  <2>1. SUFFICES ASSUME D # {} PROVE FALSE
    OBVIOUS
  <2>2. PICK T \in D : \A U \in D : ~(U \subseteq T /\ U # T)
    <3>1. D \subseteq SUBSET S
      OBVIOUS
    <3> HIDE DEF D
    <3> QED
      BY <2>1, <3>1, SmallestSubset
  <2>3. PICK y \in T : ~Apart(T, y)
    BY <2>2
  <2> DEFINE p == Pick(T)
  <2>4. IsFiniteSet(T) /\ T \subseteq S /\ p \in T
    BY <2>2, <2>3, FS_Subset, PickIn
  <2>5. Apart(T, p)
    BY <2>3, <2>4, SumStep
  <2>6. y # p
    BY <2>3, <2>5
  <2>7. T \ {p} \notin D /\ T \ {y} \notin D
    BY <2>2, <2>3, <2>4
  <2>8. Apart(T \ {p}, y) /\ Apart(T \ {y}, p)
    BY <2>3, <2>4, <2>6, <2>7
  <2>9. (T \ {p}) \ {y} = (T \ {y}) \ {p}
    OBVIOUS
  <2>10. SumFunctionOnSet(F, (T \ {p}) \ {y}) \in Int /\ F[p] \in Int /\ F[y] \in Int
    <3>1. IsFiniteSet((T \ {p}) \ {y})
      BY <2>4, FS_Subset
    <3> QED
      BY <2>3, <2>4, <3>1, SumType
  <2> DEFINE c == SumFunctionOnSet(F, (T \ {p}) \ {y})
  <2>11. SumFunctionOnSet(F, T) = F[p] + (F[y] + c)
    BY <2>5, <2>8
  <2>12. SumFunctionOnSet(F, T \ {y}) = F[p] + c
    BY <2>8, <2>9
  <2>13. F[p] + (F[y] + c) = F[y] + (F[p] + c)
    <3> HIDE DEF c, p
    <3> QED
      BY <2>10 DEF c
  <2> QED
    BY <2>3, <2>11, <2>12, <2>13
<1>2. Apart(S, x)
  BY <1>1
<1> QED
  BY <1>2

\* Functions that agree on a set have the same sum over it.
THEOREM SumSame ==
    ASSUME NEW F, NEW G, NEW S, IsFiniteSet(S), \A x \in S : F[x] = G[x]
    PROVE  SumFunctionOnSet(F, S) = SumFunctionOnSet(G, S)
<1> DEFINE D == {T \in SUBSET S : SumFunctionOnSet(F, T) # SumFunctionOnSet(G, T)}
<1>1. D = {}
  <2>1. SUFFICES ASSUME D # {} PROVE FALSE
    OBVIOUS
  <2>2. PICK T \in D : \A U \in D : ~(U \subseteq T /\ U # T)
    <3>1. D \subseteq SUBSET S
      OBVIOUS
    <3> HIDE DEF D
    <3> QED
      BY <2>1, <3>1, SmallestSubset
  <2>3. IsFiniteSet(T) /\ T \subseteq S
    BY FS_Subset
  <2>4. T # {}
    BY <2>2, <2>3, SumStep
  <2>5. T \ {Pick(T)} \notin D /\ Pick(T) \in S
    BY <2>2, <2>3, <2>4, PickIn
  <2>6. SumFunctionOnSet(F, T \ {Pick(T)}) = SumFunctionOnSet(G, T \ {Pick(T)})
    BY <2>3, <2>5
  <2>7. SumFunctionOnSet(F, T) = F[Pick(T)] + SumFunctionOnSet(F, T \ {Pick(T)})
    BY <2>3, <2>4, SumStep
  <2>8. SumFunctionOnSet(G, T) = G[Pick(T)] + SumFunctionOnSet(G, T \ {Pick(T)})
    BY <2>3, <2>4, SumStep
  <2> QED
    BY <2>2, <2>5, <2>6, <2>7, <2>8
<1> QED
  BY <1>1

\* Functions that differ at one place have sums that differ by as much.
THEOREM SumChanges ==
    ASSUME NEW F, NEW G, NEW S, IsFiniteSet(S), NEW x \in S,
           \A y \in S : F[y] \in Int /\ G[y] \in Int, \A y \in S \ {x} : G[y] = F[y]
    PROVE  SumFunctionOnSet(G, S) = SumFunctionOnSet(F, S) + G[x] - F[x]
<1>1. IsFiniteSet(S \ {x})
  BY FS_Subset
<1>2. SumFunctionOnSet(G, S \ {x}) = SumFunctionOnSet(F, S \ {x})
  BY <1>1, SumSame
<1>3. SumFunctionOnSet(F, S \ {x}) \in Int
  BY <1>1, SumType
<1>4. SumFunctionOnSet(F, S) = F[x] + SumFunctionOnSet(F, S \ {x})
  BY SumSplit
<1>5. SumFunctionOnSet(G, S) = G[x] + SumFunctionOnSet(G, S \ {x})
  BY SumSplit
<1> QED
  BY <1>2, <1>3, <1>4, <1>5

\* A sum over a part of a set, as a sum over the set.
THEOREM SumOver ==
    ASSUME NEW F, NEW G, NEW S, IsFiniteSet(S), NEW T, T \subseteq S,
           \A x \in S : F[x] \in Int, \A x \in S : G[x] = IF x \in T THEN F[x] ELSE 0
    PROVE  SumFunctionOnSet(G, S) = SumFunctionOnSet(F, T)
<1> DEFINE D == {U \in SUBSET S : SumFunctionOnSet(G, U) # SumFunctionOnSet(F, U \cap T)}
<1>1. D = {}
  <2>1. SUFFICES ASSUME D # {} PROVE FALSE
    OBVIOUS
  <2>2. PICK U \in D : \A V \in D : ~(V \subseteq U /\ V # U)
    <3>1. D \subseteq SUBSET S
      OBVIOUS
    <3> HIDE DEF D
    <3> QED
      BY <2>1, <3>1, SmallestSubset
  <2>3. IsFiniteSet(U) /\ U \subseteq S /\ IsFiniteSet(U \cap T)
    BY FS_Subset
  <2>4. U # {}
    <3>1. U = {} => U \cap T = {}
      OBVIOUS
    <3> QED
      BY <2>2, <2>3, <3>1, SumStep
  <2> DEFINE p == Pick(U)
             V == U \ {p}
  <2>5. p \in U /\ V \notin D /\ V \subseteq S
    BY <2>2, <2>3, <2>4, PickIn
  <2>6. SumFunctionOnSet(G, V) = SumFunctionOnSet(F, V \cap T)
    BY <2>5
  <2>7. SumFunctionOnSet(G, U) = G[p] + SumFunctionOnSet(G, V)
    BY <2>3, <2>4, SumStep
  <2>8. IsFiniteSet(V \cap T) /\ V \cap T \subseteq S
    BY <2>3, FS_Subset
  <2>9. SumFunctionOnSet(F, V \cap T) \in Int
    BY <2>8, SumType
  <2>10. CASE p \in T
    <3>1. p \in U \cap T /\ (U \cap T) \ {p} = V \cap T
      BY <2>5, <2>10
    <3>2. \A x \in U \cap T : F[x] \in Int
      BY <2>3
    <3>3. SumFunctionOnSet(F, U \cap T) = F[p] + SumFunctionOnSet(F, (U \cap T) \ {p})
      BY <2>3, <3>1, <3>2, SumSplit
    <3>4. G[p] = F[p] /\ SumFunctionOnSet(F, (U \cap T) \ {p}) = SumFunctionOnSet(F, V \cap T)
      BY <2>3, <2>5, <2>10, <3>1
    <3>5. SumFunctionOnSet(G, U) = SumFunctionOnSet(F, U \cap T)
      BY <2>6, <2>7, <3>3, <3>4
    <3> QED
      BY <2>2, <3>5
  <2>11. CASE p \notin T
    <3>1. V \cap T = U \cap T
      BY <2>11
    <3>2. G[p] = 0
      BY <2>3, <2>5, <2>11
    <3>3. SumFunctionOnSet(G, U) = 0 + SumFunctionOnSet(F, U \cap T)
      BY <2>6, <2>7, <3>1, <3>2
    <3>4. SumFunctionOnSet(F, U \cap T) \in Int
      BY <2>9, <3>1
    <3> QED
      BY <2>2, <3>3, <3>4
  <2> QED
    BY <2>10, <2>11
<1>2. S \cap T = T /\ S \in SUBSET S
  OBVIOUS
<1>3. SumFunctionOnSet(G, S) = SumFunctionOnSet(F, S \cap T)
  BY <1>1, <1>2
<1> QED
  BY <1>2, <1>3

\* The sum of the differences is the difference of the sums.
THEOREM SumLess ==
    ASSUME NEW F, NEW G, NEW H, NEW S, IsFiniteSet(S),
           \A x \in S : F[x] \in Int /\ G[x] \in Int /\ H[x] = F[x] - G[x]
    PROVE  SumFunctionOnSet(H, S) = SumFunctionOnSet(F, S) - SumFunctionOnSet(G, S)
<1> DEFINE D == {U \in SUBSET S : SumFunctionOnSet(H, U) #
                                    SumFunctionOnSet(F, U) - SumFunctionOnSet(G, U)}
<1>1. D = {}
  <2>1. SUFFICES ASSUME D # {} PROVE FALSE
    OBVIOUS
  <2>2. PICK U \in D : \A V \in D : ~(V \subseteq U /\ V # U)
    <3>1. D \subseteq SUBSET S
      OBVIOUS
    <3> HIDE DEF D
    <3> QED
      BY <2>1, <3>1, SmallestSubset
  <2>3. IsFiniteSet(U) /\ U \subseteq S
    BY FS_Subset
  <2>4. U # {}
    <3>1. U = {} => /\ SumFunctionOnSet(F, U) = 0 /\ SumFunctionOnSet(G, U) = 0
                    /\ SumFunctionOnSet(H, U) = 0
      BY <2>3, SumStep
    <3> QED
      BY <2>2, <3>1
  <2> DEFINE p == Pick(U)
             V == U \ {p}
  <2>5. p \in U /\ V \notin D /\ V \subseteq S /\ IsFiniteSet(V)
    BY <2>2, <2>3, <2>4, PickIn, FS_Subset
  <2>6. SumFunctionOnSet(H, V) = SumFunctionOnSet(F, V) - SumFunctionOnSet(G, V)
    BY <2>5
  <2>7. SumFunctionOnSet(F, V) \in Int /\ SumFunctionOnSet(G, V) \in Int
    BY <2>5, SumType
  <2>8. /\ SumFunctionOnSet(F, U) = F[p] + SumFunctionOnSet(F, V)
        /\ SumFunctionOnSet(G, U) = G[p] + SumFunctionOnSet(G, V)
        /\ SumFunctionOnSet(H, U) = H[p] + SumFunctionOnSet(H, V)
    BY <2>3, <2>4, SumStep
  <2>9. F[p] \in Int /\ G[p] \in Int /\ H[p] = F[p] - G[p]
    BY <2>3, <2>5
  <2>10. SumFunctionOnSet(H, U) # SumFunctionOnSet(F, U) - SumFunctionOnSet(G, U)
    BY <2>2
  <2> DEFINE a == SumFunctionOnSet(F, V)
             b == SumFunctionOnSet(G, V)
             k == F[p]
             m == G[p]
  <2>11. (k - m) + (a - b) = (k + a) - (m + b)
    <3>1. a \in Int /\ b \in Int /\ k \in Int /\ m \in Int
      BY <2>7, <2>9
    <3> HIDE DEF a, b, k, m
    <3> QED
      BY <3>1
  <2>12. SumFunctionOnSet(H, U) = (k - m) + (a - b)
    BY <2>6, <2>8, <2>9
  <2> QED
    BY <2>8, <2>10, <2>11, <2>12
<1>2. S \in SUBSET S
  OBVIOUS
<1> QED
  BY <1>1, <1>2

\* What one place gains and another loses leaves the sum as it is.
THEOREM SumMoves ==
    ASSUME NEW F, NEW G, NEW S, IsFiniteSet(S), NEW x \in S, NEW y \in S, x # y,
           \A z \in S : F[z] \in Int /\ G[z] \in Int, \A z \in S \ {x, y} : G[z] = F[z],
           G[x] + G[y] = F[x] + F[y]
    PROVE  SumFunctionOnSet(G, S) = SumFunctionOnSet(F, S)
<1> DEFINE K == [z \in S |-> IF z = x THEN G[z] ELSE F[z]]
<1>1. SumFunctionOnSet(K, S) = SumFunctionOnSet(F, S) + K[x] - F[x]
  <2>1. \A z \in S : F[z] \in Int /\ K[z] \in Int
    OBVIOUS
  <2>2. \A z \in S \ {x} : K[z] = F[z]
    OBVIOUS
  <2> HIDE DEF K
  <2> QED
    BY <2>1, <2>2, SumChanges
<1>2. SumFunctionOnSet(G, S) = SumFunctionOnSet(K, S) + G[y] - K[y]
  <2>1. \A z \in S : K[z] \in Int /\ G[z] \in Int
    OBVIOUS
  <2>2. \A z \in S \ {y} : G[z] = K[z]
    OBVIOUS
  <2> HIDE DEF K
  <2> QED
    BY <2>1, <2>2, SumChanges
<1>3. SumFunctionOnSet(F, S) \in Int
  BY SumType
<1>4. K[x] = G[x] /\ K[y] = F[y]
  OBVIOUS
<1> HIDE DEF K
<1> QED
  BY <1>1, <1>2, <1>3, <1>4
=============================================================================
