---------------------------------- MODULE Sums ----------------------------------
(* Sums over finite sets: what they do when a set grows, is split, or is counted   *)
(* by another. Sum is what MapThenSumSet of the community modules computes, of a   *)
(* function in the place of its operator: a fold, which takes the elements in an   *)
(* order of its own. That it is well defined, and that the order makes no          *)
(* difference, is shown by induction: of the subsets of a finite set that would    *)
(* be counterexamples, none is smallest.                                           *)
EXTENDS Integers, FiniteSetTheorems, WellFoundedInduction, TLAPS

-----------------------------------------------------------------------------
(* Of the subsets of a finite set with a property, one is smallest. *)
LEMMA SmallestSubset ==
    ASSUME NEW S, IsFiniteSet(S), NEW C \in SUBSET SUBSET S, C # {}
    PROVE  \E T \in C : \A U \in C : U \subseteq T => U = T
<1>1. IsWellFoundedOn(StrictSubsetOrdering(S), SUBSET S)
    BY FS_StrictSubsetOrderingWellFounded, FS_FiniteSubsetsOfFinite
<1>2. \E T \in C : \A U \in C : ~(<<U, T>> \in StrictSubsetOrdering(S))
    BY <1>1, WFMin
<1> QED
    BY <1>2 DEF StrictSubsetOrdering

(* The element that the fold takes next. *)
Pick(s) == CHOOSE x \in s : TRUE

(* The fold over the subsets of s. *)
IsFold(f, s, g) ==
    g = [t \in SUBSET s |-> IF t = {} THEN 0 ELSE f[Pick(t)] + g[t \ {Pick(t)}]]

(* What is picked is of the set, and leaves less of it. *)
LEMMA Picked ==
    ASSUME NEW s, s # {}
    PROVE  Pick(s) \in s /\ s \ {Pick(s)} \subseteq s /\ s \ {Pick(s)} # s
BY DEF Pick

(* A fold, at a subset. *)
LEMMA FoldAt ==
    ASSUME NEW f, NEW s, NEW g, IsFold(f, s, g), NEW t \in SUBSET s
    PROVE  /\ t = {} => g[t] = 0
           /\ t # {} => g[t] = f[Pick(t)] + g[t \ {Pick(t)}]
BY DEF IsFold

(* A fold of nothing. *)
LEMMA FoldOfNone ==
    ASSUME NEW f, NEW s, NEW g, IsFold(f, s, g)
    PROVE  g[{}] = 0
BY DEF IsFold

(* Folds over two sets are the same on what these have in common. *)
LEMMA FoldOnce ==
    ASSUME NEW f, NEW S, IsFiniteSet(S), NEW s \in SUBSET S, NEW u \in SUBSET S,
           NEW g, NEW h, IsFold(f, s, g), IsFold(f, u, h)
    PROVE  \A t \in SUBSET s : t \in SUBSET u => g[t] = h[t]
<1> DEFINE C == {t \in SUBSET S : t \in SUBSET s /\ t \in SUBSET u /\ g[t] # h[t]}
<1> SUFFICES ASSUME C # {} PROVE FALSE
    OBVIOUS
<1>1. PICK T \in C : \A U \in C : U \subseteq T => U = T
    <2>1. C \in SUBSET SUBSET S
        OBVIOUS
    <2> HIDE DEF C
    <2> QED
        BY <2>1, SmallestSubset
<1>2. T # {}
    BY <1>1, FoldAt
<1>3. T \ {Pick(T)} \notin C
    BY <1>1, <1>2, Picked
<1>4. g[T \ {Pick(T)}] = h[T \ {Pick(T)}]
    BY <1>1, <1>3
<1> QED
    BY <1>1, <1>2, <1>4, FoldAt

(* There is a fold over every finite set. *)
LEMMA FoldExists ==
    ASSUME NEW f, NEW S, IsFiniteSet(S)
    PROVE  \A s \in SUBSET S : \E g : IsFold(f, s, g)
<1> DEFINE C == {s \in SUBSET S : ~\E g : IsFold(f, s, g)}
<1> SUFFICES ASSUME C # {} PROVE FALSE
    OBVIOUS
<1>1. PICK T \in C : \A U \in C : U \subseteq T => U = T
    <2>1. C \in SUBSET SUBSET S
        OBVIOUS
    <2> HIDE DEF C
    <2> QED
        BY <2>1, SmallestSubset
<1> DEFINE G == [u \in SUBSET T |-> CHOOSE g : IsFold(f, u, g)]
           h == [t \in SUBSET T |->
                    IF t = {} THEN 0
                    ELSE f[Pick(t)] + G[t \ {Pick(t)}][t \ {Pick(t)}]]
<1>2. \A u \in SUBSET T : u # T => IsFold(f, u, G[u])
    <2> TAKE u \in SUBSET T
    <2> HAVE u # T
    <2>1. \E g : IsFold(f, u, g)
        BY <1>1
    <2> QED
        BY <2>1
<1>3. \A v \in SUBSET T : v # T => h[v] = G[v][v]
    <2> TAKE v \in SUBSET T
    <2> HAVE v # T
    <2>1. IsFold(f, v, G[v])
        BY <1>2
    <2>2. CASE v = {}
        <3>1. G[v][v] = 0
            <4> HIDE DEF G, h, C
            <4>1. G[v][{}] = 0
                BY <2>1, FoldOfNone
            <4> QED
                BY <4>1, <2>2
        <3> QED
            BY <2>2, <3>1
    <2>3. CASE v # {}
        <3> DEFINE w == v \ {Pick(v)}
        <3>1. w \in SUBSET T /\ w # T /\ w \in SUBSET v
            BY <2>3, Picked
        <3>2. IsFold(f, w, G[w])
            BY <3>1, <1>2
        <3>3. v \in SUBSET S /\ w \in SUBSET S /\ w \in SUBSET w
            BY <1>1, <3>1
        <3>4. G[w][w] = G[v][w]
            <4> HIDE DEF w, G, h, C
            <4> DEFINE a == G[w]
                       b == G[v]
            <4>1. IsFold(f, w, a) /\ IsFold(f, v, b)
                BY <2>1, <3>2
            <4> HIDE DEF a, b
            <4>2. \A t \in SUBSET w : t \in SUBSET v => a[t] = b[t]
                BY <4>1, <3>3, FoldOnce
            <4>3. a[w] = b[w]
                BY <4>2, <3>1, <3>3
            <4> QED
                BY <4>3 DEF a, b
        <3>5. G[v][v] = f[Pick(v)] + G[v][w]
            <4> HIDE DEF G
            <4> QED BY <2>1, <2>3, FoldAt
        <3>6. h[v] = f[Pick(v)] + G[w][w]
            BY <2>3
        <3> QED
            BY <3>4, <3>5, <3>6
    <2> QED
        BY <2>2, <2>3
<1>4. \A t \in SUBSET T : t # {} => h[t \ {Pick(t)}] = G[t \ {Pick(t)}][t \ {Pick(t)}]
    <2> TAKE t \in SUBSET T
    <2> HAVE t # {}
    <2>1. t \ {Pick(t)} \in SUBSET T /\ t \ {Pick(t)} # T
        BY Picked
    <2> HIDE DEF h, G, C
    <2> QED
        BY <2>1, <1>3
<1>5. IsFold(f, T, h)
    <2>1. h = [t \in SUBSET T |-> IF t = {} THEN 0 ELSE f[Pick(t)] + h[t \ {Pick(t)}]]
        <3> DEFINE k == [t \in SUBSET T |-> IF t = {} THEN 0 ELSE f[Pick(t)] + h[t \ {Pick(t)}]]
        <3>1. \A t \in SUBSET T : h[t] = k[t]
            <4> TAKE t \in SUBSET T
            <4>1. CASE t = {}
                BY <4>1
            <4>2. CASE t # {}
                <5>1. h[t] = f[Pick(t)] + G[t \ {Pick(t)}][t \ {Pick(t)}]
                    BY <4>2
                <5>2. k[t] = f[Pick(t)] + h[t \ {Pick(t)}]
                    <6> HIDE DEF h
                    <6> QED BY <4>2
                <5> QED
                    BY <5>1, <5>2, <1>4, <4>2
            <4> QED
                BY <4>1, <4>2
        <3>2. h = [t \in SUBSET T |-> h[t]] /\ k = [t \in SUBSET T |-> k[t]]
            OBVIOUS
        <3> HIDE DEF h, k
        <3>3. h = k
            BY <3>1, <3>2
        <3> QED
            BY <3>3 DEF k
    <2> HIDE DEF h
    <2> QED
        BY <2>1 DEF IsFold
<1> QED
    BY <1>1, <1>5

-----------------------------------------------------------------------------
(* Sums, element by element. *)

Sum(f, S) == (CHOOSE g : IsFold(f, S, g))[S]

(* The sum over nothing. *)
LEMMA SumOfNothing ==
    ASSUME NEW f
    PROVE  Sum(f, {}) = 0
<1>1. \E g : IsFold(f, {}, g)
    BY FoldExists, FS_EmptySet
<1>2. IsFold(f, {}, CHOOSE g : IsFold(f, {}, g))
    BY <1>1
<1> QED
    BY <1>2, FoldOfNone DEF Sum

(* The sum over more is one term and the sum over the rest. *)
LEMMA SumPicks ==
    ASSUME NEW f, NEW S, IsFiniteSet(S), S # {}
    PROVE  Sum(f, S) = f[Pick(S)] + Sum(f, S \ {Pick(S)})
<1> DEFINE T == S \ {Pick(S)}
           g == CHOOSE h : IsFold(f, S, h)
           k == CHOOSE h : IsFold(f, T, h)
<1>1. T \in SUBSET S
    OBVIOUS
<1>2. IsFold(f, S, g) /\ IsFold(f, T, k)
    BY <1>1, FoldExists
<1>3. g[S] = f[Pick(S)] + g[T]
    <2> HIDE DEF g, k
    <2> QED BY <1>2, FoldAt
<1>4. g[T] = k[T]
    <2> HIDE DEF g, k, T
    <2> QED BY <1>1, <1>2, FoldOnce
<1> QED
    BY <1>3, <1>4 DEF Sum

(* The order makes no difference. *)
LEMMA SumRemove ==
    ASSUME NEW f, NEW S, IsFiniteSet(S), \A x \in S : f[x] \in Int
    PROVE  /\ Sum(f, S) \in Int
           /\ \A x \in S : Sum(f, S) = f[x] + Sum(f, S \ {x})
<1> DEFINE P(s) == /\ Sum(f, s) \in Int
                   /\ \A x \in s : Sum(f, s) = f[x] + Sum(f, s \ {x})
           C == {s \in SUBSET S : ~P(s)}
<1> SUFFICES ASSUME C # {} PROVE FALSE
    OBVIOUS
<1>1. PICK T \in C : \A U \in C : U \subseteq T => U = T
    <2>1. C \in SUBSET SUBSET S
        OBVIOUS
    <2> HIDE DEF C
    <2> QED
        BY <2>1, SmallestSubset
<1>2. \A U \in SUBSET T : U # T => P(U)
    BY <1>1
<1>3. CASE T = {}
    BY <1>1, <1>3, SumOfNothing
<1>4. CASE T # {}
    <2> DEFINE p == Pick(T)
    <2>1. p \in T /\ T \in SUBSET S
        BY <1>1, <1>4, Picked
    <2>2. IsFiniteSet(T)
        BY <2>1, FS_Subset
    <2>3. Sum(f, T) = f[p] + Sum(f, T \ {p})
        BY <1>4, <2>2, SumPicks
    <2>4. P(T \ {p})
        BY <1>2, <2>1
    <2> HIDE DEF p
    <2>5. ASSUME NEW x \in T, x # p
          PROVE  Sum(f, T) = f[x] + Sum(f, T \ {x})
        <3>1. P(T \ {x})
            BY <1>2
        <3>2. Sum(f, T \ {x}) = f[p] + Sum(f, (T \ {x}) \ {p})
            BY <2>1, <2>5, <3>1
        <3>3. Sum(f, T \ {p}) = f[x] + Sum(f, (T \ {p}) \ {x})
            BY <2>4, <2>5
        <3>4. (T \ {p}) \ {x} = (T \ {x}) \ {p}
            OBVIOUS
        <3>5. (T \ {p}) \ {x} # T /\ (T \ {p}) \ {x} \in SUBSET T
            BY <2>1
        <3>6. Sum(f, (T \ {p}) \ {x}) \in Int
            BY <1>2, <3>5
        <3>7. f[p] \in Int /\ f[x] \in Int
            BY <2>1
        <3>8. Sum(f, T) = f[p] + (f[x] + Sum(f, (T \ {p}) \ {x}))
            BY <2>3, <3>3
        <3>9. Sum(f, T \ {x}) = f[p] + Sum(f, (T \ {p}) \ {x})
            BY <3>2, <3>4
        <3> HIDE DEF P, C
        <3> QED
            BY <3>6, <3>7, <3>8, <3>9
    <2>6. P(T)
        <3>1. Sum(f, T) \in Int
            BY <2>1, <2>3, <2>4
        <3> QED
            BY <2>3, <2>5, <3>1
    <2> QED
        BY <1>1, <2>6
<1> QED
    BY <1>3, <1>4

(* A set of subsets that holds the empty one, and every subset it holds with *)
(* one more element, holds them all.                                         *)
LEMMA BySize ==
    ASSUME NEW S, IsFiniteSet(S), NEW C \in SUBSET SUBSET S, {} \in C,
           \A T \in C : \A x \in S \ T : T \cup {x} \in C
    PROVE  S \in C
<1> DEFINE D == {T \in SUBSET S : T \notin C}
<1> SUFFICES ASSUME D # {} PROVE FALSE
    OBVIOUS
<1>1. PICK T \in D : \A U \in D : U \subseteq T => U = T
    <2>1. D \in SUBSET SUBSET S
        OBVIOUS
    <2> HIDE DEF D
    <2> QED
        BY <2>1, SmallestSubset
<1>2. PICK x \in T : TRUE
    BY <1>1
<1>3. T \ {x} \in C
    BY <1>1, <1>2
<1>4. x \in S \ (T \ {x}) /\ (T \ {x}) \cup {x} = T
    BY <1>1, <1>2
<1> QED
    BY <1>1, <1>3, <1>4

(* One element more. *)
LEMMA SumAdd ==
    ASSUME NEW f, NEW S, IsFiniteSet(S), NEW x, x \notin S,
           f[x] \in Int, \A y \in S : f[y] \in Int
    PROVE  Sum(f, S \cup {x}) = f[x] + Sum(f, S)
<1>1. IsFiniteSet(S \cup {x})
    BY FS_AddElement
<1>2. (S \cup {x}) \ {x} = S
    OBVIOUS
<1>3. \A y \in S \cup {x} : f[y] \in Int
    OBVIOUS
<1>4. Sum(f, S \cup {x}) = f[x] + Sum(f, (S \cup {x}) \ {x})
    BY <1>1, <1>3, SumRemove
<1> QED
    BY <1>2, <1>4

(* A sum of integers is one. *)
LEMMA SumType ==
    ASSUME NEW f, NEW S, IsFiniteSet(S), \A x \in S : f[x] \in Int
    PROVE  Sum(f, S) \in Int
BY SumRemove

(* Equal terms have equal sums. *)
LEMMA SumSame ==
    ASSUME NEW f, NEW g, NEW S, IsFiniteSet(S), \A x \in S : f[x] \in Int /\ g[x] = f[x]
    PROVE  Sum(g, S) = Sum(f, S)
<1> DEFINE C == {T \in SUBSET S : Sum(g, T) = Sum(f, T)}
<1>1. {} \in C
    BY SumOfNothing
<1>2. ASSUME NEW T \in C, NEW x \in S \ T
      PROVE  T \cup {x} \in C
    <2>1. IsFiniteSet(T)
        BY FS_Subset
    <2>2. Sum(f, T \cup {x}) = f[x] + Sum(f, T)
        <3> HIDE DEF C
        <3>1. \A y \in T : f[y] \in Int
            BY DEF C
        <3> QED BY <2>1, <3>1, SumAdd
    <2>3. Sum(g, T \cup {x}) = g[x] + Sum(g, T)
        <3> HIDE DEF C
        <3>1. \A y \in T : g[y] \in Int
            BY DEF C
        <3> QED BY <2>1, <3>1, SumAdd
    <2> QED
        BY <2>2, <2>3
<1> HIDE DEF C
<1>3. C \in SUBSET SUBSET S
    BY DEF C
<1>4. S \in C
    BY <1>1, <1>2, <1>3, BySize
<1> QED
    BY <1>4 DEF C

(* The sum of sums of terms. *)
LEMMA SumPlus ==
    ASSUME NEW f, NEW g, NEW h, NEW S, IsFiniteSet(S),
           \A x \in S : f[x] \in Int /\ g[x] \in Int /\ h[x] = f[x] + g[x]
    PROVE  Sum(h, S) = Sum(f, S) + Sum(g, S)
<1> DEFINE C == {T \in SUBSET S : Sum(h, T) = Sum(f, T) + Sum(g, T)}
<1>1. {} \in C
    BY SumOfNothing
<1>2. ASSUME NEW T \in C, NEW x \in S \ T
      PROVE  T \cup {x} \in C
    <2>1. IsFiniteSet(T) /\ T \in SUBSET S
        BY FS_Subset
    <2>2. /\ Sum(f, T \cup {x}) = f[x] + Sum(f, T)
          /\ Sum(g, T \cup {x}) = g[x] + Sum(g, T)
          /\ Sum(h, T \cup {x}) = h[x] + Sum(h, T)
        <3> HIDE DEF C
        <3>1. \A y \in T : f[y] \in Int /\ g[y] \in Int /\ h[y] \in Int
            BY <2>1
        <3>2. f[x] \in Int /\ g[x] \in Int /\ h[x] \in Int
            OBVIOUS
        <3>3. Sum(f, T \cup {x}) = f[x] + Sum(f, T)
            BY <2>1, <3>1, <3>2, SumAdd
        <3>4. Sum(g, T \cup {x}) = g[x] + Sum(g, T)
            BY <2>1, <3>1, <3>2, SumAdd
        <3>5. Sum(h, T \cup {x}) = h[x] + Sum(h, T)
            BY <2>1, <3>1, <3>2, SumAdd
        <3> QED BY <3>3, <3>4, <3>5
    <2>3. Sum(f, T) \in Int /\ Sum(g, T) \in Int
        <3> HIDE DEF C
        <3> QED BY <2>1, SumType
    <2>4. Sum(h, T) = Sum(f, T) + Sum(g, T) /\ h[x] = f[x] + g[x]
        OBVIOUS
    <2>5. f[x] \in Int /\ g[x] \in Int
        OBVIOUS
    <2>6. Sum(h, T \cup {x}) = Sum(f, T \cup {x}) + Sum(g, T \cup {x})
        <3> HIDE DEF C
        <3> QED BY <2>2, <2>3, <2>4, <2>5
    <2> QED
        BY <2>1, <2>6
<1> HIDE DEF C
<1>3. C \in SUBSET SUBSET S
    BY DEF C
<1>4. S \in C
    BY <1>1, <1>2, <1>3, BySize
<1> QED
    BY <1>4 DEF C

(* Nothing adds up to nothing. *)
LEMMA SumZero ==
    ASSUME NEW f, NEW S, IsFiniteSet(S), \A x \in S : f[x] = 0
    PROVE  Sum(f, S) = 0
<1> DEFINE C == {T \in SUBSET S : Sum(f, T) = 0}
<1>1. {} \in C
    BY SumOfNothing
<1>2. ASSUME NEW T \in C, NEW x \in S \ T
      PROVE  T \cup {x} \in C
    <2>1. IsFiniteSet(T)
        BY FS_Subset
    <2>2. Sum(f, T \cup {x}) = f[x] + Sum(f, T)
        <3> HIDE DEF C
        <3>1. \A y \in T : f[y] \in Int
            BY DEF C
        <3> QED BY <2>1, <3>1, SumAdd
    <2> QED
        BY <2>2
<1> HIDE DEF C
<1>3. C \in SUBSET SUBSET S
    BY DEF C
<1>4. S \in C
    BY <1>1, <1>2, <1>3, BySize
<1> QED
    BY <1>4 DEF C

(* Sets that have nothing in common. *)
LEMMA SumUnion ==
    ASSUME NEW f, NEW A, NEW S, IsFiniteSet(A), IsFiniteSet(S), A \cap S = {},
           \A x \in A \cup S : f[x] \in Int
    PROVE  Sum(f, A \cup S) = Sum(f, A) + Sum(f, S)
<1> DEFINE C == {T \in SUBSET S : Sum(f, A \cup T) = Sum(f, A) + Sum(f, T)}
<1>0. Sum(f, A) \in Int
    BY SumType
<1>1. {} \in C
    <2>1. A \cup {} = A
        OBVIOUS
    <2> QED
        BY <1>0, <2>1, SumOfNothing
<1>2. ASSUME NEW T \in C, NEW x \in S \ T
      PROVE  T \cup {x} \in C
    <2>1. IsFiniteSet(T) /\ T \in SUBSET S
        BY FS_Subset
    <2>2. IsFiniteSet(A \cup T)
        <3> HIDE DEF C
        <3> QED BY <2>1, FS_Union
    <2>3. f[x] \in Int /\ x \notin T /\ x \notin A \cup T
        OBVIOUS
    <2>4. Sum(f, T \cup {x}) = f[x] + Sum(f, T)
        <3> HIDE DEF C
        <3>1. \A y \in T : f[y] \in Int
            BY <2>1
        <3> QED BY <2>1, <2>3, <3>1, SumAdd
    <2>5. Sum(f, (A \cup T) \cup {x}) = f[x] + Sum(f, A \cup T)
        <3> HIDE DEF C
        <3>1. \A y \in A \cup T : f[y] \in Int
            BY <2>1
        <3> QED BY <2>2, <2>3, <3>1, SumAdd
    <2>6. (A \cup T) \cup {x} = A \cup (T \cup {x})
        OBVIOUS
    <2>7. Sum(f, T) \in Int
        <3> HIDE DEF C
        <3> QED BY <2>1, SumType
    <2>8. Sum(f, A \cup T) = Sum(f, A) + Sum(f, T)
        OBVIOUS
    <2>9. Sum(f, A \cup (T \cup {x})) = Sum(f, A) + Sum(f, T \cup {x})
        <3> HIDE DEF C
        <3>1. Sum(f, A \cup (T \cup {x})) = f[x] + (Sum(f, A) + Sum(f, T))
            BY <2>5, <2>6, <2>8
        <3> QED BY <1>0, <2>3, <2>4, <2>7, <3>1
    <2> QED
        BY <2>1, <2>9
<1> HIDE DEF C
<1>3. C \in SUBSET SUBSET S
    BY DEF C
<1>4. S \in C
    BY <1>1, <1>2, <1>3, BySize
<1> QED
    BY <1>4 DEF C

(* A sum without elements that count nothing. *)
LEMMA SumWithout ==
    ASSUME NEW f, NEW S, IsFiniteSet(S), NEW T \in SUBSET S,
           \A x \in S : f[x] \in Int, \A x \in S \ T : f[x] = 0
    PROVE  Sum(f, S) = Sum(f, T)
<1>1. IsFiniteSet(T) /\ IsFiniteSet(S \ T) /\ T \cap (S \ T) = {} /\ S = T \cup (S \ T)
    BY FS_Subset
<1>2. Sum(f, S \ T) = 0
    <2> DEFINE U == S \ T
    <2>1. IsFiniteSet(U) /\ \A x \in U : f[x] = 0
        BY <1>1
    <2> HIDE DEF U
    <2>2. Sum(f, U) = 0
        BY <2>1, SumZero
    <2> QED
        BY <2>2 DEF U
<1>3. Sum(f, T \cup (S \ T)) = Sum(f, T) + Sum(f, S \ T)
    <2> DEFINE U == S \ T
    <2>1. IsFiniteSet(U) /\ T \cap U = {} /\ \A x \in T \cup U : f[x] \in Int
        BY <1>1
    <2> HIDE DEF U
    <2>2. Sum(f, T \cup U) = Sum(f, T) + Sum(f, U)
        BY <1>1, <2>1, SumUnion
    <2> QED
        BY <2>2 DEF U
<1>4. Sum(f, T) \in Int
    BY <1>1, SumType
<1>5. Sum(f, S) = Sum(f, T) + Sum(f, S \ T)
    BY <1>1, <1>3
<1> QED
    BY <1>2, <1>4, <1>5

(* What is counted in parts. *)
LEMMA SumParts ==
    ASSUME NEW f, NEW g, NEW h, NEW S, NEW T, IsFiniteSet(S), IsFiniteSet(T),
           \A x \in S : f[x] \in Int /\ h[x] \in T,
           \A t \in T : g[t] = Sum(f, {x \in S : h[x] = t})
    PROVE  Sum(g, T) = Sum(f, S)
<1> DEFINE Over(U) == {x \in S : h[x] \in U}
           Part(t) == {x \in S : h[x] = t}
           C == {U \in SUBSET T : Sum(g, U) = Sum(f, Over(U))}
<1>1. {} \in C
    <2>1. Over({}) = {}
        OBVIOUS
    <2> QED
        BY <2>1, SumOfNothing
<1>2. ASSUME NEW U \in C, NEW t \in T \ U
      PROVE  U \cup {t} \in C
    <2>1. IsFiniteSet(U) /\ U \in SUBSET T
        BY FS_Subset
    <2>2. IsFiniteSet(Over(U)) /\ IsFiniteSet(Part(t))
        BY FS_Subset
    <2>3. Over(U) \cap Part(t) = {} /\ Over(U \cup {t}) = Over(U) \cup Part(t)
        OBVIOUS
    <2>4. \A x \in Over(U) \cup Part(t) : f[x] \in Int
        OBVIOUS
    <2>5. \A u \in T : g[u] \in Int
        <3> TAKE u \in T
        <3>1. IsFiniteSet(Part(u)) /\ \A x \in Part(u) : f[x] \in Int
            BY FS_Subset
        <3>2. g[u] = Sum(f, Part(u))
            OBVIOUS
        <3> HIDE DEF Part, C
        <3> QED BY <3>1, <3>2, SumType
    <2>6. g[t] = Sum(f, Part(t)) /\ Sum(g, U) = Sum(f, Over(U))
        OBVIOUS
    <2>7. t \in T /\ t \notin U
        OBVIOUS
    <2> HIDE DEF C, Over, Part
    <2>8. Sum(f, Over(U) \cup Part(t)) = Sum(f, Over(U)) + Sum(f, Part(t))
        BY <2>2, <2>3, <2>4, SumUnion
    <2>9. Sum(g, U \cup {t}) = g[t] + Sum(g, U)
        BY <2>1, <2>5, <2>7, SumAdd
    <2>10. Sum(f, Over(U)) \in Int /\ Sum(f, Part(t)) \in Int
        BY <2>2, <2>4, SumType
    <2>11. Sum(g, U \cup {t}) = Sum(f, Over(U \cup {t}))
        <3>1. Sum(f, Over(U \cup {t})) = Sum(f, Over(U)) + Sum(f, Part(t))
            BY <2>3, <2>8
        <3> QED
            BY <2>6, <2>9, <2>10, <3>1
    <2> QED
        BY <2>1, <2>7, <2>11 DEF C
<1>3. C \in SUBSET SUBSET T
    OBVIOUS
<1>4. T \in C
    <2> HIDE DEF C
    <2> QED BY <1>1, <1>2, <1>3, BySize
<1>5. Over(T) = S
    OBVIOUS
<1>6. Sum(g, T) = Sum(f, Over(T))
    BY <1>4
<1> QED
    BY <1>5, <1>6

(* What is counted by other names. *)
LEMMA SumMap ==
    ASSUME NEW f, NEW g, NEW m, NEW S, IsFiniteSet(S),
           \A x \in S : f[x] \in Int /\ g[m[x]] = f[x],
           \A x, y \in S : m[x] = m[y] => x = y
    PROVE  /\ IsFiniteSet({m[x] : x \in S})
           /\ Sum(g, {m[x] : x \in S}) = Sum(f, S)
<1> DEFINE Image(U) == {m[x] : x \in U}
           C == {U \in SUBSET S : IsFiniteSet(Image(U)) /\ Sum(g, Image(U)) = Sum(f, U)}
<1>1. {} \in C
    <2>1. Image({}) = {}
        OBVIOUS
    <2> QED
        BY <2>1, FS_EmptySet, SumOfNothing
<1>2. ASSUME NEW U \in C, NEW x \in S \ U
      PROVE  U \cup {x} \in C
    <2>1. IsFiniteSet(U) /\ U \in SUBSET S
        BY FS_Subset
    <2>2. Image(U \cup {x}) = Image(U) \cup {m[x]}
        OBVIOUS
    <2>3. m[x] \notin Image(U) /\ \A y \in Image(U) : g[y] \in Int
        OBVIOUS
    <2>4. IsFiniteSet(Image(U)) /\ Sum(g, Image(U)) = Sum(f, U)
        OBVIOUS
    <2>5. x \notin U /\ f[x] \in Int /\ g[m[x]] = f[x] /\ \A y \in U : f[y] \in Int
        OBVIOUS
    <2> HIDE DEF C, Image
    <2>6. Sum(f, U \cup {x}) = f[x] + Sum(f, U)
        BY <2>1, <2>5, SumAdd
    <2>7. Sum(g, Image(U) \cup {m[x]}) = g[m[x]] + Sum(g, Image(U))
        <3>1. g[m[x]] \in Int
            BY <2>5
        <3> QED
            BY <2>3, <2>4, <3>1, SumAdd
    <2>8. Sum(g, Image(U \cup {x})) = Sum(f, U \cup {x})
        BY <2>2, <2>4, <2>5, <2>6, <2>7
    <2>9. IsFiniteSet(Image(U \cup {x}))
        <3>1. IsFiniteSet(Image(U) \cup {m[x]})
            BY <2>4, FS_AddElement
        <3> QED
            BY <2>2, <3>1
    <2>10. U \cup {x} \in SUBSET S
        BY <2>1
    <2> QED
        BY <2>8, <2>9, <2>10 DEF C
<1>3. C \in SUBSET SUBSET S
    OBVIOUS
<1>4. S \in C
    <2> HIDE DEF C
    <2> QED BY <1>1, <1>2, <1>3, BySize
<1> QED
    BY <1>4

(* What a function makes of a finite set is finite. *)
LEMMA FiniteImage ==
    ASSUME NEW m, NEW S, IsFiniteSet(S)
    PROVE  IsFiniteSet({m[x] : x \in S})
<1> DEFINE T == {m[x] : x \in S}
           f == [x \in S |-> m[x]]
<1>1. f \in Surjection(S, T)
    BY DEF Surjection
<1> HIDE DEF f, T
<1>2. IsFiniteSet(T)
    BY <1>1, FS_Surjection
<1> QED
    BY <1>2 DEF T

(* A sum of which one element changes. *)
LEMMA SumChange ==
    ASSUME NEW f, NEW g, NEW S, IsFiniteSet(S), NEW x \in S,
           \A y \in S : f[y] \in Int /\ g[y] \in Int,
           \A y \in S : y # x => g[y] = f[y]
    PROVE  Sum(g, S) = Sum(f, S) + (g[x] - f[x])
<1> DEFINE T == S \ {x}
<1>1. IsFiniteSet(T) /\ \A y \in T : f[y] \in Int /\ g[y] = f[y]
    BY FS_Subset
<1>2. Sum(f, S) = f[x] + Sum(f, S \ {x})
    BY SumRemove
<1>3. Sum(g, S) = g[x] + Sum(g, S \ {x})
    BY SumRemove
<1> HIDE DEF T
<1>4. Sum(g, T) = Sum(f, T)
    BY <1>1, SumSame
<1>5. Sum(f, T) \in Int
    BY <1>1, SumType
<1>6. Sum(f, S) = f[x] + Sum(f, T) /\ Sum(g, S) = g[x] + Sum(f, T)
    BY <1>2, <1>3, <1>4 DEF T
<1>7. f[x] \in Int /\ g[x] \in Int
    OBVIOUS
<1> QED
    BY <1>5, <1>6, <1>7

(* Terms that are no greater have a sum that is no greater. *)
LEMMA SumAtMost ==
    ASSUME NEW f, NEW g, NEW S, IsFiniteSet(S),
           \A x \in S : f[x] \in Int /\ g[x] \in Int /\ f[x] <= g[x]
    PROVE  Sum(f, S) <= Sum(g, S)
<1> DEFINE C == {T \in SUBSET S : Sum(f, T) <= Sum(g, T)}
<1>1. {} \in C
    BY SumOfNothing
<1>2. ASSUME NEW T \in C, NEW x \in S \ T
      PROVE  T \cup {x} \in C
    <2>1. IsFiniteSet(T) /\ T \in SUBSET S /\ T \cup {x} \in SUBSET S
        BY FS_Subset
    <2>2. /\ Sum(f, T) <= Sum(g, T)
          /\ f[x] \in Int /\ g[x] \in Int /\ f[x] <= g[x] /\ x \notin T
          /\ \A y \in T : f[y] \in Int /\ g[y] \in Int
        OBVIOUS
    <2> HIDE DEF C
    <2>3. Sum(f, T \cup {x}) = f[x] + Sum(f, T)
        BY <2>1, <2>2, SumAdd
    <2>4. Sum(g, T \cup {x}) = g[x] + Sum(g, T)
        BY <2>1, <2>2, SumAdd
    <2>5. Sum(f, T) \in Int /\ Sum(g, T) \in Int
        BY <2>1, <2>2, SumType
    <2>6. Sum(f, T \cup {x}) <= Sum(g, T \cup {x})
        BY <2>2, <2>3, <2>4, <2>5
    <2> QED
        BY <2>1, <2>6 DEF C
<1>3. C \in SUBSET SUBSET S
    OBVIOUS
<1>4. S \in C
    <2> HIDE DEF C
    <2> QED BY <1>1, <1>2, <1>3, BySize
<1> QED
    BY <1>4

(* What is counted is never more than all. *)
LEMMA SumHolds ==
    ASSUME NEW f, NEW S, IsFiniteSet(S), \A x \in S : f[x] \in Nat
    PROVE  /\ Sum(f, S) \in Nat
           /\ \A x \in S : f[x] <= Sum(f, S)
<1> DEFINE C == {T \in SUBSET S : Sum(f, T) \in Nat}
<1>1. {} \in C
    BY SumOfNothing
<1>2. ASSUME NEW T \in C, NEW x \in S \ T
      PROVE  T \cup {x} \in C
    <2>1. IsFiniteSet(T) /\ T \in SUBSET S /\ T \cup {x} \in SUBSET S
        BY FS_Subset
    <2>2. Sum(f, T) \in Nat /\ f[x] \in Nat /\ x \notin T /\ \A y \in T : f[y] \in Int
        OBVIOUS
    <2> HIDE DEF C
    <2>3. f[x] \in Int
        BY <2>2
    <2>4. Sum(f, T \cup {x}) = f[x] + Sum(f, T)
        BY <2>1, <2>2, <2>3, SumAdd
    <2>5. Sum(f, T \cup {x}) \in Nat
        BY <2>2, <2>4
    <2> QED
        BY <2>1, <2>5 DEF C
<1>3. C \in SUBSET SUBSET S
    OBVIOUS
<1>4. \A T \in SUBSET S : Sum(f, T) \in Nat
    <2> SUFFICES ASSUME NEW T \in SUBSET S PROVE Sum(f, T) \in Nat
        OBVIOUS
    <2> DEFINE D == {U \in C : U \in SUBSET T}
    <2>1. IsFiniteSet(T)
        BY FS_Subset
    <2>2. {} \in D /\ D \in SUBSET SUBSET T
        BY <1>1
    <2>3. \A U \in D : \A x \in T \ U : U \cup {x} \in D
        <3> TAKE U \in D
        <3> TAKE x \in T \ U
        <3>1. U \in C /\ x \in S \ U
            OBVIOUS
        <3>2. U \cup {x} \in C
            <4> HIDE DEF C, D
            <4> QED
                BY <1>2, <3>1
        <3> QED
            BY <3>2
    <2>4. T \in D
        <3> HIDE DEF C, D
        <3> QED
            BY <2>1, <2>2, <2>3, BySize
    <2> QED
        BY <2>4
<1>5. ASSUME NEW x \in S PROVE f[x] <= Sum(f, S)
    <2>1. Sum(f, S) = f[x] + Sum(f, S \ {x})
        <3> HIDE DEF C
        <3> QED
            BY SumRemove
    <2>2. Sum(f, S \ {x}) \in Nat
        BY <1>4
    <2> QED
        BY <2>1, <2>2
<1> QED
    BY <1>4, <1>5

-----------------------------------------------------------------------------
(* Numbers. *)

(* A set of numbers that holds 0, and the next of every number it holds. *)
LEMMA ByCount ==
    ASSUME NEW C \in SUBSET Nat, 0 \in C, \A n \in C : n + 1 \in C
    PROVE  C = Nat
<1> DEFINE D == Nat \ C
<1> SUFFICES ASSUME D # {} PROVE FALSE
    OBVIOUS
<1>0. D \subseteq Nat /\ D # {}
    OBVIOUS
<1>1. PICK n \in D : \A m \in D : ~(<<m, n>> \in OpToRel(<, Nat))
    <2> HIDE DEF D
    <2> QED
        BY <1>0, NatLessThanWellFounded, WFMin
<1>2. n \in Nat /\ n \notin C /\ n # 0
    OBVIOUS
<1>3. n - 1 \in Nat /\ n - 1 < n
    BY <1>2
<1>4. n - 1 \in C
    <2> SUFFICES ASSUME n - 1 \notin C PROVE FALSE
        OBVIOUS
    <2>1. n - 1 \in D
        BY <1>3
    <2>2. <<n - 1, n>> \in OpToRel(<, Nat)
        BY <1>2, <1>3 DEF OpToRel
    <2> QED
        BY <1>1, <2>1, <2>2
<1>5. (n - 1) + 1 \in C /\ (n - 1) + 1 = n
    BY <1>2, <1>4
<1> QED
    BY <1>2, <1>5

(* A run of equal terms. *)
LEMMA SumRun ==
    ASSUME NEW f, NEW m \in Nat, NEW d \in Nat, NEW p \in Int,
           \A j \in 0..(m + d - 1) : f[j] \in Int,
           \A j \in 0..(m + d - 1) : m <= j => f[j] = p
    PROVE  Sum(f, 0..(m + d - 1)) = Sum(f, 0..(m - 1)) + d * p
<1> DEFINE C == {n \in Nat : n <= d =>
                    Sum(f, 0..(m + n - 1)) = Sum(f, 0..(m - 1)) + n * p}
<1>1. \A a \in Int : IsFiniteSet(0..a)
    BY FS_Interval
<1>2. \A n \in Nat : n <= d => Sum(f, 0..(m + n - 1)) \in Int
    <2> TAKE n \in Nat
    <2> HAVE n <= d
    <2> DEFINE S == 0..(m + n - 1)
    <2>1. IsFiniteSet(S) /\ \A j \in S : f[j] \in Int
        BY <1>1
    <2> HIDE DEF S, C
    <2>2. Sum(f, S) \in Int
        BY <2>1, SumType
    <2> QED
        BY <2>2 DEF S
<1>3. 0 \in C
    <2>1. Sum(f, 0..(m + 0 - 1)) \in Int /\ m + 0 - 1 = m - 1
        BY <1>2
    <2> QED
        BY <2>1
<1>4. ASSUME NEW n \in C PROVE n + 1 \in C
    <2> SUFFICES ASSUME n + 1 <= d
                 PROVE  Sum(f, 0..(m + (n + 1) - 1)) = Sum(f, 0..(m - 1)) + (n + 1) * p
        OBVIOUS
    <2> DEFINE S == 0..(m + n - 1)
    <2>1. n \in Nat /\ n <= d /\ Sum(f, S) = Sum(f, 0..(m - 1)) + n * p
        OBVIOUS
    <2>2. IsFiniteSet(S) /\ (\A j \in S : f[j] \in Int) /\ m + n \notin S
        BY <1>1, <2>1
    <2>3. f[m + n] \in Int /\ f[m + n] = p
        BY <2>1
    <2>4. 0..(m + (n + 1) - 1) = S \cup {m + n}
        BY <2>1
    <2>5. Sum(f, 0..(m - 1)) \in Int
        <3>1. m + 0 - 1 = m - 1 /\ 0 \in Nat /\ 0 <= d
            OBVIOUS
        <3> QED
            BY <1>2, <3>1
    <2> HIDE DEF S, C
    <2>6. Sum(f, S \cup {m + n}) = f[m + n] + Sum(f, S)
        BY <2>2, <2>3, SumAdd
    <2>7. n * p + p = (n + 1) * p /\ n * p \in Int
        BY <2>1
    <2>8. Sum(f, 0..(m + (n + 1) - 1)) = p + (Sum(f, 0..(m - 1)) + n * p)
        BY <2>1, <2>3, <2>4, <2>6, Zenon
    <2>9. \A x, y, z \in Int : y + p = z => p + (x + y) = x + z
        OBVIOUS
    <2>10. (n + 1) * p \in Int
        BY <2>1
    <2> QED
        BY <2>5, <2>7, <2>8, <2>9, <2>10, Zenon
<1>5. C \in SUBSET Nat
    OBVIOUS
<1>6. d \in C
    <2> HIDE DEF C
    <2> QED
        BY <1>3, <1>4, <1>5, ByCount
<1> QED
    BY <1>6
=============================================================================
