------------------------------- MODULE Totals -------------------------------
(* Totals over finite sets: what SumFunctionOnSet of the library module Functions
   computes.  The counters of the workspace's usage, of the staging quotas, of the
   guests' memory and fuel and of the component cache are such totals, and the
   proofs about them need how a total moves when one row changes.

   The library defines a total by recursion over the subsets of its set, one
   arbitrary element at a time.  Induction is by least counterexample (WFMin), with
   the induction hypothesis given as a set. *)
EXTENDS Integers, FiniteSets, Functions, FiniteSetTheorems, WellFoundedInduction, TLAPS

\* A nonempty set of naturals has a least element.
LEMMA LeastNat ==
  ASSUME NEW T, T \subseteq Nat, T # {}
  PROVE  \E n \in T : \A m \in T : n <= m
  <1>1. \E n \in T : \A m \in T : <<m, n>> \notin OpToRel(<, Nat)
    BY WFMin, NatLessThanWellFounded
  <1>2. \A m, n \in Nat : <<m, n>> \notin OpToRel(<, Nat) => n <= m
    BY DEF OpToRel
  <1> QED
    BY <1>1, <1>2

\* Induction over the subsets of a finite set, the induction hypothesis as a set:
\* what holds of a set once it holds of the set less any one element holds of S.
LEMMA SubsetInduction ==
  ASSUME NEW S, IsFiniteSet(S), NEW Q,
         \A s \in SUBSET S : (\A x \in s : s \ {x} \in Q) => s \in Q
  PROVE  S \in Q
  <1> SUFFICES ASSUME S \notin Q PROVE FALSE
    OBVIOUS
  <1> DEFINE Bad == {s \in SUBSET S : s \notin Q}
             T   == {Cardinality(s) : s \in Bad}
  <1>1. \A s \in SUBSET S : IsFiniteSet(s) /\ Cardinality(s) \in Nat
    BY FS_Subset, FS_CardinalityType
  <1>2. T \subseteq Nat /\ T # {}
    BY <1>1
  <1>3. PICK n \in T : \A m \in T : n <= m
    <2> HIDE DEF T
    <2> QED BY <1>2, LeastNat
  <1>4. PICK s \in Bad : n = Cardinality(s)
    BY <1>3
  <1>5. \A x \in s : s \ {x} \in Q
    <2> SUFFICES ASSUME NEW x \in s, s \ {x} \notin Q PROVE FALSE
      OBVIOUS
    <2>1. s \ {x} \in Bad
      OBVIOUS
    <2>2. Cardinality(s \ {x}) = Cardinality(s) - 1
      BY <1>1, FS_RemoveElement
    <2>3. n <= Cardinality(s \ {x})
      BY <2>1, <1>3
    <2> QED
      BY <2>2, <2>3, <1>4, <1>1
  <1> QED
    BY <1>5

\* the element the library's fold takes out of s next
Picked(s) == CHOOSE x \in s : TRUE

\* the right-hand side of the fold's recursive equation, on the sets D
Unfolding(g, F, D) ==
  [s \in D |-> IF s = {} THEN 0 ELSE F[Picked(s)] + g[s \ {Picked(s)}]]

Unfolds(g, F, S) == g = Unfolding(g, F, SUBSET S)

\* The total is the value at S of a function that satisfies the recursive equation.
LEMMA SumIsIter ==
  ASSUME NEW F, NEW S
  PROVE  SumFunctionOnSet(F, S) = (CHOOSE g : Unfolds(g, F, S))[S]
  BY DEF SumFunctionOnSet, FoldFunctionOnSet, MapThenFoldSet, Unfolds, Unfolding, Picked

\* Induction over the naturals, the induction hypothesis as a set.
LEMMA NatInduct ==
  ASSUME NEW Q, 0 \in Q, \A n \in Nat : n \in Q => n + 1 \in Q
  PROVE  \A n \in Nat : n \in Q
  <1> DEFINE T == {n \in Nat : n \notin Q}
  <1> SUFFICES ASSUME T # {} PROVE FALSE
    OBVIOUS
  <1>1. PICK n \in T : \A m \in T : n <= m
    <2> T \subseteq Nat
      OBVIOUS
    <2> HIDE DEF T
    <2> QED BY LeastNat
  <1>2. n # 0 /\ n - 1 \in Nat /\ n - 1 \notin T
    BY <1>1
  <1> QED
    BY <1>2

\* For a finite set the recursive equation has a solution, built by cardinality.
LEMMA IterExists ==
  ASSUME NEW F, NEW S, IsFiniteSet(S)
  PROVE  \E g : Unfolds(g, F, S)
  <1> DEFINE Layer(n) == {s \in SUBSET S : Cardinality(s) <= n}
             Q == {n \in Nat : \E g : g = Unfolding(g, F, Layer(n))}
  <1>0. \A s \in SUBSET S : IsFiniteSet(s) /\ Cardinality(s) \in Nat
    BY FS_Subset, FS_CardinalityType
  <1>1. 0 \in Q
    <2>1. \A s \in Layer(0) : s = {}
      BY <1>0, FS_EmptySet
    <2>2. [s \in Layer(0) |-> 0] = Unfolding([s \in Layer(0) |-> 0], F, Layer(0))
      BY <2>1 DEF Unfolding
    <2> QED
      BY <2>2
  <1>2. ASSUME NEW n \in Nat, n \in Q
        PROVE  n + 1 \in Q
    <2>1. PICK g : g = Unfolding(g, F, Layer(n))
      BY <1>2
    <2> DEFINE h == Unfolding(g, F, Layer(n + 1))
    <2>2. ASSUME NEW s \in Layer(n + 1), s # {}
          PROVE  h[s \ {Picked(s)}] = g[s \ {Picked(s)}]
      <3> DEFINE t == s \ {Picked(s)}
      <3>1. Picked(s) \in s
        BY <2>2 DEF Picked
      <3>2. Cardinality(t) = Cardinality(s) - 1
        BY <1>0, <3>1, FS_RemoveElement
      <3>3. t \in Layer(n) /\ t \in Layer(n + 1)
        BY <3>2, <1>0
      <3> HIDE DEF t, Layer
      <3>4. g[t] = IF t = {} THEN 0 ELSE F[Picked(t)] + g[t \ {Picked(t)}]
        BY <2>1, <3>3 DEF Unfolding
      <3>5. h[t] = IF t = {} THEN 0 ELSE F[Picked(t)] + g[t \ {Picked(t)}]
        BY <3>3 DEF Unfolding
      <3> QED
        BY <3>4, <3>5 DEF t
    <2>3. h = Unfolding(h, F, Layer(n + 1))
      <3>1. h = [s \in Layer(n + 1) |-> IF s = {} THEN 0 ELSE F[Picked(s)] + g[s \ {Picked(s)}]]
        BY DEF Unfolding
      <3>2. Unfolding(h, F, Layer(n + 1)) = [s \in Layer(n + 1) |-> IF s = {} THEN 0 ELSE F[Picked(s)] + h[s \ {Picked(s)}]]
        BY DEF Unfolding
      <3> HIDE DEF Layer, h
      <3> QED
        BY <2>2, <3>1, <3>2
    <2> QED
      BY <2>3
  <1>3. Cardinality(S) \in Q
    <2> HIDE DEF Q
    <2> QED BY <1>0, <1>1, <1>2, NatInduct
  <1>4. Layer(Cardinality(S)) = SUBSET S
    BY <1>0, FS_Subset
  <1> QED
    BY <1>3, <1>4 DEF Unfolds, Unfolding

\* The solutions for a set and for a part of it agree on the part.
LEMMA IterUnique ==
  ASSUME NEW F, NEW S, IsFiniteSet(S), NEW T \in SUBSET S,
         NEW g, Unfolds(g, F, S), NEW h, Unfolds(h, F, T)
  PROVE  g[T] = h[T]
  <1> DEFINE Q == {s \in SUBSET T : g[s] = h[s]}
  <1>1. ASSUME NEW s \in SUBSET T, \A x \in s : s \ {x} \in Q
        PROVE  s \in Q
    <2>1. g[s] = IF s = {} THEN 0 ELSE F[Picked(s)] + g[s \ {Picked(s)}]
      BY DEF Unfolds, Unfolding
    <2>2. h[s] = IF s = {} THEN 0 ELSE F[Picked(s)] + h[s \ {Picked(s)}]
      BY DEF Unfolds, Unfolding
    <2>3. s # {} => Picked(s) \in s
      BY DEF Picked
    <2>4. s # {} => g[s \ {Picked(s)}] = h[s \ {Picked(s)}]
      BY <1>1, <2>3
    <2> QED
      BY <2>1, <2>2, <2>4
  <1>2. IsFiniteSet(T)
    BY FS_Subset
  <1>3. T \in Q
    <2> HIDE DEF Q
    <2> QED BY <1>1, <1>2, SubsetInduction
  <1> QED
    BY <1>3

\* Every solution gives the totals of all parts.
LEMMA SumIs ==
  ASSUME NEW F, NEW S, IsFiniteSet(S), NEW T \in SUBSET S, NEW g, Unfolds(g, F, S)
  PROVE  SumFunctionOnSet(F, T) = g[T]
  <1>1. IsFiniteSet(T)
    BY FS_Subset
  <1>2. Unfolds(CHOOSE h : Unfolds(h, F, T), F, T)
    BY <1>1, IterExists
  <1> QED
    BY <1>2, IterUnique, SumIsIter

\* Nothing adds up to zero.
LEMMA SumEmpty ==
  ASSUME NEW F
  PROVE  SumFunctionOnSet(F, {}) = 0
  <1>0. IsFiniteSet({})
    BY FS_EmptySet
  <1>1. PICK g : Unfolds(g, F, {})
    BY <1>0, IterExists
  <1>2. g[{}] = 0
    BY <1>1 DEF Unfolds, Unfolding
  <1> QED
    BY <1>0, <1>1, <1>2, SumIs

\* The total is that of the picked element and of the rest.
LEMMA SumPicked ==
  ASSUME NEW F, NEW S, IsFiniteSet(S), S # {}
  PROVE  /\ Picked(S) \in S
         /\ SumFunctionOnSet(F, S) = F[Picked(S)] + SumFunctionOnSet(F, S \ {Picked(S)})
  <1>0. Picked(S) \in S
    BY DEF Picked
  <1>1. PICK g : Unfolds(g, F, S)
    BY IterExists
  <1>2. g[S] = F[Picked(S)] + g[S \ {Picked(S)}]
    BY <1>1 DEF Unfolds, Unfolding
  <1>3. SumFunctionOnSet(F, S) = g[S] /\ SumFunctionOnSet(F, S \ {Picked(S)}) = g[S \ {Picked(S)}]
    BY <1>1, SumIs
  <1> QED
    BY <1>0, <1>2, <1>3

\* A total of integers is an integer.
LEMMA SumInt ==
  ASSUME NEW F, NEW S, IsFiniteSet(S), \A x \in S : F[x] \in Int
  PROVE  SumFunctionOnSet(F, S) \in Int
  <1> DEFINE Q == {s \in SUBSET S : SumFunctionOnSet(F, s) \in Int}
  <1>1. ASSUME NEW s \in SUBSET S, \A x \in s : s \ {x} \in Q
        PROVE  s \in Q
    <2>1. CASE s = {}
      BY <2>1, SumEmpty
    <2>2. CASE s # {}
      <3>1. IsFiniteSet(s)
        BY FS_Subset
      <3>2. /\ Picked(s) \in s
            /\ SumFunctionOnSet(F, s) = F[Picked(s)] + SumFunctionOnSet(F, s \ {Picked(s)})
        BY <2>2, <3>1, SumPicked
      <3>3. SumFunctionOnSet(F, s \ {Picked(s)}) \in Int /\ F[Picked(s)] \in Int
        BY <1>1, <3>2
      <3> QED
        BY <3>2, <3>3
    <2> QED
      BY <2>1, <2>2
  <1>2. S \in Q
    <2> HIDE DEF Q
    <2> QED BY <1>1, SubsetInduction
  <1> QED
    BY <1>2

\* Any element may be taken out first: the total does not depend on the order.
LEMMA SumTake ==
  ASSUME NEW F, NEW S, IsFiniteSet(S), \A x \in S : F[x] \in Int, NEW e \in S
  PROVE  SumFunctionOnSet(F, S) = F[e] + SumFunctionOnSet(F, S \ {e})
  <1> DEFINE Sum(s) == SumFunctionOnSet(F, s)
             Q == {s \in SUBSET S : \A x \in s : Sum(s) = F[x] + Sum(s \ {x})}
  <1>0. \A s \in SUBSET S : IsFiniteSet(s) /\ Sum(s) \in Int
    BY FS_Subset, SumInt
  <1>1. ASSUME NEW s \in SUBSET S, \A x \in s : s \ {x} \in Q
        PROVE  s \in Q
    <2> SUFFICES ASSUME NEW x \in s PROVE Sum(s) = F[x] + Sum(s \ {x})
      OBVIOUS
    <2> DEFINE c == Picked(s)
    <2>1. c \in s /\ Sum(s) = F[c] + Sum(s \ {c})
      BY <1>0, SumPicked
    <2>2. CASE x = c
      BY <2>1, <2>2
    <2>3. CASE x # c
      <3>1. Sum(s \ {c}) = F[x] + Sum((s \ {c}) \ {x})
        BY <1>1, <2>1, <2>3
      <3>2. Sum(s \ {x}) = F[c] + Sum((s \ {x}) \ {c})
        BY <1>1, <2>1, <2>3
      <3>3. Sum((s \ {c}) \ {x}) = Sum((s \ {x}) \ {c})
        <4>1. (s \ {c}) \ {x} = (s \ {x}) \ {c}
          OBVIOUS
        <4> QED
          BY <4>1
      <3>4. F[x] \in Int /\ F[c] \in Int /\ Sum((s \ {c}) \ {x}) \in Int
        BY <1>0, <2>1
      <3> HIDE DEF Sum, c
      <3> QED
        BY <2>1, <3>1, <3>2, <3>3, <3>4
    <2> QED
      BY <2>2, <2>3
  <1>2. S \in Q
    <2> HIDE DEF Q
    <2> QED BY <1>1, SubsetInduction
  <1> QED
    BY <1>2

\* Functions that agree on the set have the same total over it.
LEMMA SumSame ==
  ASSUME NEW F, NEW G, NEW S, IsFiniteSet(S), \A x \in S : F[x] = G[x]
  PROVE  SumFunctionOnSet(F, S) = SumFunctionOnSet(G, S)
  <1> DEFINE Q == {s \in SUBSET S : SumFunctionOnSet(F, s) = SumFunctionOnSet(G, s)}
  <1>1. ASSUME NEW s \in SUBSET S, \A x \in s : s \ {x} \in Q
        PROVE  s \in Q
    <2>1. CASE s = {}
      BY <2>1, SumEmpty
    <2>2. CASE s # {}
      <3>1. IsFiniteSet(s)
        BY FS_Subset
      <3>2. /\ Picked(s) \in s
            /\ SumFunctionOnSet(F, s) = F[Picked(s)] + SumFunctionOnSet(F, s \ {Picked(s)})
            /\ SumFunctionOnSet(G, s) = G[Picked(s)] + SumFunctionOnSet(G, s \ {Picked(s)})
        BY <2>2, <3>1, SumPicked
      <3> QED
        BY <1>1, <3>2
    <2> QED
      BY <2>1, <2>2
  <1>2. S \in Q
    <2> HIDE DEF Q
    <2> QED BY <1>1, SubsetInduction
  <1> QED
    BY <1>2

\* Functions in order have totals in order.
LEMMA SumLeq ==
  ASSUME NEW F, NEW G, NEW S, IsFiniteSet(S),
         \A x \in S : F[x] \in Int /\ G[x] \in Int /\ F[x] <= G[x]
  PROVE  SumFunctionOnSet(F, S) <= SumFunctionOnSet(G, S)
  <1> DEFINE Q == {s \in SUBSET S : SumFunctionOnSet(F, s) <= SumFunctionOnSet(G, s)}
  <1>0. \A s \in SUBSET S : /\ IsFiniteSet(s)
                            /\ SumFunctionOnSet(F, s) \in Int
                            /\ SumFunctionOnSet(G, s) \in Int
    BY FS_Subset, SumInt
  <1>1. ASSUME NEW s \in SUBSET S, \A x \in s : s \ {x} \in Q
        PROVE  s \in Q
    <2>1. CASE s = {}
      BY <2>1, SumEmpty
    <2>2. CASE s # {}
      <3>2. /\ Picked(s) \in s
            /\ SumFunctionOnSet(F, s) = F[Picked(s)] + SumFunctionOnSet(F, s \ {Picked(s)})
            /\ SumFunctionOnSet(G, s) = G[Picked(s)] + SumFunctionOnSet(G, s \ {Picked(s)})
        BY <2>2, <1>0, SumPicked
      <3>3. /\ SumFunctionOnSet(F, s \ {Picked(s)}) <= SumFunctionOnSet(G, s \ {Picked(s)})
            /\ SumFunctionOnSet(F, s \ {Picked(s)}) \in Int
            /\ SumFunctionOnSet(G, s \ {Picked(s)}) \in Int
            /\ F[Picked(s)] \in Int /\ G[Picked(s)] \in Int /\ F[Picked(s)] <= G[Picked(s)]
        BY <1>0, <1>1, <3>2
      <3> QED
        BY <3>2, <3>3
    <2> QED
      BY <2>1, <2>2
  <1>2. S \in Q
    <2> HIDE DEF Q
    <2> QED BY <1>1, SubsetInduction
  <1> QED
    BY <1>2

\* Changing the value of one element moves the total by the difference.
LEMMA SumChange ==
  ASSUME NEW F, NEW G, NEW S, IsFiniteSet(S), NEW e \in S,
         \A x \in S : F[x] \in Int /\ G[x] \in Int,
         \A x \in S \ {e} : G[x] = F[x]
  PROVE  SumFunctionOnSet(G, S) = SumFunctionOnSet(F, S) - F[e] + G[e]
  <1>1. /\ SumFunctionOnSet(F, S) = F[e] + SumFunctionOnSet(F, S \ {e})
        /\ SumFunctionOnSet(G, S) = G[e] + SumFunctionOnSet(G, S \ {e})
    BY SumTake
  <1>2. IsFiniteSet(S \ {e}) /\ SumFunctionOnSet(G, S \ {e}) = SumFunctionOnSet(F, S \ {e})
    BY FS_Subset, SumSame
  <1>3. SumFunctionOnSet(F, S \ {e}) \in Int /\ F[e] \in Int /\ G[e] \in Int
    BY <1>2, SumInt
  <1> QED
    BY <1>1, <1>2, <1>3

\* A total of naturals is a natural and no element exceeds it.
LEMMA SumNat ==
  ASSUME NEW F, NEW S, IsFiniteSet(S), \A x \in S : F[x] \in Nat
  PROVE  /\ SumFunctionOnSet(F, S) \in Nat
         /\ \A e \in S : F[e] <= SumFunctionOnSet(F, S)
  <1>1. \A T \in SUBSET S : SumFunctionOnSet(F, T) \in Int /\ IsFiniteSet(T)
    BY FS_Subset, SumInt
  <1>2. \A T \in SUBSET S : SumFunctionOnSet(F, T) >= 0
    <2> DEFINE Q == {s \in SUBSET S : SumFunctionOnSet(F, s) >= 0}
    <2>1. ASSUME NEW s \in SUBSET S, \A x \in s : s \ {x} \in Q
          PROVE  s \in Q
      <3>1. s = {} => SumFunctionOnSet(F, s) = 0
        BY SumEmpty
      <3>2. s # {} => /\ Picked(s) \in s
                      /\ SumFunctionOnSet(F, s) = F[Picked(s)] + SumFunctionOnSet(F, s \ {Picked(s)})
        BY <1>1, SumPicked
      <3>3. s # {} => /\ F[Picked(s)] \in Nat
                      /\ SumFunctionOnSet(F, s \ {Picked(s)}) \in Int
                      /\ SumFunctionOnSet(F, s \ {Picked(s)}) >= 0
        BY <1>1, <2>1, <3>2
      <3> QED
        BY <3>1, <3>2, <3>3
    <2>2. ASSUME NEW T \in SUBSET S
          PROVE  T \in Q
      <3> HIDE DEF Q
      <3> QED BY <2>1, <1>1, SubsetInduction
    <2> QED
      BY <2>2
  <1>3. \A e \in S : SumFunctionOnSet(F, S) = F[e] + SumFunctionOnSet(F, S \ {e})
    BY SumTake
  <1>4. SumFunctionOnSet(F, S) \in Nat
    BY <1>1, <1>2
  <1>5. ASSUME NEW e \in S
        PROVE  F[e] <= SumFunctionOnSet(F, S)
    <2>1. S \ {e} \in SUBSET S
      OBVIOUS
    <2>2. SumFunctionOnSet(F, S \ {e}) \in Int /\ SumFunctionOnSet(F, S \ {e}) >= 0 /\ F[e] \in Nat
      BY <2>1, <1>1, <1>2
    <2> QED
      BY <2>2, <1>3
  <1> QED
    BY <1>4, <1>5

\* One more element adds its value.
LEMMA SumAdd ==
  ASSUME NEW F, NEW S, IsFiniteSet(S), NEW e, e \notin S,
         \A x \in S \cup {e} : F[x] \in Int
  PROVE  SumFunctionOnSet(F, S \cup {e}) = SumFunctionOnSet(F, S) + F[e]
  <1>1. IsFiniteSet(S \cup {e}) /\ (S \cup {e}) \ {e} = S
    BY FS_AddElement
  <1>2. SumFunctionOnSet(F, S \cup {e}) = F[e] + SumFunctionOnSet(F, (S \cup {e}) \ {e})
    BY <1>1, SumTake
  <1>3. SumFunctionOnSet(F, (S \cup {e}) \ {e}) = SumFunctionOnSet(F, S)
    BY <1>1
  <1>4. SumFunctionOnSet(F, S) \in Int /\ F[e] \in Int
    BY SumInt
  <1> QED
    BY <1>2, <1>3, <1>4

\* Two sums whose sets and terms differ in one element at most.
LEMMA SumMove ==
  ASSUME NEW F, NEW G, NEW S, NEW T, NEW e, IsFiniteSet(S), IsFiniteSet(T), \A x : x # e => (x \in S <=> x \in T),
         \A x \in S : F[x] \in Int, \A x \in T : G[x] \in Int, \A x \in S : x # e => F[x] = G[x]
  PROVE  /\ e \in S /\ e \in T => SumFunctionOnSet(G, T) = SumFunctionOnSet(F, S) - F[e] + G[e]
         /\ e \in S /\ e \notin T => SumFunctionOnSet(G, T) = SumFunctionOnSet(F, S) - F[e]
         /\ e \notin S /\ e \in T => SumFunctionOnSet(G, T) = SumFunctionOnSet(F, S) + G[e]
         /\ e \notin S /\ e \notin T => SumFunctionOnSet(G, T) = SumFunctionOnSet(F, S)
  <1> DEFINE R == S \ {e}
  <1>1. IsFiniteSet(R) /\ R \subseteq S /\ R = T \ {e}
    BY FS_Subset
  <1>2. SumFunctionOnSet(F, R) = SumFunctionOnSet(G, R) /\ SumFunctionOnSet(F, R) \in Int
    BY <1>1, SumSame, SumInt
  <1>3. SumFunctionOnSet(F, S) = SumFunctionOnSet(F, R) + (IF e \in S THEN F[e] ELSE 0)
    <2>1. CASE e \in S
      BY <2>1, <1>2, SumTake
    <2>2. CASE e \notin S
      <3>1. R = S
        BY <2>2
      <3> HIDE DEF R
      <3> QED BY <2>2, <1>2, <3>1
    <2> QED BY <2>1, <2>2
  <1>4. SumFunctionOnSet(G, T) = SumFunctionOnSet(G, R) + (IF e \in T THEN G[e] ELSE 0)
    <2>1. CASE e \in T
      BY <2>1, <1>1, <1>2, SumTake
    <2>2. CASE e \notin T
      <3>1. R = T
        BY <2>2
      <3> HIDE DEF R
      <3> QED BY <2>2, <1>2, <3>1
    <2> QED BY <2>1, <2>2
  <1>5. (e \in S => F[e] \in Int) /\ (e \in T => G[e] \in Int)
    OBVIOUS
  <1> HIDE DEF R
  <1> QED BY <1>2, <1>3, <1>4, <1>5

\* Zeros add up to zero.
LEMMA SumZero ==
  ASSUME NEW F, NEW S, IsFiniteSet(S), \A x \in S : F[x] = 0
  PROVE  SumFunctionOnSet(F, S) = 0
  <1> DEFINE Q == {s \in SUBSET S : SumFunctionOnSet(F, s) = 0}
  <1>1. ASSUME NEW s \in SUBSET S, \A x \in s : s \ {x} \in Q
        PROVE  s \in Q
    <2>1. s = {} => SumFunctionOnSet(F, s) = 0
      BY SumEmpty
    <2>2. IsFiniteSet(s)
      BY FS_Subset
    <2>3. s # {} => /\ Picked(s) \in s
                    /\ SumFunctionOnSet(F, s) = F[Picked(s)] + SumFunctionOnSet(F, s \ {Picked(s)})
      BY <2>2, SumPicked
    <2>4. s # {} => F[Picked(s)] = 0 /\ SumFunctionOnSet(F, s \ {Picked(s)}) = 0
      BY <1>1, <2>3
    <2> QED
      BY <2>1, <2>3, <2>4
  <1>2. S \in Q
    <2> HIDE DEF Q
    <2> QED BY <1>1, SubsetInduction
  <1> QED
    BY <1>2

\* What a function makes of a finite set is finite.
LEMMA ImageFinite ==
  ASSUME NEW S, IsFiniteSet(S), NEW f
  PROVE  IsFiniteSet({f[x] : x \in S})
  <1> DEFINE T == {f[x] : x \in S}
             g == [x \in S |-> f[x]]
  <1>1. g \in Surjection(S, T)
    BY DEF Surjection
  <1> HIDE DEF g, T
  <1>2. IsFiniteSet(T)
    BY <1>1, FS_Surjection
  <1> QED
    BY <1>2 DEF T

=============================================================================
