--------------------------- MODULE ExecutionProofs ---------------------------
(* What is proved about the execution of plugins, for every value of the
   constants: the compile cache keeps the catalog's components and its own weight
   (PluginRegistry), a session accounts for the fuel of its guests (PipelineRun),
   and the executor for the memory of its sessions (WasmExecutor).  Each is an
   inductive invariant, a lemma per action that preserves it, and the theorems it
   implies; the totals in them are those of module Totals. *)
EXTENDS PluginRegistry, PipelineRun, WasmExecutor, Totals

-----------------------------------------------------------------------------
(* The compile cache *)

\* No two places of a sequence hold the same.
Distinct(s) == \A i, j \in 1 .. Len(s) : s[i] = s[j] => i = j

\* What Retained builds up, entry by entry.
Retaining(k, s, T, n) ==
  [i \in 0 .. n |->
     IF i = 0 THEN <<>> ELSE IF s[i] \in T THEN Append(k[i - 1], s[i]) ELSE k[i - 1]]

\* The function that the definition of Retained takes exists.
LEMMA RetainingExists ==
  ASSUME NEW s, NEW T
  PROVE  \A n \in Nat : \E k : k = Retaining(k, s, T, n)
<1> DEFINE Q == {n \in Nat : \E k : k = Retaining(k, s, T, n)}
<1>1. 0 \in Q
  <2>1. [i \in 0 .. 0 |-> <<>>] = Retaining([i \in 0 .. 0 |-> <<>>], s, T, 0)
    BY DEF Retaining
  <2> QED BY <2>1
<1>2. ASSUME NEW n \in Nat, n \in Q PROVE n + 1 \in Q
  <2>1. PICK k : k = Retaining(k, s, T, n)
    BY <1>2
  <2> DEFINE h == [i \in 0 .. n + 1 |->
                     IF i = n + 1 THEN IF s[i] \in T THEN Append(k[n], s[i]) ELSE k[n] ELSE k[i]]
  <2>2. \A i \in 0 .. n : h[i] = k[i]
    OBVIOUS
  <2>3. \A i \in 0 .. n : k[i] = IF i = 0 THEN <<>> ELSE IF s[i] \in T THEN Append(k[i - 1], s[i]) ELSE k[i - 1]
    BY <2>1 DEF Retaining
  <2>4. \A i \in 0 .. n + 1 :
          h[i] = IF i = 0 THEN <<>> ELSE IF s[i] \in T THEN Append(h[i - 1], s[i]) ELSE h[i - 1]
    <3> SUFFICES ASSUME NEW i \in 0 .. n + 1
                 PROVE  h[i] = IF i = 0 THEN <<>> ELSE IF s[i] \in T THEN Append(h[i - 1], s[i]) ELSE h[i - 1]
      OBVIOUS
    <3>1. CASE i = n + 1
      <4>1. i # 0 /\ i - 1 = n /\ h[i] = IF s[i] \in T THEN Append(k[n], s[i]) ELSE k[n]
        BY <3>1
      <4>2. h[n] = k[n]
        BY <2>2
      <4> QED BY <4>1, <4>2
    <3>2. CASE i \in 0 .. n
      <4>1. h[i] = k[i] /\ (i # 0 => i - 1 \in 0 .. n /\ h[i - 1] = k[i - 1])
        BY <3>2, <2>2
      <4> QED BY <4>1, <2>3, <3>2
    <3> QED BY <3>1, <3>2
  <2>5. h = Retaining(h, s, T, n + 1)
    <3>1. h = [i \in 0 .. n + 1 |-> h[i]]
      OBVIOUS
    <3> HIDE DEF h
    <3> QED BY <3>1, <2>4 DEF Retaining
  <2> HIDE DEF h
  <2> QED BY <2>5
<1> HIDE DEF Q
<1>3. \A n \in Nat : n \in Q
  BY <1>1, <1>2, NatInduct
<1> QED BY <1>3 DEF Q

\* Retained unfolds.
LEMMA RetainedUnfolds ==
  ASSUME NEW S, NEW s \in Seq(S), NEW T
  PROVE  \E k : /\ Retained(s, T) = k[Len(s)] /\ k[0] = <<>>
                /\ \A i \in 1 .. Len(s) : k[i] = IF s[i] \in T THEN Append(k[i - 1], s[i]) ELSE k[i - 1]
<1> DEFINE c == CHOOSE k : k = Retaining(k, s, T, Len(s))
<1>1. Retained(s, T) = c[Len(s)]
  BY DEF Retained, Retaining
<1>2. c = Retaining(c, s, T, Len(s))
  BY RetainingExists
<1> HIDE DEF c
<1>3. PICK n \in Nat : n = Len(s)
  OBVIOUS
<1>4. \A i \in 0 .. n : c[i] = IF i = 0 THEN <<>> ELSE IF s[i] \in T THEN Append(c[i - 1], s[i]) ELSE c[i - 1]
  BY <1>2, <1>3 DEF Retaining
<1>5. /\ c[0] = <<>>
      /\ \A i \in 1 .. n : c[i] = IF s[i] \in T THEN Append(c[i - 1], s[i]) ELSE c[i - 1]
  BY <1>4
<1> QED BY <1>1, <1>3, <1>5

\* A sequence with one more entry.
LEMMA Appended ==
  ASSUME NEW S, NEW q \in Seq(S), NEW e \in S
  PROVE  /\ Append(q, e) \in Seq(S) /\ ToSet(Append(q, e)) = ToSet(q) \cup {e}
         /\ Distinct(q) /\ e \notin ToSet(q) => Distinct(Append(q, e))
<1>1. /\ Append(q, e) \in Seq(S) /\ Len(Append(q, e)) = Len(q) + 1 /\ Len(q) \in Nat
      /\ \A i \in 1 .. Len(q) : Append(q, e)[i] = q[i]
      /\ Append(q, e)[Len(q) + 1] = e
  OBVIOUS
<1>2. DOMAIN Append(q, e) = 1 .. Len(q) + 1 /\ DOMAIN q = 1 .. Len(q)
  BY <1>1
<1> DEFINE a == Append(q, e)
<1> HIDE DEF a
<1>3. a \in Seq(S) /\ Len(a) = Len(q) + 1 /\ DOMAIN a = 1 .. Len(q) + 1 /\ a[Len(q) + 1] = e
      /\ (\A i \in 1 .. Len(q) : a[i] = q[i])
  BY <1>1, <1>2 DEF a
<1>4. ToSet(a) = ToSet(q) \cup {e}
  <2>1. \A x \in ToSet(a) : x \in ToSet(q) \cup {e}
    BY <1>1, <1>2, <1>3 DEF ToSet
  <2>2. \A x \in ToSet(q) \cup {e} : x \in ToSet(a)
    BY <1>1, <1>2, <1>3 DEF ToSet
  <2> QED BY <2>1, <2>2
<1>5. Distinct(q) /\ e \notin ToSet(q) => Distinct(a)
  BY <1>1, <1>2, <1>3 DEF Distinct, ToSet
<1> QED BY <1>3, <1>4, <1>5 DEF a

\* What is retained is what is in T, without repetition if there was none.
LEMMA RetainedIs ==
  ASSUME NEW S, NEW s \in Seq(S), NEW T
  PROVE  /\ Retained(s, T) \in Seq(S) /\ ToSet(Retained(s, T)) = ToSet(s) \cap T
         /\ Distinct(s) => Distinct(Retained(s, T))
<1>1. PICK k : /\ Retained(s, T) = k[Len(s)] /\ k[0] = <<>>
               /\ \A i \in 1 .. Len(s) : k[i] = IF s[i] \in T THEN Append(k[i - 1], s[i]) ELSE k[i - 1]
  BY RetainedUnfolds
<1> DEFINE Upto(n) == {s[j] : j \in 1 .. n}
           Ok(n) == /\ k[n] \in Seq(S) /\ ToSet(k[n]) = Upto(n) \cap T
                    /\ Distinct(s) => Distinct(k[n])
           Q == {n \in Nat : n <= Len(s) => Ok(n)}
<1>2. 0 \in Q
  <2>1. ToSet(<<>>) = {} /\ Distinct(<<>>) /\ <<>> \in Seq(S) /\ Upto(0) = {}
    BY DEF ToSet, Distinct
  <2> QED BY <2>1, <1>1
<1>3. ASSUME NEW n \in Nat, n \in Q PROVE n + 1 \in Q
  <2> SUFFICES ASSUME n + 1 <= Len(s) PROVE Ok(n + 1)
    OBVIOUS
  <2> DEFINE e == s[n + 1]
  <2>1. Ok(n) /\ n + 1 \in 1 .. Len(s) /\ e \in S /\ (n + 1) - 1 = n
    BY <1>3
  <2>2. Upto(n + 1) = Upto(n) \cup {e}
    OBVIOUS
  <2>3. k[n + 1] = IF e \in T THEN Append(k[n], e) ELSE k[n]
    BY <1>1, <2>1
  <2>4. Distinct(s) => e \notin Upto(n)
    BY <2>1 DEF Distinct
  <2> HIDE DEF e, Upto
  <2>5. CASE e \in T
    <3>1. /\ Append(k[n], e) \in Seq(S) /\ ToSet(Append(k[n], e)) = ToSet(k[n]) \cup {e}
          /\ Distinct(k[n]) /\ e \notin ToSet(k[n]) => Distinct(Append(k[n], e))
      BY <2>1, Appended
    <3> QED BY <3>1, <2>1, <2>2, <2>3, <2>4, <2>5
  <2>6. CASE e \notin T
    BY <2>1, <2>2, <2>3, <2>6
  <2> QED BY <2>5, <2>6
<1>4. \A n \in Nat : n \in Q
  <2> HIDE DEF Q
  <2> QED BY <1>2, <1>3, NatInduct
<1>5. Len(s) \in Nat /\ Upto(Len(s)) = ToSet(s)
  BY DEF ToSet
<1>6. Ok(Len(s))
  <2> HIDE DEF Ok
  <2>1. \A n \in Nat : n <= Len(s) => Ok(n)
    BY <1>4
  <2>2. Len(s) <= Len(s)
    BY <1>5
  <2> QED BY <1>5, <2>1, <2>2
<1> QED BY <1>1, <1>5, <1>6

\* A sequence has as many entries as elements if it repeats none.
LEMMA DistinctCounts ==
  ASSUME NEW S, NEW s \in Seq(S)
  PROVE  /\ IsFiniteSet(ToSet(s)) /\ ToSet(s) \subseteq S
         /\ Distinct(s) => Cardinality(ToSet(s)) = Len(s)
<1>1. Len(s) \in Nat /\ DOMAIN s = 1 .. Len(s) /\ \A i \in 1 .. Len(s) : s[i] \in S
  OBVIOUS
<1>2. IsFiniteSet(1 .. Len(s)) /\ Cardinality(1 .. Len(s)) = Len(s)
  <2>1. PICK n \in Nat : n = Len(s)
    BY <1>1
  <2>2. IsFiniteSet(1 .. n) /\ Cardinality(1 .. n) = IF 1 > n THEN 0 ELSE n - 1 + 1
    BY FS_Interval
  <2> QED BY <2>1, <2>2
<1>3. IsFiniteSet(ToSet(s))
  <2>1. s \in Surjection(1 .. Len(s), ToSet(s))
    BY <1>1 DEF Surjection, ToSet
  <2> QED BY <1>2, <2>1, FS_Surjection
<1>4. ToSet(s) \subseteq S
  BY <1>1 DEF ToSet
<1>5. ASSUME Distinct(s) PROVE Cardinality(ToSet(s)) = Len(s)
  <2>1. s \in Surjection(1 .. Len(s), ToSet(s)) /\ s \in Injection(1 .. Len(s), ToSet(s))
    BY <1>1, <1>5 DEF Injection, IsInjective, Surjection, ToSet, Distinct
  <2> QED BY <1>2, <2>1, FS_Surjection
<1> QED BY <1>3, <1>4, <1>5

-----------------------------------------------------------------------------
Kinds == Caps \cup {"none"}
CacheRows == [of : [Components -> Kinds], order : Seq(Components), weight : Nat]

\* The order has every cached component once, and the weight is theirs.
GoodCache(cache) ==
  /\ cache \in CacheRows
  /\ Distinct(cache.order)
  /\ ToSet(cache.order) = {c \in Components : cache.of[c] # "none"}
  /\ cache.weight = SumFunctionOnSet(WeightOf, ToSet(cache.order))

\* A touched entry moves to the end of the order.
LEMMA MovedLast ==
  ASSUME NEW s \in Seq(Components), Distinct(s), NEW c \in Components
  PROVE  LET a == Append(Retained(s, Components \ {c}), c)
         IN a \in Seq(Components) /\ Distinct(a) /\ ToSet(a) = ToSet(s) \cup {c}
<1> DEFINE q == Retained(s, Components \ {c})
<1>1. q \in Seq(Components) /\ ToSet(q) = ToSet(s) \cap (Components \ {c}) /\ Distinct(q)
  BY RetainedIs
<1>2. ToSet(s) \subseteq Components
  BY DistinctCounts
<1> HIDE DEF q
<1>3. /\ Append(q, c) \in Seq(Components) /\ ToSet(Append(q, c)) = ToSet(q) \cup {c}
      /\ Distinct(q) /\ c \notin ToSet(q) => Distinct(Append(q, c))
  BY <1>1, Appended
<1>4. ToSet(q) \cup {c} = ToSet(s) \cup {c} /\ c \notin ToSet(q)
  BY <1>1, <1>2
<1> QED BY <1>1, <1>3, <1>4 DEF q

\* A touched entry keeps its capabilities and its weight.
LEMMA TouchedGood ==
  ASSUME NEW cache, GoodCache(cache), NEW c \in Components, cache.of[c] # "none"
  PROVE  /\ GoodCache(Touched(cache, c)) /\ Touched(cache, c).of = cache.of
         /\ Touched(cache, c).weight = cache.weight
         /\ ToSet(Touched(cache, c).order) = ToSet(cache.order)
<1> DEFINE a == Append(Retained(cache.order, Components \ {c}), c)
           t == Touched(cache, c)
<1>1. a \in Seq(Components) /\ Distinct(a) /\ ToSet(a) = ToSet(cache.order) \cup {c}
  BY MovedLast DEF GoodCache, CacheRows
<1>2. ToSet(a) = ToSet(cache.order)
  BY <1>1 DEF GoodCache
<1>3. t = [cache EXCEPT !.order = a]
  BY DEF Touched
<1> HIDE DEF a, t
<1>4. t \in CacheRows /\ t.of = cache.of /\ t.weight = cache.weight /\ t.order = a
  BY <1>1, <1>3 DEF GoodCache, CacheRows
<1> QED BY <1>1, <1>2, <1>4 DEF GoodCache, t

\* An entry that is inserted brings its weight.
LEMMA AddedGood ==
  ASSUME CacheAssumption, NEW cache, GoodCache(cache), NEW c \in Components, cache.of[c] = "none", NEW caps \in Caps
  PROVE  /\ GoodCache(Touched(Inserted(cache, c, caps), c))
         /\ Touched(Inserted(cache, c, caps), c).of = [cache.of EXCEPT ![c] = caps]
<1> DEFINE a == Append(Retained(cache.order, Components \ {c}), c)
           i == Inserted(cache, c, caps)
           t == Touched(i, c)
<1>0. caps # "none" /\ caps \in Kinds
  BY DEF Caps, Kinds
<1>1. a \in Seq(Components) /\ Distinct(a) /\ ToSet(a) = ToSet(cache.order) \cup {c}
  BY MovedLast DEF GoodCache, CacheRows
<1>2. /\ i \in CacheRows /\ i.of = [cache.of EXCEPT ![c] = caps]
      /\ i.order = cache.order /\ i.weight = cache.weight + WeightOf[c]
  <2>1. i = [cache EXCEPT !.of[c] = caps, !.weight = @ + WeightOf[c]]
    BY DEF Inserted
  <2>2. cache \in CacheRows /\ WeightOf[c] \in Nat
    BY DEF GoodCache, CacheAssumption
  <2> HIDE DEF i
  <2> DEFINE of == [cache.of EXCEPT ![c] = caps]
             w == cache.weight + WeightOf[c]
  <2>3. of \in [Components -> Kinds] /\ w \in Nat /\ cache.order \in Seq(Components)
    BY <1>0, <2>2 DEF CacheRows
  <2>4. i = [cache EXCEPT !.of = of, !.weight = w]
    BY <2>1, <2>2 DEF CacheRows
  <2> HIDE DEF of, w
  <2>5. i.of = of /\ i.weight = w /\ i.order = cache.order /\ i \in CacheRows
    BY <2>2, <2>3, <2>4 DEF CacheRows
  <2> QED BY <2>5 DEF of, w
<1>3. t = [i EXCEPT !.order = a]
  BY <1>2 DEF Touched
<1>4. c \notin ToSet(cache.order) /\ IsFiniteSet(ToSet(cache.order)) /\ ToSet(cache.order) \subseteq Components
  BY DistinctCounts DEF GoodCache, CacheRows
<1>5. SumFunctionOnSet(WeightOf, ToSet(cache.order) \cup {c}) = cache.weight + WeightOf[c]
  <2> DEFINE S == ToSet(cache.order) \cup {c}
  <2>1. IsFiniteSet(S) /\ S \ {c} = ToSet(cache.order) /\ c \in S
    BY <1>4, FS_AddElement
  <2>2. \A x \in S : WeightOf[x] \in Int
    BY <1>4 DEF CacheAssumption
  <2>3. cache.weight \in Nat /\ WeightOf[c] \in Nat /\ cache.weight = SumFunctionOnSet(WeightOf, ToSet(cache.order))
    BY DEF GoodCache, CacheRows, CacheAssumption
  <2> HIDE DEF S
  <2>4. SumFunctionOnSet(WeightOf, S) = WeightOf[c] + SumFunctionOnSet(WeightOf, S \ {c})
    BY <2>1, <2>2, SumTake
  <2>5. SumFunctionOnSet(WeightOf, S \ {c}) = cache.weight
    BY <2>1, <2>3
  <2>6. SumFunctionOnSet(WeightOf, S) = cache.weight + WeightOf[c]
    BY <2>3, <2>4, <2>5
  <2> QED BY <2>6 DEF S
<1> HIDE DEF a, t, i
<1>6. t \in CacheRows /\ t.of = [cache.of EXCEPT ![c] = caps] /\ t.weight = cache.weight + WeightOf[c] /\ t.order = a
  BY <1>1, <1>2, <1>3 DEF CacheRows
<1>7. ToSet(a) = {d \in Components : t.of[d] # "none"}
  BY <1>0, <1>1, <1>6 DEF GoodCache, CacheRows
<1>8. t.weight = SumFunctionOnSet(WeightOf, ToSet(a))
  BY <1>1, <1>5, <1>6
<1> QED BY <1>1, <1>6, <1>7, <1>8 DEF GoodCache, t, i

\* An entry that is evicted takes its weight with it.
LEMMA WithoutGood ==
  ASSUME CacheAssumption, NEW cache, GoodCache(cache), NEW c \in ToSet(cache.order)
  PROVE  /\ GoodCache(Without(cache, c)) /\ Without(cache, c).of = [cache.of EXCEPT ![c] = "none"]
         /\ ToSet(Without(cache, c).order) = ToSet(cache.order) \ {c}
<1> DEFINE q == Retained(cache.order, Components \ {c})
           t == Without(cache, c)
           S == ToSet(cache.order)
<1>1. IsFiniteSet(S) /\ S \subseteq Components /\ c \in Components /\ c \in S
  BY DistinctCounts DEF GoodCache, CacheRows
<1>2. q \in Seq(Components) /\ ToSet(q) = S \cap (Components \ {c}) /\ Distinct(q)
  BY RetainedIs DEF GoodCache, CacheRows
<1>3. ToSet(q) = S \ {c}
  BY <1>1, <1>2
<1>4. t.of = [cache.of EXCEPT ![c] = "none"] /\ t.order = q /\ t.weight = cache.weight - WeightOf[c]
      /\ t = [of |-> t.of, order |-> t.order, weight |-> t.weight]
  BY DEF Without
<1>5. \A x \in S : WeightOf[x] \in Int /\ WeightOf[x] \in Nat
  BY <1>1 DEF CacheAssumption
<1>6. IsFiniteSet(S \ {c})
  BY <1>1, FS_Subset
<1>7. cache.weight = SumFunctionOnSet(WeightOf, S)
  BY DEF GoodCache
<1> HIDE DEF q, t, S
<1>8. SumFunctionOnSet(WeightOf, S) = WeightOf[c] + SumFunctionOnSet(WeightOf, S \ {c})
  BY <1>1, <1>5, SumTake
<1>9. SumFunctionOnSet(WeightOf, S \ {c}) \in Nat
  BY <1>5, <1>6, SumNat
<1>10. t.weight = SumFunctionOnSet(WeightOf, S \ {c}) /\ t.weight \in Nat
  BY <1>1, <1>4, <1>5, <1>7, <1>8, <1>9
<1>11. t.of \in [Components -> Kinds] /\ S \ {c} = {d \in Components : t.of[d] # "none"}
  BY <1>1, <1>4 DEF GoodCache, CacheRows, Kinds, S
<1>12. t \in CacheRows
  BY <1>2, <1>4, <1>10, <1>11 DEF CacheRows
<1>13. GoodCache(t)
  BY <1>2, <1>3, <1>4, <1>10, <1>11, <1>12 DEF GoodCache
<1> QED BY <1>3, <1>4, <1>13 DEF t, S

\* What an eviction may do to a cache: it stays good, keeps what is pinned and
\* adds nothing.
Spares(before, after, pinned) ==
  /\ GoodCache(after)
  /\ \A c \in pinned \cap Components : after.of[c] = before.of[c]

\* The cache fits, or everything in it is pinned.
Trimmed(cache, pinned) == cache.weight > CacheMax => ToSet(cache.order) \subseteq pinned

\* One round of the eviction takes a victim, or there is none to take.
LEMMA EvictOneGood ==
  ASSUME CacheAssumption, NEW cache, GoodCache(cache), NEW catalog
  PROVE  LET after == EvictOne(cache, catalog)
             pinned == Referenced(catalog)
         IN /\ Spares(cache, after, pinned)
            /\ \/ after = cache /\ Trimmed(cache, pinned)
               \/ ~ Trimmed(cache, pinned) /\ \E c \in ToSet(cache.order) : ToSet(after.order) = ToSet(cache.order) \ {c}
<1> DEFINE pinned == Referenced(catalog)
           victims == Retained(cache.order, Components \ pinned)
           after == EvictOne(cache, catalog)
<1>1. cache.order \in Seq(Components) /\ ToSet(cache.order) \subseteq Components
  BY DistinctCounts DEF GoodCache, CacheRows
<1>2. victims \in Seq(Components) /\ ToSet(victims) = ToSet(cache.order) \cap (Components \ pinned)
  BY <1>1, RetainedIs
<1>3. after = IF cache.weight > CacheMax /\ victims # <<>> THEN Without(cache, victims[1]) ELSE cache
  BY DEF EvictOne
<1> HIDE DEF pinned, victims, after
<1>4. CASE cache.weight > CacheMax /\ victims # <<>>
  <2>1. victims[1] \in ToSet(victims)
    BY <1>2, <1>4 DEF ToSet
  <2>2. victims[1] \in ToSet(cache.order) /\ victims[1] \notin pinned
    BY <1>2, <2>1
  <2>3. after = Without(cache, victims[1])
    BY <1>3, <1>4
  <2> DEFINE c == victims[1]
  <2> HIDE DEF c
  <2>4. /\ GoodCache(after) /\ after.of = [cache.of EXCEPT ![c] = "none"]
        /\ ToSet(after.order) = ToSet(cache.order) \ {c}
    BY <2>2, <2>3, WithoutGood DEF c
  <2>5. c \in ToSet(cache.order) /\ c \notin pinned
    BY <2>2 DEF c
  <2>6. Spares(cache, after, pinned)
    BY <2>4, <2>5 DEF Spares, GoodCache, CacheRows
  <2>7. ~ Trimmed(cache, pinned)
    BY <1>4, <2>5 DEF Trimmed
  <2> QED BY <2>4, <2>5, <2>6, <2>7 DEF after, pinned
<1>5. CASE ~ (cache.weight > CacheMax /\ victims # <<>>)
  <2>1. after = cache
    BY <1>3, <1>5
  <2>2. victims = <<>> => ToSet(victims) = {}
    BY DEF ToSet
  <2>3. Trimmed(cache, pinned)
    BY <1>1, <1>2, <1>5, <2>2 DEF Trimmed
  <2> QED BY <2>1, <2>3 DEF Spares, after, pinned
<1> QED BY <1>4, <1>5

\* The rounds of an eviction.
Evicting(k, cache, catalog, n) ==
  [i \in 0 .. n |-> IF i = 0 THEN cache ELSE EvictOne(k[i - 1], catalog)]

\* The function that the definition of EvictUnreferenced takes exists.
LEMMA EvictingExists ==
  ASSUME NEW cache, NEW catalog
  PROVE  \A n \in Nat : \E k : k = Evicting(k, cache, catalog, n)
<1> DEFINE Q == {n \in Nat : \E k : k = Evicting(k, cache, catalog, n)}
           One(x) == EvictOne(x, catalog)
<1> HIDE DEF One
<1>0. \A k, n : Evicting(k, cache, catalog, n) = [i \in 0 .. n |-> IF i = 0 THEN cache ELSE One(k[i - 1])]
  BY DEF Evicting, One
<1>1. 0 \in Q
  <2>1. [i \in 0 .. 0 |-> cache] = Evicting([i \in 0 .. 0 |-> cache], cache, catalog, 0)
    BY <1>0
  <2> QED BY <2>1
<1>2. ASSUME NEW n \in Nat, n \in Q PROVE n + 1 \in Q
  <2>1. PICK k : k = Evicting(k, cache, catalog, n)
    BY <1>2
  <2> DEFINE h == [i \in 0 .. n + 1 |-> IF i = n + 1 THEN One(k[n]) ELSE k[i]]
  <2>2. \A i \in 0 .. n : h[i] = k[i]
    OBVIOUS
  <2>3. \A i \in 0 .. n : k[i] = IF i = 0 THEN cache ELSE One(k[i - 1])
    BY <1>0, <2>1
  <2>4. \A i \in 0 .. n + 1 : h[i] = IF i = 0 THEN cache ELSE One(h[i - 1])
    <3> SUFFICES ASSUME NEW i \in 0 .. n + 1 PROVE h[i] = IF i = 0 THEN cache ELSE One(h[i - 1])
      OBVIOUS
    <3>1. CASE i = n + 1
      <4>1. i # 0 /\ i - 1 = n /\ h[i] = One(k[n])
        BY <3>1
      <4>2. h[n] = k[n]
        BY <2>2
      <4> QED BY <4>1, <4>2
    <3>2. CASE i \in 0 .. n
      <4>1. h[i] = k[i] /\ (i # 0 => i - 1 \in 0 .. n /\ h[i - 1] = k[i - 1])
        BY <3>2, <2>2
      <4> QED BY <4>1, <2>3, <3>2
    <3> QED BY <3>1, <3>2
  <2>5. h = Evicting(h, cache, catalog, n + 1)
    <3>1. h = [i \in 0 .. n + 1 |-> h[i]]
      OBVIOUS
    <3> HIDE DEF h
    <3> QED BY <3>1, <2>4 DEF Evicting, One
  <2> HIDE DEF h
  <2> QED BY <2>5
<1> HIDE DEF Q
<1>3. \A n \in Nat : n \in Q
  BY <1>1, <1>2, NatInduct
<1> QED BY <1>3 DEF Q

Rounds(k, cache, catalog, n) ==
  /\ EvictUnreferenced(cache, catalog) = k[n] /\ k[0] = cache
  /\ \A i \in 1 .. n : k[i] = EvictOne(k[i - 1], catalog)

\* EvictUnreferenced unfolds.
LEMMA EvictUnfolds ==
  ASSUME NEW cache, NEW n \in Nat, n = Len(cache.order), NEW catalog
  PROVE  \E k : Rounds(k, cache, catalog, n)
<1> DEFINE c == CHOOSE k : k = Evicting(k, cache, catalog, n)
           One(x) == EvictOne(x, catalog)
<1>1. EvictUnreferenced(cache, catalog) = c[n]
  BY DEF EvictUnreferenced, Evicting
<1>2. c = Evicting(c, cache, catalog, n)
  BY EvictingExists
<1> HIDE DEF c, One
<1>3. \A i \in 0 .. n : c[i] = IF i = 0 THEN cache ELSE One(c[i - 1])
  BY <1>2 DEF Evicting, One
<1>4. c[0] = cache /\ \A i \in 1 .. n : c[i] = One(c[i - 1])
  BY <1>3
<1> QED BY <1>1, <1>4 DEF One, Rounds

\* The eviction keeps what is pinned, and ends with a cache that fits unless
\* everything in it is pinned: a round for each entry is enough.
LEMMA EvictGood ==
  ASSUME CacheAssumption, NEW cache, GoodCache(cache), NEW catalog
  PROVE  LET after == EvictUnreferenced(cache, catalog)
         IN Spares(cache, after, Referenced(catalog)) /\ Trimmed(after, Referenced(catalog))
<1> DEFINE pinned == Referenced(catalog)
           Size(d) == Cardinality(ToSet(d.order))
<1>1. PICK n \in Nat : n = Len(cache.order)
  BY DEF GoodCache, CacheRows
<1>0. PICK k : Rounds(k, cache, catalog, n)
  BY <1>1, EvictUnfolds
<1>2. /\ EvictUnreferenced(cache, catalog) = k[n] /\ k[0] = cache
      /\ \A i \in 1 .. n : k[i] = EvictOne(k[i - 1], catalog)
  BY <1>0 DEF Rounds
<1>3. \A d : GoodCache(d) => IsFiniteSet(ToSet(d.order)) /\ Size(d) = Len(d.order) /\ Size(d) \in Nat
  <2> SUFFICES ASSUME NEW d, GoodCache(d)
               PROVE  IsFiniteSet(ToSet(d.order)) /\ Size(d) = Len(d.order) /\ Size(d) \in Nat
    OBVIOUS
  <2>1. d.order \in Seq(Components) /\ Distinct(d.order)
    BY DEF GoodCache, CacheRows
  <2> QED BY <2>1, DistinctCounts
<1> DEFINE Ok(i) == Spares(cache, k[i], pinned) /\ (Trimmed(k[i], pinned) \/ Size(k[i]) + i <= n)
           Q == {i \in Nat : i <= n => Ok(i)}
<1>4. 0 \in Q
  BY <1>1, <1>2, <1>3 DEF Spares
<1>5. ASSUME NEW i \in Nat, i \in Q PROVE i + 1 \in Q
  <2> SUFFICES ASSUME i + 1 <= n PROVE Ok(i + 1)
    OBVIOUS
  <2>1. Ok(i)
    BY <1>5
  <2>2. k[i + 1] = EvictOne(k[i], catalog)
    BY <1>2
  <2> DEFINE before == k[i]
             after == k[i + 1]
  <2> HIDE DEF before, after, pinned
  <2>3. GoodCache(before)
    BY <2>1 DEF Spares, before
  <2>4. /\ Spares(before, after, pinned)
        /\ \/ after = before /\ Trimmed(before, pinned)
           \/ ~ Trimmed(before, pinned) /\ \E c \in ToSet(before.order) : ToSet(after.order) = ToSet(before.order) \ {c}
    BY <2>2, <2>3, EvictOneGood DEF before, after, pinned
  <2>5. Spares(cache, after, pinned)
    BY <2>1, <2>4 DEF Spares, before
  <2>6. CASE after = before /\ Trimmed(before, pinned)
    BY <2>5, <2>6 DEF after
  <2>7. ASSUME ~ Trimmed(before, pinned), NEW c \in ToSet(before.order), ToSet(after.order) = ToSet(before.order) \ {c}
        PROVE  Ok(i + 1)
    <3>1. Size(after) = Size(before) - 1 /\ Size(before) \in Nat
      BY <1>3, <2>3, <2>7, FS_RemoveElement
    <3>2. Size(before) + i <= n
      BY <2>1, <2>7 DEF before
    <3>3. Size(after) + (i + 1) <= n
      BY <3>1, <3>2
    <3> QED BY <2>5, <3>3 DEF after
  <2> QED BY <2>4, <2>6, <2>7
<1>6. \A i \in Nat : i \in Q
  <2> HIDE DEF Q
  <2> QED BY <1>4, <1>5, NatInduct
<1>7. Ok(n)
  <2> HIDE DEF Ok
  <2> QED BY <1>6
<1>8. Trimmed(k[n], pinned)
  <2>1. CASE Size(k[n]) + n <= n
    <3>1. GoodCache(k[n])
      BY <1>7 DEF Spares
    <3>2. Size(k[n]) = 0 /\ IsFiniteSet(ToSet(k[n].order))
      BY <2>1, <1>3, <3>1
    <3>3. ToSet(k[n].order) = {}
      BY <3>2, FS_EmptySet
    <3> QED BY <3>3 DEF Trimmed
  <2> QED BY <2>1, <1>7
<1> QED BY <1>2, <1>7, <1>8

-----------------------------------------------------------------------------
PluginRows == [here : BOOLEAN, component : Components \cup {"none"}, caps : Kinds, enabled : BOOLEAN]
ImportRows == [component : Components \cup {"none"}, caps : Caps \cup {"none", "over"}]
BuilderRows ==
  [phase : {"idle", "engines", "missed", "compiled", "missing", "refused", "ready"},
   hosted : BOOLEAN, steps : Seq(Steps), done : Nat]

\* A catalog entry names a component and its capabilities, an import between
\* its two halves too, and a builder that waits for an engine has a step to go.
CatalogOwned ==
  /\ plugin \in [Plugins -> PluginRows] /\ order \in Seq(Plugins)
  /\ \A p \in Plugins : plugin[p].here => plugin[p].component \in Components /\ plugin[p].caps \in Caps

ImportsOwned ==
  /\ importing \in [Plugins -> ImportRows]
  /\ \A p \in Plugins : importing[p].component \in Components => importing[p].caps \in Caps

BuildersOwned ==
  /\ builder \in [Builders -> BuilderRows]
  /\ \A b \in Builders :
       /\ builder[b].done <= Len(builder[b].steps)
       /\ builder[b].phase \in {"missed", "compiled"} => builder[b].done < Len(builder[b].steps)

\* Every catalog entry's component is cached as the entry says.
Pinned == \A p \in Plugins : plugin[p].here => cached[plugin[p].component] = plugin[p].caps

\* CacheKeepsCatalog is inductive together with these.
CacheInvariant ==
  /\ CatalogOwned /\ ImportsOwned /\ BuildersOwned
  /\ GoodCache(Cache) /\ Pinned /\ Trimmed(Cache, Referenced(plugin))

\* The registry takes over a cache.
LEMMA CacheTaken ==
  ASSUME NEW c, GoodCache(c), SetCache(c)
  PROVE  /\ GoodCache(Cache') /\ cached' = c.of
         /\ \A pinned : Trimmed(c, pinned) => Trimmed(Cache', pinned)
<1>1. cached' = c.of /\ lru' = c.order /\ weight' = c.weight
  BY DEF SetCache
<1>2. Cache'.of = c.of /\ Cache'.order = c.order /\ Cache'.weight = c.weight
  BY <1>1 DEF Cache
<1>3. Cache' \in CacheRows
  BY <1>1 DEF Cache, GoodCache, CacheRows
<1> QED BY <1>1, <1>2, <1>3 DEF GoodCache, Trimmed

\* The registry's cache is touched.
LEMMA CacheTouched ==
  ASSUME CacheInvariant, NEW c \in Components, cached[c] # "none", SetCache(Touched(Cache, c)), plugin' = plugin
  PROVE  GoodCache(Cache') /\ cached' = cached /\ Trimmed(Cache', Referenced(plugin'))
<1> DEFINE t == Touched(Cache, c)
<1>1. Cache.of = cached /\ GoodCache(Cache) /\ Trimmed(Cache, Referenced(plugin))
  BY DEF Cache, CacheInvariant
<1>2. GoodCache(t) /\ t.of = Cache.of /\ t.weight = Cache.weight /\ ToSet(t.order) = ToSet(Cache.order)
  BY <1>1, TouchedGood
<1> HIDE DEF t
<1>3. Trimmed(t, Referenced(plugin))
  BY <1>1, <1>2 DEF Trimmed
<1> QED BY <1>1, <1>2, <1>3, CacheTaken DEF t

\* A step that leaves the cache alone and pins nothing new.
LEMMA CacheKept ==
  ASSUME CacheInvariant, UNCHANGED <<cached, lru, weight>>,
         plugin' \in [Plugins -> PluginRows],
         \A p \in Plugins : /\ plugin'[p].here = plugin[p].here
                            /\ plugin'[p].component = plugin[p].component /\ plugin'[p].caps = plugin[p].caps
  PROVE  GoodCache(Cache') /\ Pinned' /\ Trimmed(Cache', Referenced(plugin'))
<1>1. Cache' = Cache
  BY DEF Cache
<1>2. Referenced(plugin') = Referenced(plugin)
  BY DEF Referenced
<1> QED BY <1>1, <1>2 DEF CacheInvariant, Pinned

\* The registry starts empty.
LEMMA RegistryInitially == ASSUME CacheAssumption, RegistryInit PROVE CacheInvariant
<1>1. CatalogOwned
  BY DEF RegistryInit, CatalogOwned, PluginRows, NoPlugin, Kinds
<1>2. ImportsOwned
  BY DEF RegistryInit, ImportsOwned, ImportRows, Idle, CacheAssumption
<1>3. BuildersOwned
  BY DEF RegistryInit, BuildersOwned, BuilderRows, NoBuilder
<1>4. Pinned
  BY DEF RegistryInit, Pinned, NoPlugin
<1>5. GoodCache(Cache)
  <2>1. Cache.of = [c \in Components |-> "none"] /\ Cache.order = <<>> /\ Cache.weight = 0 /\ Cache \in CacheRows
    BY DEF RegistryInit, Cache, CacheRows, Kinds
  <2>2. ToSet(<<>>) = {} /\ Distinct(<<>>)
    BY DEF ToSet, Distinct
  <2>3. {c \in Components : Cache.of[c] # "none"} = {}
    BY <2>1
  <2> QED BY <2>1, <2>2, <2>3, SumEmpty DEF GoodCache
<1>6. Trimmed(Cache, Referenced(plugin))
  BY DEF RegistryInit, Trimmed, Cache, CacheAssumption
<1> QED BY <1>1, <1>2, <1>3, <1>4, <1>5, <1>6 DEF CacheInvariant

\* The first half of an import touches an entry at most.
LEMMA LookupKeeps ==
  ASSUME CacheAssumption, CacheInvariant, NEW p \in Plugins, NEW c \in Components, NEW caps \in Caps,
         LookupForImport(p, c, caps)
  PROVE  CacheInvariant'
<1>1. plugin' = plugin /\ order' = order /\ builder' = builder
  BY DEF LookupForImport
<1>2. CatalogOwned' /\ BuildersOwned'
  BY <1>1 DEF CacheInvariant, CatalogOwned, BuildersOwned
<1>3. ImportsOwned'
  <2>1. PICK row \in ImportRows : /\ importing' = [importing EXCEPT ![p] = row]
                                  /\ row.component \in Components => row.caps \in Caps
    <3> DEFINE asked == [component |-> c, caps |-> caps]
    <3>1. asked \in ImportRows /\ asked.caps \in Caps
      BY DEF ImportRows
    <3>2. Over \in ImportRows /\ Over.component \notin Components
      BY DEF ImportRows, Over, CacheAssumption
    <3>3. importing' = [importing EXCEPT ![p] = asked] \/ importing' = [importing EXCEPT ![p] = Over]
      BY DEF LookupForImport
    <3> HIDE DEF asked
    <3> QED BY <3>1, <3>2, <3>3
  <2> QED BY <2>1 DEF CacheInvariant, ImportsOwned
<1>4. GoodCache(Cache') /\ Pinned' /\ Trimmed(Cache', Referenced(plugin'))
  <2>1. CASE cached[c] = "none"
    <3>1. UNCHANGED <<cached, lru, weight>>
      BY <2>1 DEF LookupForImport, SetCache, Cache
    <3> QED BY <3>1, <1>1, CacheKept DEF CacheInvariant, CatalogOwned
  <2>2. CASE cached[c] # "none"
    <3>1. SetCache(Touched(Cache, c))
      BY <2>2 DEF LookupForImport
    <3>2. GoodCache(Cache') /\ cached' = cached /\ Trimmed(Cache', Referenced(plugin'))
      BY <2>2, <3>1, <1>1, CacheTouched
    <3> QED BY <3>2, <1>1 DEF CacheInvariant, Pinned
  <2> QED BY <2>1, <2>2
<1> QED BY <1>2, <1>3, <1>4 DEF CacheInvariant

\* A cache with one component more, trimmed for a catalog.
LEMMA CacheTrimmed ==
  ASSUME CacheAssumption, NEW before, GoodCache(before), NEW catalog,
         SetCache(EvictUnreferenced(before, catalog))
  PROVE  /\ GoodCache(Cache') /\ Trimmed(Cache', Referenced(catalog))
         /\ \A c \in Referenced(catalog) \cap Components : cached'[c] = before.of[c]
<1> DEFINE after == EvictUnreferenced(before, catalog)
<1>1. Spares(before, after, Referenced(catalog)) /\ Trimmed(after, Referenced(catalog))
  BY EvictGood
<1> HIDE DEF after
<1>2. GoodCache(after) /\ \A c \in Referenced(catalog) \cap Components : after.of[c] = before.of[c]
  BY <1>1 DEF Spares
<1>3. SetCache(after)
  BY DEF after
<1> QED BY <1>1, <1>2, <1>3, CacheTaken

\* The second half inserts, pins and trims at once.
LEMMA FinishImportKeeps ==
  ASSUME CacheAssumption, CacheInvariant, NEW p \in Plugins, FinishImport(p)
  PROVE  CacheInvariant'
<1> DEFINE c == importing[p].component
           caps == importing[p].caps
           row == [here |-> TRUE, component |-> c, caps |-> caps, enabled |-> TRUE]
           catalog == [plugin EXCEPT ![p] = row]
<1>1. c \in Components /\ caps \in Caps /\ builder' = builder
  BY DEF FinishImport, CacheInvariant, ImportsOwned
<1>2. ImportsOwned'
  BY DEF FinishImport, CacheInvariant, ImportsOwned, ImportRows, Over, CacheAssumption
<1>3. BuildersOwned'
  BY <1>1 DEF CacheInvariant, BuildersOwned
<1>4. row \in PluginRows /\ row.here /\ row.component = c /\ row.caps = caps
  BY <1>1 DEF PluginRows, Kinds
<1>5. CASE cached[c] \in {"none", caps}
  <2>1. plugin' = catalog /\ order' = Append(order, p)
        /\ SetCache(EvictUnreferenced(Touched(Inserted(Cache, c, caps), c), catalog))
    BY <1>5 DEF FinishImport
  <2> HIDE DEF c, caps, row
  <2>2. CatalogOwned'
    BY <1>1, <1>4, <2>1 DEF CacheInvariant, CatalogOwned
  <2>3. Cache.of = cached /\ GoodCache(Cache) /\ cached \in [Components -> Kinds]
    BY DEF CacheInvariant, Cache, GoodCache, CacheRows
  <2> DEFINE before == Touched(Inserted(Cache, c, caps), c)
  <2>4. GoodCache(before) /\ before.of = [cached EXCEPT ![c] = caps]
    <3>1. CASE cached[c] = "none"
      BY <1>1, <2>3, <3>1, AddedGood
    <3>2. CASE cached[c] # "none"
      <4>1. Inserted(Cache, c, caps) = Cache
        BY <2>3, <3>2 DEF Inserted
      <4>2. GoodCache(before) /\ before.of = cached
        BY <1>1, <2>3, <3>2, <4>1, TouchedGood
      <4>3. cached = [cached EXCEPT ![c] = caps]
        BY <1>1, <1>5, <2>3, <3>2
      <4> QED BY <4>2, <4>3
    <3> QED BY <3>1, <3>2
  <2> HIDE DEF before, catalog
  <2>5. SetCache(EvictUnreferenced(before, catalog))
    BY <2>1 DEF before
  <2>6. /\ GoodCache(Cache') /\ Trimmed(Cache', Referenced(catalog))
        /\ \A d \in Referenced(catalog) \cap Components : cached'[d] = before.of[d]
    BY <2>4, <2>5, CacheTrimmed
  <2>7. Pinned'
    <3> SUFFICES ASSUME NEW q \in Plugins, plugin'[q].here PROVE cached'[plugin'[q].component] = plugin'[q].caps
      BY DEF Pinned
    <3> DEFINE d == plugin'[q].component
    <3>1. d \in Referenced(catalog) \cap Components
      BY <2>1, <2>2 DEF Referenced, CatalogOwned
    <3>2. cached'[d] = [cached EXCEPT ![c] = caps][d]
      BY <2>4, <2>6, <3>1
    <3>3. CASE q = p
      BY <1>1, <1>4, <2>1, <2>3, <3>1, <3>2, <3>3 DEF catalog, CacheInvariant, CatalogOwned
    <3>4. CASE q # p
      <4>1. plugin'[q] = plugin[q]
        BY <2>1, <3>4 DEF catalog, CacheInvariant, CatalogOwned
      <4>2. cached[d] = plugin[q].caps /\ plugin[q].caps \in Caps
        BY <4>1 DEF CacheInvariant, Pinned, CatalogOwned
      <4>3. d = c => cached[d] = caps
        BY <1>5, <4>2 DEF Caps
      <4> QED BY <2>3, <3>1, <3>2, <4>1, <4>2, <4>3
    <3> QED BY <3>3, <3>4
  <2> QED BY <1>2, <1>3, <2>1, <2>2, <2>6, <2>7 DEF CacheInvariant
<1>6. CASE cached[c] \notin {"none", caps}
  <2>1. UNCHANGED <<plugin, order, cached, lru, weight>>
    BY <1>6 DEF FinishImport
  <2>2. CatalogOwned'
    BY <2>1 DEF CacheInvariant, CatalogOwned
  <2>3. GoodCache(Cache') /\ Pinned' /\ Trimmed(Cache', Referenced(plugin'))
    BY <2>1, CacheKept DEF CacheInvariant, CatalogOwned
  <2> QED BY <1>2, <1>3, <2>2, <2>3 DEF CacheInvariant
<1> QED BY <1>5, <1>6

\* A plugin that is removed may cost the cache what only it pinned.
LEMMA RemovePluginKeeps ==
  ASSUME CacheAssumption, CacheInvariant, NEW p \in Plugins, RemovePlugin(p)
  PROVE  CacheInvariant'
<1> DEFINE catalog == [plugin EXCEPT ![p] = NoPlugin]
<1>1. /\ plugin' = catalog /\ order' = Retained(order, Plugins \ {p})
      /\ SetCache(EvictUnreferenced(Cache, catalog)) /\ importing' = importing /\ builder' = builder
  BY DEF RemovePlugin
<1>2. NoPlugin \in PluginRows /\ ~ NoPlugin.here
  BY DEF NoPlugin, PluginRows, Kinds
<1>3. order' \in Seq(Plugins)
  BY <1>1, RetainedIs DEF CacheInvariant, CatalogOwned
<1>4. CatalogOwned'
  BY <1>1, <1>2, <1>3 DEF CacheInvariant, CatalogOwned
<1>5. ImportsOwned' /\ BuildersOwned'
  BY <1>1 DEF CacheInvariant, ImportsOwned, BuildersOwned
<1> HIDE DEF catalog
<1>6. /\ GoodCache(Cache') /\ Trimmed(Cache', Referenced(catalog))
      /\ \A c \in Referenced(catalog) \cap Components : cached'[c] = Cache.of[c]
  BY <1>1, CacheTrimmed DEF CacheInvariant
<1>7. Pinned'
  <2> SUFFICES ASSUME NEW q \in Plugins, plugin'[q].here PROVE cached'[plugin'[q].component] = plugin'[q].caps
    BY DEF Pinned
  <2>1. plugin'[q] = plugin[q] /\ plugin[q].here
    BY <1>1, <1>2 DEF catalog, CacheInvariant, CatalogOwned
  <2>2. plugin'[q].component \in Referenced(catalog) \cap Components
    BY <1>1, <1>4 DEF Referenced, CatalogOwned
  <2>3. cached'[plugin'[q].component] = cached[plugin'[q].component]
    BY <1>6, <2>2 DEF Cache
  <2> QED BY <2>1, <2>3 DEF CacheInvariant, Pinned
<1> QED BY <1>1, <1>4, <1>5, <1>6, <1>7 DEF CacheInvariant

\* A disabled plugin still pins its component.
LEMMA SetEnabledKeeps ==
  ASSUME CacheAssumption, CacheInvariant, NEW p \in Plugins, NEW on \in BOOLEAN, SetEnabled(p, on)
  PROVE  CacheInvariant'
<1>1. /\ plugin' = [plugin EXCEPT ![p].enabled = on]
      /\ UNCHANGED <<order, cached, lru, weight, importing, builder>>
  BY DEF SetEnabled
<1>2. /\ plugin' \in [Plugins -> PluginRows]
      /\ \A q \in Plugins : /\ plugin'[q].here = plugin[q].here
                            /\ plugin'[q].component = plugin[q].component /\ plugin'[q].caps = plugin[q].caps
  BY <1>1 DEF CacheInvariant, CatalogOwned, PluginRows
<1>3. CatalogOwned' /\ ImportsOwned' /\ BuildersOwned'
  BY <1>1, <1>2 DEF CacheInvariant, CatalogOwned, ImportsOwned, BuildersOwned
<1>4. GoodCache(Cache') /\ Pinned' /\ Trimmed(Cache', Referenced(plugin'))
  BY <1>1, <1>2, CacheKept
<1> QED BY <1>3, <1>4 DEF CacheInvariant

\* The order of the catalog is not the cache's.
LEMMA ReorderKeeps ==
  ASSUME CacheAssumption, CacheInvariant, NEW p \in Plugins, Reorder(<<p>>)
  PROVE  CacheInvariant'
<1> DEFINE known == Retained(<<p>>, {q \in Plugins : plugin[q].here})
<1>1. /\ order' = known \o Retained(order, Plugins \ ToSet(known))
      /\ UNCHANGED <<plugin, cached, lru, weight, importing, builder>>
  BY DEF Reorder
<1>2. known \in Seq(Plugins)
  <2>1. <<p>> \in Seq(Plugins)
    OBVIOUS
  <2> QED BY <2>1, RetainedIs
<1> HIDE DEF known
<1>3. Retained(order, Plugins \ ToSet(known)) \in Seq(Plugins)
  BY RetainedIs DEF CacheInvariant, CatalogOwned
<1>4. order' \in Seq(Plugins)
  BY <1>1, <1>2, <1>3
<1>5. CatalogOwned' /\ ImportsOwned' /\ BuildersOwned'
  BY <1>1, <1>4 DEF CacheInvariant, CatalogOwned, ImportsOwned, BuildersOwned
<1>6. GoodCache(Cache') /\ Pinned' /\ Trimmed(Cache', Referenced(plugin'))
  BY <1>1, CacheKept DEF CacheInvariant, CatalogOwned
<1> QED BY <1>5, <1>6 DEF CacheInvariant

\* A step of a request that leaves the cache alone.
LEMMA BuilderKeeps ==
  ASSUME CacheInvariant, UNCHANGED <<plugin, order, cached, lru, weight, importing>>, NEW b \in Builders,
         NEW row \in BuilderRows, builder' = [builder EXCEPT ![b] = row], row.done <= Len(row.steps),
         row.phase \in {"missed", "compiled"} => row.done < Len(row.steps)
  PROVE  CacheInvariant'
<1>1. BuildersOwned'
  BY DEF CacheInvariant, BuildersOwned
<1>2. CatalogOwned' /\ ImportsOwned'
  BY DEF CacheInvariant, CatalogOwned, ImportsOwned
<1>3. GoodCache(Cache') /\ Pinned' /\ Trimmed(Cache', Referenced(plugin'))
  BY CacheKept DEF CacheInvariant, CatalogOwned
<1> QED BY <1>1, <1>2, <1>3 DEF CacheInvariant

\* The enabled catalog is a sequence of steps.
LEMMA EnabledStepsAre == ASSUME CacheInvariant PROVE EnabledSteps \in Seq(Steps)
<1> DEFINE E == {p \in Plugins : plugin[p].here /\ plugin[p].enabled}
           on == Retained(order, E)
           StepOf(p) == [component |-> plugin[p].component, caps |-> plugin[p].caps]
<1>1. on \in Seq(Plugins) /\ ToSet(on) = ToSet(order) \cap E
  BY RetainedIs DEF CacheInvariant, CatalogOwned
<1>2. \A p \in E : StepOf(p) \in Steps
  BY DEF CacheInvariant, CatalogOwned, Steps
<1>3. EnabledSteps = [i \in 1 .. Len(on) |-> StepOf(on[i])]
  BY DEF EnabledSteps
<1>4. \A i \in 1 .. Len(on) : on[i] \in ToSet(on)
  <2> HIDE DEF on
  <2> QED BY <1>1 DEF ToSet
<1> HIDE DEF on, E, StepOf
<1>5. Len(on) \in Nat /\ \A i \in 1 .. Len(on) : StepOf(on[i]) \in Steps
  BY <1>1, <1>2, <1>4
<1> QED BY <1>3, <1>5

\* A request freezes its steps.
LEMMA ResolvedKeeps ==
  ASSUME CacheInvariant, NEW b \in Builders, NEW hosted \in BOOLEAN, NEW steps \in Seq(Steps), Resolved(b, hosted, steps)
  PROVE  CacheInvariant'
<1> DEFINE row == [phase |-> "engines", hosted |-> hosted, steps |-> steps, done |-> 0]
<1>1. row \in BuilderRows /\ row.done <= Len(row.steps) /\ row.phase = "engines"
  BY DEF BuilderRows
<1>2. builder' = [builder EXCEPT ![b] = row] /\ UNCHANGED <<plugin, order, cached, lru, weight, importing>>
  BY DEF Resolved
<1> HIDE DEF row
<1> QED BY <1>1, <1>2, BuilderKeeps

\* The step a builder is at.
LEMMA NextStepIs ==
  ASSUME CacheInvariant, NEW b \in Builders, builder[b].done < Len(builder[b].steps)
  PROVE  /\ NextStep(b) \in Steps /\ NextStep(b).component \in Components /\ NextStep(b).caps \in Caps
         /\ NextStep(b).caps # "none"
<1>1. builder[b].steps \in Seq(Steps) /\ builder[b].done \in Nat
  BY DEF CacheInvariant, BuildersOwned, BuilderRows
<1>2. builder[b].steps[builder[b].done + 1] \in Steps
  BY <1>1
<1> QED BY <1>2 DEF NextStep, Steps, Caps

\* A builder moves on: another phase, or the next step.
LEMMA BuilderMoves ==
  ASSUME CacheInvariant, NEW b \in Builders,
         \/ builder' = Refused(b, "refused")
         \/ builder' = StepDone(b) /\ builder[b].done < Len(builder[b].steps)
         \/ /\ builder[b].done < Len(builder[b].steps)
            /\ \E phase \in {"missed", "compiled", "missing"} : builder' = [builder EXCEPT ![b].phase = phase]
         \/ builder' = [builder EXCEPT ![b].phase = "ready"]
         \/ builder' = [builder EXCEPT ![b] = NoBuilder]
  PROVE  /\ BuildersOwned'
         /\ \E row \in BuilderRows :
              /\ builder' = [builder EXCEPT ![b] = row] /\ row.done <= Len(row.steps)
              /\ row.phase \in {"missed", "compiled"} => row.done < Len(row.steps)
<1> DEFINE old == builder[b]
           Moved(phase, done) == [phase |-> phase, hosted |-> old.hosted, steps |-> old.steps, done |-> done]
<1>1. builder \in [Builders -> BuilderRows] /\ old \in BuilderRows /\ old.done <= Len(old.steps)
      /\ old.steps \in Seq(Steps) /\ old.done \in Nat /\ old.hosted \in BOOLEAN
      /\ Len(old.steps) \in Nat
  BY DEF CacheInvariant, BuildersOwned, BuilderRows
<1>2. PICK row \in BuilderRows :
              /\ builder' = [builder EXCEPT ![b] = row] /\ row.done <= Len(row.steps)
              /\ row.phase \in {"missed", "compiled"} => row.done < Len(row.steps)
  <2>1. ASSUME NEW phase \in {"refused", "missed", "compiled", "missing", "ready"},
               builder' = [builder EXCEPT ![b].phase = phase],
               phase \in {"missed", "compiled"} => old.done < Len(old.steps)
        PROVE  \E row \in BuilderRows :
              /\ builder' = [builder EXCEPT ![b] = row] /\ row.done <= Len(row.steps)
              /\ row.phase \in {"missed", "compiled"} => row.done < Len(row.steps)
    <3> DEFINE new == [old EXCEPT !.phase = phase]
    <3>1. new \in BuilderRows /\ new.phase = phase /\ new.done = old.done /\ new.steps = old.steps
      BY <1>1 DEF BuilderRows
    <3>2. builder' = [builder EXCEPT ![b] = new]
      BY <2>1
    <3> HIDE DEF new
    <3> QED BY <1>1, <2>1, <3>1, <3>2
  <2>2. CASE builder' = StepDone(b) /\ old.done < Len(old.steps)
    <3> DEFINE new == [old EXCEPT !.done = @ + 1, !.phase = "engines"]
    <3>1. new \in BuilderRows /\ new.phase = "engines" /\ new.done = old.done + 1 /\ new.steps = old.steps
      <4> HIDE DEF old
      <4>1. old.done + 1 \in Nat
        BY <1>1
      <4> QED BY <1>1, <4>1 DEF BuilderRows
    <3>2. builder' = [builder EXCEPT ![b] = new]
      BY <2>2, <1>1 DEF StepDone
    <3>3. old.done + 1 <= Len(old.steps)
      BY <1>1, <2>2
    <3> HIDE DEF new
    <3> QED BY <3>1, <3>2, <3>3
  <2>3. CASE builder' = [builder EXCEPT ![b] = NoBuilder]
    <3>1. NoBuilder \in BuilderRows /\ NoBuilder.done <= Len(NoBuilder.steps) /\ NoBuilder.phase = "idle"
      BY DEF NoBuilder, BuilderRows
    <3> QED BY <2>3, <3>1
  <2> QED BY <2>1, <2>2, <2>3 DEF Refused
<1>3. BuildersOwned'
  BY <1>1, <1>2 DEF CacheInvariant, BuildersOwned
<1> QED BY <1>2, <1>3

\* A step of a request that touches an entry.
LEMMA EngineTouched ==
  ASSUME CacheInvariant, UNCHANGED <<plugin, order, importing>>, BuildersOwned',
         NEW c \in Components, cached[c] # "none", SetCache(Touched(Cache, c))
  PROVE  CacheInvariant'
<1>1. GoodCache(Cache') /\ cached' = cached /\ Trimmed(Cache', Referenced(plugin'))
  BY CacheTouched
<1>2. Pinned'
  BY <1>1 DEF CacheInvariant, Pinned
<1>3. CatalogOwned' /\ ImportsOwned'
  BY DEF CacheInvariant, CatalogOwned, ImportsOwned
<1> QED BY <1>1, <1>2, <1>3 DEF CacheInvariant

\* A hit touches its entry.
LEMMA EngineFromCacheKeeps ==
  ASSUME CacheAssumption, CacheInvariant, NEW b \in Builders, EngineFromCache(b)
  PROVE  CacheInvariant'
<1>1. /\ builder[b].done < Len(builder[b].steps) /\ cached[NextStep(b).component] # "none"
      /\ SetCache(Touched(Cache, NextStep(b).component)) /\ UNCHANGED <<plugin, order, importing>>
      /\ builder' = StepDone(b) \/ builder' = Refused(b, "refused")
  BY DEF EngineFromCache, Building
<1>2. NextStep(b).component \in Components
  BY <1>1, NextStepIs
<1>3. BuildersOwned'
  BY <1>1, BuilderMoves
<1> QED BY <1>1, <1>2, <1>3, EngineTouched

\* A miss inserts, unless another was first.
LEMMA InsertEngineKeeps ==
  ASSUME CacheAssumption, CacheInvariant, NEW b \in Builders, InsertEngine(b)
  PROVE  CacheInvariant'
<1> DEFINE s == NextStep(b)
<1>1. builder[b].done < Len(builder[b].steps) /\ UNCHANGED <<plugin, order, importing>>
  BY DEF InsertEngine, CacheInvariant, BuildersOwned
<1>2. s.component \in Components /\ s.caps \in Caps /\ s.caps # "none"
  BY <1>1, NextStepIs
<1>3. BuildersOwned'
  BY <1>1, BuilderMoves DEF InsertEngine
<1>4. CASE cached[s.component] = s.caps /\ SetCache(Touched(Cache, s.component))
  <2> HIDE DEF s
  <2> QED BY <1>1, <1>2, <1>3, <1>4, EngineTouched
<1>5. CASE /\ cached[s.component] = "none"
           /\ SetCache(EvictUnreferenced(Touched(Inserted(Cache, s.component, s.caps), s.component), plugin))
  <2> DEFINE c == s.component
             caps == s.caps
             before == Touched(Inserted(Cache, c, caps), c)
  <2> HIDE DEF s
  <2>1. Cache.of = cached /\ GoodCache(Cache) /\ cached \in [Components -> Kinds]
    BY DEF CacheInvariant, Cache, GoodCache, CacheRows
  <2>2. GoodCache(before) /\ before.of = [cached EXCEPT ![c] = caps]
    <3>1. c \in Components /\ Cache.of[c] = "none" /\ caps \in Caps
      BY <1>2, <1>5, <2>1
    <3> HIDE DEF c, caps
    <3> QED BY <2>1, <3>1, AddedGood
  <2> HIDE DEF before
  <2>3. SetCache(EvictUnreferenced(before, plugin))
    BY <1>5 DEF before
  <2>4. /\ GoodCache(Cache') /\ Trimmed(Cache', Referenced(plugin))
        /\ \A d \in Referenced(plugin) \cap Components : cached'[d] = before.of[d]
    BY <2>2, <2>3, CacheTrimmed
  <2>5. Pinned'
    <3> SUFFICES ASSUME NEW q \in Plugins, plugin[q].here PROVE cached'[plugin[q].component] = plugin[q].caps
      BY <1>1 DEF Pinned
    <3> DEFINE d == plugin[q].component
    <3>1. d \in Referenced(plugin) \cap Components /\ cached[d] = plugin[q].caps /\ plugin[q].caps \in Caps
      BY DEF Referenced, CacheInvariant, CatalogOwned, Pinned
    <3>2. cached[d] # "none"
      BY <3>1 DEF Caps
    <3>3. d # c
      BY <1>5, <3>2
    <3> HIDE DEF d
    <3>4. cached'[d] = cached[d]
      BY <2>1, <2>2, <2>4, <3>1, <3>3
    <3> QED BY <3>1, <3>4 DEF d
  <2>6. CatalogOwned' /\ ImportsOwned'
    BY <1>1 DEF CacheInvariant, CatalogOwned, ImportsOwned
  <2> QED BY <1>1, <1>3, <2>4, <2>5, <2>6 DEF CacheInvariant
<1>6. CASE UNCHANGED <<cached, lru, weight>>
  <2>1. GoodCache(Cache') /\ Pinned' /\ Trimmed(Cache', Referenced(plugin'))
    BY <1>1, <1>6, CacheKept DEF CacheInvariant, CatalogOwned
  <2>2. CatalogOwned' /\ ImportsOwned'
    BY <1>1 DEF CacheInvariant, CatalogOwned, ImportsOwned
  <2> QED BY <1>3, <2>1, <2>2 DEF CacheInvariant
<1> QED BY <1>4, <1>5, <1>6 DEF InsertEngine

\* The other steps of a request.
LEMMA BuilderStepKeeps ==
  ASSUME CacheAssumption, CacheInvariant, NEW b \in Builders,
         EngineMissed(b) \/ LoadComponent(b) \/ LoadFails(b) \/ SnapshotReady(b) \/ SnapshotDropped(b)
  PROVE  CacheInvariant'
<1>1. UNCHANGED <<plugin, order, cached, lru, weight, importing>>
  BY DEF EngineMissed, LoadComponent, LoadFails, SnapshotReady, SnapshotDropped
<1>2. builder[b].phase = "missed" => builder[b].done < Len(builder[b].steps)
  BY DEF CacheInvariant, BuildersOwned
<1>3. BuildersOwned'
  <2>1. CASE EngineMissed(b)
    BY <2>1, BuilderMoves DEF EngineMissed, Building
  <2>2. CASE LoadComponent(b)
    BY <2>2, <1>2, BuilderMoves DEF LoadComponent
  <2>3. CASE LoadFails(b) \/ SnapshotReady(b) \/ SnapshotDropped(b)
    BY <2>3, BuilderMoves DEF LoadFails, SnapshotReady, SnapshotDropped
  <2> QED BY <2>1, <2>2, <2>3
<1>4. GoodCache(Cache') /\ Pinned' /\ Trimmed(Cache', Referenced(plugin'))
  BY <1>1, CacheKept DEF CacheInvariant, CatalogOwned
<1>5. CatalogOwned' /\ ImportsOwned'
  BY <1>1 DEF CacheInvariant, CatalogOwned, ImportsOwned
<1> QED BY <1>3, <1>4, <1>5 DEF CacheInvariant

\* Every step of the registry and of its requests.
LEMMA RegistryStep ==
  ASSUME CacheAssumption, CacheInvariant, [RegistryNext]_catalogVars
  PROVE  CacheInvariant'
<1>1. CASE UNCHANGED catalogVars
  <2>1. UNCHANGED <<plugin, order, cached, lru, weight, importing, builder>>
    BY <1>1 DEF catalogVars
  <2>2. GoodCache(Cache') /\ Pinned' /\ Trimmed(Cache', Referenced(plugin'))
    BY <2>1, CacheKept DEF CacheInvariant, CatalogOwned
  <2>3. CatalogOwned' /\ ImportsOwned' /\ BuildersOwned'
    BY <2>1 DEF CacheInvariant, CatalogOwned, ImportsOwned, BuildersOwned
  <2> QED BY <2>2, <2>3 DEF CacheInvariant
<1>2. ASSUME NEW p \in Plugins, NEW c \in Components, NEW caps \in Caps, LookupForImport(p, c, caps)
      PROVE  CacheInvariant'
  BY <1>2, LookupKeeps
<1>3. ASSUME NEW p \in Plugins, FinishImport(p) \/ RemovePlugin(p) \/ Reorder(<<p>>) PROVE CacheInvariant'
  BY <1>3, FinishImportKeeps, RemovePluginKeeps, ReorderKeeps
<1>4. ASSUME NEW p \in Plugins, NEW on \in BOOLEAN, SetEnabled(p, on) PROVE CacheInvariant'
  BY <1>4, SetEnabledKeeps
<1>5. ASSUME NEW b \in Builders, ResolveStatic(b) PROVE CacheInvariant'
  <2>1. EnabledSteps \in Seq(Steps) /\ Resolved(b, FALSE, EnabledSteps)
    BY <1>5, EnabledStepsAre DEF ResolveStatic
  <2> QED BY <2>1, ResolvedKeeps
<1>6. ASSUME NEW b \in Builders, NEW s \in Steps, ResolveHosted(b, s) PROVE CacheInvariant'
  <2>1. <<s>> \in Seq(Steps) /\ Resolved(b, TRUE, <<s>>)
    <3>1. <<s>> \in Seq(Steps)
      OBVIOUS
    <3> QED BY <1>6, <3>1 DEF ResolveHosted
  <2> QED BY <2>1, ResolvedKeeps
<1>7. ASSUME NEW b \in Builders,
             \/ EngineFromCache(b) \/ EngineMissed(b) \/ LoadComponent(b) \/ LoadFails(b)
             \/ InsertEngine(b) \/ SnapshotReady(b) \/ SnapshotDropped(b)
      PROVE  CacheInvariant'
  BY <1>7, EngineFromCacheKeeps, InsertEngineKeeps, BuilderStepKeeps
<1> QED BY <1>1, <1>2, <1>3, <1>4, <1>5, <1>6, <1>7 DEF RegistryNext

\* What the invariant is for.
LEMMA CacheInvariantImplies == ASSUME CacheInvariant PROVE CacheKeepsCatalog
<1>1. Cache.of = cached /\ Cache.order = lru /\ Cache.weight = weight
  BY DEF Cache
<1>2. /\ lru \in Seq(Components) /\ Distinct(lru)
      /\ ToSet(lru) = {c \in Components : cached[c] # "none"}
      /\ weight = SumFunctionOnSet(WeightOf, ToSet(lru))
  BY <1>1 DEF CacheInvariant, GoodCache, CacheRows
<1>3. Len(lru) = Cardinality(ToSet(lru))
  BY <1>2, DistinctCounts
<1>4. weight > CacheMax => ToSet(lru) \subseteq Referenced(plugin)
  BY <1>1 DEF CacheInvariant, Trimmed
<1> QED BY <1>2, <1>3, <1>4 DEF CacheInvariant, Pinned, CacheKeepsCatalog

\* No import, hosted request or eviction costs the catalog a component it names,
\* and the weight is that of the cached engines, above the budget only while all
\* of them are pinned (plugin_registry.rs, evict_unreferenced_engines).
THEOREM CatalogKept == ASSUME CacheAssumption PROVE RegistrySpec => []CacheKeepsCatalog
<1>1. RegistryInit => CacheInvariant
  BY RegistryInitially
<1>2. CacheInvariant /\ [RegistryNext]_catalogVars => CacheInvariant'
  BY RegistryStep
<1>3. CacheInvariant => CacheKeepsCatalog
  BY CacheInvariantImplies
<1> QED BY <1>1, <1>2, <1>3, PTL DEF RegistrySpec

-----------------------------------------------------------------------------
(* The fuel of an object *)

Guests == 1 .. Stages
GuestRows == [store : Nat, used : Nat, accounted : Nat, state : {"none", "running", "finished"}]
SessionRows ==
  [at : {"starting", "ready", "routing", "finishing", "ok", "failed"}, index : Nat, size : Nat, finishing : Nat]

\* What the session's place in its work says of the guests: those before the
\* one being started, and those not yet finished, run.
Progress ==
  /\ session.index \in Nat \ {0} /\ session.finishing \in Nat
  /\ session.at = "starting" =>
       \A i \in Guests : IF i < session.index THEN guests[i].state = "running" ELSE guests[i].used = 0
  /\ session.at \in {"ready", "routing", "finishing"} =>
       \A i \in Guests : i >= session.finishing => guests[i].state = "running"
  /\ session.at \in {"starting", "ready"} => session.finishing = 0
  /\ session.at = "routing" => session.index >= session.finishing
  /\ session.at = "finishing" => session.finishing # 0

\* FuelExact is inductive together with these: the session accounts for what
\* each guest burnt, until it fails.
FuelInvariant ==
  /\ limits \in [LimitNames -> Nat] /\ limits.fuel <= DeploymentLimits.fuel
  /\ guests \in [Guests -> GuestRows]
  /\ session \in SessionRows
  /\ fuelConsumed \in Nat
  /\ Progress
  /\ TotalBurnt <= limits.fuel
  /\ session.at # "failed" =>
       fuelConsumed = TotalBurnt /\ \A i \in Guests : guests[i].accounted = guests[i].used

\* The guests are finitely many, and the total moves with one of them.
LEMMA BurntMoves ==
  ASSUME PipelineAssumption, guests \in [Guests -> GuestRows], NEW i \in Guests, NEW g \in GuestRows,
         guests' = [guests EXCEPT ![i] = g]
  PROVE  TotalBurnt' = TotalBurnt - guests[i].used + g.used /\ TotalBurnt \in Nat
<1> DEFINE F == [j \in Guests |-> guests[j].used]
           G == [j \in Guests |-> guests'[j].used]
<1>1. IsFiniteSet(Guests)
  BY FS_Interval DEF Guests, PipelineAssumption
<1>2. \A j \in Guests : F[j] \in Nat /\ G[j] \in Nat
  BY DEF GuestRows
<1>3. F[i] = guests[i].used /\ G[i] = g.used /\ \A j \in Guests \ {i} : G[j] = F[j]
  OBVIOUS
<1>4. TotalBurnt = SumFunctionOnSet(F, Guests) /\ TotalBurnt' = SumFunctionOnSet(G, Guests)
  BY DEF TotalBurnt, SumFunction, Guests
<1> HIDE DEF F, G, Guests
<1>5. SumFunctionOnSet(F, Guests) \in Nat
  BY <1>1, <1>2, SumNat
<1>6. SumFunctionOnSet(G, Guests) = SumFunctionOnSet(F, Guests) - F[i] + G[i]
  BY <1>1, <1>2, <1>3, SumChange
<1> QED BY <1>3, <1>4, <1>5, <1>6

\* A session starts with no fuel burnt.
LEMMA FuelInitially == ASSUME PipelineAssumption, PipelineInit PROVE FuelInvariant
<1>1. limits \in [LimitNames -> Nat] /\ limits.fuel <= DeploymentLimits.fuel /\ limits.fuel \in Nat
  <2>1. PICK l \in RequestedLimits : limits = Constrained(l)
    BY DEF PipelineInit
  <2>2. /\ DeploymentLimits \in [LimitNames -> Nat] /\ l \in [LimitNames -> Nat] /\ "fuel" \in LimitNames
    BY DEF PipelineAssumption, ValidLimits, LimitNames
  <2>3. \A n \in LimitNames : Least(DeploymentLimits[n], l[n]) \in Nat /\ Least(DeploymentLimits[n], l[n]) <= DeploymentLimits[n]
    BY <2>2 DEF Least
  <2>4. \A n \in LimitNames : limits[n] = Least(DeploymentLimits[n], l[n])
    BY <2>1 DEF Constrained
  <2>5. limits \in [LimitNames -> Nat]
    BY <2>1, <2>3 DEF Constrained
  <2> QED BY <2>2, <2>3, <2>4, <2>5
<1>2. guests \in [Guests -> GuestRows] /\ \A i \in Guests : guests[i].used = 0 /\ guests[i].accounted = 0
  BY DEF PipelineInit, Guests, GuestRows
<1>3. TotalBurnt = 0
  <2> DEFINE F == [i \in Guests |-> guests[i].used]
  <2>1. IsFiniteSet(Guests) /\ \A i \in Guests : F[i] = 0
    BY <1>2, FS_Interval DEF Guests, PipelineAssumption
  <2>2. TotalBurnt = SumFunctionOnSet(F, Guests)
    BY DEF TotalBurnt, SumFunction, Guests
  <2> HIDE DEF F, Guests
  <2> QED BY <2>1, <2>2, SumZero
<1>4. Progress
  BY <1>2 DEF PipelineInit, Progress, Guests
<1>5. session \in SessionRows /\ fuelConsumed = 0
  BY DEF PipelineInit, SessionRows
<1> QED BY <1>1, <1>2, <1>3, <1>4, <1>5 DEF FuelInvariant

\* What a call may burn is there.
LEMMA BudgetFits ==
  ASSUME PipelineAssumption, FuelInvariant, NEW i \in Guests, NEW fuel \in 0 .. CallBudget(i),
         fuelConsumed = TotalBurnt
  PROVE  fuel \in Nat /\ fuel <= guests[i].store /\ fuelConsumed + fuel <= limits.fuel
<1>1. guests[i].store \in Nat /\ CallFuel \in Nat /\ limits.fuel \in Nat /\ fuelConsumed \in Nat
      /\ fuelConsumed <= limits.fuel
  BY DEF FuelInvariant, GuestRows, PipelineAssumption, LimitNames
<1>2. RemainingFuel \in Nat /\ RemainingFuel = limits.fuel - fuelConsumed
  BY <1>1 DEF RemainingFuel
<1> QED BY <1>1, <1>2 DEF CallBudget, Least

\* A step that neither calls a guest nor counts fuel.
LEMMA FuelQuiet ==
  ASSUME FuelInvariant, UNCHANGED <<limits, guests, fuelConsumed>>,
         session' \in SessionRows,
         Progress', session'.at # "failed" => session.at # "failed"
  PROVE  FuelInvariant'
<1>1. TotalBurnt' = TotalBurnt
  BY DEF TotalBurnt
<1> QED BY <1>1 DEF FuelInvariant

\* What a call makes of a guest's row.
Called(r, x, y, z) == [r EXCEPT !.store = x, !.used = y, !.state = z]

\* It is a row again, with the fuel and the state of the call.
LEMMA CalledRow ==
  ASSUME NEW r \in GuestRows, NEW x, NEW y, NEW z, x \in Nat, y \in Nat, z \in {"running", "finished"}
  PROVE  /\ Called(r, x, y, z) \in GuestRows
         /\ Called(r, x, y, z).used = y /\ Called(r, x, y, z).accounted = r.accounted
         /\ Called(r, x, y, z).state = z
  BY DEF GuestRows, Called

\* And the accounting of it.
LEMMA AccountedRow ==
  ASSUME NEW r \in GuestRows, NEW n \in Nat
  PROVE  /\ [r EXCEPT !.accounted = n] \in GuestRows /\ [r EXCEPT !.accounted = n].accounted = n
         /\ [r EXCEPT !.accounted = n].used = r.used /\ [r EXCEPT !.accounted = n].state = r.state
  BY DEF GuestRows

\* A call of guest i burns fuel that the session accounts for.
LEMMA FuelCounted ==
  ASSUME PipelineAssumption, FuelInvariant, session.at # "failed", NEW i \in Guests,
         NEW fuel \in 0 .. CallBudget(i), NEW state \in {"running", "finished"},
         AccountFuel(i, Burnt(i, fuel, state)), UNCHANGED limits,
         session' \in SessionRows, Progress'
  PROVE  FuelInvariant'
<1> DEFINE b == Burnt(i, fuel, state)
           x == guests[i].store - fuel
           y == guests[i].used + fuel
           r == Called(guests[i], x, y, state)
           g == [r EXCEPT !.accounted = guests[i].used + fuel]
<1>1. guests \in [Guests -> GuestRows] /\ guests[i] \in GuestRows /\ fuelConsumed \in Nat /\ limits.fuel \in Nat
  BY DEF FuelInvariant, LimitNames
<1>2. fuelConsumed = TotalBurnt /\ \A j \in Guests : guests[j].accounted = guests[j].used
  BY DEF FuelInvariant
<1>3. fuel \in Nat /\ fuel <= guests[i].store /\ fuelConsumed + fuel <= limits.fuel
  BY <1>2, BudgetFits
<1>6. /\ g \in GuestRows /\ g.used = guests[i].used + fuel /\ g.accounted = g.used /\ guests[i].used \in Nat
      /\ r.used = guests[i].used + fuel /\ r.accounted = guests[i].accounted
  <2>1. guests[i].store - fuel \in Nat /\ guests[i].used + fuel \in Nat /\ guests[i].used \in Nat
    BY <1>1, <1>3 DEF GuestRows
  <2>2. r \in GuestRows /\ r.used = y /\ r.accounted = guests[i].accounted
    <3>1. x \in Nat /\ y \in Nat
      BY <2>1
    <3> HIDE DEF x, y
    <3> QED BY <1>1, <3>1, CalledRow
  <2> HIDE DEF r
  <2> QED BY <2>1, <2>2, AccountedRow
<1>4. /\ b[i].used = guests[i].used + fuel /\ b[i].accounted = guests[i].accounted
      /\ [b EXCEPT ![i].accounted = b[i].used] = [guests EXCEPT ![i] = g]
  <2>1. b = [guests EXCEPT ![i] = r]
    BY <1>1 DEF Burnt, Called
  <2>2. r.used = guests[i].used + fuel /\ r.accounted = guests[i].accounted
    BY <1>1, <1>6
  <2>3. b[i] = r
    BY <1>1, <2>1
  <2> HIDE DEF r, b
  <2> QED BY <1>1, <2>1, <2>2, <2>3
<1>5. guests' = [guests EXCEPT ![i] = g] /\ fuelConsumed' = fuelConsumed + (guests[i].used + fuel) - guests[i].accounted
  BY <1>4 DEF AccountFuel
<1> HIDE DEF g, b, r
<1>7. TotalBurnt' = TotalBurnt - guests[i].used + g.used /\ TotalBurnt \in Nat
  BY <1>1, <1>5, <1>6, BurntMoves
<1>8. fuelConsumed' = fuelConsumed + fuel /\ TotalBurnt' = TotalBurnt + fuel
  BY <1>1, <1>2, <1>3, <1>5, <1>6, <1>7
<1>9. /\ guests' \in [Guests -> GuestRows]
      /\ \A j \in Guests : guests'[j].accounted = guests'[j].used
  BY <1>1, <1>2, <1>5, <1>6
<1>10. fuelConsumed' \in Nat /\ TotalBurnt' <= limits'.fuel /\ fuelConsumed' = TotalBurnt'
  BY <1>1, <1>2, <1>3, <1>7, <1>8
<1> QED BY <1>9, <1>10 DEF FuelInvariant

\* A call that traps burns fuel nobody accounts for, within the same budget.
LEMMA FuelLost ==
  ASSUME PipelineAssumption, FuelInvariant, session.at # "failed", NEW i \in Guests, NEW g \in GuestRows,
         guests' = [guests EXCEPT ![i] = g], g.used >= guests[i].used,
         fuelConsumed + (g.used - guests[i].used) <= limits.fuel,
         UNCHANGED <<limits, fuelConsumed>>, Fail
  PROVE  FuelInvariant'
<1>1. guests \in [Guests -> GuestRows] /\ guests[i].used \in Nat /\ g.used \in Nat
  BY DEF FuelInvariant, GuestRows
<1>2. TotalBurnt' = TotalBurnt - guests[i].used + g.used /\ TotalBurnt \in Nat /\ fuelConsumed = TotalBurnt
  BY <1>1, BurntMoves DEF FuelInvariant
<1>3. session' \in SessionRows /\ session'.at = "failed" /\ Progress'
  BY DEF Fail, FuelInvariant, SessionRows, Progress
<1>4. guests' \in [Guests -> GuestRows]
  BY <1>1
<1>5. TotalBurnt' <= limits'.fuel
  BY <1>1, <1>2 DEF FuelInvariant, LimitNames
<1> QED BY <1>3, <1>4, <1>5 DEF FuelInvariant

\* start_session_with_deadline
LEMMA FuelStart == ASSUME PipelineAssumption, FuelInvariant, Start PROVE FuelInvariant'
<1>1. /\ session.at = "starting" /\ session \in SessionRows /\ Progress /\ UNCHANGED limits
      /\ guests \in [Guests -> GuestRows] /\ fuelConsumed = TotalBurnt /\ fuelConsumed \in Nat
      /\ limits.fuel \in Nat /\ fuelConsumed <= limits.fuel
      /\ \A i \in Guests : guests[i].accounted = guests[i].used
  BY DEF Start, FuelInvariant, LimitNames
<1>2. CASE session.index > Stages
  <2>1. session' = [session EXCEPT !.at = "ready"] /\ UNCHANGED <<guests, fuelConsumed>>
    BY <1>2 DEF Start
  <2>2. session' \in SessionRows /\ session'.at = "ready" /\ session'.finishing = 0 /\ session'.index = session.index
    BY <1>1, <2>1 DEF SessionRows, Progress
  <2>3. \A i \in Guests : guests[i].state = "running"
    BY <1>1, <1>2 DEF Progress, Guests, PipelineAssumption
  <2>4. Progress'
    BY <1>1, <2>1, <2>2, <2>3 DEF Progress
  <2> QED BY <1>1, <2>1, <2>2, <2>4, FuelQuiet
<1>3. CASE ~(session.index > Stages)
  <2> DEFINE i == session.index
  <2>1. i \in Guests /\ guests[i].used = 0 /\ guests[i] \in GuestRows
    BY <1>1, <1>3 DEF Progress, Guests, PipelineAssumption
  <2>2. PICK start \in 0 .. GuestFuel, begin \in 0 .. CallFuel :
           \/ StartPlugin(i, start, begin) /\ session' = [session EXCEPT !.index = @ + 1]
           \/ BeginTraps(i, start, begin)
    BY <1>3 DEF Start
  <2>3. RemainingFuel = limits.fuel - fuelConsumed /\ RemainingFuel \in Nat
    BY <1>1 DEF RemainingFuel
  <2>4. CASE StartPlugin(i, start, begin) /\ session' = [session EXCEPT !.index = @ + 1]
    <3> DEFINE initial == Least(GuestFuel, RemainingFuel)
               g == [store |-> initial - start - begin, used |-> start + begin,
                     accounted |-> start + begin, state |-> "running"]
    <3>1. /\ start <= initial /\ begin <= Least(initial - start, CallFuel)
          /\ guests' = [guests EXCEPT ![i] = g] /\ fuelConsumed' = fuelConsumed + start + begin
      BY <2>4 DEF StartPlugin
    <3>2. initial \in Nat /\ initial <= RemainingFuel
      BY <2>3 DEF Least, PipelineAssumption
    <3>3. initial - start \in Nat /\ begin <= initial - start
      BY <3>1, <3>2 DEF Least, PipelineAssumption
    <3>4. initial - start - begin \in Nat /\ start + begin \in Nat /\ fuelConsumed + start + begin <= limits.fuel
      BY <1>1, <2>3, <3>2, <3>3
    <3>5. g \in GuestRows /\ g.used = start + begin /\ g.accounted = g.used /\ g.state = "running"
      BY <3>4 DEF GuestRows
    <3> HIDE DEF g, initial
    <3>6. TotalBurnt' = TotalBurnt + start + begin
      <4>1. TotalBurnt' = TotalBurnt - guests[i].used + g.used /\ TotalBurnt \in Nat
        BY <1>1, <2>1, <3>1, <3>5, BurntMoves
      <4> HIDE DEF i
      <4> QED BY <2>1, <3>5, <4>1
    <3>7. session' \in SessionRows /\ session'.at = "starting" /\ session'.index = session.index + 1 /\ session'.finishing = 0
      BY <1>1, <2>4 DEF SessionRows, Progress
    <3>8. Progress'
      <4>1. ASSUME NEW j \in Guests
            PROVE  IF j < session'.index THEN guests'[j].state = "running" ELSE guests'[j].used = 0
        <5>1. CASE j = i
          BY <1>1, <2>1, <3>1, <3>5, <3>7, <5>1 DEF Progress
        <5>2. CASE j # i
          <6>1. guests'[j] = guests[j] /\ (j < i => guests[j].state = "running") /\ (~(j < i) => guests[j].used = 0)
            BY <1>1, <3>1, <5>2 DEF Progress
          <6>2. j < session'.index <=> j < i
            BY <1>1, <3>7, <5>2 DEF Guests, Progress, PipelineAssumption
          <6> QED BY <6>1, <6>2
        <5> QED BY <5>1, <5>2
      <4> QED BY <1>1, <3>7, <4>1 DEF Progress
    <3>9. guests' \in [Guests -> GuestRows] /\ \A j \in Guests : guests'[j].accounted = guests'[j].used
      BY <1>1, <2>1, <3>1, <3>5
    <3>10. fuelConsumed' \in Nat /\ fuelConsumed' = TotalBurnt' /\ TotalBurnt' <= limits'.fuel
      BY <1>1, <3>1, <3>4, <3>6
    <3> QED BY <1>1, <3>7, <3>8, <3>9, <3>10 DEF FuelInvariant
  <2>5. CASE BeginTraps(i, start, begin)
    <3> DEFINE g == [guests[i] EXCEPT !.used = start + begin]
    <3>1. guests' = [guests EXCEPT ![i] = g] /\ Fail /\ UNCHANGED fuelConsumed
      BY <2>5 DEF BeginTraps
    <3>2. g \in GuestRows /\ g.used = start + begin
      BY <2>1 DEF GuestRows
    <3>3. start + begin <= RemainingFuel
      BY <2>3, <2>5 DEF BeginTraps, Least, PipelineAssumption
    <3> HIDE DEF g, i
    <3>4. g.used >= guests[i].used /\ fuelConsumed + (g.used - guests[i].used) <= limits.fuel
      BY <1>1, <2>1, <2>3, <3>2, <3>3
    <3> QED BY <1>1, <2>1, <3>1, <3>2, <3>4, FuelLost
  <2> QED BY <2>2, <2>4, <2>5
<1> QED BY <1>2, <1>3

\* process and the delivery of a record, the end of the input and of the session
LEMMA FuelElsewhere ==
  ASSUME PipelineAssumption, FuelInvariant, Process \/ Deliver \/ BeginFinish \/ Complete \/ Failed
  PROVE  FuelInvariant'
<1>1. session \in SessionRows /\ Progress /\ UNCHANGED <<limits, guests, fuelConsumed>>
  BY DEF FuelInvariant, Process, Deliver, BeginFinish, Complete, Failed
<1>2. CASE Process
  <2>1. PICK size \in RecordSizes : session' = [session EXCEPT !.at = "routing", !.index = 1, !.size = size]
    BY <1>2 DEF Process
  <2>2. /\ session' \in SessionRows /\ session'.at = "routing" /\ session'.index = 1
        /\ session'.finishing = session.finishing /\ session.at = "ready" /\ session.finishing = 0
    BY <1>1, <1>2, <2>1 DEF Process, SessionRows, Progress, PipelineAssumption
  <2>3. Progress'
    BY <1>1, <2>2 DEF Progress
  <2> QED BY <1>1, <2>2, <2>3, FuelQuiet
<1>3. CASE Deliver
  <2>1. /\ session.at = "routing"
        /\ session' = [session EXCEPT !.at = IF session.finishing = 0 THEN "ready" ELSE "finishing", !.size = 0]
    BY <1>3 DEF Deliver, RecordDone
  <2>2. /\ session' \in SessionRows /\ session'.at = (IF session.finishing = 0 THEN "ready" ELSE "finishing")
        /\ session'.index = session.index /\ session'.finishing = session.finishing
    BY <1>1, <2>1 DEF SessionRows
  <2>3. Progress'
    BY <1>1, <2>1, <2>2 DEF Progress
  <2> QED BY <1>1, <2>1, <2>2, <2>3, FuelQuiet
<1>4. CASE BeginFinish
  <2>1. /\ session' \in SessionRows /\ session'.at = "finishing" /\ session'.finishing = 1
        /\ session'.index = session.index /\ session.at = "ready" /\ session.finishing = 0
    BY <1>1, <1>4 DEF BeginFinish, SessionRows, Progress
  <2>2. Progress'
    BY <1>1, <2>1 DEF Progress, Guests
  <2> QED BY <1>1, <2>1, <2>2, FuelQuiet
<1>5. CASE Complete
  <2>1. /\ session' \in SessionRows /\ session'.at = "ok" /\ session'.finishing = session.finishing
        /\ session'.index = session.index /\ session.at = "finishing"
    BY <1>1, <1>5 DEF Complete, SessionRows
  <2>2. Progress'
    BY <1>1, <2>1 DEF Progress
  <2> QED BY <1>1, <2>1, <2>2, FuelQuiet
<1>6. CASE Failed
  <2>1. /\ session' \in SessionRows /\ session'.at = "failed" /\ session'.finishing = session.finishing
        /\ session'.index = session.index
    BY <1>1, <1>6 DEF Failed, Fail, SessionRows
  <2>2. Progress'
    BY <1>1, <2>1 DEF Progress
  <2> QED BY <1>1, <2>1, <2>2, FuelQuiet
<1> QED BY <1>2, <1>3, <1>4, <1>5, <1>6

\* The state of a guest after a call of it: the call changes one guest.
LEMMA CalledGuest ==
  ASSUME FuelInvariant, NEW i \in Guests, NEW fuel \in Nat, fuel <= guests[i].store,
         NEW state \in {"running", "finished"}, AccountFuel(i, Burnt(i, fuel, state))
  PROVE  guests'[i].state = state /\ \A j \in Guests \ {i} : guests'[j] = guests[j]
<1> DEFINE x == guests[i].store - fuel
           y == guests[i].used + fuel
           r == Called(guests[i], x, y, state)
           b == [guests EXCEPT ![i] = r]
<1>1. guests \in [Guests -> GuestRows] /\ guests[i] \in GuestRows
  BY DEF FuelInvariant
<1>2. r \in GuestRows /\ r.state = state
  <2>1. guests[i].store - fuel \in Nat /\ guests[i].used + fuel \in Nat
    BY <1>1 DEF GuestRows
  <2>2. x \in Nat /\ y \in Nat
    BY <2>1
  <2> HIDE DEF x, y
  <2> QED BY <1>1, <2>2, CalledRow
<1>3. Burnt(i, fuel, state) = b
  BY <1>1 DEF Burnt, Called
<1>4. guests' = [b EXCEPT ![i].accounted = b[i].used]
  BY <1>3 DEF AccountFuel
<1> HIDE DEF r
<1>5. guests'[i] = [r EXCEPT !.accounted = r.used] /\ \A j \in Guests \ {i} : guests'[j] = guests[j]
  BY <1>1, <1>4
<1>6. [r EXCEPT !.accounted = r.used].state = r.state
  BY <1>2 DEF GuestRows
<1> QED BY <1>2, <1>5, <1>6

\* process_record
LEMMA FuelTransform == ASSUME PipelineAssumption, FuelInvariant, Transform PROVE FuelInvariant'
<1> DEFINE i == session.index
<1>1. /\ session.at = "routing" /\ session \in SessionRows /\ Progress /\ UNCHANGED limits
      /\ guests \in [Guests -> GuestRows] /\ fuelConsumed = TotalBurnt
  BY DEF Transform, FuelInvariant
<1>2. i \in Guests /\ guests[i].state = "running"
  <2>1. i \in Nat \ {0} /\ i <= Stages /\ i >= session.finishing
    BY <1>1 DEF Transform, Progress
  <2> QED BY <1>1, <2>1 DEF Guests, Progress, PipelineAssumption
<1>3. PICK fuel \in 0 .. CallBudget(i) :
         /\ AccountFuel(i, Burnt(i, fuel, guests[i].state))
         /\ \/ \E size \in RecordSizes : session' = [session EXCEPT !.index = i + 1, !.size = size]
            \/ RecordDone
            \/ Fail
  BY DEF Transform
<1>4. fuel \in Nat /\ fuel <= guests[i].store
  BY <1>1, <1>2, BudgetFits
<1>5. \A j \in Guests : guests'[j].state = guests[j].state
  BY <1>2, <1>3, <1>4, CalledGuest
<1>6. session' \in SessionRows /\ Progress'
  <2>1. CASE \E size \in RecordSizes : session' = [session EXCEPT !.index = i + 1, !.size = size]
    <3>1. PICK size \in RecordSizes : session' = [session EXCEPT !.index = i + 1, !.size = size]
      BY <2>1
    <3>2. /\ session' \in SessionRows /\ session'.at = "routing" /\ session'.index = i + 1
          /\ session'.finishing = session.finishing
      <4>1. size \in Nat /\ i + 1 \in Nat
        BY <1>1 DEF SessionRows, PipelineAssumption
      <4> QED BY <1>1, <3>1, <4>1 DEF SessionRows
    <3> QED BY <1>1, <1>5, <3>2 DEF Progress
  <2>2. CASE RecordDone
    <3>1. /\ session' \in SessionRows /\ session'.at = (IF session.finishing = 0 THEN "ready" ELSE "finishing")
          /\ session'.index = session.index /\ session'.finishing = session.finishing
      BY <1>1, <2>2 DEF RecordDone, SessionRows
    <3> QED BY <1>1, <1>5, <3>1 DEF Progress
  <2>3. CASE Fail
    <3>1. /\ session' \in SessionRows /\ session'.at = "failed" /\ session'.finishing = session.finishing
          /\ session'.index = session.index
      BY <1>1, <2>3 DEF Fail, SessionRows
    <3> QED BY <1>1, <3>1 DEF Progress
  <2> QED BY <1>3, <2>1, <2>2, <2>3
<1> HIDE DEF i
<1> QED BY <1>1, <1>2, <1>3, <1>6, FuelCounted

\* finish_with_fuel
LEMMA FuelFinish == ASSUME PipelineAssumption, FuelInvariant, FinishPlugin PROVE FuelInvariant'
<1> DEFINE i == session.finishing
<1>1. /\ session.at = "finishing" /\ session \in SessionRows /\ Progress /\ UNCHANGED limits
      /\ guests \in [Guests -> GuestRows] /\ fuelConsumed = TotalBurnt
  BY DEF FinishPlugin, FuelInvariant
<1>2. i \in Guests /\ i \in Nat
  BY <1>1 DEF FinishPlugin, Guests, Progress, PipelineAssumption
<1>3. PICK fuel \in 0 .. CallBudget(i) :
         \/ /\ AccountFuel(i, Burnt(i, fuel, "finished"))
            /\ \/ session' = [session EXCEPT !.finishing = i + 1]
               \/ \E size \in RecordSizes :
                     session' = [session EXCEPT !.at = "routing", !.index = i + 1, !.size = size, !.finishing = i + 1]
         \/ guests' = Burnt(i, fuel, "finished") /\ Fail /\ UNCHANGED fuelConsumed
  BY DEF FinishPlugin, RouteTrailing
<1>4. fuel \in Nat /\ fuel <= guests[i].store /\ fuelConsumed + fuel <= limits.fuel
  BY <1>1, <1>2, BudgetFits
<1>5. CASE AccountFuel(i, Burnt(i, fuel, "finished"))
  <2>1. \A j \in Guests : j >= i + 1 => guests'[j].state = "running"
    <3>1. \A j \in Guests \ {i} : guests'[j] = guests[j]
      BY <1>2, <1>4, <1>5, CalledGuest
    <3>2. \A j \in Guests : j >= i + 1 => j # i /\ j >= i
      BY <1>2 DEF Guests
    <3> QED BY <1>1, <3>1, <3>2 DEF Progress
  <2>2. session' \in SessionRows /\ Progress'
    <3>1. CASE session' = [session EXCEPT !.finishing = i + 1]
      <4>1. /\ session' \in SessionRows /\ session'.at = "finishing" /\ session'.finishing = i + 1
            /\ session'.index = session.index
        BY <1>1, <3>1 DEF SessionRows
      <4> QED BY <1>1, <1>2, <2>1, <4>1 DEF Progress
    <3>2. CASE \E size \in RecordSizes :
                  session' = [session EXCEPT !.at = "routing", !.index = i + 1, !.size = size, !.finishing = i + 1]
      <4>1. /\ session' \in SessionRows /\ session'.at = "routing" /\ session'.finishing = i + 1
            /\ session'.index = i + 1
        <5>1. PICK size \in RecordSizes :
                 session' = [session EXCEPT !.at = "routing", !.index = i + 1, !.size = size, !.finishing = i + 1]
          BY <3>2
        <5>2. size \in Nat /\ i + 1 \in Nat
          BY <1>2 DEF PipelineAssumption
        <5> QED BY <1>1, <5>1, <5>2 DEF SessionRows
      <4> QED BY <1>1, <1>2, <2>1, <4>1 DEF Progress
    <3>3. CASE guests' = Burnt(i, fuel, "finished") /\ Fail
      <4>1. /\ session' \in SessionRows /\ session'.at = "failed" /\ session'.finishing = session.finishing
            /\ session'.index = session.index
        BY <1>1, <3>3 DEF Fail, SessionRows
      <4> QED BY <1>1, <4>1 DEF Progress
    <3> QED BY <1>3, <3>1, <3>2, <3>3
  <2> HIDE DEF i
  <2> QED BY <1>1, <1>2, <1>5, <2>2, FuelCounted
<1>6. CASE guests' = Burnt(i, fuel, "finished") /\ Fail /\ UNCHANGED fuelConsumed
  <2> DEFINE x == guests[i].store - fuel
             y == guests[i].used + fuel
             r == Called(guests[i], x, y, "finished")
  <2>1. guests[i] \in GuestRows /\ guests[i].store - fuel \in Nat /\ guests[i].used + fuel \in Nat /\ guests[i].used \in Nat
    BY <1>1, <1>2, <1>4 DEF GuestRows
  <2>2. r \in GuestRows /\ r.used = y
    <3>1. x \in Nat /\ y \in Nat
      BY <2>1
    <3> HIDE DEF x, y, i
    <3> QED BY <2>1, <3>1, CalledRow
  <2>3. guests' = [guests EXCEPT ![i] = r]
    BY <1>1, <1>6 DEF Burnt, Called
  <2> HIDE DEF r, i
  <2>4. r.used >= guests[i].used /\ fuelConsumed + (r.used - guests[i].used) <= limits.fuel
    BY <1>4, <2>1, <2>2
  <2> QED BY <1>1, <1>2, <1>6, <2>2, <2>3, <2>4, FuelLost
<1> QED BY <1>3, <1>5, <1>6

\* Every step of a session keeps the invariant.
LEMMA FuelStep ==
  ASSUME PipelineAssumption, FuelInvariant, [PipelineNext]_pipelineVars PROVE FuelInvariant'
<1>1. CASE UNCHANGED pipelineVars
  <2>1. TotalBurnt' = TotalBurnt
    BY <1>1 DEF pipelineVars, TotalBurnt
  <2>2. UNCHANGED <<limits, guests, session, fuelConsumed>>
    BY <1>1 DEF pipelineVars
  <2>3. Progress'
    BY <2>2 DEF FuelInvariant, Progress
  <2> QED BY <2>1, <2>2, <2>3 DEF FuelInvariant
<1> QED BY <1>1, FuelStart, FuelElsewhere, FuelTransform, FuelFinish DEF PipelineNext

\* What the invariant says.
LEMMA FuelInvariantImplies ==
  ASSUME PipelineAssumption, FuelInvariant PROVE FuelExact /\ FinishedOnce
<1>1. TotalBurnt \in Nat
  <2> DEFINE F == [j \in Guests |-> guests[j].used]
  <2>1. IsFiniteSet(Guests)
    BY FS_Interval DEF Guests, PipelineAssumption
  <2>2. \A j \in Guests : F[j] \in Nat
    BY DEF FuelInvariant, GuestRows
  <2>3. TotalBurnt = SumFunctionOnSet(F, Guests)
    BY DEF TotalBurnt, SumFunction, Guests
  <2> HIDE DEF F, Guests
  <2> QED BY <2>1, <2>2, <2>3, SumNat
<1>2. TotalBurnt <= DeploymentLimits.fuel
  BY <1>1 DEF FuelInvariant, PipelineAssumption, ValidLimits, LimitNames
<1>3. FinishedOnce
  BY DEF FinishedOnce, FuelInvariant, Progress, Guests, PipelineAssumption
<1> QED BY <1>2, <1>3 DEF FuelExact, FuelInvariant

\* FuelExact for every number of plugins and every limits: whichever plugins burn
\* it, at start, per record or at the end, an object's fuel stays within the
\* deployment's, and a session that did not fail reports what was burnt.
THEOREM FuelAccounted == ASSUME PipelineAssumption PROVE PipelineSpec => []FuelExact
<1>1. PipelineInit => FuelInvariant
  BY FuelInitially
<1>2. FuelInvariant /\ [PipelineNext]_pipelineVars => FuelInvariant'
  BY FuelStep
<1>3. FuelInvariant => FuelExact
  BY FuelInvariantImplies
<1> QED BY <1>1, <1>2, <1>3, PTL DEF PipelineSpec

\* FinishedOnce for every number of plugins: a plugin that has been finished is
\* not called again, for the trailing output of those before it either.
THEOREM FinishedGuestsRest == ASSUME PipelineAssumption PROVE PipelineSpec => []FinishedOnce
<1>1. PipelineInit => FuelInvariant
  BY FuelInitially
<1>2. FuelInvariant /\ [PipelineNext]_pipelineVars => FuelInvariant'
  BY FuelStep
<1>3. FuelInvariant => FinishedOnce
  BY FuelInvariantImplies
<1> QED BY <1>1, <1>2, <1>3, PTL DEF PipelineSpec

-----------------------------------------------------------------------------
(* The memory of the sessions *)

Calls == [phase : {"none", "admission", "sending", "waiting", "draining", "returned"},
          need : Nat, slot : BOOLEAN, sent : BOOLEAN]
GuestsOf == [phase : {"none", "starting", "begin", "receiving", "process", "finish", "over", "ended"},
             cancelled : BOOLEAN, overdue : BOOLEAN, polls : BOOLEAN]
Clients == [phase : {"none", "starting", "open", "asked", "finishing", "aborting", "joining", "closed", "dropped"},
            sender : BOOLEAN, command : {"none", "process", "finish", "cancel"},
            reply : {"none", "ok", "error"}, watched : BOOLEAN]

ExecutorTypes ==
  /\ used \in Nat /\ queue \in Seq(Sessions) /\ runs \in [Workers -> SUBSET Sessions]
  /\ call \in [Sessions -> Calls] /\ guest \in [Sessions -> GuestsOf] /\ client \in [Sessions -> Clients]

\* The rows of one session agree on who has its task: the slot until a worker or
\* the caller empties it, then the guest until it has ended, then nobody.
TaskOwned(c, g, x) ==
  /\ c.phase \in {"none", "admission"} => ~ c.slot /\ ~ c.sent /\ g.phase = "none"
  /\ c.phase = "sending" => c.slot
  /\ c.slot => g.phase = "none" /\ ~ c.sent /\ c.phase \in {"sending", "waiting"}
  /\ c.sent => g.phase = "ended"
  /\ c.phase = "returned" => g.phase \in {"none", "ended"}
  /\ x.phase = "none" => c.phase = "none"
  /\ x.phase = "closed" => c.phase = "returned"

\* A worker runs a session whose guest it started and whose result it has not
\* sent; one worker does.
RunsOwned ==
  /\ \A w \in Workers : \A s \in runs[w] :
       guest[s].phase # "none" /\ ~ call[s].sent /\ call[s].phase \in {"waiting", "draining"}
  /\ \A w, v \in Workers : \A s \in Sessions : s \in runs[w] /\ s \in runs[v] => w = v

\* A job in the queue has been sent.
QueueSent == \A i \in 1 .. Len(queue) : call[queue[i]].phase \in {"waiting", "draining", "returned"}

\* MemoryAccounted is inductive together with these.
ExecutorInvariant ==
  /\ ExecutorTypes
  /\ \A s \in Sessions : TaskOwned(call[s], guest[s], client[s])
  /\ RunsOwned
  /\ QueueSent
  /\ used = SumFunctionOnSet([s \in Sessions |-> call[s].need], {s \in Sessions : Holding(s)})
  /\ used <= Budget

\* Whether a session with these rows holds memory, and how much.
Holds(c, g) == c.slot \/ g.phase \in {"starting", "begin", "receiving", "process", "finish", "over"}
Held(c, g) == IF Holds(c, g) THEN c.need ELSE 0

\* At most session s changed its rows.
OnlySession(s) ==
  \A t \in Sessions \ {s} : call'[t] = call[t] /\ guest'[t] = guest[t] /\ client'[t] = client[t]

\* SumMove over the sessions.
LEMMA SessionSums ==
  ASSUME ExecutorAssumption, NEW A, NEW B, NEW S \in SUBSET Sessions, NEW T \in SUBSET Sessions, NEW s,
         \A t : t # s => (t \in S <=> t \in T),
         \A t \in Sessions : A[t] \in Int /\ B[t] \in Int,
         \A t \in Sessions : t # s => A[t] = B[t]
  PROVE  /\ SumFunctionOnSet(A, S) \in Int
         /\ s \in S /\ s \in T => SumFunctionOnSet(B, T) = SumFunctionOnSet(A, S) - A[s] + B[s]
         /\ s \in S /\ s \notin T => SumFunctionOnSet(B, T) = SumFunctionOnSet(A, S) - A[s]
         /\ s \notin S /\ s \in T => SumFunctionOnSet(B, T) = SumFunctionOnSet(A, S) + B[s]
         /\ s \notin S /\ s \notin T => SumFunctionOnSet(B, T) = SumFunctionOnSet(A, S)
<1>1. IsFiniteSet(S) /\ IsFiniteSet(T)
  BY FS_Subset DEF ExecutorAssumption
<1>2. /\ \A t \in S : A[t] \in Int
      /\ \A t \in T : B[t] \in Int
      /\ \A t \in S : t # s => A[t] = B[t]
  OBVIOUS
<1>3. SumFunctionOnSet(A, S) \in Int
  BY <1>1, <1>2, SumInt
<1> QED BY <1>1, <1>2, <1>3, SumMove

\* The total moves with what one session holds.
LEMMA HeldMoves ==
  ASSUME ExecutorAssumption, ExecutorTypes, ExecutorTypes', NEW s \in Sessions, OnlySession(s),
         used = SumFunctionOnSet([t \in Sessions |-> call[t].need], {t \in Sessions : Holding(t)}),
         used' = used - Held(call[s], guest[s]) + Held(call'[s], guest'[s])
  PROVE  used' = SumFunctionOnSet([t \in Sessions |-> call'[t].need], {t \in Sessions : Holding(t)'})
<1> DEFINE F == [t \in Sessions |-> call[t].need]
           G == [t \in Sessions |-> call'[t].need]
           S == {t \in Sessions : Holding(t)}
           T == {t \in Sessions : Holding(t)'}
<1>1. S \in SUBSET Sessions /\ T \in SUBSET Sessions
  OBVIOUS
<1>2. /\ \A t \in Sessions : F[t] \in Int /\ G[t] \in Int
      /\ \A t \in Sessions : t # s => F[t] = G[t]
  BY DEF ExecutorTypes, Calls, OnlySession
<1>3. \A t : t # s => (t \in S <=> t \in T)
  BY DEF OnlySession, Holding
<1>4. F[s] = call[s].need /\ G[s] = call'[s].need /\ F[s] \in Int /\ G[s] \in Int
  BY DEF ExecutorTypes, Calls
<1>5. (s \in S <=> Holds(call[s], guest[s])) /\ (s \in T <=> Holds(call'[s], guest'[s]))
  BY DEF Holding, Holds
<1>6. used = SumFunctionOnSet(F, S)
  OBVIOUS
<1> HIDE DEF F, G, S, T
<1>8. /\ SumFunctionOnSet(F, S) \in Int
      /\ s \in S /\ s \in T => SumFunctionOnSet(G, T) = SumFunctionOnSet(F, S) - F[s] + G[s]
      /\ s \in S /\ s \notin T => SumFunctionOnSet(G, T) = SumFunctionOnSet(F, S) - F[s]
      /\ s \notin S /\ s \in T => SumFunctionOnSet(G, T) = SumFunctionOnSet(F, S) + G[s]
      /\ s \notin S /\ s \notin T => SumFunctionOnSet(G, T) = SumFunctionOnSet(F, S)
  BY <1>1, <1>2, <1>3, SessionSums
<1>9. used' = SumFunctionOnSet(G, T)
  BY <1>4, <1>5, <1>6, <1>8 DEF Held
<1> QED BY <1>9 DEF G, T

\* A step of one session.
LEMMA SessionMoves ==
  ASSUME ExecutorAssumption, ExecutorInvariant, ExecutorTypes', NEW s \in Sessions, OnlySession(s),
         TaskOwned(call'[s], guest'[s], client'[s]), RunsOwned', QueueSent',
         used' = used - Held(call[s], guest[s]) + Held(call'[s], guest'[s]), used' <= Budget
  PROVE  ExecutorInvariant'
<1>1. \A t \in Sessions : TaskOwned(call[t], guest[t], client[t])'
  BY DEF OnlySession, ExecutorInvariant
<1>2. used' = SumFunctionOnSet([t \in Sessions |-> call'[t].need], {t \in Sessions : Holding(t)'})
  BY HeldMoves DEF ExecutorInvariant
<1> QED BY <1>1, <1>2 DEF ExecutorInvariant

\* A step that leaves the memory, the queue and the workers alone, and neither
\* returns nor ends the task.
LEMMA SessionTalks ==
  ASSUME ExecutorAssumption, ExecutorInvariant, NEW s \in Sessions, OnlySession(s),
         UNCHANGED <<used, queue, runs>>,
         call' \in [Sessions -> Calls], guest' \in [Sessions -> GuestsOf], client' \in [Sessions -> Clients],
         TaskOwned(call'[s], guest'[s], client'[s]),
         Held(call'[s], guest'[s]) = Held(call[s], guest[s]),
         call[s].phase \in {"waiting", "draining"} /\ ~ call[s].sent /\ guest[s].phase # "none" =>
            call'[s].phase \in {"waiting", "draining"} /\ ~ call'[s].sent /\ guest'[s].phase # "none",
         call[s].phase \in {"waiting", "draining", "returned"} => call'[s].phase \in {"waiting", "draining", "returned"}
  PROVE  ExecutorInvariant'
<1>1. ExecutorTypes'
  BY DEF ExecutorInvariant, ExecutorTypes
<1>2. RunsOwned'
  BY DEF ExecutorInvariant, RunsOwned, ExecutorTypes, OnlySession
<1>3. QueueSent'
  <2> SUFFICES ASSUME NEW i \in 1 .. Len(queue) PROVE call'[queue[i]].phase \in {"waiting", "draining", "returned"}
    BY DEF QueueSent
  <2>1. queue[i] \in Sessions /\ call[queue[i]].phase \in {"waiting", "draining", "returned"}
    BY DEF ExecutorInvariant, ExecutorTypes, QueueSent
  <2> QED BY <2>1 DEF OnlySession
<1>4. Held(call[s], guest[s]) \in Nat /\ used \in Nat /\ used <= Budget
  BY DEF ExecutorInvariant, ExecutorTypes, Held, Calls
<1>5. used' = used - Held(call[s], guest[s]) + Held(call'[s], guest'[s]) /\ used' <= Budget
  BY <1>4
<1> QED BY <1>1, <1>2, <1>3, <1>5, SessionMoves

-----------------------------------------------------------------------------
(* The steps *)

\* Nothing is held, queued or run at the start.
LEMMA ExecutorInitially ==
  ASSUME ExecutorAssumption, ExecutorInit
  PROVE  ExecutorInvariant
<1>1. ExecutorTypes
  BY DEF ExecutorInit, ExecutorTypes, Calls, GuestsOf, Clients
<1>2. \A s \in Sessions : TaskOwned(call[s], guest[s], client[s])
  BY DEF ExecutorInit, TaskOwned
<1>3. RunsOwned /\ QueueSent
  BY DEF ExecutorInit, RunsOwned, QueueSent
<1>4. {s \in Sessions : Holding(s)} = {}
  BY DEF ExecutorInit, Holding
<1>5. used = SumFunctionOnSet([s \in Sessions |-> call[s].need], {s \in Sessions : Holding(s)})
  BY <1>4, SumEmpty DEF ExecutorInit
<1>6. used <= Budget
  BY DEF ExecutorInit, ExecutorAssumption
<1> QED BY <1>1, <1>2, <1>3, <1>5, <1>6 DEF ExecutorInvariant

\* What a step of the blocking thread, the guest or the client can assume of its session.
LEMMA SessionOwns ==
  ASSUME ExecutorAssumption, ExecutorInvariant, NEW s \in Sessions
  PROVE  /\ used \in Nat /\ used <= Budget
         /\ call \in [Sessions -> Calls] /\ call[s] \in Calls /\ call[s].need \in Nat
         /\ guest \in [Sessions -> GuestsOf] /\ guest[s] \in GuestsOf
         /\ client \in [Sessions -> Clients] /\ client[s] \in Clients
         /\ TaskOwned(call[s], guest[s], client[s])
BY DEF ExecutorInvariant, ExecutorTypes, Calls

\* A session's memory is part of what is used.
LEMMA HeldIsUsed ==
  ASSUME ExecutorAssumption, ExecutorInvariant, NEW s \in Sessions, Holding(s)
  PROVE  used - call[s].need \in Nat
<1> DEFINE F == [t \in Sessions |-> call[t].need]
           S == {t \in Sessions : Holding(t)}
<1>1. IsFiniteSet(S) /\ s \in S
  BY FS_Subset DEF ExecutorAssumption
<1>2. (\A t \in S : F[t] \in Nat) /\ F[s] = call[s].need /\ used = SumFunctionOnSet(F, S)
  BY DEF ExecutorInvariant, ExecutorTypes, Calls
<1>3. IsFiniteSet(S \ {s})
  BY <1>1, FS_Subset
<1> HIDE DEF F, S
<1>4. (\A t \in S : F[t] \in Int) /\ (\A t \in S \ {s} : F[t] \in Nat)
  BY <1>2
<1>5. SumFunctionOnSet(F, S) = F[s] + SumFunctionOnSet(F, S \ {s})
  BY <1>1, <1>4, SumTake
<1>6. SumFunctionOnSet(F, S \ {s}) \in Nat
  BY <1>3, <1>4, SumNat
<1> QED BY <1>1, <1>2, <1>5, <1>6

\* The memory is reserved for a session that holds none.
LEMMA ReserveKeeps ==
  ASSUME ExecutorAssumption, ExecutorInvariant, NEW s \in Sessions, Reserve(s)
  PROVE  ExecutorInvariant'
<1>1. /\ call' = [call EXCEPT ![s].phase = "sending", ![s].slot = TRUE]
      /\ call[s].phase = "admission" /\ used' = used + call[s].need /\ used' <= Budget
      /\ queue' = queue /\ runs' = runs /\ guest' = guest /\ client' = client
  BY DEF Reserve
<1>2. /\ call' \in [Sessions -> Calls] /\ OnlySession(s)
      /\ call'[s].phase = "sending" /\ call'[s].slot /\ ~ call'[s].sent /\ call'[s].need = call[s].need
      /\ guest'[s].phase = "none" /\ client'[s] = client[s] /\ ~ call[s].slot /\ ~ call[s].sent
  BY <1>1, SessionOwns DEF OnlySession, Calls, TaskOwned
<1>3. ExecutorTypes'
  BY <1>1, <1>2, SessionOwns DEF ExecutorInvariant, ExecutorTypes
<1>4. TaskOwned(call'[s], guest'[s], client'[s])
  BY <1>1, <1>2, SessionOwns DEF TaskOwned
<1>5. RunsOwned'
  BY <1>1, <1>2 DEF ExecutorInvariant, ExecutorTypes, RunsOwned, OnlySession
<1>6. QueueSent'
  <2> SUFFICES ASSUME NEW i \in 1 .. Len(queue) PROVE call'[queue[i]].phase \in {"waiting", "draining", "returned"}
    BY <1>1 DEF QueueSent
  <2>1. queue[i] \in Sessions /\ call[queue[i]].phase \in {"waiting", "draining", "returned"}
    BY DEF ExecutorInvariant, ExecutorTypes, QueueSent
  <2> QED BY <1>1, <1>2, <2>1 DEF OnlySession
<1>7. Held(call[s], guest[s]) = 0 /\ Held(call'[s], guest'[s]) = call[s].need
  BY <1>1, <1>2 DEF Held, Holds
<1>8. used' = used - Held(call[s], guest[s]) + Held(call'[s], guest'[s])
  BY <1>1, <1>7, SessionOwns
<1> QED BY <1>1, <1>2, <1>3, <1>4, <1>5, <1>6, <1>8, SessionMoves

\* A job that is sent keeps its task in the slot.
LEMMA TrySendKeeps ==
  ASSUME ExecutorAssumption, ExecutorInvariant, NEW s \in Sessions, TrySend(s)
  PROVE  ExecutorInvariant'
<1>1. /\ call' = [call EXCEPT ![s].phase = "waiting"] /\ call[s].phase = "sending"
      /\ queue' = Append(queue, s)
      /\ used' = used /\ runs' = runs /\ guest' = guest /\ client' = client
  BY DEF TrySend
<1>2. /\ call' \in [Sessions -> Calls] /\ OnlySession(s)
      /\ call'[s].phase = "waiting" /\ call'[s].slot = call[s].slot /\ call'[s].sent = call[s].sent
      /\ call'[s].need = call[s].need /\ guest'[s] = guest[s] /\ client'[s] = client[s]
  BY <1>1, SessionOwns DEF OnlySession, Calls
<1>3. queue \in Seq(Sessions) /\ queue' \in Seq(Sessions) /\ Len(queue') = Len(queue) + 1
  BY <1>1 DEF ExecutorInvariant, ExecutorTypes
<1>4. ExecutorTypes'
  BY <1>1, <1>2, <1>3, SessionOwns DEF ExecutorInvariant, ExecutorTypes
<1>5. TaskOwned(call'[s], guest'[s], client'[s])
  BY <1>1, <1>2, SessionOwns DEF TaskOwned
<1>6. RunsOwned'
  BY <1>1, <1>2 DEF ExecutorInvariant, ExecutorTypes, RunsOwned, OnlySession
<1>7. QueueSent'
  <2> SUFFICES ASSUME NEW i \in 1 .. Len(queue') PROVE call'[queue'[i]].phase \in {"waiting", "draining", "returned"}
    BY DEF QueueSent
  <2>1. CASE i = Len(queue) + 1
    BY <2>1, <1>1, <1>2, <1>3
  <2>2. CASE i \in 1 .. Len(queue)
    <3>1. queue'[i] = queue[i] /\ queue[i] \in Sessions
      BY <2>2, <1>1, <1>3
    <3>2. call[queue[i]].phase \in {"waiting", "draining", "returned"}
      BY <2>2 DEF ExecutorInvariant, QueueSent
    <3> QED BY <3>1, <3>2, <1>1 DEF OnlySession
  <2> QED BY <2>1, <2>2, <1>3
<1>8. Held(call[s], guest[s]) = Held(call'[s], guest'[s]) /\ Held(call[s], guest[s]) \in Nat
  BY <1>1, <1>2, SessionOwns DEF Held, Holds
<1>9. used' = used - Held(call[s], guest[s]) + Held(call'[s], guest'[s]) /\ used' <= Budget
  BY <1>1, <1>8, SessionOwns
<1> QED BY <1>2, <1>4, <1>5, <1>6, <1>7, <1>9, SessionMoves

\* The caller takes its task back: memory and task leave the session.
LEMMA TakenBack ==
  ASSUME ExecutorAssumption, ExecutorInvariant, NEW s \in Sessions,
         call[s].slot, EmptySlot(s, "returned"), Cancelled(s), UNCHANGED <<queue, runs, client>>
  PROVE  ExecutorInvariant'
<1>1. /\ call' = [call EXCEPT ![s].phase = "returned", ![s].slot = FALSE]
      /\ used' = used - call[s].need
      /\ guest' = [guest EXCEPT ![s].cancelled = TRUE]
      /\ queue' = queue /\ runs' = runs /\ client' = client
  BY DEF EmptySlot, Cancelled
<1>2. /\ call' \in [Sessions -> Calls] /\ guest' \in [Sessions -> GuestsOf] /\ OnlySession(s)
      /\ call'[s].phase = "returned" /\ ~ call'[s].slot /\ call'[s].sent = call[s].sent
      /\ call'[s].need = call[s].need /\ guest'[s].phase = guest[s].phase /\ client'[s] = client[s]
  BY <1>1, SessionOwns DEF OnlySession, Calls, GuestsOf
<1>3. guest[s].phase = "none" /\ ~ call[s].sent /\ call[s].phase \in {"sending", "waiting"}
  BY SessionOwns DEF TaskOwned
<1>4. used' \in Nat /\ used' <= Budget
  BY <1>1, HeldIsUsed, SessionOwns DEF Holding, ExecutorAssumption
<1>5. ExecutorTypes'
  BY <1>1, <1>2, <1>4, SessionOwns DEF ExecutorInvariant, ExecutorTypes
<1>6. TaskOwned(call'[s], guest'[s], client'[s])
  BY <1>1, <1>2, <1>3, SessionOwns DEF TaskOwned
<1>7. RunsOwned'
  BY <1>1, <1>2, <1>3 DEF ExecutorInvariant, ExecutorTypes, RunsOwned, OnlySession
<1>8. QueueSent'
  <2> SUFFICES ASSUME NEW i \in 1 .. Len(queue) PROVE call'[queue[i]].phase \in {"waiting", "draining", "returned"}
    BY <1>1 DEF QueueSent
  <2>1. queue[i] \in Sessions /\ call[queue[i]].phase \in {"waiting", "draining", "returned"}
    BY DEF ExecutorInvariant, ExecutorTypes, QueueSent
  <2> QED BY <1>2, <2>1 DEF OnlySession
<1>9. Held(call[s], guest[s]) = call[s].need /\ Held(call'[s], guest'[s]) = 0
  BY <1>2, <1>3 DEF Held, Holds
<1>10. used' = used - Held(call[s], guest[s]) + Held(call'[s], guest'[s])
  BY <1>1, <1>4, <1>9
<1> QED BY <1>2, <1>4, <1>5, <1>6, <1>7, <1>8, <1>10, SessionMoves

\* A worker that ends a guest drops its permit.
LEMMA PermitDroppedKeeps ==
  ASSUME ExecutorAssumption, ExecutorInvariant, NEW w \in Workers, NEW s \in Sessions, PermitDropped(w, s)
  PROVE  ExecutorInvariant'
<1>1. /\ s \in runs[w] /\ guest[s].phase = "over" /\ used' = used - call[s].need
      /\ guest' = [guest EXCEPT ![s].phase = "ended"]
      /\ queue' = queue /\ runs' = runs /\ client' = client /\ call' = call
  BY DEF PermitDropped
<1>2. /\ guest' \in [Sessions -> GuestsOf] /\ OnlySession(s)
      /\ guest'[s].phase = "ended" /\ call'[s] = call[s] /\ client'[s] = client[s]
  BY <1>1, SessionOwns DEF OnlySession, GuestsOf
<1>3. ~ call[s].slot
  BY <1>1, SessionOwns DEF TaskOwned
<1>4. used' \in Nat /\ used' <= Budget
  BY <1>1, HeldIsUsed, SessionOwns DEF Holding, ExecutorAssumption
<1>5. ExecutorTypes'
  BY <1>1, <1>2, <1>4, SessionOwns DEF ExecutorInvariant, ExecutorTypes
<1>6. TaskOwned(call'[s], guest'[s], client'[s])
  BY <1>1, <1>2, <1>3, SessionOwns DEF TaskOwned
<1>7. RunsOwned' /\ QueueSent'
  BY <1>1, <1>2 DEF ExecutorInvariant, ExecutorTypes, RunsOwned, QueueSent, OnlySession
<1>9. Held(call[s], guest[s]) = call[s].need /\ Held(call'[s], guest'[s]) = 0
  BY <1>1, <1>2, <1>3 DEF Held, Holds
<1>10. used' = used - Held(call[s], guest[s]) + Held(call'[s], guest'[s])
  BY <1>1, <1>4, <1>9
<1> QED BY <1>2, <1>4, <1>5, <1>6, <1>7, <1>10, SessionMoves

\* The result follows the permit: the worker is free and the caller may return.
LEMMA ResultSentKeeps ==
  ASSUME ExecutorAssumption, ExecutorInvariant, NEW w \in Workers, NEW s \in Sessions, ResultSent(w, s)
  PROVE  ExecutorInvariant'
<1>1. /\ s \in runs[w] /\ guest[s].phase = "ended" /\ used' = used
      /\ call' = [call EXCEPT ![s].sent = TRUE] /\ runs' = [runs EXCEPT ![w] = {}]
      /\ queue' = queue /\ client' = client /\ guest' = guest
  BY DEF ResultSent
<1>2. /\ call' \in [Sessions -> Calls] /\ OnlySession(s)
      /\ call'[s].phase = call[s].phase /\ call'[s].slot = call[s].slot /\ call'[s].sent
      /\ call'[s].need = call[s].need /\ guest'[s] = guest[s] /\ client'[s] = client[s]
  BY <1>1, SessionOwns DEF OnlySession, Calls
<1>3. ~ call[s].slot /\ call[s].phase \in {"waiting", "draining"}
  BY <1>1, SessionOwns DEF TaskOwned, ExecutorInvariant, RunsOwned
<1>4. runs \in [Workers -> SUBSET Sessions] /\ runs' \in [Workers -> SUBSET Sessions]
  BY <1>1 DEF ExecutorInvariant, ExecutorTypes
<1>5. ExecutorTypes'
  BY <1>1, <1>2, <1>4, SessionOwns DEF ExecutorInvariant, ExecutorTypes
<1>6. TaskOwned(call'[s], guest'[s], client'[s])
  BY <1>1, <1>2, <1>3, SessionOwns DEF TaskOwned
<1>7. RunsOwned'
  <2>1. \A v \in Workers : runs'[v] \subseteq runs[v] /\ s \notin runs'[v]
    BY <1>1, <1>4 DEF ExecutorInvariant, RunsOwned
  <2> QED BY <1>1, <1>2, <1>4, <2>1 DEF ExecutorInvariant, RunsOwned, OnlySession
<1>8. QueueSent'
  <2> SUFFICES ASSUME NEW i \in 1 .. Len(queue) PROVE call'[queue[i]].phase \in {"waiting", "draining", "returned"}
    BY <1>1 DEF QueueSent
  <2>1. queue[i] \in Sessions /\ call[queue[i]].phase \in {"waiting", "draining", "returned"}
    BY DEF ExecutorInvariant, ExecutorTypes, QueueSent
  <2> QED BY <1>2, <2>1 DEF OnlySession
<1>9. Held(call[s], guest[s]) = 0 /\ Held(call'[s], guest'[s]) = 0
  BY <1>1, <1>2, <1>3 DEF Held, Holds
<1>10. used' = used - Held(call[s], guest[s]) + Held(call'[s], guest'[s]) /\ used' <= Budget
  BY <1>1, <1>9, SessionOwns
<1> QED BY <1>2, <1>5, <1>6, <1>7, <1>8, <1>10, SessionMoves

\* A worker takes the task that it finds in the slot: the guest starts on its memory.
LEMMA TaskTaken ==
  ASSUME ExecutorAssumption, ExecutorInvariant, NEW w \in Workers, NEW s \in Sessions,
         call[s].slot, call[s].phase \in {"waiting", "draining", "returned"}, runs[w] = {},
         runs' = [runs EXCEPT ![w] = {s}], call' = [call EXCEPT ![s].slot = FALSE],
         guest' = [guest EXCEPT ![s].phase = "starting"], used' = used, client' = client,
         queue' \in Seq(Sessions),
         \A i \in 1 .. Len(queue') : i + 1 \in 1 .. Len(queue) /\ queue'[i] = queue[i + 1]
  PROVE  ExecutorInvariant'
<1>0. runs \in [Workers -> SUBSET Sessions]
  BY DEF ExecutorInvariant, ExecutorTypes
<1>1. /\ call' \in [Sessions -> Calls] /\ guest' \in [Sessions -> GuestsOf] /\ OnlySession(s)
      /\ call'[s].phase = call[s].phase /\ ~ call'[s].slot /\ call'[s].sent = call[s].sent
      /\ call'[s].need = call[s].need /\ guest'[s].phase = "starting" /\ client'[s] = client[s]
  BY SessionOwns DEF OnlySession, Calls, GuestsOf
<1>2. guest[s].phase = "none" /\ ~ call[s].sent /\ call[s].phase = "waiting"
  BY SessionOwns DEF TaskOwned
<1>3. runs' \in [Workers -> SUBSET Sessions]
  BY <1>0
<1>4. ExecutorTypes'
  BY <1>1, <1>3, SessionOwns DEF ExecutorInvariant, ExecutorTypes
<1>5. TaskOwned(call'[s], guest'[s], client'[s])
  BY <1>1, <1>2, SessionOwns DEF TaskOwned
<1>6. RunsOwned'
  <2>1. \A v \in Workers : s \notin runs[v]
    BY <1>2 DEF ExecutorInvariant, RunsOwned
  <2>2. \A v \in Workers : runs'[v] = IF v = w THEN {s} ELSE runs[v]
    BY <1>0
  <2>3. \A v \in Workers : \A t \in runs'[v] : t = s \/ (t \in runs[v] /\ t \in Sessions \ {s})
    BY <1>0, <2>1, <2>2
  <2>4. \A v \in Workers : \A t \in runs'[v] :
          guest'[t].phase # "none" /\ ~ call'[t].sent /\ call'[t].phase \in {"waiting", "draining"}
    BY <1>1, <1>2, <2>3 DEF ExecutorInvariant, RunsOwned, OnlySession
  <2>5. \A v, u \in Workers : \A t \in Sessions : t \in runs'[v] /\ t \in runs'[u] => v = u
    BY <1>0, <2>1, <2>2 DEF ExecutorInvariant, RunsOwned
  <2> QED BY <2>4, <2>5 DEF RunsOwned
<1>7. QueueSent'
  <2> SUFFICES ASSUME NEW i \in 1 .. Len(queue') PROVE call'[queue'[i]].phase \in {"waiting", "draining", "returned"}
    BY DEF QueueSent
  <2>1. queue'[i] \in Sessions /\ call[queue'[i]].phase \in {"waiting", "draining", "returned"}
    BY DEF ExecutorInvariant, QueueSent
  <2> QED BY <1>1, <2>1 DEF OnlySession
<1>8. Held(call[s], guest[s]) = call[s].need /\ Held(call'[s], guest'[s]) = call[s].need
  BY <1>1 DEF Held, Holds
<1>9. used' = used - Held(call[s], guest[s]) + Held(call'[s], guest'[s]) /\ used' <= Budget
  BY <1>8, SessionOwns
<1> QED BY <1>1, <1>4, <1>5, <1>6, <1>7, <1>9, SessionMoves

\* A worker takes a job, whose slot may be empty.
LEMMA TakeJobKeeps ==
  ASSUME ExecutorAssumption, ExecutorInvariant, NEW w \in Workers, TakeJob(w)
  PROVE  ExecutorInvariant'
<1>0. /\ queue \in Seq(Sessions) /\ queue # <<>> /\ queue' = Tail(queue) /\ runs[w] = {}
      /\ used' = used /\ client' = client
  BY DEF TakeJob, ExecutorInvariant, ExecutorTypes
<1>1. PICK s \in Sessions : s = Head(queue)
  BY <1>0
<1>2. queue' \in Seq(Sessions) /\ s = queue[1] /\ 1 \in 1 .. Len(queue)
  BY <1>0, <1>1
<1>3. \A i \in 1 .. Len(queue') : i + 1 \in 1 .. Len(queue) /\ queue'[i] = queue[i + 1]
  BY <1>0
<1>4. call[s].phase \in {"waiting", "draining", "returned"}
  BY <1>2 DEF ExecutorInvariant, QueueSent
<1>5. CASE call[s].slot
  <2>1. /\ runs' = [runs EXCEPT ![w] = {s}] /\ call' = [call EXCEPT ![s].slot = FALSE]
        /\ guest' = [guest EXCEPT ![s].phase = "starting"]
    BY <1>1, <1>5 DEF TakeJob
  <2> QED BY <1>0, <1>2, <1>3, <1>4, <1>5, <2>1, TaskTaken
<1>6. CASE ~ call[s].slot
  <2>1. UNCHANGED <<used, runs, call, guest, client>>
    BY <1>0, <1>1, <1>6 DEF TakeJob
  <2>2. ExecutorTypes'
    BY <2>1, <1>2 DEF ExecutorInvariant, ExecutorTypes
  <2>3. QueueSent'
    BY <2>1, <1>3 DEF ExecutorInvariant, QueueSent
  <2>4. (\A t \in Sessions : TaskOwned(call[t], guest[t], client[t])') /\ RunsOwned'
    BY <2>1 DEF ExecutorInvariant, RunsOwned
  <2>5. /\ used' = SumFunctionOnSet([t \in Sessions |-> call'[t].need], {t \in Sessions : Holding(t)'})
        /\ used' <= Budget
    BY <2>1 DEF ExecutorInvariant, Holding
  <2> QED BY <2>2, <2>3, <2>4, <2>5 DEF ExecutorInvariant
<1> QED BY <1>5, <1>6

\* A step that changes what the client and the guest say to each other, not who
\* has the task; SessionTalks for it.
LEMMA TalkKeeps ==
  ASSUME ExecutorAssumption, ExecutorInvariant, NEW s \in Sessions,
         UNCHANGED <<used, queue, runs, call>>, OnlySession(s),
         guest' \in [Sessions -> GuestsOf], client' \in [Sessions -> Clients],
         guest'[s].phase = guest[s].phase
           \/ (/\ guest[s].phase \in {"starting", "begin", "receiving", "process", "finish"}
               /\ guest'[s].phase \in {"begin", "receiving", "process", "finish", "over"}),
         client'[s].phase = "none" => call[s].phase = "none",
         client'[s].phase = "closed" => call[s].phase = "returned"
  PROVE  ExecutorInvariant'
<1>1. /\ call'[s] = call[s] /\ call' \in [Sessions -> Calls] /\ TaskOwned(call[s], guest[s], client[s])
      /\ guest[s] \in GuestsOf
  BY SessionOwns
<1>2. TaskOwned(call'[s], guest'[s], client'[s])
  BY <1>1 DEF TaskOwned
<1>3. Held(call'[s], guest'[s]) = Held(call[s], guest[s])
  BY <1>1 DEF Held, Holds
<1>4. guest[s].phase # "none" => guest'[s].phase # "none"
  OBVIOUS
<1> QED BY <1>1, <1>2, <1>3, <1>4, SessionTalks

\* The blocking thread.
LEMMA CallStepKeeps ==
  ASSUME ExecutorAssumption, ExecutorInvariant, NEW s \in Sessions, CallStep(s)
  PROVE  ExecutorInvariant'
<1>0. /\ call \in [Sessions -> Calls] /\ call[s] \in Calls /\ guest \in [Sessions -> GuestsOf]
      /\ client \in [Sessions -> Clients] /\ guest[s] \in GuestsOf
      /\ TaskOwned(call[s], guest[s], client[s])
  BY SessionOwns
<1>1. ASSUME NEW p \in {"returned", "draining"},
             call' = [call EXCEPT ![s].phase = p], ~ call[s].slot,
             UNCHANGED <<used, queue, runs, client>>, guest' \in [Sessions -> GuestsOf],
             \A t \in Sessions \ {s} : guest'[t] = guest[t], guest'[s].phase = guest[s].phase,
             p = "returned" => guest[s].phase \in {"none", "ended"} /\ (call[s].phase = "admission" \/ call[s].sent),
             p = "draining" => call[s].phase = "waiting",
             call[s].phase \in {"admission", "waiting", "draining"}
      PROVE  ExecutorInvariant'
  <2>1. /\ call' \in [Sessions -> Calls] /\ call'[s].phase = p /\ call'[s].slot = call[s].slot
        /\ call'[s].sent = call[s].sent /\ call'[s].need = call[s].need /\ client'[s] = client[s] /\ OnlySession(s)
    BY <1>0, <1>1 DEF OnlySession, Calls
  <2>2. TaskOwned(call'[s], guest'[s], client'[s])
    BY <1>0, <1>1, <2>1 DEF TaskOwned
  <2>3. Held(call'[s], guest'[s]) = Held(call[s], guest[s])
    BY <1>1, <2>1 DEF Held, Holds
  <2>4. call[s].phase \in {"waiting", "draining"} /\ ~ call[s].sent /\ guest[s].phase # "none" =>
            call'[s].phase \in {"waiting", "draining"} /\ ~ call'[s].sent /\ guest'[s].phase # "none"
    BY <1>1, <2>1
  <2>5. call[s].phase \in {"waiting", "draining", "returned"} => call'[s].phase \in {"waiting", "draining", "returned"}
    BY <2>1
  <2> QED BY <1>0, <1>1, <2>1, <2>2, <2>3, <2>4, <2>5, SessionTalks
<1>2. CASE Reserve(s)
  BY <1>2, ReserveKeeps
<1>3. CASE AdmissionRefused(s)
  BY <1>3, <1>1, <1>0 DEF AdmissionRefused, TaskOwned
<1>4. CASE TrySend(s)
  BY <1>4, TrySendKeeps
<1>5. CASE SendRefused(s)
  <2>1. call[s].slot /\ EmptySlot(s, "returned") /\ Cancelled(s) /\ UNCHANGED <<queue, runs, client>>
    BY <1>5, <1>0 DEF SendRefused, TaskOwned
  <2> QED BY <2>1, TakenBack
<1>6. CASE ReceiveResult(s)
  <2>1. /\ call' = [call EXCEPT ![s].phase = "returned"] /\ UNCHANGED <<used, queue, runs, client>>
        /\ call[s].phase = "waiting" /\ call[s].sent /\ guest[s].phase = "ended" /\ ~ call[s].slot
    BY <1>6, <1>0 DEF ReceiveResult, TaskOwned
  <2>2. /\ guest' \in [Sessions -> GuestsOf] /\ guest'[s].phase = guest[s].phase
        /\ \A t \in Sessions \ {s} : guest'[t] = guest[t]
    BY <1>6, <1>0 DEF ReceiveResult, GuestsOf
  <2> QED BY <2>1, <2>2, <1>1
<1>7. CASE WaitInterrupted(s)
  <2>1. CASE call[s].slot
    BY <1>7, <2>1, TakenBack DEF WaitInterrupted
  <2>2. CASE ~ call[s].slot
    <3>1. /\ call' = [call EXCEPT ![s].phase = "draining"] /\ UNCHANGED <<used, queue, runs, client>>
          /\ call[s].phase = "waiting" /\ Cancelled(s)
      BY <1>7, <2>2 DEF WaitInterrupted
    <3>2. /\ guest' \in [Sessions -> GuestsOf] /\ guest'[s].phase = guest[s].phase
          /\ \A t \in Sessions \ {s} : guest'[t] = guest[t]
      BY <3>1, <1>0 DEF Cancelled, GuestsOf
    <3> QED BY <2>2, <3>1, <3>2, <1>1
  <2> QED BY <2>1, <2>2
<1>8. CASE Drained(s)
  BY <1>8, <1>1, <1>0 DEF Drained, TaskOwned
<1> QED BY <1>2, <1>3, <1>4, <1>5, <1>6, <1>7, <1>8 DEF CallStep

\* A guest that is cancelled stays in its phase.
LEMMA CancelledRows ==
  ASSUME ExecutorAssumption, ExecutorInvariant, NEW s \in Sessions, Cancelled(s)
  PROVE  /\ guest' \in [Sessions -> GuestsOf] /\ guest'[s].phase = guest[s].phase
         /\ \A t \in Sessions \ {s} : guest'[t] = guest[t]
BY SessionOwns DEF Cancelled, GuestsOf

\* The guest.
LEMMA GuestStepKeeps ==
  ASSUME ExecutorAssumption, ExecutorInvariant, NEW s \in Sessions, GuestStep(s)
  PROVE  ExecutorInvariant'
<1>0. /\ guest \in [Sessions -> GuestsOf] /\ client \in [Sessions -> Clients]
      /\ guest[s] \in GuestsOf /\ client[s] \in Clients
      /\ client[s].phase = "none" => call[s].phase = "none"
      /\ client[s].phase = "closed" => call[s].phase = "returned"
  BY SessionOwns DEF TaskOwned
<1>1. UNCHANGED <<used, queue, runs, call>>
  BY DEF GuestStep, StartGuest, ReceiveCommand, GuestCall, Reply
<1>2. /\ guest' \in [Sessions -> GuestsOf] /\ OnlySession(s)
      /\ guest[s].phase \in {"starting", "begin", "receiving", "process", "finish"}
      /\ guest'[s].phase \in {"begin", "receiving", "process", "finish", "over"}
  BY <1>0, <1>1 DEF GuestStep, StartGuest, ReceiveCommand, GuestCall, Reply, OnlySession, GuestsOf
<1>3. client' \in [Sessions -> Clients] /\ client'[s].phase = client[s].phase
  BY <1>0 DEF GuestStep, StartGuest, ReceiveCommand, GuestCall, Reply, Clients
<1> QED BY <1>0, <1>1, <1>2, <1>3, TalkKeeps

\* A guest that waits in the host.
LEMMA PollKeeps ==
  ASSUME ExecutorAssumption, ExecutorInvariant, NEW s \in Sessions, HostPoll(s) \/ PollReturns(s)
  PROVE  ExecutorInvariant'
<1>0. /\ guest \in [Sessions -> GuestsOf] /\ client \in [Sessions -> Clients] /\ guest[s] \in GuestsOf
      /\ client[s].phase = "none" => call[s].phase = "none"
      /\ client[s].phase = "closed" => call[s].phase = "returned"
  BY SessionOwns DEF TaskOwned
<1>1. /\ UNCHANGED <<used, queue, runs, call, client>>
      /\ \E b \in BOOLEAN : guest' = [guest EXCEPT ![s].polls = b]
  BY DEF HostPoll, PollReturns
<1>2. guest' \in [Sessions -> GuestsOf] /\ guest'[s].phase = guest[s].phase /\ OnlySession(s)
  BY <1>0, <1>1 DEF OnlySession, GuestsOf
<1> QED BY <1>0, <1>1, <1>2, TalkKeeps

\* The request's future and its clock, once the session has started.
LEMMA ClientStepKeeps ==
  ASSUME ExecutorAssumption, ExecutorInvariant, NEW s \in Sessions,
         \/ ClientAnswer(s) \/ SendProcess(s) \/ SendFinish(s) \/ CancelAndWait(s)
         \/ Dropped(s) \/ Deadline(s) \/ Watchdog(s)
  PROVE  ExecutorInvariant'
<1>0. /\ guest \in [Sessions -> GuestsOf] /\ client \in [Sessions -> Clients]
      /\ guest[s] \in GuestsOf /\ client[s] \in Clients
      /\ client[s].phase = "none" => call[s].phase = "none"
      /\ client[s].phase = "closed" => call[s].phase = "returned"
  BY SessionOwns DEF TaskOwned
<1>1. ASSUME UNCHANGED <<used, queue, runs, call, guest>>, client' \in [Sessions -> Clients],
             \A t \in Sessions \ {s} : client'[t] = client[t], client'[s].phase # "none",
             client'[s].phase = "closed" => call[s].phase = "returned"
      PROVE  ExecutorInvariant'
  BY <1>0, <1>1, TalkKeeps DEF OnlySession
<1>2. ASSUME UNCHANGED <<used, queue, runs, call>>, Cancelled(s), client' \in [Sessions -> Clients],
             \A t \in Sessions \ {s} : client'[t] = client[t], client'[s].phase # "none", client'[s].phase # "closed"
      PROVE  ExecutorInvariant'
  <2>1. OnlySession(s)
    BY <1>2, CancelledRows DEF OnlySession
  <2> QED BY <1>2, <2>1, CancelledRows, TalkKeeps
<1>3. CASE Started(s) \/ RecordProcessed(s) \/ Finished(s) \/ Joined(s) \/ SendProcess(s) \/ SendFinish(s)
  <2>1. /\ UNCHANGED <<used, queue, runs, call, guest>> /\ client' \in [Sessions -> Clients]
        /\ \A t \in Sessions \ {s} : client'[t] = client[t]
    BY <1>0, <1>3 DEF Started, RecordProcessed, Finished, Joined, SendProcess, SendFinish, Clients
  <2>2. client'[s].phase # "none" /\ (client'[s].phase = "closed" => call[s].phase = "returned")
    <3>1. CASE Joined(s)
      BY <1>0, <3>1 DEF Joined, Clients
    <3>2. CASE ~ Joined(s)
      BY <1>0, <1>3, <3>2 DEF Started, RecordProcessed, Finished, SendProcess, SendFinish, Clients
    <3> QED BY <3>1, <3>2
  <2> QED BY <1>1, <2>1, <2>2
<1>4. CASE StartFails(s) \/ CommandFails(s) \/ CancelAndWait(s)
  <2>1. /\ UNCHANGED <<used, queue, runs, call>> /\ Cancelled(s)
        /\ client' = [client EXCEPT ![s].phase = "aborting", ![s].sender = FALSE, ![s].reply = "none"]
    BY <1>4 DEF StartFails, CommandFails, CancelAndWait, Abort
  <2>2. /\ client' \in [Sessions -> Clients] /\ \A t \in Sessions \ {s} : client'[t] = client[t]
        /\ client'[s].phase = "aborting"
    BY <1>0, <2>1 DEF Clients
  <2> QED BY <1>2, <2>1, <2>2
<1>5. CASE Dropped(s)
  <2>1. /\ UNCHANGED <<used, queue, runs, call>> /\ (guest' = guest \/ Cancelled(s))
        /\ client' = [client EXCEPT ![s].phase = "dropped", ![s].sender = FALSE, ![s].reply = "none"]
    BY <1>5 DEF Dropped
  <2>2. /\ client' \in [Sessions -> Clients] /\ \A t \in Sessions \ {s} : client'[t] = client[t]
        /\ client'[s].phase = "dropped"
    BY <1>0, <2>1 DEF Clients
  <2> QED BY <1>1, <1>2, <2>1, <2>2
<1>6. CASE Deadline(s)
  <2>1. UNCHANGED <<used, queue, runs, call, client>> /\ guest' = [guest EXCEPT ![s].overdue = TRUE]
    BY <1>6 DEF Deadline
  <2>2. guest' \in [Sessions -> GuestsOf] /\ OnlySession(s) /\ guest'[s].phase = guest[s].phase
    BY <1>0, <2>1 DEF OnlySession, GuestsOf
  <2> QED BY <1>0, <2>1, <2>2, TalkKeeps
<1>7. CASE Watchdog(s)
  <2>1. /\ UNCHANGED <<used, queue, runs, call>> /\ Cancelled(s)
        /\ client[s].phase \in {"open", "asked", "finishing", "joining"}
        /\ client' = [client EXCEPT ![s].watched = FALSE,
                                    ![s].command = IF client[s].sender THEN "cancel" ELSE @]
    BY <1>7 DEF Watchdog
  <2>2. /\ client' \in [Sessions -> Clients] /\ \A t \in Sessions \ {s} : client'[t] = client[t]
        /\ client'[s].phase = client[s].phase
    BY <1>0, <2>1 DEF Clients
  <2> QED BY <1>2, <2>1, <2>2
<1> QED BY <1>3, <1>4, <1>5, <1>6, <1>7 DEF ClientAnswer

\* A session starts: it has asked for memory and has none.
LEMMA StartSessionKeeps ==
  ASSUME ExecutorAssumption, ExecutorInvariant, NEW s \in Sessions, StartSession(s)
  PROVE  ExecutorInvariant'
<1>0. /\ call \in [Sessions -> Calls] /\ guest \in [Sessions -> GuestsOf] /\ client \in [Sessions -> Clients]
      /\ call[s] \in Calls /\ client[s] \in Clients /\ TaskOwned(call[s], guest[s], client[s])
  BY SessionOwns
<1>1. PICK need \in Nat : call' = [call EXCEPT ![s].phase = "admission", ![s].need = need]
  BY DEF StartSession, ExecutorAssumption
<1>2. /\ client' = [client EXCEPT ![s].phase = "starting", ![s].sender = TRUE]
      /\ UNCHANGED <<used, queue, runs, guest>> /\ call[s].phase = "none"
  BY <1>0 DEF StartSession, TaskOwned
<1>3. /\ call' \in [Sessions -> Calls] /\ client' \in [Sessions -> Clients] /\ OnlySession(s)
      /\ call'[s].phase = "admission" /\ call'[s].slot = call[s].slot /\ call'[s].sent = call[s].sent
      /\ guest'[s] = guest[s] /\ client'[s].phase = "starting"
  BY <1>0, <1>1, <1>2 DEF OnlySession, Calls, Clients
<1>4. TaskOwned(call'[s], guest'[s], client'[s])
  BY <1>0, <1>2, <1>3 DEF TaskOwned
<1>5. Held(call'[s], guest'[s]) = Held(call[s], guest[s])
  BY <1>0, <1>2, <1>3 DEF Held, Holds, TaskOwned
<1>6. call[s].phase \notin {"waiting", "draining", "returned"}
  BY <1>2
<1> QED BY <1>0, <1>2, <1>3, <1>4, <1>5, <1>6, SessionTalks

\* Every step.
LEMMA ExecutorStep ==
  ASSUME ExecutorAssumption, ExecutorInvariant, [ExecutorNext]_executorVars
  PROVE  ExecutorInvariant'
<1>1. CASE UNCHANGED executorVars
  BY <1>1 DEF executorVars, ExecutorInvariant, ExecutorTypes, RunsOwned, QueueSent, Holding
<1>2. CASE ExecutorNext
  <2>1. ASSUME NEW s \in Sessions, \/ CallStep(s) \/ GuestStep(s) \/ StartSession(s)
                                   \/ HostPoll(s) \/ PollReturns(s)
        PROVE  ExecutorInvariant'
    BY <2>1, CallStepKeeps, GuestStepKeeps, StartSessionKeeps, PollKeeps
  <2>2. ASSUME NEW s \in Sessions, \/ ClientAnswer(s) \/ SendProcess(s) \/ SendFinish(s) \/ CancelAndWait(s)
                                   \/ Dropped(s) \/ Deadline(s) \/ Watchdog(s)
        PROVE  ExecutorInvariant'
    BY <2>2, ClientStepKeeps
  <2>3. ASSUME NEW w \in Workers, WorkerStep(w) PROVE ExecutorInvariant'
    BY <2>3, TakeJobKeeps, PermitDroppedKeeps, ResultSentKeeps DEF WorkerStep
  <2> QED BY <1>2, <2>1, <2>2, <2>3 DEF ExecutorNext
<1> QED BY <1>1, <1>2

\* What the invariant is for.
LEMMA ExecutorInvariantImplies ==
  ASSUME ExecutorAssumption, ExecutorInvariant
  PROVE  MemoryAccounted /\ NoGuestOutlivesSession
<1>1. \A s \in Sessions : call[s].phase = "returned" =>
        ~ Holding(s) /\ \A w \in Workers : s \notin runs[w]
  BY DEF ExecutorInvariant, TaskOwned, Holding, RunsOwned
<1>2. \A s \in Sessions : client[s].phase = "closed" => call[s].phase = "returned"
  BY DEF ExecutorInvariant, TaskOwned
<1> QED BY <1>1, <1>2 DEF ExecutorInvariant, MemoryAccounted, NoGuestOutlivesSession

\* Whoever wins the race for a task's permit, the admitted memory is that of the
\* tasks in their slots and of the guests that run, within the budget
\* (executor.rs, TaskPermit).
THEOREM MemoryHeld == ASSUME ExecutorAssumption PROVE ExecutorSpec => []MemoryAccounted
<1>1. ExecutorInit => ExecutorInvariant
  BY ExecutorInitially
<1>2. ExecutorInvariant /\ [ExecutorNext]_executorVars => ExecutorInvariant'
  BY ExecutorStep
<1>3. ExecutorInvariant => MemoryAccounted
  BY ExecutorInvariantImplies
<1> QED BY <1>1, <1>2, <1>3, PTL DEF ExecutorSpec

\* A session that has closed leaves no guest, no task and no memory
\* (executor.rs, abort_and_wait and finish).
THEOREM ClosedSessionsGone == ASSUME ExecutorAssumption PROVE ExecutorSpec => []NoGuestOutlivesSession
<1>1. ExecutorInit => ExecutorInvariant
  BY ExecutorInitially
<1>2. ExecutorInvariant /\ [ExecutorNext]_executorVars => ExecutorInvariant'
  BY ExecutorStep
<1>3. ExecutorInvariant => NoGuestOutlivesSession
  BY ExecutorInvariantImplies
<1> QED BY <1>1, <1>2, <1>3, PTL DEF ExecutorSpec
=============================================================================
