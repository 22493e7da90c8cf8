------------------------------ MODULE SetLemmas ------------------------------
(* Facts about finite sets that several components need: how the size of a  *)
(* set of slots changes when one slot moves in or out of it, which the byte *)
(* accounting of both caches rests on, that a search finds a first hit, and *)
(* how a sum over a set changes, for the accounts of the budget tree.       *)
EXTENDS Integers, FiniteSets, Functions, FiniteSetTheorems,
        WellFoundedInduction, TLAPS

(* 1 if s is in S, else 0.                                                  *)
Ind(s, S) == IF s \in S THEN 1 ELSE 0

(* Two subsets of a finite set that agree outside s differ in size by what  *)
(* s adds.                                                                  *)
LEMMA CardinalityChange ==
    ASSUME NEW U, IsFiniteSet(U),
           NEW S \in SUBSET U, NEW T \in SUBSET U, NEW s \in U,
           \A r \in U : r # s => (r \in S <=> r \in T)
    PROVE  Cardinality(S) - Ind(s, S) = Cardinality(T) - Ind(s, T)
<1> DEFINE R == S \ {s}
<1>1. R \in SUBSET U /\ R = T \ {s} /\ s \notin R
  OBVIOUS
<1>2. IsFiniteSet(R) /\ Cardinality(R) \in Nat
  BY <1>1, FS_Subset, FS_CardinalityType
<1>3. Cardinality(R \cup {s}) = Cardinality(R) + 1
  BY <1>1, <1>2, FS_AddElement
<1>4. Cardinality(S) - Ind(s, S) = Cardinality(R)
  <2>1. CASE s \in S
    <3>1. S = R \cup {s} BY <2>1
    <3>2. Cardinality(S) = Cardinality(R) + 1 BY <3>1, <1>3
    <3> HIDE DEF R
    <3> QED BY <3>2, <1>2, <2>1 DEF Ind
  <2>2. CASE s \notin S
    <3>1. S = R BY <2>2
    <3> HIDE DEF R
    <3> QED BY <3>1, <1>2, <2>2 DEF Ind
  <2> QED BY <2>1, <2>2
<1>5. Cardinality(T) - Ind(s, T) = Cardinality(R)
  <2>1. CASE s \in T
    <3>1. T = R \cup {s} BY <2>1, <1>1
    <3>2. Cardinality(T) = Cardinality(R) + 1 BY <3>1, <1>3
    <3> HIDE DEF R
    <3> QED BY <3>2, <1>2, <2>1 DEF Ind
  <2>2. CASE s \notin T
    <3>1. T = R BY <2>2, <1>1
    <3> HIDE DEF R
    <3> QED BY <3>1, <1>2, <2>2 DEF Ind
  <2> QED BY <2>1, <2>2
<1> QED BY <1>4, <1>5

(* A search in increasing order finds a first place.                        *)
LEMMA LeastElement ==
    ASSUME NEW S, S \subseteq Nat, S # {}
    PROVE  \E m \in S : \A n \in S : m <= n
<1>1. \E m \in S : \A n \in S : ~(<<n, m>> \in OpToRel(<, Nat))
  BY NatLessThanWellFounded, WFMin
<1>2. \A n, m \in Nat : n < m => <<n, m>> \in OpToRel(<, Nat)
  BY DEF OpToRel
<1>3. \A n, m \in Nat : ~(n < m) => m <= n
  OBVIOUS
<1> QED BY <1>1, <1>2, <1>3

-----------------------------------------------------------------------------
(* Sums over finite sets. SumFunctionOnSet is a recursive function on the   *)
(* subsets of its set, which takes the elements in an order of its own; the *)
(* lemmas say that there is such a function and that any order will do.     *)

AnyOf(T) == CHOOSE x \in T : TRUE

(* g adds up f over every set of D.                                         *)
Adds(g, f, D) ==
    g = [T \in D |-> IF T = {} THEN 0 ELSE f[AnyOf(T)] + g[T \ {AnyOf(T)}]]

LEMMA AddsExists ==
    ASSUME NEW f, NEW S, IsFiniteSet(S)
    PROVE  \E g : Adds(g, f, SUBSET S)
<1> DEFINE D(n) == {T \in SUBSET S : Cardinality(T) <= n}
           P(n) == \E g : Adds(g, f, D(n))
           Bad == {n \in Nat : ~P(n)}
<1>1. \A T \in SUBSET S : IsFiniteSet(T) /\ Cardinality(T) \in Nat
  BY FS_Subset, FS_CardinalityType
<1>2. ASSUME NEW T \in SUBSET S, T # {}
      PROVE  /\ AnyOf(T) \in T /\ T \ {AnyOf(T)} \in SUBSET S
             /\ Cardinality(T \ {AnyOf(T)}) = Cardinality(T) - 1
  <2>1. AnyOf(T) \in T BY <1>2 DEF AnyOf
  <2> QED BY <2>1, <1>1, FS_RemoveElement
<1>3. P(0)
  <2>1. D(0) = {{}}
    <3>1. \A T \in SUBSET S : Cardinality(T) <= 0 => T = {}
      BY <1>1, FS_EmptySet
    <3>2. Cardinality({}) = 0 BY FS_EmptySet
    <3> QED BY <3>1, <3>2
  <2>2. Adds([T \in D(0) |-> 0], f, D(0)) BY <2>1 DEF Adds
  <2> QED BY <2>2
<1>4. ASSUME NEW n \in Nat, P(n) PROVE P(n + 1)
  <2>1. PICK g : Adds(g, f, D(n)) BY <1>4
  <2> DEFINE h == [T \in D(n + 1) |-> IF T = {} THEN 0 ELSE f[AnyOf(T)] + g[T \ {AnyOf(T)}]]
  <2>2. ASSUME NEW T \in D(n + 1), T # {}
        PROVE  h[T \ {AnyOf(T)}] = g[T \ {AnyOf(T)}]
    <3> DEFINE U == T \ {AnyOf(T)}
    <3>1. U \in SUBSET S /\ Cardinality(U) <= n BY <2>2, <1>1, <1>2
    <3>2. U \in D(n) /\ U \in D(n + 1) BY <3>1, <1>1
    <3> HIDE DEF U
    <3>3. g[U] = IF U = {} THEN 0 ELSE f[AnyOf(U)] + g[U \ {AnyOf(U)}]
      BY <3>2, <2>1 DEF Adds
    <3>4. h[U] = IF U = {} THEN 0 ELSE f[AnyOf(U)] + g[U \ {AnyOf(U)}]
      BY <3>2
    <3> QED BY <3>3, <3>4 DEF U
  <2>3. h = [T \in D(n + 1) |-> IF T = {} THEN 0 ELSE f[AnyOf(T)] + h[T \ {AnyOf(T)}]]
    <3> DEFINE k == [T \in D(n + 1) |-> IF T = {} THEN 0 ELSE f[AnyOf(T)] + h[T \ {AnyOf(T)}]]
    <3>1. ASSUME NEW T \in D(n + 1) PROVE h[T] = k[T]
      <4>1. h[T] = IF T = {} THEN 0 ELSE f[AnyOf(T)] + g[T \ {AnyOf(T)}] OBVIOUS
      <4>2. k[T] = IF T = {} THEN 0 ELSE f[AnyOf(T)] + h[T \ {AnyOf(T)}] OBVIOUS
      <4> HIDE DEF h, k
      <4> QED BY <4>1, <4>2, <2>2
    <3> HIDE DEF D
    <3>2. DOMAIN h = D(n + 1) /\ DOMAIN k = D(n + 1) OBVIOUS
    <3>3. h = [T \in D(n + 1) |-> h[T]] /\ k = [T \in D(n + 1) |-> k[T]] OBVIOUS
    <3> HIDE DEF h, k
    <3> QED BY <3>1, <3>2, <3>3 DEF k
  <2> QED BY <2>3 DEF Adds
<1>5. \A n \in Nat : P(n)
  <2> SUFFICES ASSUME Bad # {} PROVE FALSE OBVIOUS
  <2> HIDE DEF P
  <2>1. PICK m \in Bad : \A n \in Bad : m <= n BY LeastElement
  <2>2. m \in Nat /\ m # 0 BY <1>3
  <2>3. m - 1 \in Nat /\ m - 1 + 1 = m /\ ~(m <= m - 1) BY <2>2
  <2>4. P(m - 1) BY <2>1, <2>3
  <2>5. P(m) BY <2>3, <2>4, <1>4
  <2> QED BY <2>1, <2>5
<1>6. D(Cardinality(S)) = SUBSET S
  BY <1>1, FS_Subset
<1>7. Cardinality(S) \in Nat BY FS_CardinalityType
<1> HIDE DEF D
<1> QED BY <1>5, <1>6, <1>7

LEMMA SumIsAdds ==
    ASSUME NEW f, NEW S, IsFiniteSet(S)
    PROVE  \E g : Adds(g, f, SUBSET S) /\ SumFunctionOnSet(f, S) = g[S]
<1> DEFINE g == CHOOSE g : Adds(g, f, SUBSET S)
<1>1. Adds(g, f, SUBSET S) BY AddsExists
<1>2. SumFunctionOnSet(f, S) = g[S]
  BY DEF Adds, AnyOf, SumFunctionOnSet, FoldFunctionOnSet, MapThenFoldSet
<1> QED BY <1>1, <1>2

(* Functions that add up f and f2, equal on T, agree on T.                  *)
LEMMA AddsAgree ==
    ASSUME NEW f, NEW f2, NEW D, NEW E, NEW g, NEW h,
           Adds(g, f, SUBSET D), Adds(h, f2, SUBSET E),
           NEW S, IsFiniteSet(S), S \subseteq D, S \subseteq E, \A x \in S : f[x] = f2[x]
    PROVE  g[S] = h[S]
<1> DEFINE P(n) == \A T \in SUBSET S : Cardinality(T) = n => g[T] = h[T]
           Bad == {n \in Nat : ~P(n)}
<1>1. \A T \in SUBSET S : IsFiniteSet(T) /\ Cardinality(T) \in Nat
  BY FS_Subset, FS_CardinalityType
<1>2. SUFFICES \A n \in Nat : P(n)
  BY FS_CardinalityType
<1>3. SUFFICES ASSUME Bad # {} PROVE FALSE
  OBVIOUS
<1>4. PICK m \in Bad : \A n \in Bad : m <= n
  <2>1. Bad \subseteq Nat OBVIOUS
  <2> HIDE DEF Bad
  <2> QED BY <1>3, <2>1, LeastElement
<1>5. m \in Nat /\ ~P(m) OBVIOUS
<1>6. PICK T \in SUBSET S : Cardinality(T) = m /\ g[T] # h[T]
  BY <1>5
<1>7. /\ g[T] = IF T = {} THEN 0 ELSE f[AnyOf(T)] + g[T \ {AnyOf(T)}]
      /\ h[T] = IF T = {} THEN 0 ELSE f2[AnyOf(T)] + h[T \ {AnyOf(T)}]
  <2>1. T \in SUBSET D /\ T \in SUBSET E OBVIOUS
  <2> QED BY <2>1 DEF Adds
<1>8. T # {} BY <1>6, <1>7
<1>9. AnyOf(T) \in T BY <1>8 DEF AnyOf
<1>10. T \ {AnyOf(T)} \in SUBSET S /\ Cardinality(T \ {AnyOf(T)}) = m - 1
  BY <1>1, <1>6, <1>9, FS_RemoveElement
<1>11. m - 1 \in Nat /\ ~(m <= m - 1) BY <1>1, <1>5, <1>10
<1>12. P(m - 1)
  <2> HIDE DEF P
  <2> QED BY <1>4, <1>11
<1>13. g[T \ {AnyOf(T)}] = h[T \ {AnyOf(T)}] BY <1>10, <1>12
<1> QED BY <1>6, <1>7, <1>8, <1>9, <1>13

(* Equal functions have equal sums.                                         *)
LEMMA SumCong ==
    ASSUME NEW f, NEW f2, NEW S, IsFiniteSet(S), \A x \in S : f[x] = f2[x]
    PROVE  SumFunctionOnSet(f, S) = SumFunctionOnSet(f2, S)
<1>1. PICK g : Adds(g, f, SUBSET S) /\ SumFunctionOnSet(f, S) = g[S] BY SumIsAdds
<1>2. PICK h : Adds(h, f2, SUBSET S) /\ SumFunctionOnSet(f2, S) = h[S] BY SumIsAdds
<1>3. g[S] = h[S] BY <1>1, <1>2, AddsAgree
<1> QED BY <1>1, <1>2, <1>3

LEMMA SumEmpty ==
    ASSUME NEW f PROVE SumFunctionOnSet(f, {}) = 0
<1>1. PICK g : Adds(g, f, SUBSET {}) /\ SumFunctionOnSet(f, {}) = g[{}]
  BY SumIsAdds, FS_EmptySet
<1>2. {} \in SUBSET {} OBVIOUS
<1> QED BY <1>1, <1>2 DEF Adds

LEMMA SumAnyOf ==
    ASSUME NEW f, NEW S, IsFiniteSet(S), S # {}
    PROVE  /\ AnyOf(S) \in S
           /\ SumFunctionOnSet(f, S) = f[AnyOf(S)] + SumFunctionOnSet(f, S \ {AnyOf(S)})
<1> DEFINE R == S \ {AnyOf(S)}
<1>1. AnyOf(S) \in S BY DEF AnyOf
<1>2. IsFiniteSet(R) BY <1>1, FS_RemoveElement
<1>3. PICK g : Adds(g, f, SUBSET S) /\ SumFunctionOnSet(f, S) = g[S] BY SumIsAdds
<1>4. PICK h : Adds(h, f, SUBSET R) /\ SumFunctionOnSet(f, R) = h[R] BY <1>2, SumIsAdds
<1>5. R \subseteq S OBVIOUS
<1>6. g[S] = f[AnyOf(S)] + g[R]
  <2>1. S \in SUBSET S OBVIOUS
  <2> QED BY <2>1, <1>3 DEF Adds
<1> HIDE DEF R
<1>7. g[R] = h[R] BY <1>2, <1>3, <1>4, <1>5, AddsAgree
<1> QED BY <1>1, <1>3, <1>4, <1>6, <1>7 DEF R

LEMMA SumType ==
    ASSUME NEW f, NEW S, IsFiniteSet(S), \A x \in S : f[x] \in Nat
    PROVE  SumFunctionOnSet(f, S) \in Nat
<1> DEFINE P(n) == \A T \in SUBSET S : Cardinality(T) = n => SumFunctionOnSet(f, T) \in Nat
           Bad == {n \in Nat : ~P(n)}
<1>1. \A T \in SUBSET S : IsFiniteSet(T) /\ Cardinality(T) \in Nat
  BY FS_Subset, FS_CardinalityType
<1>2. SUFFICES \A n \in Nat : P(n)
  BY FS_CardinalityType
<1>3. SUFFICES ASSUME Bad # {} PROVE FALSE
  OBVIOUS
<1>4. PICK m \in Bad : \A n \in Bad : m <= n
  <2>1. Bad \subseteq Nat OBVIOUS
  <2> HIDE DEF Bad
  <2> QED BY <1>3, <2>1, LeastElement
<1>5. m \in Nat /\ ~P(m) OBVIOUS
<1>6. PICK T \in SUBSET S : Cardinality(T) = m /\ SumFunctionOnSet(f, T) \notin Nat
  BY <1>5
<1>7. T # {} BY <1>6, SumEmpty
<1>8. /\ AnyOf(T) \in T
      /\ SumFunctionOnSet(f, T) = f[AnyOf(T)] + SumFunctionOnSet(f, T \ {AnyOf(T)})
  BY <1>1, <1>7, SumAnyOf
<1>9. T \ {AnyOf(T)} \in SUBSET S /\ Cardinality(T \ {AnyOf(T)}) = m - 1
  BY <1>1, <1>6, <1>8, FS_RemoveElement
<1>10. m - 1 \in Nat /\ ~(m <= m - 1) BY <1>1, <1>5, <1>9
<1>11. P(m - 1)
  <2> HIDE DEF P
  <2> QED BY <1>4, <1>10
<1>12. SumFunctionOnSet(f, T \ {AnyOf(T)}) \in Nat BY <1>9, <1>11
<1>13. f[AnyOf(T)] \in Nat BY <1>8
<1> QED BY <1>6, <1>8, <1>12, <1>13

(* Any element may be taken first.                                          *)
SumsApart(f, S) ==
    \A x \in S : SumFunctionOnSet(f, S) = f[x] + SumFunctionOnSet(f, S \ {x})

LEMMA SumSplit ==
    ASSUME NEW f, NEW S, IsFiniteSet(S), \A x \in S : f[x] \in Nat
    PROVE  SumsApart(f, S)
<1> DEFINE P(n) == \A T \in SUBSET S : Cardinality(T) = n => SumsApart(f, T)
           Bad == {n \in Nat : ~P(n)}
<1>1. \A T \in SUBSET S : IsFiniteSet(T) /\ Cardinality(T) \in Nat
  BY FS_Subset, FS_CardinalityType
<1>2. SUFFICES \A n \in Nat : P(n)
  BY FS_CardinalityType
<1>3. SUFFICES ASSUME Bad # {} PROVE FALSE
  OBVIOUS
<1>4. PICK m \in Bad : \A n \in Bad : m <= n
  <2>1. Bad \subseteq Nat OBVIOUS
  <2> HIDE DEF Bad
  <2> QED BY <1>3, <2>1, LeastElement
<1>5. m \in Nat /\ ~P(m) OBVIOUS
<1>6. PICK T \in SUBSET S : Cardinality(T) = m /\ ~SumsApart(f, T)
  BY <1>5
<1>7. T # {}
  <2> SUFFICES ASSUME T = {} PROVE FALSE OBVIOUS
  <2> QED BY <1>6, SumEmpty DEF SumsApart
<1>8. ASSUME NEW U \in SUBSET S, Cardinality(U) = m - 1 PROVE SumsApart(f, U)
  <2>1. m - 1 \in Nat /\ ~(m <= m - 1) BY <1>1, <1>5, <1>8
  <2>2. P(m - 1)
    <3> HIDE DEF P
    <3> QED BY <1>4, <2>1
  <2> QED BY <2>2, <1>8
<1>9. ASSUME NEW x \in T PROVE SumsApart(f, T \ {x}) /\ T \ {x} \in SUBSET S /\ f[x] \in Nat
                               /\ IsFiniteSet(T \ {x})
  <2>1. T \ {x} \in SUBSET S /\ Cardinality(T \ {x}) = m - 1
    BY <1>1, <1>6, FS_RemoveElement
  <2> QED BY <2>1, <1>1, <1>8
<1> DEFINE c == AnyOf(T)
<1>10. c \in T /\ SumFunctionOnSet(f, T) = f[c] + SumFunctionOnSet(f, T \ {c})
  BY <1>1, <1>7, SumAnyOf
<1> HIDE DEF c
<1>11. SumFunctionOnSet(f, T \ {c}) \in Nat /\ f[c] \in Nat
  BY <1>9, <1>10, SumType
<1>13. ASSUME NEW x \in T PROVE SumFunctionOnSet(f, T) = f[x] + SumFunctionOnSet(f, T \ {x})
  <2>1. CASE x = c BY <2>1, <1>10
  <2>2. CASE x # c
    <3> DEFINE R == (T \ {c}) \ {x}
    <3>1. SumFunctionOnSet(f, T \ {c}) = f[x] + SumFunctionOnSet(f, R)
      <4>1. x \in T \ {c} BY <2>2
      <4> QED BY <4>1, <1>9, <1>10 DEF SumsApart
    <3>2. SumFunctionOnSet(f, T \ {x}) = f[c] + SumFunctionOnSet(f, R)
      <4>1. c \in T \ {x} /\ R = (T \ {x}) \ {c} BY <2>2, <1>10
      <4> HIDE DEF R
      <4> QED BY <4>1, <1>9 DEF SumsApart
    <3>3. SumFunctionOnSet(f, R) \in Nat
      <4>1. R \in SUBSET S /\ IsFiniteSet(R) BY <1>9, <1>10, FS_RemoveElement
      <4> QED BY <4>1, SumType
    <3>4. f[x] \in Nat /\ f[c] \in Nat BY <1>9, <1>10
    <3> HIDE DEF R
    <3> QED BY <3>1, <3>2, <3>3, <3>4, <1>10
  <2> QED BY <2>1, <2>2
<1> QED BY <1>6, <1>13 DEF SumsApart

LEMMA SumTake ==
    ASSUME NEW f, NEW S, IsFiniteSet(S), \A y \in S : f[y] \in Nat, NEW x \in S
    PROVE  /\ SumFunctionOnSet(f, S) = f[x] + SumFunctionOnSet(f, S \ {x})
           /\ SumFunctionOnSet(f, S \ {x}) \in Nat /\ f[x] \in Nat
<1>1. IsFiniteSet(S \ {x}) BY FS_RemoveElement
<1> QED BY <1>1, SumSplit, SumType DEF SumsApart

(* A sum changes by what one element's value does.                          *)
LEMMA SumChange ==
    ASSUME NEW f, NEW f2, NEW S, IsFiniteSet(S), NEW x,
           \A y \in S : f[y] \in Nat /\ f2[y] \in Nat,
           \A y \in S : y # x => f[y] = f2[y]
    PROVE  IF x \in S
           THEN SumFunctionOnSet(f2, S) + f[x] = SumFunctionOnSet(f, S) + f2[x]
           ELSE SumFunctionOnSet(f2, S) = SumFunctionOnSet(f, S)
<1>1. CASE x \in S
  <2> DEFINE R == S \ {x}
  <2>1. IsFiniteSet(R) BY FS_RemoveElement, <1>1
  <2>2. SumFunctionOnSet(f, R) = SumFunctionOnSet(f2, R) BY <2>1, SumCong
  <2>3. SumFunctionOnSet(f, S) = f[x] + SumFunctionOnSet(f, R)
        /\ SumFunctionOnSet(f, R) \in Nat /\ f[x] \in Nat
    BY <1>1, SumTake
  <2>4. SumFunctionOnSet(f2, S) = f2[x] + SumFunctionOnSet(f2, R) /\ f2[x] \in Nat
    BY <1>1, SumTake
  <2> HIDE DEF R
  <2> QED BY <1>1, <2>2, <2>3, <2>4
<1>2. CASE x \notin S
  <2>1. \A y \in S : f[y] = f2[y] BY <1>2
  <2> QED BY <1>2, <2>1, SumCong
<1> QED BY <1>1, <1>2

(* One more element in the set.                                             *)
LEMMA SumAdd ==
    ASSUME NEW f, NEW S, IsFiniteSet(S), NEW x, x \notin S,
           \A y \in S \cup {x} : f[y] \in Nat
    PROVE  SumFunctionOnSet(f, S \cup {x}) = f[x] + SumFunctionOnSet(f, S)
<1>1. IsFiniteSet(S \cup {x}) BY FS_AddElement
<1>2. (S \cup {x}) \ {x} = S OBVIOUS
<1>3. SumFunctionOnSet(f, S \cup {x}) = f[x] + SumFunctionOnSet(f, (S \cup {x}) \ {x})
  BY <1>1, SumTake
<1> QED BY <1>2, <1>3

LEMMA SumZero ==
    ASSUME NEW f, NEW S, IsFiniteSet(S), \A x \in S : f[x] = 0
    PROVE  SumFunctionOnSet(f, S) = 0
<1> DEFINE P(n) == \A T \in SUBSET S : Cardinality(T) = n => SumFunctionOnSet(f, T) = 0
           Bad == {n \in Nat : ~P(n)}
<1>1. \A T \in SUBSET S : IsFiniteSet(T) /\ Cardinality(T) \in Nat
  BY FS_Subset, FS_CardinalityType
<1>2. SUFFICES \A n \in Nat : P(n)
  BY FS_CardinalityType
<1>3. SUFFICES ASSUME Bad # {} PROVE FALSE
  OBVIOUS
<1>4. PICK m \in Bad : \A n \in Bad : m <= n
  <2>1. Bad \subseteq Nat OBVIOUS
  <2> HIDE DEF Bad
  <2> QED BY <1>3, <2>1, LeastElement
<1>5. m \in Nat /\ ~P(m) OBVIOUS
<1>6. PICK T \in SUBSET S : Cardinality(T) = m /\ SumFunctionOnSet(f, T) # 0
  BY <1>5
<1>7. T # {} BY <1>6, SumEmpty
<1>8. /\ AnyOf(T) \in T
      /\ SumFunctionOnSet(f, T) = f[AnyOf(T)] + SumFunctionOnSet(f, T \ {AnyOf(T)})
  BY <1>1, <1>7, SumAnyOf
<1>9. T \ {AnyOf(T)} \in SUBSET S /\ Cardinality(T \ {AnyOf(T)}) = m - 1
  BY <1>1, <1>6, <1>8, FS_RemoveElement
<1>10. m - 1 \in Nat /\ ~(m <= m - 1) BY <1>1, <1>5, <1>9
<1>11. P(m - 1)
  <2> HIDE DEF P
  <2> QED BY <1>4, <1>10
<1>12. SumFunctionOnSet(f, T \ {AnyOf(T)}) = 0 BY <1>9, <1>11
<1>13. f[AnyOf(T)] = 0 BY <1>8
<1> QED BY <1>6, <1>8, <1>12, <1>13

=============================================================================
