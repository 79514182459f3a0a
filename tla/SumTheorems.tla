---------------------------- MODULE SumTheorems -----------------------------
(***************************************************************************)
(* The sum of a function over a finite set (SumFunctionOnSet of the        *)
(* community modules), for the proofs about what the components add up.    *)
(*                                                                         *)
(* The fold that defines it is a recursive function on subsets.  That it   *)
(* exists, and that the element it takes first does not matter, is shown   *)
(* by taking a smallest subset for which it would fail: the library's      *)
(* induction theorems say it with an operator for the property, which no   *)
(* prover here can instantiate; WFMin says it with a set.                  *)
(***************************************************************************)
EXTENDS FiniteSetsExt, FiniteSetTheorems, SequenceTheorems, TLAPS

(* A set of finite subsets that is not empty has a smallest element.        *)
LEMMA SmallestSubset ==
  ASSUME NEW S, IsFiniteSet(S), NEW B \in SUBSET (SUBSET S), B # {}
  PROVE  \E t \in B : \A u \in B : u \subseteq t => u = t
<1>1. IsWellFoundedOn(StrictSubsetOrdering(S), FiniteSubsetsOf(S))
  BY FS_StrictSubsetOrderingWellFounded
<1>2. B \subseteq FiniteSubsetsOf(S)
  BY FS_FiniteSubsetsOfFinite
<1>3. PICK t \in B : \A u \in B : ~ (<<u, t>> \in StrictSubsetOrdering(S))
  BY <1>1, <1>2, WFMin, Zenon
<1> QED
  BY <1>3 DEF StrictSubsetOrdering

(* G gives the sums of f over the subsets of S.                             *)
SumsOf(G, f, S) ==
  /\ G \in [SUBSET S -> Int]
  /\ G[{}] = 0
  /\ \A t \in SUBSET S : \A x \in t : G[t] = f[x] + G[t \ {x}]

LEMMA SumsExist ==
  ASSUME NEW S, IsFiniteSet(S), NEW f, \A x \in S : f[x] \in Int
  PROVE  \E G : SumsOf(G, f, S)
<1> DEFINE B == { s \in SUBSET S : ~ \E G : SumsOf(G, f, s) }
<1> SUFFICES ASSUME B # {} PROVE FALSE
  OBVIOUS
<1>1. PICK s \in B : \A u \in B : u \subseteq s => u = s
  <2>1. B \in SUBSET (SUBSET S)
    OBVIOUS
  <2> HIDE DEF B
  <2> QED
    BY <2>1, SmallestSubset
<1>2. s # {}
  <2> SUFFICES ASSUME s = {} PROVE FALSE
    OBVIOUS
  <2>1. SumsOf([t \in SUBSET {} |-> 0], f, {})
    BY DEF SumsOf
  <2> QED
    BY <1>1, <2>1
<1>3. PICK x \in s : TRUE
  BY <1>2
<1>4. PICK H : SumsOf(H, f, s \ {x})
  <2>1. s \ {x} \notin B /\ s \ {x} \in SUBSET S
    BY <1>1, <1>3
  <2> QED
    BY <2>1
<1> DEFINE G == [t \in SUBSET s |-> IF x \in t THEN f[x] + H[t \ {x}] ELSE H[t]]
<1>5. \A t \in SUBSET s : t \ {x} \in SUBSET (s \ {x})
  OBVIOUS
<1>6. \A t \in SUBSET (s \ {x}) : H[t] \in Int
  BY <1>4 DEF SumsOf
<1>7. f[x] \in Int
  BY <1>1, <1>3
<1>8. G \in [SUBSET s -> Int] 
  <2>1. ASSUME NEW t \in SUBSET s PROVE G[t] \in Int
    <3>1. CASE x \in t
      BY <3>1, <1>5, <1>6, <1>7
    <3>2. CASE x \notin t
      <4>1. t \in SUBSET (s \ {x})
        BY <3>2
      <4> QED
        BY <3>2, <4>1, <1>6
    <3> QED
      BY <3>1, <3>2
  <2> QED
    BY <2>1
<1>9. G[{}] = 0
  BY <1>4 DEF SumsOf
<1>10. ASSUME NEW t \in SUBSET s, NEW y \in t PROVE G[t] = f[y] + G[t \ {y}]
  <2>0. f[y] \in Int /\ t \ {y} \in SUBSET s
    BY <1>1
  <2>1. CASE y = x
    <3>1. t \ {x} \in SUBSET s /\ x \notin t \ {x}
      OBVIOUS
    <3> QED
      BY <2>1, <3>1
  <2>2. CASE y # x /\ x \in t
    <3>1. /\ t \ {x} \in SUBSET (s \ {x}) /\ y \in t \ {x}
          /\ (t \ {x}) \ {y} = (t \ {y}) \ {x}
          /\ x \in t \ {y} /\ t \ {y} \in SUBSET s
          /\ (t \ {y}) \ {x} \in SUBSET (s \ {x})
      BY <2>2
    <3>2. H[t \ {x}] = f[y] + H[(t \ {y}) \ {x}]
      <4>1. H[t \ {x}] = f[y] + H[(t \ {x}) \ {y}]
        BY <3>1, <1>4 DEF SumsOf
      <4> QED
        BY <3>1, <4>1
    <3>3. G[t] = f[x] + H[t \ {x}]
      BY <2>2
    <3>4. G[t \ {y}] = f[x] + H[(t \ {y}) \ {x}]
      BY <3>1
    <3>5. H[(t \ {y}) \ {x}] \in Int
      BY <3>1, <1>6
    <3> HIDE DEF G
    <3> QED
      BY <3>2, <3>3, <3>4, <3>5, <2>0, <1>7
  <2>3. CASE x \notin t
    <3>1. t \in SUBSET (s \ {x}) /\ x \notin t \ {y} /\ t \ {y} \in SUBSET s
      BY <2>3
    <3>2. H[t] = f[y] + H[t \ {y}]
      BY <3>1, <1>4 DEF SumsOf
    <3> QED
      BY <3>1, <3>2, <2>3
  <2> QED
    BY <2>1, <2>2, <2>3
<1>11. SumsOf(G, f, s)
  <2> HIDE DEF G
  <2> QED
    BY <1>8, <1>9, <1>10 DEF SumsOf
<1> QED
  BY <1>1, <1>11

(* What the fold computes: the sums.                                        *)
LEMMA FoldIsSum ==
  ASSUME NEW S, IsFiniteSet(S), NEW f, NEW G, SumsOf(G, f, S)
  PROVE  SumFunctionOnSet(f, S) = G[S]
<1> DEFINE choose(s) == CHOOSE x \in s : TRUE
           Fold(h) == [s \in SUBSET S |->
                         IF s = {} THEN 0
                         ELSE f[choose(s)] + h[s \ {choose(s)}]]
           h0 == CHOOSE h : h = Fold(h)
<1>1. SumFunctionOnSet(f, S) = h0[S]
  BY DEF SumFunctionOnSet, FoldFunctionOnSet, MapThenFoldSet
<1>2. G = Fold(G)
  <2>1. ASSUME NEW s \in SUBSET S
        PROVE  G[s] = IF s = {} THEN 0 ELSE f[choose(s)] + G[s \ {choose(s)}]
    <3>1. s # {} => choose(s) \in s
      OBVIOUS
    <3> HIDE DEF choose
    <3> QED
      BY <3>1 DEF SumsOf
  <2> HIDE DEF choose
  <2> QED
    BY <2>1 DEF SumsOf
<1>3. h0 = Fold(h0)
  <2> HIDE DEF Fold
  <2> QED
    BY <1>2
<1> HIDE DEF h0
<1> DEFINE B == { s \in SUBSET S : h0[s] # G[s] }
<1>4. B = {}
  <2> SUFFICES ASSUME B # {} PROVE FALSE
    OBVIOUS
  <2>1. PICK s \in B : \A u \in B : u \subseteq s => u = s
    <3>1. B \in SUBSET (SUBSET S)
      OBVIOUS
    <3> HIDE DEF B
    <3> QED
      BY <3>1, SmallestSubset
  <2>2. s # {} => choose(s) \in s
    OBVIOUS
  <2> HIDE DEF choose
  <2>3. /\ h0[s] = IF s = {} THEN 0 ELSE f[choose(s)] + h0[s \ {choose(s)}]
        /\ G[s] = IF s = {} THEN 0 ELSE f[choose(s)] + G[s \ {choose(s)}]
    BY <1>2, <1>3
  <2>4. s # {} => h0[s \ {choose(s)}] = G[s \ {choose(s)}]
    BY <2>1, <2>2
  <2> QED
    BY <2>1, <2>3, <2>4
<1> QED
  BY <1>1, <1>4

-----------------------------------------------------------------------------
(* The facts about sums that the components need.                           *)

LEMMA SumInSubset ==
  ASSUME NEW S, IsFiniteSet(S), NEW f, NEW G, SumsOf(G, f, S), NEW T \in SUBSET S
  PROVE  SumFunctionOnSet(f, T) = G[T]
<1> DEFINE H == [t \in SUBSET T |-> G[t]]
<1>1. SumsOf(H, f, T)
  <2>1. H \in [SUBSET T -> Int] /\ H[{}] = 0
    BY DEF SumsOf
  <2>2. ASSUME NEW t \in SUBSET T, NEW x \in t PROVE H[t] = f[x] + H[t \ {x}]
    BY DEF SumsOf
  <2> HIDE DEF H
  <2> QED
    BY <2>1, <2>2 DEF SumsOf
<1>2. IsFiniteSet(T)
  BY FS_Subset
<1> HIDE DEF H
<1>3. SumFunctionOnSet(f, T) = H[T]
  BY <1>1, <1>2, FoldIsSum
<1> QED
  BY <1>3 DEF H

LEMMA SumEmpty == \A f : SumFunctionOnSet(f, {}) = 0
<1> SUFFICES ASSUME NEW f PROVE SumFunctionOnSet(f, {}) = 0
  OBVIOUS
<1>1. PICK G : SumsOf(G, f, {})
  BY FS_EmptySet, SumsExist
<1> QED
  BY <1>1, FS_EmptySet, FoldIsSum DEF SumsOf

LEMMA SumType ==
  ASSUME NEW S, IsFiniteSet(S), NEW f, \A x \in S : f[x] \in Int
  PROVE  SumFunctionOnSet(f, S) \in Int
<1>1. PICK G : SumsOf(G, f, S)
  BY SumsExist
<1>2. SumFunctionOnSet(f, S) = G[S]
  BY <1>1, FoldIsSum
<1> QED
  BY <1>1, <1>2 DEF SumsOf

LEMMA SumRemove ==
  ASSUME NEW S, IsFiniteSet(S), NEW f, \A y \in S : f[y] \in Int, NEW x \in S
  PROVE  SumFunctionOnSet(f, S) = f[x] + SumFunctionOnSet(f, S \ {x})
<1>1. PICK G : SumsOf(G, f, S)
  BY SumsExist
<1>2. SumFunctionOnSet(f, S) = G[S] /\ SumFunctionOnSet(f, S \ {x}) = G[S \ {x}]
  BY <1>1, SumInSubset
<1> QED
  BY <1>1, <1>2 DEF SumsOf

LEMMA SumAdd ==
  ASSUME NEW S, IsFiniteSet(S), NEW f, NEW x, x \notin S,
         \A y \in S : f[y] \in Int, f[x] \in Int
  PROVE  SumFunctionOnSet(f, S \cup {x}) = f[x] + SumFunctionOnSet(f, S)
<1>1. IsFiniteSet(S \cup {x}) /\ (S \cup {x}) \ {x} = S
  BY FS_AddElement
<1>2. \A y \in S \cup {x} : f[y] \in Int
  OBVIOUS
<1> QED
  BY <1>1, <1>2, SumRemove

(* Two sums of which one grows with the other, element by element.          *)
LEMMA SumMonotone ==
  ASSUME NEW S, IsFiniteSet(S), NEW f, NEW g,
         \A x \in S : f[x] \in Int /\ g[x] \in Int /\ f[x] <= g[x]
  PROVE  SumFunctionOnSet(f, S) <= SumFunctionOnSet(g, S)
<1> DEFINE F(s) == SumFunctionOnSet(f, s)
           G(s) == SumFunctionOnSet(g, s)
           B == { s \in SUBSET S : ~ (F(s) <= G(s)) }
<1> SUFFICES ASSUME B # {} PROVE FALSE
  OBVIOUS
<1>1. PICK s \in B : \A u \in B : u \subseteq s => u = s
  <2>1. B \in SUBSET (SUBSET S)
    OBVIOUS
  <2> HIDE DEF B
  <2> QED
    BY <2>1, SmallestSubset
<1>2. s # {}
  <2> SUFFICES ASSUME s = {} PROVE FALSE
    OBVIOUS
  <2>1. F(s) = 0 /\ G(s) = 0
    BY SumEmpty
  <2>2. ~ (F(s) <= G(s))
    BY <1>1
  <2> QED
    BY <2>1, <2>2
<1>3. PICK x \in s : TRUE
  BY <1>2
<1>4. /\ IsFiniteSet(s) /\ IsFiniteSet(s \ {x}) /\ x \in S
      /\ s \ {x} \in SUBSET S /\ s \ {x} \notin B
  BY <1>1, FS_Subset
<1>5. F(s) = f[x] + F(s \ {x}) /\ G(s) = g[x] + G(s \ {x})
  BY <1>1, <1>4, SumRemove
<1>6. F(s \ {x}) \in Int /\ G(s \ {x}) \in Int
  BY <1>4, SumType
<1>7. F(s \ {x}) <= G(s \ {x}) /\ ~ (F(s) <= G(s))
  BY <1>1, <1>4
<1> HIDE DEF F, G
<1> QED
  BY <1>4, <1>5, <1>6, <1>7

LEMMA SumEqual ==
  ASSUME NEW S, IsFiniteSet(S), NEW f, NEW g,
         \A x \in S : f[x] \in Int /\ f[x] = g[x]
  PROVE  SumFunctionOnSet(f, S) = SumFunctionOnSet(g, S)
<1>1. /\ SumFunctionOnSet(f, S) \in Int /\ SumFunctionOnSet(g, S) \in Int
  BY SumType
<1>2. /\ SumFunctionOnSet(f, S) <= SumFunctionOnSet(g, S)
      /\ SumFunctionOnSet(g, S) <= SumFunctionOnSet(f, S)
  BY SumMonotone
<1> QED
  BY <1>1, <1>2

(* One element changes.                                                     *)
LEMMA SumExcept ==
  ASSUME NEW S, IsFiniteSet(S), NEW f, NEW g, NEW x \in S,
         \A y \in S : f[y] \in Int, g[x] \in Int,
         \A y \in S \ {x} : f[y] = g[y]
  PROVE  SumFunctionOnSet(g, S) = SumFunctionOnSet(f, S) - f[x] + g[x]
<1>1. IsFiniteSet(S \ {x})
  BY FS_Subset
<1>2. \A y \in S : g[y] \in Int
  OBVIOUS
<1>3. SumFunctionOnSet(f, S \ {x}) = SumFunctionOnSet(g, S \ {x})
  BY <1>1, SumEqual
<1>4. /\ SumFunctionOnSet(f, S) = f[x] + SumFunctionOnSet(f, S \ {x})
      /\ SumFunctionOnSet(g, S) = g[x] + SumFunctionOnSet(g, S \ {x})
  BY <1>2, SumRemove
<1>5. SumFunctionOnSet(f, S \ {x}) \in Int
  BY <1>1, SumType
<1> QED
  BY <1>3, <1>4, <1>5

LEMMA SumConstant ==
  ASSUME NEW S, IsFiniteSet(S), NEW f, NEW c \in Int, \A x \in S : f[x] = c
  PROVE  SumFunctionOnSet(f, S) = c * Cardinality(S)
<1> DEFINE F(s) == SumFunctionOnSet(f, s)
           B == { s \in SUBSET S : F(s) # c * Cardinality(s) }
<1> SUFFICES ASSUME B # {} PROVE FALSE
  OBVIOUS
<1>1. PICK s \in B : \A u \in B : u \subseteq s => u = s
  <2>1. B \in SUBSET (SUBSET S)
    OBVIOUS
  <2> HIDE DEF B
  <2> QED
    BY <2>1, SmallestSubset
<1>2. s # {}
  <2>1. F({}) = 0 /\ c * Cardinality({}) = 0
    BY SumEmpty, FS_EmptySet
  <2> HIDE DEF F
  <2> QED
    BY <1>1, <2>1
<1>3. PICK x \in s : TRUE
  BY <1>2
<1>4. /\ IsFiniteSet(s) /\ IsFiniteSet(s \ {x}) /\ x \in S
      /\ s \ {x} \in SUBSET S /\ s \ {x} \notin B
  BY <1>1, FS_Subset
<1>5. F(s) = c + F(s \ {x})
  BY <1>1, <1>4, SumRemove
<1>6. F(s \ {x}) = c * Cardinality(s \ {x})
  BY <1>4
<1>7. Cardinality(s \ {x}) = Cardinality(s) - 1 /\ Cardinality(s) \in Nat
  BY <1>3, <1>4, FS_RemoveElement, FS_CardinalityType
<1>8. F(s) # c * Cardinality(s)
  BY <1>1
<1>9. c * (Cardinality(s) - 1) = c * Cardinality(s) - c
  BY <1>7
<1> HIDE DEF F
<1> QED
  BY <1>5, <1>6, <1>7, <1>8, <1>9

(* A sum lies between the number of its elements times a lower and an upper *)
(* bound.                                                                   *)
LEMMA SumBounds ==
  ASSUME NEW S, IsFiniteSet(S), NEW f, NEW low \in Int, NEW high \in Int,
         \A x \in S : f[x] \in Int /\ low <= f[x] /\ f[x] <= high
  PROVE  /\ low * Cardinality(S) <= SumFunctionOnSet(f, S)
         /\ SumFunctionOnSet(f, S) <= high * Cardinality(S)
<1> DEFINE Low == [x \in S |-> low]
           High == [x \in S |-> high]
<1>1. /\ SumFunctionOnSet(Low, S) = low * Cardinality(S)
      /\ SumFunctionOnSet(High, S) = high * Cardinality(S)
  BY SumConstant
<1>2. /\ SumFunctionOnSet(Low, S) <= SumFunctionOnSet(f, S)
      /\ SumFunctionOnSet(f, S) <= SumFunctionOnSet(High, S)
  BY SumMonotone
<1> QED
  BY <1>1, <1>2

LEMMA SumNat ==
  ASSUME NEW S, IsFiniteSet(S), NEW f, \A x \in S : f[x] \in Nat
  PROVE  /\ SumFunctionOnSet(f, S) \in Nat
         /\ \A x \in S : f[x] <= SumFunctionOnSet(f, S)
<1>1. ASSUME NEW T \in SUBSET S PROVE SumFunctionOnSet(f, T) \in Nat
  <2> DEFINE zero == [x \in T |-> 0]
  <2>1. IsFiniteSet(T) /\ Cardinality(T) \in Nat
    BY FS_Subset, FS_CardinalityType
  <2>2. \A x \in T : zero[x] = 0 /\ f[x] \in Nat
    OBVIOUS
  <2> HIDE DEF zero
  <2>3. SumFunctionOnSet(zero, T) = 0 * Cardinality(T)
    BY <2>1, <2>2, SumConstant
  <2>5. SumFunctionOnSet(zero, T) <= SumFunctionOnSet(f, T)
    BY <2>1, <2>2, SumMonotone
  <2>4. SumFunctionOnSet(f, T) \in Int
    BY <2>1, SumType
  <2> QED
    BY <2>1, <2>3, <2>4, <2>5
<1>2. ASSUME NEW x \in S PROVE f[x] <= SumFunctionOnSet(f, S)
  <2>1. SumFunctionOnSet(f, S) = f[x] + SumFunctionOnSet(f, S \ {x})
    BY SumRemove
  <2> QED
    BY <1>1, <2>1
<1> QED
  BY <1>1, <1>2

(* The sum over two disjoint sets.                                          *)
LEMMA SumUnion ==
  ASSUME NEW S, IsFiniteSet(S), NEW T \in SUBSET S,
         NEW f, \A x \in S : f[x] \in Int
  PROVE  SumFunctionOnSet(f, S)
           = SumFunctionOnSet(f, T) + SumFunctionOnSet(f, S \ T)
<1> DEFINE F(s) == SumFunctionOnSet(f, s)
           B == { s \in SUBSET T : F(s \cup (S \ T)) # F(s) + F(S \ T) }
<1>0. IsFiniteSet(T) /\ IsFiniteSet(S \ T)
  BY FS_Subset
<1>1. F(S \ T) \in Int
  BY <1>0, SumType
<1>2. B = {}
  <2> SUFFICES ASSUME B # {} PROVE FALSE
    OBVIOUS
  <2>1. PICK s \in B : \A u \in B : u \subseteq s => u = s
    <3>1. B \in SUBSET (SUBSET T)
      OBVIOUS
    <3> HIDE DEF B
    <3> QED
      BY <1>0, <3>1, SmallestSubset
  <2>2. s # {}
    <3> SUFFICES ASSUME s = {} PROVE FALSE
      OBVIOUS
    <3>1. F(s) = 0 /\ s \cup (S \ T) = S \ T
      BY SumEmpty
    <3>2. F(s \cup (S \ T)) # F(s) + F(S \ T)
      BY <2>1
    <3>3. F(S \ T) # 0 + F(S \ T)
      BY <3>1, <3>2
    <3> HIDE DEF F
    <3> QED
      BY <1>1, <3>3
  <2>3. PICK x \in s : TRUE
    BY <2>2
  <2> DEFINE r == s \ {x}
             big == s \cup (S \ T)
  <2>4. /\ r \in SUBSET T /\ r \notin B /\ x \in S
        /\ big \in SUBSET S /\ x \in big
        /\ big \ {x} = r \cup (S \ T)
        /\ s \in SUBSET S /\ r \in SUBSET S
    BY <2>1, <2>3
  <2>5. IsFiniteSet(s) /\ IsFiniteSet(r) /\ IsFiniteSet(big)
    BY <2>4, FS_Subset
  <2>6. F(s) = f[x] + F(r) /\ F(big) = f[x] + F(big \ {x})
    <3>1. \A y \in s : f[y] \in Int
      BY <2>4
    <3>2. \A y \in big : f[y] \in Int
      BY <2>4
    <3> HIDE DEF big
    <3> QED
      BY <2>3, <2>4, <2>5, <3>1, <3>2, SumRemove
  <2>7. F(r \cup (S \ T)) = F(r) + F(S \ T) /\ F(big) # F(s) + F(S \ T)
    BY <2>1, <2>4
  <2>8. F(r) \in Int /\ f[x] \in Int
    BY <2>4, <2>5, SumType
  <2>9. F(big \ {x}) = F(r) + F(S \ T)
    BY <2>4, <2>7
  <2> HIDE DEF F, r, big
  <2>10. f[x] + (F(r) + F(S \ T)) = (f[x] + F(r)) + F(S \ T)
    BY <1>1, <2>8
  <2> QED
    BY <2>6, <2>7, <2>9, <2>10
<1>3. T \notin B /\ T \cup (S \ T) = S
  BY <1>2
<1> QED
  BY <1>3

(* The terms f[x] of x in S are those g[y] of y in T, renamed by h.         *)
SameTerms(h, f, S, g, T) ==
  /\ h \in Bijection(S, T)
  /\ \A x \in S : f[x] \in Int /\ f[x] = g[h[x]]

(* Disjoint pieces of a finite set are no more than the set.                *)
LEMMA SumOfPieces ==
  ASSUME NEW S, IsFiniteSet(S), NEW U, IsFiniteSet(U), NEW T, NEW f,
         \A x \in S : T[x] \subseteq U /\ f[x] = Cardinality(T[x]),
         \A x, y \in S : x # y => T[x] \cap T[y] = {}
  PROVE  SumFunctionOnSet(f, S) <= Cardinality(U)
<1> DEFINE F(s) == SumFunctionOnSet(f, s)
           All(s) == UNION { T[x] : x \in s }
           B == { s \in SUBSET S : F(s) # Cardinality(All(s)) }
<1>1. \A x \in S : IsFiniteSet(T[x]) /\ f[x] \in Nat
  BY FS_Subset, FS_CardinalityType
<1>2. \A s \in SUBSET S : All(s) \subseteq U /\ IsFiniteSet(All(s)) /\ IsFiniteSet(s)
  BY FS_Subset
<1>3. B = {}
  <2> SUFFICES ASSUME B # {} PROVE FALSE
    OBVIOUS
  <2>1. PICK s \in B : \A u \in B : u \subseteq s => u = s
    <3>1. B \in SUBSET (SUBSET S)
      OBVIOUS
    <3> HIDE DEF B
    <3> QED
      BY <3>1, SmallestSubset
  <2>2. CASE s = {}
    <3>1. All(s) = {}
      BY <2>2
    <3> QED
      BY <2>2, <3>1, SumEmpty, FS_EmptySet
  <2>3. CASE s # {}
    <3>1. PICK x \in s : TRUE
      BY <2>3
    <3>2. x \in S /\ s \ {x} \in SUBSET S /\ s \in SUBSET S
      BY <2>1
    <3>3. F(s \ {x}) = Cardinality(All(s \ {x}))
      BY <2>1, <3>1, <3>2
    <3>4. F(s) = f[x] + F(s \ {x})
      <4> HIDE DEF B, All, F
      <4>1. IsFiniteSet(s)
        BY <1>2, <3>2
      <4>2. \A y \in s : f[y] \in Int
        BY <1>1, <3>2
      <4> QED
        BY <3>1, <4>1, <4>2, SumRemove DEF F
    <3>5. All(s) = T[x] \cup All(s \ {x})
      BY <3>1
    <3>6. T[x] \cap All(s \ {x}) = {}
      BY <3>1, <3>2
    <3>7. Cardinality(All(s)) = Cardinality(T[x]) + Cardinality(All(s \ {x}))
      <4>1. IsFiniteSet(T[x]) /\ IsFiniteSet(All(s \ {x}))
        BY <1>1, <1>2, <3>2
      <4>2. Cardinality(T[x]) \in Nat /\ Cardinality(All(s \ {x})) \in Nat
        BY <4>1, FS_CardinalityType
      <4> HIDE DEF B, All, F
      <4>3. Cardinality(T[x] \cup All(s \ {x}))
              = Cardinality(T[x]) + Cardinality(All(s \ {x}))
                  - Cardinality(T[x] \cap All(s \ {x}))
        BY <4>1, FS_Union
      <4>4. Cardinality(T[x] \cap All(s \ {x})) = 0
        BY <3>6, FS_EmptySet
      <4> QED
        BY <3>5, <4>2, <4>3, <4>4
    <3> HIDE DEF All, F
    <3>8. F(s) = Cardinality(All(s))
      BY <3>2, <3>3, <3>4, <3>7
    <3> QED
      BY <2>1, <3>8
  <2> QED
    BY <2>2, <2>3
<1>4. F(S) = Cardinality(All(S))
  BY <1>3
<1>5. All(S) \subseteq U
  BY <1>2
<1> HIDE DEF All, F, B
<1>6. Cardinality(All(S)) <= Cardinality(U)
  BY <1>5, FS_Subset
<1> QED
  BY <1>4, <1>6 DEF F

(* A sum does not depend on how its elements are named.                     *)
LEMMA SumBijection ==
  ASSUME NEW S, IsFiniteSet(S), NEW T, NEW f, NEW g, NEW h, SameTerms(h, f, S, g, T)
  PROVE  SumFunctionOnSet(f, S) = SumFunctionOnSet(g, T)
<1> SUFFICES ASSUME h \in [S -> T],
                    \A x, y \in S : h[x] = h[y] => x = y,
                    \A z \in T : \E x \in S : h[x] = z,
                    \A x \in S : f[x] \in Int /\ f[x] = g[h[x]]
             PROVE  SumFunctionOnSet(f, S) = SumFunctionOnSet(g, T)
  BY DEF SameTerms, Bijection, Injection, Surjection, IsInjective
<1> DEFINE F(s) == SumFunctionOnSet(f, s)
           Image(s) == { h[x] : x \in s }
           G(s) == SumFunctionOnSet(g, Image(s))
           B == { s \in SUBSET S : F(s) # G(s) }
<1>0. IsFiniteSet(T)
  <2>1. h \in Surjection(S, T)
    BY DEF Surjection
  <2> QED
    BY <2>1, FS_Surjection
<1>1. B = {}
  <2> SUFFICES ASSUME B # {} PROVE FALSE
    OBVIOUS
  <2>1. PICK s \in B : \A u \in B : u \subseteq s => u = s
    <3>1. B \in SUBSET (SUBSET S)
      OBVIOUS
    <3> HIDE DEF B
    <3> QED
      BY <3>1, SmallestSubset
  <2>2. s # {}
    <3>1. F({}) = 0
      BY SumEmpty
    <3>2. G({}) = 0
      <4>1. Image({}) = {}
        OBVIOUS
      <4> HIDE DEF Image
      <4> QED
        BY <4>1, SumEmpty
    <3> HIDE DEF F, G
    <3> QED
      BY <2>1, <3>1, <3>2
  <2>3. PICK x \in s : TRUE
    BY <2>2
  <2>4. /\ s \in SUBSET S /\ x \in S /\ s \ {x} \in SUBSET S /\ s \ {x} \notin B
    BY <2>1, <2>3
  <2>5. Image(s) \in SUBSET T /\ h[x] \in Image(s)
    BY <2>3, <2>4
  <2>6. Image(s) \ {h[x]} = Image(s \ {x})
    BY <2>3, <2>4
  <2>7. /\ IsFiniteSet(s) /\ IsFiniteSet(s \ {x}) /\ IsFiniteSet(Image(s))
    BY <1>0, <2>4, <2>5, FS_Subset
  <2>8. F(s) = f[x] + F(s \ {x})
    BY <2>3, <2>4, <2>7, SumRemove
  <2>9. G(s) = g[h[x]] + G(s \ {x})
    <3>1. \A z \in Image(s) : g[z] \in Int
      BY <2>4
    <3> HIDE DEF Image
    <3>2. SumFunctionOnSet(g, Image(s))
            = g[h[x]] + SumFunctionOnSet(g, Image(s) \ {h[x]})
      BY <2>5, <2>7, <3>1, SumRemove
    <3> QED
      BY <2>6, <3>2
  <2>10. F(s \ {x}) = G(s \ {x}) /\ F(s) # G(s) /\ f[x] = g[h[x]]
    BY <2>1, <2>4
  <2> HIDE DEF F, G
  <2> QED
    BY <2>8, <2>9, <2>10
<1>2. S \notin B /\ Image(S) = T
  BY <1>1
<1> HIDE DEF Image
<1> QED
  BY <1>2

(* A mean, rounded down, lies between bounds of its elements.               *)
LEMMA MeanBounds ==
  ASSUME NEW S, IsFiniteSet(S), S # {}, NEW f, NEW low \in Nat, NEW high \in Nat,
         \A x \in S : f[x] \in Nat /\ low <= f[x] /\ f[x] <= high
  PROVE  /\ Cardinality(S) \in Nat \ {0}
         /\ SumFunctionOnSet(f, S) \div Cardinality(S) \in low .. high
<1> DEFINE n == Cardinality(S)
           sum == SumFunctionOnSet(f, S)
<1>1. n \in Nat \ {0}
  BY FS_CardinalityType, FS_EmptySet
<1>2. low * n <= sum /\ sum <= high * n
  BY SumBounds
<1>3. sum \in Nat
  BY SumNat
<1> HIDE DEF n, sum
<1>4. sum \div n \in low .. high
  BY <1>1, <1>2, <1>3
<1> QED
  BY <1>1, <1>4 DEF n, sum
(* The sum of all values of a function, and how an update changes it.        *)
LEMMA SumOfExcept ==
  ASSUME NEW S, IsFiniteSet(S), NEW f \in [S -> Int], NEW x \in S, NEW v \in Int
  PROVE  /\ SumFunction(f) \in Int
         /\ SumFunction([f EXCEPT ![x] = v]) = SumFunction(f) - f[x] + v
<1>1. PICK g : g = [f EXCEPT ![x] = v]
  OBVIOUS
<1>2. /\ \A y \in S : f[y] \in Int
      /\ g[x] = v /\ \A y \in S \ {x} : f[y] = g[y]
      /\ DOMAIN f = S /\ DOMAIN g = S
  BY <1>1
<1>3. SumFunctionOnSet(f, S) \in Int
  BY <1>2, SumType
<1>4. SumFunctionOnSet(g, S) = SumFunctionOnSet(f, S) - f[x] + g[x]
  BY <1>2, SumExcept
<1> QED
  BY <1>1, <1>2, <1>3, <1>4 DEF SumFunction

LEMMA SumOfNats ==
  ASSUME NEW S, IsFiniteSet(S), NEW f \in [S -> Nat]
  PROVE  /\ SumFunction(f) \in Nat
         /\ \A x \in S : f[x] <= SumFunction(f)
<1>1. DOMAIN f = S /\ \A x \in S : f[x] \in Nat
  OBVIOUS
<1> QED
  BY <1>1, SumNat DEF SumFunction

-----------------------------------------------------------------------------
(* Sums of sequences.                                                       *)

LEMMA SeqSumNat ==
  ASSUME NEW s \in Seq(Nat)
  PROVE  /\ SumFunction(s) \in Nat
         /\ s = <<>> => SumFunction(s) = 0
         /\ \A i \in 1 .. Len(s) : s[i] <= SumFunction(s)
<1>1. /\ Len(s) \in Nat /\ DOMAIN s = 1 .. Len(s) /\ IsFiniteSet(DOMAIN s)
      /\ \A i \in DOMAIN s : s[i] \in Nat
  <2>1. Len(s) \in Nat /\ DOMAIN s = 1 .. Len(s)
    BY LenProperties
  <2>2. IsFiniteSet(1 .. Len(s))
    BY <2>1, FS_Interval
  <2>3. \A i \in 1 .. Len(s) : s[i] \in Nat
    BY ElementOfSeq
  <2> QED
    BY <2>1, <2>2, <2>3
<1>2. SumFunction(s) = SumFunctionOnSet(s, DOMAIN s)
  BY DEF SumFunction
<1>3. /\ SumFunctionOnSet(s, DOMAIN s) \in Nat
      /\ \A i \in DOMAIN s : s[i] <= SumFunctionOnSet(s, DOMAIN s)
  BY <1>1, SumNat
<1>4. s = <<>> => SumFunctionOnSet(s, DOMAIN s) = 0
  <2> SUFFICES ASSUME s = <<>> PROVE SumFunctionOnSet(s, DOMAIN s) = 0
    OBVIOUS
  <2>1. DOMAIN s = {}
    BY <1>1, EmptySeq
  <2> QED
    BY <2>1, SumEmpty
<1> QED
  BY <1>1, <1>2, <1>3, <1>4

LEMMA SeqSumAppend ==
  ASSUME NEW s \in Seq(Nat), NEW x \in Nat
  PROVE  SumFunction(Append(s, x)) = SumFunction(s) + x
<1>1. PICK t, n : t = Append(s, x) /\ n = Len(s)
  OBVIOUS
<1>2. /\ n \in Nat /\ DOMAIN s = 1 .. n /\ DOMAIN t = 1 .. n + 1
      /\ \A i \in 1 .. n : s[i] \in Nat /\ t[i] = s[i]
      /\ t[n + 1] = x
  <2>1. t \in Seq(Nat) /\ Len(t) = n + 1
    BY <1>1, AppendProperties
  <2> QED
    BY <1>1, <2>1, AppendProperties, LenProperties, ElementOfSeq
<1>3. 1 .. n + 1 = (1 .. n) \cup {n + 1} /\ n + 1 \notin 1 .. n /\ IsFiniteSet(1 .. n)
  <2>1. n \in Nat
    BY <1>2
  <2>2. IsFiniteSet(1 .. n)
    BY <2>1, FS_Interval
  <2>3. 1 .. n + 1 = (1 .. n) \cup {n + 1} /\ n + 1 \notin 1 .. n
    BY <2>1
  <2> QED
    BY <2>2, <2>3
<1>4. SumFunctionOnSet(t, 1 .. n + 1) = t[n + 1] + SumFunctionOnSet(t, 1 .. n)
  <2>1. (\A i \in 1 .. n : t[i] \in Int) /\ t[n + 1] \in Int
    BY <1>2
  <2> QED
    BY <1>3, <2>1, SumAdd
<1>5. SumFunctionOnSet(t, 1 .. n) = SumFunctionOnSet(s, 1 .. n)
  <2>1. \A i \in 1 .. n : t[i] \in Int /\ t[i] = s[i]
    BY <1>2
  <2> QED
    BY <1>3, <2>1, SumEqual
<1>6. SumFunctionOnSet(s, 1 .. n) \in Nat
  BY <1>2, <1>3, SumNat
<1> QED
  BY <1>1, <1>2, <1>4, <1>5, <1>6 DEF SumFunction

LEMMA SeqSumTail ==
  ASSUME NEW s \in Seq(Nat), s # <<>>
  PROVE  /\ Head(s) \in Nat /\ Head(s) = s[1]
         /\ SumFunction(s) = Head(s) + SumFunction(Tail(s))
<1>1. PICK t, n : t = Tail(s) /\ n = Len(s)
  OBVIOUS
<1>2. /\ n \in Nat \ {0} /\ DOMAIN s = 1 .. n /\ DOMAIN t = 1 .. n - 1
      /\ \A i \in 1 .. n : s[i] \in Nat
      /\ \A i \in 1 .. n - 1 : t[i] = s[i + 1]
  <2>1. t \in Seq(Nat) /\ Len(t) = n - 1
    BY <1>1, HeadTailProperties
  <2> QED
    BY <1>1, <2>1, HeadTailProperties, EmptySeq, LenProperties, ElementOfSeq
<1>3. Head(s) = s[1] /\ Head(s) \in Nat
  BY <1>1, <1>2
<1>4. PICK S : /\ S = 2 .. n /\ IsFiniteSet(S) /\ IsFiniteSet(1 .. n)
               /\ (1 .. n) \ {1} = S /\ 1 \in 1 .. n /\ IsFiniteSet(1 .. n - 1)
  <2>1. n \in Nat \ {0} /\ n - 1 \in Nat
    BY <1>2
  <2>2. IsFiniteSet(2 .. n) /\ IsFiniteSet(1 .. n) /\ IsFiniteSet(1 .. n - 1)
    <3>1. IsFiniteSet(2 .. n)
      BY <2>1, FS_Interval
    <3>2. IsFiniteSet(1 .. n)
      BY <2>1, FS_Interval
    <3>3. IsFiniteSet(1 .. n - 1)
      BY <2>1, FS_Interval
    <3> QED
      BY <3>1, <3>2, <3>3
  <2>3. (1 .. n) \ {1} = 2 .. n /\ 1 \in 1 .. n
    BY <2>1
  <2> QED
    BY <2>2, <2>3
<1>5. SumFunctionOnSet(s, 1 .. n) = s[1] + SumFunctionOnSet(s, S)
  <2>1. \A i \in 1 .. n : s[i] \in Int
    BY <1>2
  <2>2. SumFunctionOnSet(s, 1 .. n) = s[1] + SumFunctionOnSet(s, (1 .. n) \ {1})
    BY <1>4, <2>1, SumRemove
  <2> QED
    BY <1>4, <2>2
<1>6. SumFunctionOnSet(t, 1 .. n - 1) = SumFunctionOnSet(s, S)
  <2>1. PICK h : h = [i \in 1 .. n - 1 |-> i + 1]
    OBVIOUS
  <2>2. h \in Bijection(1 .. n - 1, S)
    <3>1. h \in [1 .. n - 1 -> S]
      BY <1>2, <1>4, <2>1
    <3>2. \A i, j \in 1 .. n - 1 : h[i] = h[j] => i = j
      BY <2>1
    <3>3. \A k \in S : \E i \in 1 .. n - 1 : h[i] = k
      <4> SUFFICES ASSUME NEW k \in S PROVE \E i \in 1 .. n - 1 : h[i] = k
        OBVIOUS
      <4>1. k - 1 \in 1 .. n - 1 /\ h[k - 1] = k
        BY <1>2, <1>4, <2>1
      <4> QED
        BY <4>1
    <3> QED
      BY <3>1, <3>2, <3>3 DEF Bijection, Injection, Surjection, IsInjective
  <2>3. SameTerms(h, t, 1 .. n - 1, s, S)
    <3>1. \A i \in 1 .. n - 1 : t[i] \in Int /\ t[i] = s[h[i]]
      BY <1>2, <2>1
    <3> QED
      BY <2>2, <3>1 DEF SameTerms
  <2> QED
    BY <1>4, <2>3, SumBijection
<1> QED
  BY <1>1, <1>2, <1>3, <1>5, <1>6 DEF SumFunction

=============================================================================
