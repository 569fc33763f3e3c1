---------------------------- MODULE SumTheorems -----------------------------
(* What the proofs of the components need about finite sets of numbers: a   *)
(* greatest element, and what SumFunctionOnSet adds up. The library defines *)
(* a sum by a recursive function on the subsets of a set, so each fact is   *)
(* proved on the smallest subset that would break it.                       *)
EXTENDS Naturals, Integers, FiniteSets, FiniteSetsExt, Functions,
        FiniteSetTheorems, WellFoundedInduction, TLAPS

-----------------------------------------------------------------------------
(* Least elements *)

(* Of sets of subsets of a finite set, some member has no smaller one in it. *)
LEMMA SmallestSubset ==
  ASSUME NEW S, IsFiniteSet(S), NEW B \in SUBSET (SUBSET S), B # {}
  PROVE  \E T \in B : IsFiniteSet(T) /\ \A U \in B : U \subseteq T => U = T
  <1>1. IsWellFoundedOn(StrictSubsetOrdering(S), FiniteSubsetsOf(S))
    BY FS_StrictSubsetOrderingWellFounded
  <1>2. B \subseteq FiniteSubsetsOf(S)
    BY FS_Subset DEF FiniteSubsetsOf
  <1>3. PICK T \in B : \A U \in B : ~ (<<U, T>> \in StrictSubsetOrdering(S))
    BY <1>1, <1>2, WFMin
  <1>4. \A U \in B : U \subseteq T /\ U # T => <<U, T>> \in StrictSubsetOrdering(S)
    BY DEF StrictSubsetOrdering
  <1>5. IsFiniteSet(T)
    BY <1>2 DEF FiniteSubsetsOf
  <1>6. \A U \in B : U \subseteq T => U = T
    BY <1>3, <1>4
  <1> QED BY <1>5, <1>6

LEMMA LeastExists ==
  ASSUME NEW T \in SUBSET Nat, T # {}
  PROVE  \E m \in T : \A x \in T : m <= x
  <1>1. PICK n \in T : TRUE
    OBVIOUS
  <1> DEFINE B == {0 .. x : x \in {y \in T : y <= n}}
  <1>2. PICK N : N = 0 .. n
    OBVIOUS
  <1>3. B \in SUBSET (SUBSET N) /\ B # {} /\ IsFiniteSet(N)
    <2>1. n \in Nat /\ n <= n
      OBVIOUS
    <2>2. \A x \in T : x <= n => 0 .. x \subseteq N
      BY <1>2, <2>1
    <2>3. IsFiniteSet(N)
      BY <1>2, <2>1, FS_Interval
    <2> QED BY <2>1, <2>2, <2>3
  <1> HIDE DEF B
  <1>4. PICK M \in B : IsFiniteSet(M) /\ \A U \in B : U \subseteq M => U = M
    BY <1>3, SmallestSubset
  <1>5. PICK m \in T : M = 0 .. m /\ m <= n
    BY DEF B
  <1>6. ASSUME NEW x \in T, x < m PROVE FALSE
    <2>1. 0 .. x \in B
      BY <1>5, <1>6 DEF B
    <2>2. 0 .. x \subseteq 0 .. m /\ 0 .. x # 0 .. m
      BY <1>6
    <2> QED BY <1>4, <1>5, <2>1, <2>2
  <1> QED BY <1>6

(* Max is the greatest element of a set that has something in it.           *)
LEMMA GreatestIsMax ==
  ASSUME NEW n \in Nat, NEW T \in SUBSET (-1 .. n), T # {}
  PROVE  Max(T) \in T /\ \A x \in T : x <= Max(T)
  <1> DEFINE U == {n - x : x \in T}
  <1>1. U \in SUBSET Nat /\ U # {}
    <2>1. \A x \in T : x \in Int /\ n - x \in Nat
      OBVIOUS
    <2> QED BY <2>1
  <1>2. PICK u \in U : \A x \in U : u <= x
    BY <1>1, LeastExists
  <1>3. PICK m \in T : u = n - m
    OBVIOUS
  <1>4. \A x \in T : n - m <= n - x
    BY <1>2, <1>3
  <1>5. \A x \in T : x <= m
    BY <1>4
  <1> QED BY <1>5 DEF Max

-----------------------------------------------------------------------------
(* The recursive function behind a sum *)

First(s) == CHOOSE x \in s : TRUE
Rest(s) == s \ {First(s)}
Adds(F, S, g) == g = [s \in SUBSET S |-> IF s = {} THEN 0 ELSE F[First(s)] + g[Rest(s)]]
Adder(F, S) == CHOOSE g : Adds(F, S, g)

LEMMA FirstRest ==
  ASSUME NEW s, s # {}
  PROVE  First(s) \in s /\ Rest(s) \subseteq s /\ Rest(s) # s /\ First(s) \notin Rest(s)
         /\ s = Rest(s) \cup {First(s)}
  BY DEF First, Rest

LEMMA SumIsAdder ==
  ASSUME NEW F, NEW S
  PROVE  SumFunctionOnSet(F, S) = Adder(F, S)[S]
  BY DEF SumFunctionOnSet, FoldFunctionOnSet, MapThenFoldSet, Adder, Adds, First, Rest

LEMMA AddsAt ==
  ASSUME NEW F, NEW S, NEW g, Adds(F, S, g), NEW s \in SUBSET S
  PROVE  g[s] = IF s = {} THEN 0 ELSE F[First(s)] + g[Rest(s)]
  BY DEF Adds

LEMMA AddersAgree ==
  ASSUME NEW F, NEW S, IsFiniteSet(S), NEW T, NEW g, NEW h, Adds(F, S, g), Adds(F, T, h), S \subseteq T
  PROVE  g[S] = h[S]
  <1> DEFINE B == {s \in SUBSET S : g[s] # h[s]}
  <1> SUFFICES ASSUME B # {} PROVE FALSE
    OBVIOUS
  <1>1. B \in SUBSET (SUBSET S)
    OBVIOUS
  <1> HIDE DEF B
  <1>2. PICK s \in B : IsFiniteSet(s) /\ \A u \in B : u \subseteq s => u = s
    BY <1>1, SmallestSubset
  <1> USE DEF B
  <1>3. s \in SUBSET S /\ s \in SUBSET T
    OBVIOUS
  <1>4. /\ g[s] = IF s = {} THEN 0 ELSE F[First(s)] + g[Rest(s)]
        /\ h[s] = IF s = {} THEN 0 ELSE F[First(s)] + h[Rest(s)]
    BY <1>3, AddsAt
  <1>5. s # {}
    BY <1>4
  <1>6. Rest(s) \subseteq s /\ Rest(s) # s
    BY <1>5, FirstRest
  <1>7. g[Rest(s)] = h[Rest(s)]
    BY <1>2, <1>3, <1>6
  <1> QED BY <1>4, <1>5, <1>7

LEMMA AdderAdds ==
  ASSUME NEW F, NEW S, IsFiniteSet(S)
  PROVE  Adds(F, S, Adder(F, S))
  <1> DEFINE B == {s \in SUBSET S : ~ \E g : Adds(F, s, g)}
  <1>1. ASSUME B # {} PROVE FALSE
    <2>1. B \in SUBSET (SUBSET S)
      OBVIOUS
    <2> HIDE DEF B
    <2>2. PICK T \in B : IsFiniteSet(T) /\ \A u \in B : u \subseteq T => u = T
      BY <1>1, <2>1, SmallestSubset
    <2> USE DEF B
    <2> DEFINE V(s) == Adder(F, s)[s]
               v == [s \in SUBSET T |-> IF s = {} THEN 0 ELSE F[First(s)] + V(Rest(s))]
    <2>3. \A s \in SUBSET T : s # T => Adds(F, s, Adder(F, s)) /\ IsFiniteSet(s)
      BY <2>2, FS_Subset DEF Adder
    <2>4. ASSUME NEW s \in SUBSET T, s # T PROVE V(s) = v[s]
      <3>1. Adds(F, s, Adder(F, s))
        BY <2>3, <2>4
      <3>2. V(s) = IF s = {} THEN 0 ELSE F[First(s)] + Adder(F, s)[Rest(s)]
        BY <3>1, AddsAt
      <3>3. ASSUME s # {} PROVE Adder(F, s)[Rest(s)] = V(Rest(s))
        <4>1. Rest(s) \subseteq s /\ Rest(s) \in SUBSET T /\ Rest(s) # T
          BY <2>4, <3>3, FirstRest
        <4>2. Adds(F, Rest(s), Adder(F, Rest(s))) /\ IsFiniteSet(Rest(s))
          BY <2>3, <4>1
        <4> QED BY <3>1, <4>1, <4>2, AddersAgree
      <3> QED BY <3>2, <3>3
    <2>5. \A s \in SUBSET T : s # {} => Rest(s) \in SUBSET T /\ Rest(s) # T
      BY FirstRest
    <2>6. \A s \in SUBSET T : v[s] = IF s = {} THEN 0 ELSE F[First(s)] + v[Rest(s)]
      BY <2>4, <2>5
    <2>7. Adds(F, T, v)
      BY <2>6 DEF Adds
    <2> QED BY <2>2, <2>7
  <1> QED BY <1>1 DEF Adder

(* A sum is one element and the sum of the rest.                            *)
LEMMA SumRecursion ==
  ASSUME NEW F, NEW S, IsFiniteSet(S)
  PROVE  SumFunctionOnSet(F, S) = IF S = {} THEN 0 ELSE F[First(S)] + SumFunctionOnSet(F, Rest(S))
  <1>1. Adds(F, S, Adder(F, S))
    BY AdderAdds
  <1>2. SumFunctionOnSet(F, S) = IF S = {} THEN 0 ELSE F[First(S)] + Adder(F, S)[Rest(S)]
    BY <1>1, AddsAt, SumIsAdder
  <1>3. ASSUME S # {} PROVE Adder(F, S)[Rest(S)] = SumFunctionOnSet(F, Rest(S))
    <2>1. Rest(S) \subseteq S
      BY <1>3, FirstRest
    <2>2. IsFiniteSet(Rest(S))
      BY <2>1, FS_Subset
    <2>3. Adds(F, Rest(S), Adder(F, Rest(S)))
      BY <2>2, AdderAdds
    <2>4. Adder(F, Rest(S))[Rest(S)] = Adder(F, S)[Rest(S)]
      BY <1>1, <2>1, <2>2, <2>3, AddersAgree
    <2> QED BY <2>4, SumIsAdder
  <1> QED BY <1>2, <1>3

-----------------------------------------------------------------------------
(* What a sum is worth *)

LEMMA SumOfNone == \A F : SumFunctionOnSet(F, {}) = 0
  BY SumRecursion, FS_EmptySet

LEMMA SumType ==
  ASSUME NEW S, IsFiniteSet(S), NEW F, \A x \in S : F[x] \in Int
  PROVE  SumFunctionOnSet(F, S) \in Int
  <1> DEFINE B == {s \in SUBSET S : SumFunctionOnSet(F, s) \notin Int}
  <1> SUFFICES ASSUME B # {} PROVE FALSE
    OBVIOUS
  <1>1. B \in SUBSET (SUBSET S)
    OBVIOUS
  <1> HIDE DEF B
  <1>2. PICK s \in B : IsFiniteSet(s) /\ \A u \in B : u \subseteq s => u = s
    BY <1>1, SmallestSubset
  <1> USE DEF B
  <1>3. SumFunctionOnSet(F, s) = IF s = {} THEN 0 ELSE F[First(s)] + SumFunctionOnSet(F, Rest(s))
    BY <1>2, SumRecursion
  <1>4. s # {} => First(s) \in S /\ Rest(s) \in SUBSET S /\ Rest(s) \subseteq s /\ Rest(s) # s
    BY FirstRest
  <1>5. s # {} => SumFunctionOnSet(F, Rest(s)) \in Int
    BY <1>2, <1>4
  <1> QED BY <1>3, <1>4, <1>5

(* Terms that are the same add up to the same.                              *)
LEMMA SumSame ==
  ASSUME NEW S, IsFiniteSet(S), NEW F, NEW G, \A x \in S : F[x] = G[x]
  PROVE  SumFunctionOnSet(F, S) = SumFunctionOnSet(G, S)
  <1> DEFINE B == {s \in SUBSET S : SumFunctionOnSet(F, s) # SumFunctionOnSet(G, s)}
  <1> SUFFICES ASSUME B # {} PROVE FALSE
    OBVIOUS
  <1>1. B \in SUBSET (SUBSET S)
    OBVIOUS
  <1> HIDE DEF B
  <1>2. PICK s \in B : IsFiniteSet(s) /\ \A u \in B : u \subseteq s => u = s
    BY <1>1, SmallestSubset
  <1> USE DEF B
  <1>3. /\ SumFunctionOnSet(F, s) = IF s = {} THEN 0 ELSE F[First(s)] + SumFunctionOnSet(F, Rest(s))
        /\ SumFunctionOnSet(G, s) = IF s = {} THEN 0 ELSE G[First(s)] + SumFunctionOnSet(G, Rest(s))
    BY <1>2, SumRecursion
  <1>4. s # {} => First(s) \in S /\ Rest(s) \in SUBSET S /\ Rest(s) \subseteq s /\ Rest(s) # s
    BY FirstRest
  <1>5. s # {} => SumFunctionOnSet(F, Rest(s)) = SumFunctionOnSet(G, Rest(s))
    BY <1>2, <1>4
  <1> QED BY <1>3, <1>4, <1>5

(* Any element may be counted first.                                        *)
LEMMA SumRemove ==
  ASSUME NEW S, IsFiniteSet(S), NEW F, \A x \in S : F[x] \in Int
  PROVE  \A a \in S : SumFunctionOnSet(F, S) = F[a] + SumFunctionOnSet(F, S \ {a})
  <1> DEFINE B == {s \in SUBSET S : \E a \in s : SumFunctionOnSet(F, s) # F[a] + SumFunctionOnSet(F, s \ {a})}
  <1> SUFFICES ASSUME B # {} PROVE FALSE
    OBVIOUS
  <1>1. B \in SUBSET (SUBSET S)
    OBVIOUS
  <1> HIDE DEF B
  <1>2. PICK s \in B : IsFiniteSet(s) /\ \A u \in B : u \subseteq s => u = s
    BY <1>1, SmallestSubset
  <1> USE DEF B
  <1>3. PICK a \in s : SumFunctionOnSet(F, s) # F[a] + SumFunctionOnSet(F, s \ {a})
    OBVIOUS
  <1>4. PICK f : f = First(s) /\ s \ {f} = Rest(s)
    BY DEF Rest
  <1>0. s # {} /\ f \in s
    BY <1>3, <1>4, FirstRest
  <1>5. SumFunctionOnSet(F, s) = F[f] + SumFunctionOnSet(F, s \ {f})
    <2>1. SumFunctionOnSet(F, s) = F[First(s)] + SumFunctionOnSet(F, Rest(s))
      BY <1>0, <1>2, SumRecursion
    <2> QED BY <1>4, <2>1
  <1>6. f # a
    BY <1>3, <1>5
  <1>7. \A b, c \in s : b # c =>
            SumFunctionOnSet(F, s \ {b}) = F[c] + SumFunctionOnSet(F, (s \ {b}) \ {c})
    <2> SUFFICES ASSUME NEW b \in s, NEW c \in s, b # c
                 PROVE  SumFunctionOnSet(F, s \ {b}) = F[c] + SumFunctionOnSet(F, (s \ {b}) \ {c})
      OBVIOUS
    <2>1. s \ {b} \in SUBSET S /\ s \ {b} \subseteq s /\ s \ {b} # s
      OBVIOUS
    <2> QED BY <1>2, <2>1
  <1>8. /\ SumFunctionOnSet(F, s \ {f}) = F[a] + SumFunctionOnSet(F, (s \ {f}) \ {a})
        /\ SumFunctionOnSet(F, s \ {a}) = F[f] + SumFunctionOnSet(F, (s \ {a}) \ {f})
    BY <1>0, <1>3, <1>6, <1>7
  <1>9. PICK t \in SUBSET S : t = (s \ {f}) \ {a} /\ t = (s \ {a}) \ {f} /\ IsFiniteSet(t)
    <2>1. (s \ {f}) \ {a} = (s \ {a}) \ {f} /\ (s \ {f}) \ {a} \in SUBSET S
      OBVIOUS
    <2>2. IsFiniteSet((s \ {f}) \ {a})
      BY <2>1, FS_Subset
    <2> QED BY <2>1, <2>2
  <1>10. \A x \in t : F[x] \in Int
    BY <1>9
  <1>11. F[a] \in Int /\ F[f] \in Int /\ SumFunctionOnSet(F, t) \in Int
    BY <1>0, <1>3, <1>9, <1>10, SumType
  <1>12. /\ SumFunctionOnSet(F, s \ {f}) = F[a] + SumFunctionOnSet(F, t)
         /\ SumFunctionOnSet(F, s \ {a}) = F[f] + SumFunctionOnSet(F, t)
    BY <1>8, <1>9
  <1> HIDE DEF B
  <1> QED BY <1>3, <1>5, <1>11, <1>12

LEMMA SumAdd ==
  ASSUME NEW S, IsFiniteSet(S), NEW F, \A x \in S : F[x] \in Int, NEW a, a \notin S, F[a] \in Int
  PROVE  SumFunctionOnSet(F, S \cup {a}) = F[a] + SumFunctionOnSet(F, S)
  <1>1. PICK T : T = S \cup {a}
    OBVIOUS
  <1>0. T \ {a} = S /\ a \in T
    BY <1>1
  <1>2. IsFiniteSet(T) /\ \A x \in T : F[x] \in Int
    BY <1>1, FS_AddElement
  <1> QED BY <1>0, <1>1, <1>2, SumRemove

(* Terms that are not negative add up to no less over more of them.         *)
LEMMA SumMonotone ==
  ASSUME NEW S, IsFiniteSet(S), NEW F, \A x \in S : F[x] \in Nat
  PROVE  \A T \in SUBSET S : SumFunctionOnSet(F, T) \in Nat
                            /\ SumFunctionOnSet(F, T) <= SumFunctionOnSet(F, S)
  <1> DEFINE B == {s \in SUBSET S : \E T \in SUBSET s :
                      ~(/\ SumFunctionOnSet(F, T) \in Nat
                        /\ SumFunctionOnSet(F, T) <= SumFunctionOnSet(F, s))}
  <1> SUFFICES ASSUME B # {} PROVE FALSE
    OBVIOUS
  <1>1. B \in SUBSET (SUBSET S)
    OBVIOUS
  <1> HIDE DEF B
  <1>2. PICK s \in B : IsFiniteSet(s) /\ \A u \in B : u \subseteq s => u = s
    BY <1>1, SmallestSubset
  <1> USE DEF B
  <1>3. PICK T \in SUBSET s : ~(/\ SumFunctionOnSet(F, T) \in Nat
                               /\ SumFunctionOnSet(F, T) <= SumFunctionOnSet(F, s))
    BY <1>2
  <1>4. s # {}
    <2>1. s = {} => T = {} /\ SumFunctionOnSet(F, T) = 0 /\ SumFunctionOnSet(F, s) = 0
      BY SumOfNone
    <2> QED BY <1>3, <2>1
  <1>5. ASSUME NEW a \in s
        PROVE  /\ SumFunctionOnSet(F, s) = F[a] + SumFunctionOnSet(F, s \ {a})
               /\ F[a] \in Nat /\ SumFunctionOnSet(F, s \ {a}) \in Nat
               /\ \A U \in SUBSET (s \ {a}) : /\ SumFunctionOnSet(F, U) \in Nat
                                            /\ SumFunctionOnSet(F, U) <= SumFunctionOnSet(F, s \ {a})
    <2>1. \A x \in s : F[x] \in Int
      OBVIOUS
    <2>2. SumFunctionOnSet(F, s) = F[a] + SumFunctionOnSet(F, s \ {a})
      BY <1>2, <2>1, SumRemove
    <2>3. s \ {a} \in SUBSET S /\ s \ {a} \subseteq s /\ s \ {a} # s
      OBVIOUS
    <2>4. s \ {a} \notin B
      BY <1>2, <2>3
    <2>5. \A U \in SUBSET (s \ {a}) : /\ SumFunctionOnSet(F, U) \in Nat
                                     /\ SumFunctionOnSet(F, U) <= SumFunctionOnSet(F, s \ {a})
      BY <2>3, <2>4
    <2>6. s \ {a} \in SUBSET (s \ {a})
      OBVIOUS
    <2> QED BY <2>2, <2>5, <2>6
  <1>6. PICK a \in s : T = s \/ T \in SUBSET (s \ {a})
    BY <1>4
  <1>7. PICK m, n, k : m = SumFunctionOnSet(F, s) /\ n = SumFunctionOnSet(F, s \ {a})
                       /\ k = SumFunctionOnSet(F, T)
    OBVIOUS
  <1>8. m = F[a] + n /\ F[a] \in Nat /\ n \in Nat
    BY <1>5, <1>7
  <1>9. T \in SUBSET (s \ {a}) => k \in Nat /\ k <= n
    BY <1>5, <1>7
  <1>10. T = s => k = m
    BY <1>7
  <1> QED BY <1>3, <1>6, <1>7, <1>8, <1>9, <1>10

(* .. and add up to something exactly when one of them is something.        *)
LEMMA SumPositive ==
  ASSUME NEW S, IsFiniteSet(S), NEW F, \A x \in S : F[x] \in Nat
  PROVE  SumFunctionOnSet(F, S) > 0 <=> \E x \in S : F[x] > 0
  <1>1. ASSUME NEW a \in S, F[a] > 0 PROVE SumFunctionOnSet(F, S) > 0
    <2>1. SumFunctionOnSet(F, S) = F[a] + SumFunctionOnSet(F, S \ {a})
      BY SumRemove
    <2>2. SumFunctionOnSet(F, S \ {a}) \in Nat
      BY SumMonotone
    <2> QED BY <1>1, <2>1, <2>2
  <1>2. ASSUME \A x \in S : F[x] = 0 PROVE SumFunctionOnSet(F, S) = 0
    <2> DEFINE B == {s \in SUBSET S : SumFunctionOnSet(F, s) # 0}
    <2> SUFFICES ASSUME B # {} PROVE FALSE
      OBVIOUS
    <2>1. B \in SUBSET (SUBSET S)
      OBVIOUS
    <2> HIDE DEF B
    <2>2. PICK s \in B : IsFiniteSet(s) /\ \A u \in B : u \subseteq s => u = s
      BY <2>1, SmallestSubset
    <2> USE DEF B
    <2>3. SumFunctionOnSet(F, s) = IF s = {} THEN 0 ELSE F[First(s)] + SumFunctionOnSet(F, Rest(s))
      BY <2>2, SumRecursion
    <2>4. s # {} => First(s) \in S /\ Rest(s) \in SUBSET S /\ Rest(s) \subseteq s /\ Rest(s) # s
      BY FirstRest
    <2>5. s # {} => SumFunctionOnSet(F, Rest(s)) = 0
      BY <2>2, <2>4
    <2> QED BY <1>2, <2>3, <2>4, <2>5
  <1>3. \A x \in S : F[x] = 0 \/ F[x] > 0
    OBVIOUS
  <1> QED BY <1>1, <1>2, <1>3


(* A sum over a set is the sum over a part of it and over the rest.         *)
LEMMA SumSplit ==
  ASSUME NEW S, IsFiniteSet(S), NEW F, \A x \in S : F[x] \in Int, NEW T \in SUBSET S
  PROVE  SumFunctionOnSet(F, S) = SumFunctionOnSet(F, T) + SumFunctionOnSet(F, S \ T)
  <1> DEFINE B == {s \in SUBSET T : SumFunctionOnSet(F, (S \ T) \cup s)
                                       # SumFunctionOnSet(F, s) + SumFunctionOnSet(F, S \ T)}
  <1>1. ASSUME B # {} PROVE FALSE
    <2>1. B \in SUBSET (SUBSET T) /\ IsFiniteSet(T)
      BY FS_Subset
    <2> HIDE DEF B
    <2>2. PICK s \in B : IsFiniteSet(s) /\ \A u \in B : u \subseteq s => u = s
      BY <1>1, <2>1, SmallestSubset
    <2> USE DEF B
    <2>3. s \in SUBSET T /\ IsFiniteSet(S \ T)
      BY <2>2, FS_Subset
    <2>4. SumFunctionOnSet(F, S \ T) \in Int
      BY <2>3, SumType
    <2>5. CASE s = {}
      BY <2>2, <2>4, <2>5, SumOfNone
    <2>6. ASSUME NEW a \in s PROVE FALSE
      <3>1. PICK u : u = (S \ T) \cup s
        OBVIOUS
      <3>2. IsFiniteSet(u) /\ a \in u /\ u \ {a} = (S \ T) \cup (s \ {a}) /\ u \subseteq S
        BY <2>2, <2>3, <2>6, <3>1, FS_Subset
      <3>3. SumFunctionOnSet(F, u) = F[a] + SumFunctionOnSet(F, u \ {a})
        BY <3>2, SumRemove
      <3>4. SumFunctionOnSet(F, s) = F[a] + SumFunctionOnSet(F, s \ {a})
        BY <2>2, <2>3, <2>6, SumRemove
      <3>5. SumFunctionOnSet(F, u \ {a}) = SumFunctionOnSet(F, s \ {a}) + SumFunctionOnSet(F, S \ T)
        BY <2>2, <2>3, <2>6, <3>2
      <3>6. SumFunctionOnSet(F, s \ {a}) \in Int /\ F[a] \in Int
        <4>1. IsFiniteSet(s \ {a}) /\ \A x \in s \ {a} : F[x] \in Int
          BY <2>2, <2>3, FS_Subset
        <4> QED BY <2>3, <2>6, <4>1, SumType
      <3>7. SumFunctionOnSet(F, u) = SumFunctionOnSet(F, s) + SumFunctionOnSet(F, S \ T)
        BY <2>4, <3>3, <3>4, <3>5, <3>6
      <3> QED BY <2>2, <3>1, <3>7
    <2> QED BY <2>5, <2>6
  <1>2. T \notin B
    BY <1>1
  <1> HIDE DEF B
  <1>3. (S \ T) \cup T = S
    OBVIOUS
  <1> USE DEF B
  <1> QED BY <1>2, <1>3

LEMMA SumMinus ==
  ASSUME NEW S, IsFiniteSet(S), NEW F, NEW G, NEW H,
         \A x \in S : F[x] \in Int /\ G[x] \in Int /\ H[x] = F[x] - G[x]
  PROVE  SumFunctionOnSet(H, S) = SumFunctionOnSet(F, S) - SumFunctionOnSet(G, S)
  <1> DEFINE B == {s \in SUBSET S : SumFunctionOnSet(H, s) # SumFunctionOnSet(F, s) - SumFunctionOnSet(G, s)}
  <1>1. ASSUME B # {} PROVE FALSE
    <2>1. B \in SUBSET (SUBSET S)
      OBVIOUS
    <2> HIDE DEF B
    <2>2. PICK s \in B : IsFiniteSet(s) /\ \A u \in B : u \subseteq s => u = s
      BY <1>1, <2>1, SmallestSubset
    <2> USE DEF B
    <2>3. s \in SUBSET S /\ \A x \in s : F[x] \in Int /\ G[x] \in Int /\ H[x] \in Int /\ H[x] = F[x] - G[x]
      BY <2>2
    <2>4. CASE s = {}
      BY <2>2, <2>4, SumOfNone
    <2>5. ASSUME NEW a \in s PROVE FALSE
      <3>1. PICK u : u = s \ {a}
        OBVIOUS
      <3>2. IsFiniteSet(u) /\ u \in SUBSET S /\ u # s /\ u \subseteq s
        BY <2>2, <2>3, <2>5, <3>1, FS_Subset
      <3>3. SumFunctionOnSet(F, s) = F[a] + SumFunctionOnSet(F, u)
        BY <2>2, <2>3, <2>5, <3>1, SumRemove
      <3>4. SumFunctionOnSet(G, s) = G[a] + SumFunctionOnSet(G, u)
        BY <2>2, <2>3, <2>5, <3>1, SumRemove
      <3>5. SumFunctionOnSet(H, s) = H[a] + SumFunctionOnSet(H, u)
        BY <2>2, <2>3, <2>5, <3>1, SumRemove
      <3>6. SumFunctionOnSet(H, u) = SumFunctionOnSet(F, u) - SumFunctionOnSet(G, u)
        BY <2>2, <3>2
      <3>7. SumFunctionOnSet(F, u) \in Int /\ SumFunctionOnSet(G, u) \in Int
        <4>1. \A x \in u : F[x] \in Int /\ G[x] \in Int
          BY <2>3, <3>2
        <4> QED BY <3>2, <4>1, SumType
      <3>8. H[a] = F[a] - G[a] /\ F[a] \in Int /\ G[a] \in Int
        BY <2>3, <2>5
      <3>9. SumFunctionOnSet(H, s) = SumFunctionOnSet(F, s) - SumFunctionOnSet(G, s)
        BY <3>3, <3>4, <3>5, <3>6, <3>7, <3>8
      <3> QED BY <2>2, <3>9
    <2> QED BY <2>4, <2>5
  <1> QED BY <1>1

(* Adding up group by group. The group of x is g[x], and P[k] is group k.   *)
LEMMA SumGroup ==
  ASSUME NEW S, IsFiniteSet(S), NEW F, \A x \in S : F[x] \in Int,
         NEW K, IsFiniteSet(K), NEW g, \A x \in S : g[x] \in K,
         NEW P, \A k \in K : P[k] \subseteq S /\ \A x \in S : x \in P[k] <=> g[x] = k,
         NEW G, \A k \in K : G[k] = SumFunctionOnSet(F, P[k])
  PROVE  SumFunctionOnSet(G, K) = SumFunctionOnSet(F, S)
  <1> DEFINE Of(t) == {x \in S : g[x] \in t}
             B == {t \in SUBSET K : SumFunctionOnSet(G, t) # SumFunctionOnSet(F, Of(t))}
  <1>1. ASSUME B # {} PROVE FALSE
    <2>1. B \in SUBSET (SUBSET K)
      OBVIOUS
    <2> HIDE DEF B
    <2>2. PICK t \in B : IsFiniteSet(t) /\ \A u \in B : u \subseteq t => u = t
      BY <1>1, <2>1, SmallestSubset
    <2> USE DEF B
    <2>3. \A k \in K : G[k] \in Int
      <3> SUFFICES ASSUME NEW k \in K PROVE G[k] \in Int
        OBVIOUS
      <3>1. PICK s : s = P[k]
        OBVIOUS
      <3>2. IsFiniteSet(s) /\ \A x \in s : F[x] \in Int
        BY <3>1, FS_Subset
      <3>3. G[k] = SumFunctionOnSet(F, s)
        BY <3>1
      <3> QED BY <3>2, <3>3, SumType
    <2>4. CASE t = {}
      <3>1. Of(t) = {}
        BY <2>4
      <3> QED BY <2>2, <2>4, <3>1, SumOfNone
    <2>5. ASSUME NEW a \in t PROVE FALSE
      <3>1. PICK u, T, R : u = t \ {a} /\ T = Of(t) /\ R = P[a]
        OBVIOUS
      <3>2. u \in SUBSET K /\ u # t /\ u \subseteq t
        BY <2>2, <2>5, <3>1
      <3>3. SumFunctionOnSet(G, t) = G[a] + SumFunctionOnSet(G, u)
        <4>1. \A k \in t : G[k] \in Int
          BY <2>2, <2>3
        <4> QED BY <2>2, <2>5, <3>1, <4>1, SumRemove
      <3>4. SumFunctionOnSet(G, u) = SumFunctionOnSet(F, Of(u))
        BY <2>2, <3>2
      <3>5. G[a] = SumFunctionOnSet(F, R)
        BY <2>2, <2>5, <3>1
      <3>6. R \in SUBSET T /\ T \ R = Of(u) /\ IsFiniteSet(T) /\ \A x \in T : F[x] \in Int
        <4>1. a \in K /\ R \subseteq S /\ \A x \in S : x \in R <=> g[x] = a
          BY <2>2, <2>5, <3>1
        <4>2. R \subseteq T /\ T \ R = Of(u)
          BY <2>5, <3>1, <4>1
        <4> QED BY <3>1, <4>2, FS_Subset
      <3>7. SumFunctionOnSet(F, T) = SumFunctionOnSet(F, R) + SumFunctionOnSet(F, T \ R)
        BY <3>6, SumSplit
      <3>8. SumFunctionOnSet(G, t) = SumFunctionOnSet(F, T)
        BY <3>3, <3>4, <3>5, <3>6, <3>7
      <3> QED BY <2>2, <3>1, <3>8
    <2> QED BY <2>4, <2>5
  <1>2. Of(K) = S
    OBVIOUS
  <1>3. K \notin B
    BY <1>1
  <1> QED BY <1>2, <1>3

(* Amounts add up to nothing only where there are none.                     *)
LEMMA SumZero ==
  ASSUME NEW S, IsFiniteSet(S), NEW F, \A x \in S : F[x] \in Nat
  PROVE  /\ SumFunctionOnSet(F, S) \in Nat
         /\ SumFunctionOnSet(F, S) = 0 <=> \A x \in S : F[x] = 0
  <1>1. SumFunctionOnSet(F, S) \in Nat
    BY SumMonotone
  <1>2. SumFunctionOnSet(F, S) > 0 <=> \E x \in S : F[x] > 0
    BY SumPositive
  <1> QED BY <1>1, <1>2
=============================================================================
