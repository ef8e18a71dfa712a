-------------------------- MODULE LlmBudgetProofs ---------------------------
(***************************************************************************)
(* Proofs about LlmBudget, for any requests, buckets, quotes and bounds.   *)
(*                                                                         *)
(* RequestOK relates, for each request, the step of its flow with its hold *)
(* and its ledger row: a provider was only called behind a mark, and only  *)
(* the reaper reconciles.  It is inductive request by request, and gives   *)
(* the possible moves of a hold, from which Reservation is refined.  BillOK*)
(* adds what a request may still owe to what it has been charged.          *)
(*                                                                         *)
(* The buckets are sums over requests.  A few lemmas on sums (SumTakes,    *)
(* SumChanges, SumGrows) give what a step of one request does to the sum of*)
(* its buckets: MoneyInv relates reserve, spend and caps to holds and      *)
(* ledger, Booked the spend of a month to the charges made in it.          *)
(***************************************************************************)
EXTENDS LlmBudget, FiniteSetTheorems, WellFoundedInduction, TLAPS

(* A non-empty set of naturals has a least element.                        *)
LEMMA LeastNat ==
    ASSUME NEW T, T \subseteq Nat, T # {}
    PROVE  \E x \in T : \A y \in T : ~(y < x)
<1>1. \E x \in T : \A y \in T : <<y, x>> \notin OpToRel(<, Nat)
  BY NatLessThanWellFounded, WFMin, Zenon
<1>2. PICK x \in T : \A y \in T : <<y, x>> \notin OpToRel(<, Nat)
  BY <1>1
<1>3. ASSUME NEW y \in T, y < x PROVE FALSE
  <2>1. <<y, x>> \in Nat \X Nat /\ <<y, x>>[1] < <<y, x>>[2]
    BY <1>3
  <2>2. <<y, x>> \in OpToRel(<, Nat)
    BY <2>1 DEF OpToRel
  <2> QED BY <1>2, <2>2
<1> QED BY <1>3

(* A non-empty set of subsets of a finite set has a smallest member.       *)
LEMMA SmallestSet ==
    ASSUME NEW S, IsFiniteSet(S), NEW B, B \subseteq SUBSET S, B # {}
    PROVE  \E T \in B : \A x \in T : T \ {x} \notin B
<1> DEFINE Sizes == {Cardinality(T) : T \in B}
<1>1. \A T \in B : IsFiniteSet(T) /\ Cardinality(T) \in Nat
  BY FS_Subset, FS_CardinalityType
<1>2. Sizes \subseteq Nat /\ Sizes # {}
  BY <1>1
<1>3. PICK n \in Sizes : \A m \in Sizes : ~(m < n)
  <2> HIDE DEF Sizes
  <2> QED BY <1>2, LeastNat
<1>4. PICK T \in B : n = Cardinality(T)
  BY <1>3
<1>5. ASSUME NEW x \in T, T \ {x} \in B PROVE FALSE
  <2>1. Cardinality(T \ {x}) = Cardinality(T) - 1
    BY <1>1, <1>4, FS_RemoveElement
  <2>2. Cardinality(T \ {x}) \in Sizes
    BY <1>5
  <2>3. Cardinality(T \ {x}) < n
    BY <1>1, <1>4, <2>1
  <2> HIDE DEF Sizes
  <2> QED BY <1>3, <2>2, <2>3
<1> QED BY <1>4, <1>5

-----------------------------------------------------------------------------
(* Sums over a finite set of requests.  SumFunctionOnSet takes the elements*)
(* of the set one by one, each the one that CHOOSE names; g tells the sum  *)
(* of f over every subset of S.                                            *)

Any(T) == CHOOSE x \in T : TRUE
Add(f, g, T) == IF T = {} THEN 0 ELSE f[Any(T)] + g[T \ {Any(T)}]
IsSum(f, g, S) == \A T \in SUBSET S : g[T] = Add(f, g, T)

LEMMA AnyIn ==
    ASSUME NEW T, T # {}
    PROVE  Any(T) \in T
BY DEF Any

LEMMA SumUnique ==
    ASSUME NEW f, NEW S, IsFiniteSet(S), NEW g, NEW h, NEW U, NEW V,
           S \subseteq U, S \subseteq V, IsSum(f, g, U), IsSum(f, h, V)
    PROVE  g[S] = h[S]
<1> DEFINE B == {T \in SUBSET S : g[T] # h[T]}
<1>1. SUFFICES ASSUME B # {} PROVE FALSE
  OBVIOUS
<1>2. PICK T \in B : \A x \in T : T \ {x} \notin B
  <2>1. B \subseteq SUBSET S
    OBVIOUS
  <2> HIDE DEF B
  <2> QED BY <1>1, <2>1, SmallestSet
<1>3. T \in SUBSET U /\ T \in SUBSET V /\ g[T] # h[T]
  OBVIOUS
<1>4. g[T] = Add(f, g, T) /\ h[T] = Add(f, h, T)
  BY <1>3 DEF IsSum
<1>5. T # {}
  BY <1>3, <1>4 DEF Add
<1>6. g[T \ {Any(T)}] = h[T \ {Any(T)}]
  BY <1>2, <1>5, AnyIn
<1> QED BY <1>3, <1>4, <1>6 DEF Add

LEMMA SumExists ==
    ASSUME NEW S, IsFiniteSet(S), NEW f \in [S -> Int]
    PROVE  \E g \in [SUBSET S -> Int] : IsSum(f, g, S)
<1> DEFINE Has(T) == \E g \in [SUBSET T -> Int] : IsSum(f, g, T)
           B == {T \in SUBSET S : ~Has(T)}
<1>1. SUFFICES ASSUME B # {} PROVE FALSE
  OBVIOUS
<1>2. PICK T \in B : \A x \in T : T \ {x} \notin B
  <2>1. B \subseteq SUBSET S
    OBVIOUS
  <2> HIDE DEF B
  <2> QED BY <1>1, <2>1, SmallestSet
<1>3. T \in SUBSET S /\ IsFiniteSet(T) /\ ~Has(T)
  BY <1>2, FS_Subset
<1>4. \A x \in T : Has(T \ {x})
  BY <1>2, <1>3
<1> DEFINE G(x) == CHOOSE g \in [SUBSET (T \ {x}) -> Int] : IsSum(f, g, T \ {x})
<1>5. ASSUME NEW x \in T
      PROVE  G(x) \in [SUBSET (T \ {x}) -> Int] /\ IsSum(f, G(x), T \ {x})
  BY <1>4, Zenon
<1> HIDE DEF Has, G
<1> DEFINE Out(Z) == CHOOSE x \in T : x \notin Z
           g == [Z \in SUBSET T |-> IF Z # T THEN G(Out(Z))[Z]
                                    ELSE IF T = {} THEN 0
                                    ELSE f[Any(T)] + G(Any(T))[T \ {Any(T)}]]
<1>6. ASSUME NEW Z \in SUBSET T, Z # T
      PROVE  Out(Z) \in T /\ Z \in SUBSET (T \ {Out(Z)})
  <2>1. \E x \in T : x \notin Z
    BY <1>6
  <2>2. Out(Z) \in T /\ Out(Z) \notin Z
    BY <2>1
  <2> QED BY <2>2
<1> HIDE DEF Out
<1>7. ASSUME NEW Z \in SUBSET T, NEW x \in T, x \notin Z, NEW y \in T, y \notin Z
      PROVE  G(x)[Z] = G(y)[Z]
  <2>1. IsFiniteSet(Z) /\ Z \subseteq T \ {x} /\ Z \subseteq T \ {y}
    BY <1>3, <1>7, FS_Subset
  <2> QED BY <1>5, <2>1, SumUnique
<1>8. g \in [SUBSET T -> Int]
  <2> SUFFICES ASSUME NEW Z \in SUBSET T
               PROVE  (IF Z # T THEN G(Out(Z))[Z]
                       ELSE IF T = {} THEN 0
                       ELSE f[Any(T)] + G(Any(T))[T \ {Any(T)}]) \in Int
    OBVIOUS
  <2>0. ASSUME NEW x \in T, NEW Q \in SUBSET (T \ {x}) PROVE G(x)[Q] \in Int
    <3>1. G(x) \in [SUBSET (T \ {x}) -> Int]
      BY <1>5
    <3> QED BY <3>1
  <2>1. Z # T => G(Out(Z))[Z] \in Int
    BY <1>6, <2>0
  <2>2. CASE Z = T /\ T # {}
    <3>1. Any(T) \in T /\ T \ {Any(T)} \in SUBSET (T \ {Any(T)})
      BY <2>2, AnyIn
    <3>2. f[Any(T)] \in Int /\ G(Any(T))[T \ {Any(T)}] \in Int
      BY <1>3, <2>0, <3>1
    <3> QED BY <2>2, <3>2
  <2> QED BY <2>1, <2>2
<1>9. ASSUME NEW Z \in SUBSET T PROVE g[Z] = Add(f, g, Z)
  <2>1. CASE Z = {}
    <3>1. CASE T = {}
      BY <2>1, <3>1 DEF Add
    <3>2. CASE T # {}
      <4>1. Z # T /\ g[Z] = G(Out(Z))[Z]
        BY <2>1, <3>2
      <4>2. G(Out(Z))[Z] = Add(f, G(Out(Z)), Z)
        BY <1>5, <1>6, <4>1 DEF IsSum
      <4> QED BY <2>1, <4>1, <4>2 DEF Add
    <3> QED BY <3>1, <3>2
  <2>2. CASE Z # {} /\ Z # T
    <3>1. Out(Z) \in T /\ Z \in SUBSET (T \ {Out(Z)}) /\ Any(Z) \in Z
      BY <1>6, <2>2, AnyIn
    <3>2. G(Out(Z))[Z] = f[Any(Z)] + G(Out(Z))[Z \ {Any(Z)}]
      BY <1>5, <2>2, <3>1 DEF IsSum, Add
    <3>3. Z \ {Any(Z)} \in SUBSET T /\ Z \ {Any(Z)} # T
      BY <2>2, <3>1
    <3>4. Out(Z \ {Any(Z)}) \in T /\ Out(Z \ {Any(Z)}) \notin Z \ {Any(Z)}
      BY <1>6, <3>3
    <3>5. G(Out(Z))[Z \ {Any(Z)}] = G(Out(Z \ {Any(Z)}))[Z \ {Any(Z)}]
      BY <1>7, <3>1, <3>3, <3>4
    <3>6. g[Z] = G(Out(Z))[Z] /\ g[Z \ {Any(Z)}] = G(Out(Z \ {Any(Z)}))[Z \ {Any(Z)}]
      BY <2>2, <3>3
    <3> HIDE DEF g
    <3> QED BY <2>2, <3>2, <3>5, <3>6 DEF Add
  <2>3. CASE Z # {} /\ Z = T
    <3>1. Any(T) \in T /\ T \ {Any(T)} \in SUBSET T /\ T \ {Any(T)} # T
      BY <2>3, AnyIn
    <3>2. Out(T \ {Any(T)}) \in T /\ Out(T \ {Any(T)}) \notin T \ {Any(T)}
      BY <1>6, <3>1
    <3>3. Out(T \ {Any(T)}) = Any(T)
      BY <3>2
    <3>4. g[T \ {Any(T)}] = G(Any(T))[T \ {Any(T)}]
      BY <3>1, <3>3
    <3>5. g[T] = f[Any(T)] + G(Any(T))[T \ {Any(T)}]
      BY <2>3
    <3> HIDE DEF g
    <3> QED BY <2>3, <3>4, <3>5 DEF Add
  <2> QED BY <2>1, <2>2, <2>3
<1> HIDE DEF g
<1>10. Has(T)
  BY <1>8, <1>9 DEF Has, IsSum
<1> QED BY <1>3, <1>10

LEMMA SumIs ==
    ASSUME NEW S, IsFiniteSet(S), NEW f \in [S -> Int], NEW T \in SUBSET S,
           NEW g \in [SUBSET S -> Int], IsSum(f, g, S)
    PROVE  SumFunctionOnSet(f, T) = g[T]
<1> DEFINE F == CHOOSE h : h = [Z \in SUBSET T |->
                                  IF Z = {} THEN 0
                                  ELSE f[CHOOSE x \in Z : TRUE] + h[Z \ {CHOOSE x \in Z : TRUE}]]
<1>1. SumFunctionOnSet(f, T) = F[T]
  BY DEF SumFunctionOnSet, FoldFunctionOnSet, MapThenFoldSet
<1> DEFINE h == [Z \in SUBSET T |-> g[Z]]
<1>2. h = [Z \in SUBSET T |->
                                  IF Z = {} THEN 0
                                  ELSE f[CHOOSE x \in Z : TRUE] + h[Z \ {CHOOSE x \in Z : TRUE}]]
  <2>1. ASSUME NEW Z \in SUBSET T
        PROVE  g[Z] = IF Z = {} THEN 0
                      ELSE f[CHOOSE x \in Z : TRUE] + h[Z \ {CHOOSE x \in Z : TRUE}]
    BY DEF IsSum, Add, Any
  <2> QED BY <2>1
<1>3. F = [Z \in SUBSET T |->
                                  IF Z = {} THEN 0
                                  ELSE f[CHOOSE x \in Z : TRUE] + F[Z \ {CHOOSE x \in Z : TRUE}]]
  BY <1>2
<1> HIDE DEF F, h
<1>4. IsSum(f, F, T)
  <2> SUFFICES ASSUME NEW Z \in SUBSET T PROVE F[Z] = Add(f, F, Z)
    BY DEF IsSum
  <2>1. F[Z] = IF Z = {} THEN 0
               ELSE f[CHOOSE x \in Z : TRUE] + F[Z \ {CHOOSE x \in Z : TRUE}]
    BY <1>3
  <2> QED BY <2>1 DEF Add, Any
<1>5. IsFiniteSet(T)
  BY FS_Subset
<1> QED BY <1>1, <1>4, <1>5, SumUnique

(* A sum is a number; of nothing, it is zero.                              *)
LEMMA SumType ==
    ASSUME NEW S, IsFiniteSet(S), NEW f \in [S -> Int], NEW T \in SUBSET S
    PROVE  SumFunctionOnSet(f, T) \in Int /\ SumFunctionOnSet(f, {}) = 0
<1>1. PICK g \in [SUBSET S -> Int] : IsSum(f, g, S)
  BY SumExists
<1>2. SumFunctionOnSet(f, T) = g[T] /\ SumFunctionOnSet(f, {}) = g[{}]
  BY <1>1, SumIs
<1> QED BY <1>1, <1>2 DEF IsSum, Add

(* Any element may be taken out first.                                     *)
LEMMA SumTakes ==
    ASSUME NEW S, IsFiniteSet(S), NEW f \in [S -> Int], NEW T \in SUBSET S, NEW x \in T
    PROVE  SumFunctionOnSet(f, T) = f[x] + SumFunctionOnSet(f, T \ {x})
<1>1. PICK g \in [SUBSET S -> Int] : IsSum(f, g, S)
  BY SumExists
<1> DEFINE B == {U \in SUBSET S : \E y \in U : g[U] # f[y] + g[U \ {y}]}
<1>2. B = {}
  <2> SUFFICES ASSUME B # {} PROVE FALSE
    OBVIOUS
  <2>1. PICK U \in B : \A y \in U : U \ {y} \notin B
    <3>1. B \subseteq SUBSET S
      OBVIOUS
    <3> HIDE DEF B
    <3> QED BY <3>1, SmallestSet
  <2>2. PICK y \in U : g[U] # f[y] + g[U \ {y}]
    BY <2>1
  <2> DEFINE a == Any(U)
             W == U \ {a, y}
  <2>3. U \in SUBSET S /\ a \in U /\ g[U] = f[a] + g[U \ {a}]
    BY <1>1, <2>1, <2>2, AnyIn DEF IsSum, Add
  <2> HIDE DEF a
  <2>4. a # y
    BY <2>2, <2>3
  <2>5. /\ (U \ {a}) \in SUBSET S /\ (U \ {y}) \in SUBSET S /\ W \in SUBSET S
        /\ y \in U \ {a} /\ a \in U \ {y}
        /\ (U \ {a}) \ {y} = W /\ (U \ {y}) \ {a} = W
    BY <2>3, <2>4
  <2>6. U \ {a} \notin B /\ U \ {y} \notin B
    BY <2>1, <2>3
  <2>7. g[U \ {a}] = f[y] + g[W] /\ g[U \ {y}] = f[a] + g[W]
    BY <2>5, <2>6
  <2>8. f[a] \in Int /\ f[y] \in Int /\ g[W] \in Int
    BY <1>1, <2>3, <2>5
  <2> QED BY <2>2, <2>3, <2>7, <2>8
<1>3. g[T] = f[x] + g[T \ {x}]
  BY <1>2
<1>4. SumFunctionOnSet(f, T) = g[T] /\ SumFunctionOnSet(f, T \ {x}) = g[T \ {x}]
  BY <1>1, SumIs
<1> QED BY <1>3, <1>4

(* A sum of larger amounts is larger.                                      *)
LEMMA SumGrows ==
    ASSUME NEW S, IsFiniteSet(S), NEW f \in [S -> Int], NEW g \in [S -> Int],
           NEW T \in SUBSET S, \A x \in T : f[x] <= g[x]
    PROVE  SumFunctionOnSet(f, T) <= SumFunctionOnSet(g, T)
<1> DEFINE Covered(U) == SumFunctionOnSet(f, U) <= SumFunctionOnSet(g, U)
           B == {U \in SUBSET T : ~Covered(U)}
<1>1. SUFFICES ASSUME B # {} PROVE FALSE
  OBVIOUS
<1>2. PICK U \in B : \A x \in U : U \ {x} \notin B
  <2>1. B \subseteq SUBSET T /\ IsFiniteSet(T)
    BY FS_Subset
  <2> HIDE DEF B
  <2> QED BY <1>1, <2>1, SmallestSet
<1>3. U \in SUBSET T /\ ~Covered(U) /\ \A x \in U : Covered(U \ {x})
  BY <1>2
<1>4. \A V \in SUBSET S : /\ SumFunctionOnSet(f, V) \in Int /\ SumFunctionOnSet(f, {}) = 0
                          /\ SumFunctionOnSet(g, V) \in Int /\ SumFunctionOnSet(g, {}) = 0
  BY SumType
<1>5. PICK x \in U : TRUE
  BY <1>3, <1>4
<1>6. /\ SumFunctionOnSet(f, U) = f[x] + SumFunctionOnSet(f, U \ {x})
      /\ SumFunctionOnSet(g, U) = g[x] + SumFunctionOnSet(g, U \ {x})
  BY <1>3, SumTakes
<1>7. f[x] \in Int /\ g[x] \in Int /\ f[x] <= g[x]
  BY <1>3
<1>8. SumFunctionOnSet(f, U \ {x}) \in Int /\ SumFunctionOnSet(g, U \ {x}) \in Int
  BY <1>3, <1>4
<1> QED BY <1>3, <1>6, <1>7, <1>8

(* Only the amount of x has changed.                                       *)
LEMMA SumChanges ==
    ASSUME NEW S, IsFiniteSet(S), NEW f \in [S -> Int], NEW g \in [S -> Int],
           NEW T \in SUBSET S, NEW x \in S, \A y \in T \ {x} : f[y] = g[y]
    PROVE  /\ x \in T => SumFunctionOnSet(g, T) = SumFunctionOnSet(f, T) + (g[x] - f[x])
           /\ x \notin T => SumFunctionOnSet(g, T) = SumFunctionOnSet(f, T)
<1>1. ASSUME NEW U \in SUBSET S, \A y \in U : f[y] = g[y]
      PROVE  SumFunctionOnSet(f, U) = SumFunctionOnSet(g, U)
  <2>1. \A y \in U : f[y] <= g[y] /\ g[y] <= f[y]
    BY <1>1
  <2>2. /\ SumFunctionOnSet(f, U) <= SumFunctionOnSet(g, U)
        /\ SumFunctionOnSet(g, U) <= SumFunctionOnSet(f, U)
    BY <2>1, SumGrows
  <2>3. SumFunctionOnSet(f, U) \in Int /\ SumFunctionOnSet(g, U) \in Int
    BY SumType
  <2> QED BY <2>2, <2>3
<1>2. CASE x \notin T
  BY <1>1, <1>2
<1>3. CASE x \in T
  <2>1. /\ SumFunctionOnSet(f, T) = f[x] + SumFunctionOnSet(f, T \ {x})
        /\ SumFunctionOnSet(g, T) = g[x] + SumFunctionOnSet(g, T \ {x})
    BY <1>3, SumTakes
  <2>2. SumFunctionOnSet(f, T \ {x}) = SumFunctionOnSet(g, T \ {x})
    BY <1>1
  <2>3. SumFunctionOnSet(f, T \ {x}) \in Int /\ f[x] \in Int /\ g[x] \in Int
    BY SumType
  <2> QED BY <1>3, <2>1, <2>2, <2>3
<1> QED BY <1>2, <1>3

LEMMA SumZero ==
    ASSUME NEW S, IsFiniteSet(S), NEW f \in [S -> Int], NEW T \in SUBSET S,
           \A x \in T : f[x] = 0
    PROVE  SumFunctionOnSet(f, T) = 0
<1> DEFINE B == {U \in SUBSET T : SumFunctionOnSet(f, U) # 0}
<1>1. SUFFICES ASSUME B # {} PROVE FALSE
  OBVIOUS
<1>2. PICK U \in B : \A y \in U : U \ {y} \notin B
  <2>1. B \subseteq SUBSET T /\ IsFiniteSet(T)
    BY FS_Subset
  <2> HIDE DEF B
  <2> QED BY <1>1, <2>1, SmallestSet
<1>3. U \in SUBSET T /\ SumFunctionOnSet(f, U) # 0
  BY <1>2
<1>4. SumFunctionOnSet(f, {}) = 0
  BY SumType
<1>5. PICK y \in U : TRUE
  BY <1>3, <1>4
<1>6. SumFunctionOnSet(f, U \ {y}) = 0
  BY <1>2, <1>5
<1>7. SumFunctionOnSet(f, U) = f[y] + SumFunctionOnSet(f, U \ {y})
  BY <1>3, <1>5, SumTakes
<1>8. f[y] = 0
  BY <1>3, <1>5
<1> QED BY <1>3, <1>6, <1>7, <1>8

(* A sum of naturals is a natural, and covers each of them.                *)
LEMMA SumCovers ==
    ASSUME NEW S, IsFiniteSet(S), NEW f \in [S -> Nat], NEW T \in SUBSET S
    PROVE  /\ SumFunctionOnSet(f, T) \in Nat
           /\ \A x \in T : f[x] <= SumFunctionOnSet(f, T)
<1> DEFINE zero == [x \in S |-> 0]
<1>0. f \in [S -> Int] /\ zero \in [S -> Int]
  OBVIOUS
<1>1. ASSUME NEW U \in SUBSET S PROVE SumFunctionOnSet(zero, U) = 0
  <2>1. \A x \in U : zero[x] = 0
    OBVIOUS
  <2> HIDE DEF zero
  <2> QED BY <1>0, <2>1, SumZero
<1>2. ASSUME NEW U \in SUBSET S PROVE SumFunctionOnSet(f, U) \in Nat
  <2>1. SumFunctionOnSet(zero, U) = 0
    BY <1>1
  <2>2. \A x \in U : zero[x] <= f[x]
    OBVIOUS
  <2>3. SumFunctionOnSet(zero, U) <= SumFunctionOnSet(f, U)
    <3> HIDE DEF zero
    <3> QED BY <1>0, <2>2, SumGrows
  <2>4. SumFunctionOnSet(f, U) \in Int
    BY <1>0, SumType
  <2> QED BY <2>1, <2>3, <2>4
<1>3. ASSUME NEW x \in T PROVE f[x] <= SumFunctionOnSet(f, T)
  <2>1. SumFunctionOnSet(f, T) = f[x] + SumFunctionOnSet(f, T \ {x})
    BY <1>0, SumTakes
  <2>2. f[x] \in Nat /\ SumFunctionOnSet(f, T \ {x}) \in Nat
    BY <1>2
  <2> QED BY <2>1, <2>2
<1> QED BY <1>2, <1>3

-----------------------------------------------------------------------------
(* The arithmetic of LlmPricing                                            *)

LEMMA LargerNat ==
    ASSUME NEW m \in Int, NEW n \in Int
    PROVE  /\ Larger(m, n) \in Int /\ Larger(m, n) >= m /\ Larger(m, n) >= n
           /\ (m \in Nat \/ n \in Nat => Larger(m, n) \in Nat)
           /\ Larger(m, n) = m \/ Larger(m, n) = n
BY DEF Larger

LEMMA ProductNat ==
    ASSUME NEW m \in Nat, NEW n \in Nat
    PROVE  m * n \in Nat
OBVIOUS

LEMMA ProductGrows ==
    ASSUME NEW m \in Nat, NEW n \in Nat, m <= n, NEW k \in Nat
    PROVE  m * k <= n * k
<1>1. PICK d \in Nat : n = m + d
  <2>1. n - m \in Nat /\ n = m + (n - m)
    OBVIOUS
  <2> QED BY <2>1
<1>2. (m + d) * k = m * k + d * k
  OBVIOUS
<1>3. m * k \in Nat /\ d * k \in Nat
  BY ProductNat
<1> QED BY <1>1, <1>2, <1>3

LEMMA PerMtokNat ==
    ASSUME NEW t \in Nat, NEW rate \in Nat
    PROVE  PerMtok(t, rate) \in Nat
<1>1. t * rate \in Nat
  BY ProductNat
<1> DEFINE n == t * rate
<1> HIDE DEF n
<1>2. n \in Nat => (n + 999999) \div 1000000 \in Nat
  OBVIOUS
<1> QED BY <1>1, <1>2 DEF PerMtok, n

LEMMA PerMtokGrows ==
    ASSUME NEW t \in Nat, NEW u \in Nat, t <= u, NEW rate \in Nat
    PROVE  PerMtok(t, rate) <= PerMtok(u, rate)
<1>1. t * rate \in Nat /\ u * rate \in Nat /\ t * rate <= u * rate
  BY ProductNat, ProductGrows
<1> DEFINE m == t * rate
           n == u * rate
<1> HIDE DEF m, n
<1>2. m \in Nat /\ n \in Nat /\ m <= n => (m + 999999) \div 1000000 <= (n + 999999) \div 1000000
  OBVIOUS
<1> QED BY <1>1, <1>2 DEF PerMtok, m, n

LEMMA OutputRateNat ==
    ASSUME NEW price \in Prices
    PROVE  OutputRate(price) \in Nat
BY DEF OutputRate, Larger, Prices

LEMMA TokenCostNat ==
    ASSUME NEW price \in Prices, NEW i \in Nat, NEW o \in Nat
    PROVE  TokenCost(price, i, o) \in Nat
<1>1. price.input \in Nat /\ price.minCharge \in Nat /\ OutputRate(price) \in Nat
  BY OutputRateNat DEF Prices
<1>2. PerMtok(i, price.input) \in Nat /\ PerMtok(o, OutputRate(price)) \in Nat
  BY <1>1, PerMtokNat
<1> QED BY <1>1, <1>2 DEF TokenCost, Larger

(* More tokens never cost less.                                            *)
LEMMA TokenCostGrows ==
    ASSUME NEW price \in Prices, NEW i \in Nat, NEW o \in Nat,
           NEW j \in Nat, NEW q \in Nat, i <= j, o <= q
    PROVE  TokenCost(price, i, o) <= TokenCost(price, j, q)
<1>1. price.input \in Nat /\ price.minCharge \in Nat /\ OutputRate(price) \in Nat
  BY OutputRateNat DEF Prices
<1>2. /\ PerMtok(i, price.input) \in Nat /\ PerMtok(o, OutputRate(price)) \in Nat
      /\ PerMtok(j, price.input) \in Nat /\ PerMtok(q, OutputRate(price)) \in Nat
  BY <1>1, PerMtokNat
<1>3. /\ PerMtok(i, price.input) <= PerMtok(j, price.input)
      /\ PerMtok(o, OutputRate(price)) <= PerMtok(q, OutputRate(price))
  BY <1>1, PerMtokGrows
<1> QED BY <1>1, <1>2, <1>3 DEF TokenCost, Larger

LEMMA WithMarginCovers ==
    ASSUME NEW t \in Nat, NEW percent \in Nat
    PROVE  WithMargin(t, percent) \in Nat /\ t <= WithMargin(t, percent)
<1>1. t * (100 + percent) = 100 * t + t * percent /\ t * percent \in Nat
  BY ProductNat
<1> DEFINE n == t * percent
<1> HIDE DEF n
<1>2. n \in Nat => /\ (100 * t + n + 99) \div 100 \in Nat
                   /\ t <= (100 * t + n + 99) \div 100
  OBVIOUS
<1> QED BY <1>1, <1>2 DEF WithMargin, n

LEMMA AttemptLiabilityNat ==
    ASSUME NEW c \in Candidates, NEW percent \in Nat
    PROVE  AttemptLiability(c, percent) \in Nat /\ ReservedOutput(c) \in Nat
<1>1. c.price \in Prices /\ c.inputTokens \in Nat /\ ReservedOutput(c) \in Nat
      /\ WithMargin(c.inputTokens, percent) \in Nat
  BY WithMarginCovers DEF Candidates, ReservedOutput, Larger
<1> QED BY <1>1, TokenCostNat DEF AttemptLiability

LEMMA ChargedUsageType ==
    ASSUME NEW c \in Candidates, NEW u \in Usages
    PROVE  /\ c.price \in Prices /\ c.inputTokens \in Nat /\ c.outputTokens \in Nat
           /\ u.inputTokens \in Nat /\ u.outputTokens \in Nat
           /\ ChargedUsage(c, u).inputTokens \in Nat /\ ChargedUsage(c, u).outputTokens \in Nat
BY DEF Candidates, Usages, ChargedUsage, Larger

LEMMA AttemptCostNat ==
    ASSUME NEW c \in Candidates, NEW u \in Usages
    PROVE  AttemptCost(c, u) \in Nat
BY ChargedUsageType, TokenCostNat DEF AttemptCost, UsageCost

(* What an attempt is charged, whether its usage was measured or not, is   *)
(* covered by what was reserved for it, as long as the provider reports no *)
(* more than the attempt was allowed (gateway admission.ts:236-286 against *)
(* budget-admission.ts:227-237).                                           *)
THEOREM AllowanceCovered ==
    ASSUME NEW c \in Candidates, NEW u \in Usages, WithinAllowance(c, u),
           NEW percent \in Nat
    PROVE  AttemptCost(c, u) <= AttemptLiability(c, percent)
<1> DEFINE v == ChargedUsage(c, u)
<1>1. /\ c.price \in Prices /\ v.inputTokens \in Nat /\ v.outputTokens \in Nat
      /\ c.inputTokens \in Nat /\ c.outputTokens \in Nat
  BY ChargedUsageType
<1>2. v.inputTokens <= c.inputTokens /\ v.outputTokens <= c.outputTokens
  BY ChargedUsageType DEF WithinAllowance, ChargedUsage, Larger
<1>3. c.inputTokens <= WithMargin(c.inputTokens, percent)
      /\ WithMargin(c.inputTokens, percent) \in Nat
  BY <1>1, WithMarginCovers
<1>4. ReservedOutput(c) \in Nat /\ c.outputTokens <= ReservedOutput(c)
  BY DEF ReservedOutput, Larger, Candidates
<1>5. TokenCost(c.price, v.inputTokens, v.outputTokens) <= AttemptLiability(c, percent)
  <2>1. v.inputTokens <= WithMargin(c.inputTokens, percent) /\ v.outputTokens <= ReservedOutput(c)
    BY <1>1, <1>2, <1>3, <1>4
  <2> QED BY <1>1, <1>3, <1>4, <2>1, TokenCostGrows DEF AttemptLiability
<1> QED BY <1>5, AttemptLiabilityNat DEF AttemptCost, UsageCost

-----------------------------------------------------------------------------
(* The liability of a request                                              *)

LEMMA DearestExists ==
    ASSUME NEW C, C \subseteq Candidates, C # {}, IsFiniteSet(C), NEW percent \in Nat
    PROVE  \E c \in C : \A d \in C : AttemptLiability(d, percent) <= AttemptLiability(c, percent)
<1>0. PICK n \in Nat : ExistsBijection(1..n, C)
  BY FS_NatBijection
<1>1. PICK f : f \in Surjection(1..n, C)
  BY <1>0 DEF ExistsBijection, Bijection
<1>2. f \in [1..n -> C] /\ \A c \in C : \E i \in 1..n : f[i] = c
  BY <1>1 DEF Surjection
<1> DEFINE cost[i \in 1..n] == AttemptLiability(f[i], percent)
           Bad == {k \in 1..n : \A m \in 1..k : \E i \in 1..k : cost[i] > cost[m]}
<1>3. \A i \in 1..n : cost[i] = AttemptLiability(f[i], percent) /\ cost[i] \in Nat
  BY <1>2, AttemptLiabilityNat
<1>4. n \in 1..n
  BY <1>2
<1> HIDE DEF cost
<1>5. Bad = {}
  <2> SUFFICES ASSUME Bad # {} PROVE FALSE
    OBVIOUS
  <2>1. PICK k \in Bad : \A y \in Bad : ~(y < k)
    <3>1. Bad \subseteq Nat
      OBVIOUS
    <3> HIDE DEF Bad
    <3> QED BY <3>1, LeastNat
  <2>2. k \in 1..n /\ \A m \in 1..k : \E i \in 1..k : cost[i] > cost[m]
    BY <2>1
  <2>3. CASE k = 1
    <3>1. PICK i \in 1..1 : cost[i] > cost[1]
      BY <2>2, <2>3
    <3> QED BY <1>3, <1>4, <3>1
  <2>4. CASE k > 1
    <3>1. k - 1 \in 1..n /\ k - 1 < k
      BY <2>2, <2>4, <1>0
    <3>2. PICK m \in 1..(k - 1) : \A i \in 1..(k - 1) : ~(cost[i] > cost[m])
      <4>1. k - 1 \notin Bad
        BY <2>1, <3>1
      <4> QED BY <3>1, <4>1
    <3>3. m \in 1..n /\ m \in 1..k /\ k \in 1..k
      BY <2>2, <3>1
    <3>4. \A i \in 1..k : i \in 1..(k - 1) \/ i = k
      BY <2>2
    <3>5. PICK i \in 1..k : cost[i] > cost[m]
      BY <2>2, <3>3
    <3>6. i = k /\ cost[k] > cost[m]
      BY <3>2, <3>4, <3>5
    <3>7. PICK j \in 1..k : cost[j] > cost[k]
      BY <2>2, <3>3
    <3>8. cost[j] \in Nat /\ cost[k] \in Nat /\ cost[m] \in Nat
      BY <1>3, <2>2, <3>3
    <3>9. j # k
      BY <3>7, <3>8
    <3>10. ~(cost[j] > cost[m])
      BY <3>2, <3>4, <3>9
    <3> QED BY <3>6, <3>7, <3>8, <3>10
  <2> QED BY <2>2, <2>3, <2>4
<1>6. PICK m \in 1..n : \A i \in 1..n : ~(cost[i] > cost[m])
  BY <1>4, <1>5
<1>7. \A d \in C : AttemptLiability(d, percent) <= AttemptLiability(f[m], percent)
  BY <1>2, <1>3, <1>6
<1> QED BY <1>2, <1>7

LEMMA OnceIs ==
    ASSUME NEW r \in Requests, NEW percent \in Nat
    PROVE  /\ QuoteLiabilityOnce(Quote[r], percent) \in Nat
           /\ \A c \in Quote[r].candidates :
                 AttemptLiability(c, percent) <= QuoteLiabilityOnce(Quote[r], percent)
<1> DEFINE C == Quote[r].candidates
           P(n) == \A c \in C : AttemptLiability(c, percent) <= n
           S == {AttemptLiability(c, percent) : c \in C}
<1>1. C \subseteq Candidates /\ C # {} /\ IsFiniteSet(C)
  BY QuoteAssumption DEF Quotes
<1>2. \E n \in S : P(n)
  BY <1>1, DearestExists
<1>3. LET n == CHOOSE n \in S : P(n) IN n \in S /\ P(n)
  BY <1>2, Zenon
<1>4. QuoteLiabilityOnce(Quote[r], percent) \in S /\ P(QuoteLiabilityOnce(Quote[r], percent))
  BY <1>3 DEF QuoteLiabilityOnce
<1> QED BY <1>1, <1>4, AttemptLiabilityNat

LEMMA LiabilityNat ==
    ASSUME NEW r \in Requests
    PROVE  Liability(r) \in Nat
<1>1. Quote[r].maxAttempts \in Nat
  BY QuoteAssumption DEF Quotes
<1>2. QuoteLiabilityOnce(Quote[r], IF r \in Decisions THEN 0 ELSE Margin) \in Nat
  BY OnceIs, QuoteAssumption
<1> QED BY <1>1, <1>2, ProductNat DEF Liability, QuoteLiability

-----------------------------------------------------------------------------
(* The invariant.  A hold that is not dispatched has not been marked and   *)
(* its provider not called; only a closed hold has a financial row, and it *)
(* is the row that its status says; a request that has been corrected or   *)
(* settled takes no further step.                                          *)

RequestOK(r) ==
    /\ pc[r] = "new" => hold[r] = "none"
    /\ hold[r] \in {"none", "held"} => ~marked[r]
    /\ hold[r] = "dispatched" => marked[r]
    /\ hold[r] \in {"none", "held", "released"} => ~called[r]
    /\ pc[r] = "marked" => hold[r] \in {"dispatched", "reconciled"}
    /\ r \in Decisions /\ pc[r] \in {"new", "ready", "marked", "releasing"} => ~called[r]
    /\ r \notin Decisions => ~unsure[r]
    /\ unsure[r] /\ pc[r] = "settling" => bill[r] = Liability(r)
    /\ hold[r] \notin {"settled", "reconciled"} => row[r] \in {NoRow, ObserverRow}
    /\ hold[r] = "settled" => row[r] = OwnRow(bill[r], "none") /\ pc[r] = "done"
    /\ hold[r] = "reconciled" =>
         \/ row[r] = ObserverRow
         \/ row[r] = OwnRow(Liability(r), "pending")
         \/ row[r] = OwnRow(bill[r], "reconciled") /\ pc[r] = "done"

IInv == TypeOK /\ \A r \in Requests : RequestOK(r)

(* A step of one request leaves the others alone.                          *)
Same(q) ==
    /\ pc'[q] = pc[q] /\ hold'[q] = hold[q] /\ row'[q] = row[q] /\ marked'[q] = marked[q]
    /\ called'[q] = called[q] /\ unsure'[q] = unsure[q] /\ bill'[q] = bill[q]
Others(r) == \A q \in Requests \ {r} : Same(q)

LEMMA SameOK ==
    ASSUME NEW q \in Requests, RequestOK(q), Same(q)
    PROVE  RequestOK(q)'
BY DEF RequestOK, Same, NoRow, ObserverRow, OwnRow, Liability

-----------------------------------------------------------------------------
(* The types                                                               *)

Rows == [by : {"none", "own", "observer"}, cost : Nat, state : {"none", "pending", "reconciled"}]
Holds == {"none", "held", "dispatched", "released", "settled", "reconciled"}
Points == {"new", "ready", "marked", "calling", "releasing", "settling", "done"}

BudgetType ==
    /\ spent \in [Buckets -> Nat] /\ reserved \in [Buckets -> Nat]
    /\ resetDue \subseteq Buckets /\ epoch \in [Buckets -> Nat]
RequestType ==
    /\ hold \in [Requests -> Holds] /\ row \in [Requests -> Rows]
    /\ marked \in [Requests -> BOOLEAN] /\ expired \in [Requests -> BOOLEAN]
    /\ sent \in [Requests -> BOOLEAN] /\ unsure \in [Requests -> BOOLEAN]
    /\ called \in [Requests -> BOOLEAN] /\ exceeded \in [Requests -> BOOLEAN]
    /\ pc \in [Requests -> Points] /\ used \in [Requests -> Nat] /\ bill \in [Requests -> Nat]
OtherType ==
    /\ disabled \in BOOLEAN
    /\ faults \in Nat /\ months \in Nat /\ crashes \in Nat
ChargedType == {chargedIn, correctedIn} \subseteq [Requests -> [Buckets -> Nat]]

LEMMA Types == TypeOK <=> BudgetType /\ RequestType /\ OtherType /\ ChargedType
BY DEF TypeOK, BudgetType, RequestType, OtherType, ChargedType, booked, Rows, Holds, Points

LEMMA PayType ==
    ASSUME BudgetType, NEW r \in Requests, NEW back \in Int, NEW charge \in Int,
           Pay(r, back, charge)
    PROVE  BudgetType'
<1>1. ASSUME NEW b \in Buckets
      PROVE  Larger(0, reserved[b] - back) \in Nat /\ Larger(0, spent[b] + charge) \in Nat
  BY DEF BudgetType, Larger
<1> QED BY <1>1 DEF Pay, BudgetType

LEMMA ChargeType ==
    ASSUME TypeOK, NEW r \in Requests, NEW back \in Int, NEW charge \in Int,
           Charge(r, back, charge)
    PROVE  BudgetType' /\ ChargedType'
<1>1. BudgetType'
  BY Types, PayType DEF Charge
<1> QED BY <1>1, Types DEF Charge, ChargedType, booked, BudgetType

LEMMA RowsTyped ==
    ASSUME NEW cost \in Nat, NEW state \in {"none", "pending", "reconciled"}
    PROVE  OwnRow(cost, state) \in Rows /\ ObserverRow \in Rows /\ NoRow \in Rows
BY DEF OwnRow, ObserverRow, NoRow, Rows

LEMMA ResetType ==
    ASSUME BudgetType, NEW r \in Requests, ResetDue(r)
    PROVE  /\ spent' \in [Buckets -> Nat] /\ epoch' \in [Buckets -> Nat]
           /\ resetDue' \subseteq Buckets
BY DEF BudgetType, ResetDue, SpentNow

LEMMA FreeHoldType ==
    ASSUME TypeOK, NEW r \in Requests, FreeHold(r)
    PROVE  /\ BudgetType' /\ ChargedType' /\ hold' \in [Requests -> Holds]
           /\ row' \in [Requests -> Rows]
<1>1. BudgetType'
  BY Types, PayType, LiabilityNat DEF FreeHold
<1> QED BY <1>1, Types DEF FreeHold, SetHold, ChargedType, booked, RequestType, Holds

LEMMA TypesNext ==
    ASSUME BudgetType', RequestType', OtherType', ChargedType'
    PROVE  TypeOK'
BY DEF TypeOK, BudgetType, RequestType, OtherType, ChargedType, booked, Rows, Holds, Points

-----------------------------------------------------------------------------
(* One lemma per action: the types, the others, the request itself.        *)

LEMMA RefuseDisabledKeeps ==
    ASSUME IInv, NEW r \in Requests, RefuseDisabled(r)
    PROVE  TypeOK' /\ Others(r) /\ RequestOK(r)'
<1>0. BudgetType /\ RequestType /\ OtherType /\ ChargedType /\ RequestOK(r)
  BY Types DEF IInv
<1>1. BudgetType' /\ ChargedType'
  BY <1>0 DEF RefuseDisabled, BudgetType, ChargedType, booked, budget
<1>2. RequestType'
  BY <1>0 DEF RefuseDisabled, Goto,
     RequestType, Points, Holds, holds, request, history
<1>3. OtherType'
  BY <1>0 DEF RefuseDisabled, OtherType, bounds, Fault
<1>4. Others(r)
  BY <1>0 DEF RefuseDisabled, Goto,
     Others, Same, RequestType, holds, request, history
<1>5. RequestOK(r)'
  BY <1>0 DEF RefuseDisabled, Goto,
     RequestOK, RequestType, holds, request, history
<1> QED BY <1>1, <1>2, <1>3, <1>4, <1>5, TypesNext

LEMMA GiveUpKeeps ==
    ASSUME IInv, NEW r \in Requests, GiveUp(r)
    PROVE  TypeOK' /\ Others(r) /\ RequestOK(r)'
<1>0. BudgetType /\ RequestType /\ OtherType /\ ChargedType /\ RequestOK(r)
  BY Types DEF IInv
<1>1. BudgetType' /\ ChargedType'
  BY <1>0 DEF GiveUp, BudgetType, ChargedType, booked, budget
<1>2. RequestType'
  BY <1>0 DEF GiveUp, Goto, Conclude, Route,
     RequestType, Points, Holds, holds, request, history
<1>3. OtherType'
  BY <1>0 DEF GiveUp, OtherType, bounds, Fault
<1>4. Others(r)
  BY <1>0 DEF GiveUp, Goto, Conclude, Route,
     Others, Same, RequestType, holds, request, history
<1>5. RequestOK(r)'
  BY <1>0 DEF GiveUp, Goto, Conclude, Route,
     RequestOK, RequestType, holds, request, history
<1> QED BY <1>1, <1>2, <1>3, <1>4, <1>5, TypesNext

LEMMA SkipAttemptKeeps ==
    ASSUME IInv, NEW r \in Requests, SkipAttempt(r)
    PROVE  TypeOK' /\ Others(r) /\ RequestOK(r)'
<1>0. BudgetType /\ RequestType /\ OtherType /\ ChargedType /\ RequestOK(r)
  BY Types DEF IInv
<1>1. BudgetType' /\ ChargedType'
  BY <1>0 DEF SkipAttempt, BudgetType, ChargedType, booked, budget
<1>2. RequestType'
  BY <1>0 DEF SkipAttempt, Route,
     RequestType, Points, Holds, holds, request, history
<1>3. OtherType'
  BY <1>0 DEF SkipAttempt, OtherType, bounds, Fault
<1>4. Others(r)
  BY <1>0 DEF SkipAttempt, Route,
     Others, Same, RequestType, holds, request, history
<1>5. RequestOK(r)'
  BY <1>0 DEF SkipAttempt, Route,
     RequestOK, RequestType, holds, request, history
<1> QED BY <1>1, <1>2, <1>3, <1>4, <1>5, TypesNext

LEMMA MarkKeeps ==
    ASSUME IInv, NEW r \in Requests, Mark(r)
    PROVE  TypeOK' /\ Others(r) /\ RequestOK(r)'
<1>0. BudgetType /\ RequestType /\ OtherType /\ ChargedType /\ RequestOK(r)
  BY Types DEF IInv
<1>1. BudgetType' /\ ChargedType'
  BY <1>0 DEF Mark, BudgetType, ChargedType, booked, budget
<1>2. RequestType'
  <2>1. pc' \in [Requests -> Points]
    BY <1>0 DEF Mark, Goto, Conclude, RequestType, Points
  <2>2. hold' \in [Requests -> Holds] /\ marked' \in [Requests -> BOOLEAN]
    BY <1>0 DEF Mark, WriteMark, SetHold, RequestType, Holds
  <2>3. sent' \in [Requests -> BOOLEAN] /\ called' \in [Requests -> BOOLEAN]
    BY <1>0 DEF Mark, RequestType
  <2>4. used' \in [Requests -> Nat]
    BY <1>0 DEF Mark, RequestType
  <2> QED BY <1>0, <2>1, <2>2, <2>3, <2>4 DEF Mark, RequestType
<1>3. OtherType'
  BY <1>0 DEF Mark, OtherType, bounds, Fault
<1>4. Others(r)
  BY <1>0 DEF Mark, Goto, Conclude, Route, MayMark, WriteMark, SetHold, Open,
     Others, Same, RequestType, holds, request, history
<1>5. RequestOK(r)'
  BY <1>0 DEF Mark, Goto, Conclude, Route, MayMark, WriteMark, SetHold, Open,
     RequestOK, RequestType, holds, request, history
<1> QED BY <1>1, <1>2, <1>3, <1>4, <1>5, TypesNext

LEMMA MarkRefusedKeeps ==
    ASSUME IInv, NEW r \in Requests, MarkRefused(r)
    PROVE  TypeOK' /\ Others(r) /\ RequestOK(r)'
<1>0. BudgetType /\ RequestType /\ OtherType /\ ChargedType /\ RequestOK(r)
  BY Types DEF IInv
<1>1. BudgetType' /\ ChargedType'
  BY <1>0 DEF MarkRefused, BudgetType, ChargedType, booked, budget
<1>2. RequestType'
  BY <1>0 DEF MarkRefused, Goto, Conclude, Route,
     RequestType, Points, Holds, holds, request, history
<1>3. OtherType'
  BY <1>0 DEF MarkRefused, OtherType, bounds, Fault
<1>4. Others(r)
  BY <1>0 DEF MarkRefused, Goto, Conclude, Route,
     Others, Same, RequestType, holds, request, history
<1>5. RequestOK(r)'
  BY <1>0 DEF MarkRefused, Goto, Conclude, Route,
     RequestOK, RequestType, holds, request, history
<1> QED BY <1>1, <1>2, <1>3, <1>4, <1>5, TypesNext

LEMMA SettleFailsKeeps ==
    ASSUME IInv, NEW r \in Requests, SettleFails(r)
    PROVE  TypeOK' /\ Others(r) /\ RequestOK(r)'
<1>0. BudgetType /\ RequestType /\ OtherType /\ ChargedType /\ RequestOK(r)
  BY Types DEF IInv
<1>1. BudgetType' /\ ChargedType'
  BY <1>0 DEF SettleFails, BudgetType, ChargedType, booked, budget
<1>2. RequestType'
  BY <1>0 DEF SettleFails, Goto,
     RequestType, Points, Holds, holds, request, history
<1>3. OtherType'
  BY <1>0 DEF SettleFails, OtherType, bounds, Fault
<1>4. Others(r)
  BY <1>0 DEF SettleFails, Goto,
     Others, Same, RequestType, holds, request, history
<1>5. RequestOK(r)'
  BY <1>0 DEF SettleFails, Goto,
     RequestOK, RequestType, holds, request, history
<1> QED BY <1>1, <1>2, <1>3, <1>4, <1>5, TypesNext

LEMMA DecisionMarkKeeps ==
    ASSUME IInv, NEW r \in Requests, DecisionMark(r)
    PROVE  TypeOK' /\ Others(r) /\ RequestOK(r)'
<1>0. BudgetType /\ RequestType /\ OtherType /\ ChargedType /\ RequestOK(r)
  BY Types DEF IInv
<1>1. BudgetType' /\ ChargedType'
  BY <1>0 DEF DecisionMark, BudgetType, ChargedType, booked, budget
<1>2. RequestType'
  BY <1>0 DEF DecisionMark, Goto, Decision, WriteMark, SetHold,
     RequestType, Points, Holds, holds, request, history
<1>3. OtherType'
  BY <1>0 DEF DecisionMark, OtherType, bounds, Fault
<1>4. Others(r)
  BY <1>0 DEF DecisionMark, Goto, Decision, WriteMark, SetHold,
     Others, Same, RequestType, holds, request, history
<1>5. RequestOK(r)'
  BY <1>0 DEF DecisionMark, Goto, Decision, WriteMark, SetHold,
     RequestOK, RequestType, holds, request, history
<1> QED BY <1>1, <1>2, <1>3, <1>4, <1>5, TypesNext

LEMMA DecisionMarkRefusedKeeps ==
    ASSUME IInv, NEW r \in Requests, DecisionMarkRefused(r)
    PROVE  TypeOK' /\ Others(r) /\ RequestOK(r)'
<1>0. BudgetType /\ RequestType /\ OtherType /\ ChargedType /\ RequestOK(r)
  BY Types DEF IInv
<1>1. BudgetType' /\ ChargedType'
  BY <1>0 DEF DecisionMarkRefused, BudgetType, ChargedType, booked, budget
<1>2. RequestType'
  BY <1>0 DEF DecisionMarkRefused, Goto, Decision,
     RequestType, Points, Holds, holds, request, history
<1>3. OtherType'
  BY <1>0 DEF DecisionMarkRefused, OtherType, bounds, Fault
<1>4. Others(r)
  BY <1>0 DEF DecisionMarkRefused, Goto, Decision,
     Others, Same, RequestType, holds, request, history
<1>5. RequestOK(r)'
  BY <1>0 DEF DecisionMarkRefused, Goto, Decision,
     RequestOK, RequestType, holds, request, history
<1> QED BY <1>1, <1>2, <1>3, <1>4, <1>5, TypesNext

LEMMA DecisionInterruptedKeeps ==
    ASSUME IInv, NEW r \in Requests, DecisionInterrupted(r)
    PROVE  TypeOK' /\ Others(r) /\ RequestOK(r)'
<1>0. BudgetType /\ RequestType /\ OtherType /\ ChargedType /\ RequestOK(r)
  BY Types DEF IInv
<1>1. BudgetType' /\ ChargedType'
  BY <1>0 DEF DecisionInterrupted, BudgetType, ChargedType, booked, budget
<1>2. RequestType'
  BY <1>0 DEF DecisionInterrupted, Goto, Decision,
     RequestType, Points, Holds, holds, request, history
<1>3. OtherType'
  BY <1>0 DEF DecisionInterrupted, OtherType, bounds, Fault
<1>4. Others(r)
  BY <1>0 DEF DecisionInterrupted, Goto, Decision,
     Others, Same, RequestType, holds, request, history
<1>5. RequestOK(r)'
  BY <1>0 DEF DecisionInterrupted, Goto, Decision,
     RequestOK, RequestType, holds, request, history
<1> QED BY <1>1, <1>2, <1>3, <1>4, <1>5, TypesNext

LEMMA DecisionDispatchKeeps ==
    ASSUME IInv, NEW r \in Requests, DecisionDispatch(r)
    PROVE  TypeOK' /\ Others(r) /\ RequestOK(r)'
<1>0. BudgetType /\ RequestType /\ OtherType /\ ChargedType /\ RequestOK(r)
  BY Types DEF IInv
<1>1. BudgetType' /\ ChargedType'
  BY <1>0 DEF DecisionDispatch, BudgetType, ChargedType, booked, budget
<1>2. RequestType'
  BY <1>0 DEF DecisionDispatch, Goto, Decision,
     RequestType, Points, Holds, holds, request, history
<1>3. OtherType'
  BY <1>0 DEF DecisionDispatch, OtherType, bounds, Fault
<1>4. Others(r)
  BY <1>0 DEF DecisionDispatch, Goto, Decision,
     Others, Same, RequestType, holds, request, history
<1>5. RequestOK(r)'
  BY <1>0 DEF DecisionDispatch, Goto, Decision,
     RequestOK, RequestType, holds, request, history
<1> QED BY <1>1, <1>2, <1>3, <1>4, <1>5, TypesNext

LEMMA ObserveKeeps ==
    ASSUME IInv, NEW r \in Requests, Observe(r)
    PROVE  TypeOK' /\ Others(r) /\ RequestOK(r)'
<1>0. BudgetType /\ RequestType /\ OtherType /\ ChargedType /\ RequestOK(r)
  BY Types DEF IInv
<1>1. BudgetType' /\ ChargedType'
  BY <1>0 DEF Observe, BudgetType, ChargedType, booked, budget
<1>2. RequestType'
  <2>1. ObserverRow \in Rows
    BY RowsTyped
  <2> QED BY <1>0, <2>1 DEF Observe, SetRow, RequestType, holds, request, history
<1>3. OtherType'
  BY <1>0 DEF Observe, OtherType, bounds, Fault
<1>4. Others(r)
  BY <1>0 DEF Observe, SetRow,
     Others, Same, RequestType, holds, request, history
<1>5. RequestOK(r)'
  <2>1. row'[r] = ObserverRow /\ hold[r] \notin {"settled", "reconciled"}
    BY <1>0 DEF Observe, SetRow, RequestType, RequestOK, NoRow, ObserverRow, OwnRow
  <2>2. UNCHANGED <<pc, hold, marked, called, unsure, bill>>
    BY DEF Observe, holds, request, history
  <2> QED BY <1>0, <2>1, <2>2 DEF RequestOK, Liability
<1> QED BY <1>1, <1>2, <1>3, <1>4, <1>5, TypesNext

LEMMA ExpireKeeps ==
    ASSUME IInv, NEW r \in Requests, Expire(r)
    PROVE  TypeOK' /\ Others(r) /\ RequestOK(r)'
<1>0. BudgetType /\ RequestType /\ OtherType /\ ChargedType /\ RequestOK(r)
  BY Types DEF IInv
<1>1. BudgetType' /\ ChargedType'
  BY <1>0 DEF Expire, BudgetType, ChargedType, booked, budget
<1>2. RequestType'
  BY <1>0 DEF Expire, Open,
     RequestType, Points, Holds, holds, request, history
<1>3. OtherType'
  BY <1>0 DEF Expire, OtherType, bounds, Fault
<1>4. Others(r)
  BY <1>0 DEF Expire, Open,
     Others, Same, RequestType, holds, request, history
<1>5. RequestOK(r)'
  BY <1>0 DEF Expire, Open,
     RequestOK, RequestType, holds, request, history
<1> QED BY <1>1, <1>2, <1>3, <1>4, <1>5, TypesNext

LEMMA RefuseKeeps ==
    ASSUME IInv, NEW r \in Requests, Refuse(r)
    PROVE  TypeOK' /\ Others(r) /\ RequestOK(r)'
<1>0. BudgetType /\ RequestType /\ OtherType /\ ChargedType /\ RequestOK(r)
  BY Types DEF IInv
<1>1. BudgetType' /\ ChargedType'
  BY <1>0, ResetType DEF Refuse, BudgetType, ChargedType, booked
<1>2. RequestType'
  BY <1>0 DEF Refuse, Goto, Idle,
     RequestType, Points, Holds, holds, request, history
<1>3. OtherType'
  BY <1>0 DEF Refuse, OtherType, bounds, Fault
<1>4. Others(r)
  BY <1>0 DEF Refuse, Goto, Idle,
     Others, Same, RequestType, holds, request, history
<1>5. RequestOK(r)'
  BY <1>0 DEF Refuse, Goto, Idle,
     RequestOK, RequestType, holds, request, history
<1> QED BY <1>1, <1>2, <1>3, <1>4, <1>5, TypesNext

LEMMA AdmitKeeps ==
    ASSUME IInv, NEW r \in Requests, Admit(r)
    PROVE  TypeOK' /\ Others(r) /\ RequestOK(r)'
<1>0. BudgetType /\ RequestType /\ OtherType /\ ChargedType /\ RequestOK(r)
  BY Types DEF IInv
<1>1. BudgetType' /\ ChargedType'
  <2>1. reserved' \in [Buckets -> Nat]
    BY <1>0, LiabilityNat DEF Admit, BudgetType
  <2> QED BY <1>0, <2>1, ResetType DEF Admit, BudgetType, ChargedType, booked
<1>2. RequestType'
  BY <1>0 DEF Admit, Goto, Idle, SetHold,
     RequestType, Points, Holds, holds, request, history
<1>3. OtherType'
  BY <1>0 DEF Admit, OtherType, bounds, Fault
<1>4. Others(r)
  BY <1>0 DEF Admit, Goto, Idle, SetHold,
     Others, Same, RequestType, holds, request, history
<1>5. RequestOK(r)'
  BY <1>0 DEF Admit, Goto, Idle, SetHold,
     RequestOK, RequestType, holds, request, history
<1> QED BY <1>1, <1>2, <1>3, <1>4, <1>5, TypesNext

LEMMA AnswerKeeps ==
    ASSUME IInv, NEW r \in Requests, Answer(r)
    PROVE  TypeOK' /\ Others(r) /\ RequestOK(r)'
<1>0. BudgetType /\ RequestType /\ OtherType /\ ChargedType /\ RequestOK(r)
  BY Types DEF IInv
<1>1. BudgetType' /\ ChargedType'
  BY <1>0 DEF Answer, BudgetType, ChargedType, booked, budget
<1>2. RequestType'
  <2>1. PICK c \in Quote[r].candidates, u \in UsageReports :
          /\ bill' = [bill EXCEPT ![r] = @ + AttemptCost(c, u)]
          /\ exceeded' = [exceeded EXCEPT ![r] = @ \/ ~WithinAllowance(c, u)]
    BY DEF Answer
  <2>2. AttemptCost(c, u) \in Nat
    BY AttemptCostNat, QuoteAssumption DEF Quotes
  <2>3. bill' \in [Requests -> Nat]
    BY <1>0, <2>1, <2>2 DEF RequestType
  <2>4. exceeded' \in [Requests -> BOOLEAN]
    BY <1>0, <2>1, Zenon DEF RequestType
  <2>5. pc' \in [Requests -> Points]
    BY <1>0 DEF Answer, Goto, RequestType, Points
  <2> QED BY <1>0, <2>3, <2>4, <2>5 DEF Answer, RequestType, holds
<1>3. OtherType'
  BY <1>0 DEF Answer, OtherType, bounds, Fault
<1>4. Others(r)
  BY <1>0 DEF Answer, Goto, Route,
     Others, Same, RequestType, holds, request, history
<1>5. RequestOK(r)'
  BY <1>0 DEF Answer, Goto, Route,
     RequestOK, RequestType, holds, request, history
<1> QED BY <1>1, <1>2, <1>3, <1>4, <1>5, TypesNext

LEMMA ReleaseKeeps ==
    ASSUME IInv, NEW r \in Requests, Release(r)
    PROVE  TypeOK' /\ Others(r) /\ RequestOK(r)'
<1>0. BudgetType /\ RequestType /\ OtherType /\ ChargedType /\ RequestOK(r)
  BY Types DEF IInv
<1>1. BudgetType' /\ ChargedType'
  BY <1>0, FreeHoldType DEF Release, IInv, BudgetType, ChargedType, booked, budget
<1>2. RequestType'
  <2>1. hold' \in [Requests -> Holds] /\ row' \in [Requests -> Rows]
    BY <1>0, FreeHoldType DEF Release, IInv, RequestType
  <2> QED BY <1>0, <2>1 DEF Release, Goto, RequestType, Points, request, history
<1>3. OtherType'
  BY <1>0 DEF Release, OtherType, bounds, Fault
<1>4. Others(r)
  BY <1>0 DEF Release, Goto, FreeHold, SetHold, Others, Same, RequestType, request, history
<1>5. RequestOK(r)'
  <2>1. UNCHANGED <<marked, called, unsure, bill, row>> /\ pc'[r] = "settling"
    BY <1>0 DEF Release, Goto, FreeHold, RequestType, request, history
  <2>2. hold'[r] = hold[r] \/ (Freeable(r) /\ hold'[r] = "released")
    BY <1>0 DEF Release, FreeHold, SetHold, RequestType
  <2>3. r \notin Decisions /\ pc[r] = "releasing"
    BY DEF Release, Route
  <2> QED BY <1>0, <2>1, <2>2, <2>3 DEF RequestOK, Freeable, Liability
<1> QED BY <1>1, <1>2, <1>3, <1>4, <1>5, TypesNext

LEMMA ReapReleaseKeeps ==
    ASSUME IInv, NEW r \in Requests, ReapRelease(r)
    PROVE  TypeOK' /\ Others(r) /\ RequestOK(r)'
<1>0. BudgetType /\ RequestType /\ OtherType /\ ChargedType /\ RequestOK(r)
  BY Types DEF IInv
<1>1. BudgetType' /\ ChargedType'
  BY <1>0, FreeHoldType DEF ReapRelease, IInv
<1>2. RequestType'
  <2>1. hold' \in [Requests -> Holds] /\ row' \in [Requests -> Rows]
    BY <1>0, FreeHoldType DEF ReapRelease, IInv
  <2> QED BY <1>0, <2>1 DEF ReapRelease, RequestType, request, history
<1>3. OtherType'
  BY <1>0 DEF ReapRelease, OtherType, bounds, Fault
<1>4. Others(r)
  BY <1>0 DEF ReapRelease, FreeHold, SetHold, Others, Same, RequestType, request, history
<1>5. RequestOK(r)'
  <2>1. UNCHANGED <<pc, marked, called, unsure, bill, row>> /\ hold'[r] = "released"
    BY <1>0 DEF ReapRelease, FreeHold, SetHold, RequestType, request, history
  <2>2. hold[r] = "held"
    BY DEF ReapRelease, Spared
  <2> QED BY <1>0, <2>1, <2>2 DEF RequestOK, Liability
<1> QED BY <1>1, <1>2, <1>3, <1>4, <1>5, TypesNext

(* A charge is no less than zero, so that the clamp the reaper leaves out  *)
(* would not show: it pays as a settlement does.                           *)
LEMMA ReapPays ==
    ASSUME BudgetType, NEW r \in Requests, ReapCharge(r)
    PROVE  Charge(r, Liability(r), IF row[r].by = "own" THEN 0 ELSE Conservative(r))
<1> DEFINE charge == IF row[r].by = "own" THEN 0 ELSE Conservative(r)
<1>1. charge \in Nat /\ Liability(r) \in Nat
  BY LiabilityNat DEF Conservative
<1>2. ReapPay(r, charge)
  BY DEF ReapCharge
<1>3. \A b \in Buckets : Larger(0, spent[b] + charge) = spent[b] + charge
  BY <1>1 DEF BudgetType, Larger
<1> HIDE DEF charge
<1>4. Pay(r, Liability(r), charge)
  BY <1>2, <1>3 DEF ReapPay, Pay
<1>5. Charge(r, Liability(r), charge)
  BY <1>2, <1>4 DEF ReapPay, Charge
<1> QED BY <1>5 DEF charge

LEMMA ReapChargeKeeps ==
    ASSUME IInv, NEW r \in Requests, ReapCharge(r)
    PROVE  TypeOK' /\ Others(r) /\ RequestOK(r)'
<1>0. BudgetType /\ RequestType /\ OtherType /\ ChargedType /\ RequestOK(r)
  BY Types DEF IInv
<1>1. BudgetType' /\ ChargedType'
  BY <1>0, ReapPays, ChargeType, LiabilityNat DEF Conservative, IInv
<1>2. RequestType'
  <2>1. OwnRow(Liability(r), "pending") \in Rows
    BY RowsTyped, LiabilityNat
  <2>2. row' \in [Requests -> Rows] /\ hold' \in [Requests -> Holds]
    BY <1>0, <2>1 DEF ReapCharge, Conservative, SetRow, SetHold, RequestType, Holds
  <2> QED BY <1>0, <2>2 DEF ReapCharge, RequestType, request, history
<1>3. OtherType'
  BY <1>0 DEF ReapCharge, OtherType, bounds, Fault
<1>4. Others(r)
  BY <1>0 DEF ReapCharge, SetRow, SetHold, Others, Same, RequestType, request, history
<1>5. RequestOK(r)'
  <2>1. UNCHANGED <<pc, marked, called, unsure, bill>> /\ hold'[r] = "reconciled"
    BY <1>0 DEF ReapCharge, SetHold, RequestType, request, history
  <2>2. hold[r] = "dispatched"
    BY <1>0 DEF ReapCharge, Reapable, Open, Spared, RequestOK
  <2>3. row'[r] = OwnRow(Liability(r), "pending") \/ row'[r] = ObserverRow
    BY <1>0, <2>2 DEF ReapCharge, Conservative, SetRow, RequestType, RequestOK, NoRow, ObserverRow
  <2> QED BY <1>0, <2>1, <2>2, <2>3, LiabilityNat DEF RequestOK, OwnRow, Liability
<1> QED BY <1>1, <1>2, <1>3, <1>4, <1>5, TypesNext

LEMMA DecisionReleaseKeeps ==
    ASSUME IInv, NEW r \in Requests, DecisionRelease(r)
    PROVE  TypeOK' /\ Others(r) /\ RequestOK(r)'
<1>0. BudgetType /\ RequestType /\ OtherType /\ ChargedType /\ RequestOK(r)
  BY Types DEF IInv
<1>1. BudgetType' /\ ChargedType'
  BY <1>0, FreeHoldType DEF DecisionRelease, IInv, BudgetType, ChargedType, booked, budget
<1>2. RequestType'
  <2>1. hold' \in [Requests -> Holds] /\ row' \in [Requests -> Rows]
    BY <1>0, FreeHoldType DEF DecisionRelease, IInv, RequestType
  <2>2. marked' \in [Requests -> BOOLEAN]
    BY <1>0, Zenon DEF DecisionRelease, RequestType
  <2> QED BY <1>0, <2>1, <2>2 DEF DecisionRelease, Goto, RequestType, Points, request, history
<1>3. OtherType'
  BY <1>0 DEF DecisionRelease, OtherType, bounds, Fault
<1>4. Others(r)
  BY <1>0 DEF DecisionRelease, Goto, FreeHold, SetHold, Others, Same, RequestType, request, history
<1>5. RequestOK(r)'
  <2>1. UNCHANGED <<called, unsure, bill, row>> /\ pc'[r] = "done"
    BY <1>0 DEF DecisionRelease, Goto, FreeHold, RequestType, request, history
  <2>2. \/ hold'[r] = "released" /\ Open(r)
        \/ hold'[r] = hold[r] /\ marked'[r] = marked[r]
        \/ hold'[r] = hold[r] /\ ~Open(r) /\ (marked'[r] => marked[r])
    BY <1>0 DEF DecisionRelease, FreeHold, SetHold, RequestType
  <2>3. r \in Decisions /\ pc[r] = "releasing"
    BY DEF DecisionRelease, Decision
  <2> QED BY <1>0, <2>1, <2>2, <2>3 DEF RequestOK, Open, Liability
<1> QED BY <1>1, <1>2, <1>3, <1>4, <1>5, TypesNext

LEMMA DecisionAnswerKeeps ==
    ASSUME IInv, NEW r \in Requests, DecisionAnswer(r)
    PROVE  TypeOK' /\ Others(r) /\ RequestOK(r)'
<1>0. BudgetType /\ RequestType /\ OtherType /\ ChargedType /\ RequestOK(r)
  BY Types DEF IInv
<1>1. BudgetType' /\ ChargedType'
  BY <1>0 DEF DecisionAnswer, BudgetType, ChargedType, booked, budget
<1>2. RequestType'
  <2>1. PICK c \in Quote[r].candidates, u \in UsageReports :
          /\ bill' = [bill EXCEPT ![r] = IF u.estimated THEN Liability(r)
                                         ELSE TokenCost(c.price, u.inputTokens, 0)]
          /\ unsure' = [unsure EXCEPT ![r] = u.estimated]
          /\ exceeded' = [exceeded EXCEPT ![r] = ~WithinAllowance(c, u)]
    BY DEF DecisionAnswer
  <2>2. c \in Candidates /\ u \in Usages
    BY QuoteAssumption DEF Quotes
  <2>3. TokenCost(c.price, u.inputTokens, 0) \in Nat /\ Liability(r) \in Nat
        /\ u.estimated \in BOOLEAN
    BY <2>2, TokenCostNat, LiabilityNat DEF Candidates, Usages
  <2>4. bill' \in [Requests -> Nat]
    BY <1>0, <2>1, <2>3 DEF RequestType
  <2>5. unsure' \in [Requests -> BOOLEAN] /\ exceeded' \in [Requests -> BOOLEAN]
    BY <1>0, <2>1, <2>3 DEF RequestType
  <2>6. pc' \in [Requests -> Points]
    BY <1>0 DEF DecisionAnswer, Goto, RequestType, Points
  <2> QED BY <1>0, <2>4, <2>5, <2>6 DEF DecisionAnswer, RequestType, holds
<1>3. OtherType'
  BY <1>0 DEF DecisionAnswer, OtherType, bounds, Fault
<1>4. Others(r)
  BY <1>0 DEF DecisionAnswer, Goto, Decision,
     Others, Same, RequestType, holds, request, history
<1>5. RequestOK(r)'
  BY <1>0 DEF DecisionAnswer, Goto, Decision,
     RequestOK, RequestType, holds, request, history
<1> QED BY <1>1, <1>2, <1>3, <1>4, <1>5, TypesNext

(* A correction writes its own row, and nothing else of the request.       *)
LEMMA CorrectRowIs ==
    ASSUME IInv, NEW r \in Requests, AwaitsCorrection(r), CorrectRow(r, bill[r])
    PROVE  /\ BudgetType' /\ ChargedType' /\ hold' = hold
           /\ row' \in [Requests -> Rows] /\ row'[r] = OwnRow(bill[r], "reconciled")
           /\ \A q \in Requests \ {r} : row'[q] = row[q]
<1>0. BudgetType /\ RequestType /\ ChargedType /\ bill[r] \in Nat /\ row[r].cost \in Nat
  BY Types DEF IInv, RequestType, Rows
<1>1. BudgetType'
  <2>1. Pay(r, 0, bill[r] - row[r].cost) /\ bill[r] - row[r].cost \in Int
    BY <1>0 DEF CorrectRow, Correct
  <2> QED BY <1>0, <2>1, PayType
<1>2. OwnRow(bill[r], "reconciled") \in Rows
  BY <1>0, RowsTyped
<1>3. row' = [row EXCEPT ![r] = OwnRow(bill[r], "reconciled")] /\ hold' = hold
  BY DEF CorrectRow, SetRow
<1>4. ChargedType'
  <2>1. epoch \in [Buckets -> Nat]
    BY <1>0 DEF BudgetType
  <2>2. correctedIn' = [correctedIn EXCEPT ![r] = epoch] /\ chargedIn' = chargedIn
    BY DEF CorrectRow, Correct
  <2> QED BY <1>0, <2>1, <2>2 DEF ChargedType
<1> QED BY <1>0, <1>1, <1>2, <1>3, <1>4 DEF RequestType

(* A first charge writes the row and closes the hold.                      *)
LEMMA ChargeIs ==
    ASSUME IInv, NEW r \in Requests, NEW state \in {"none", "pending", "reconciled"},
           NEW status \in Holds, SetRow(r, OwnRow(bill[r], state)),
           Charge(r, Liability(r), bill[r]), SetHold(r, status)
    PROVE  /\ BudgetType' /\ ChargedType'
           /\ hold' \in [Requests -> Holds] /\ hold'[r] = status
           /\ row' \in [Requests -> Rows] /\ row'[r] = OwnRow(bill[r], state)
           /\ \A q \in Requests \ {r} : row'[q] = row[q] /\ hold'[q] = hold[q]
<1>0. BudgetType /\ RequestType /\ ChargedType /\ bill[r] \in Nat
  BY Types DEF IInv, RequestType
<1>1. BudgetType' /\ ChargedType'
  BY <1>0, ChargeType, LiabilityNat DEF IInv
<1>2. OwnRow(bill[r], state) \in Rows
  BY <1>0, RowsTyped
<1> QED BY <1>0, <1>1, <1>2 DEF SetRow, SetHold, RequestType

LEMMA SettleRouteKeeps ==
    ASSUME IInv, NEW r \in Requests, SettleRoute(r)
    PROVE  TypeOK' /\ Others(r) /\ RequestOK(r)'
<1>0. BudgetType /\ RequestType /\ OtherType /\ ChargedType /\ RequestOK(r)
  BY Types DEF IInv
<1>a. /\ UNCHANGED <<marked, expired, used, bill, sent, unsure, called, exceeded,
                      faults, months, crashes>>
      /\ pc' = [pc EXCEPT ![r] = "done"] /\ pc[r] = "settling"
      /\ disabled' \in BOOLEAN /\ bill[r] \in Nat
  BY <1>0 DEF SettleRoute, Goto, Route, request, history, bounds, RequestType, OtherType
<1>b. pc' \in [Requests -> Points] /\ pc'[r] = "done" /\ OtherType'
  BY <1>0, <1>a DEF RequestType, Points, OtherType
<1>c. ASSUME row' \in [Requests -> Rows], hold' \in [Requests -> Holds], BudgetType', ChargedType',
             \A q \in Requests \ {r} : row'[q] = row[q] /\ hold'[q] = hold[q], RequestOK(r)'
      PROVE  TypeOK' /\ Others(r) /\ RequestOK(r)'
  <2>1. RequestType'
    BY <1>0, <1>a, <1>b, <1>c DEF RequestType
  <2>2. Others(r)
    BY <1>0, <1>a, <1>c DEF Others, Same, RequestType
  <2> QED BY <1>b, <1>c, <2>1, <2>2, TypesNext
<1>1. CASE /\ Open(r) /\ SetRow(r, OwnRow(bill[r], "none"))
           /\ Charge(r, Liability(r), bill[r]) /\ SetHold(r, "settled")
  <2>1. /\ BudgetType' /\ ChargedType'
        /\ hold' \in [Requests -> Holds] /\ hold'[r] = "settled"
        /\ row' \in [Requests -> Rows] /\ row'[r] = OwnRow(bill[r], "none")
        /\ \A q \in Requests \ {r} : row'[q] = row[q] /\ hold'[q] = hold[q]
    BY <1>1, ChargeIs DEF Holds
  <2>2. RequestOK(r)'
    BY <1>0, <1>a, <1>b, <2>1 DEF RequestOK
  <2> QED BY <1>c, <2>1, <2>2
<1>2. CASE AwaitsCorrection(r) /\ CorrectRow(r, bill[r])
  <2>1. /\ BudgetType' /\ ChargedType' /\ hold' = hold
        /\ row' \in [Requests -> Rows] /\ row'[r] = OwnRow(bill[r], "reconciled")
        /\ \A q \in Requests \ {r} : row'[q] = row[q]
    BY <1>2, CorrectRowIs
  <2>2. RequestOK(r)'
    BY <1>0, <1>2, <1>a, <1>b, <2>1 DEF RequestOK, AwaitsCorrection, OwnRow
  <2> QED BY <1>0, <1>c, <2>1, <2>2 DEF RequestType
<1>3. CASE UNCHANGED <<row, budget, hold, booked>>
  <2>1. RequestOK(r)'
    BY <1>0, <1>3, <1>a, <1>b DEF RequestOK, Liability
  <2> QED BY <1>0, <1>3, <1>c, <2>1 DEF RequestType, BudgetType, ChargedType, booked, budget
<1> QED BY <1>1, <1>2, <1>3 DEF SettleRoute

LEMMA SettleDecisionKeeps ==
    ASSUME IInv, NEW r \in Requests, SettleDecision(r)
    PROVE  TypeOK' /\ Others(r) /\ RequestOK(r)'
<1>0. BudgetType /\ RequestType /\ OtherType /\ ChargedType /\ RequestOK(r)
  BY Types DEF IInv
<1>a. /\ UNCHANGED <<marked, expired, used, bill, sent, unsure, called, exceeded,
                      faults, months, crashes>>
      /\ pc' = [pc EXCEPT ![r] = "done"] /\ pc[r] = "settling"
      /\ disabled' \in BOOLEAN /\ bill[r] \in Nat
  BY <1>0 DEF SettleDecision, Goto, Decision, request, history, bounds, RequestType, OtherType
<1>b. pc' \in [Requests -> Points] /\ pc'[r] = "done" /\ OtherType'
  BY <1>0, <1>a DEF RequestType, Points, OtherType
<1>c. ASSUME row' \in [Requests -> Rows], hold' \in [Requests -> Holds], BudgetType', ChargedType',
             \A q \in Requests \ {r} : row'[q] = row[q] /\ hold'[q] = hold[q], RequestOK(r)'
      PROVE  TypeOK' /\ Others(r) /\ RequestOK(r)'
  <2>1. RequestType'
    BY <1>0, <1>a, <1>b, <1>c DEF RequestType
  <2>2. Others(r)
    BY <1>0, <1>a, <1>c DEF Others, Same, RequestType
  <2> QED BY <1>b, <1>c, <2>1, <2>2, TypesNext
<1>1. CASE /\ Open(r) /\ row[r] = NoRow
           /\ SetRow(r, OwnRow(bill[r], IF unsure[r] THEN "pending" ELSE "none"))
           /\ Charge(r, Liability(r), bill[r])
           /\ SetHold(r, IF unsure[r] THEN "reconciled" ELSE "settled")
  <2> DEFINE state == IF unsure[r] THEN "pending" ELSE "none"
             status == IF unsure[r] THEN "reconciled" ELSE "settled"
  <2>0. state \in {"none", "pending", "reconciled"} /\ status \in Holds
    BY DEF Holds
  <2>1. /\ BudgetType' /\ ChargedType'
        /\ hold' \in [Requests -> Holds] /\ hold'[r] = status
        /\ row' \in [Requests -> Rows] /\ row'[r] = OwnRow(bill[r], state)
        /\ \A q \in Requests \ {r} : row'[q] = row[q] /\ hold'[q] = hold[q]
    BY <1>1, <2>0, ChargeIs
  <2>2. CASE unsure[r]
    <3>1. bill[r] = Liability(r) /\ Liability(r) \in Nat
      BY <1>0, <1>a, <2>2, LiabilityNat DEF RequestOK
    <3>2. row'[r] = OwnRow(Liability(r), "pending")
      BY <2>1, <2>2, <3>1 DEF OwnRow
    <3>3. RequestOK(r)'
      BY <1>0, <1>a, <1>b, <2>1, <2>2, <3>2 DEF RequestOK, Liability
    <3> QED BY <1>c, <2>1, <3>3
  <2>3. CASE ~unsure[r]
    <3>1. RequestOK(r)'
      BY <1>0, <1>a, <1>b, <2>1, <2>3 DEF RequestOK
    <3> QED BY <1>c, <2>1, <3>1
  <2> QED BY <2>2, <2>3
<1>2. CASE AwaitsCorrection(r) /\ CorrectRow(r, bill[r])
  <2>1. /\ BudgetType' /\ ChargedType' /\ hold' = hold
        /\ row' \in [Requests -> Rows] /\ row'[r] = OwnRow(bill[r], "reconciled")
        /\ \A q \in Requests \ {r} : row'[q] = row[q]
    BY <1>2, CorrectRowIs
  <2>2. RequestOK(r)'
    BY <1>0, <1>2, <1>a, <1>b, <2>1 DEF RequestOK, AwaitsCorrection, OwnRow
  <2> QED BY <1>0, <1>c, <2>1, <2>2 DEF RequestType
<1>3. CASE UNCHANGED <<row, budget, hold, booked>>
  <2>1. RequestOK(r)'
    BY <1>0, <1>3, <1>a, <1>b DEF RequestOK, Liability
  <2> QED BY <1>0, <1>3, <1>c, <2>1 DEF RequestType, BudgetType, ChargedType, booked, budget
<1> QED BY <1>1, <1>2, <1>3 DEF SettleDecision

-----------------------------------------------------------------------------

LEMMA MonthEndsKeeps ==
    ASSUME IInv, MonthEnds
    PROVE  IInv'
<1>0. BudgetType /\ RequestType /\ OtherType /\ ChargedType
  BY Types DEF IInv
<1>1. BudgetType' /\ OtherType' /\ ChargedType'
  BY <1>0 DEF MonthEnds, BudgetType, OtherType, ChargedType, booked
<1>2. RequestType' /\ \A q \in Requests : Same(q)
  BY <1>0 DEF MonthEnds, RequestType, Same, holds, request, history
<1> QED BY <1>1, <1>2, TypesNext, SameOK DEF IInv

LEMMA CrashKeeps ==
    ASSUME IInv, NEW S \in SUBSET Requests, Crash(S)
    PROVE  IInv'
<1>0. BudgetType /\ RequestType /\ OtherType /\ ChargedType
  BY Types DEF IInv
<1>1. BudgetType' /\ OtherType' /\ ChargedType'
  BY <1>0 DEF Crash, BudgetType, OtherType, ChargedType, booked, budget
<1>2. RequestType'
  BY <1>0 DEF Crash, RequestType, Points, holds, request, history
<1>3. ASSUME NEW q \in Requests PROVE RequestOK(q)'
  <2>1. /\ UNCHANGED <<hold, row, marked, called, unsure, bill>>
        /\ pc'[q] = "done" \/ pc'[q] = pc[q]
    BY <1>0 DEF Crash, holds, request, history
  <2> QED BY <2>1 DEF IInv, RequestOK, Liability
<1> QED BY <1>1, <1>2, <1>3, TypesNext DEF IInv

(* A step of one request, by any of its actions.                           *)
Step(r) ==
    \/ Admit(r) \/ Refuse(r) \/ RefuseDisabled(r)
    \/ GiveUp(r) \/ SkipAttempt(r) \/ Mark(r) \/ MarkRefused(r) \/ Answer(r)
    \/ Release(r) \/ SettleRoute(r) \/ SettleFails(r)
    \/ DecisionMark(r) \/ DecisionMarkRefused(r) \/ DecisionInterrupted(r)
    \/ DecisionDispatch(r) \/ DecisionAnswer(r) \/ DecisionRelease(r) \/ SettleDecision(r)
    \/ ReapRelease(r) \/ ReapCharge(r)
    \/ Observe(r) \/ Expire(r)

LEMMA NextIs ==
    Next <=> \/ \E r \in Requests : Step(r)
             \/ MonthEnds
             \/ \E S \in SUBSET Requests : Crash(S)
BY Zenon DEF Next, Step

LEMMA StepKeeps ==
    ASSUME IInv, NEW r \in Requests, Step(r)
    PROVE  TypeOK' /\ Others(r) /\ RequestOK(r)'
BY RefuseDisabledKeeps, GiveUpKeeps, SkipAttemptKeeps, MarkKeeps, MarkRefusedKeeps,
   SettleFailsKeeps, DecisionMarkKeeps, DecisionMarkRefusedKeeps, DecisionInterruptedKeeps,
   DecisionDispatchKeeps, ObserveKeeps, ExpireKeeps, RefuseKeeps, AdmitKeeps, AnswerKeeps,
   ReleaseKeeps, ReapReleaseKeeps, ReapChargeKeeps, DecisionReleaseKeeps, DecisionAnswerKeeps,
   SettleRouteKeeps, SettleDecisionKeeps, Zenon DEF Step

LEMMA InitHolds ==
    ASSUME Init
    PROVE  IInv
<1>1. BudgetType /\ OtherType /\ ChargedType
  BY DEF Init, BudgetType, OtherType, ChargedType, booked
<1>2. RequestType
  BY RowsTyped DEF Init, RequestType, Holds, Points, Rows, NoRow
<1>3. ASSUME NEW r \in Requests PROVE RequestOK(r)
  BY DEF Init, RequestOK
<1> QED BY <1>1, <1>2, <1>3, Types DEF IInv

LEMMA NextKeeps ==
    ASSUME IInv, [Next]_vars
    PROVE  IInv'
<1>1. ASSUME NEW r \in Requests, Step(r) PROVE IInv'
  <2>1. TypeOK' /\ Others(r) /\ RequestOK(r)'
    BY <1>1, StepKeeps
  <2>2. ASSUME NEW q \in Requests, q # r PROVE RequestOK(q)'
    BY <2>1, <2>2, SameOK DEF Others, IInv
  <2> QED BY <2>1, <2>2 DEF IInv
<1>2. CASE UNCHANGED vars
  <2>1. TypeOK' /\ \A q \in Requests : Same(q)
    BY <1>2 DEF IInv, TypeOK, Same, vars, budget, holds, request, bounds, history, booked
  <2> QED BY <2>1, SameOK DEF IInv
<1> QED BY <1>1, <1>2, MonthEndsKeeps, CrashKeeps, NextIs

THEOREM IndCorrect == Spec => []IInv
<1>1. Init => IInv
  BY InitHolds
<1>2. IInv /\ [Next]_vars => IInv'
  BY NextKeeps
<1> QED BY <1>1, <1>2, PTL DEF Spec

-----------------------------------------------------------------------------
(* The properties                                                          *)

(* The tables and the requests keep their types; in particular no reserve  *)
(* and no spend is ever negative.                                          *)
THEOREM TypeCorrect == Spec => []TypeOK
<1>1. IInv => TypeOK
  BY DEF IInv
<1> QED BY <1>1, IndCorrect, PTL

LEMMA ChargedIs ==
    ASSUME NEW r \in Requests
    PROVE  /\ row[r].by = "own" => Charged(r) = row[r].cost
           /\ row[r].by # "own" /\ hold[r] = "reconciled" => Charged(r) = Liability(r)
           /\ row[r].by # "own" /\ hold[r] # "reconciled" => Charged(r) = 0
BY DEF Charged

(* A request whose provider may have been called is never free.            *)
THEOREM NoFreeCallCorrect == Spec => []NoFreeCall
<1>1. IInv => NoFreeCall
  <2> SUFFICES ASSUME IInv, NEW r \in Requests, called[r]
               PROVE  /\ hold[r] \in {"dispatched", "settled", "reconciled"}
                      /\ hold[r] = "settled" => Charged(r) = bill[r]
                      /\ hold[r] = "reconciled" /\ row[r].state = "pending"
                           => Charged(r) >= Liability(r)
    BY DEF NoFreeCall
  <2>1. RequestOK(r) /\ hold[r] \in Holds
    BY Types DEF IInv, RequestType
  <2>2. hold[r] = "settled" => row[r].by = "own" /\ row[r].cost = bill[r]
    BY <2>1 DEF RequestOK, OwnRow
  <2>3. hold[r] = "reconciled" /\ row[r].state = "pending"
          => row[r].by = "own" /\ row[r].cost >= Liability(r)
    BY <2>1, LiabilityNat DEF RequestOK, OwnRow, ObserverRow
  <2> QED BY <2>1, <2>2, <2>3, ChargedIs DEF RequestOK, Holds
<1> QED BY <1>1, IndCorrect, PTL

-----------------------------------------------------------------------------
(* What a step does to the money of its request: nothing, or one of the    *)
(* moves that Reservation allows.                                          *)

Keeps(r) == hold'[r] = hold[r] /\ row'[r] = row[r]
OpensTo(r, status) == Open(r) /\ hold'[r] = status
Reserves(r) ==
    /\ hold[r] = "none" /\ hold'[r] = "held" /\ row'[r] = row[r] /\ called'[r] = called[r]
Marks(r) ==
    /\ Open(r) /\ hold'[r] = "dispatched" /\ row'[r] = row[r]
    /\ called'[r] = called[r] \/ called'[r]
Observes(r) ==
    /\ hold'[r] = hold[r] /\ row[r] = NoRow /\ row'[r] = ObserverRow /\ called'[r] = called[r]
Calls(r) == Keeps(r) /\ (called'[r] = called[r] \/ (pc[r] = "marked" /\ called'[r]))
Frees(r) == OpensTo(r, "released") /\ ~called[r] /\ row'[r] = row[r] /\ called'[r] = called[r]
Settles(r) ==
    /\ OpensTo(r, "settled") /\ row'[r] = OwnRow(bill[r], "none") /\ called'[r] = called[r]
Estimates(r) ==
    /\ OpensTo(r, "reconciled") /\ called'[r] = called[r]
    /\ \/ row'[r].by = "own" /\ row'[r].state = "pending" /\ row'[r].cost >= Liability(r)
       \/ row'[r] = ObserverRow
Corrects(r) ==
    /\ hold[r] = "reconciled" /\ hold'[r] = hold[r] /\ called'[r] = called[r]
    /\ row[r].by = "own" /\ row[r].state = "pending" /\ row'[r] = OwnRow(bill[r], "reconciled")

Moves(r) ==
    \/ Calls(r) \/ Reserves(r) \/ Marks(r) \/ Observes(r) \/ Frees(r) \/ Settles(r)
    \/ Estimates(r) \/ Corrects(r)

LEMMA QuietSteps ==
    ASSUME IInv, NEW r \in Requests,
           \/ Refuse(r) \/ RefuseDisabled(r) \/ GiveUp(r) \/ SkipAttempt(r) \/ MarkRefused(r)
           \/ Answer(r) \/ SettleFails(r) \/ DecisionMarkRefused(r) \/ DecisionInterrupted(r)
           \/ DecisionAnswer(r) \/ Expire(r)
    PROVE  Calls(r)
BY DEF Calls, Keeps, Refuse, RefuseDisabled, GiveUp, SkipAttempt, MarkRefused, Answer, SettleFails,
       DecisionMarkRefused, DecisionInterrupted, DecisionAnswer, Expire, holds, history

LEMMA FreeHoldFrees ==
    ASSUME IInv, NEW r \in Requests, Open(r), ~called[r], FreeHold(r), called' = called
    PROVE  Frees(r)
<1>1. hold \in [Requests -> Holds]
  BY Types DEF IInv, RequestType
<1> QED BY <1>1 DEF Frees, OpensTo, FreeHold, SetHold

LEMMA StepMoves ==
    ASSUME IInv, NEW r \in Requests, Step(r)
    PROVE  Moves(r)
<1>0. RequestType /\ RequestOK(r)
  BY Types DEF IInv
<1>1. CASE Admit(r)
  BY <1>0, <1>1 DEF Admit, Idle, SetHold, RequestOK, RequestType, Moves, Reserves, history
<1>2. CASE Mark(r)
  BY <1>0, <1>2 DEF Mark, MayMark, WriteMark, SetHold, RequestType, Moves, Marks
<1>3. CASE DecisionMark(r)
  BY <1>0, <1>3 DEF DecisionMark, WriteMark, SetHold, Open, RequestType, Moves, Marks, history
<1>4. CASE DecisionDispatch(r)
  BY <1>0, <1>4 DEF DecisionDispatch, Decision, RequestType, Moves, Calls, Keeps, holds
<1>5. CASE Observe(r)
  BY <1>0, <1>5 DEF Observe, SetRow, RequestType, Moves, Observes, holds, history
<1>6. CASE Release(r)
  <2>1. CASE Freeable(r) /\ FreeHold(r)
    <3>1. Open(r) /\ ~called[r] /\ called' = called
      BY <1>0, <1>6, <2>1 DEF Freeable, Open, RequestOK, Release, history
    <3> QED BY <2>1, <3>1, FreeHoldFrees DEF Moves
  <2>2. CASE UNCHANGED <<hold, row, budget, booked>>
    BY <1>6, <2>2 DEF Release, Moves, Calls, Keeps, history
  <2> QED BY <1>6, <2>1, <2>2 DEF Release
<1>7. CASE DecisionRelease(r)
  <2>1. CASE Open(r) /\ FreeHold(r)
    <3>1. ~called[r] /\ called' = called
      BY <1>0, <1>7 DEF DecisionRelease, Decision, RequestOK, history
    <3> QED BY <2>1, <3>1, FreeHoldFrees DEF Moves
  <2>2. CASE UNCHANGED <<hold, row, budget, booked>>
    BY <1>7, <2>2 DEF DecisionRelease, Moves, Calls, Keeps, history
  <2> QED BY <1>7, <2>1, <2>2 DEF DecisionRelease
<1>8. CASE ReapRelease(r)
  <2>1. Open(r) /\ ~called[r] /\ FreeHold(r) /\ called' = called
    BY <1>0, <1>8 DEF ReapRelease, Reapable, Spared, RequestOK, history
  <2> QED BY <2>1, FreeHoldFrees DEF Moves
<1>9. CASE ReapCharge(r)
  <2>1. Open(r) /\ row[r] \in {NoRow, ObserverRow}
    BY <1>0, <1>9 DEF ReapCharge, Reapable, Open, RequestOK
  <2>2. row'[r] = OwnRow(Liability(r), "pending") \/ row'[r] = ObserverRow
    BY <1>0, <1>9, <2>1 DEF ReapCharge, Conservative, SetRow, RequestType, NoRow, ObserverRow
  <2>3. hold'[r] = "reconciled" /\ called' = called
    BY <1>0, <1>9 DEF ReapCharge, SetHold, RequestType, history
  <2> QED BY <2>1, <2>2, <2>3, LiabilityNat DEF Moves, Estimates, OpensTo, OwnRow
<1>10. CASE SettleRoute(r) \/ SettleDecision(r)
  <2>0. called' = called
    BY <1>10 DEF SettleRoute, SettleDecision, history
  <2>1. ASSUME NEW state \in {"none", "pending", "reconciled"}, NEW status \in Holds, Open(r),
               SetRow(r, OwnRow(bill[r], state)), Charge(r, Liability(r), bill[r]),
               SetHold(r, status)
        PROVE  OpensTo(r, status) /\ row'[r] = OwnRow(bill[r], state)
    BY <2>1, ChargeIs DEF OpensTo
  <2>2. CASE /\ SettleRoute(r) /\ Open(r) /\ SetRow(r, OwnRow(bill[r], "none"))
             /\ Charge(r, Liability(r), bill[r]) /\ SetHold(r, "settled")
    BY <2>0, <2>1, <2>2 DEF Holds, Moves, Settles
  <2>3. CASE /\ SettleDecision(r) /\ Open(r)
             /\ SetRow(r, OwnRow(bill[r], IF unsure[r] THEN "pending" ELSE "none"))
             /\ Charge(r, Liability(r), bill[r])
             /\ SetHold(r, IF unsure[r] THEN "reconciled" ELSE "settled")
    <3>1. CASE ~unsure[r]
      BY <2>0, <2>1, <2>3, <3>1 DEF Holds, Moves, Settles
    <3>2. CASE unsure[r]
      <4>1. OpensTo(r, "reconciled") /\ row'[r] = OwnRow(bill[r], "pending")
        BY <2>1, <2>3, <3>2 DEF Holds
      <4>2. bill[r] = Liability(r) /\ Liability(r) \in Nat
        BY <1>0, <2>3, <3>2, LiabilityNat DEF RequestOK, SettleDecision, Decision
      <4> QED BY <2>0, <4>1, <4>2 DEF Moves, Estimates, OwnRow
    <3> QED BY <3>1, <3>2
  <2>4. CASE AwaitsCorrection(r) /\ CorrectRow(r, bill[r])
    <3>1. hold' = hold /\ row'[r] = OwnRow(bill[r], "reconciled")
      BY <2>4, CorrectRowIs
    <3> QED BY <2>0, <2>4, <3>1 DEF Moves, Corrects, AwaitsCorrection
  <2>5. CASE UNCHANGED <<row, budget, hold, booked>>
    BY <2>0, <2>5 DEF Moves, Calls, Keeps
  <2> QED BY <1>10, <2>2, <2>3, <2>4, <2>5 DEF SettleRoute, SettleDecision
<1> QED
  BY <1>1, <1>2, <1>3, <1>4, <1>5, <1>6, <1>7, <1>8, <1>9, <1>10, QuietSteps DEF Step, Moves

(* A step of the month or of a crash moves the money of no request.        *)
LEMMA OtherStepsKeep ==
    ASSUME MonthEnds \/ (\E S \in SUBSET Requests : Crash(S)) \/ UNCHANGED vars
    PROVE  UNCHANGED <<hold, row, called>>
BY DEF MonthEnds, Crash, vars, holds, history

(* A row of the ledger is rewritten once, by the correction of an estimate.*)
THEOREM CorrectedOnceCorrect == Spec => CorrectedOnce
<1> DEFINE Final(q) == row[q].by = "own" /\ row'[q] # row[q] =>
                           row[q].state = "pending" /\ hold[q] = "reconciled"
                             /\ row'[q].by = "own" /\ row'[q].state = "reconciled"
<1>1. ASSUME IInv, NEW r \in Requests, Step(r), NEW q \in Requests PROVE Final(q)
  <2>1. CASE q # r
    BY <1>1, <2>1, StepKeeps DEF Others, Same
  <2>2. CASE q = r
    <3>1. Moves(r) /\ RequestOK(r)
      BY <1>1, StepMoves DEF IInv
    <3>2. Open(r) => row[r].by # "own"
      BY <3>1 DEF RequestOK, Open, NoRow, ObserverRow
    <3>3. CASE Corrects(r)
      BY <2>2, <3>3 DEF Corrects, OwnRow
    <3>4. CASE Observes(r)
      BY <2>2, <3>4 DEF Observes, NoRow
    <3>5. CASE Calls(r) \/ Reserves(r) \/ Marks(r) \/ Frees(r)
      BY <2>2, <3>5 DEF Calls, Keeps, Reserves, Marks, Frees
    <3>6. CASE Settles(r) \/ Estimates(r)
      BY <2>2, <3>2, <3>6 DEF Settles, Estimates, OpensTo
    <3> QED BY <3>1, <3>3, <3>4, <3>5, <3>6 DEF Moves
  <2> QED BY <2>1, <2>2
<1>2. ASSUME IInv, [Next]_vars, NEW q \in Requests PROVE Final(q)
  BY <1>1, <1>2, NextIs, OtherStepsKeep
<1>3. IInv /\ [Next]_vars =>
        [\A r \in Requests :
            row[r].by = "own" /\ row'[r] # row[r] =>
                row[r].state = "pending" /\ hold[r] = "reconciled"
                  /\ row'[r].by = "own" /\ row'[r].state = "reconciled"]_vars
  BY <1>2
<1> QED BY <1>3, IndCorrect, PTL DEF Spec, CorrectedOnce

-----------------------------------------------------------------------------
(* The refinement of Reservation                                           *)

Committed(r) == IF Open(r) THEN Liability(r) ELSE Charged(r)

LEMMA AccountIs ==
    ASSUME NEW r \in Requests
    PROVE  /\ hold[r] = "none" => Account(r) = "none"
           /\ Open(r) => Account(r) = "open" /\ Committed(r) = Liability(r)
           /\ hold[r] = "released" => Account(r) = "free"
           /\ hold[r] = "settled" => Account(r) = "final"
           /\ hold[r] = "reconciled" => Account(r) = IF row[r].state = "reconciled"
                                                     THEN "final" ELSE "estimate"
BY DEF Account, Open, Committed

LEMMA AccountNext ==
    ASSUME NEW r \in Requests
    PROVE  /\ hold'[r] = "none" => Account(r)' = "none"
           /\ hold'[r] \in {"held", "dispatched"} =>
                Account(r)' = "open" /\ Committed(r)' = Liability(r)
           /\ hold'[r] = "released" => Account(r)' = "free"
           /\ hold'[r] = "settled" => Account(r)' = "final"
           /\ hold'[r] = "reconciled" => Account(r)' = IF row'[r].state = "reconciled"
                                                       THEN "final" ELSE "estimate"
BY DEF Account, Open, Committed, Liability

LEMMA CommittedNext ==
    ASSUME NEW r \in Requests, hold'[r] \notin {"held", "dispatched"}
    PROVE  /\ row'[r].by = "own" => Committed(r)' = row'[r].cost
           /\ row'[r].by # "own" /\ hold'[r] = "reconciled" => Committed(r)' = Liability(r)
           /\ row'[r].by # "own" /\ hold'[r] # "reconciled" => Committed(r)' = 0
BY DEF Committed, Open, Charged, Liability

(* Only the hold and the row of a request tell its account.                *)
LEMMA KeepsAccount ==
    ASSUME NEW q \in Requests, Keeps(q)
    PROVE  Account(q)' = Account(q) /\ Committed(q)' = Committed(q)
BY DEF Keeps, Account, Committed, Open, Charged, Liability

accounts == [r \in Requests |-> Account(r)]
amounts == [r \in Requests |-> Committed(r)]

LEMMA Abstract ==
    ASSUME NEW r \in Requests, Others(r)
    PROVE  /\ accounts' = [accounts EXCEPT ![r] = Account(r)']
           /\ amounts' = [amounts EXCEPT ![r] = Committed(r)']
<1>1. \A q \in Requests \ {r} : Account(q)' = Account(q) /\ Committed(q)' = Committed(q)
  BY KeepsAccount DEF Others, Same, Keeps
<1> QED BY <1>1 DEF accounts, amounts

LEMMA Unmoved ==
    ASSUME \A q \in Requests : Keeps(q)
    PROVE  accounts' = accounts /\ amounts' = amounts
BY KeepsAccount DEF accounts, amounts

LEMMA MoveIs ==
    ASSUME IInv, NEW r \in Requests, Others(r), called'[r] = called[r], TypeOK',
           NEW from, NEW to, Account(r) = from, Account(r)' = to, Committed(r)' \in Nat
    PROVE  /\ R!Move(r, from, to)
           /\ amounts[r] = Committed(r) /\ amounts'[r] = Committed(r)'
<1>1. /\ accounts' = [accounts EXCEPT ![r] = to]
      /\ amounts' = [amounts EXCEPT ![r] = Committed(r)']
  BY Abstract
<1>2. accounts[r] = from /\ amounts[r] = Committed(r) /\ amounts'[r] = Committed(r)'
  BY DEF accounts, amounts
<1>3. called' = called
  <2>1. called \in [Requests -> BOOLEAN] /\ called' \in [Requests -> BOOLEAN]
    BY DEF IInv, TypeOK
  <2> QED BY <2>1 DEF Others, Same
<1> QED BY <1>1, <1>2, <1>3 DEF R!Move, accounts, amounts, Committed

LEMMA CallIs ==
    ASSUME IInv, NEW r \in Requests, Others(r), TypeOK', called'[r] = called[r] \/ called'[r],
           called'[r] # called[r] => Account(r) \in {"open", "estimate"},
           Account(r)' = Account(r), Committed(r)' = Committed(r)
    PROVE  [R!Call(r)]_(R!vars)
<1>1. accounts' = accounts /\ amounts' = amounts
  BY Abstract DEF accounts, amounts
<1>2. called \in [Requests -> BOOLEAN] /\ called' \in [Requests -> BOOLEAN]
      /\ \A q \in Requests \ {r} : called'[q] = called[q]
  BY DEF IInv, TypeOK, Others, Same
<1>3. CASE called'[r] = called[r]
  <2>1. called' = called
    BY <1>2, <1>3
  <2> QED BY <1>1, <2>1 DEF R!vars, accounts, amounts, Committed
<1>4. CASE called'[r] # called[r]
  <2>1. called' = [called EXCEPT ![r] = TRUE]
    <3>1. called'[r] = TRUE
      BY <1>2, <1>4
    <3> QED BY <1>2, <3>1
  <2>2. accounts[r] \in {"open", "estimate"}
    BY <1>4 DEF accounts
  <2> QED BY <1>1, <2>1, <2>2 DEF R!Call, accounts, amounts, Committed
<1> QED BY <1>3, <1>4

LEMMA StepRefines ==
    ASSUME IInv, NEW r \in Requests, Step(r)
    PROVE  [R!Next]_(R!vars)
<1>0. /\ TypeOK' /\ Others(r) /\ Moves(r) /\ RequestOK(r) /\ RequestType
      /\ row'[r] \in Rows /\ bill[r] \in Nat /\ Liability(r) \in Nat
  <2>1. row' \in [Requests -> Rows]
    BY StepKeeps DEF TypeOK, Rows
  <2> QED BY <2>1, StepKeeps, StepMoves, Types, LiabilityNat DEF IInv, RequestType
<1>1. CASE Calls(r)
  <2>1. Account(r)' = Account(r) /\ Committed(r)' = Committed(r)
    BY <1>1, KeepsAccount DEF Calls
  <2>2. called'[r] # called[r] => Account(r) \in {"open", "estimate"}
    <3> SUFFICES ASSUME called'[r] # called[r] PROVE Account(r) \in {"open", "estimate"}
      OBVIOUS
    <3>1. pc[r] = "marked"
      BY <1>1 DEF Calls
    <3>2. hold[r] = "dispatched" \/ (hold[r] = "reconciled" /\ row[r].state # "reconciled")
      BY <1>0, <3>1 DEF RequestOK, OwnRow, ObserverRow
    <3> QED BY <3>2, AccountIs DEF Open
  <2> QED BY <1>0, <1>1, <2>1, <2>2, CallIs DEF Calls, R!Next
<1>2. CASE Reserves(r)
  <2>1. Account(r) = "none" /\ Account(r)' = "open" /\ Committed(r)' = Liability(r)
    BY <1>2, AccountIs, AccountNext DEF Reserves
  <2>2. R!Move(r, "none", "open")
    BY <1>0, <1>2, <2>1, MoveIs DEF Reserves
  <2> QED BY <2>2 DEF R!Next, R!Reserve
<1>3. CASE Marks(r)
  <2>1. Account(r) = "open" /\ Account(r)' = "open" /\ Committed(r)' = Committed(r)
    BY <1>3, AccountIs, AccountNext DEF Marks
  <2> QED BY <1>0, <1>3, <2>1, CallIs DEF Marks, R!Next
<1>4. CASE Observes(r)
  <2>1. hold[r] \notin {"settled", "reconciled"} /\ hold[r] \in Holds
    BY <1>0, <1>4 DEF Observes, RequestOK, RequestType, NoRow, OwnRow, ObserverRow
  <2>2. Account(r)' = Account(r)
    BY <1>4, <2>1, AccountIs, AccountNext DEF Observes, Holds, Open
  <2>3. Committed(r)' = Committed(r)
    <3>1. CASE Open(r)
      BY <1>4, <3>1, AccountIs, AccountNext DEF Observes, Open
    <3>2. CASE ~Open(r)
      <4>1. hold'[r] \notin {"held", "dispatched", "reconciled"} /\ row'[r].by # "own"
        BY <1>4, <2>1, <3>2 DEF Observes, Open, ObserverRow
      <4>2. Committed(r)' = 0
        BY <4>1, CommittedNext
      <4>3. row[r].by # "own" /\ hold[r] # "reconciled"
        BY <1>4, <2>1 DEF Observes, NoRow
      <4>4. Committed(r) = 0
        BY <3>2, <4>3, ChargedIs DEF Committed
      <4> QED BY <4>2, <4>4
    <3> QED BY <3>1, <3>2
  <2> QED BY <1>0, <1>4, <2>2, <2>3, CallIs DEF Observes, R!Next
<1>5. CASE Frees(r)
  <2>1. row'[r].by # "own" /\ hold'[r] = "released"
    BY <1>0, <1>5 DEF Frees, OpensTo, Open, RequestOK, NoRow, ObserverRow
  <2>2. Account(r) = "open" /\ Account(r)' = "free" /\ Committed(r)' = 0
    BY <1>5, <2>1, AccountIs, AccountNext, CommittedNext DEF Frees, OpensTo
  <2>3. R!Move(r, "open", "free") /\ amounts'[r] = 0
    BY <1>0, <1>5, <2>2, MoveIs DEF Frees
  <2>4. R!Free(r)
    BY <1>5, <2>3 DEF R!Free, Frees, amounts, Committed
  <2> QED BY <2>4 DEF R!Next
<1>6. CASE Settles(r)
  <2>1. row'[r].by = "own" /\ row'[r].cost = bill[r] /\ hold'[r] = "settled"
    BY <1>6 DEF Settles, OpensTo, OwnRow
  <2>2. Account(r) = "open" /\ Account(r)' = "final" /\ Committed(r)' = bill[r]
    BY <1>6, <2>1, AccountIs, AccountNext, CommittedNext DEF Settles, OpensTo
  <2>3. R!Move(r, "open", "final")
    BY <1>0, <1>6, <2>2, MoveIs DEF Settles
  <2> QED BY <2>3 DEF R!Next, R!Settle
<1>7. CASE Estimates(r)
  <2>1. hold'[r] = "reconciled" /\ row'[r].state # "reconciled"
    BY <1>7 DEF Estimates, OpensTo, ObserverRow
  <2>2. Committed(r)' \in Nat /\ Committed(r)' >= Liability(r)
    BY <1>0, <1>7, <2>1, CommittedNext DEF Estimates, ObserverRow, Rows
  <2>3. /\ Account(r) = "open" /\ Committed(r) = Liability(r)
        /\ Account(r)' = "estimate"
    BY <1>7, <2>1, AccountIs, AccountNext DEF Estimates, OpensTo
  <2>4. R!Move(r, "open", "estimate") /\ amounts'[r] >= amounts[r]
    BY <1>0, <1>7, <2>2, <2>3, MoveIs DEF Estimates
  <2>5. R!Estimate(r)
    BY <2>4 DEF R!Estimate, amounts, Committed
  <2> QED BY <2>5 DEF R!Next
<1>8. CASE Corrects(r)
  <2>1. /\ hold'[r] = "reconciled" /\ row'[r].by = "own" /\ row'[r].cost = bill[r]
        /\ row'[r].state = "reconciled" /\ hold[r] = "reconciled" /\ row[r].state # "reconciled"
    BY <1>8 DEF Corrects, OwnRow
  <2>2. Account(r) = "estimate" /\ Account(r)' = "final" /\ Committed(r)' = bill[r]
    BY <2>1, AccountIs, AccountNext, CommittedNext
  <2>3. R!Move(r, "estimate", "final")
    BY <1>0, <1>8, <2>2, MoveIs DEF Corrects
  <2> QED BY <2>3 DEF R!Next, R!Correct
<1> QED BY <1>0, <1>1, <1>2, <1>3, <1>4, <1>5, <1>6, <1>7, <1>8 DEF Moves

(* Metering implements the promise it makes of each request.               *)
THEOREM ReservationsCorrect == Spec => Reservations
<1>1. Init => R!Init
  <2> SUFFICES ASSUME Init PROVE R!Init
    OBVIOUS
  <2>1. ASSUME NEW r \in Requests
        PROVE  Account(r) = "none" /\ Committed(r) = 0
    <3>1. hold[r] = "none" /\ row[r] = NoRow
      BY DEF Init
    <3> QED BY <3>1, AccountIs, ChargedIs DEF Committed, Open, NoRow
  <2>2. accounts = [r \in Requests |-> "none"] /\ amounts = [r \in Requests |-> 0]
    BY <2>1 DEF accounts, amounts
  <2> QED BY <2>2 DEF Init, R!Init, accounts, amounts, Committed
<1>2. IInv /\ [Next]_vars => [R!Next]_(R!vars)
  <2> SUFFICES ASSUME IInv, [Next]_vars PROVE [R!Next]_(R!vars)
    OBVIOUS
  <2>1. ASSUME UNCHANGED <<hold, row, called>> PROVE [R!Next]_(R!vars)
    <3>1. accounts' = accounts /\ amounts' = amounts /\ called' = called
      BY <2>1, Unmoved DEF Keeps
    <3> QED BY <3>1 DEF R!vars, accounts, amounts, Committed
  <2> QED BY <2>1, StepRefines, OtherStepsKeep, NextIs
<1> QED BY <1>1, <1>2, IndCorrect, PTL DEF Spec, Reservations, R!Spec

-----------------------------------------------------------------------------
(* What a request is billed: an attempt that has been used costs no more   *)
(* than the dearest candidate; the attempt of a call is not billed yet.    *)

Once(r) == QuoteLiabilityOnce(Quote[r], IF r \in Decisions THEN 0 ELSE Margin)
Billed(r) == IF r \notin Decisions /\ pc[r] = "calling" THEN used[r] - 1 ELSE used[r]

BillOK(r) ==
    /\ r \in Decisions => (~exceeded[r] => bill[r] <= Liability(r))
    /\ r \notin Decisions =>
         /\ used[r] <= Attempts(r)
         /\ pc[r] = "calling" => used[r] > 0
         /\ ~exceeded[r] => bill[r] <= Billed(r) * Once(r)
BillInv == \A r \in Requests : BillOK(r)

LEMMA OnceNat ==
    ASSUME NEW r \in Requests
    PROVE  /\ Once(r) \in Nat /\ Attempts(r) \in Nat \ {0} /\ Liability(r) = Attempts(r) * Once(r)
           /\ \A c \in Quote[r].candidates :
                AttemptLiability(c, IF r \in Decisions THEN 0 ELSE Margin) <= Once(r)
BY OnceIs, QuoteAssumption DEF Once, Attempts, Liability, QuoteLiability, Quotes

(* The money of the others, and of a request that neither uses an attempt  *)
(* nor is answered.                                                        *)
Unbilled(r) ==
    /\ bill'[r] = bill[r] /\ exceeded'[r] = exceeded[r] /\ used'[r] = used[r]
    /\ r \notin Decisions /\ pc'[r] = "calling" => pc[r] = "calling"

LEMMA UnbilledOK ==
    ASSUME IInv, NEW r \in Requests, BillOK(r), Unbilled(r)
    PROVE  BillOK(r)'
<1>0. used[r] \in Nat /\ bill[r] \in Nat /\ Once(r) \in Nat
  BY Types, OnceNat DEF IInv, RequestType
<1>1. Once(r)' = Once(r) /\ Attempts(r)' = Attempts(r) /\ Liability(r)' = Liability(r)
  BY DEF Once, Attempts, Liability
<1>2. CASE r \in Decisions
  BY <1>1, <1>2 DEF BillOK, Unbilled
<1>3. CASE r \notin Decisions /\ pc'[r] = "calling"
  BY <1>1, <1>3 DEF BillOK, Unbilled, Billed
<1>4. CASE r \notin Decisions /\ pc'[r] # "calling"
  <2>1. Billed(r) \in Nat /\ Billed(r) <= used[r] /\ Billed(r)' = used[r]
    BY <1>0, <1>4 DEF BillOK, Unbilled, Billed
  <2>2. Billed(r) * Once(r) <= used[r] * Once(r)
    BY <1>0, <2>1, ProductGrows
  <2>3. Billed(r) * Once(r) \in Nat /\ used[r] * Once(r) \in Nat
    BY <1>0, <2>1, ProductNat
  <2>4. ~exceeded'[r] => bill'[r] <= used[r] * Once(r)
    BY <1>0, <1>4, <2>2, <2>3 DEF BillOK, Unbilled
  <2> QED BY <1>1, <1>4, <2>1, <2>4 DEF BillOK, Unbilled
<1> QED BY <1>2, <1>3, <1>4

(* An attempt is used, and may be called.                                  *)
LEMMA UseOK ==
    ASSUME IInv, NEW r \in Requests, BillOK(r), r \notin Decisions, pc[r] # "calling",
           used[r] < Attempts(r), used'[r] = used[r] + 1,
           bill'[r] = bill[r], exceeded'[r] = exceeded[r]
    PROVE  BillOK(r)'
<1>0. used[r] \in Nat /\ bill[r] \in Nat /\ Once(r) \in Nat /\ Attempts(r) \in Nat
  BY Types, OnceNat DEF IInv, RequestType
<1>1. Once(r)' = Once(r) /\ Attempts(r)' = Attempts(r)
  BY DEF Once, Attempts
<1>2. Billed(r) = used[r] /\ Billed(r)' \in Nat /\ used[r] <= Billed(r)'
  BY <1>0 DEF Billed
<1>3. used[r] * Once(r) <= Billed(r)' * Once(r)
  BY <1>0, <1>2, ProductGrows
<1>4. used[r] * Once(r) \in Nat /\ Billed(r)' * Once(r) \in Nat
  BY <1>0, <1>2, ProductNat
<1>5. ~exceeded'[r] => bill'[r] <= Billed(r)' * Once(r)
  BY <1>0, <1>2, <1>3, <1>4 DEF BillOK
<1>6. used'[r] <= Attempts(r) /\ used'[r] > 0
  BY <1>0
<1> QED BY <1>1, <1>5, <1>6 DEF BillOK

LEMMA AnswerOK ==
    ASSUME IInv, NEW r \in Requests, BillOK(r), Answer(r)
    PROVE  BillOK(r)'
<1>0. /\ used[r] \in Nat /\ bill[r] \in Nat /\ Once(r) \in Nat /\ RequestType
      /\ r \notin Decisions /\ pc[r] = "calling" /\ used[r] > 0
  BY Types, OnceNat DEF IInv, RequestType, Answer, Route, BillOK
<1>1. Once(r)' = Once(r) /\ Attempts(r)' = Attempts(r)
  BY DEF Once, Attempts
<1>2. PICK c \in Quote[r].candidates, u \in UsageReports :
        /\ bill' = [bill EXCEPT ![r] = @ + AttemptCost(c, u)]
        /\ exceeded' = [exceeded EXCEPT ![r] = @ \/ ~WithinAllowance(c, u)]
  BY DEF Answer
<1>3. c \in Candidates /\ u \in Usages /\ Margin \in Nat
  BY QuoteAssumption DEF Quotes
<1>4. AttemptCost(c, u) \in Nat
  BY <1>3, AttemptCostNat
<1>5. bill'[r] = bill[r] + AttemptCost(c, u)
      /\ (~exceeded'[r] => ~exceeded[r] /\ WithinAllowance(c, u))
  BY <1>0, <1>2 DEF RequestType
<1>6. WithinAllowance(c, u) => AttemptCost(c, u) <= Once(r)
  <2>1. AttemptLiability(c, Margin) <= Once(r) /\ AttemptLiability(c, Margin) \in Nat
    BY <1>0, <1>3, OnceNat, AttemptLiabilityNat
  <2> QED BY <1>0, <1>3, <1>4, <2>1, AllowanceCovered
<1>7. UNCHANGED used /\ pc'[r] # "calling"
  BY <1>0 DEF Answer, Goto, RequestType
<1>8. ~exceeded'[r] => bill'[r] <= used[r] * Once(r)
  <2>1. used[r] - 1 \in Nat /\ (used[r] - 1) * Once(r) + Once(r) = used[r] * Once(r)
    BY <1>0
  <2>2. (used[r] - 1) * Once(r) \in Nat
    BY <1>0, <2>1, ProductNat
  <2>3. ~exceeded[r] => bill[r] <= (used[r] - 1) * Once(r)
    BY <1>0 DEF BillOK, Billed
  <2> QED BY <1>0, <1>4, <1>5, <1>6, <2>1, <2>2, <2>3
<1> QED BY <1>0, <1>1, <1>7, <1>8 DEF BillOK, Billed

LEMMA DecisionAnswerOK ==
    ASSUME IInv, NEW r \in Requests, BillOK(r), DecisionAnswer(r)
    PROVE  BillOK(r)'
<1>0. r \in Decisions /\ RequestType /\ Liability(r) \in Nat /\ Liability(r)' = Liability(r)
  BY Types, LiabilityNat DEF IInv, DecisionAnswer, Decision, Liability
<1>1. PICK c \in Quote[r].candidates, u \in UsageReports :
        /\ bill' = [bill EXCEPT ![r] = IF u.estimated THEN Liability(r)
                                       ELSE TokenCost(c.price, u.inputTokens, 0)]
        /\ exceeded' = [exceeded EXCEPT ![r] = ~WithinAllowance(c, u)]
  BY DEF DecisionAnswer
<1>2. c \in Candidates /\ u \in Usages
  BY QuoteAssumption DEF Quotes
<1>3. WithinAllowance(c, u) => TokenCost(c.price, u.inputTokens, 0) <= Liability(r)
  <2>1. /\ c.price \in Prices /\ u.inputTokens \in Nat /\ c.inputTokens \in Nat
        /\ WithMargin(c.inputTokens, 0) \in Nat /\ c.inputTokens <= WithMargin(c.inputTokens, 0)
        /\ ReservedOutput(c) \in Nat
    BY <1>2, WithMarginCovers, AttemptLiabilityNat DEF Candidates, Usages
  <2>2. ASSUME WithinAllowance(c, u)
        PROVE  TokenCost(c.price, u.inputTokens, 0) <= AttemptLiability(c, 0)
    <3>1. u.inputTokens <= WithMargin(c.inputTokens, 0) /\ 0 <= ReservedOutput(c)
      BY <2>1, <2>2 DEF WithinAllowance
    <3> QED BY <2>1, <3>1, TokenCostGrows DEF AttemptLiability
  <2>3. AttemptLiability(c, 0) <= Once(r) /\ AttemptLiability(c, 0) \in Nat
    BY <1>0, <1>2, OnceNat, AttemptLiabilityNat
  <2>4. Liability(r) = Once(r)
    <3>1. Attempts(r) = 1
      BY <1>0, QuoteAssumption DEF Attempts
    <3> QED BY <3>1, OnceNat
  <2>5. TokenCost(c.price, u.inputTokens, 0) \in Nat
    BY <2>1, TokenCostNat
  <2> QED BY <1>0, <2>2, <2>3, <2>4, <2>5
<1>4. /\ bill'[r] = Liability(r) \/ bill'[r] = TokenCost(c.price, u.inputTokens, 0)
      /\ ~exceeded'[r] => WithinAllowance(c, u)
  BY <1>0, <1>1 DEF RequestType
<1> QED BY <1>0, <1>3, <1>4 DEF BillOK

LEMMA StepBills ==
    ASSUME IInv, NEW r \in Requests, Step(r), BillOK(r)
    PROVE  BillOK(r)'
<1>0. RequestType
  BY Types DEF IInv
<1>1. CASE Mark(r) \/ SkipAttempt(r)
  BY <1>0, <1>1, UseOK DEF Mark, SkipAttempt, Route, RequestType, history
<1>2. CASE Answer(r)
  BY <1>2, AnswerOK
<1>3. CASE DecisionAnswer(r)
  BY <1>3, DecisionAnswerOK
<1>4. CASE \/ Admit(r) \/ Refuse(r) \/ RefuseDisabled(r) \/ GiveUp(r) \/ MarkRefused(r)
           \/ SettleFails(r)
  <2>1. Unbilled(r)
    BY <1>0, <1>4 DEF Admit, Refuse, RefuseDisabled, GiveUp, MarkRefused, SettleFails, Conclude,
       Goto, Unbilled, RequestType, request, history
  <2> QED BY <2>1, UnbilledOK
<1>5. CASE \/ DecisionMark(r) \/ DecisionMarkRefused(r) \/ DecisionInterrupted(r)
           \/ DecisionDispatch(r) \/ DecisionRelease(r) \/ SettleDecision(r)
  <2>1. Unbilled(r)
    BY <1>5 DEF DecisionMark, DecisionMarkRefused, DecisionInterrupted, DecisionDispatch,
       DecisionRelease, SettleDecision, Decision, Unbilled, request, history
  <2> QED BY <2>1, UnbilledOK
<1>6. CASE Release(r) \/ SettleRoute(r)
  <2>1. Unbilled(r)
    BY <1>0, <1>6 DEF Release, SettleRoute, Goto, Unbilled, RequestType, request, history
  <2> QED BY <2>1, UnbilledOK
<1>7. CASE ReapRelease(r) \/ ReapCharge(r) \/ Observe(r) \/ Expire(r)
  <2>1. Unbilled(r)
    BY <1>7 DEF ReapRelease, ReapCharge, Observe, Expire, Unbilled, request, history
  <2> QED BY <2>1, UnbilledOK
<1> QED BY <1>1, <1>2, <1>3, <1>4, <1>5, <1>6, <1>7 DEF Step

LEMMA OthersUnbilled ==
    ASSUME IInv, NEW r \in Requests, Step(r), NEW q \in Requests, q # r
    PROVE  Unbilled(q)
<1>0. RequestType /\ bill'[q] = bill[q] /\ pc'[q] = pc[q]
  BY StepKeeps, Types DEF IInv, Others, Same
<1>1. used'[q] = used[q] /\ exceeded'[q] = exceeded[q]
  <2>1. CASE Mark(r) \/ SkipAttempt(r)
    BY <1>0, <2>1 DEF Mark, SkipAttempt, RequestType, history
  <2>2. CASE Answer(r)
    BY <1>0, <2>2 DEF Answer, RequestType
  <2>3. CASE DecisionAnswer(r)
    BY <1>0, <2>3 DEF DecisionAnswer, RequestType
  <2>4. CASE \/ Admit(r) \/ Refuse(r) \/ RefuseDisabled(r) \/ GiveUp(r) \/ MarkRefused(r)
             \/ SettleFails(r) \/ DecisionMark(r) \/ DecisionMarkRefused(r)
             \/ DecisionInterrupted(r) \/ DecisionDispatch(r) \/ DecisionRelease(r)
             \/ SettleDecision(r) \/ Release(r) \/ SettleRoute(r)
             \/ ReapRelease(r) \/ ReapCharge(r) \/ Observe(r) \/ Expire(r)
    BY <2>4 DEF Admit, Refuse, RefuseDisabled, GiveUp, MarkRefused, SettleFails, DecisionMark,
       DecisionMarkRefused, DecisionInterrupted, DecisionDispatch, DecisionRelease,
       SettleDecision, Release, SettleRoute, ReapRelease, ReapCharge, Observe, Expire,
       request, history
  <2> QED BY <2>1, <2>2, <2>3, <2>4 DEF Step
<1> QED BY <1>0, <1>1 DEF Unbilled

(* What a request is billed is within what was reserved for it, unless its *)
(* provider reported more than an attempt was allowed.                     *)
THEOREM WithinReserveCorrect == Spec => []WithinReserve
<1>1. Init => BillInv
  <2> SUFFICES ASSUME Init, NEW r \in Requests PROVE BillOK(r)
    BY DEF BillInv
  <2>1. used[r] = 0 /\ bill[r] = 0 /\ pc[r] = "new"
    BY DEF Init
  <2> QED BY <2>1, OnceNat, LiabilityNat DEF BillOK, Billed
<1>2. IInv /\ BillInv /\ [Next]_vars => BillInv'
  <2> SUFFICES ASSUME IInv, BillInv, [Next]_vars, NEW q \in Requests PROVE BillOK(q)'
    BY DEF BillInv
  <2>1. ASSUME NEW r \in Requests, Step(r) PROVE BillOK(q)'
    <3>1. CASE q = r
      BY <2>1, <3>1, StepBills DEF BillInv
    <3>2. CASE q # r
      BY <2>1, <3>2, OthersUnbilled, UnbilledOK DEF BillInv
    <3> QED BY <3>1, <3>2
  <2>2. ASSUME MonthEnds \/ (\E S \in SUBSET Requests : Crash(S)) \/ UNCHANGED vars
        PROVE  BillOK(q)'
    <3>1. Unbilled(q)
      BY <2>2 DEF MonthEnds, Crash, vars, Unbilled, request, history
    <3> QED BY <3>1, UnbilledOK DEF BillInv
  <2> QED BY <2>1, <2>2, NextIs
<1>3. IInv /\ BillInv => WithinReserve
  <2> SUFFICES ASSUME IInv, BillInv, NEW r \in Requests, ~exceeded[r]
               PROVE  bill[r] <= Liability(r)
    BY DEF WithinReserve
  <2>1. BillOK(r) /\ used[r] \in Nat /\ bill[r] \in Nat
    BY Types DEF IInv, BillInv, RequestType
  <2>2. CASE r \in Decisions
    BY <2>1, <2>2 DEF BillOK
  <2>3. CASE r \notin Decisions
    <3>1. Billed(r) \in Nat /\ Billed(r) <= Attempts(r) /\ Attempts(r) \in Nat /\ Once(r) \in Nat
      BY <2>1, <2>3, OnceNat DEF BillOK, Billed
    <3>2. Billed(r) * Once(r) <= Liability(r)
      BY <3>1, OnceNat, ProductGrows
    <3>3. bill[r] <= Billed(r) * Once(r) /\ Billed(r) * Once(r) \in Nat
      BY <2>1, <2>3, <3>1, ProductNat DEF BillOK
    <3> QED BY <2>1, <3>2, <3>3, LiabilityNat
  <2> QED BY <2>2, <2>3
<1>4. Spec => []BillInv
  BY <1>1, <1>2, IndCorrect, PTL DEF Spec
<1> QED BY <1>3, <1>4, IndCorrect, PTL

-----------------------------------------------------------------------------
(* The money of the buckets.  A step pays one request's buckets what it    *)
(* takes off its open liability and adds to its charges, or admits or      *)
(* refuses one; neither clamp at zero ever bites on a sum that is exact.   *)

At(b) == {r \in Requests : b \in Applies[r]}
Excess == [r \in Requests |-> Larger(0, Charged(r) - Liability(r))]

(* The caps by what was charged above the reserve; a reserve alone stays   *)
(* under its cap, also when a correction after a reset clamps the spend.   *)
Capped ==
    \A b \in Buckets :
        /\ reserved[b] <= Cap[b]
        /\ spent[b] + reserved[b] <= Cap[b] + SumOf(b, Excess)
MoneyInv == ReservedIsOpen /\ SpentIsLedger /\ Capped

LEMMA SumOfCovers ==
    ASSUME NEW b \in Buckets, NEW f \in [Requests -> Nat]
    PROVE  SumOf(b, f) \in Nat /\ \A r \in At(b) : f[r] <= SumOf(b, f)
<1>1. IsFiniteSet(Requests) /\ At(b) \in SUBSET Requests
  BY RequestsAssumption DEF At
<1> QED BY <1>1, SumCovers DEF SumOf, At

LEMMA SumOfChanges ==
    ASSUME NEW b \in Buckets, NEW f \in [Requests -> Nat], NEW g \in [Requests -> Nat],
           NEW r \in Requests, \A q \in Requests \ {r} : g[q] = f[q]
    PROVE  /\ b \in Applies[r] => SumOf(b, g) = SumOf(b, f) + (g[r] - f[r])
           /\ b \notin Applies[r] => SumOf(b, g) = SumOf(b, f)
<1>1. IsFiniteSet(Requests) /\ At(b) \in SUBSET Requests
  BY RequestsAssumption DEF At
<1>2. f \in [Requests -> Int] /\ g \in [Requests -> Int] /\ \A q \in At(b) \ {r} : f[q] = g[q]
  BY <1>1
<1>3. /\ r \in At(b) => SumFunctionOnSet(g, At(b)) = SumFunctionOnSet(f, At(b)) + (g[r] - f[r])
      /\ r \notin At(b) => SumFunctionOnSet(g, At(b)) = SumFunctionOnSet(f, At(b))
  BY <1>1, <1>2, SumChanges
<1> QED BY <1>3 DEF SumOf, At

LEMMA SumOfZero ==
    ASSUME NEW b \in Buckets, NEW f \in [Requests -> Nat], \A r \in Requests : f[r] = 0
    PROVE  SumOf(b, f) = 0
<1>1. At(b) \in SUBSET Requests /\ IsFiniteSet(Requests) /\ f \in [Requests -> Int]
  BY RequestsAssumption DEF At
<1>2. \A r \in At(b) : f[r] = 0
  BY <1>1
<1>3. SumFunctionOnSet(f, At(b)) = 0
  BY <1>1, <1>2, SumZero
<1> QED BY <1>3 DEF SumOf, At

LEMMA SumOfGrows ==
    ASSUME NEW b \in Buckets, NEW f \in [Requests -> Nat], NEW g \in [Requests -> Nat],
           \A r \in Requests : f[r] <= g[r]
    PROVE  SumOf(b, f) <= SumOf(b, g)
<1>1. IsFiniteSet(Requests) /\ At(b) \in SUBSET Requests
  BY RequestsAssumption DEF At
<1>2. f \in [Requests -> Int] /\ g \in [Requests -> Int] /\ \A q \in At(b) : f[q] <= g[q]
  BY <1>1
<1> QED BY <1>1, <1>2, SumGrows DEF SumOf, At

(* The amounts of a request, from its hold and its row.                    *)
LEMMA AmountsAre ==
    ASSUME IInv, NEW r \in Requests
    PROVE  /\ OpenLiability[r] = (IF Open(r) THEN Liability(r) ELSE 0)
           /\ Charges[r] = Charged(r) /\ Charged(r) \in Nat /\ Liability(r) \in Nat
           /\ Excess[r] = Larger(0, Charges[r] - Liability(r))
           /\ OpenLiability[r] \in Nat /\ Charges[r] \in Nat /\ Excess[r] \in Nat
<1>1. row[r].cost \in Nat /\ Liability(r) \in Nat
  BY Types, LiabilityNat DEF IInv, RequestType, Rows
<1>2. Charged(r) \in Nat
  BY <1>1, ChargedIs
<1>3. Larger(0, Charged(r) - Liability(r)) \in Nat
  BY <1>1, <1>2 DEF Larger
<1> QED BY <1>1, <1>2, <1>3 DEF OpenLiability, Charges, Excess

LEMMA AmountsTyped ==
    ASSUME IInv
    PROVE  /\ OpenLiability \in [Requests -> Nat] /\ Charges \in [Requests -> Nat]
           /\ Excess \in [Requests -> Nat]
<1>1. \A r \in Requests : OpenLiability[r] \in Nat /\ Charges[r] \in Nat /\ Excess[r] \in Nat
  BY AmountsAre
<1> QED BY <1>1 DEF OpenLiability, Charges, Excess

LEMMA AmountsNext ==
    ASSUME TypeOK', NEW r \in Requests
    PROVE  /\ OpenLiability'[r] = (IF Open(r)' THEN Liability(r) ELSE 0)
           /\ Charges'[r] = Charged(r)' /\ Excess'[r] = Larger(0, Charges'[r] - Liability(r))
           /\ OpenLiability'[r] \in Nat /\ Charges'[r] \in Nat /\ Excess'[r] \in Nat
           /\ row'[r].by = "own" => Charges'[r] = row'[r].cost
           /\ row'[r].by # "own" /\ hold'[r] = "reconciled" => Charges'[r] = Liability(r)
           /\ row'[r].by # "own" /\ hold'[r] # "reconciled" => Charges'[r] = 0
<1>1. row'[r].cost \in Nat /\ Liability(r) \in Nat /\ Liability(r)' = Liability(r)
  BY LiabilityNat DEF TypeOK, Liability
<1>2. /\ row'[r].by = "own" => Charged(r)' = row'[r].cost
      /\ row'[r].by # "own" /\ hold'[r] = "reconciled" => Charged(r)' = Liability(r)
      /\ row'[r].by # "own" /\ hold'[r] # "reconciled" => Charged(r)' = 0
  BY <1>1 DEF Charged
<1>3. Charged(r)' \in Nat
  BY <1>1, <1>2
<1>4. Charges'[r] = Charged(r)' /\ OpenLiability'[r] = (IF Open(r)' THEN Liability(r) ELSE 0)
  BY <1>1 DEF Charges, OpenLiability
<1>5. Excess'[r] = Larger(0, Charged(r)' - Liability(r))
  BY <1>1 DEF Excess
<1>6. Excess'[r] \in Nat
  BY <1>1, <1>3, <1>5 DEF Larger
<1> QED BY <1>1, <1>2, <1>3, <1>4, <1>5, <1>6

LEMMA AmountsNextTyped ==
    ASSUME TypeOK'
    PROVE  /\ OpenLiability' \in [Requests -> Nat] /\ Charges' \in [Requests -> Nat]
           /\ Excess' \in [Requests -> Nat]
<1>1. ASSUME NEW r \in Requests
      PROVE  OpenLiability'[r] \in Nat /\ Charges'[r] \in Nat /\ Excess'[r] \in Nat
  BY AmountsNext
<1> QED BY <1>1 DEF OpenLiability, Charges, Excess

(* The amounts of a request that keeps its hold and its row.               *)
LEMMA AmountsKept ==
    ASSUME NEW r \in Requests, Keeps(r)
    PROVE  /\ OpenLiability'[r] = OpenLiability[r] /\ Charges'[r] = Charges[r]
           /\ Excess'[r] = Excess[r]
<1>1. Liability(r)' = Liability(r) /\ Open(r)' = Open(r) /\ Charged(r)' = Charged(r)
  BY DEF Keeps, Liability, Open, Charged
<1> QED BY <1>1 DEF OpenLiability, Charges, Excess

OthersKept(r) == \A q \in Requests \ {r} : Keeps(q)

LEMMA OthersAmounts ==
    ASSUME NEW r \in Requests, OthersKept(r)
    PROVE  \A q \in Requests \ {r} :
             /\ OpenLiability'[q] = OpenLiability[q] /\ Charges'[q] = Charges[q]
             /\ Excess'[q] = Excess[q]
BY AmountsKept DEF OthersKept

(* A step that pays the buckets of r the changes of its amounts; what it   *)
(* costs within its reserve never grows.                                   *)
Pays(r) ==
    /\ Pay(r, OpenLiability[r] - OpenLiability'[r], Charges'[r] - Charges[r])
    /\ OpenLiability'[r] <= OpenLiability[r]
    /\ OpenLiability'[r] + Charges'[r] - Excess'[r] <= OpenLiability[r] + Charges[r] - Excess[r]

LEMMA PaysIs ==
    ASSUME IInv, MoneyInv, TypeOK', NEW r \in Requests, OthersKept(r), Pays(r)
    PROVE  MoneyInv'
<1> DEFINE O == OpenLiability[r]
           P == OpenLiability'[r]
           C == Charges[r]
           D == Charges'[r]
<1>0. O \in Nat /\ P \in Nat /\ C \in Nat /\ D \in Nat /\ Excess[r] \in Nat /\ Excess'[r] \in Nat
  BY AmountsAre, AmountsNext
<1>1. ASSUME NEW b \in Buckets
      PROVE  /\ reserved'[b] = SumOf(b, OpenLiability')
             /\ epoch'[b] = 0 => spent'[b] = SumOf(b, Charges')
             /\ reserved'[b] <= Cap[b]
             /\ spent'[b] + reserved'[b] <= Cap[b] + SumOf(b, Excess')
  <2>1. /\ reserved[b] = SumOf(b, OpenLiability)
        /\ epoch[b] = 0 => spent[b] = SumOf(b, Charges)
        /\ reserved[b] <= Cap[b]
        /\ spent[b] + reserved[b] <= Cap[b] + SumOf(b, Excess)
    BY DEF MoneyInv, ReservedIsOpen, SpentIsLedger, Capped
  <2>2. /\ SumOf(b, OpenLiability) \in Nat /\ SumOf(b, Charges) \in Nat
        /\ SumOf(b, Excess) \in Nat
        /\ b \in Applies[r] => O <= SumOf(b, OpenLiability) /\ C <= SumOf(b, Charges)
    BY AmountsTyped, SumOfCovers DEF At
  <2>3. /\ b \in Applies[r] =>
             /\ SumOf(b, OpenLiability') = SumOf(b, OpenLiability) + (P - O)
             /\ SumOf(b, Charges') = SumOf(b, Charges) + (D - C)
             /\ SumOf(b, Excess') = SumOf(b, Excess) + (Excess'[r] - Excess[r])
        /\ b \notin Applies[r] =>
             /\ SumOf(b, OpenLiability') = SumOf(b, OpenLiability)
             /\ SumOf(b, Charges') = SumOf(b, Charges)
             /\ SumOf(b, Excess') = SumOf(b, Excess)
    BY AmountsTyped, AmountsNextTyped, OthersAmounts, SumOfChanges
  <2>4. SumOf(b, Excess') \in Nat
    BY AmountsNextTyped, SumOfCovers
  <2>5. /\ epoch'[b] = epoch[b]
        /\ b \notin Applies[r] => reserved'[b] = reserved[b] /\ spent'[b] = spent[b]
        /\ b \in Applies[r] => /\ reserved'[b] = Larger(0, reserved[b] - (O - P))
                               /\ spent'[b] = Larger(0, spent[b] + (D - C))
    BY DEF Pays, Pay
  <2>6. spent[b] \in Nat /\ reserved[b] \in Nat /\ epoch[b] \in Nat /\ Cap[b] \in Nat
    BY Types, BucketsAssumption DEF IInv, BudgetType
  <2>7. P <= O /\ P + D - Excess'[r] <= O + C - Excess[r]
    BY DEF Pays
  <2>8. CASE b \notin Applies[r]
    BY <2>1, <2>3, <2>5, <2>8
  <2>9. CASE b \in Applies[r]
    <3> HIDE DEF O, P, C, D
    <3> DEFINE e == Excess[r]
               f == Excess'[r]
               so == SumOf(b, OpenLiability)
               sc == SumOf(b, Charges)
               se == SumOf(b, Excess)
    <3>1. e \in Nat /\ f \in Nat /\ so \in Nat /\ sc \in Nat /\ se \in Nat
      BY <1>0, <2>2
    <3>2. SumOf(b, Excess') = se + (f - e) /\ P + D - f <= O + C - e
      BY <2>3, <2>7, <2>9
    <3>3. /\ reserved[b] = so /\ O <= so /\ C <= sc
          /\ epoch[b] = 0 => spent[b] = sc
          /\ spent[b] + reserved[b] <= Cap[b] + se
      BY <2>1, <2>2, <2>9
    <3> HIDE DEF e, f, so, sc, se
    <3>4. reserved'[b] = reserved[b] - (O - P)
      BY <1>0, <2>5, <2>6, <2>9, <3>1, <3>3 DEF Larger
    <3>5. epoch[b] = 0 => spent'[b] = spent[b] + (D - C)
      BY <1>0, <2>5, <2>6, <2>9, <3>1, <3>3 DEF Larger
    <3>6. reserved'[b] <= reserved[b] /\ reserved'[b] \in Int
      BY <1>0, <2>6, <2>7, <3>4
    <3>7. spent'[b] + reserved'[b] <= Cap[b] + SumOf(b, Excess')
      <4>1. CASE spent'[b] = spent[b] + (D - C)
        BY <1>0, <2>6, <3>1, <3>2, <3>3, <3>4, <4>1
      <4>2. CASE spent'[b] = 0
        BY <2>1, <2>4, <2>6, <3>6, <4>2
      <4> QED BY <2>5, <2>9, <4>1, <4>2 DEF Larger
    <3>8. reserved'[b] = SumOf(b, OpenLiability')
      BY <2>1, <2>2, <2>3, <2>9, <3>4, <1>0
    <3>9. epoch'[b] = 0 => spent'[b] = SumOf(b, Charges')
      BY <2>1, <2>2, <2>3, <2>5, <2>9, <3>5, <1>0
    <3>10. reserved'[b] <= Cap[b]
      BY <2>1, <2>6, <3>6
    <3> QED BY <3>7, <3>8, <3>9, <3>10
  <2> QED BY <2>8, <2>9
<1> QED BY <1>1 DEF MoneyInv, ReservedIsOpen, SpentIsLedger, Capped

(* A step that resets the due buckets of r, and admits it or not: what it  *)
(* admits fits, and a bucket that is reset is no longer in its first month.*)
Resets(r) ==
    /\ ResetDue(r) /\ Charges'[r] = Charges[r] /\ Excess'[r] = Excess[r]
    /\ \/ /\ Fits(r) /\ OpenLiability[r] = 0 /\ OpenLiability'[r] = Liability(r)
          /\ reserved' = [b \in Buckets |->
                            IF b \in Applies[r] THEN reserved[b] + Liability(r) ELSE reserved[b]]
       \/ OpenLiability'[r] = OpenLiability[r] /\ reserved' = reserved

LEMMA ResetsIs ==
    ASSUME IInv, MoneyInv, TypeOK', NEW r \in Requests, OthersKept(r), Resets(r)
    PROVE  MoneyInv'
<1>0. /\ OpenLiability[r] \in Nat /\ OpenLiability'[r] \in Nat /\ Liability(r) \in Nat
      /\ Charges[r] \in Nat /\ Excess[r] \in Nat
  BY AmountsAre, AmountsNext
<1>1. ASSUME NEW b \in Buckets
      PROVE  /\ reserved'[b] = SumOf(b, OpenLiability')
             /\ epoch'[b] = 0 => spent'[b] = SumOf(b, Charges')
             /\ reserved'[b] <= Cap[b]
             /\ spent'[b] + reserved'[b] <= Cap[b] + SumOf(b, Excess')
  <2>1. /\ reserved[b] = SumOf(b, OpenLiability)
        /\ epoch[b] = 0 => spent[b] = SumOf(b, Charges)
        /\ reserved[b] <= Cap[b]
        /\ spent[b] + reserved[b] <= Cap[b] + SumOf(b, Excess)
    BY DEF MoneyInv, ReservedIsOpen, SpentIsLedger, Capped
  <2>2. SumOf(b, OpenLiability) \in Nat /\ SumOf(b, Charges) \in Nat /\ SumOf(b, Excess) \in Nat
    BY AmountsTyped, SumOfCovers
  <2>3. /\ b \in Applies[r] =>
             SumOf(b, OpenLiability') = SumOf(b, OpenLiability)
                                          + (OpenLiability'[r] - OpenLiability[r])
        /\ b \notin Applies[r] => SumOf(b, OpenLiability') = SumOf(b, OpenLiability)
    BY AmountsTyped, AmountsNextTyped, OthersAmounts, SumOfChanges
  <2>4. SumOf(b, Charges') = SumOf(b, Charges) /\ SumOf(b, Excess') = SumOf(b, Excess)
    <3>1. /\ b \in Applies[r] =>
               /\ SumOf(b, Charges') = SumOf(b, Charges) + (Charges'[r] - Charges[r])
               /\ SumOf(b, Excess') = SumOf(b, Excess) + (Excess'[r] - Excess[r])
          /\ b \notin Applies[r] =>
               SumOf(b, Charges') = SumOf(b, Charges) /\ SumOf(b, Excess') = SumOf(b, Excess)
      BY AmountsTyped, AmountsNextTyped, OthersAmounts, SumOfChanges
    <3>2. Charges'[r] - Charges[r] = 0 /\ Excess'[r] - Excess[r] = 0
      BY <1>0 DEF Resets
    <3> QED BY <2>2, <3>1, <3>2
  <2>5. spent[b] \in Nat /\ reserved[b] \in Nat /\ epoch[b] \in Nat /\ Cap[b] \in Nat
    BY Types, BucketsAssumption DEF IInv, BudgetType
  <2>6. /\ spent'[b] = SpentNow(r)[b]
        /\ SpentNow(r)[b] = 0 \/ SpentNow(r)[b] = spent[b]
        /\ epoch'[b] = 0 => SpentNow(r)[b] = spent[b] /\ epoch[b] = 0
    <3>1. SpentNow(r)[b] = IF b \in Due(r) THEN 0 ELSE spent[b]
      BY DEF SpentNow
    <3>2. epoch'[b] = IF b \in Due(r) THEN epoch[b] + 1 ELSE epoch[b]
      BY DEF Resets, ResetDue
    <3>3. spent' = SpentNow(r)
      BY DEF Resets, ResetDue
    <3> QED BY <2>5, <3>1, <3>2, <3>3
  <2>7. CASE \/ b \notin Applies[r] /\ reserved'[b] = reserved[b]
             \/ reserved' = reserved /\ OpenLiability'[r] = OpenLiability[r]
    <3>1. SumOf(b, OpenLiability') = SumOf(b, OpenLiability) /\ reserved'[b] = reserved[b]
      BY <1>0, <2>2, <2>3, <2>7
    <3> QED BY <2>1, <2>2, <2>4, <2>5, <2>6, <3>1
  <2>8. CASE /\ b \in Applies[r] /\ Fits(r)
             /\ OpenLiability[r] = 0 /\ OpenLiability'[r] = Liability(r)
             /\ reserved'[b] = reserved[b] + Liability(r)
    <3>1. SpentNow(r)[b] + reserved[b] + Liability(r) <= Cap[b]
      BY <2>8 DEF Fits
    <3>2. reserved'[b] = SumOf(b, OpenLiability')
      BY <1>0, <2>1, <2>2, <2>3, <2>8
    <3>3. SpentNow(r)[b] \in Nat
      BY <2>5, <2>6
    <3>4. spent'[b] + reserved'[b] <= Cap[b] /\ reserved'[b] <= Cap[b]
      BY <1>0, <2>5, <2>6, <2>8, <3>1, <3>3
    <3>5. epoch'[b] = 0 => spent'[b] = SumOf(b, Charges')
      BY <2>1, <2>4, <2>6
    <3>6. spent'[b] + reserved'[b] <= Cap[b] + SumOf(b, Excess')
      BY <1>0, <2>2, <2>4, <2>5, <2>6, <2>8, <3>3, <3>4
    <3> QED BY <3>2, <3>4, <3>5, <3>6
  <2> QED BY <2>7, <2>8 DEF Resets
<1> QED BY <1>1 DEF MoneyInv, ReservedIsOpen, SpentIsLedger, Capped

LEMMA StillIs ==
    ASSUME MoneyInv, UNCHANGED <<spent, reserved, epoch>>, NEW r \in Requests, OthersKept(r),
           OpenLiability'[r] = OpenLiability[r], Charges'[r] = Charges[r]
    PROVE  MoneyInv'
<1>1. Excess'[r] = Excess[r]
  <2>1. Charged(r)' = Charged(r) /\ Liability(r)' = Liability(r)
    BY DEF Charges, Liability
  <2> QED BY <2>1 DEF Excess
<1>2. OpenLiability' = OpenLiability /\ Charges' = Charges /\ Excess' = Excess
  <2>1. \A q \in Requests : /\ OpenLiability'[q] = OpenLiability[q] /\ Charges'[q] = Charges[q]
                            /\ Excess'[q] = Excess[q]
    BY <1>1, OthersAmounts
  <2> QED BY <2>1 DEF OpenLiability, Charges, Excess
<1> QED BY <1>2 DEF MoneyInv, ReservedIsOpen, SpentIsLedger, Capped

(* An open hold is closed: its reserve goes back, and at most its cost is  *)
(* charged.                                                                *)
LEMMA ClosePays ==
    ASSUME IInv, TypeOK', NEW r \in Requests, Open(r), ~Open(r)', NEW cost \in Nat,
           Pay(r, Liability(r), cost), Charges'[r] = cost
    PROVE  Pays(r)
<1>1. RequestOK(r)
  BY DEF IInv
<1>2. Charges[r] = 0
  BY <1>1, AmountsAre, ChargedIs DEF RequestOK, Open, NoRow, ObserverRow
<1>3. /\ OpenLiability[r] = Liability(r) /\ OpenLiability'[r] = 0 /\ Liability(r) \in Nat
  BY AmountsAre, AmountsNext
<1>4. Excess[r] = Larger(0, 0 - Liability(r)) /\ Excess'[r] = Larger(0, cost - Liability(r))
  BY <1>2, AmountsAre, AmountsNext
<1>5. OpenLiability[r] - OpenLiability'[r] = Liability(r) /\ Charges'[r] - Charges[r] = cost
  BY <1>2, <1>3
<1>6. Excess[r] = 0 /\ Excess'[r] >= cost - Liability(r)
  BY <1>3, <1>4 DEF Larger
<1>7. Excess'[r] \in Nat
  BY AmountsNext
<1>8. OpenLiability'[r] + Charges'[r] - Excess'[r] <= OpenLiability[r] + Charges[r] - Excess[r]
  BY <1>2, <1>3, <1>6, <1>7
<1> QED BY <1>3, <1>5, <1>8 DEF Pays

(* A correction replaces the reserve that was charged by the bill.         *)
LEMMA CorrectPays ==
    ASSUME IInv, TypeOK', NEW r \in Requests, AwaitsCorrection(r), CorrectRow(r, bill[r])
    PROVE  Pays(r)
<1>1. row[r] = OwnRow(Liability(r), "pending") /\ hold[r] = "reconciled"
  <2>1. /\ RequestOK(r) /\ hold[r] = "reconciled" /\ row[r].by = "own"
        /\ row[r].state = "pending"
    BY DEF IInv, AwaitsCorrection
  <2>2. row[r] # ObserverRow /\ row[r] # OwnRow(bill[r], "reconciled")
    BY <2>1 DEF OwnRow, ObserverRow
  <2> QED BY <2>1, <2>2 DEF RequestOK
<1>2. row'[r] = OwnRow(bill[r], "reconciled") /\ hold' = hold /\ bill[r] \in Nat
  BY CorrectRowIs, Types DEF IInv, RequestType
<1>3. /\ OpenLiability[r] = 0 /\ Liability(r) \in Nat
      /\ Charges[r] = Liability(r) /\ Excess[r] = Larger(0, Charges[r] - Liability(r))
  BY <1>1, AmountsAre, ChargedIs DEF OwnRow, Open
<1>4. /\ OpenLiability'[r] = 0 /\ Charges'[r] = bill[r]
      /\ Excess'[r] = Larger(0, Charges'[r] - Liability(r)) /\ Excess'[r] \in Nat
  BY <1>1, <1>2, AmountsNext DEF OwnRow, Open
<1>5. Pay(r, 0, bill[r] - Liability(r))
  BY <1>1 DEF CorrectRow, Correct, OwnRow
<1>6. Excess[r] = 0 /\ Excess'[r] >= bill[r] - Liability(r)
  BY <1>2, <1>3, <1>4 DEF Larger
<1>7. OpenLiability'[r] + Charges'[r] - Excess'[r] <= OpenLiability[r] + Charges[r] - Excess[r]
  BY <1>2, <1>3, <1>4, <1>6
<1>8. OpenLiability[r] - OpenLiability'[r] = 0
  BY <1>3, <1>4
<1> QED BY <1>3, <1>4, <1>5, <1>7, <1>8 DEF Pays

LEMMA StepMoney ==
    ASSUME IInv, MoneyInv, NEW r \in Requests, Step(r)
    PROVE  MoneyInv'
<1>0. TypeOK' /\ RequestType /\ RequestOK(r) /\ OthersKept(r) /\ Moves(r)
  BY StepKeeps, StepMoves, Types DEF IInv, Others, Same, OthersKept, Keeps
<1>a. ASSUME UNCHANGED budget, Keeps(r) PROVE MoneyInv'
  BY <1>0, <1>a, AmountsKept, StillIs DEF budget
<1>b. ASSUME Open(r), FreeHold(r), row' = row PROVE MoneyInv'
  <2>1. hold'[r] = "released" /\ Pay(r, Liability(r), 0)
    BY <1>0, <1>b DEF FreeHold, SetHold, RequestType
  <2>2. row'[r].by # "own"
    BY <1>0, <1>b DEF RequestOK, Open, NoRow, ObserverRow
  <2>3. ~Open(r)' /\ Charges'[r] = 0
    BY <1>0, <2>1, <2>2, AmountsNext DEF Open
  <2>4. Pays(r)
    BY <1>0, <1>b, <2>1, <2>3, ClosePays
  <2> QED BY <1>0, <2>4, PaysIs
<1>1. CASE \/ RefuseDisabled(r) \/ GiveUp(r) \/ SkipAttempt(r) \/ MarkRefused(r)
           \/ Answer(r) \/ SettleFails(r) \/ DecisionMarkRefused(r) \/ DecisionInterrupted(r)
           \/ DecisionAnswer(r) \/ Expire(r)
  <2>1. Keeps(r)
    BY <1>1, QuietSteps DEF Calls
  <2>2. UNCHANGED budget
    BY <1>1 DEF RefuseDisabled, GiveUp, SkipAttempt, MarkRefused, Answer, SettleFails,
       DecisionMarkRefused, DecisionInterrupted, DecisionAnswer, Expire
  <2> QED BY <1>a, <2>1, <2>2
<1>2. CASE Mark(r) \/ DecisionMark(r)
  <2>1. /\ UNCHANGED budget /\ hold'[r] = "dispatched" /\ row'[r] = row[r] /\ Open(r)
    BY <1>0, <1>2 DEF Mark, DecisionMark, MayMark, WriteMark, SetHold, Open, RequestType
  <2>2. row[r].by # "own"
    BY <1>0, <2>1 DEF RequestOK, Open, NoRow, ObserverRow
  <2>3. OpenLiability'[r] = OpenLiability[r]
    BY <1>0, <2>1, AmountsAre, AmountsNext DEF Open
  <2>4. Charges'[r] = Charges[r]
    BY <1>0, <2>1, <2>2, AmountsAre, AmountsNext, ChargedIs DEF Open
  <2> QED BY <1>0, <2>1, <2>3, <2>4, StillIs DEF budget
<1>3. CASE DecisionDispatch(r)
  BY <1>3, <1>a DEF DecisionDispatch, Keeps, holds
<1>4. CASE Observe(r)
  <2>1. UNCHANGED budget /\ hold' = hold /\ row[r] = NoRow /\ row'[r] = ObserverRow
    BY <1>0, <1>4 DEF Observe, SetRow, RequestType, holds
  <2>2. hold[r] # "reconciled"
    BY <1>0, <2>1 DEF RequestOK, NoRow, OwnRow, ObserverRow
  <2>3. OpenLiability'[r] = OpenLiability[r]
    BY <1>0, <2>1, AmountsAre, AmountsNext DEF Open
  <2>4. Charges'[r] = Charges[r]
    BY <1>0, <2>1, <2>2, AmountsAre, AmountsNext, ChargedIs DEF NoRow, ObserverRow
  <2> QED BY <1>0, <2>1, <2>3, <2>4, StillIs DEF budget
<1>5. CASE Admit(r)
  <2>1. /\ hold[r] = "none" /\ hold'[r] = "held" /\ row' = row
        /\ ResetDue(r) /\ Fits(r)
        /\ reserved' = [b \in Buckets |->
                          IF b \in Applies[r] THEN reserved[b] + Liability(r) ELSE reserved[b]]
    BY <1>0, <1>5 DEF Admit, Idle, SetHold, RequestType, RequestOK
  <2>2. row[r].by # "own"
    BY <1>0, <2>1 DEF RequestOK, NoRow, ObserverRow
  <2>3. OpenLiability[r] = 0 /\ OpenLiability'[r] = Liability(r)
    BY <1>0, <2>1, AmountsAre, AmountsNext DEF Open
  <2>4. Charges'[r] = Charges[r]
    BY <1>0, <2>1, <2>2, AmountsAre, AmountsNext, ChargedIs
  <2>5. Excess'[r] = Excess[r]
    BY <1>0, <2>4, AmountsAre, AmountsNext
  <2> QED BY <1>0, <2>1, <2>3, <2>4, <2>5, ResetsIs DEF Resets
<1>6. CASE Refuse(r)
  <2>1. Keeps(r) /\ ResetDue(r) /\ reserved' = reserved
    BY <1>6, QuietSteps DEF Calls, Refuse
  <2> QED BY <1>0, <2>1, AmountsKept, ResetsIs DEF Resets
<1>7. CASE Release(r) \/ DecisionRelease(r)
  <2>1. CASE Open(r) /\ FreeHold(r)
    BY <1>b, <2>1 DEF FreeHold
  <2>2. CASE UNCHANGED <<hold, row, budget, booked>>
    BY <1>a, <2>2 DEF Keeps
  <2> QED BY <1>7, <2>1, <2>2 DEF Release, DecisionRelease, Freeable, Open
<1>8. CASE ReapRelease(r)
  BY <1>8, <1>b DEF ReapRelease, Reapable, FreeHold
<1>9. CASE ReapCharge(r)
  <2>1. Open(r) /\ row[r] \in {NoRow, ObserverRow} /\ Liability(r) \in Nat
    BY <1>0, <1>9, LiabilityNat DEF ReapCharge, Reapable, Open, RequestOK
  <2>a. Charge(r, Liability(r), Liability(r))
    BY <1>9, <2>1, ReapPays, Types DEF IInv, Conservative, NoRow, ObserverRow
  <2>2. Pay(r, Liability(r), Liability(r)) /\ hold'[r] = "reconciled"
    BY <1>0, <1>9, <2>a DEF ReapCharge, Charge, SetHold, RequestType
  <2>3. row'[r] = OwnRow(Liability(r), "pending") \/ row'[r] = ObserverRow
    BY <1>0, <1>9, <2>1 DEF ReapCharge, Conservative, SetRow, RequestType, NoRow, ObserverRow
  <2>4. ~Open(r)' /\ Charges'[r] = Liability(r)
    BY <1>0, <2>2, <2>3, AmountsNext DEF Open, OwnRow, ObserverRow
  <2>5. Pays(r)
    BY <1>0, <2>1, <2>2, <2>4, ClosePays
  <2> QED BY <1>0, <2>5, PaysIs
<1>10. CASE SettleRoute(r) \/ SettleDecision(r)
  <2>1. ASSUME NEW state \in {"none", "pending", "reconciled"},
               NEW status \in {"settled", "reconciled"}, Open(r),
               SetRow(r, OwnRow(bill[r], state)), Charge(r, Liability(r), bill[r]),
               SetHold(r, status)
        PROVE  MoneyInv'
    <3>1. status \in Holds
      BY DEF Holds
    <3>2. hold'[r] = status /\ row'[r] = OwnRow(bill[r], state)
      BY <2>1, <3>1, ChargeIs
    <3>3. ~Open(r)' /\ Charges'[r] = bill[r] /\ bill[r] \in Nat
      BY <1>0, <3>2, AmountsNext DEF Open, OwnRow, RequestType
    <3>4. Pays(r)
      BY <1>0, <2>1, <3>3, ClosePays DEF Charge
    <3> QED BY <1>0, <3>4, PaysIs
  <2>2. CASE /\ Open(r) /\ SetRow(r, OwnRow(bill[r], "none"))
             /\ Charge(r, Liability(r), bill[r]) /\ SetHold(r, "settled")
    BY <2>1, <2>2
  <2>3. CASE /\ Open(r)
             /\ SetRow(r, OwnRow(bill[r], IF unsure[r] THEN "pending" ELSE "none"))
             /\ Charge(r, Liability(r), bill[r])
             /\ SetHold(r, IF unsure[r] THEN "reconciled" ELSE "settled")
    BY <2>1, <2>3
  <2>4. CASE AwaitsCorrection(r) /\ CorrectRow(r, bill[r])
    BY <1>0, <2>4, CorrectPays, PaysIs
  <2>5. CASE UNCHANGED <<row, budget, hold, booked>>
    BY <1>a, <2>5 DEF Keeps
  <2> QED BY <1>10, <2>2, <2>3, <2>4, <2>5 DEF SettleRoute, SettleDecision
<1> QED
  BY <1>1, <1>2, <1>3, <1>4, <1>5, <1>6, <1>7, <1>8, <1>9, <1>10 DEF Step

(* The amounts follow the holds and the rows.                              *)
LEMMA OtherStepsMoney ==
    ASSUME MoneyInv, MonthEnds \/ (\E S \in SUBSET Requests : Crash(S)) \/ UNCHANGED vars
    PROVE  MoneyInv'
<1>1. UNCHANGED <<spent, reserved, epoch>> /\ UNCHANGED <<hold, row>>
  BY OtherStepsKeep DEF MonthEnds, Crash, vars, budget
<1>2. OpenLiability' = OpenLiability /\ Charges' = Charges /\ Excess' = Excess
  <2>1. \A q \in Requests : /\ OpenLiability'[q] = OpenLiability[q] /\ Charges'[q] = Charges[q]
                            /\ Excess'[q] = Excess[q]
    BY <1>1, AmountsKept DEF Keeps
  <2> QED BY <2>1 DEF OpenLiability, Charges, Excess
<1> QED BY <1>1, <1>2 DEF MoneyInv, ReservedIsOpen, SpentIsLedger, Capped

LEMMA MoneyInit ==
    ASSUME Init
    PROVE  MoneyInv
<1>1. IInv
  BY InitHolds
<1>2. \A r \in Requests : OpenLiability[r] = 0 /\ Charges[r] = 0 /\ Excess[r] = 0
  <2>1. ASSUME NEW r \in Requests PROVE OpenLiability[r] = 0 /\ Charges[r] = 0 /\ Excess[r] = 0
    <3>1. hold[r] = "none" /\ row[r].by # "own"
      BY DEF Init, NoRow
    <3>2. OpenLiability[r] = 0 /\ Charges[r] = 0
      BY <1>1, <3>1, AmountsAre, ChargedIs DEF Open
    <3>3. Excess[r] = Larger(0, 0 - Liability(r)) /\ Liability(r) \in Nat
      BY <1>1, <3>2, AmountsAre
    <3> QED BY <3>2, <3>3 DEF Larger
  <2> QED BY <2>1
<1>3. ASSUME NEW b \in Buckets
      PROVE  SumOf(b, OpenLiability) = 0 /\ SumOf(b, Charges) = 0 /\ SumOf(b, Excess) \in Nat
  <2> DEFINE zero == [r \in Requests |-> 0]
  <2>1. OpenLiability = zero /\ Charges = zero
    BY <1>2 DEF OpenLiability, Charges
  <2>2. SumOf(b, zero) = 0
    <3>1. zero \in [Requests -> Nat] /\ \A r \in Requests : zero[r] = 0
      OBVIOUS
    <3> HIDE DEF zero
    <3> QED BY <3>1, SumOfZero
  <2>3. SumOf(b, Excess) \in Nat
    BY <1>1, AmountsTyped, SumOfCovers
  <2> QED BY <2>1, <2>2, <2>3
<1>4. ASSUME NEW b \in Buckets
      PROVE  spent[b] = 0 /\ reserved[b] = 0 /\ Cap[b] \in Nat
  BY BucketsAssumption DEF Init
<1> QED BY <1>3, <1>4 DEF MoneyInv, ReservedIsOpen, SpentIsLedger, Capped

(* The buckets agree with the holds and with the ledger, and their caps    *)
(* are kept up to what was charged above a reserve.                        *)
THEOREM MoneyCorrect == Spec => []MoneyInv
<1>1. Init => MoneyInv
  BY MoneyInit
<1>2. IInv /\ MoneyInv /\ [Next]_vars => MoneyInv'
  BY StepMoney, OtherStepsMoney, NextIs
<1> QED BY <1>1, <1>2, IndCorrect, PTL DEF Spec

(* The reserve of a bucket is the liability of its open holds, through     *)
(* every race of a settlement, a release and the reaper on one hold.       *)
THEOREM ReservedIsOpenCorrect == Spec => []ReservedIsOpen
<1>1. MoneyInv => ReservedIsOpen
  BY DEF MoneyInv
<1> QED BY <1>1, MoneyCorrect, PTL

(* Until its first reset, the spend of a bucket is the sum of the charges. *)
THEOREM SpentIsLedgerCorrect == Spec => []SpentIsLedger
<1>1. MoneyInv => SpentIsLedger
  BY DEF MoneyInv
<1> QED BY <1>1, MoneyCorrect, PTL

(* A bucket is over its cap by no more than what requests whose provider   *)
(* reported more than its allowance cost above their reserve.              *)
THEOREM CapKeptCorrect == Spec => []CapKept
<1>1. IInv /\ MoneyInv /\ WithinReserve => CapKept
  <2> SUFFICES ASSUME IInv, MoneyInv, WithinReserve, NEW b \in Buckets
               PROVE  spent[b] + reserved[b] <= Cap[b] + SumOf(b, Overrun)
    BY DEF CapKept
  <2>1. ASSUME NEW r \in Requests PROVE Overrun[r] \in Nat /\ Excess[r] <= Overrun[r]
    <3>1. bill[r] \in Nat /\ Liability(r) \in Nat /\ RequestOK(r) /\ Charges[r] \in Nat
      BY AmountsAre, Types DEF IInv, RequestType
    <3>2. Overrun[r] = IF exceeded[r] THEN Larger(0, bill[r] - Liability(r)) ELSE 0
      BY DEF Overrun
    <3>3. Charges[r] <= Liability(r) \/ Charges[r] = bill[r]
      <4>1. CASE row[r].by # "own"
        BY <3>1, <4>1, AmountsAre, ChargedIs
      <4>2. CASE row[r].by = "own"
        <5>1. row[r].cost = bill[r] \/ row[r].cost = Liability(r)
          BY <3>1, <4>2 DEF RequestOK, OwnRow, NoRow, ObserverRow
        <5> QED BY <3>1, <4>2, <5>1, AmountsAre, ChargedIs
      <4> QED BY <4>1, <4>2
    <3>4. Excess[r] = Larger(0, Charges[r] - Liability(r))
      BY AmountsAre
    <3>5. ~exceeded[r] => bill[r] <= Liability(r)
      BY DEF WithinReserve
    <3> QED BY <3>1, <3>2, <3>3, <3>4, <3>5 DEF Larger
  <2>2. Overrun \in [Requests -> Nat] /\ Excess \in [Requests -> Nat]
    BY <2>1, AmountsTyped DEF Overrun
  <2>3. SumOf(b, Excess) <= SumOf(b, Overrun)
    BY <2>1, <2>2, SumOfGrows
  <2>4. SumOf(b, Excess) \in Nat /\ SumOf(b, Overrun) \in Nat
    BY <2>2, SumOfCovers
  <2>5. spent[b] \in Nat /\ reserved[b] \in Nat /\ Cap[b] \in Nat
    BY Types, BucketsAssumption DEF IInv, BudgetType
  <2>6. spent[b] + reserved[b] <= Cap[b] + SumOf(b, Excess)
    BY DEF MoneyInv, Capped
  <2> QED BY <2>3, <2>4, <2>5, <2>6
<1> QED BY <1>1, MoneyCorrect, IndCorrect, WithinReserveCorrect, PTL

-----------------------------------------------------------------------------
(* The month as the ledger tells it.  What was charged in the month of a   *)
(* bucket is in its spend, up to what the corrections of charges of earlier*)
(* months took off it.                                                     *)

Booked ==
    \A b \in Buckets :
        /\ \A r \in Requests : chargedIn[r][b] <= epoch[b]
        /\ SumOf(b, ChargedThisMonth(b)) <= spent[b] + SumOf(b, RefundedThisMonth(b))

(* The same amounts of one request in one bucket.                          *)
Month(r, b) == IF chargedIn[r][b] = epoch[b] THEN Charges[r] ELSE 0
Refund(r, b) ==
    IF /\ row[r].state = "reconciled"
       /\ chargedIn[r][b] # epoch[b] /\ correctedIn[r][b] = epoch[b]
    THEN Larger(0, Liability(r) - Charges[r]) ELSE 0

LEMMA MonthIs ==
    ASSUME IInv, NEW b \in Buckets
    PROVE  /\ ChargedThisMonth(b) \in [Requests -> Nat]
           /\ RefundedThisMonth(b) \in [Requests -> Nat]
           /\ \A r \in Requests : /\ ChargedThisMonth(b)[r] = Month(r, b)
                                  /\ RefundedThisMonth(b)[r] = Refund(r, b)
<1>1. ASSUME NEW r \in Requests
      PROVE  /\ ChargedThisMonth(b)[r] = Month(r, b) /\ Month(r, b) \in Nat
             /\ RefundedThisMonth(b)[r] = Refund(r, b) /\ Refund(r, b) \in Nat
  <2>1. Charges[r] = Charged(r) /\ Charges[r] \in Nat /\ Liability(r) \in Nat
    BY AmountsAre
  <2>2. Larger(0, Liability(r) - Charges[r]) \in Nat
    BY <2>1 DEF Larger
  <2> QED BY <2>1, <2>2 DEF Month, Refund, ChargedThisMonth, RefundedThisMonth
<1> QED BY <1>1 DEF ChargedThisMonth, RefundedThisMonth

LEMMA MonthNext ==
    ASSUME TypeOK', NEW b \in Buckets
    PROVE  /\ ChargedThisMonth(b)' \in [Requests -> Nat]
           /\ RefundedThisMonth(b)' \in [Requests -> Nat]
           /\ \A r \in Requests : /\ ChargedThisMonth(b)'[r] = Month(r, b)'
                                  /\ RefundedThisMonth(b)'[r] = Refund(r, b)'
<1>1. ASSUME NEW r \in Requests
      PROVE  /\ ChargedThisMonth(b)'[r] = Month(r, b)' /\ Month(r, b)' \in Nat
             /\ RefundedThisMonth(b)'[r] = Refund(r, b)' /\ Refund(r, b)' \in Nat
  <2>1. /\ Charges'[r] = Charged(r)' /\ Charges'[r] \in Nat
        /\ Liability(r)' = Liability(r) /\ Liability(r) \in Nat
    BY AmountsNext, LiabilityNat DEF Liability
  <2>2. Larger(0, Liability(r) - Charges'[r]) \in Nat
    BY <2>1 DEF Larger
  <2> QED BY <2>1, <2>2 DEF Month, Refund, ChargedThisMonth, RefundedThisMonth
<1> QED BY <1>1 DEF ChargedThisMonth, RefundedThisMonth

(* The other requests keep their charges and when they were charged.       *)
OthersBooked(r) ==
    \A q \in Requests \ {r} :
        chargedIn'[q] = chargedIn[q] /\ correctedIn'[q] = correctedIn[q]

(* A step of r within a month: what it adds to the month's charges is on   *)
(* the spend or is a refund less.                                          *)
Books(r) ==
    /\ epoch' = epoch
    /\ \A b \in Buckets : chargedIn'[r][b] <= epoch[b]
    /\ \A b \in Buckets \ Applies[r] : spent'[b] = spent[b]
    /\ \A b \in Applies[r] :
          Month(r, b)' - Month(r, b) <= (spent'[b] - spent[b]) + (Refund(r, b)' - Refund(r, b))

LEMMA BooksIs ==
    ASSUME IInv, Booked, TypeOK', NEW r \in Requests, OthersKept(r), OthersBooked(r), Books(r)
    PROVE  Booked'
<1>1. ASSUME NEW b \in Buckets, NEW q \in Requests PROVE chargedIn'[q][b] <= epoch'[b]
  <2>1. chargedIn[q][b] <= epoch[b] /\ epoch'[b] = epoch[b]
    BY DEF Booked, Books
  <2>2. chargedIn'[q] = chargedIn[q] \/ q = r
    BY DEF OthersBooked
  <2> QED BY <2>1, <2>2 DEF Books
<1>2. ASSUME NEW b \in Buckets
      PROVE  SumOf(b, ChargedThisMonth(b)') <= spent'[b] + SumOf(b, RefundedThisMonth(b)')
  <2> DEFINE f == ChargedThisMonth(b)
             g == RefundedThisMonth(b)
             u == ChargedThisMonth(b)'
             v == RefundedThisMonth(b)'
  <2>1. f \in [Requests -> Nat] /\ g \in [Requests -> Nat]
    BY MonthIs
  <2>2. u \in [Requests -> Nat] /\ v \in [Requests -> Nat]
    BY MonthNext
  <2>3. ASSUME NEW q \in Requests \ {r} PROVE u[q] = f[q] /\ v[q] = g[q]
    <3>1. /\ Charges'[q] = Charges[q] /\ row'[q] = row[q] /\ epoch' = epoch
          /\ chargedIn'[q] = chargedIn[q] /\ correctedIn'[q] = correctedIn[q]
          /\ Liability(q)' = Liability(q)
      BY OthersAmounts DEF OthersKept, Keeps, OthersBooked, Books, Liability
    <3>2. Month(q, b)' = Month(q, b) /\ Refund(q, b)' = Refund(q, b)
      BY <3>1 DEF Month, Refund
    <3> QED BY <3>2, MonthIs, MonthNext
  <2>4. /\ f[r] = Month(r, b) /\ g[r] = Refund(r, b)
        /\ u[r] = Month(r, b)' /\ v[r] = Refund(r, b)'
    BY MonthIs, MonthNext
  <2>5. /\ f[r] \in Nat /\ g[r] \in Nat /\ u[r] \in Nat /\ v[r] \in Nat
        /\ SumOf(b, f) \in Nat /\ SumOf(b, g) \in Nat
    BY <2>1, <2>2, SumOfCovers
  <2>6. /\ b \in Applies[r] => /\ SumOf(b, u) = SumOf(b, f) + (u[r] - f[r])
                               /\ SumOf(b, v) = SumOf(b, g) + (v[r] - g[r])
        /\ b \notin Applies[r] => SumOf(b, u) = SumOf(b, f) /\ SumOf(b, v) = SumOf(b, g)
    BY <2>1, <2>2, <2>3, SumOfChanges
  <2>7. SumOf(b, f) <= spent[b] + SumOf(b, g) /\ spent[b] \in Nat
    BY Types DEF Booked, IInv, BudgetType
  <2>8. spent'[b] \in Nat
    BY DEF TypeOK
  <2> HIDE DEF f, g, u, v
  <2>9. ASSUME b \notin Applies[r] PROVE SumOf(b, u) <= spent'[b] + SumOf(b, v)
    BY <2>6, <2>7, <2>9 DEF Books
  <2>10. ASSUME b \in Applies[r] PROVE SumOf(b, u) <= spent'[b] + SumOf(b, v)
    <3>1. u[r] - f[r] <= (spent'[b] - spent[b]) + (v[r] - g[r])
      BY <2>4, <2>10 DEF Books
    <3>2. SumOf(b, u) = SumOf(b, f) + (u[r] - f[r]) /\ SumOf(b, v) = SumOf(b, g) + (v[r] - g[r])
      BY <2>6, <2>10
    <3> QED BY <2>5, <2>7, <2>8, <3>1, <3>2
  <2>11. SumOf(b, u) <= spent'[b] + SumOf(b, v)
    BY <2>9, <2>10
  <2> QED BY <2>11 DEF u, v
<1> QED BY <1>1, <1>2 DEF Booked

(* Nothing is charged, nothing is reset.                                   *)
LEMMA StillBooked ==
    ASSUME Booked, UNCHANGED <<spent, epoch, booked>>,
           \A q \in Requests : Charges'[q] = Charges[q] /\ row'[q].state = row[q].state
    PROVE  Booked'
<1>1. ASSUME NEW b \in Buckets
      PROVE  /\ ChargedThisMonth(b)' = ChargedThisMonth(b)
             /\ RefundedThisMonth(b)' = RefundedThisMonth(b)
  <2>1. ASSUME NEW q \in Requests
        PROVE  /\ Charged(q)' = Charged(q) /\ row'[q].state = row[q].state
               /\ Liability(q)' = Liability(q)
    BY DEF Charges, Liability
  <2>2. epoch' = epoch /\ chargedIn' = chargedIn /\ correctedIn' = correctedIn
    BY DEF booked
  <2> QED BY <2>1, <2>2 DEF ChargedThisMonth, RefundedThisMonth
<1>2. epoch' = epoch /\ chargedIn' = chargedIn /\ spent' = spent
  BY DEF booked
<1> QED BY <1>1, <1>2 DEF Booked

(* An open hold is charged: nothing of it was charged before.              *)
LEMMA ChargeBooks ==
    ASSUME IInv, TypeOK', NEW r \in Requests, Open(r), NEW cost \in Nat,
           Charge(r, Liability(r), cost), Charges'[r] = cost
    PROVE  Books(r) /\ OthersBooked(r)
<1>1. /\ RequestOK(r) /\ BudgetType /\ ChargedType
  BY Types DEF IInv
<1>2. Charges[r] = 0 /\ row[r].state # "reconciled"
  BY <1>1, AmountsAre, ChargedIs DEF RequestOK, Open, NoRow, ObserverRow
<1>3. /\ chargedIn' = [chargedIn EXCEPT ![r] = epoch] /\ correctedIn' = correctedIn
      /\ Pay(r, Liability(r), cost)
  BY DEF Charge
<1>4. chargedIn'[r] = epoch /\ \A q \in Requests \ {r} : chargedIn'[q] = chargedIn[q]
  BY <1>1, <1>3 DEF ChargedType
<1>5. epoch' = epoch
  BY <1>3 DEF Pay
<1>6. ASSUME NEW b \in Applies[r]
      PROVE  Month(r, b)' - Month(r, b)
               <= (spent'[b] - spent[b]) + (Refund(r, b)' - Refund(r, b))
  <2>1. b \in Buckets /\ spent[b] \in Nat
    BY <1>1, BucketsAssumption DEF BudgetType
  <2>2. spent'[b] = Larger(0, spent[b] + cost)
    BY <1>3, <2>1 DEF Pay
  <2>3. Month(r, b)' = cost /\ Refund(r, b)' = 0
    BY <1>4, <1>5 DEF Month, Refund
  <2>4. Month(r, b) = 0 /\ Refund(r, b) = 0
    BY <1>2 DEF Month, Refund
  <2> QED BY <2>1, <2>2, <2>3, <2>4 DEF Larger
<1>7. \A b \in Buckets \ Applies[r] : spent'[b] = spent[b]
  BY <1>3 DEF Pay
<1>8. \A b \in Buckets : chargedIn'[r][b] <= epoch[b]
  BY <1>1, <1>4 DEF BudgetType
<1> QED BY <1>3, <1>4, <1>5, <1>6, <1>7, <1>8 DEF Books, OthersBooked

(* A correction pays the buckets of now the difference to what was charged *)
(* then: within the month a part of its charges, later a refund.           *)
LEMMA CorrectBooks ==
    ASSUME IInv, Booked, TypeOK', NEW r \in Requests, AwaitsCorrection(r), CorrectRow(r, bill[r])
    PROVE  Books(r) /\ OthersBooked(r)
<1>1. /\ BudgetType /\ ChargedType /\ bill[r] \in Nat /\ Liability(r) \in Nat
  BY Types, LiabilityNat DEF IInv, RequestType
<1>2. row[r] = OwnRow(Liability(r), "pending") /\ hold[r] = "reconciled"
  <2>1. /\ RequestOK(r) /\ hold[r] = "reconciled" /\ row[r].by = "own"
        /\ row[r].state = "pending"
    BY DEF IInv, AwaitsCorrection
  <2>2. row[r] # ObserverRow /\ row[r] # OwnRow(bill[r], "reconciled")
    BY <2>1 DEF OwnRow, ObserverRow
  <2> QED BY <2>1, <2>2 DEF RequestOK
<1>3. row'[r] = OwnRow(bill[r], "reconciled") /\ hold' = hold
  BY CorrectRowIs
<1>4. Charges[r] = Liability(r) /\ Charges'[r] = bill[r]
  BY <1>2, <1>3, AmountsAre, AmountsNext, ChargedIs DEF OwnRow
<1>5. /\ correctedIn' = [correctedIn EXCEPT ![r] = epoch] /\ chargedIn' = chargedIn
      /\ Pay(r, 0, bill[r] - Liability(r))
  BY <1>2 DEF CorrectRow, Correct, OwnRow
<1>6. correctedIn'[r] = epoch /\ \A q \in Requests \ {r} : correctedIn'[q] = correctedIn[q]
  BY <1>1, <1>5 DEF ChargedType
<1>7. epoch' = epoch
  BY <1>5 DEF Pay
<1>8. ASSUME NEW b \in Applies[r]
      PROVE  Month(r, b)' - Month(r, b)
               <= (spent'[b] - spent[b]) + (Refund(r, b)' - Refund(r, b))
  <2>1. b \in Buckets /\ spent[b] \in Nat
    BY <1>1, BucketsAssumption DEF BudgetType
  <2>2. spent'[b] = Larger(0, spent[b] + (bill[r] - Liability(r)))
    BY <1>5, <2>1 DEF Pay
  <2>3. Refund(r, b) = 0
    BY <1>2 DEF Refund, OwnRow
  <2>4. CASE chargedIn[r][b] = epoch[b]
    <3>1. Month(r, b) = Liability(r) /\ Month(r, b)' = bill[r] /\ Refund(r, b)' = 0
      BY <1>4, <1>5, <1>7, <2>4 DEF Month, Refund
    <3> QED BY <1>1, <2>1, <2>2, <2>3, <3>1 DEF Larger
  <2>5. CASE chargedIn[r][b] # epoch[b]
    <3>1. Month(r, b) = 0 /\ Month(r, b)' = 0
      BY <1>5, <1>7, <2>5 DEF Month
    <3>2. Refund(r, b)' = Larger(0, Liability(r) - bill[r])
      <4>1. row'[r].state = "reconciled" /\ Liability(r)' = Liability(r)
        BY <1>3 DEF OwnRow, Liability
      <4> QED BY <1>4, <1>5, <1>6, <1>7, <2>5, <4>1 DEF Refund
    <3> QED BY <1>1, <2>1, <2>2, <2>3, <3>1, <3>2 DEF Larger
  <2> QED BY <2>4, <2>5
<1>9. \A b \in Buckets \ Applies[r] : spent'[b] = spent[b]
  BY <1>5 DEF Pay
<1>10. \A b \in Buckets : chargedIn'[r][b] <= epoch[b]
  BY <1>5 DEF Booked
<1> QED BY <1>5, <1>6, <1>7, <1>8, <1>9, <1>10 DEF Books, OthersBooked

(* A reset ends the month of a bucket: no charge is of the new one.        *)
LEMMA ResetsBooked ==
    ASSUME IInv, Booked, TypeOK', NEW r \in Requests, ResetDue(r), UNCHANGED booked,
           \A q \in Requests : Charges'[q] = Charges[q] /\ row'[q].state = row[q].state
    PROVE  Booked'
<1>1. ASSUME NEW b \in Buckets
      PROVE  /\ spent[b] \in Nat /\ epoch[b] \in Nat
             /\ b \notin Due(r) => spent'[b] = spent[b] /\ epoch'[b] = epoch[b]
             /\ b \in Due(r) => spent'[b] = 0 /\ epoch'[b] = epoch[b] + 1
  <2>1. spent' = SpentNow(r) /\ spent[b] \in Nat /\ epoch[b] \in Nat
    BY Types DEF IInv, BudgetType, ResetDue
  <2> QED BY <2>1 DEF ResetDue, SpentNow
<1>2. chargedIn' = chargedIn /\ correctedIn' = correctedIn
  BY DEF booked
<1>3. ASSUME NEW b \in Buckets, NEW q \in Requests
      PROVE  chargedIn[q][b] <= epoch[b] /\ chargedIn[q][b] \in Nat
  BY Types DEF Booked, IInv, ChargedType
<1>4. ASSUME NEW b \in Buckets, NEW q \in Requests PROVE chargedIn'[q][b] <= epoch'[b]
  BY <1>1, <1>2, <1>3
<1>5. ASSUME NEW b \in Buckets
      PROVE  SumOf(b, ChargedThisMonth(b)') <= spent'[b] + SumOf(b, RefundedThisMonth(b)')
  <2>1. CASE b \notin Due(r)
    <3>1. ASSUME NEW q \in Requests
          PROVE  /\ Charged(q)' = Charged(q) /\ row'[q].state = row[q].state
                 /\ Liability(q)' = Liability(q)
      BY DEF Charges, Liability
    <3>2. epoch'[b] = epoch[b] /\ spent'[b] = spent[b]
      BY <1>1, <2>1
    <3>3. /\ ChargedThisMonth(b)' = ChargedThisMonth(b)
          /\ RefundedThisMonth(b)' = RefundedThisMonth(b)
      BY <1>2, <3>1, <3>2 DEF ChargedThisMonth, RefundedThisMonth
    <3> QED BY <3>2, <3>3 DEF Booked
  <2>2. CASE b \in Due(r)
    <3>1. ChargedThisMonth(b)' \in [Requests -> Nat] /\ RefundedThisMonth(b)' \in [Requests -> Nat]
      BY MonthNext
    <3>2. \A q \in Requests : ChargedThisMonth(b)'[q] = 0
      <4>1. ASSUME NEW q \in Requests PROVE Month(q, b)' = 0
        BY <1>1, <1>2, <1>3, <2>2 DEF Month
      <4> QED BY <4>1, MonthNext
    <3>3. SumOf(b, ChargedThisMonth(b)') = 0
      BY <3>1, <3>2, SumOfZero
    <3>4. SumOf(b, RefundedThisMonth(b)') \in Nat
      BY <3>1, SumOfCovers
    <3> QED BY <1>1, <2>2, <3>3, <3>4
  <2> QED BY <2>1, <2>2
<1> QED BY <1>4, <1>5 DEF Booked

LEMMA StepBooked ==
    ASSUME IInv, Booked, NEW r \in Requests, Step(r)
    PROVE  Booked'
<1>0. TypeOK' /\ RequestType /\ RequestOK(r) /\ OthersKept(r)
  BY StepKeeps, Types DEF IInv, Others, Same, OthersKept, Keeps
<1>1. ASSUME Charges'[r] = Charges[r], row'[r].state = row[r].state
      PROVE  \A q \in Requests : Charges'[q] = Charges[q] /\ row'[q].state = row[q].state
  <2>1. \A q \in Requests \ {r} : Charges'[q] = Charges[q] /\ row'[q] = row[q]
    BY <1>0, OthersAmounts DEF OthersKept, Keeps
  <2> QED BY <1>1, <2>1
<1>2. ASSUME UNCHANGED <<spent, epoch, booked>>, Charges'[r] = Charges[r],
             row'[r].state = row[r].state
      PROVE  Booked'
  BY <1>1, <1>2, StillBooked
<1>3. ASSUME UNCHANGED budget, UNCHANGED booked, Keeps(r) PROVE Booked'
  <2>1. Charges'[r] = Charges[r] /\ row'[r] = row[r]
    BY <1>3, AmountsKept DEF Keeps
  <2> QED BY <1>2, <1>3, <2>1 DEF budget
<1>4. ASSUME row[r].by # "own", hold[r] # "reconciled", row'[r].by # "own", hold'[r] # "reconciled"
      PROVE  Charges'[r] = Charges[r]
  BY <1>0, <1>4, AmountsAre, AmountsNext, ChargedIs
<1>5. ASSUME Open(r) PROVE row[r] \in {NoRow, ObserverRow} /\ hold[r] # "reconciled"
  BY <1>0, <1>5 DEF RequestOK, Open
<1>6. ASSUME Open(r), FreeHold(r) PROVE Booked'
  <2>1. hold'[r] = "released" /\ row' = row /\ booked' = booked /\ Pay(r, Liability(r), 0)
    BY <1>0, <1>6 DEF FreeHold, SetHold, RequestType
  <2>2. spent' = spent /\ epoch' = epoch
    <3>1. spent \in [Buckets -> Nat]
      BY Types DEF IInv, BudgetType
    <3>2. \A b \in Buckets : Larger(0, spent[b] + 0) = spent[b]
      BY <3>1 DEF Larger
    <3> QED BY <2>1, <3>1, <3>2 DEF Pay
  <2>3. Charges'[r] = Charges[r]
    BY <1>4, <1>5, <1>6, <2>1 DEF NoRow, ObserverRow
  <2> QED BY <1>2, <2>1, <2>2, <2>3
<1>7. CASE \/ RefuseDisabled(r) \/ GiveUp(r) \/ SkipAttempt(r) \/ MarkRefused(r)
           \/ Answer(r) \/ SettleFails(r) \/ DecisionMarkRefused(r) \/ DecisionInterrupted(r)
           \/ DecisionAnswer(r) \/ Expire(r)
  <2>1. Keeps(r)
    BY <1>7, QuietSteps DEF Calls
  <2>2. UNCHANGED budget /\ UNCHANGED booked
    BY <1>7 DEF RefuseDisabled, GiveUp, SkipAttempt, MarkRefused, Answer, SettleFails,
       DecisionMarkRefused, DecisionInterrupted, DecisionAnswer, Expire
  <2> QED BY <1>3, <2>1, <2>2
<1>8. CASE Mark(r) \/ DecisionMark(r)
  <2>1. /\ UNCHANGED <<budget, booked>> /\ hold'[r] = "dispatched" /\ row' = row /\ Open(r)
    BY <1>0, <1>8 DEF Mark, DecisionMark, MayMark, WriteMark, SetHold, Open, RequestType
  <2>2. Charges'[r] = Charges[r]
    BY <1>4, <1>5, <2>1 DEF NoRow, ObserverRow
  <2> QED BY <1>2, <2>1, <2>2 DEF budget
<1>9. CASE DecisionDispatch(r)
  BY <1>9, <1>3 DEF DecisionDispatch, Keeps, holds
<1>10. CASE Observe(r)
  <2>1. /\ UNCHANGED <<budget, booked>> /\ hold' = hold
        /\ row[r] = NoRow /\ row'[r] = ObserverRow
    BY <1>0, <1>10 DEF Observe, SetRow, RequestType, holds
  <2>2. hold[r] # "reconciled"
    BY <1>0, <2>1 DEF RequestOK, NoRow, OwnRow, ObserverRow
  <2>3. Charges'[r] = Charges[r] /\ row'[r].state = row[r].state
    BY <1>4, <2>1, <2>2 DEF NoRow, ObserverRow
  <2> QED BY <1>2, <2>1, <2>3 DEF budget
<1>11. CASE Admit(r)
  <2>1. hold[r] = "none" /\ hold'[r] = "held" /\ row' = row /\ booked' = booked /\ ResetDue(r)
    BY <1>0, <1>11 DEF Admit, Idle, SetHold, RequestType, RequestOK
  <2>2. Charges'[r] = Charges[r]
    BY <1>0, <1>4, <2>1 DEF RequestOK, NoRow, ObserverRow
  <2> QED BY <1>0, <1>1, <2>1, <2>2, ResetsBooked
<1>12. CASE Refuse(r)
  <2>1. ResetDue(r) /\ UNCHANGED booked /\ Keeps(r)
    BY <1>12, QuietSteps DEF Refuse, Calls
  <2>2. Charges'[r] = Charges[r] /\ row'[r].state = row[r].state
    BY <2>1, AmountsKept DEF Keeps
  <2> QED BY <1>0, <1>1, <2>1, <2>2, ResetsBooked
<1>13. CASE Release(r) \/ DecisionRelease(r)
  <2>1. CASE Open(r) /\ FreeHold(r)
    BY <1>6, <2>1
  <2>2. CASE UNCHANGED <<hold, row, budget, booked>>
    <3>1. called'[r] = called[r]
      BY <1>13 DEF Release, DecisionRelease, history
    <3> QED BY <1>3, <2>2, <3>1 DEF Keeps
  <2> QED BY <1>13, <2>1, <2>2 DEF Release, DecisionRelease, Freeable, Open
<1>14. CASE ReapRelease(r)
  BY <1>14, <1>6 DEF ReapRelease, Reapable
<1>15. CASE ReapCharge(r)
  <2>1. Open(r) /\ row[r] \in {NoRow, ObserverRow} /\ Liability(r) \in Nat
    BY <1>5, <1>15, LiabilityNat DEF ReapCharge, Reapable
  <2>a. Charge(r, Liability(r), Liability(r))
    BY <1>15, <2>1, ReapPays, Types DEF IInv, Conservative, NoRow, ObserverRow
  <2>2. Charge(r, Liability(r), Liability(r)) /\ hold'[r] = "reconciled"
    BY <1>0, <1>15, <2>a DEF ReapCharge, SetHold, RequestType
  <2>3. row'[r] = OwnRow(Liability(r), "pending") \/ row'[r] = ObserverRow
    BY <1>0, <1>15, <2>1 DEF ReapCharge, Conservative, SetRow, RequestType, NoRow, ObserverRow
  <2>4. Charges'[r] = Liability(r)
    BY <1>0, <2>2, <2>3, AmountsNext DEF OwnRow, ObserverRow
  <2>5. Books(r) /\ OthersBooked(r)
    BY <1>0, <2>1, <2>2, <2>4, ChargeBooks
  <2> QED BY <1>0, <2>5, BooksIs
<1>16. CASE SettleRoute(r) \/ SettleDecision(r)
  <2>1. ASSUME NEW state \in {"none", "pending", "reconciled"},
               NEW status \in {"settled", "reconciled"}, Open(r),
               SetRow(r, OwnRow(bill[r], state)), Charge(r, Liability(r), bill[r]),
               SetHold(r, status)
        PROVE  Booked'
    <3>1. status \in Holds
      BY DEF Holds
    <3>2. row'[r] = OwnRow(bill[r], state)
      BY <2>1, <3>1, ChargeIs
    <3>3. Charges'[r] = bill[r] /\ bill[r] \in Nat
      BY <1>0, <3>2, AmountsNext DEF OwnRow, RequestType
    <3>4. Books(r) /\ OthersBooked(r)
      BY <1>0, <2>1, <3>3, ChargeBooks
    <3> QED BY <1>0, <3>4, BooksIs
  <2>2. CASE /\ Open(r) /\ SetRow(r, OwnRow(bill[r], "none"))
             /\ Charge(r, Liability(r), bill[r]) /\ SetHold(r, "settled")
    BY <2>1, <2>2
  <2>3. CASE /\ Open(r)
             /\ SetRow(r, OwnRow(bill[r], IF unsure[r] THEN "pending" ELSE "none"))
             /\ Charge(r, Liability(r), bill[r])
             /\ SetHold(r, IF unsure[r] THEN "reconciled" ELSE "settled")
    BY <2>1, <2>3
  <2>4. CASE AwaitsCorrection(r) /\ CorrectRow(r, bill[r])
    BY <1>0, <2>4, CorrectBooks, BooksIs
  <2>5. CASE UNCHANGED <<row, budget, hold, booked>>
    <3>1. called'[r] = called[r]
      BY <1>16 DEF SettleRoute, SettleDecision, history
    <3> QED BY <1>3, <2>5, <3>1 DEF Keeps
  <2> QED BY <1>16, <2>2, <2>3, <2>4, <2>5 DEF SettleRoute, SettleDecision
<1> QED
  BY <1>7, <1>8, <1>9, <1>10, <1>11, <1>12, <1>13, <1>14, <1>15, <1>16 DEF Step

LEMMA OtherStepsBooked ==
    ASSUME Booked, MonthEnds \/ (\E S \in SUBSET Requests : Crash(S)) \/ UNCHANGED vars
    PROVE  Booked'
<1>1. UNCHANGED <<spent, epoch, booked>> /\ UNCHANGED <<hold, row>>
  BY OtherStepsKeep DEF MonthEnds, Crash, vars, budget
<1>2. \A q \in Requests : Charges'[q] = Charges[q] /\ row'[q].state = row[q].state
  BY <1>1, AmountsKept, OtherStepsKeep DEF Keeps
<1> QED BY <1>1, <1>2, StillBooked

LEMMA BookedInit ==
    ASSUME Init
    PROVE  Booked
<1>1. IInv
  BY InitHolds
<1>2. ASSUME NEW b \in Buckets, NEW r \in Requests
      PROVE  chargedIn[r][b] <= epoch[b] /\ ChargedThisMonth(b)[r] = 0
  <2>1. hold[r] = "none" /\ row[r].by # "own"
    BY DEF Init, NoRow
  <2>2. Charges[r] = 0
    BY <1>1, <2>1, AmountsAre, ChargedIs
  <2>3. chargedIn[r] = epoch /\ epoch[b] = 0
    BY DEF Init
  <2> QED BY <1>1, <2>2, <2>3, MonthIs DEF Month
<1>3. ASSUME NEW b \in Buckets
      PROVE  SumOf(b, ChargedThisMonth(b)) = 0 /\ SumOf(b, RefundedThisMonth(b)) \in Nat
  BY <1>1, <1>2, MonthIs, SumOfZero, SumOfCovers
<1>4. \A b \in Buckets : spent[b] = 0
  BY DEF Init
<1> QED BY <1>2, <1>3, <1>4 DEF Booked

(* By the ledger, a bucket is over the cap of its month by no more than    *)
(* requests cost above their reserve and corrections of earlier months     *)
(* gave back.                                                              *)
THEOREM MonthlyCapBoundCorrect == Spec => []MonthlyCapBound
<1>1. Init => Booked
  BY BookedInit
<1>2. IInv /\ Booked /\ [Next]_vars => Booked'
  BY StepBooked, OtherStepsBooked, NextIs
<1>3. IInv /\ Booked /\ CapKept => MonthlyCapBound
  <2> SUFFICES ASSUME IInv, Booked, CapKept, NEW b \in Buckets
               PROVE  SumOf(b, ChargedThisMonth(b)) + reserved[b]
                        <= Cap[b] + SumOf(b, Overrun) + SumOf(b, RefundedThisMonth(b))
    BY DEF MonthlyCapBound
  <2>1. /\ spent[b] + reserved[b] <= Cap[b] + SumOf(b, Overrun)
        /\ SumOf(b, ChargedThisMonth(b)) <= spent[b] + SumOf(b, RefundedThisMonth(b))
    BY DEF CapKept, Booked
  <2>2. ASSUME NEW r \in Requests PROVE Overrun[r] \in Nat
    <3>1. bill[r] - Liability(r) \in Int
      BY LiabilityNat, Types DEF IInv, RequestType
    <3> QED BY <3>1 DEF Overrun, Larger
  <2>3. Overrun \in [Requests -> Nat]
    BY <2>2 DEF Overrun
  <2>4. /\ SumOf(b, ChargedThisMonth(b)) \in Nat /\ SumOf(b, RefundedThisMonth(b)) \in Nat
        /\ SumOf(b, Overrun) \in Nat
    BY <2>3, MonthIs, SumOfCovers
  <2>5. spent[b] \in Nat /\ reserved[b] \in Nat /\ Cap[b] \in Nat
    BY Types, BucketsAssumption DEF IInv, BudgetType
  <2> QED BY <2>1, <2>4, <2>5
<1> QED BY <1>1, <1>2, <1>3, CapKeptCorrect, IndCorrect, PTL DEF Spec

=============================================================================
