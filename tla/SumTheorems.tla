---------------------------- MODULE SumTheorems ----------------------------
(***************************************************************************)
(* Facts about SumFunctionOnSet of the module Functions, the sum that the  *)
(* models keep accounts with: what a run holds and is charged (RunCycles)  *)
(* and what a plugin retains (OpenCodePlugin); and the induction principle *)
(* they rest on, which the proofs about recursive functions of the models  *)
(* (a pass of the plugin, the run of a chunk in CaptureStore) use too.     *)
(* The sum is a recursive function over the subsets of its index set.      *)
(* That the recursion defines one, and that its value does not depend on   *)
(* the order in which CHOOSE takes the indices, is proved by induction on  *)
(* the size of a set; induction is the existence of a least counterexample *)
(* (WFMin), a theorem about sets that needs no predicate as a parameter.   *)
(***************************************************************************)
EXTENDS Integers, FiniteSets, Folds, Functions, FiniteSetTheorems,
        WellFoundedInduction, TLAPS

(* A set of numbers that has zero and the successor of each of its members *)
(* has all of them: the principle the proofs by induction use.              *)
THEOREM SetInduction ==
    ASSUME NEW S, 0 \in S, \A n \in Nat : n \in S => n + 1 \in S
    PROVE  Nat \subseteq S
<1> DEFINE R == {ss \in Nat \X Nat : ss[1] < ss[2]}
<1>0. IsWellFoundedOn(R, Nat)
  BY NatLessThanWellFounded DEF OpToRel
<1> HIDE DEF R
<1>1. SUFFICES ASSUME Nat \ S # {} PROVE FALSE
  OBVIOUS
<1>2. PICK x \in Nat \ S : \A y \in Nat \ S : <<y, x>> \notin R
  BY <1>0, <1>1, WFMin, Zenon
<1>3. x # 0 /\ x - 1 \in Nat
  OBVIOUS
<1>4. <<x - 1, x>> \in R
  BY <1>3 DEF R
<1>5. x - 1 \in S
  BY <1>2, <1>3, <1>4
<1>6. QED
  BY <1>3, <1>5

(* The element of a set that the recursion takes first, and the recursive  *)
(* function itself.                                                        *)
Pick(s) == CHOOSE x \in s : TRUE

IsPartial(it, f, T) ==
    it = [s \in T |-> IF s = {} THEN 0 ELSE f[Pick(s)] + it[s \ {Pick(s)}]]

Partial(f, S) == CHOOSE it : IsPartial(it, f, SUBSET S)

(* The library's sum is the value of that function at the whole set.       *)
LEMMA SumIsPartial ==
    ASSUME NEW f, NEW S
    PROVE  SumFunctionOnSet(f, S) = Partial(f, S)[S]
BY DEF SumFunctionOnSet, FoldFunctionOnSet, MapThenFoldSet, Partial, IsPartial, Pick

(* The element taken is one of the set; what is left is smaller by one.    *)
LEMMA PickSmaller ==
    ASSUME NEW s, IsFiniteSet(s), s # {}
    PROVE  /\ Pick(s) \in s
           /\ IsFiniteSet(s \ {Pick(s)})
           /\ Cardinality(s) \in Nat /\ Cardinality(s \ {Pick(s)}) \in Nat
           /\ Cardinality(s \ {Pick(s)}) + 1 = Cardinality(s)
<1>1. Pick(s) \in s
  BY DEF Pick
<1>2. /\ IsFiniteSet(s \ {Pick(s)})
      /\ Cardinality(s \ {Pick(s)}) = Cardinality(s) - 1
  BY <1>1, FS_RemoveElement
<1>3. Cardinality(s) \in Nat /\ Cardinality(s \ {Pick(s)}) \in Nat
  BY <1>2, FS_CardinalityType
<1>4. QED
  BY <1>1, <1>2, <1>3

(* There is such a function: built on the subsets of at most n elements,   *)
(* for every n.                                                            *)
LEMMA PartialExists ==
    ASSUME NEW f, NEW S, IsFiniteSet(S)
    PROVE  IsPartial(Partial(f, S), f, SUBSET S)
<1> DEFINE Upto(n) == {s \in SUBSET S : Cardinality(s) <= n}
           Good == {n \in Nat : \E g : IsPartial(g, f, Upto(n))}
<1>1. 0 \in Good
  <2> DEFINE g == [s \in Upto(0) |-> 0]
  <2>1. Upto(0) = {{}}
    <3>1. ASSUME NEW s \in SUBSET S, Cardinality(s) <= 0
          PROVE  s = {}
      <4>1. IsFiniteSet(s) /\ Cardinality(s) \in Nat
        BY FS_Subset, FS_CardinalityType
      <4>2. QED
        BY <3>1, <4>1, FS_EmptySet
    <3>2. {} \in Upto(0)
      BY FS_EmptySet
    <3>3. QED
      BY <3>1, <3>2
  <2>2. IsPartial(g, f, Upto(0))
    BY <2>1 DEF IsPartial
  <2>3. QED
    BY <2>2
<1>2. ASSUME NEW n \in Nat, n \in Good
      PROVE  n + 1 \in Good
  <2>1. PICK g : IsPartial(g, f, Upto(n))
    BY <1>2
  <2> DEFINE h == [s \in Upto(n + 1) |->
                     IF s = {} THEN 0 ELSE f[Pick(s)] + g[s \ {Pick(s)}]]
  <2>2. ASSUME NEW s \in Upto(n + 1), s # {}
        PROVE  s \ {Pick(s)} \in Upto(n) /\ s \ {Pick(s)} \in Upto(n + 1)
    BY <2>2, PickSmaller, FS_Subset
  <2>3. ASSUME NEW s \in Upto(n)
        PROVE  s \in Upto(n + 1) /\ h[s] = g[s]
    <3>1. Cardinality(s) \in Nat
      BY FS_Subset, FS_CardinalityType
    <3>2. s \in Upto(n + 1)
      BY <3>1
    <3>3. QED
      BY <2>1, <3>2 DEF IsPartial
  <2>4. ASSUME NEW s \in Upto(n + 1), s # {}
        PROVE  g[s \ {Pick(s)}] = h[s \ {Pick(s)}]
    BY <2>2, <2>3, <2>4
  <2> HIDE DEF Upto
  <2>5. h = [s \in Upto(n + 1) |->
               IF s = {} THEN 0 ELSE f[Pick(s)] + h[s \ {Pick(s)}]]
    BY <2>4
  <2>6. IsPartial(h, f, Upto(n + 1))
    BY <2>5 DEF IsPartial
  <2>7. QED
    BY <2>6
<1>3. Cardinality(S) \in Nat
  BY FS_CardinalityType
<1> HIDE DEF Good
<1>4. Cardinality(S) \in Good
  BY <1>1, <1>2, <1>3, SetInduction
<1>5. Upto(Cardinality(S)) = SUBSET S
  BY FS_Subset
<1>6. \E g : IsPartial(g, f, SUBSET S)
  BY <1>4, <1>5 DEF Good
<1>7. QED
  BY <1>6 DEF Partial

(* The recursion at one set.                                               *)
LEMMA PartialUnfolds ==
    ASSUME NEW f, NEW S, IsFiniteSet(S), NEW s \in SUBSET S
    PROVE  Partial(f, S)[s] =
             IF s = {} THEN 0 ELSE f[Pick(s)] + Partial(f, S)[s \ {Pick(s)}]
<1>1. IsPartial(Partial(f, S), f, SUBSET S)
  BY PartialExists
<1> DEFINE it == Partial(f, S)
<1> HIDE DEF it
<1>2. it = [t \in SUBSET S |-> IF t = {} THEN 0 ELSE f[Pick(t)] + it[t \ {Pick(t)}]]
  BY <1>1 DEF it, IsPartial
<1>3. it[s] = IF s = {} THEN 0 ELSE f[Pick(s)] + it[s \ {Pick(s)}]
  BY <1>2
<1>4. QED
  BY <1>3 DEF it

(* It depends only on the summands of the set it is taken at, not on the   *)
(* rest of the function or of the index set.                               *)
LEMMA PartialAgrees ==
    ASSUME NEW f, NEW g, NEW S, IsFiniteSet(S), NEW T \in SUBSET S,
           \A x \in T : f[x] = g[x]
    PROVE  \A t \in SUBSET T : Partial(f, S)[t] = Partial(g, T)[t]
<1> DEFINE Good == {n \in Nat : \A t \in SUBSET T :
                       Cardinality(t) = n => Partial(f, S)[t] = Partial(g, T)[t]}
<1>0. IsFiniteSet(T)
  BY FS_Subset
<1>1. ASSUME NEW t \in SUBSET T
      PROVE  t \in SUBSET S /\ IsFiniteSet(t) /\ Cardinality(t) \in Nat
  BY <1>0, FS_Subset, FS_CardinalityType
<1>2. 0 \in Good
  <2>1. ASSUME NEW t \in SUBSET T, Cardinality(t) = 0
        PROVE  Partial(f, S)[t] = Partial(g, T)[t]
    <3>1. t = {}
      BY <1>1, <2>1, FS_EmptySet
    <3>2. Partial(f, S)[t] = 0 /\ Partial(g, T)[t] = 0
      BY <1>0, <1>1, <3>1, PartialUnfolds
    <3>3. QED
      BY <3>2
  <2>2. QED
    BY <2>1
<1>3. ASSUME NEW n \in Nat, n \in Good
      PROVE  n + 1 \in Good
  <2>1. ASSUME NEW t \in SUBSET T, Cardinality(t) = n + 1
        PROVE  Partial(f, S)[t] = Partial(g, T)[t]
    <3>1. t # {}
      BY <2>1, FS_EmptySet
    <3>2. /\ Pick(t) \in t
          /\ Cardinality(t \ {Pick(t)}) \in Nat
          /\ Cardinality(t \ {Pick(t)}) + 1 = Cardinality(t)
      BY <1>1, <3>1, PickSmaller
    <3>3. Partial(f, S)[t \ {Pick(t)}] = Partial(g, T)[t \ {Pick(t)}]
      BY <1>3, <2>1, <3>2
    <3>4. Partial(f, S)[t] = f[Pick(t)] + Partial(f, S)[t \ {Pick(t)}]
      BY <1>1, <3>1, PartialUnfolds
    <3>5. Partial(g, T)[t] = g[Pick(t)] + Partial(g, T)[t \ {Pick(t)}]
      BY <1>0, <3>1, PartialUnfolds
    <3>6. QED
      BY <3>2, <3>3, <3>4, <3>5
  <2>2. QED
    BY <2>1
<1> HIDE DEF Good
<1>4. Nat \subseteq Good
  BY <1>2, <1>3, SetInduction
<1>5. QED
  BY <1>1, <1>4 DEF Good

(* Every sum over a subset is a value of one recursive function.           *)
LEMMA SumOnSubset ==
    ASSUME NEW f, NEW S, IsFiniteSet(S), NEW T \in SUBSET S
    PROVE  SumFunctionOnSet(f, T) = Partial(f, S)[T]
<1>1. \A t \in SUBSET T : Partial(f, S)[t] = Partial(f, T)[t]
  BY PartialAgrees
<1>2. QED
  BY <1>1, SumIsPartial

(* Two functions that agree on a set have the same sum over it.            *)
THEOREM SumSame ==
    ASSUME NEW f, NEW g, NEW S, IsFiniteSet(S), \A x \in S : f[x] = g[x]
    PROVE  SumFunctionOnSet(f, S) = SumFunctionOnSet(g, S)
<1>1. Partial(f, S)[S] = Partial(g, S)[S]
  BY PartialAgrees
<1>2. QED
  BY <1>1, SumIsPartial

(* The sum over no index is zero.                                          *)
THEOREM SumEmpty ==
    ASSUME NEW f
    PROVE  SumFunctionOnSet(f, {}) = 0
<1>1. QED
  BY SumIsPartial, PartialUnfolds, FS_EmptySet

(* A set of numbers with zero that is closed under addition has the sums   *)
(* of its members.                                                         *)
THEOREM SumClosed ==
    ASSUME NEW V, 0 \in V, \A a, b \in V : a + b \in V,
           NEW f, NEW S, IsFiniteSet(S), \A x \in S : f[x] \in V
    PROVE  SumFunctionOnSet(f, S) \in V
<1> DEFINE Good == {n \in Nat : \A t \in SUBSET S :
                       Cardinality(t) = n => Partial(f, S)[t] \in V}
<1>1. ASSUME NEW t \in SUBSET S
      PROVE  IsFiniteSet(t) /\ Cardinality(t) \in Nat
  BY FS_Subset, FS_CardinalityType
<1>2. 0 \in Good
  <2>1. ASSUME NEW t \in SUBSET S, Cardinality(t) = 0
        PROVE  Partial(f, S)[t] \in V
    <3>1. t = {}
      BY <1>1, <2>1, FS_EmptySet
    <3>2. QED
      BY <3>1, PartialUnfolds
  <2>2. QED
    BY <2>1
<1>3. ASSUME NEW n \in Nat, n \in Good
      PROVE  n + 1 \in Good
  <2>1. ASSUME NEW t \in SUBSET S, Cardinality(t) = n + 1
        PROVE  Partial(f, S)[t] \in V
    <3>1. t # {}
      BY <2>1, FS_EmptySet
    <3>2. /\ Pick(t) \in t
          /\ Cardinality(t \ {Pick(t)}) \in Nat
          /\ Cardinality(t \ {Pick(t)}) + 1 = Cardinality(t)
      BY <1>1, <3>1, PickSmaller
    <3>3. Partial(f, S)[t \ {Pick(t)}] \in V
      BY <1>3, <2>1, <3>2
    <3>4. Partial(f, S)[t] = f[Pick(t)] + Partial(f, S)[t \ {Pick(t)}]
      BY <3>1, PartialUnfolds
    <3>5. QED
      BY <3>2, <3>3, <3>4
  <2>2. QED
    BY <2>1
<1> HIDE DEF Good
<1>4. Nat \subseteq Good
  BY <1>2, <1>3, SetInduction
<1>5. Partial(f, S)[S] \in V
  BY <1>1, <1>4 DEF Good
<1>6. QED
  BY <1>5, SumIsPartial

(* A sum of integers is an integer, ...                                    *)
THEOREM SumInt ==
    ASSUME NEW f, NEW S, IsFiniteSet(S), \A x \in S : f[x] \in Int
    PROVE  SumFunctionOnSet(f, S) \in Int
<1>1. 0 \in Int /\ \A a, b \in Int : a + b \in Int
  OBVIOUS
<1>2. QED
  BY <1>1, SumClosed

(* ... one of natural numbers is a natural number, ...                     *)
THEOREM SumNat ==
    ASSUME NEW f, NEW S, IsFiniteSet(S), \A x \in S : f[x] \in Nat
    PROVE  SumFunctionOnSet(f, S) \in Nat
<1>1. 0 \in Nat /\ \A a, b \in Nat : a + b \in Nat
  OBVIOUS
<1>2. QED
  BY <1>1, SumClosed

(* ... and one of zeros is zero.                                           *)
THEOREM SumZero ==
    ASSUME NEW f, NEW S, IsFiniteSet(S), \A x \in S : f[x] = 0
    PROVE  SumFunctionOnSet(f, S) = 0
<1>1. 0 \in {0} /\ \A a, b \in {0} : a + b \in {0}
  OBVIOUS
<1>2. \A x \in S : f[x] \in {0}
  OBVIOUS
<1>3. SumFunctionOnSet(f, S) \in {0}
  BY <1>1, <1>2, SumClosed
<1>4. QED
  BY <1>3

(* Any summand may be taken out first: the sum does not depend on the      *)
(* order.                                                                  *)
THEOREM SumRemove ==
    ASSUME NEW f, NEW S, IsFiniteSet(S), \A x \in S : f[x] \in Int, NEW x \in S
    PROVE  SumFunctionOnSet(f, S) = f[x] + SumFunctionOnSet(f, S \ {x})
<1> DEFINE P == Partial(f, S)
           Good == {n \in Nat : \A t \in SUBSET S : Cardinality(t) = n =>
                       \A y \in t : P[t] = f[y] + P[t \ {y}]}
<1>1. ASSUME NEW t \in SUBSET S
      PROVE  /\ IsFiniteSet(t) /\ Cardinality(t) \in Nat
             /\ P[t] \in Int
             /\ P[t] = IF t = {} THEN 0 ELSE f[Pick(t)] + P[t \ {Pick(t)}]
  <2>1. IsFiniteSet(t) /\ Cardinality(t) \in Nat
    BY FS_Subset, FS_CardinalityType
  <2>2. P[t] \in Int
    BY <2>1, SumInt, SumOnSubset
  <2>3. QED
    BY <2>1, <2>2, PartialUnfolds
<1> HIDE DEF P
<1>2. 0 \in Good
  <2>1. ASSUME NEW t \in SUBSET S, Cardinality(t) = 0, NEW y \in t
        PROVE  P[t] = f[y] + P[t \ {y}]
    BY <1>1, <2>1, FS_EmptySet
  <2>2. QED
    BY <2>1
<1>3. ASSUME NEW n \in Nat, n \in Good
      PROVE  n + 1 \in Good
  <2>1. ASSUME NEW t \in SUBSET S, Cardinality(t) = n + 1, NEW y \in t
        PROVE  P[t] = f[y] + P[t \ {y}]
    <3> DEFINE p == Pick(t)
    <3>1. p \in t
      BY <1>1, PickSmaller
    <3>2. P[t] = f[p] + P[t \ {p}]
      BY <1>1
    <3> HIDE DEF p
    <3>3. CASE p = y
      BY <3>2, <3>3
    <3>4. CASE p # y
      <4>0. ASSUME NEW z \in t
            PROVE  Cardinality(t \ {z}) = n
        <5>1. Cardinality(t \ {z}) = Cardinality(t) - 1
          BY <1>1, FS_RemoveElement
        <5>2. QED
          BY <2>1, <5>1
      <4>1. Cardinality(t \ {p}) = n /\ Cardinality(t \ {y}) = n
        BY <3>1, <4>0
      <4>2. P[t \ {p}] = f[y] + P[(t \ {p}) \ {y}]
        BY <1>3, <3>4, <4>1
      <4>3. P[t \ {y}] = f[p] + P[(t \ {y}) \ {p}]
        BY <1>3, <3>1, <3>4, <4>1
      <4>4. (t \ {p}) \ {y} = (t \ {y}) \ {p}
        OBVIOUS
      <4>5. f[p] \in Int /\ f[y] \in Int /\ P[(t \ {p}) \ {y}] \in Int
        BY <1>1, <3>1
      <4>6. P[t] = f[p] + (f[y] + P[(t \ {p}) \ {y}])
        BY <3>2, <4>2
      <4>7. P[t \ {y}] = f[p] + P[(t \ {p}) \ {y}]
        BY <4>3, <4>4
      <4> DEFINE rest == P[(t \ {p}) \ {y}]
      <4> HIDE DEF rest
      <4>8. P[t] = f[p] + (f[y] + rest) /\ P[t \ {y}] = f[p] + rest /\ rest \in Int
        BY <4>5, <4>6, <4>7 DEF rest
      <4>9. QED
        BY <4>5, <4>8
    <3>5. QED
      BY <3>3, <3>4
  <2>2. QED
    BY <2>1
<1> HIDE DEF Good
<1>4. Nat \subseteq Good
  BY <1>2, <1>3, SetInduction
<1>5. P[S] = f[x] + P[S \ {x}]
  BY <1>1, <1>4 DEF Good
<1>6. SumFunctionOnSet(f, S) = P[S] /\ SumFunctionOnSet(f, S \ {x}) = P[S \ {x}]
  BY SumOnSubset DEF P
<1>7. QED
  BY <1>5, <1>6

(* A change of one summand changes the sum by the difference: what an      *)
(* account needs when one of its entries is rewritten.                     *)
THEOREM SumChange ==
    ASSUME NEW f, NEW g, NEW S, IsFiniteSet(S),
           \A y \in S : f[y] \in Int /\ g[y] \in Int,
           NEW x \in S, \A y \in S \ {x} : f[y] = g[y]
    PROVE  SumFunctionOnSet(g, S) = SumFunctionOnSet(f, S) - f[x] + g[x]
<1>1. SumFunctionOnSet(f, S) = f[x] + SumFunctionOnSet(f, S \ {x})
  BY SumRemove
<1>2. SumFunctionOnSet(g, S) = g[x] + SumFunctionOnSet(g, S \ {x})
  BY SumRemove
<1>3. IsFiniteSet(S \ {x})
  BY FS_RemoveElement
<1>4. SumFunctionOnSet(f, S \ {x}) = SumFunctionOnSet(g, S \ {x})
  BY <1>3, SumSame
<1>5. SumFunctionOnSet(f, S \ {x}) \in Int
  BY <1>3, SumInt
<1>6. QED
  BY <1>1, <1>2, <1>4, <1>5

(* A sum of naturals is at least each of its summands.                     *)
THEOREM SumAtLeast ==
    ASSUME NEW f, NEW S, IsFiniteSet(S), \A y \in S : f[y] \in Nat, NEW x \in S
    PROVE  f[x] <= SumFunctionOnSet(f, S)
<1>1. SumFunctionOnSet(f, S) = f[x] + SumFunctionOnSet(f, S \ {x})
  <2>1. \A y \in S : f[y] \in Int
    OBVIOUS
  <2>2. QED
    BY <2>1, SumRemove
<1>2. IsFiniteSet(S \ {x})
  BY FS_RemoveElement
<1>3. SumFunctionOnSet(f, S \ {x}) \in Nat
  BY <1>2, SumNat
<1>4. QED
  BY <1>1, <1>3

(* A bound on each summand bounds the sum: by the other sum, or by that    *)
(* and the number of the indices when each summand exceeds its own by at   *)
(* most one.                                                               *)
THEOREM SumBounded ==
    ASSUME NEW f, NEW g, NEW S, IsFiniteSet(S), NEW k \in {0, 1},
           \A x \in S : f[x] \in Int /\ g[x] \in Int /\ f[x] <= g[x] + k
    PROVE  SumFunctionOnSet(f, S)
             <= SumFunctionOnSet(g, S) + IF k = 0 THEN 0 ELSE Cardinality(S)
<1> DEFINE F(t) == SumFunctionOnSet(f, t)
           G(t) == SumFunctionOnSet(g, t)
           Size(t) == IF k = 0 THEN 0 ELSE Cardinality(t)
           Good == {n \in Nat : \A t \in SUBSET S :
                       Cardinality(t) = n => F(t) <= G(t) + Size(t)}
<1>1. ASSUME NEW t \in SUBSET S
      PROVE  /\ IsFiniteSet(t) /\ Cardinality(t) \in Nat
             /\ F(t) \in Int /\ G(t) \in Int /\ Size(t) \in Nat
  <2>1. IsFiniteSet(t) /\ Cardinality(t) \in Nat
    BY FS_Subset, FS_CardinalityType
  <2>2. F(t) \in Int /\ G(t) \in Int
    BY <2>1, SumInt
  <2>3. QED
    BY <2>1, <2>2
<1>2. 0 \in Good
  <2>1. ASSUME NEW t \in SUBSET S, Cardinality(t) = 0
        PROVE  F(t) <= G(t) + Size(t)
    <3>1. t = {}
      BY <1>1, <2>1, FS_EmptySet
    <3>2. F(t) = 0 /\ G(t) = 0
      BY <3>1, SumEmpty
    <3>3. QED
      BY <1>1, <3>2
  <2>2. QED
    BY <2>1
<1>3. ASSUME NEW n \in Nat, n \in Good
      PROVE  n + 1 \in Good
  <2>1. ASSUME NEW t \in SUBSET S, Cardinality(t) = n + 1
        PROVE  F(t) <= G(t) + Size(t)
    <3>1. t # {}
      BY <2>1, FS_EmptySet
    <3>2. PICK x \in t : TRUE
      BY <3>1
    <3> DEFINE u == t \ {x}
    <3>3. u \in SUBSET S /\ Cardinality(u) = n
      <4>1. Cardinality(u) = Cardinality(t) - 1
        BY <1>1, <3>2, FS_RemoveElement
      <4>2. QED
        BY <2>1, <4>1
    <3>4. F(t) = f[x] + F(u)
      BY <1>1, <3>2, SumRemove
    <3>5. G(t) = g[x] + G(u)
      BY <1>1, <3>2, SumRemove
    <3>6. F(u) <= G(u) + Size(u)
      BY <1>3, <3>3
    <3>7. f[x] \in Int /\ g[x] \in Int /\ f[x] <= g[x] + k
      BY <3>2
    <3>8. Size(t) = Size(u) + k
      BY <2>1, <3>3
    <3>9. F(u) \in Int /\ G(u) \in Int /\ Size(u) \in Nat
      BY <1>1, <3>3
    <3> HIDE DEF F, G, Size, u
    <3>10. QED
      BY <3>4, <3>5, <3>6, <3>7, <3>8, <3>9
  <2>2. QED
    BY <2>1
<1> HIDE DEF Good
<1>4. Nat \subseteq Good
  BY <1>2, <1>3, SetInduction
<1>5. F(S) <= G(S) + Size(S)
  BY <1>1, <1>4 DEF Good
<1>6. QED
  BY <1>5
=============================================================================
