------------------------- MODULE TransferInvariant --------------------------
(***************************************************************************)
(* Proofs about Transfer, for any number of chains, channels, users and    *)
(* coins.  Here are facts about sums and bags, then what each action does  *)
(* to the balances, to the coins that packets carry and to the traces.     *)
(* Of all a step does, Ledger keeps what the two balances of               *)
(* TransferSafety depend on.                                               *)
(***************************************************************************)
EXTENDS Transfer, FiniteSetTheorems, WellFoundedInduction, TLAPS

\* Leaves are proved by Zenon unless they name another prover.
USE Zenon

-----------------------------------------------------------------------------
(* Sums over finite sets. *)

\* A nonempty set of naturals has a least element.
LEMMA LeastNat ==
  ASSUME NEW T, T \subseteq Nat, T # {}
  PROVE  \E n \in T : \A m \in T : n <= m
<1>1. PICK n \in T : \A m \in T : ~ (<<m, n>> \in OpToRel(<, Nat))
  BY NatLessThanWellFounded, WFMin
<1>2. \A m, k \in Nat : m < k => <<m, k>> \in OpToRel(<, Nat)
  BY DEF OpToRel
<1>3. \A m \in T : m \in Nat /\ n \in Nat /\ ~ (m < n)
  BY <1>1, <1>2
<1> QED BY <1>3, SMT

Pick(s) == CHOOSE x \in s : TRUE
SumStep(f, g, s) == IF s = {} THEN 0 ELSE f[Pick(s)] + g[s \ {Pick(s)}]
IsSum(f, S, g) == g = [s \in S |-> SumStep(f, g, s)]
SumsSubsets(f, S, g) == IsSum(f, SUBSET S, g)

LEMMA SumUnfolds ==
  ASSUME NEW f, NEW S
  PROVE  SumFunctionOnSet(f, S) = (CHOOSE g : SumsSubsets(f, S, g))[S]
<1>1. SumFunctionOnSet(f, S) =
       (CHOOSE g : g = [s \in SUBSET S |-> IF s = {} THEN 0 
         ELSE f[CHOOSE x \in s : TRUE] + g[s \ {CHOOSE x \in s : TRUE}]])[S]
  BY DEF SumFunctionOnSet, FoldFunctionOnSet, MapThenFoldSet
<1> QED BY <1>1 DEF SumsSubsets, IsSum, SumStep, Pick

LEMMA PickFacts ==
  ASSUME NEW s, IsFiniteSet(s), s # {}
  PROVE  /\ Pick(s) \in s
         /\ IsFiniteSet(s \ {Pick(s)})
         /\ Cardinality(s) \in Nat
         /\ Cardinality(s \ {Pick(s)}) \in Nat
         /\ Cardinality(s \ {Pick(s)}) = Cardinality(s) - 1
<1>1. Pick(s) \in s
  BY DEF Pick
<1> QED BY <1>1, FS_RemoveElement, FS_CardinalityType, FS_EmptySet

Small(S, n) == {s \in SUBSET S : Cardinality(s) <= n}

LEMMA PartialSums ==
  ASSUME NEW f, NEW S, IsFiniteSet(S), NEW n \in Nat
  PROVE  \E g : IsSum(f, Small(S, n), g)
<1> DEFINE bad == {m \in Nat : ~ \E g : IsSum(f, Small(S, m), g)}
<1> SUFFICES ASSUME bad # {} PROVE FALSE
  OBVIOUS
<1>1. PICK m \in bad : \A k \in bad : m <= k
  BY LeastNat
<1>2. \A s \in SUBSET S : /\ IsFiniteSet(s)
                          /\ Cardinality(s) \in Nat
                          /\ Cardinality(s) = 0 <=> s = {}
  BY FS_Subset, FS_CardinalityType, FS_EmptySet
<1>3. CASE m = 0
  <2> DEFINE g == [s \in Small(S, 0) |-> 0]
  <2>1. \A s \in Small(S, 0) : s = {}
    BY <1>2, SMT DEF Small
  <2>2. IsSum(f, Small(S, 0), g)
    BY <2>1 DEF IsSum, SumStep
  <2> QED BY <1>1, <1>3, <2>2
<1>4. CASE m # 0
  <2>1. m - 1 \in Nat /\ m - 1 \notin bad
    BY <1>1, <1>4, SMT
  <2>2. PICK g : IsSum(f, Small(S, m - 1), g)
    BY <2>1
  <2> DEFINE h == [s \in Small(S, m) |-> SumStep(f, g, s)]
  <2>3. ASSUME NEW s \in Small(S, m), s # {}
        PROVE  h[s \ {Pick(s)}] = g[s \ {Pick(s)}]
    <3> DEFINE r == s \ {Pick(s)}
    <3>1. r \in SUBSET S /\ Cardinality(r) = Cardinality(s) - 1 /\ Cardinality(s) \in Nat
          /\ Cardinality(s) <= m
      BY <1>2, <2>3, PickFacts DEF Small
    <3>2. r \in Small(S, m - 1) /\ r \in Small(S, m)
      BY <1>1, <3>1, SMT DEF Small
    <3> HIDE DEF r
    <3>3. h[r] = SumStep(f, g, r) /\ g[r] = SumStep(f, g, r)
      BY <2>2, <3>2 DEF IsSum
    <3> QED BY <3>3 DEF r
  <2>4. \A s \in Small(S, m) : SumStep(f, h, s) = SumStep(f, g, s)
    <3> HIDE DEF h
    <3> QED BY <2>3 DEF SumStep
  <2>5. IsSum(f, Small(S, m), h)
    BY <2>4 DEF IsSum
  <2> QED BY <1>1, <2>5
<1> QED BY <1>3, <1>4

LEMMA SumsExist ==
  ASSUME NEW f, NEW S, IsFiniteSet(S)
  PROVE  \E g : SumsSubsets(f, S, g)
<1>1. Cardinality(S) \in Nat /\ Small(S, Cardinality(S)) = SUBSET S
  BY FS_Subset, FS_CardinalityType DEF Small
<1>2. \E g : IsSum(f, Small(S, Cardinality(S)), g)
  BY <1>1, PartialSums
<1> QED BY <1>1, <1>2, Zenon DEF SumsSubsets

LEMMA SumsAgree ==
  ASSUME NEW f, NEW S, IsFiniteSet(S), NEW T, NEW g, NEW h,
         SumsSubsets(f, S, g), SumsSubsets(f, T, h)
  PROVE  \A s \in SUBSET (S \cap T) : g[s] = h[s]
<1> DEFINE bad == {Cardinality(s) : s \in {s \in SUBSET (S \cap T) : g[s] # h[s]}}
<1>1. \A s \in SUBSET (S \cap T) : /\ IsFiniteSet(s)
                          /\ Cardinality(s) \in Nat
  BY FS_Subset, FS_CardinalityType, FS_EmptySet
<1>2. ASSUME bad # {} PROVE FALSE
  <2>1. bad \subseteq Nat
    BY <1>1
  <2>2. PICK m \in bad : \A k \in bad : m <= k
    BY <1>2, <2>1, LeastNat
  <2>3. PICK s \in SUBSET (S \cap T) : g[s] # h[s] /\ Cardinality(s) = m
    BY <2>2
  <2>4. g[s] = SumStep(f, g, s) /\ h[s] = SumStep(f, h, s)
    BY DEF IsSum, SumsSubsets
  <2>5. s # {}
    BY <2>3, <2>4 DEF SumStep
  <2> DEFINE r == s \ {Pick(s)}
  <2>6. Cardinality(r) \in Nat /\ Cardinality(r) < m
    BY <1>1, <2>3, <2>5, PickFacts, SMT
  <2>7. Cardinality(r) \notin bad
    BY <2>1, <2>2, <2>6, SMT
  <2>8. g[r] = h[r]
    BY <2>7
  <2> QED BY <2>3, <2>4, <2>5, <2>8 DEF SumStep
<1> QED BY <1>2

LEMMA SumPick ==
  ASSUME NEW f, NEW S, IsFiniteSet(S)
  PROVE  SumFunctionOnSet(f, S) =
           IF S = {} THEN 0 ELSE f[Pick(S)] + SumFunctionOnSet(f, S \ {Pick(S)})
<1> DEFINE g == CHOOSE x : SumsSubsets(f, S, x)
           R == S \ {Pick(S)}
           h == CHOOSE x : SumsSubsets(f, R, x)
<1>1. IsFiniteSet(R)
  BY FS_RemoveElement
<1>2. SumsSubsets(f, S, g) /\ SumsSubsets(f, R, h)
  BY <1>1, SumsExist
<1>3. SumFunctionOnSet(f, S) = g[S] /\ SumFunctionOnSet(f, R) = h[R]
  BY SumUnfolds
<1> HIDE DEF g, h
<1>4. g[R] = h[R]
  <2>1. R \in SUBSET (S \cap R)
    OBVIOUS
  <2> HIDE DEF R
  <2>2. \A s \in SUBSET (S \cap R) : g[s] = h[s]
    BY <1>2, SumsAgree, SMT
  <2> QED BY <2>1, <2>2
<1>5. g[S] = SumStep(f, g, S)
  BY <1>2 DEF IsSum, SumsSubsets
<1> QED BY <1>3, <1>4, <1>5 DEF SumStep

Total(f, S) == SumFunctionOnSet(f, S)

\* A sum is the summand of any element and the sum of the others.
LEMMA SumFacts ==
  ASSUME NEW f, NEW S, IsFiniteSet(S), \A x \in S : f[x] \in Nat
  PROVE  /\ SumFunctionOnSet(f, S) \in Nat
         /\ \A x \in S : SumFunctionOnSet(f, S) = f[x] + SumFunctionOnSet(f, S \ {x})
<1> DEFINE Good(s) == /\ Total(f, s) \in Nat
                      /\ \A x \in s : Total(f, s) = f[x] + Total(f, s \ {x})
           bad == {Cardinality(s) : s \in {s \in SUBSET S : ~ Good(s)}}
<1>1. \A s \in SUBSET S : IsFiniteSet(s) /\ Cardinality(s) \in Nat
  BY FS_Subset, FS_CardinalityType
<1>2. ASSUME bad # {} PROVE FALSE
  <2>1. bad \subseteq Nat
    BY <1>1
  <2>2. PICK m \in bad : \A k \in bad : m <= k
    BY <1>2, <2>1, LeastNat
  <2>3. PICK s \in SUBSET S : ~ Good(s) /\ Cardinality(s) = m
    BY <2>2
  <2>4. ASSUME NEW r \in SUBSET S, Cardinality(r) < m
        PROVE  Good(r)
    <3> HIDE DEF Good
    <3>1. ~ Good(r) => Cardinality(r) \in bad
      OBVIOUS
    <3>2. m \in Nat /\ Cardinality(r) \in Nat
      BY <1>1, <2>1
    <3> HIDE DEF bad
    <3> QED BY <2>2, <2>4, <3>1, <3>2, SMT
  <2> HIDE DEF bad
  <2>5. ASSUME NEW x \in s
        PROVE  s \ {x} \in SUBSET S /\ Good(s \ {x}) /\ f[x] \in Nat
    <3>1. Cardinality(s \ {x}) < m
      BY <1>1, <2>3, FS_RemoveElement, SMT
    <3> QED BY <2>4, <3>1
  <2>6. s # {}
    <3>1. s = {} => Total(f, s) = 0
      BY <1>1, SumPick DEF Total
    <3> QED BY <2>3, <3>1, SMT
  <2> DEFINE c == Pick(s)
  <2>7. c \in s /\ Total(f, s) = f[c] + Total(f, s \ {c})
    BY <1>1, <2>6, SumPick DEF Total, Pick
  <2> HIDE DEF c
  <2>8. ASSUME NEW x \in s, x # c
        PROVE  Total(f, s) = f[x] + Total(f, s \ {x})
    <3> DEFINE r == s \ {c, x}
    <3>1. (s \ {c}) \ {x} = r /\ (s \ {x}) \ {c} = r /\ x \in s \ {c} /\ c \in s \ {x}
      BY <2>7, <2>8
    <3>2. /\ Total(f, s \ {c}) = f[x] + Total(f, r) /\ Total(f, s \ {x}) = f[c] + Total(f, r)
          /\ f[x] \in Nat /\ f[c] \in Nat
      BY <2>5, <2>7, <3>1
    <3>3. Total(f, r) \in Nat
      <4>1. r \in SUBSET S /\ Cardinality(r) < m
        <5>1. Cardinality(s \ {c}) = m - 1 /\ IsFiniteSet(s \ {c}) /\ m \in Nat
          BY <1>1, <2>3, <2>7, FS_RemoveElement
        <5>2. Cardinality((s \ {c}) \ {x}) = (m - 1) - 1
          <6> DEFINE t == s \ {c}
          <6>1. x \in t /\ IsFiniteSet(t) /\ Cardinality(t) = m - 1
            BY <3>1, <5>1
          <6> HIDE DEF t
          <6>2. Cardinality(t \ {x}) = Cardinality(t) - 1
            BY <6>1, FS_RemoveElement
          <6> QED BY <6>1, <6>2 DEF t
        <5>3. Cardinality(r) = Cardinality((s \ {c}) \ {x})
          BY <3>1, Zenon
        <5> QED BY <5>1, <5>2, <5>3, SMT
      <4> QED BY <2>4, <4>1
    <3> QED BY <2>7, <3>2, <3>3, SMT
  <2>9. Total(f, s) \in Nat
    BY <2>5, <2>7, SMT
  <2> QED BY <2>3, <2>7, <2>8, <2>9
<1>3. Good(S)
  BY <1>2
<1> QED BY <1>3 DEF Total

\* A sum depends on the summands only.
LEMMA SumSame ==
  ASSUME NEW f, NEW g, NEW S, IsFiniteSet(S), \A x \in S : f[x] = g[x]
  PROVE  SumFunctionOnSet(f, S) = SumFunctionOnSet(g, S)
<1> DEFINE bad == {Cardinality(s) : s \in {s \in SUBSET S : Total(f, s) # Total(g, s)}}
<1>1. \A s \in SUBSET S : IsFiniteSet(s) /\ Cardinality(s) \in Nat
  BY FS_Subset, FS_CardinalityType
<1>2. ASSUME bad # {} PROVE FALSE
  <2>1. bad \subseteq Nat
    BY <1>1
  <2>2. PICK m \in bad : \A k \in bad : m <= k
    BY <1>2, <2>1, LeastNat
  <2>3. PICK s \in SUBSET S : Total(f, s) # Total(g, s) /\ Cardinality(s) = m
    BY <2>2
  <2>4. s # {}
    BY <2>3, FS_EmptySet, SumPick DEF Total
  <2> DEFINE c == Pick(s)
             r == s \ {c}
  <2>5. /\ c \in s /\ Cardinality(r) \in Nat /\ Cardinality(r) < m
        /\ Total(f, s) = f[c] + Total(f, r) /\ Total(g, s) = g[c] + Total(g, r)
    BY <1>1, <2>3, <2>4, PickFacts, SumPick, SMT DEF Total
  <2>6. Total(f, r) = Total(g, r)
    BY <1>1, <2>1, <2>2, <2>5, SMT
  <2> QED BY <2>3, <2>5, <2>6
<1> QED BY <1>2 DEF Total

At(f, S, x) == IF x \in S THEN f[x] ELSE 0

\* The summands of g over T are those of f over S, but for x.
Summable(f, S) == IsFiniteSet(S) /\ \A x \in S : f[x] \in Nat
SameBut(x, f, S, g, T) == T \ {x} = S \ {x} /\ \A y \in S \ {x} : g[y] = f[y]

\* How a sum changes when one summand is added, removed or changed.
LEMMA SumChange ==
  ASSUME NEW f, NEW S, Summable(f, S),
         NEW g, NEW T, NEW x, SameBut(x, f, S, g, T), x \in T => g[x] \in Nat
  PROVE  /\ SumFunctionOnSet(f, S) \in Nat /\ SumFunctionOnSet(g, T) \in Nat
         /\ At(f, S, x) \in Nat /\ At(g, T, x) \in Nat
         /\ SumFunctionOnSet(f, S) >= At(f, S, x)
         /\ SumFunctionOnSet(g, T) = SumFunctionOnSet(f, S) - At(f, S, x) + At(g, T, x)
<1> DEFINE r == S \ {x}
<1>0. /\ IsFiniteSet(S) /\ \A y \in S : f[y] \in Nat
      /\ T \ {x} = S \ {x} /\ \A y \in S \ {x} : g[y] = f[y]
  BY DEF Summable, SameBut
<1>1. IsFiniteSet(r) /\ IsFiniteSet(T) /\ \A y \in T : g[y] \in Nat
  <2>1. IsFiniteSet(r)
    BY <1>0, FS_RemoveElement
  <2>2. IsFiniteSet(r \union {x})
    BY <2>1, FS_AddElement
  <2>3. T \in SUBSET (r \union {x})
    BY <1>0
  <2> QED BY <1>0, <2>1, <2>2, <2>3, FS_Subset
<1>2. Total(f, r) \in Nat /\ Total(f, r) = Total(g, r)
  BY <1>0, <1>1, SumFacts, SumSame, SMT DEF Total
<1>3. Total(f, S) = At(f, S, x) + Total(f, r) /\ At(f, S, x) \in Nat
  <2>1. CASE x \in S
    BY <1>0, <2>1, SumFacts, SMT DEF Total, At
  <2>2. CASE x \notin S
    <3>1. S = r
      BY <2>2
    <3>2. Total(f, S) = Total(f, r)
      BY <3>1, Zenon
    <3> QED BY <1>2, <2>2, <3>2, SMT DEF At
  <2> QED BY <2>1, <2>2
<1>4. Total(g, T) = At(g, T, x) + Total(g, r) /\ At(g, T, x) \in Nat
  <2>1. CASE x \in T
    <3>1. T \ {x} = r
      BY <1>0
    <3>2. Total(g, T \ {x}) = Total(g, r)
      BY <3>1, Zenon
    <3> QED BY <1>1, <2>1, <3>2, SumFacts, SMT DEF Total, At
  <2>2. CASE x \notin T
    <3>1. T = r
      BY <1>0, <2>2
    <3>2. Total(g, T) = Total(g, r)
      BY <3>1, Zenon
    <3> QED BY <1>2, <2>2, <3>2, SMT DEF At
  <2> QED BY <2>1, <2>2
<1> QED BY <1>2, <1>3, <1>4, SMT DEF Total

\* A sum with one summand that is not zero.
LEMMA SumOne ==
  ASSUME NEW f, NEW S, IsFiniteSet(S), NEW x \in S, f[x] \in Nat,
         \A y \in S \ {x} : f[y] = 0
  PROVE  SumFunctionOnSet(f, S) = f[x]
<1> DEFINE z == [y \in S |-> 0]
           bad == {Cardinality(s) : s \in {s \in SUBSET S : Total(z, s) # 0}}
<1>1. \A s \in SUBSET S : IsFiniteSet(s) /\ Cardinality(s) \in Nat
  BY FS_Subset, FS_CardinalityType
<1>2. ASSUME bad # {} PROVE FALSE
  <2>1. bad \subseteq Nat
    BY <1>1
  <2>2. PICK m \in bad : \A k \in bad : m <= k
    BY <1>2, <2>1, LeastNat
  <2>3. PICK s \in SUBSET S : Total(z, s) # 0 /\ Cardinality(s) = m
    BY <2>2
  <2>4. s # {}
    BY <2>3, FS_EmptySet, SumPick DEF Total
  <2> DEFINE c == Pick(s)
             r == s \ {c}
  <2>5. /\ c \in s /\ Cardinality(r) \in Nat /\ Cardinality(r) < m
        /\ Total(z, s) = z[c] + Total(z, r)
    <3> HIDE DEF z
    <3> QED BY <1>1, <2>3, <2>4, PickFacts, SumPick, SMT DEF Total
  <2>6. Total(z, r) = 0
    BY <1>1, <2>1, <2>2, <2>5, SMT
  <2> QED BY <2>3, <2>5, <2>6, SMT
<1>3. Total(z, S) = 0
  BY <1>2
<1>4. Total(f, S) = Total(z, S) - At(z, S, x) + At(f, S, x)
  <2> HIDE DEF bad
  <2>1. \A y \in S : z[y] = 0
    OBVIOUS
  <2> HIDE DEF z
  <2>2. Summable(z, S) /\ SameBut(x, z, S, f, S)
    BY <2>1, SMT DEF Summable, SameBut
  <2> QED BY <2>2, SumChange, SMT DEF Total
<1> QED BY <1>3, <1>4, SMT DEF Total, At

-----------------------------------------------------------------------------
(* Bags of coins, and the packets that carry coins. *)

FiniteBag(B) == IsABag(B) /\ IsFiniteSet(BagToSet(B))

\* The coins in the bag that belong to the set K.
Part(B, K) == SumFunctionOnSet(B, BagToSet(B) \cap K)

\* n if k is in K.
Share(k, K, n) == IF k \in K THEN n ELSE 0

LEMMA BagFacts ==
  ASSUME NEW B, IsABag(B)
  PROVE  /\ \A x \in BagToSet(B) : B[x] \in Nat /\ B[x] > 0
         /\ \A x : AmountOf(x, B) \in Nat
BY SMT DEF IsABag, AmountOf, BagToSet

\* Coins that are put into a bag.
LEMMA BagAdd ==
  ASSUME NEW B, IsABag(B), NEW k, NEW n \in Nat \ {0}, NEW C, C = With(B, k, n)
  PROVE  /\ BagToSet(C) = BagToSet(B) \cup {k}
         /\ IsABag(C)
         /\ \A x \in BagToSet(C) : C[x] = AmountOf(x, B) + Share(x, {k}, n)
<1>1. /\ BagToSet(C) = BagToSet(B) \union {k}
      /\ \A x \in BagToSet(C) : C[x] = AmountOf(x, B) + Share(x, {k}, n)
  BY DEF With, AmountOf, BagToSet, Share
<1>2. C = [x \in BagToSet(C) |-> C[x]]
  BY DEF With, BagToSet
<1>3. IsABag(C)
  BY <1>1, <1>2, BagFacts, SMT DEF IsABag, AmountOf, BagToSet, Share
<1> QED BY <1>1, <1>3

\* Coins that are taken out of it.
LEMMA BagTake ==
  ASSUME NEW B, IsABag(B), NEW k, NEW n \in Nat \ {0}, AmountOf(k, B) >= n,
         NEW C, C = Without(B, k, n)
  PROVE  /\ k \in BagToSet(B)
         /\ BagToSet(C) \subseteq BagToSet(B)
         /\ BagToSet(B) \ {k} \subseteq BagToSet(C)
         /\ IsABag(C)
         /\ \A x \in BagToSet(B) : AmountOf(x, C) = B[x] - Share(x, {k}, n)
<1>1. \A x \in BagToSet(B) : B[x] \in Nat /\ B[x] > 0
  BY BagFacts
<1>2. /\ BagToSet(C) = {x \in BagToSet(B) : x = k => B[x] > n}
      /\ \A x \in BagToSet(C) : C[x] = B[x] - Share(x, {k}, n)
  BY <1>1, SMT DEF Without, BagToSet, Share
<1>3. C = [x \in BagToSet(C) |-> C[x]]
  BY DEF Without, BagToSet
<1>4. IsABag(C)
  BY <1>1, <1>2, <1>3, SMT DEF IsABag, AmountOf, BagToSet, Share
<1>5. k \in BagToSet(B)
  BY SMT DEF AmountOf
<1>6. \A x \in BagToSet(B) : AmountOf(x, C) = B[x] - Share(x, {k}, n)
  BY <1>1, <1>2, <1>5, SMT DEF AmountOf, Share
<1> QED BY <1>1, <1>2, <1>4, <1>5, <1>6

LEMMA PartAdd ==
  ASSUME NEW B, FiniteBag(B), NEW k, NEW n \in Nat \ {0}
  PROVE  LET C == With(B, k, n) IN
         /\ FiniteBag(C)
         /\ BagToSet(C) = BagToSet(B) \cup {k}
         /\ \A K : /\ Part(B, K) \in Nat /\ Part(C, K) \in Nat
                   /\ Part(C, K) = Part(B, K) + Share(k, K, n)
<1> DEFINE C == With(B, k, n)
<1>0. C = With(B, k, n)
  OBVIOUS
<1> HIDE DEF C
<1>1. /\ IsABag(C) /\ BagToSet(C) = BagToSet(B) \cup {k}
      /\ \A x \in BagToSet(C) : C[x] = AmountOf(x, B) + Share(x, {k}, n)
  <2>1. IsABag(B)
    BY DEF FiniteBag
  <2>2. IsABag(C)
    BY <1>0, <2>1, BagAdd
  <2>3. BagToSet(C) = BagToSet(B) \cup {k}
    BY <1>0, <2>1, BagAdd
  <2>4. ASSUME NEW x \in BagToSet(C)
        PROVE  C[x] = AmountOf(x, B) + Share(x, {k}, n)
    BY <1>0, <2>1, BagAdd, SMT
  <2> QED BY <2>2, <2>3, <2>4
<1>2. IsFiniteSet(BagToSet(B)) /\ IsFiniteSet(BagToSet(C))
  BY <1>1, FS_AddElement DEF FiniteBag
<1>3. ASSUME NEW K
      PROVE  /\ Part(B, K) \in Nat /\ Part(C, K) \in Nat
             /\ Part(C, K) = Part(B, K) + Share(k, K, n)
  <2> DEFINE S == BagToSet(B) \cap K
             T == BagToSet(C) \cap K
  <2>1. IsFiniteSet(S) /\ T \ {k} = S \ {k}
    BY <1>1, <1>2, FS_Intersection
  <2>2. \A y \in S : B[y] \in Nat
    BY BagFacts DEF FiniteBag
  <2>3. \A y \in S \ {k} : C[y] = B[y]
    BY <1>1, <2>2, SMT DEF AmountOf, Share
  <2>4. k \in T => C[k] \in Nat
    BY <1>1, BagFacts
  <2>0. Summable(B, S) /\ SameBut(k, B, S, C, T)
    BY <2>1, <2>2, <2>3 DEF Summable, SameBut
  <2>5. At(C, T, k) = At(B, S, k) + Share(k, K, n) /\ At(B, S, k) \in Nat
    BY <1>1, <2>2, SMT DEF At, Share, AmountOf
  <2> HIDE DEF S, T
  <2>6. /\ Total(B, S) \in Nat /\ Total(C, T) \in Nat
        /\ Total(C, T) = Total(B, S) - At(B, S, k) + At(C, T, k)
    BY <2>0, <2>4, SumChange, SMT DEF Total
  <2>7. Total(C, T) = Total(B, S) + Share(k, K, n)
    BY <2>5, <2>6, SMT DEF Share
  <2> QED BY <2>6, <2>7 DEF Total, Part, S, T
<1> QED BY <1>0, <1>1, <1>2, <1>3 DEF FiniteBag

LEMMA PartTake ==
  ASSUME NEW B, FiniteBag(B), NEW k, NEW n \in Nat \ {0}, AmountOf(k, B) >= n
  PROVE  LET C == Without(B, k, n) IN
         /\ FiniteBag(C)
         /\ k \in BagToSet(B)
         /\ BagToSet(C) \subseteq BagToSet(B)
         /\ \A K : /\ Part(B, K) \in Nat /\ Part(C, K) \in Nat
                   /\ Part(C, K) = Part(B, K) - Share(k, K, n)
<1> DEFINE C == Without(B, k, n)
<1>0. C = Without(B, k, n)
  OBVIOUS
<1> HIDE DEF C
<1>1. /\ IsABag(C) /\ k \in BagToSet(B)
      /\ BagToSet(C) \subseteq BagToSet(B) /\ BagToSet(B) \ {k} \subseteq BagToSet(C)
      /\ \A x \in BagToSet(B) : AmountOf(x, C) = B[x] - Share(x, {k}, n)
  BY <1>0, BagTake, SMT DEF FiniteBag
<1>2. IsFiniteSet(BagToSet(B)) /\ IsFiniteSet(BagToSet(C))
  BY <1>1, FS_Subset DEF FiniteBag
<1>3. ASSUME NEW K
      PROVE  /\ Part(B, K) \in Nat /\ Part(C, K) \in Nat
             /\ Part(C, K) = Part(B, K) - Share(k, K, n)
  <2> DEFINE S == BagToSet(B) \cap K
             T == BagToSet(C) \cap K
  <2>1. IsFiniteSet(S) /\ T \ {k} = S \ {k}
    BY <1>1, <1>2, FS_Intersection
  <2>2. \A y \in BagToSet(B) : B[y] \in Nat
    BY BagFacts DEF FiniteBag
  <2>3. \A y \in S \ {k} : C[y] = B[y]
    BY <1>1, <2>2, SMT DEF AmountOf, Share
  <2>4. k \in T => C[k] \in Nat
    BY <1>1, BagFacts
  <2>0. Summable(B, S) /\ SameBut(k, B, S, C, T)
    BY <2>1, <2>2, <2>3 DEF Summable, SameBut
  <2>5. At(C, T, k) = At(B, S, k) - Share(k, K, n) /\ At(B, S, k) \in Nat
    BY <1>1, <2>2, SMT DEF At, Share, AmountOf
  <2> HIDE DEF S, T
  <2>6. /\ Total(B, S) \in Nat /\ Total(C, T) \in Nat
        /\ Total(C, T) = Total(B, S) - At(B, S, k) + At(C, T, k)
    BY <2>0, <2>4, SumChange, SMT DEF Total
  <2>7. Total(C, T) = Total(B, S) - Share(k, K, n)
    BY <2>5, <2>6, SMT DEF Share
  <2> QED BY <2>6, <2>7 DEF Total, Part, S, T
<1> QED BY <1>0, <1>1, <1>2, <1>3 DEF FiniteBag

\* The coins of one kind.
LEMMA PartOne ==
  ASSUME NEW B, FiniteBag(B), NEW k
  PROVE  Part(B, {k}) = AmountOf(k, B) /\ AmountOf(k, B) \in Nat
<1> DEFINE S == BagToSet(B) \cap {k}
<1>1. IsFiniteSet(S) /\ \A x \in S : B[x] \in Nat
  BY FS_Intersection, BagFacts DEF FiniteBag
<1>2. CASE k \in BagToSet(B)
  <2>1. k \in S /\ \A y \in S \ {k} : B[y] = 0
    BY <1>2
  <2>2. Total(B, S) = B[k]
    BY <1>1, <2>1, SumOne DEF Total
  <2> QED BY <1>1, <1>2, <2>1, <2>2 DEF Part, Total, AmountOf
<1>3. CASE k \notin BagToSet(B)
  <2>1. S = {}
    BY <1>3
  <2>2. Total(B, S) = 0
    BY <1>1, <2>1, SumPick DEF Total
  <2> QED BY <1>3, <2>2 DEF Part, Total, AmountOf
<1> QED BY <1>2, <1>3

Flown == {"sent", "failed"}

\* The coins in denominations of D that the packets of one end carry.
Carried(packets, state, D) ==
  SumFunctionOnSet([s \in DOMAIN packets |-> packets[s].amount],
                   {s \in DOMAIN packets : packets[s].denom \in D /\ state[s] \in Flown})

\* The status of the next packet becomes "sent".
SendsNext(packets, state, state2) ==
  /\ state2[Len(packets) + 1] = "sent"
  /\ \A s \in 1 .. Len(packets) : state2[s] = state[s]

HaveAmounts(T) == \A x \in T : x.amount \in Nat

\* A packet that is sent carries its coins.
LEMMA CarriedMore ==
  ASSUME NEW T, HaveAmounts(T), NEW packets \in Seq(T), NEW data \in T,
         NEW state, NEW state2, SendsNext(packets, state, state2)
  PROVE  \A D : /\ Carried(packets, state, D) \in Nat
                /\ Carried(Append(packets, data), state2, D) \in Nat
                /\ Carried(Append(packets, data), state2, D)
                     = Carried(packets, state, D) + Share(data.denom, D, data.amount)
<1> TAKE D
<1> USE DEF HaveAmounts
<1> DEFINE more == Append(packets, data)
           k == Len(packets) + 1
           f == [s \in DOMAIN packets |-> packets[s].amount]
           g == [s \in DOMAIN more |-> more[s].amount]
           S == {s \in DOMAIN packets : packets[s].denom \in D /\ state[s] \in Flown}
           U == {s \in DOMAIN more : more[s].denom \in D /\ state2[s] \in Flown}
<1>1. /\ Len(packets) \in Nat /\ DOMAIN packets = 1 .. Len(packets)
      /\ DOMAIN more = DOMAIN packets \cup {k} /\ k \notin DOMAIN packets
      /\ more[k] = data /\ \A s \in DOMAIN packets : more[s] = packets[s] /\ packets[s] \in T
  BY SMT
<1> HIDE DEF more, k
<1>2. /\ f = [s \in DOMAIN packets |-> packets[s].amount]
      /\ \A s \in DOMAIN packets : f[s] \in Nat /\ g[s] = f[s]
      /\ g[k] = data.amount /\ data.amount \in Nat
  BY <1>1
<1>3. IsFiniteSet(DOMAIN packets)
  BY <1>1, FS_Interval, SMT
<1>4. IsFiniteSet(S)
  BY <1>3, FS_Subset
<1>5. S \subseteq DOMAIN packets /\ k \notin S
  BY <1>1
<1>6. U = S \cup (IF data.denom \in D THEN {k} ELSE {})
  BY <1>1 DEF Flown, k, SendsNext
<1> HIDE DEF f, g, S, U
<1>7. Summable(f, S) /\ SameBut(k, f, S, g, U) /\ (k \in U => g[k] \in Nat)
  BY <1>2, <1>4, <1>5, <1>6 DEF Summable, SameBut
<1>8. /\ Total(f, S) \in Nat /\ Total(g, U) \in Nat
      /\ Total(g, U) = Total(f, S) - At(f, S, k) + At(g, U, k)
  BY <1>7, SumChange, SMT DEF Total
<1>9. At(f, S, k) = 0 /\ At(g, U, k) = Share(data.denom, D, data.amount)
  BY <1>2, <1>5, <1>6 DEF At, Share
<1>10. Total(g, U) = Total(f, S) + Share(data.denom, D, data.amount)
  BY <1>2, <1>8, <1>9, SMT DEF Share
<1>11. Carried(packets, state, D) = Total(f, S) /\ Carried(more, state2, D) = Total(g, U)
  BY DEF Carried, Total, f, g, S, U
<1> QED BY <1>8, <1>10, <1>11 DEF more

\* Its coins have arrived or are returned.
LEMMA CarriedLess ==
  ASSUME NEW T, \A x \in T : x.amount \in Nat, NEW packets \in Seq(T),
         NEW k \in DOMAIN packets, NEW state, state[k] \in Flown,
         NEW state2, state2[k] \notin Flown,
         \A s \in DOMAIN packets \ {k} : state2[s] = state[s]
  PROVE  \A D : /\ Carried(packets, state, D) \in Nat
                /\ Carried(packets, state2, D) \in Nat
                /\ Carried(packets, state2, D)
                     = Carried(packets, state, D) - Share(packets[k].denom, D, packets[k].amount)
<1> TAKE D
<1> DEFINE f == [s \in DOMAIN packets |-> packets[s].amount]
           S == {s \in DOMAIN packets : packets[s].denom \in D /\ state[s] \in Flown}
           U == {s \in DOMAIN packets : packets[s].denom \in D /\ state2[s] \in Flown}
<1>1. \A s \in DOMAIN packets : f[s] \in Nat /\ f[s] = packets[s].amount
  BY SMT
<1>2. IsFiniteSet(DOMAIN packets)
  BY FS_Interval, SMT
<1>3. IsFiniteSet(S)
  BY <1>2, FS_Subset
<1>4. /\ U = S \ {k} /\ S \subseteq DOMAIN packets /\ (k \in S <=> packets[k].denom \in D)
  BY SMT
<1> HIDE DEF f, S, U
<1>5. Summable(f, S) /\ SameBut(k, f, S, f, U) /\ (k \in U => f[k] \in Nat)
  BY <1>1, <1>3, <1>4 DEF Summable, SameBut
<1>6. /\ Total(f, S) \in Nat /\ Total(f, U) \in Nat
      /\ Total(f, U) = Total(f, S) - At(f, S, k) + At(f, U, k)
  BY <1>5, SumChange, SMT DEF Total
<1>7. At(f, U, k) = 0 /\ At(f, S, k) = Share(packets[k].denom, D, packets[k].amount)
  BY <1>1, <1>4 DEF At, Share
<1>8. Total(f, U) = Total(f, S) - Share(packets[k].denom, D, packets[k].amount)
  BY <1>1, <1>6, <1>7, SMT DEF Share
<1>9. Carried(packets, state, D) = Total(f, S) /\ Carried(packets, state2, D) = Total(f, U)
  BY DEF Carried, Total, f, S, U
<1> QED BY <1>6, <1>8, <1>9

LEMMA CarriedSame ==
  ASSUME NEW packets, NEW state, NEW state2,
         \A s \in DOMAIN packets : state2[s] \in Flown <=> state[s] \in Flown
  PROVE  \A D : Carried(packets, state2, D) = Carried(packets, state, D)
<1> TAKE D
<1>1. {s \in DOMAIN packets : packets[s].denom \in D /\ state[s] \in Flown}
        = {s \in DOMAIN packets : packets[s].denom \in D /\ state2[s] \in Flown}
  OBVIOUS
<1> QED BY <1>1, Zenon DEF Carried

LEMMA CarriedNat ==
  ASSUME NEW T, \A x \in T : x.amount \in Nat, NEW packets \in Seq(T), NEW state
  PROVE  \A D : Carried(packets, state, D) \in Nat
<1> TAKE D
<1> DEFINE f == [s \in DOMAIN packets |-> packets[s].amount]
           S == {s \in DOMAIN packets : packets[s].denom \in D /\ state[s] \in Flown}
<1>1. IsFiniteSet(DOMAIN packets)
  BY FS_Interval, SMT
<1>2. IsFiniteSet(S) /\ \A s \in S : f[s] \in Nat
  BY <1>1, FS_Subset, SMT
<1>3. Total(f, S) \in Nat
  <2> HIDE DEF f, S
  <2> QED BY <1>2, SumFacts DEF Total
<1> QED BY <1>3 DEF Total, Carried

-----------------------------------------------------------------------------
(* Types.  A denomination on a chain is never one hop out and back. *)

Denominations == [path : Seq({Hop(e) : e \in Ends}), base : Bases]

ValidDenoms(c) ==
  {d \in Denominations :
     /\ Len(d.path) <= MaxHops
     /\ \/ d.path = <<>>
        \/ \E f \in Ends : /\ f.chain = c /\ Head(d.path) = Hop(f)
                           /\ SenderChainIsSource(Link[f], Unprefixed(d))}

PacketData(e) ==
  [denom : {d \in ValidDenoms(e.chain) :
              Len(d.path) < MaxHops \/ ReceiverChainIsSource(e, d)},
   amount : Amounts, sender : {Account(u) : u \in Users},
   receiver : Receivers[Link[e].chain]]

BankOK(c, B) == FiniteBag(B) /\ BagToSet(B) \subseteq Accounts(c) \X ValidDenoms(c)
GiftsOK(B) == FiniteBag(B) /\ BagToSet(B) \subseteq Denominations
PacketsOK(e, packets, state) ==
  /\ packets \in Seq(PacketData(e)) /\ Len(packets) <= MaxSequence
  /\ state \in [1 .. MaxSequence -> Channel!Statuses]
  /\ \A s \in 1 .. MaxSequence : s \in DOMAIN packets <=> state[s] # "unsent"

Types ==
  /\ DOMAIN bank = Chains /\ DOMAIN gifts = Ends /\ DOMAIN sent = Ends
  /\ status \in [Ends -> [1 .. MaxSequence -> Channel!Statuses]]
  /\ enabled \in [Chains -> [send : BOOLEAN, receive : BOOLEAN]]
  /\ DOMAIN traces = Chains
  /\ \A c \in Chains : BankOK(c, bank[c])
  /\ \A e \in Ends : GiftsOK(gifts[e]) /\ PacketsOK(e, sent[e], status[e])

\* The invariant that is checked and the one that is proved.
LEMMA TypesAreOK == Types => TypeOK
<1> SUFFICES ASSUME Types PROVE TypeOK
  OBVIOUS
<1>1. ASSUME NEW c \in Chains
      PROVE  /\ IsABag(bank[c])
             /\ enabled[c] \in [send : BOOLEAN, receive : BOOLEAN]
  BY DEF Types, BankOK, FiniteBag
<1>2. ASSUME NEW c \in Chains, NEW key \in BagToSet(bank[c])
      PROVE  /\ key[1] \in Accounts(c)
             /\ key[2].base \in Bases
             /\ Len(key[2].path) <= MaxHops
             /\ key[2].path = <<>> \/ Head(key[2].path) \in Hops(c)
  <2>1. key[1] \in Accounts(c) /\ key[2] \in ValidDenoms(c)
    BY DEF Types, BankOK
  <2> QED BY <2>1 DEF ValidDenoms, Denominations, Hops
<1>3. \A e \in Ends, s \in 1 .. MaxSequence :
        s \in DOMAIN sent[e] <=> status[e][s] # "unsent"
  BY DEF Types, PacketsOK
<1> QED BY <1>1, <1>2, <1>3 DEF TypeOK, Types

LEMMA AmountFacts ==
  ASSUME NEW e \in Ends
  PROVE  /\ Amounts \subseteq Nat \ {0}
         /\ \A x \in PacketData(e) : x.amount \in Nat
         /\ e.chain \in Chains /\ Link[e] \in Ends /\ Link[e].chain \in Chains
         /\ Link[Link[e]] = e
BY TransferAssumptions DEF PacketData, Chains

\* What the bank's operations do to the coins of a chain.
Moved(B, from, to, denom, amount) ==
  With(Without(B, <<from, denom>>, amount), <<to, denom>>, amount)
Burnt(B, from, denom, amount) == Without(B, <<from, denom>>, amount)
Minted(B, to, denom, amount) == With(B, <<to, denom>>, amount)

LEMMA BurntFacts ==
  ASSUME NEW c, NEW B, BankOK(c, B), NEW from, NEW d, NEW n \in Nat \ {0},
         AmountOf(<<from, d>>, B) >= n
  PROVE  /\ BankOK(c, Burnt(B, from, d, n))
         /\ d \in ValidDenoms(c) /\ <<from, d>> \in BagToSet(B)
         /\ BagToSet(Burnt(B, from, d, n)) \subseteq BagToSet(B)
         /\ \A K : /\ Part(B, K) \in Nat /\ Part(Burnt(B, from, d, n), K) \in Nat
                   /\ Part(Burnt(B, from, d, n), K) = Part(B, K) - Share(<<from, d>>, K, n)
<1> DEFINE C == Without(B, <<from, d>>, n)
<1>1. /\ FiniteBag(C) /\ BagToSet(C) \subseteq BagToSet(B) /\ <<from, d>> \in BagToSet(B)
      /\ \A K : /\ Part(B, K) \in Nat /\ Part(C, K) \in Nat
                /\ Part(C, K) = Part(B, K) - Share(<<from, d>>, K, n)
  BY PartTake DEF BankOK
<1>2. Burnt(B, from, d, n) = C
  BY DEF Burnt
<1> HIDE DEF C
<1> QED BY <1>1, <1>2 DEF BankOK

LEMMA MintedFacts ==
  ASSUME NEW c, NEW B, BankOK(c, B), NEW to \in Accounts(c), NEW d \in ValidDenoms(c),
         NEW n \in Nat \ {0}
  PROVE  /\ BankOK(c, Minted(B, to, d, n))
         /\ BagToSet(Minted(B, to, d, n)) = BagToSet(B) \cup {<<to, d>>}
         /\ \A K : /\ Part(B, K) \in Nat /\ Part(Minted(B, to, d, n), K) \in Nat
                   /\ Part(Minted(B, to, d, n), K) = Part(B, K) + Share(<<to, d>>, K, n)
<1> DEFINE C == With(B, <<to, d>>, n)
<1>1. /\ FiniteBag(C) /\ BagToSet(C) = BagToSet(B) \cup {<<to, d>>}
      /\ \A K : /\ Part(B, K) \in Nat /\ Part(C, K) \in Nat
                /\ Part(C, K) = Part(B, K) + Share(<<to, d>>, K, n)
  BY PartAdd, SMT DEF BankOK
<1>2. Minted(B, to, d, n) = C
  BY DEF Minted
<1> HIDE DEF C
<1> QED BY <1>1, <1>2, SMT DEF BankOK

LEMMA MovedFacts ==
  ASSUME NEW c, NEW B, BankOK(c, B), NEW from, NEW to \in Accounts(c), NEW d,
         NEW n \in Nat \ {0}, AmountOf(<<from, d>>, B) >= n
  PROVE  /\ BankOK(c, Moved(B, from, to, d, n))
         /\ d \in ValidDenoms(c) /\ <<from, d>> \in BagToSet(B)
         /\ BagToSet(Moved(B, from, to, d, n)) \subseteq BagToSet(B) \cup {<<to, d>>}
         /\ \A K : /\ Part(B, K) \in Nat /\ Part(Moved(B, from, to, d, n), K) \in Nat
                   /\ Part(Moved(B, from, to, d, n), K) =
                        Part(B, K) - Share(<<from, d>>, K, n) + Share(<<to, d>>, K, n)
<1> DEFINE C == Burnt(B, from, d, n)
<1>1. /\ BankOK(c, C) /\ d \in ValidDenoms(c) /\ <<from, d>> \in BagToSet(B)
      /\ BagToSet(C) \subseteq BagToSet(B)
      /\ \A K : /\ Part(B, K) \in Nat /\ Part(C, K) \in Nat
                /\ Part(C, K) = Part(B, K) - Share(<<from, d>>, K, n)
  BY BurntFacts, SMT
<1>2. Moved(B, from, to, d, n) = Minted(C, to, d, n)
  BY DEF Moved, Minted, Burnt
<1> HIDE DEF C
<1>3. /\ BankOK(c, Minted(C, to, d, n))
      /\ BagToSet(Minted(C, to, d, n)) = BagToSet(C) \cup {<<to, d>>}
      /\ \A K : /\ Part(C, K) \in Nat /\ Part(Minted(C, to, d, n), K) \in Nat
                /\ Part(Minted(C, to, d, n), K) = Part(C, K) + Share(<<to, d>>, K, n)
  BY <1>1, MintedFacts, SMT
<1> QED BY <1>1, <1>2, <1>3

-----------------------------------------------------------------------------
(* What the steps do to the coins. *)

\* The packets of end e carry n more coins of denomination d; n may be negative.
Flow(e, d, n) ==
  \A g \in Ends : \A D :
    /\ Carried(sent[g], status[g], D) \in Nat /\ Carried(sent'[g], status'[g], D) \in Nat
    /\ Carried(sent'[g], status'[g], D)
         = Carried(sent[g], status[g], D) + (IF g = e THEN Share(d, D, n) ELSE 0)

\* Account a sends n coins of denomination d through end e, or gets them back
\* when n is negative.
BankLocal(e, a, d, n) ==
  \A x \in Chains : \A K :
    /\ Part(bank[x], K) \in Nat /\ Part(bank'[x], K) \in Nat
    /\ Part(bank'[x], K) = Part(bank[x], K) +
         (IF x # e.chain THEN 0
          ELSE (IF SenderChainIsSource(e, d) THEN Share(<<Hop(e), d>>, K, n) ELSE 0)
                 - Share(<<a, d>>, K, n))

Local(e, a, d, n) ==
  BankLocal(e, a, d, n) /\ Flow(e, d, n) /\ gifts' = gifts

\* Account a receives n coins of denomination d from end e.
BankRemote(e, a, d, n) ==
  LET f == Link[e]
      r == ReceivedDenom(e, f, d)
  IN  \A x \in Chains : \A K :
        /\ Part(bank[x], K) \in Nat /\ Part(bank'[x], K) \in Nat
        /\ Part(bank'[x], K) = Part(bank[x], K) +
             (IF x # f.chain THEN 0
              ELSE Share(<<a, r>>, K, n) -
                (IF ReceiverChainIsSource(e, d) THEN Share(<<Hop(f), r>>, K, n) ELSE 0))

GiftsRemote(e, a, d, n) ==
  LET f == Link[e] IN
  \A g \in Ends : \A D :
    /\ Part(gifts[g], D) \in Nat /\ Part(gifts'[g], D) \in Nat
    /\ Part(gifts'[g], D) = Part(gifts[g], D) +
         (IF g.chain = f.chain /\ Hop(g) = a THEN Share(ReceivedDenom(e, f, d), D, n) ELSE 0)

Remote(e, a, d, n) ==
  BankRemote(e, a, d, n) /\ GiftsRemote(e, a, d, n) /\ Flow(e, d, -n)

Still ==
  /\ bank' = bank /\ gifts' = gifts
  /\ \A g \in Ends : \A D : Carried(sent'[g], status'[g], D) = Carried(sent[g], status[g], D)

\* The status of a packet that has been sent changes.
LEMMA StatusTypes ==
  ASSUME Types, NEW e \in Ends, NEW s \in DOMAIN sent[e],
         NEW to \in Channel!Statuses \ {"unsent"},
         status' = [status EXCEPT ![e][s] = to], sent' = sent
  PROVE  /\ s \in 1 .. MaxSequence
         /\ status' \in [Ends -> [1 .. MaxSequence -> Channel!Statuses]]
         /\ \A g \in Ends : PacketsOK(g, sent'[g], status'[g])
<1>1. /\ sent[e] \in Seq(PacketData(e)) /\ Len(sent[e]) <= MaxSequence
      /\ Len(sent[e]) \in Nat /\ MaxSequence \in Nat
  BY TransferAssumptions, SMT DEF Types, PacketsOK
<1>2. s \in 1 .. MaxSequence
  BY <1>1, SMT
<1>3. status' \in [Ends -> [1 .. MaxSequence -> Channel!Statuses]]
  BY <1>2 DEF Types
<1>4. ASSUME NEW g \in Ends
      PROVE  PacketsOK(g, sent'[g], status'[g])
  <2>1. PacketsOK(g, sent[g], status[g])
    BY DEF Types
  <2>2. CASE g # e
    <3>1. status'[g] = status[g]
      BY <2>2 DEF Types
    <3> QED BY <2>1, <3>1
  <2>3. CASE g = e
    <3>1. \A t \in 1 .. MaxSequence : status'[e][t] = IF t = s THEN to ELSE status[e][t]
      BY <1>2 DEF Types
    <3>2. status'[e] \in [1 .. MaxSequence -> Channel!Statuses]
      BY <1>3
    <3>3. status[e][s] # "unsent"
      BY <1>2, <2>1, <2>3 DEF PacketsOK
    <3> QED BY <2>1, <2>3, <3>1, <3>2, <3>3 DEF PacketsOK
  <2> QED BY <2>2, <2>3
<1> QED BY <1>2, <1>3, <1>4

LEMMA StatusFlow ==
  ASSUME Types, NEW e \in Ends, NEW s \in DOMAIN sent[e],
         NEW to \in Channel!Statuses \ {"unsent"},
         status' = [status EXCEPT ![e][s] = to], sent' = sent
  PROVE  /\ status[e][s] \in Flown /\ to \notin Flown
              => Flow(e, sent[e][s].denom, -sent[e][s].amount)
         /\ (status[e][s] \in Flown <=> to \in Flown)
              => \A g \in Ends : \A D : Carried(sent'[g], status'[g], D) = Carried(sent[g], status[g], D)
<1>1. s \in 1 .. MaxSequence
  BY StatusTypes
<1>2. \A g \in Ends \ {e} : status'[g] = status[g]
  BY DEF Types
<1>3. \A t \in 1 .. MaxSequence : status'[e][t] = IF t = s THEN to ELSE status[e][t]
  BY <1>1 DEF Types
<1>4. \A g \in Ends : sent[g] \in Seq(PacketData(g)) /\ DOMAIN sent[g] \subseteq 1 .. MaxSequence
  <2> TAKE g \in Ends
  <2>1. sent[g] \in Seq(PacketData(g)) /\ Len(sent[g]) <= MaxSequence /\ MaxSequence \in Nat
    BY TransferAssumptions DEF Types, PacketsOK
  <2> QED BY <2>1, SMT
<1>5. ASSUME NEW g \in Ends, NEW D
      PROVE  Carried(sent[g], status[g], D) \in Nat
  BY <1>4, AmountFacts, CarriedNat
<1>6. ASSUME status[e][s] \in Flown, to \notin Flown
      PROVE  Flow(e, sent[e][s].denom, -sent[e][s].amount)
  <2>1. sent[e] \in Seq(PacketData(e)) /\ \A x \in PacketData(e) : x.amount \in Nat
    BY <1>4, AmountFacts
  <2>2. status'[e][s] \notin Flown /\ \A t \in DOMAIN sent[e] \ {s} : status'[e][t] = status[e][t]
    BY <1>1, <1>3, <1>4, <1>6
  <2>3. \A D : /\ Carried(sent[e], status[e], D) \in Nat
               /\ Carried(sent[e], status'[e], D) \in Nat
               /\ Carried(sent[e], status'[e], D)
                    = Carried(sent[e], status[e], D) - Share(sent[e][s].denom, D, sent[e][s].amount)
    <3> DEFINE st == status[e]
               su == status'[e]
    <3>1. st[s] \in Flown /\ su[s] \notin Flown /\ \A t \in DOMAIN sent[e] \ {s} : su[t] = st[t]
      BY <1>6, <2>2
    <3> HIDE DEF st, su
    <3>2. \A D : /\ Carried(sent[e], st, D) \in Nat
                 /\ Carried(sent[e], su, D) \in Nat
                 /\ Carried(sent[e], su, D)
                      = Carried(sent[e], st, D) - Share(sent[e][s].denom, D, sent[e][s].amount)
      BY <2>1, <3>1, CarriedLess, SMT
    <3> QED BY <3>2 DEF st, su
  <2>4. sent[e][s].amount \in Nat
    BY <2>1, SMT
  <2>5. \A D : Share(sent[e][s].denom, D, -sent[e][s].amount)
                 = -Share(sent[e][s].denom, D, sent[e][s].amount)
               /\ Share(sent[e][s].denom, D, sent[e][s].amount) \in Nat
    BY <2>4, SMT DEF Share
  <2>6. ASSUME NEW g \in Ends, NEW D
        PROVE  /\ Carried(sent[g], status[g], D) \in Nat
               /\ Carried(sent'[g], status'[g], D) \in Nat
               /\ Carried(sent'[g], status'[g], D) = Carried(sent[g], status[g], D) +
                    (IF g = e THEN Share(sent[e][s].denom, D, -sent[e][s].amount) ELSE 0)
    <3>1. CASE g # e
      <4>1. Carried(sent'[g], status'[g], D) = Carried(sent[g], status[g], D)
        BY <1>2, <3>1
      <4> QED BY <1>5, <3>1, <4>1, SMT
    <3>2. CASE g = e
      BY <2>3, <2>5, <3>2
    <3> QED BY <3>1, <3>2
  <2> QED BY <2>6 DEF Flow
<1>7. ASSUME status[e][s] \in Flown <=> to \in Flown, NEW g \in Ends, NEW D
      PROVE  Carried(sent'[g], status'[g], D) = Carried(sent[g], status[g], D)
  <2>1. CASE g # e
    BY <1>2, <2>1
  <2>2. CASE g = e
    <3>1. \A t \in DOMAIN sent[e] : status'[e][t] \in Flown <=> status[e][t] \in Flown
      BY <1>3, <1>4, <1>7
    <3> DEFINE st == status[e]
               su == status'[e]
    <3>2. \A t \in DOMAIN sent[e] : su[t] \in Flown <=> st[t] \in Flown
      BY <3>1
    <3> HIDE DEF st, su
    <3>3. Carried(sent[e], su, D) = Carried(sent[e], st, D)
      BY <3>2, CarriedSame
    <3> QED BY <2>2, <3>3 DEF st, su
  <2> QED BY <2>1, <2>2
<1> QED BY <1>6, <1>7

LEMMA PartNat ==
  ASSUME NEW B, FiniteBag(B)
  PROVE  \A K : Part(B, K) \in Nat
<1> TAKE K
<1> DEFINE S == BagToSet(B) \cap K
<1>1. IsFiniteSet(S) /\ \A x \in S : B[x] \in Nat
  BY BagFacts, FS_Intersection DEF FiniteBag
<1> HIDE DEF S
<1>2. Total(B, S) \in Nat
  BY <1>1, SumFacts DEF Total
<1> QED BY <1>2 DEF Total, Part, S

LEMMA BankChange ==
  ASSUME Types, NEW c \in Chains, NEW C, BankOK(c, C), bank' = [bank EXCEPT ![c] = C]
  PROVE  /\ DOMAIN bank' = Chains
         /\ \A x \in Chains : BankOK(x, bank'[x])
         /\ bank'[c] = C /\ \A x \in Chains \ {c} : bank'[x] = bank[x]
         /\ \A x \in Chains : \A K : Part(bank[x], K) \in Nat /\ Part(bank'[x], K) \in Nat
<1>1. /\ DOMAIN bank' = Chains
      /\ bank'[c] = C /\ \A x \in Chains \ {c} : bank'[x] = bank[x]
  BY DEF Types
<1>2. \A x \in Chains : BankOK(x, bank[x]) /\ BankOK(x, bank'[x])
  BY <1>1 DEF Types
<1>3. \A x \in Chains : \A K : Part(bank[x], K) \in Nat /\ Part(bank'[x], K) \in Nat
  BY <1>2, PartNat DEF BankOK
<1> QED BY <1>1, <1>2, <1>3

LEMMA ShareFacts ==
  ASSUME NEW k, NEW K, NEW n \in Nat
  PROVE  Share(k, K, n) \in Nat /\ Share(k, K, -n) = -Share(k, K, n)
BY SMT DEF Share

LEMMA AccountFacts ==
  ASSUME NEW e \in Ends
  PROVE  /\ \A u \in Users : Account(u) \in Accounts(e.chain)
         /\ Hop(e) \in Accounts(e.chain)
BY DEF Accounts, Owners, Escrows, GetEscrowAddress

LEMMA EscrowOrBurnFacts ==
  ASSUME Types, NEW e \in Ends, NEW u \in Users, NEW d, NEW n \in Amounts,
         EscrowOrBurn(e, Account(u), d, n)
  PROVE  /\ DOMAIN bank' = Chains /\ \A x \in Chains : BankOK(x, bank'[x])
         /\ d \in ValidDenoms(e.chain)
         /\ \A x \in Chains : \A key \in BagToSet(bank'[x]) :
              \E old \in BagToSet(bank[x]) : old[2] = key[2]
         /\ BankLocal(e, Account(u), d, n)
<1> DEFINE c == e.chain
           a == Account(u)
           B == bank[c]
<1>1. /\ c \in Chains /\ n \in Nat \ {0} /\ BankOK(c, B)
      /\ a \in Accounts(c) /\ Hop(e) \in Accounts(c)
  BY AmountFacts, AccountFacts DEF Types
<1>2. CASE SenderChainIsSource(e, d)
  <2> DEFINE C == Moved(B, a, Hop(e), d, n)
  <2>1. AmountOf(<<a, d>>, B) >= n /\ bank' = [bank EXCEPT ![c] = C]
    BY <1>2 DEF EscrowOrBurn, SendCoins, Balance, Moved, GetEscrowAddress, SenderChainIsSource
  <2> HIDE DEF B, c, a
  <2>2. /\ BankOK(c, C) /\ d \in ValidDenoms(c) /\ <<a, d>> \in BagToSet(B)
        /\ BagToSet(C) \subseteq BagToSet(B) \cup {<<Hop(e), d>>}
        /\ \A K : Part(C, K) = Part(B, K) - Share(<<a, d>>, K, n) + Share(<<Hop(e), d>>, K, n)
    BY <1>1, <2>1, MovedFacts, SMT
  <2> HIDE DEF C
  <2>3. /\ DOMAIN bank' = Chains /\ \A x \in Chains : BankOK(x, bank'[x])
        /\ bank'[c] = C /\ \A x \in Chains \ {c} : bank'[x] = bank[x]
        /\ \A x \in Chains : \A K : Part(bank[x], K) \in Nat /\ Part(bank'[x], K) \in Nat
    BY <1>1, <2>1, <2>2, BankChange
  <2>4. \A key \in BagToSet(C) : \E old \in BagToSet(B) : old[2] = key[2]
    BY <2>2, SMT
  <2>5. BankLocal(e, a, d, n)
    <3> SUFFICES ASSUME NEW x \in Chains, NEW K
                 PROVE  Part(bank'[x], K) = Part(bank[x], K) +
                          (IF x # e.chain THEN 0
                           ELSE Share(<<Hop(e), d>>, K, n) - Share(<<a, d>>, K, n))
      BY <1>2, <2>3 DEF BankLocal
    <3>1. Share(<<a, d>>, K, n) \in Nat /\ Share(<<Hop(e), d>>, K, n) \in Nat
      BY <1>1, ShareFacts
    <3>2. CASE x # c
      BY <2>3, <3>2, SMT DEF c
    <3>3. CASE x = c
      BY <2>2, <2>3, <3>1, <3>3, SMT DEF c, B
    <3> QED BY <3>2, <3>3
  <2> QED BY <2>2, <2>3, <2>4, <2>5 DEF a, B, c
<1>3. CASE ReceiverChainIsSource(e, d)
  <2> DEFINE C == Burnt(B, a, d, n)
  <2>1. AmountOf(<<a, d>>, B) >= n /\ bank' = [bank EXCEPT ![c] = C]
    BY <1>3 DEF EscrowOrBurn, BurnCoins, Balance, Burnt, SenderChainIsSource
  <2> HIDE DEF B, c, a
  <2>2. /\ BankOK(c, C) /\ d \in ValidDenoms(c)
        /\ BagToSet(C) \subseteq BagToSet(B)
        /\ \A K : Part(C, K) = Part(B, K) - Share(<<a, d>>, K, n)
    BY <1>1, <2>1, BurntFacts, SMT
  <2> HIDE DEF C
  <2>3. /\ DOMAIN bank' = Chains /\ \A x \in Chains : BankOK(x, bank'[x])
        /\ bank'[c] = C /\ \A x \in Chains \ {c} : bank'[x] = bank[x]
        /\ \A x \in Chains : \A K : Part(bank[x], K) \in Nat /\ Part(bank'[x], K) \in Nat
    BY <1>1, <2>1, <2>2, BankChange
  <2>4. \A key \in BagToSet(C) : \E old \in BagToSet(B) : old[2] = key[2]
    BY <2>2
  <2>5. BankLocal(e, a, d, n)
    <3> SUFFICES ASSUME NEW x \in Chains, NEW K
                 PROVE  Part(bank'[x], K) = Part(bank[x], K) +
                          (IF x # e.chain THEN 0 ELSE 0 - Share(<<a, d>>, K, n))
      BY <1>3, <2>3 DEF BankLocal, SenderChainIsSource
    <3>1. Share(<<a, d>>, K, n) \in Nat
      BY <1>1, ShareFacts
    <3>2. CASE x # c
      BY <2>3, <3>2, SMT DEF c
    <3>3. CASE x = c
      BY <2>2, <2>3, <3>1, <3>3, SMT DEF c, B
    <3> QED BY <3>2, <3>3
  <2> QED BY <2>2, <2>3, <2>4, <2>5 DEF a, B, c
<1> QED BY <1>2, <1>3 DEF SenderChainIsSource

LEMMA RefundFacts ==
  ASSUME Types, NEW e \in Ends, NEW data \in PacketData(e), RefundPacketToken(e, data)
  PROVE  /\ DOMAIN bank' = Chains /\ \A x \in Chains : BankOK(x, bank'[x])
         /\ \A x \in Chains : \A key \in BagToSet(bank'[x]) :
              \/ \E old \in BagToSet(bank[x]) : old[2] = key[2]
              \/ x = e.chain /\ key[2] = data.denom
         /\ BankLocal(e, data.sender, data.denom, -data.amount)
<1> DEFINE c == e.chain
           a == data.sender
           d == data.denom
           n == data.amount
           B == bank[c]
<1>1. /\ c \in Chains /\ n \in Nat \ {0} /\ BankOK(c, B)
      /\ a \in Accounts(c) /\ Hop(e) \in Accounts(c) /\ d \in ValidDenoms(c)
  BY AmountFacts, AccountFacts, SMT DEF Types, PacketData
<1>2. CASE SenderChainIsSource(e, d)
  <2> DEFINE C == Moved(B, Hop(e), a, d, n)
  <2>1. AmountOf(<<Hop(e), d>>, B) >= n /\ bank' = [bank EXCEPT ![c] = C]
    BY <1>2 DEF RefundPacketToken, SendCoins, Balance, Moved, GetEscrowAddress, SenderChainIsSource
  <2> HIDE DEF B, c, a, d, n
  <2>2. /\ BankOK(c, C) /\ <<Hop(e), d>> \in BagToSet(B)
        /\ BagToSet(C) \subseteq BagToSet(B) \cup {<<a, d>>}
        /\ \A K : Part(C, K) = Part(B, K) - Share(<<Hop(e), d>>, K, n) + Share(<<a, d>>, K, n)
    BY <1>1, <2>1, MovedFacts, SMT
  <2> HIDE DEF C
  <2>3. /\ DOMAIN bank' = Chains /\ \A x \in Chains : BankOK(x, bank'[x])
        /\ bank'[c] = C /\ \A x \in Chains \ {c} : bank'[x] = bank[x]
        /\ \A x \in Chains : \A K : Part(bank[x], K) \in Nat /\ Part(bank'[x], K) \in Nat
    BY <1>1, <2>1, <2>2, BankChange
  <2>4. \A key \in BagToSet(C) : \E old \in BagToSet(B) : old[2] = key[2]
    BY <2>2, SMT
  <2>5. BankLocal(e, a, d, -n)
    <3> SUFFICES ASSUME NEW x \in Chains, NEW K
                 PROVE  Part(bank'[x], K) = Part(bank[x], K) +
                          (IF x # e.chain THEN 0
                           ELSE Share(<<Hop(e), d>>, K, -n) - Share(<<a, d>>, K, -n))
      BY <1>2, <2>3 DEF BankLocal
    <3>1. /\ Share(<<a, d>>, K, n) \in Nat /\ Share(<<Hop(e), d>>, K, n) \in Nat
          /\ Share(<<a, d>>, K, -n) = -Share(<<a, d>>, K, n)
          /\ Share(<<Hop(e), d>>, K, -n) = -Share(<<Hop(e), d>>, K, n)
      BY <1>1, ShareFacts
    <3>2. CASE x # c
      BY <2>3, <3>2, SMT DEF c
    <3>3. CASE x = c
      BY <2>2, <2>3, <3>1, <3>3, SMT DEF c, B
    <3> QED BY <3>2, <3>3
  <2> QED BY <2>2, <2>3, <2>4, <2>5 DEF a, B, c, d, n
<1>3. CASE ReceiverChainIsSource(e, d)
  <2> DEFINE C == Minted(B, a, d, n)
  <2>1. bank' = [bank EXCEPT ![c] = C]
    BY <1>3 DEF RefundPacketToken, MintCoins, Minted, SenderChainIsSource
  <2> HIDE DEF B, c, a, d, n
  <2>2. /\ BankOK(c, C)
        /\ BagToSet(C) = BagToSet(B) \cup {<<a, d>>}
        /\ \A K : Part(C, K) = Part(B, K) + Share(<<a, d>>, K, n)
    BY <1>1, <2>1, MintedFacts, SMT
  <2> HIDE DEF C
  <2>3. /\ DOMAIN bank' = Chains /\ \A x \in Chains : BankOK(x, bank'[x])
        /\ bank'[c] = C /\ \A x \in Chains \ {c} : bank'[x] = bank[x]
        /\ \A x \in Chains : \A K : Part(bank[x], K) \in Nat /\ Part(bank'[x], K) \in Nat
    BY <1>1, <2>1, <2>2, BankChange
  <2>4. \A key \in BagToSet(C) : (\E old \in BagToSet(B) : old[2] = key[2]) \/ key[2] = d
    BY <2>2, SMT
  <2>5. BankLocal(e, a, d, -n)
    <3> SUFFICES ASSUME NEW x \in Chains, NEW K
                 PROVE  Part(bank'[x], K) = Part(bank[x], K) +
                          (IF x # e.chain THEN 0 ELSE 0 - Share(<<a, d>>, K, -n))
      BY <1>3, <2>3 DEF BankLocal, SenderChainIsSource, d
    <3>1. Share(<<a, d>>, K, n) \in Nat /\ Share(<<a, d>>, K, -n) = -Share(<<a, d>>, K, n)
      BY <1>1, ShareFacts
    <3>2. CASE x # c
      BY <2>3, <3>2, SMT DEF c
    <3>3. CASE x = c
      BY <2>2, <2>3, <3>1, <3>3, SMT DEF c, B
    <3> QED BY <3>2, <3>3
  <2> QED BY <2>2, <2>3, <2>4, <2>5 DEF a, B, c, d, n
<1> QED BY <1>2, <1>3 DEF SenderChainIsSource

\* A packet's denomination is prefixed with the end it arrives at.
LEMMA PrefixFacts ==
  ASSUME NEW f \in Ends, NEW d \in Denominations
  PROVE  /\ GetPrefixedDenom(f, d) \in Denominations
         /\ GetPrefixedDenom(f, d).path # <<>>
         /\ Head(GetPrefixedDenom(f, d).path) = Hop(f)
         /\ Unprefixed(GetPrefixedDenom(f, d)) = d
         /\ Len(GetPrefixedDenom(f, d).path) = Len(d.path) + 1
         /\ d.path # <<>> => Unprefixed(d) \in Denominations
         /\ ReceiverChainIsSource(f, d) => d = GetPrefixedDenom(f, Unprefixed(d))
<1> DEFINE H == {Hop(e) : e \in Ends}
           p == d.path
           q == <<Hop(f)>> \o p
<1>1. Hop(f) \in H /\ p \in Seq(H) /\ d.base \in Bases /\ d = [path |-> p, base |-> d.base]
  BY DEF Denominations
<1> HIDE DEF H
<1>2. q \in Seq(H) /\ q # <<>> /\ Head(q) = Hop(f) /\ Len(q) = Len(p) + 1
  BY <1>1, SMT
<1>3. Tail(q) = p
  BY <1>1, SMT
<1>4. p # <<>> => Tail(p) \in Seq(H) /\ (Head(p) = Hop(f) => p = <<Hop(f)>> \o Tail(p))
  BY <1>1, SMT
<1>5. GetPrefixedDenom(f, d) = [path |-> q, base |-> d.base]
  BY DEF GetPrefixedDenom
<1> HIDE DEF q, p
<1>6. GetPrefixedDenom(f, d) \in Denominations
  BY <1>1, <1>2, <1>5, SMT DEF Denominations, H
<1>7. Unprefixed(GetPrefixedDenom(f, d)) = d
  BY <1>1, <1>3, <1>5, SMT DEF Unprefixed
<1>8. p # <<>> => Unprefixed(d) \in Denominations
  BY <1>1, <1>4 DEF Denominations, H, Unprefixed, p
<1>9. ReceiverChainIsSource(f, d) => d = GetPrefixedDenom(f, Unprefixed(d))
  BY <1>1, <1>4 DEF ReceiverChainIsSource, GetPrefixedDenom, Unprefixed, p
<1> QED BY <1>2, <1>5, <1>6, <1>7, <1>8, <1>9, SMT DEF p

LEMMA AcceptFacts ==
  ASSUME Types, NEW e \in Ends, NEW data \in PacketData(e), Accept(e, Link[e], data)
  PROVE  /\ DOMAIN bank' = Chains /\ \A x \in Chains : BankOK(x, bank'[x])
         /\ DOMAIN traces' = Chains /\ \A x \in Chains : traces[x] \subseteq traces'[x]
         /\ \A x \in Chains : \A key \in BagToSet(bank'[x]) :
              \/ \E old \in BagToSet(bank[x]) : old[2] = key[2]
              \/ key[2] \in traces'[x]
         /\ data.receiver \in Accounts(Link[e].chain)
         /\ ReceivedDenom(e, Link[e], data.denom) \in Denominations
         /\ BankRemote(e, data.receiver, data.denom, data.amount)
<1> DEFINE f == Link[e]
           c == f.chain
           a == data.receiver
           d == data.denom
           n == data.amount
           B == bank[c]
           r == ReceivedDenom(e, f, d)
<1>1. /\ c \in Chains /\ n \in Nat \ {0} /\ BankOK(c, B) /\ f \in Ends /\ Link[f] = e
      /\ Hop(f) \in Accounts(c) /\ d \in ValidDenoms(e.chain) /\ d \in Denominations
      /\ Len(d.path) < MaxHops \/ ReceiverChainIsSource(e, d)
  BY AmountFacts, AccountFacts DEF Types, PacketData, ValidDenoms
<1>2. a \in Accounts(c)
  BY <1>1, TransferAssumptions DEF PacketData, Accept
<1>3. CASE ReceiverChainIsSource(e, d)
  <2> DEFINE C == Moved(B, Hop(f), a, r, n)
  <2>1. r = Unprefixed(d)
    BY <1>3 DEF ReceivedDenom
  <2>2. /\ AmountOf(<<Hop(f), r>>, B) >= n /\ bank' = [bank EXCEPT ![c] = C]
        /\ traces' = traces
    BY <1>3, <2>1 DEF Accept, Unescrow, SendCoins, Balance, Moved, GetEscrowAddress, SenderChainIsSource
  <2> HIDE DEF B, c, a, d, n, r, f
  <2>3. /\ BankOK(c, C) /\ <<Hop(f), r>> \in BagToSet(B) /\ r \in ValidDenoms(c)
        /\ BagToSet(C) \subseteq BagToSet(B) \cup {<<a, r>>}
        /\ \A K : Part(C, K) = Part(B, K) - Share(<<Hop(f), r>>, K, n) + Share(<<a, r>>, K, n)
    <3>1. /\ n \in Nat \ {0} /\ BankOK(c, B) /\ a \in Accounts(c)
          /\ AmountOf(<<Hop(f), r>>, B) >= n
      BY <1>1, <1>2, <2>2
    <3>2. BankOK(c, C) /\ <<Hop(f), r>> \in BagToSet(B) /\ r \in ValidDenoms(c)
      BY <3>1, MovedFacts
    <3>3. BagToSet(C) \subseteq BagToSet(B) \cup {<<a, r>>}
      BY <3>1, MovedFacts
    <3>4. ASSUME NEW K
          PROVE  Part(C, K) = Part(B, K) - Share(<<Hop(f), r>>, K, n) + Share(<<a, r>>, K, n)
      BY <3>1, MovedFacts, SMT
    <3> QED BY <3>2, <3>3, <3>4
  <2> HIDE DEF C
  <2>4. /\ DOMAIN bank' = Chains /\ \A x \in Chains : BankOK(x, bank'[x])
        /\ bank'[c] = C /\ \A x \in Chains \ {c} : bank'[x] = bank[x]
        /\ \A x \in Chains : \A K : Part(bank[x], K) \in Nat /\ Part(bank'[x], K) \in Nat
    BY <1>1, <2>2, <2>3, BankChange
  <2>5. \A key \in BagToSet(C) : \E old \in BagToSet(B) : old[2] = key[2]
    BY <2>3, SMT
  <2>6. BankRemote(e, a, d, n)
    <3> SUFFICES ASSUME NEW x \in Chains, NEW K
                 PROVE  Part(bank'[x], K) = Part(bank[x], K) +
                          (IF x # c THEN 0
                           ELSE Share(<<a, r>>, K, n) - Share(<<Hop(f), r>>, K, n))
      BY <1>3, <2>4 DEF BankRemote, c, r, d, f
    <3>1. Share(<<a, r>>, K, n) \in Nat /\ Share(<<Hop(f), r>>, K, n) \in Nat
      BY <1>1, ShareFacts
    <3>2. CASE x # c
      BY <2>4, <3>2, SMT
    <3>3. CASE x = c
      BY <2>3, <2>4, <3>1, <3>3, SMT DEF B
    <3> QED BY <3>2, <3>3
  <2>7. r \in Denominations
    BY <2>3 DEF ValidDenoms
  <2>8. \A x \in Chains : \A key \in BagToSet(bank'[x]) :
          \E old \in BagToSet(bank[x]) : old[2] = key[2]
    BY <2>4, <2>5 DEF B
  <2> QED BY <1>2, <2>2, <2>4, <2>6, <2>7, <2>8 DEF Types, a, c, d, n, r, f
<1>4. CASE SenderChainIsSource(e, d)
  <2> DEFINE C == Minted(B, a, r, n)
  <2>1. r = GetPrefixedDenom(f, d)
    BY <1>4 DEF ReceivedDenom, SenderChainIsSource
  <2>2. /\ bank' = [bank EXCEPT ![c] = C]
        /\ traces' = [traces EXCEPT ![c] = traces[c] \cup {r}]
    BY <1>4, <2>1 DEF Accept, MintVoucher, MintCoins, Minted, SenderChainIsSource
  <2>3. r \in ValidDenoms(c) /\ r \in Denominations
    <3>1. /\ r \in Denominations /\ Head(r.path) = Hop(f) /\ Unprefixed(r) = d
          /\ Len(r.path) = Len(d.path) + 1
      <4> HIDE DEF d, r, f
      <4>1. f \in Ends /\ d \in Denominations
        BY <1>1
      <4> QED BY <2>1, <4>1, PrefixFacts
    <3>2. Len(r.path) <= MaxHops
      <4>1. Len(d.path) \in Nat /\ Len(d.path) < MaxHops /\ MaxHops \in Nat
        BY <1>1, <1>4, TransferAssumptions, SMT DEF SenderChainIsSource, Denominations
      <4> QED BY <3>1, <4>1, SMT
    <3> QED BY <1>1, <1>4, <3>1, <3>2 DEF ValidDenoms
  <2> HIDE DEF B, c, a, d, n, r, f
  <2>4. /\ BankOK(c, C)
        /\ BagToSet(C) = BagToSet(B) \cup {<<a, r>>}
        /\ \A K : Part(C, K) = Part(B, K) + Share(<<a, r>>, K, n)
    <3>1. BankOK(c, B) /\ a \in Accounts(c) /\ n \in Nat \ {0}
      BY <1>1, <1>2
    <3> QED BY <2>3, <3>1, MintedFacts, SMT
  <2> HIDE DEF C
  <2>5. /\ DOMAIN bank' = Chains /\ \A x \in Chains : BankOK(x, bank'[x])
        /\ bank'[c] = C /\ \A x \in Chains \ {c} : bank'[x] = bank[x]
        /\ \A x \in Chains : \A K : Part(bank[x], K) \in Nat /\ Part(bank'[x], K) \in Nat
    BY <1>1, <2>2, <2>4, BankChange
  <2>6. /\ DOMAIN traces' = Chains /\ \A x \in Chains : traces[x] \subseteq traces'[x]
        /\ r \in traces'[c]
    BY <1>1, <2>2 DEF Types
  <2>7. \A key \in BagToSet(C) : (\E old \in BagToSet(B) : old[2] = key[2]) \/ key[2] = r
    BY <2>4, SMT
  <2>8. BankRemote(e, a, d, n)
    <3> SUFFICES ASSUME NEW x \in Chains, NEW K
                 PROVE  Part(bank'[x], K) = Part(bank[x], K) +
                          (IF x # c THEN 0 ELSE Share(<<a, r>>, K, n) - 0)
      BY <1>4, <2>5 DEF BankRemote, SenderChainIsSource, c, r, d, f
    <3>1. Share(<<a, r>>, K, n) \in Nat
      BY <1>1, ShareFacts
    <3>2. CASE x # c
      BY <2>5, <3>2, SMT
    <3>3. CASE x = c
      BY <2>4, <2>5, <3>1, <3>3, SMT DEF B
    <3> QED BY <3>2, <3>3
  <2>9. \A x \in Chains : \A key \in BagToSet(bank'[x]) :
          (\E old \in BagToSet(bank[x]) : old[2] = key[2]) \/ key[2] \in traces'[x]
    BY <2>5, <2>6, <2>7 DEF B
  <2> QED BY <1>2, <2>3, <2>5, <2>6, <2>8, <2>9 DEF a, c, d, n, r, f
<1> QED BY <1>3, <1>4 DEF SenderChainIsSource

LEMMA GiftFacts ==
  ASSUME Types, NEW e \in Ends, NEW data \in PacketData(e), RecordGift(e, Link[e], data),
         ReceivedDenom(e, Link[e], data.denom) \in Denominations
  PROVE  /\ DOMAIN gifts' = Ends /\ \A g \in Ends : GiftsOK(gifts'[g])
         /\ GiftsRemote(e, data.receiver, data.denom, data.amount)
<1> DEFINE f == Link[e]
           a == data.receiver
           n == data.amount
           r == ReceivedDenom(e, f, data.denom)
<1>1. n \in Nat \ {0} /\ r \in Denominations
  BY AmountFacts DEF PacketData
<1>2. /\ DOMAIN gifts' = Ends
      /\ \A g \in Ends : gifts'[g] = IF g.chain = f.chain /\ Hop(g) = a
                                     THEN With(gifts[g], r, n) ELSE gifts[g]
  BY DEF RecordGift, GetEscrowAddress
<1> HIDE DEF r, n, a, f
<1>3. ASSUME NEW g \in Ends
      PROVE  /\ GiftsOK(gifts'[g])
             /\ \A D : /\ Part(gifts[g], D) \in Nat /\ Part(gifts'[g], D) \in Nat
                       /\ Part(gifts'[g], D) = Part(gifts[g], D) +
                            (IF g.chain = f.chain /\ Hop(g) = a THEN Share(r, D, n) ELSE 0)
  <2>1. GiftsOK(gifts[g]) /\ FiniteBag(gifts[g])
    BY DEF Types, GiftsOK
  <2>2. CASE g.chain = f.chain /\ Hop(g) = a
    <3> DEFINE B == gifts[g]
               C == With(B, r, n)
    <3>1. /\ FiniteBag(C) /\ BagToSet(C) = BagToSet(B) \cup {r}
          /\ \A D : /\ Part(B, D) \in Nat /\ Part(C, D) \in Nat
                    /\ Part(C, D) = Part(B, D) + Share(r, D, n)
      <4> HIDE DEF B
      <4>1. FiniteBag(B)
        BY <2>1 DEF B
      <4> QED BY <1>1, <4>1, PartAdd, SMT
    <3>2. gifts'[g] = C
      BY <1>2, <2>2
    <3> HIDE DEF C
    <3> QED BY <1>1, <2>1, <2>2, <3>1, <3>2 DEF GiftsOK
  <2>3. CASE ~ (g.chain = f.chain /\ Hop(g) = a)
    <3>1. gifts'[g] = gifts[g]
      BY <1>2, <2>3
    <3>2. \A D : Part(gifts[g], D) \in Nat
      BY <2>1, PartNat
    <3> QED BY <2>1, <2>3, <3>1, <3>2, SMT
  <2> QED BY <2>2, <2>3
<1> QED BY <1>2, <1>3 DEF GiftsRemote, r, n, a, f

-----------------------------------------------------------------------------
(* The steps, one action at a time. *)

\* What a step does to the coins, whatever the action.
Ledger ==
  \/ Still
  \/ \E e \in Ends, u \in Users, d \in Denominations, n \in Int : Local(e, Account(u), d, n)
  \/ \E e \in Ends, n \in Nat : \E d \in ValidDenoms(e.chain), a \in Accounts(Link[e].chain) :
       ReceivedDenom(e, Link[e], d) \in Denominations /\ Remote(e, a, d, n)

LEMMA TracesKept ==
  ASSUME VouchersHaveTraces,
         \A x \in Chains : traces[x] \subseteq traces'[x],
         \A x \in Chains : \A key \in BagToSet(bank'[x]) :
           \/ \E old \in BagToSet(bank[x]) : old[2] = key[2]
           \/ key[2] \in traces'[x]
           \/ CanSend(x, key[2]),
         \A e \in Ends : \A s \in DOMAIN sent'[e] : CanSend(e.chain, sent'[e][s].denom)
  PROVE  VouchersHaveTraces'
<1>1. ASSUME NEW c \in Chains, NEW key \in BagToSet(bank'[c])
      PROVE  key[2].path = <<>> \/ key[2] \in traces'[c]
  <2>1. CanSend(c, key[2]) \/ key[2] \in traces'[c]
    BY DEF VouchersHaveTraces
  <2> QED BY <2>1 DEF CanSend
<1>2. ASSUME NEW e \in Ends, NEW s \in DOMAIN sent'[e]
      PROVE  sent'[e][s].denom.path = <<>> \/ sent'[e][s].denom \in traces'[e.chain]
  <2>1. CanSend(e.chain, sent'[e][s].denom) /\ e.chain \in Chains
    BY DEF Chains
  <2> QED BY <2>1 DEF CanSend
<1> QED BY <1>1, <1>2 DEF VouchersHaveTraces, CanSend

LEMMA SendStep ==
  ASSUME Types, NEW e \in Ends, SendTransfer(e)
  PROVE  Types' /\ (VouchersHaveTraces => VouchersHaveTraces') /\ Ledger
<1>1. PICK u \in Users, n \in Amounts, a \in Receivers[Link[e].chain],
           d \in {key[2] : key \in BagToSet(bank[e.chain])} :
        /\ CanSend(e.chain, d)
        /\ Len(d.path) < MaxHops \/ ReceiverChainIsSource(e, d)
        /\ EscrowOrBurn(e, Account(u), d, n)
        /\ sent' = [sent EXCEPT ![e] = Append(sent[e],
             [denom |-> d, amount |-> n, sender |-> Account(u), receiver |-> a])]
        /\ Len(sent[e]) < MaxSequence
        /\ status[e][Len(sent[e]) + 1] = "unsent"
        /\ status' = [status EXCEPT ![e][Len(sent[e]) + 1] = "sent"]
        /\ traces' = traces /\ enabled' = enabled /\ gifts' = gifts
  BY DEF SendTransfer, Channel!Send, Channel!Move
<1>2. /\ DOMAIN bank' = Chains /\ \A x \in Chains : BankOK(x, bank'[x])
      /\ d \in ValidDenoms(e.chain)
      /\ \A x \in Chains : \A key \in BagToSet(bank'[x]) :
           \E old \in BagToSet(bank[x]) : old[2] = key[2]
      /\ BankLocal(e, Account(u), d, n)
  BY <1>1, EscrowOrBurnFacts
<1> DEFINE data == [denom |-> d, amount |-> n, sender |-> Account(u), receiver |-> a]
           k == Len(sent[e]) + 1
<1>3. data \in PacketData(e) /\ data.denom = d /\ data.amount = n
  BY <1>1, <1>2 DEF PacketData
<1> HIDE DEF data
<1>4. /\ sent[e] \in Seq(PacketData(e)) /\ MaxSequence \in Nat /\ Len(sent[e]) \in Nat
      /\ k \in 1 .. MaxSequence /\ DOMAIN sent[e] = 1 .. Len(sent[e])
  <2>1. sent[e] \in Seq(PacketData(e)) /\ MaxSequence \in Nat
    BY TransferAssumptions DEF Types, PacketsOK
  <2>2. Len(sent[e]) \in Nat /\ DOMAIN sent[e] = 1 .. Len(sent[e])
    BY <2>1, SMT
  <2>3. Len(sent[e]) < MaxSequence
    BY <1>1
  <2> QED BY <2>1, <2>2, <2>3, SMT
<1>5. /\ DOMAIN sent' = Ends /\ sent'[e] = Append(sent[e], data)
      /\ \A g \in Ends \ {e} : sent'[g] = sent[g]
  BY <1>1 DEF Types, data
<1>6. /\ status' \in [Ends -> [1 .. MaxSequence -> Channel!Statuses]]
      /\ \A g \in Ends \ {e} : status'[g] = status[g]
      /\ \A t \in 1 .. MaxSequence : status'[e][t] = IF t = k THEN "sent" ELSE status[e][t]
  BY <1>1, <1>4 DEF Types, Channel!Statuses
<1> HIDE DEF k
<1>7. ASSUME NEW g \in Ends
      PROVE  PacketsOK(g, sent'[g], status'[g])
  <2>1. PacketsOK(g, sent[g], status[g])
    BY DEF Types
  <2>2. CASE g # e
    BY <1>5, <1>6, <2>1, <2>2
  <2>3. CASE g = e
    <3> DEFINE packets == sent[e]
               more == Append(packets, data)
    <3>1. /\ more \in Seq(PacketData(e)) /\ Len(more) <= MaxSequence
          /\ DOMAIN more = DOMAIN packets \cup {k}
      BY <1>3, <1>4, SMT DEF k
    <3>2. sent'[e] = more
      BY <1>5
    <3> HIDE DEF more
    <3>3. \A s \in 1 .. MaxSequence : s \in DOMAIN packets <=> status[e][s] # "unsent"
      BY <2>1, <2>3 DEF PacketsOK
    <3>4. \A s \in 1 .. MaxSequence : s \in DOMAIN more <=> status'[e][s] # "unsent"
      BY <1>6, <3>1, <3>3
    <3>5. status'[e] \in [1 .. MaxSequence -> Channel!Statuses]
      BY <1>6
    <3> QED BY <2>3, <3>1, <3>2, <3>4, <3>5 DEF PacketsOK
  <2> QED BY <2>2, <2>3
<1>8. Types'
  BY <1>1, <1>2, <1>5, <1>6, <1>7 DEF Types
<1>9. ASSUME VouchersHaveTraces
      PROVE  VouchersHaveTraces'
  <2>1. ASSUME NEW g \in Ends, NEW s \in DOMAIN sent'[g]
        PROVE  CanSend(g.chain, sent'[g][s].denom)
    <3>1. CASE g # e
      BY <1>5, <1>9, <3>1 DEF VouchersHaveTraces
    <3>2. CASE g = e
      <4>1. sent'[e][s] = data \/ (s \in DOMAIN sent[e] /\ sent'[e][s] = sent[e][s])
        BY <1>3, <1>4, <1>5, <3>2, SMT
      <4>2. CanSend(e.chain, data.denom)
        BY <1>1, <1>3
      <4> QED BY <1>9, <3>2, <4>1, <4>2 DEF VouchersHaveTraces
    <3> QED BY <3>1, <3>2
  <2> QED BY <1>1, <1>2, <1>9, <2>1, TracesKept
<1>10. Flow(e, d, n)
  <2>1. ASSUME NEW g \in Ends, NEW D
        PROVE  Carried(sent[g], status[g], D) \in Nat
    <3>1. sent[g] \in Seq(PacketData(g)) /\ \A x \in PacketData(g) : x.amount \in Nat
      BY AmountFacts DEF Types, PacketsOK
    <3> QED BY <3>1, CarriedNat
  <2> DEFINE st == status[e]
             su == status'[e]
             packets == sent[e]
  <2>2. packets \in Seq(PacketData(e)) /\ HaveAmounts(PacketData(e)) /\ SendsNext(packets, st, su)
    <3>1. packets \in Seq(PacketData(e)) /\ HaveAmounts(PacketData(e))
      BY <1>4, AmountFacts DEF HaveAmounts
    <3>2. k = Len(packets) + 1 /\ Len(packets) \in Nat /\ MaxSequence \in Nat
          /\ Len(packets) + 1 \in 1 .. MaxSequence
      BY <1>4 DEF k
    <3>3. ASSUME NEW s \in 1 .. Len(packets) PROVE s \in 1 .. MaxSequence /\ s # k
      <4> HIDE DEF packets
      <4> QED BY <3>2, SMT
    <3>4. su[k] = "sent" /\ \A s \in 1 .. Len(packets) : su[s] = st[s]
      BY <1>6, <3>2, <3>3
    <3> QED BY <3>1, <3>2, <3>4 DEF SendsNext
  <2> HIDE DEF st, su, packets
  <2>3. \A D : /\ Carried(packets, st, D) \in Nat
               /\ Carried(Append(packets, data), su, D) \in Nat
               /\ Carried(Append(packets, data), su, D)
                    = Carried(packets, st, D) + Share(data.denom, D, data.amount)
    BY <1>3, <2>2, CarriedMore, SMT
  <2>4. \A D : /\ Carried(sent'[e], status'[e], D) \in Nat
               /\ Carried(sent'[e], status'[e], D)
                    = Carried(sent[e], status[e], D) + Share(d, D, n)
    BY <1>3, <1>5, <2>3 DEF st, su, packets
  <2>5. \A g \in Ends \ {e} : \A D : Carried(sent'[g], status'[g], D) = Carried(sent[g], status[g], D)
    BY <1>5, <1>6
  <2>6. ASSUME NEW g \in Ends, NEW D
        PROVE  /\ Carried(sent[g], status[g], D) \in Nat
               /\ Carried(sent'[g], status'[g], D) \in Nat
               /\ Carried(sent'[g], status'[g], D) = Carried(sent[g], status[g], D) +
                    (IF g = e THEN Share(d, D, n) ELSE 0)
    <3>1. CASE g = e
      BY <2>1, <2>4, <3>1
    <3>2. CASE g # e
      BY <2>1, <2>5, <3>2, SMT
    <3> QED BY <3>1, <3>2
  <2> QED BY <2>6 DEF Flow
<1>11. Ledger
  <2>1. Local(e, Account(u), d, n)
    BY <1>1, <1>2, <1>10 DEF Local
  <2>2. d \in Denominations /\ n \in Int
    BY <1>2, AmountFacts, SMT DEF ValidDenoms
  <2> QED BY <2>1, <2>2 DEF Ledger
<1> QED BY <1>8, <1>9, <1>11

\* The coins of a packet go back to its sender.
LEMMA RefundStep ==
  ASSUME Types, NEW e \in Ends, NEW s \in DOMAIN sent[e], status[e][s] \in Flown,
         NEW to \in {"errored", "timedOut"}, status' = [status EXCEPT ![e][s] = to],
         RefundPacketToken(e, sent[e][s]),
         traces' = traces, enabled' = enabled, sent' = sent, gifts' = gifts
  PROVE  Types' /\ (VouchersHaveTraces => VouchersHaveTraces') /\ Ledger
<1> DEFINE data == sent[e][s]
<1>1. data \in PacketData(e)
  BY SMT DEF Types, PacketsOK
<1>2. to \in Channel!Statuses \ {"unsent"} /\ to \notin Flown
  BY DEF Channel!Statuses, Flown
<1>3. /\ DOMAIN bank' = Chains /\ \A x \in Chains : BankOK(x, bank'[x])
      /\ \A x \in Chains : \A key \in BagToSet(bank'[x]) :
           \/ \E old \in BagToSet(bank[x]) : old[2] = key[2]
           \/ x = e.chain /\ key[2] = data.denom
      /\ BankLocal(e, data.sender, data.denom, -data.amount)
  <2> HIDE DEF data
  <2>1. RefundPacketToken(e, data)
    BY DEF data
  <2> QED BY <1>1, <2>1, RefundFacts
<1>4. /\ status' \in [Ends -> [1 .. MaxSequence -> Channel!Statuses]]
      /\ \A g \in Ends : PacketsOK(g, sent'[g], status'[g])
  BY <1>2, StatusTypes
<1>5. Flow(e, data.denom, -data.amount)
  BY <1>2, StatusFlow
<1>6. Types'
  BY <1>3, <1>4 DEF Types
<1>7. ASSUME VouchersHaveTraces PROVE VouchersHaveTraces'
  <2>1. CanSend(e.chain, data.denom)
    BY <1>7 DEF VouchersHaveTraces
  <2>2. \A g \in Ends : \A t \in DOMAIN sent'[g] : CanSend(g.chain, sent'[g][t].denom)
    BY <1>7 DEF VouchersHaveTraces
  <2>3. \A x \in Chains : \A key \in BagToSet(bank'[x]) :
          (\E old \in BagToSet(bank[x]) : old[2] = key[2]) \/ CanSend(x, key[2])
    BY <1>3, <2>1
  <2> QED BY <1>7, <2>2, <2>3, TracesKept
<1>8. PICK u \in Users : data.sender = Account(u)
  BY <1>1 DEF PacketData
<1>9. data.denom \in Denominations /\ -data.amount \in Int
  BY <1>1, AmountFacts, SMT DEF PacketData, ValidDenoms
<1>10. Ledger
  BY <1>3, <1>5, <1>8, <1>9 DEF Ledger, Local
<1> QED BY <1>6, <1>7, <1>10

\* A step that moves no coins.
LEMMA QuietStep ==
  ASSUME Types, NEW e \in Ends, NEW s \in DOMAIN sent[e],
         NEW to \in Channel!Statuses \ {"unsent"}, status[e][s] \in Flown <=> to \in Flown,
         status' = [status EXCEPT ![e][s] = to],
         bank' = bank, traces' = traces, enabled' = enabled, sent' = sent, gifts' = gifts
  PROVE  Types' /\ (VouchersHaveTraces => VouchersHaveTraces') /\ Ledger
<1>1. /\ status' \in [Ends -> [1 .. MaxSequence -> Channel!Statuses]]
      /\ \A g \in Ends : PacketsOK(g, sent'[g], status'[g])
  BY StatusTypes
<1>2. \A g \in Ends : \A D : Carried(sent'[g], status'[g], D) = Carried(sent[g], status[g], D)
  BY StatusFlow
<1>3. Types'
  BY <1>1 DEF Types
<1>4. VouchersHaveTraces => VouchersHaveTraces'
  BY DEF VouchersHaveTraces, CanSend
<1>5. Ledger
  BY <1>2 DEF Ledger, Still
<1> QED BY <1>3, <1>4, <1>5

LEMMA RecvStep ==
  ASSUME Types, NEW e \in Ends, NEW s \in DOMAIN sent[e], OnRecvPacket(e, s)
  PROVE  Types' /\ (VouchersHaveTraces => VouchersHaveTraces') /\ Ledger
<1> DEFINE f == Link[e]
           data == sent[e][s]
<1>1. /\ status[e][s] = "sent"
      /\ status' = [status EXCEPT ![e][s] = "applied"] \/ status' = [status EXCEPT ![e][s] = "failed"]
      /\ enabled' = enabled /\ sent' = sent
  BY DEF OnRecvPacket, Channel!Deliver, Channel!Move
<1>2. s \in 1 .. MaxSequence
  <2>1. sent[e] \in Seq(PacketData(e)) /\ Len(sent[e]) <= MaxSequence /\ MaxSequence \in Nat
    BY TransferAssumptions DEF Types, PacketsOK
  <2> QED BY <2>1, SMT
<1>3. CASE status'[e][s] = "failed"
  <2>1. /\ status' = [status EXCEPT ![e][s] = "failed"]
        /\ bank' = bank /\ traces' = traces /\ gifts' = gifts
    BY <1>1, <1>2, <1>3 DEF OnRecvPacket, Types
  <2>2. "failed" \in Channel!Statuses \ {"unsent"} /\ "failed" \in Flown /\ "sent" \in Flown
    BY DEF Channel!Statuses, Flown
  <2> QED BY <1>1, <2>1, <2>2, QuietStep
<1>4. CASE status'[e][s] = "applied"
  <2>1. /\ status' = [status EXCEPT ![e][s] = "applied"]
        /\ Accept(e, f, data) /\ RecordGift(e, f, data)
    BY <1>1, <1>2, <1>4 DEF OnRecvPacket, Types
  <2>2. /\ "applied" \in Channel!Statuses \ {"unsent"}
        /\ "applied" \notin Flown /\ "sent" \in Flown
    BY DEF Channel!Statuses, Flown
  <2>3. data \in PacketData(e)
    BY SMT DEF Types, PacketsOK
  <2>4. /\ status' \in [Ends -> [1 .. MaxSequence -> Channel!Statuses]]
        /\ \A g \in Ends : PacketsOK(g, sent'[g], status'[g])
    BY <1>1, <2>1, <2>2, StatusTypes
  <2>5. Flow(e, data.denom, -data.amount)
    BY <1>1, <2>1, <2>2, StatusFlow
  <2> HIDE DEF data, f
  <2>6. /\ DOMAIN bank' = Chains /\ \A x \in Chains : BankOK(x, bank'[x])
        /\ DOMAIN traces' = Chains /\ \A x \in Chains : traces[x] \subseteq traces'[x]
        /\ \A x \in Chains : \A key \in BagToSet(bank'[x]) :
             (\E old \in BagToSet(bank[x]) : old[2] = key[2]) \/ key[2] \in traces'[x]
        /\ data.receiver \in Accounts(Link[e].chain)
        /\ ReceivedDenom(e, Link[e], data.denom) \in Denominations
        /\ BankRemote(e, data.receiver, data.denom, data.amount)
    BY <2>1, <2>3, AcceptFacts DEF f
  <2>7. /\ DOMAIN gifts' = Ends /\ \A g \in Ends : GiftsOK(gifts'[g])
        /\ GiftsRemote(e, data.receiver, data.denom, data.amount)
    BY <2>1, <2>3, <2>6, GiftFacts DEF f
  <2>8. Types'
    BY <1>1, <2>4, <2>6, <2>7 DEF Types
  <2>9. ASSUME VouchersHaveTraces PROVE VouchersHaveTraces'
    <3>1. \A g \in Ends : \A t \in DOMAIN sent'[g] : CanSend(g.chain, sent'[g][t].denom)
      BY <1>1, <2>9 DEF VouchersHaveTraces
    <3> QED BY <2>6, <2>9, <3>1, TracesKept
  <2>10. data.denom \in ValidDenoms(e.chain) /\ data.amount \in Nat
    BY <2>3, AmountFacts DEF PacketData
  <2>11. Ledger
    BY <2>5, <2>6, <2>7, <2>10 DEF Ledger, Remote
  <2> QED BY <2>8, <2>9, <2>11
<1> QED BY <1>3, <1>4 DEF OnRecvPacket

LEMMA AckStep ==
  ASSUME Types, NEW e \in Ends, NEW s \in DOMAIN sent[e], OnAcknowledgementPacket(e, s)
  PROVE  Types' /\ (VouchersHaveTraces => VouchersHaveTraces') /\ Ledger
<1>1. traces' = traces /\ enabled' = enabled /\ sent' = sent /\ gifts' = gifts
  BY DEF OnAcknowledgementPacket
<1>2. CASE Channel!Confirm(e, s) /\ UNCHANGED bank
  <2>1. /\ status[e][s] = "applied" /\ status' = [status EXCEPT ![e][s] = "confirmed"]
        /\ bank' = bank
    BY <1>2 DEF Channel!Confirm, Channel!Move
  <2>2. /\ "confirmed" \in Channel!Statuses \ {"unsent"}
        /\ "applied" \notin Flown /\ "confirmed" \notin Flown
    BY DEF Channel!Statuses, Flown
  <2> QED BY <1>1, <2>1, <2>2, QuietStep
<1>3. CASE Channel!Fail(e, s) /\ RefundPacketToken(e, sent[e][s])
  <2>1. /\ status[e][s] = "failed" /\ status' = [status EXCEPT ![e][s] = "errored"]
    BY <1>3 DEF Channel!Fail, Channel!Move
  <2>2. "failed" \in Flown /\ "errored" \in {"errored", "timedOut"}
    BY DEF Flown
  <2> QED BY <1>1, <1>3, <2>1, <2>2, RefundStep
<1> QED BY <1>2, <1>3 DEF OnAcknowledgementPacket

LEMMA TimeoutStep ==
  ASSUME Types, NEW e \in Ends, NEW s \in DOMAIN sent[e], OnTimeoutPacket(e, s)
  PROVE  Types' /\ (VouchersHaveTraces => VouchersHaveTraces') /\ Ledger
<1>1. /\ traces' = traces /\ enabled' = enabled /\ sent' = sent /\ gifts' = gifts
      /\ status[e][s] = "sent" /\ status' = [status EXCEPT ![e][s] = "timedOut"]
      /\ RefundPacketToken(e, sent[e][s])
  BY DEF OnTimeoutPacket, Channel!TimeOut, Channel!Move
<1>2. "sent" \in Flown /\ "timedOut" \in {"errored", "timedOut"}
  BY DEF Flown
<1> QED BY <1>1, <1>2, RefundStep

LEMMA ParamsStep ==
  ASSUME Types, NEW c \in Chains, SetParams(c)
  PROVE  Types' /\ (VouchersHaveTraces => VouchersHaveTraces') /\ Ledger
<1>1. /\ bank' = bank /\ traces' = traces /\ sent' = sent /\ status' = status /\ gifts' = gifts
      /\ enabled' \in [Chains -> [send : BOOLEAN, receive : BOOLEAN]]
  BY DEF SetParams, Types
<1> QED BY <1>1 DEF Types, VouchersHaveTraces, CanSend, Ledger, Still

LEMMA NextStep ==
  ASSUME Types, [Next]_vars
  PROVE  Types' /\ (VouchersHaveTraces => VouchersHaveTraces') /\ Ledger
<1>1. CASE UNCHANGED vars
  BY <1>1 DEF vars, Types, VouchersHaveTraces, CanSend, Ledger, Still
<1>2. ASSUME NEW e \in Ends, SendTransfer(e)
      PROVE  Types' /\ (VouchersHaveTraces => VouchersHaveTraces') /\ Ledger
  BY <1>2, SendStep
<1>3. ASSUME NEW e \in Ends, NEW s \in DOMAIN sent[e],
             OnRecvPacket(e, s) \/ OnAcknowledgementPacket(e, s) \/ OnTimeoutPacket(e, s)
      PROVE  Types' /\ (VouchersHaveTraces => VouchersHaveTraces') /\ Ledger
  BY <1>3, RecvStep, AckStep, TimeoutStep
<1>4. ASSUME NEW c \in Governed, SetParams(c)
      PROVE  Types' /\ (VouchersHaveTraces => VouchersHaveTraces') /\ Ledger
  BY <1>4, ParamsStep, TransferAssumptions
<1> QED BY <1>1, <1>2, <1>3, <1>4 DEF Next

-----------------------------------------------------------------------------
(* The initial state, and the invariants that need no sums. *)

LEMMA PartNone ==
  ASSUME NEW B, NEW K, BagToSet(B) \cap K = {}
  PROVE  Part(B, K) = 0
<1>1. Total(B, {}) = 0
  BY FS_EmptySet, SumPick DEF Total
<1> QED BY <1>1 DEF Part, Total

LEMMA CarriedNone ==
  ASSUME NEW state, NEW D
  PROVE  Carried(<<>>, state, D) = 0
<1> DEFINE f == [s \in DOMAIN <<>> |-> <<>>[s].amount]
           S == {s \in DOMAIN <<>> : <<>>[s].denom \in D /\ state[s] \in Flown}
<1>1. S = {}
  BY SMT
<1> HIDE DEF f, S
<1>2. Total(f, S) = 0
  BY <1>1, FS_EmptySet, SumPick DEF Total
<1> QED BY <1>2 DEF Carried, Total, f, S

\* The coins there are at first are those of users.
LEMMA InitialBankFacts ==
  ASSUME NEW c \in Chains
  PROVE  /\ BankOK(c, InitialBank(c))
         /\ \A key \in BagToSet(InitialBank(c)) : key[1] \in Owners /\ key[2] = Native(key[2].base)
<1> DEFINE coins == {x \in BagToSet(Natives) : x[1] = c}
           keys == {<<Account(coin[2]), Native(coin[3])>> : coin \in coins}
           name == [coin \in coins |-> <<Account(coin[2]), Native(coin[3])>>]
           B == InitialBank(c)
<1>1. IsFiniteSet(coins)
  BY TransferAssumptions, FS_Subset
<1>2. name \in Surjection(coins, keys)
  BY DEF Surjection
<1>3. IsFiniteSet(keys)
  <2> HIDE DEF coins, keys, name
  <2> QED BY <1>1, <1>2, FS_Surjection
<1>4. B = [key \in keys |-> Natives[<<c, key[1][1], key[2].base>>]]
  BY DEF InitialBank
<1>5. ASSUME NEW key \in keys
      PROVE  /\ Natives[<<c, key[1][1], key[2].base>>] \in {n \in Nat : n > 0}
             /\ key[1] \in Owners /\ key[2] = Native(key[2].base)
             /\ key \in Accounts(c) \X ValidDenoms(c)
  <2>1. PICK coin \in coins : key = <<Account(coin[2]), Native(coin[3])>>
    BY <1>5
  <2>2. /\ coin \in BagToSet(Natives) /\ coin[1] = c /\ coin[2] \in Users /\ coin[3] \in Bases
        /\ coin = <<coin[1], coin[2], coin[3]>>
    BY TransferAssumptions, SMT
  <2>3. key[1] = Account(coin[2]) /\ key[2] = Native(coin[3])
    BY <2>1
  <2>4. key[1][1] = coin[2] /\ key[2].base = coin[3] /\ key[2].path = <<>>
    BY <2>3, SMT DEF Account, Native
  <2>5. <<c, key[1][1], key[2].base>> = coin
    BY <2>2, <2>4
  <2>6. Natives[coin] \in {n \in Nat : n > 0}
    BY <2>2, TransferAssumptions, SMT DEF IsABag, BagToSet
  <2>7. key[1] \in Owners /\ key[1] \in Accounts(c)
    BY <2>2, <2>3 DEF Owners, Accounts
  <2>8. key[2] \in ValidDenoms(c)
    <3>1. Native(coin[3]) \in Denominations
      BY <2>2, SMT DEF Native, Denominations
    <3>2. Len(key[2].path) <= MaxHops
      BY <2>4, TransferAssumptions, SMT
    <3> QED BY <2>3, <2>4, <3>1, <3>2 DEF ValidDenoms
  <2> QED BY <2>1, <2>3, <2>4, <2>5, <2>6, <2>7, <2>8
<1> HIDE DEF keys, coins, name, B
<1>6. BagToSet(B) = keys /\ IsABag(B)
  BY <1>4, <1>5, SMT DEF BagToSet, IsABag
<1> QED BY <1>3, <1>5, <1>6 DEF BankOK, FiniteBag, B

LEMMA InitTypes == Init => Types /\ VouchersHaveTraces
<1> SUFFICES ASSUME Init PROVE Types /\ VouchersHaveTraces
  OBVIOUS
<1>1. /\ bank = [c \in Chains |-> InitialBank(c)] /\ traces = [c \in Chains |-> {}]
      /\ enabled = [c \in Chains |-> [send |-> TRUE, receive |-> TRUE]]
      /\ sent = [e \in Ends |-> <<>>] /\ gifts = [e \in Ends |-> EmptyBag]
      /\ status = [e \in Ends |-> [s \in 1 .. MaxSequence |-> "unsent"]]
  BY DEF Init, Channel!Init
<1>2. \A c \in Chains : BankOK(c, bank[c])
  BY <1>1, InitialBankFacts
<1>3. GiftsOK(EmptyBag)
  BY FS_EmptySet, SMT DEF EmptyBag, GiftsOK, FiniteBag, IsABag, BagToSet
<1>4. ASSUME NEW e \in Ends
      PROVE  PacketsOK(e, sent[e], status[e])
  BY <1>1, TransferAssumptions, SMT DEF PacketsOK, Channel!Statuses
<1>5. Types
  BY <1>1, <1>2, <1>3, <1>4 DEF Types, Channel!Statuses
<1>6. \A c \in Chains : \A key \in BagToSet(bank[c]) : CanSend(c, key[2])
  <2> SUFFICES ASSUME NEW c \in Chains, NEW key \in BagToSet(bank[c])
               PROVE  key[2].path = <<>>
    BY DEF CanSend
  <2>1. key[2] = Native(key[2].base)
    BY <1>1, InitialBankFacts
  <2>2. Native(key[2].base).path = <<>>
    BY DEF Native
  <2> QED BY <2>1, <2>2
<1>7. \A e \in Ends : DOMAIN sent[e] = {}
  BY <1>1, SMT
<1> QED BY <1>5, <1>6, <1>7 DEF VouchersHaveTraces

\* Balances are always of accounts of the chain, in denominations whose trace begins
\* with an end of the chain and is no longer than the bound; a packet's data is kept
\* exactly for the sequences SendTransfer has used.
THEOREM TransferTypes == Spec => []TypeOK
<1>1. Init => Types
  BY InitTypes
<1>2. Types /\ [Next]_vars => Types'
  BY NextStep
<1>3. Types => TypeOK
  BY TypesAreOK
<1> QED BY <1>1, <1>2, <1>3, PTL DEF Spec

\* SendTransfer finds the trace of every voucher that anyone holds, and the refund
\* that a failed packet is due is in a denomination that can be sent again.
THEOREM TracesComplete == Spec => []VouchersHaveTraces
<1> DEFINE I == Types /\ VouchersHaveTraces
<1>1. Init => I
  BY InitTypes
<1>2. I /\ [Next]_vars => I'
  BY NextStep
<1> QED BY <1>1, <1>2, PTL DEF Spec
=============================================================================
