----------------------------- MODULE DataProofs -----------------------------
(***************************************************************************)
(* What a job is trained on, for every size and setting: the mixture of    *)
(* TarDataset and the packs of DynamicPackingDataset (TarStream), the      *)
(* score that compute_score gives an answer (CombinedReward), the pairing  *)
(* of answers and rewards in the trainer (RewardFlow), and the limits on   *)
(* the calls of the reward function (RateLimiter).                         *)
(*                                                                         *)
(* The first two are about sums, and a sum is a fold: what it computes     *)
(* follows from SubsetInduction, an induction over the subsets of a finite *)
(* set that speaks of a set of them and not of a predicate.                *)
(***************************************************************************)
EXTENDS TarStream, CombinedReward, RewardFlow, RateLimiter, FiniteSetTheorems, TLAPS

\* What % and \div mean, in terms of multiples.
LEMMA Divided ==
  \A k \in Int : \A l \in Nat \ {0} :
    \E q \in Int : \E r \in 0 .. l - 1 : q = k \div l /\ r = k % l /\ k = l * q + r
<1> SUFFICES ASSUME NEW k \in Int, NEW l \in Nat \ {0}
             PROVE  \E q \in Int : \E r \in 0 .. l - 1 : q = k \div l /\ r = k % l /\ k = l * q + r
  OBVIOUS
<1>1. ASSUME NEW q \in Int, NEW r \in Int, q = k \div l, r = k % l PROVE k = l * q + r
  BY <1>1
<1>2. k \div l \in Int /\ k % l \in 0 .. l - 1
  OBVIOUS
<1> QED
  BY <1>1, <1>2

-----------------------------------------------------------------------------
(* Sums                                                                      *)

\* Any set of natural numbers that is not empty has a least element.
LEMMA LeastNumber ==
  ASSUME NEW T \in SUBSET Nat, T # {}
  PROVE  \E x \in T : \A y \in T : x <= y
<1>1. PICK x \in T : \A y \in T : ~ (<<y, x>> \in OpToRel(<, Nat))
  BY WFMin, NatLessThanWellFounded
<1>2. \A y \in T : ~ (y < x)
  BY <1>1 DEF OpToRel
<1> QED
  BY <1>2

\* What holds of a set once it holds without one of its elements holds of
\* every subset of a finite set.
LEMMA SubsetInduction ==
  ASSUME NEW D, IsFiniteSet(D), NEW G,
         \A T \in SUBSET D : (\A x \in T : T \ {x} \in G) => T \in G
  PROVE  \A T \in SUBSET D : T \in G
<1> SUFFICES ASSUME NEW U \in SUBSET D, U \notin G PROVE FALSE
  OBVIOUS
<1> DEFINE Sizes == {n \in Nat : \E T \in SUBSET D : T \notin G /\ n = Cardinality(T)}
<1>1. \A T \in SUBSET D : IsFiniteSet(T) /\ Cardinality(T) \in Nat
  BY FS_Subset, FS_CardinalityType
<1>2. Cardinality(U) \in Sizes
  BY <1>1
<1>3. PICK n \in Sizes : \A m \in Sizes : n <= m
  BY <1>2, LeastNumber
<1>4. PICK T \in SUBSET D : T \notin G /\ n = Cardinality(T)
  BY <1>3
<1>5. PICK x \in T : T \ {x} \notin G
  BY <1>4
<1>6. Cardinality(T \ {x}) = n - 1 /\ T \ {x} \in SUBSET D
  BY <1>1, <1>4, <1>5, FS_RemoveElement
<1>7. n - 1 \in Sizes
  BY <1>1, <1>5, <1>6
<1> QED
  BY <1>3, <1>7

Picked(T) == CHOOSE x \in T : TRUE

\* One step of the fold over a sequence, f being what it gives for a part of
\* the indices, and what it gives in the end.
Fold(s, f) == [T \in SUBSET DOMAIN s |-> IF T = {} THEN 0
                                         ELSE s[Picked(T)] + f[T \ {Picked(T)}]]
SumOn(s, T) == (CHOOSE f : f = Fold(s, f))[T]

LEMMA SumIsOn == ASSUME NEW s PROVE SumOf(s) = SumOn(s, DOMAIN s)
BY DEF SumOf, FoldSeq, FoldFunction, FoldFunctionOnSet, MapThenFoldSet, SumOn, Fold, Picked

\* There is such an f: one that is right for the parts of at most k indices
\* can be made right for those of k + 1.
LEMMA FoldExists ==
  ASSUME NEW s, IsFiniteSet(DOMAIN s)
  PROVE  \E f : f = Fold(s, f)
<1> DEFINE D == DOMAIN s
           Right(f, T) == f[T] = IF T = {} THEN 0 ELSE s[Picked(T)] + f[T \ {Picked(T)}]
           Upto(k, f) == \A T \in SUBSET D : Cardinality(T) <= k => Right(f, T)
           Wrong == {k \in Nat : ~ \E f : Upto(k, f)}
<1>1. \A T \in SUBSET D : IsFiniteSet(T) /\ Cardinality(T) \in Nat
  BY FS_Subset, FS_CardinalityType
<1>2. \A T \in SUBSET D : Cardinality(T) <= 0 => T = {}
  BY <1>1, FS_EmptySet
<1>3. \A T \in SUBSET D : T # {} => /\ Picked(T) \in T /\ T \ {Picked(T)} \in SUBSET D
                                    /\ Cardinality(T \ {Picked(T)}) = Cardinality(T) - 1
  <2> SUFFICES ASSUME NEW T \in SUBSET D, T # {}
               PROVE  /\ Picked(T) \in T /\ T \ {Picked(T)} \in SUBSET D
                      /\ Cardinality(T \ {Picked(T)}) = Cardinality(T) - 1
    OBVIOUS
  <2>1. Picked(T) \in T
    BY DEF Picked
  <2> QED
    BY <1>1, <2>1, FS_RemoveElement
<1>4. 0 \notin Wrong
  <2> DEFINE f == [T \in SUBSET D |-> 0]
  <2>1. Upto(0, f)
    BY <1>2
  <2> QED
    BY <2>1
<1>5. ASSUME NEW k \in Nat, k + 1 \in Wrong PROVE k \in Wrong
  <2> SUFFICES ASSUME NEW f, Upto(k, f) PROVE FALSE
    OBVIOUS
  <2> DEFINE g == [T \in SUBSET D |-> IF Cardinality(T) <= k THEN f[T]
                                      ELSE s[Picked(T)] + f[T \ {Picked(T)}]]
  <2>1. ASSUME NEW T \in SUBSET D, Cardinality(T) <= k + 1 PROVE Right(g, T)
    <3>1. CASE T = {}
      <4>1. Cardinality(T) <= k
        BY <3>1, FS_EmptySet
      <4> QED
        BY <3>1, <4>1
    <3>2. CASE T # {}
      <4>1. /\ T \ {Picked(T)} \in SUBSET D
            /\ Cardinality(T \ {Picked(T)}) <= k
        BY <1>1, <1>3, <2>1, <3>2
      <4>2. g[T \ {Picked(T)}] = f[T \ {Picked(T)}]
        BY <4>1
      <4>3. g[T] = s[Picked(T)] + f[T \ {Picked(T)}]
        BY <3>2
      <4> QED
        BY <3>2, <4>2, <4>3
    <3> QED
      BY <3>1, <3>2
  <2>2. Upto(k + 1, g)
    BY <2>1
  <2> HIDE DEF g, Upto
  <2> QED
    BY <1>5, <2>2
<1> HIDE DEF Upto
<1>6. Wrong = {}
  <2> SUFFICES ASSUME Wrong # {} PROVE FALSE
    OBVIOUS
  <2>1. PICK k \in Wrong : \A m \in Wrong : k <= m
    BY LeastNumber
  <2>2. k - 1 \in Nat /\ (k - 1) + 1 = k
    BY <1>4, <2>1
  <2>3. k - 1 \in Wrong
    BY <1>5, <2>1, <2>2
  <2> QED
    BY <2>1, <2>2, <2>3
<1>7. PICK f : Upto(Cardinality(D), f)
  BY <1>1, <1>6
<1> DEFINE h == [T \in SUBSET D |-> f[T]]
<1>8. ASSUME NEW T \in SUBSET D PROVE Right(h, T)
  <2>1. Cardinality(T) <= Cardinality(D)
    BY FS_Subset
  <2>2. Right(f, T)
    BY <1>7, <2>1 DEF Upto
  <2> QED
    BY <2>2, <1>3
<1>9. h = Fold(s, h)
  BY <1>8 DEF Fold
<1> HIDE DEF h
<1> QED
  BY <1>9

LEMMA SumOnStep ==
  ASSUME NEW s, IsFiniteSet(DOMAIN s), NEW T \in SUBSET DOMAIN s
  PROVE  /\ T = {} => SumOn(s, T) = 0
         /\ T # {} => /\ Picked(T) \in T
                      /\ SumOn(s, T) = s[Picked(T)] + SumOn(s, T \ {Picked(T)})
<1> DEFINE f == CHOOSE f : f = Fold(s, f)
<1>1. f = Fold(s, f)
  BY FoldExists
<1>2. \A U : SumOn(s, U) = f[U]
  BY DEF SumOn
<1> HIDE DEF f
<1>3. f[T] = IF T = {} THEN 0 ELSE s[Picked(T)] + f[T \ {Picked(T)}]
  <2>1. Fold(s, f)[T] = IF T = {} THEN 0 ELSE s[Picked(T)] + f[T \ {Picked(T)}]
    BY DEF Fold
  <2> QED
    BY <1>1, <2>1
<1>4. T # {} => Picked(T) \in T
  BY DEF Picked
<1> QED
  BY <1>2, <1>3, <1>4

\* The numbers that are summed.
Numbers(s) == IsFiniteSet(DOMAIN s) /\ \A i \in DOMAIN s : s[i] \in Int

LEMMA SumOnInt ==
  ASSUME NEW s, Numbers(s), NEW T \in SUBSET DOMAIN s
  PROVE  SumOn(s, T) \in Int
<1> DEFINE G == {U \in SUBSET DOMAIN s : SumOn(s, U) \in Int}
<1>1. ASSUME NEW U \in SUBSET DOMAIN s, \A x \in U : U \ {x} \in G PROVE U \in G
  <2>1. CASE U = {}
    <3>1. SumOn(s, U) = 0
      BY <2>1, SumOnStep DEF Numbers
    <3> QED
      BY <3>1
  <2>2. CASE U # {}
    <3>1. Picked(U) \in U /\ SumOn(s, U) = s[Picked(U)] + SumOn(s, U \ {Picked(U)})
      BY <2>2, SumOnStep DEF Numbers
    <3>2. SumOn(s, U \ {Picked(U)}) \in Int /\ s[Picked(U)] \in Int
      BY <1>1, <3>1 DEF Numbers
    <3> QED
      BY <3>1, <3>2
  <2> QED
    BY <2>1, <2>2
<1>2. T \in G
  <2>1. \A U \in SUBSET DOMAIN s : (\A x \in U : U \ {x} \in G) => U \in G
    BY <1>1
  <2> HIDE DEF G
  <2>2. IsFiniteSet(DOMAIN s)
    BY DEF Numbers
  <2> QED
    BY <2>1, <2>2, SubsetInduction
<1> QED
  BY <1>2

\* The order in which the elements are added does not matter.
LEMMA SumOnAny ==
  ASSUME NEW s, Numbers(s), NEW T \in SUBSET DOMAIN s, NEW z \in T
  PROVE  SumOn(s, T) = s[z] + SumOn(s, T \ {z})
<1> DEFINE P(U, x) == SumOn(s, U) = s[x] + SumOn(s, U \ {x})
           G == {U \in SUBSET DOMAIN s : \A x \in U : P(U, x)}
<1>1. ASSUME NEW U \in SUBSET DOMAIN s, \A x \in U : U \ {x} \in G, NEW x \in U PROVE P(U, x)
  <2> DEFINE p == Picked(U)
  <2>1. p \in U /\ SumOn(s, U) = s[p] + SumOn(s, U \ {p})
    BY SumOnStep DEF Numbers
  <2> HIDE DEF p
  <2>2. CASE p = x
    BY <2>1, <2>2
  <2>3. CASE p # x
    <3>1. U \ {p} \in G /\ U \ {x} \in G /\ x \in U \ {p} /\ p \in U \ {x}
      BY <1>1, <2>1, <2>3
    <3>2. /\ SumOn(s, U \ {p}) = s[x] + SumOn(s, (U \ {p}) \ {x})
          /\ SumOn(s, U \ {x}) = s[p] + SumOn(s, (U \ {x}) \ {p})
      BY <3>1
    <3>3. (U \ {p}) \ {x} = (U \ {x}) \ {p}
      OBVIOUS
    <3>4. s[x] \in Int /\ s[p] \in Int /\ SumOn(s, (U \ {x}) \ {p}) \in Int
      BY <2>1, SumOnInt DEF Numbers
    <3>5. SumOn(s, U) = s[p] + (s[x] + SumOn(s, (U \ {x}) \ {p}))
      BY <2>1, <3>2, <3>3
    <3> QED
      BY <3>2, <3>4, <3>5
  <2> QED
    BY <2>2, <2>3
<1>2. T \in G
  <2>1. \A U \in SUBSET DOMAIN s : (\A x \in U : U \ {x} \in G) => U \in G
    BY <1>1
  <2> HIDE DEF G
  <2>2. IsFiniteSet(DOMAIN s)
    BY DEF Numbers
  <2> QED
    BY <2>1, <2>2, SubsetInduction
<1> QED
  BY <1>2

LEMMA SumOnSame ==
  ASSUME NEW s, NEW t, IsFiniteSet(DOMAIN s), IsFiniteSet(DOMAIN t),
         NEW T \in SUBSET DOMAIN s, T \subseteq DOMAIN t, \A i \in T : s[i] = t[i]
  PROVE  SumOn(s, T) = SumOn(t, T)
<1> DEFINE G == {U \in SUBSET T : SumOn(s, U) = SumOn(t, U)}
<1>1. ASSUME NEW U \in SUBSET T, \A x \in U : U \ {x} \in G PROVE U \in G
  <2>0. U \in SUBSET DOMAIN s /\ U \in SUBSET DOMAIN t
    OBVIOUS
  <2>1. CASE U = {}
    BY <2>0, <2>1, SumOnStep
  <2>2. CASE U # {}
    <3>1. /\ Picked(U) \in U
          /\ SumOn(s, U) = s[Picked(U)] + SumOn(s, U \ {Picked(U)})
          /\ SumOn(t, U) = t[Picked(U)] + SumOn(t, U \ {Picked(U)})
      BY <2>0, <2>2, SumOnStep
    <3>2. SumOn(s, U \ {Picked(U)}) = SumOn(t, U \ {Picked(U)}) /\ s[Picked(U)] = t[Picked(U)]
      BY <1>1, <3>1
    <3> QED
      BY <3>1, <3>2
  <2> QED
    BY <2>1, <2>2
<1>2. T \in G
  <2>1. IsFiniteSet(T)
    BY FS_Subset
  <2> HIDE DEF G
  <2> QED
    BY <1>1, <2>1, SubsetInduction
<1> QED
  BY <1>2

LEMMA NumbersOfSeq ==
  ASSUME NEW q \in Seq(Int)
  PROVE  Numbers(q) /\ DOMAIN q = 1 .. Len(q) /\ Len(q) \in Nat
<1>1. DOMAIN q = 1 .. Len(q) /\ Len(q) \in Nat /\ \A i \in 1 .. Len(q) : q[i] \in Int
  OBVIOUS
<1>2. IsFiniteSet(1 .. Len(q))
  BY <1>1, FS_Interval
<1> QED
  BY <1>1, <1>2 DEF Numbers

LEMMA SumType == ASSUME NEW q, Numbers(q) PROVE SumOf(q) \in Int
BY SumIsOn, SumOnInt

LEMMA SumEmpty == SumOf(<<>>) = 0
<1>1. DOMAIN <<>> = {}
  OBVIOUS
<1>2. IsFiniteSet({})
  BY FS_EmptySet
<1>3. SumOn(<<>>, {}) = 0
  BY <1>1, <1>2, SumOnStep
<1> QED
  BY <1>1, <1>3, SumIsOn

LEMMA SumAppend ==
  ASSUME NEW q \in Seq(Int), NEW n \in Int
  PROVE  SumOf(Append(q, n)) = SumOf(q) + n
<1> DEFINE a == Append(q, n)
           k == Len(q) + 1
<1>1. /\ Numbers(q) /\ DOMAIN q = 1 .. Len(q) /\ Len(q) \in Nat
  BY NumbersOfSeq
<1>2. /\ a \in Seq(Int) /\ Len(a) = k /\ a[k] = n /\ \A i \in 1 .. Len(q) : a[i] = q[i]
  OBVIOUS
<1> HIDE DEF a
<1>3. Numbers(a) /\ DOMAIN a = 1 .. k /\ k \in 1 .. k /\ (1 .. k) \ {k} = 1 .. Len(q)
  BY <1>1, <1>2, NumbersOfSeq
<1>4. SumOn(a, 1 .. k) = n + SumOn(a, 1 .. Len(q))
  BY <1>2, <1>3, SumOnAny
<1>5. SumOn(a, 1 .. Len(q)) = SumOn(q, 1 .. Len(q))
  <2>1. IsFiniteSet(DOMAIN a) /\ IsFiniteSet(DOMAIN q)
    BY <1>1, <1>3 DEF Numbers
  <2>2. 1 .. Len(q) \in SUBSET DOMAIN a /\ 1 .. Len(q) \subseteq DOMAIN q
    BY <1>1, <1>3
  <2> QED
    BY <1>2, <2>1, <2>2, SumOnSame
<1>6. SumOn(q, 1 .. Len(q)) \in Int
  BY <1>1, SumOnInt
<1>7. SumOf(a) = SumOn(a, 1 .. k) /\ SumOf(q) = SumOn(q, 1 .. Len(q))
  BY <1>1, <1>3, SumIsOn
<1> QED
  BY <1>4, <1>5, <1>6, <1>7 DEF a

LEMMA SumExcept ==
  ASSUME NEW q, Numbers(q), NEW i \in DOMAIN q, NEW v \in Int
  PROVE  SumOf([q EXCEPT ![i] = v]) = SumOf(q) - q[i] + v
<1> DEFINE e == [q EXCEPT ![i] = v]
           D == DOMAIN q
<1>1. DOMAIN e = D /\ e[i] = v /\ \A j \in D \ {i} : e[j] = q[j]
  OBVIOUS
<1> HIDE DEF e
<1>2. Numbers(e) /\ IsFiniteSet(D)
  BY <1>1 DEF Numbers
<1>3. SumOn(e, D) = v + SumOn(e, D \ {i}) /\ SumOn(q, D) = q[i] + SumOn(q, D \ {i})
  BY <1>1, <1>2, SumOnAny
<1>4. SumOn(e, D \ {i}) = SumOn(q, D \ {i})
  <2>1. D \ {i} \in SUBSET DOMAIN e /\ D \ {i} \subseteq DOMAIN q /\ IsFiniteSet(DOMAIN e)
    BY <1>1, <1>2
  <2> QED
    BY <1>1, <1>2, <2>1, SumOnSame
<1>5. SumOn(q, D \ {i}) \in Int /\ q[i] \in Int
  BY SumOnInt DEF Numbers
<1>6. SumOf(e) = SumOn(e, D) /\ SumOf(q) = SumOn(q, D)
  BY <1>1, SumIsOn
<1> QED
  BY <1>3, <1>4, <1>5, <1>6 DEF e

\* A sum of natural numbers is at least each of them.
LEMMA SumNat ==
  ASSUME NEW q, Numbers(q), \A i \in DOMAIN q : q[i] >= 0
  PROVE  SumOf(q) \in Nat /\ \A i \in DOMAIN q : q[i] <= SumOf(q)
<1> DEFINE D == DOMAIN q
           G == {U \in SUBSET D : SumOn(q, U) \in Nat}
<1>1. ASSUME NEW U \in SUBSET D, \A x \in U : U \ {x} \in G PROVE U \in G
  <2>1. CASE U = {}
    <3>1. SumOn(q, U) = 0
      BY <2>1, SumOnStep DEF Numbers
    <3> QED
      BY <3>1
  <2>2. CASE U # {}
    <3>1. Picked(U) \in U /\ SumOn(q, U) = q[Picked(U)] + SumOn(q, U \ {Picked(U)})
      BY <2>2, SumOnStep DEF Numbers
    <3>2. SumOn(q, U \ {Picked(U)}) \in Nat /\ q[Picked(U)] \in Nat
      BY <1>1, <3>1 DEF Numbers
    <3> QED
      BY <3>1, <3>2
  <2> QED
    BY <2>1, <2>2
<1>2. \A U \in SUBSET D : SumOn(q, U) \in Nat
  <2>1. \A U \in SUBSET D : (\A x \in U : U \ {x} \in G) => U \in G
    BY <1>1
  <2>2. \A U \in SUBSET D : U \in G
    <3> HIDE DEF G
    <3>1. IsFiniteSet(D)
      BY DEF Numbers
    <3> QED
      BY <2>1, <3>1, SubsetInduction
  <2> QED
    BY <2>2
<1>3. SumOf(q) = SumOn(q, D)
  BY SumIsOn
<1>4. ASSUME NEW i \in D PROVE q[i] <= SumOf(q)
  <2>1. SumOn(q, D) = q[i] + SumOn(q, D \ {i})
    BY SumOnAny
  <2>2. SumOn(q, D \ {i}) \in Nat /\ q[i] \in Int
    BY <1>2 DEF Numbers
  <2> QED
    BY <1>3, <2>1, <2>2
<1> QED
  BY <1>2, <1>3, <1>4

-----------------------------------------------------------------------------
(* The packing of the samples                                                *)

Lengths(p) == [k \in DOMAIN p |-> Len(p[k])]

PackInv ==
  /\ packs \in Seq(Seq(SampleLens))
  /\ made \in Nat /\ kept \in Nat /\ batches \in Nat
  /\ PackingKept

LEMMA SampleLengths == SampleLens \subseteq Int /\ \A n \in SampleLens : n >= 1 /\ n <= MaxLen
<1>1. MaxLen \in Nat /\ SampleLens \subseteq 1 .. MaxLen
  BY TarAssumption
<1> QED
  BY <1>1

LEMMA WiderSeq ==
  ASSUME NEW S, NEW T, S \subseteq T, NEW s \in Seq(S)
  PROVE  s \in Seq(T)
OBVIOUS

LEMMA PacksType ==
  ASSUME packs \in Seq(Seq(SampleLens))
  PROVE  /\ DOMAIN packs = 1 .. Len(packs) /\ Len(packs) \in Nat
         /\ \A k \in 1 .. Len(packs) : /\ packs[k] \in Seq(SampleLens) /\ packs[k] \in Seq(Int)
                                       /\ SumOf(packs[k]) \in Int /\ Len(packs[k]) \in Nat
         /\ Lengths(packs) \in Seq(Int) /\ Numbers(Lengths(packs))
         /\ InBatch = SumOf(Lengths(packs)) /\ InBatch \in Int
<1>1. DOMAIN packs = 1 .. Len(packs) /\ Len(packs) \in Nat
  OBVIOUS
<1>2. ASSUME NEW k \in 1 .. Len(packs)
      PROVE  /\ packs[k] \in Seq(SampleLens) /\ packs[k] \in Seq(Int)
             /\ SumOf(packs[k]) \in Int /\ Len(packs[k]) \in Nat
  <2>1. packs[k] \in Seq(SampleLens)
    OBVIOUS
  <2>2. packs[k] \in Seq(Int) /\ Len(packs[k]) \in Nat
    <3>1. SampleLens \subseteq Int
      BY SampleLengths
    <3>2. packs[k] \in Seq(Int)
      BY ONLY <2>1, <3>1, WiderSeq
    <3> QED
      BY ONLY <3>2
  <2> QED
    BY <2>1, <2>2, NumbersOfSeq, SumType
<1>3. Lengths(packs) \in Seq(Int)
  BY <1>1, <1>2 DEF Lengths
<1>4. Numbers(Lengths(packs)) /\ InBatch = SumOf(Lengths(packs))
  BY <1>3, NumbersOfSeq DEF InBatch, Lengths
<1> QED
  BY <1>1, <1>2, <1>3, <1>4, SumType

\* The first pack with room for the sample has room for it.
LEMMA FirstFit ==
  ASSUME packs \in Seq(Seq(SampleLens)), NEW n \in SampleLens, Fitting(n) # {}
  PROVE  /\ Min(Fitting(n)) \in 1 .. Len(packs)
         /\ SumOf(packs[Min(Fitting(n))]) + n <= MaxLen
<1>1. Fitting(n) \in SUBSET Nat /\ Fitting(n) \subseteq 1 .. Len(packs)
  BY PacksType DEF Fitting
<1>2. \E x \in Fitting(n) : \A y \in Fitting(n) : x <= y
  BY <1>1, LeastNumber
<1>3. Min(Fitting(n)) \in Fitting(n)
  BY <1>2 DEF Min
<1> QED
  BY <1>1, <1>3 DEF Fitting, Fits

LEMMA PackAdded ==
  ASSUME PackInv, NEW i, NEW n \in SampleLens, AddToPack(i, n)
  PROVE  PackInv'
<1> DEFINE k == Min(Fitting(n))
           p == Append(packs[k], n)
<1>1. k \in 1 .. Len(packs) /\ SumOf(packs[k]) + n <= MaxLen
  BY FirstFit DEF AddToPack, PackInv
<1> HIDE DEF k
<1>2. /\ DOMAIN packs = 1 .. Len(packs) /\ Len(packs) \in Nat /\ packs \in Seq(Seq(SampleLens))
      /\ \A j \in 1 .. Len(packs) : /\ packs[j] \in Seq(SampleLens) /\ packs[j] \in Seq(Int)
                                    /\ SumOf(packs[j]) \in Int /\ Len(packs[j]) \in Nat
      /\ Lengths(packs) \in Seq(Int) /\ Numbers(Lengths(packs))
      /\ InBatch = SumOf(Lengths(packs)) /\ InBatch \in Int
  BY PacksType DEF PackInv
<1>3. n \in Int /\ n >= 1 /\ MaxLen \in Int
  BY SampleLengths, TarAssumption
<1>4. packs' = [packs EXCEPT ![k] = p] /\ made' = made + 1 /\ UNCHANGED <<kept, batches>>
  BY DEF AddToPack, k
<1>5. p \in Seq(SampleLens) /\ Len(p) = Len(packs[k]) + 1 /\ SumOf(p) = SumOf(packs[k]) + n
  BY <1>1, <1>2, <1>3, SumAppend
<1> HIDE DEF p
<1>6. /\ packs' \in Seq(Seq(SampleLens)) /\ DOMAIN packs' = 1 .. Len(packs) /\ packs'[k] = p
      /\ \A j \in 1 .. Len(packs) : j # k => packs'[j] = packs[j]
  BY <1>1, <1>2, <1>4, <1>5
<1>7. PacksTight'
  <2>1. /\ \A j, m \in 1 .. Len(packs) : /\ SumOf(packs[m]) <= MaxLen
                                         /\ j # m => SumOf(packs[j]) + SumOf(packs[m]) > MaxLen
    BY <1>2 DEF PackInv, PackingKept, PacksTight
  <2>2. \A j \in 1 .. Len(packs) : SumOf(packs'[j]) \in Int /\ SumOf(packs'[j]) >= SumOf(packs[j])
    <3> SUFFICES ASSUME NEW j \in 1 .. Len(packs)
                 PROVE  SumOf(packs'[j]) \in Int /\ SumOf(packs'[j]) >= SumOf(packs[j])
      OBVIOUS
    <3>1. SumOf(packs[j]) \in Int
      BY <1>2
    <3>2. CASE j = k
      BY <1>3, <1>5, <1>6, <3>1, <3>2
    <3>3. CASE j # k
      BY <1>6, <3>1, <3>3
    <3> QED
      BY <3>2, <3>3
  <2>3. \A j \in 1 .. Len(packs) : SumOf(packs'[j]) <= MaxLen
    BY <1>1, <1>5, <1>6, <2>1
  <2>4. ASSUME NEW j \in 1 .. Len(packs), NEW m \in 1 .. Len(packs), j # m
        PROVE  SumOf(packs'[j]) + SumOf(packs'[m]) > MaxLen
    <3>1. SumOf(packs[j]) + SumOf(packs[m]) > MaxLen /\ SumOf(packs[j]) \in Int
          /\ SumOf(packs[m]) \in Int
      BY <1>2, <2>1, <2>4
    <3>2. /\ SumOf(packs'[j]) \in Int /\ SumOf(packs'[j]) >= SumOf(packs[j])
          /\ SumOf(packs'[m]) \in Int /\ SumOf(packs'[m]) >= SumOf(packs[m])
      BY <2>2
    <3> QED
      BY <1>3, <3>1, <3>2
  <2> QED
    BY <1>6, <2>3, <2>4 DEF PacksTight
<1>8. InBatch' = InBatch + 1
  <2>1. Lengths(packs') = [Lengths(packs) EXCEPT ![k] = Len(packs[k]) + 1]
    BY <1>1, <1>2, <1>5, <1>6 DEF Lengths
  <2>2. Lengths(packs)[k] = Len(packs[k]) /\ k \in DOMAIN Lengths(packs) /\ Len(packs[k]) \in Nat
    BY <1>1, <1>2 DEF Lengths
  <2>3. ASSUME NEW q, Numbers(q), k \in DOMAIN q, NEW v \in Nat, q[k] = v
        PROVE  SumOf([q EXCEPT ![k] = v + 1]) = SumOf(q) + 1
    <3>1. SumOf([q EXCEPT ![k] = v + 1]) = SumOf(q) - q[k] + (v + 1)
      BY <2>3, SumExcept
    <3> QED
      BY <2>3, <3>1, SumType
  <2>4. SumOf([Lengths(packs) EXCEPT ![k] = Len(packs[k]) + 1]) = SumOf(Lengths(packs)) + 1
    BY <1>2, <2>2, <2>3
  <2>5. InBatch' = SumOf(Lengths(packs'))
    BY DEF InBatch, Lengths
  <2> QED
    BY <1>2, <2>1, <2>4, <2>5
<1>9. OneLostPerBatch'
  <2>1. made = kept + InBatch + batches /\ kept \in Nat /\ batches \in Nat /\ InBatch \in Int
    BY <1>2 DEF PackInv, PackingKept, OneLostPerBatch
  <2>2. made' = kept' + InBatch' + batches'
    BY <1>4, <1>8, <2>1
  <2> QED
    BY <2>2 DEF OneLostPerBatch
<1> QED
  BY <1>4, <1>6, <1>7, <1>9 DEF PackInv, PackingKept

LEMMA PackOpened ==
  ASSUME PackInv, NEW i, NEW n \in SampleLens, OpenPack(i, n)
  PROVE  PackInv'
<1> DEFINE z == Len(packs) + 1
<1>2. /\ DOMAIN packs = 1 .. Len(packs) /\ Len(packs) \in Nat /\ packs \in Seq(Seq(SampleLens))
      /\ \A j \in 1 .. Len(packs) : /\ packs[j] \in Seq(SampleLens) /\ packs[j] \in Seq(Int)
                                    /\ SumOf(packs[j]) \in Int /\ Len(packs[j]) \in Nat
      /\ Lengths(packs) \in Seq(Int) /\ Numbers(Lengths(packs))
      /\ InBatch = SumOf(Lengths(packs)) /\ InBatch \in Int
  BY PacksType DEF PackInv
<1>3. n \in Int /\ n >= 1 /\ n <= MaxLen /\ MaxLen \in Int
  BY SampleLengths, TarAssumption
<1>4. packs' = Append(packs, <<n>>) /\ made' = made + 1 /\ UNCHANGED <<kept, batches>>
  BY DEF OpenPack, NewPack
<1>5. <<n>> \in Seq(SampleLens) /\ Len(<<n>>) = 1 /\ SumOf(<<n>>) = n
  <2>1. <<>> \in Seq(Int) /\ Append(<<>>, n) = <<n>>
    OBVIOUS
  <2>2. SumOf(<<n>>) = SumOf(<<>>) + n
    BY <1>3, <2>1, SumAppend
  <2> QED
    BY <1>3, <2>2, SumEmpty
<1>6. /\ packs' \in Seq(Seq(SampleLens)) /\ DOMAIN packs' = 1 .. z /\ packs'[z] = <<n>>
      /\ \A j \in 1 .. Len(packs) : packs'[j] = packs[j]
  BY <1>2, <1>4, <1>5
<1>7. PacksTight'
  <2>1. /\ \A j, m \in 1 .. Len(packs) : /\ SumOf(packs[m]) <= MaxLen
                                         /\ j # m => SumOf(packs[j]) + SumOf(packs[m]) > MaxLen
    BY <1>2 DEF PackInv, PackingKept, PacksTight
  <2>2. ASSUME NEW j \in 1 .. Len(packs) PROVE SumOf(packs[j]) + n > MaxLen
    <3>1. ~ (SumOf(packs[j]) + n <= MaxLen)
      BY <1>2 DEF OpenPack, Fitting, Fits
    <3>2. SumOf(packs[j]) \in Int
      BY <1>2
    <3> QED
      BY <1>3, <3>1, <3>2
  <2>3. \A j \in 1 .. z : j = z \/ j \in 1 .. Len(packs)
    BY <1>2
  <2>4. \A j \in 1 .. z : SumOf(packs'[j]) <= MaxLen
    BY <1>3, <1>5, <1>6, <2>1, <2>3
  <2>5. ASSUME NEW j \in 1 .. z, NEW m \in 1 .. z, j # m
        PROVE  SumOf(packs'[j]) + SumOf(packs'[m]) > MaxLen
    <3>1. CASE j = z
      <4>1. m \in 1 .. Len(packs) /\ SumOf(packs'[m]) = SumOf(packs[m]) /\ SumOf(packs'[j]) = n
        BY <1>5, <1>6, <2>3, <2>5, <3>1
      <4>2. SumOf(packs[m]) + n > MaxLen /\ SumOf(packs[m]) \in Int
        BY <1>2, <2>2, <4>1
      <4> QED
        BY <1>3, <4>1, <4>2
    <3>2. CASE m = z
      <4>1. j \in 1 .. Len(packs) /\ SumOf(packs'[j]) = SumOf(packs[j]) /\ SumOf(packs'[m]) = n
        BY <1>5, <1>6, <2>3, <2>5, <3>2
      <4>2. SumOf(packs[j]) + n > MaxLen /\ SumOf(packs[j]) \in Int
        BY <1>2, <2>2, <4>1
      <4> QED
        BY <4>1, <4>2
    <3>3. CASE j # z /\ m # z
      BY <1>6, <2>1, <2>3, <2>5, <3>3
    <3> QED
      BY <3>1, <3>2, <3>3
  <2> QED
    BY <1>6, <2>4, <2>5 DEF PacksTight
<1>8. InBatch' = InBatch + 1
  <2>1. Lengths(packs') = Append(Lengths(packs), 1)
    <3>1. /\ Len(Lengths(packs)) = Len(packs)
          /\ \A j \in 1 .. Len(packs) : Lengths(packs)[j] = Len(packs[j])
      BY <1>2 DEF Lengths
    <3> DEFINE a == Append(Lengths(packs), 1)
    <3>2. /\ a = [j \in 1 .. Len(a) |-> a[j]] /\ Len(a) = z /\ a[z] = 1
          /\ \A j \in 1 .. Len(packs) : a[j] = Lengths(packs)[j]
      <4>1. ASSUME NEW q \in Seq(Int)
            PROVE  /\ Append(q, 1) \in Seq(Int) /\ Len(Append(q, 1)) = Len(q) + 1
                   /\ Append(q, 1)[Len(q) + 1] = 1
                   /\ \A j \in 1 .. Len(q) : Append(q, 1)[j] = q[j]
        OBVIOUS
      <4>2. ASSUME NEW q \in Seq(Int) PROVE q = [j \in 1 .. Len(q) |-> q[j]]
        OBVIOUS
      <4>3. Lengths(packs) \in Seq(Int)
        BY <1>2
      <4>4. /\ a \in Seq(Int) /\ Len(a) = z /\ a[z] = 1
            /\ \A j \in 1 .. Len(packs) : a[j] = Lengths(packs)[j]
        BY ONLY <3>1, <4>1, <4>3
      <4> HIDE DEF a
      <4> QED
        BY ONLY <4>2, <4>4
    <3> HIDE DEF a
    <3>3. Lengths(packs') = [j \in 1 .. z |-> Len(packs'[j])]
      BY <1>6 DEF Lengths
    <3>4. ASSUME NEW j \in 1 .. z PROVE Len(packs'[j]) = a[j]
      <4>1. CASE j = z
        BY <1>5, <1>6, <3>2, <4>1
      <4>2. CASE j \in 1 .. Len(packs)
        BY <1>6, <3>1, <3>2, <4>2
      <4> QED
        BY <1>2, <4>1, <4>2
    <3> QED
      BY <3>2, <3>3, <3>4 DEF a
  <2>2. SumOf(Lengths(packs')) = SumOf(Lengths(packs)) + 1
    BY <1>2, <2>1, SumAppend
  <2>3. InBatch' = SumOf(Lengths(packs'))
    BY DEF InBatch, Lengths
  <2> QED
    BY <1>2, <2>2, <2>3
<1>9. OneLostPerBatch'
  <2>1. made = kept + InBatch + batches /\ kept \in Nat /\ batches \in Nat /\ InBatch \in Int
    BY <1>2 DEF PackInv, PackingKept, OneLostPerBatch
  <2>2. made' = kept' + InBatch' + batches'
    BY <1>4, <1>8, <2>1
  <2> QED
    BY <2>2 DEF OneLostPerBatch
<1> QED
  BY <1>4, <1>6, <1>7, <1>9 DEF PackInv, PackingKept

LEMMA PackYielded ==
  ASSUME PackInv, NEW i, NEW n, YieldBatch(i, n)
  PROVE  PackInv'
<1>1. /\ packs' = <<>> /\ made' = made + 1 /\ kept' = kept + InBatch /\ batches' = batches + 1
  BY DEF YieldBatch
<1>2. InBatch \in Nat
  <2>1. /\ Numbers(Lengths(packs)) /\ InBatch = SumOf(Lengths(packs))
        /\ \A k \in DOMAIN Lengths(packs) : Lengths(packs)[k] >= 0
    BY PacksType DEF PackInv, Lengths
  <2> QED
    BY <2>1, SumNat
<1>3. InBatch' = 0
  <2>1. [k \in DOMAIN packs' |-> Len(packs'[k])] = <<>>
    BY <1>1
  <2> QED
    BY <2>1, SumEmpty DEF InBatch
<1>4. packs' \in Seq(Seq(SampleLens)) /\ PacksTight'
  BY <1>1 DEF PacksTight
<1>5. OneLostPerBatch'
  BY <1>1, <1>2, <1>3 DEF PackInv, PackingKept, OneLostPerBatch
<1> QED
  BY <1>1, <1>2, <1>4, <1>5 DEF PackInv, PackingKept

LEMMA PackStep == PackInv /\ [TarNext]_tarVars => PackInv'
<1> SUFFICES ASSUME PackInv, [TarNext]_tarVars PROVE PackInv'
  OBVIOUS
<1>1. CASE UNCHANGED <<packs, made, kept, batches>>
  <2>1. InBatch' = InBatch
    BY <1>1 DEF InBatch
  <2> QED
    BY <1>1, <2>1 DEF PackInv, PackingKept, PacksTight, OneLostPerBatch
<1>2. CASE \E i \in DOMAIN ratios : \E n \in SampleLens :
        AddToPack(i, n) \/ OpenPack(i, n) \/ YieldBatch(i, n)
  BY <1>2, PackAdded, PackOpened, PackYielded
<1> QED
  BY <1>1, <1>2 DEF TarNext, Configure, Skip, tarVars

(* DynamicPackingDataset, for all sample lengths and pack sizes: no pack is  *)
(* longer than max_length, no two packs would have fitted into one, and of   *)
(* the samples read exactly one is lost with every batch, the one that ended *)
(* it.                                                                       *)
THEOREM PackingIsKept == TarSpec => []PackingKept
<1>1. TarInit => PackInv
  <2> SUFFICES ASSUME TarInit PROVE PackInv
    OBVIOUS
  <2>1. packs = <<>> /\ made = 0 /\ kept = 0 /\ batches = 0
    BY DEF TarInit
  <2>2. InBatch = 0
    <3>1. [k \in DOMAIN packs |-> Len(packs[k])] = <<>>
      BY <2>1
    <3> QED
      BY <3>1, SumEmpty DEF InBatch
  <2>3. packs \in Seq(Seq(SampleLens)) /\ PacksTight
    BY <2>1 DEF PacksTight
  <2> QED
    BY <2>1, <2>2, <2>3 DEF PackInv, PackingKept, OneLostPerBatch
<1>2. PackInv => PackingKept
  BY DEF PackInv
<1> QED
  BY <1>1, <1>2, PackStep, PTL DEF TarSpec

-----------------------------------------------------------------------------
(* The mixture of the datasets                                               *)

LEMMA GreatestNumber ==
  ASSUME NEW m \in Nat, NEW T \in SUBSET (1 .. m), T # {}
  PROVE  Max(T) \in T /\ \A y \in T : Max(T) >= y
<1> DEFINE R == {m - y : y \in T}
<1>1. R \in SUBSET Nat /\ R # {}
  <2>1. \A y \in T : m - y \in Nat
    OBVIOUS
  <2>2. R \subseteq Nat
    BY <2>1
  <2>3. R # {}
    BY Zenon
  <2> QED
    BY <2>2, <2>3
<1>2. PICK x \in R : \A y \in R : x <= y
  BY <1>1, LeastNumber
<1>3. PICK z \in T : x = m - z
  BY <1>2
<1>4. \A y \in T : m - z <= m - y
  BY <1>2, <1>3
<1>5. \A y \in T : z >= y
  BY <1>4
<1>6. \E u \in T : \A y \in T : u >= y
  BY <1>5
<1> QED
  BY <1>6 DEF Max

LEMMA AtLeastOne ==
  ASSUME NEW x \in Int
  PROVE  Max({1, x}) \in Nat \ {0} /\ (x >= 1 => Max({1, x}) = x)
<1>1. \E u \in {1, x} : \A y \in {1, x} : u >= y
  <2>1. CASE x >= 1
    BY <2>1
  <2>2. CASE x < 1
    BY <2>2
  <2> QED
    BY <2>1, <2>2
<1>2. Max({1, x}) \in {1, x} /\ \A y \in {1, x} : Max({1, x}) >= y
  BY <1>1 DEF Max
<1> QED
  BY <1>2

\* What \div gives, and when there is no remainder.
LEMMA Quotient ==
  ASSUME NEW n \in Nat, NEW l \in Nat \ {0}
  PROVE  /\ n \div l \in Int /\ n % l \in 0 .. l - 1
         /\ n % l = 0 => n = l * (n \div l)
         /\ \A m \in Int : n <= l * m => n \div l <= m
         /\ \A m \in Int : n >= l * m => n \div l >= m
<1>1. PICK q \in Int, r \in 0 .. l - 1 : q = n \div l /\ r = n % l /\ n = l * q + r
  BY Divided
<1>2. ASSUME NEW m \in Int, n <= l * m PROVE q <= m
  <2> SUFFICES ASSUME q - m >= 1 PROVE FALSE
    OBVIOUS
  <2>1. l * q = l * m + l * (q - m) /\ l * m \in Int /\ l * q \in Int
    OBVIOUS
  <2>2. ASSUME NEW d \in Int, d >= 1 PROVE l * d >= l /\ l * d \in Int
    BY <2>2
  <2>3. l * (q - m) >= l /\ l * (q - m) \in Int
    BY <2>2
  <2> QED
    BY <1>1, <1>2, <2>1, <2>3
<1>3. ASSUME NEW m \in Int, n >= l * m PROVE q >= m
  <2> SUFFICES ASSUME m - q >= 1 PROVE FALSE
    OBVIOUS
  <2>1. l * m = l * q + l * (m - q) /\ l * m \in Int /\ l * q \in Int
    OBVIOUS
  <2>2. ASSUME NEW d \in Int, d >= 1 PROVE l * d >= l /\ l * d \in Int
    BY <2>2
  <2>3. l * (m - q) >= l /\ l * (m - q) \in Int
    BY <2>2
  <2> QED
    BY <1>1, <1>3, <2>1, <2>3
<1>4. r = 0 => n = l * q
  BY <1>1
<1> QED
  BY <1>1, <1>2, <1>3, <1>4

\* An exact quotient of a positive number.
LEMMA ExactQuotient ==
  ASSUME NEW n \in Nat \ {0}, NEW l \in Nat \ {0}, n % l = 0
  PROVE  n \div l \in Nat \ {0} /\ n = l * (n \div l)
<1>1. n \div l \in Int /\ n = l * (n \div l)
  BY Quotient
<1>2. ASSUME NEW q \in Int, n = l * q PROVE q >= 1
  <2> SUFFICES ASSUME q <= 0 PROVE l * q <= 0
    BY <1>2
  <2> QED
    OBVIOUS
<1> QED
  BY <1>1, <1>2

LEMMA RoundType ==
  ASSUME NEW n \in Nat, NEW d \in Nat \ {0}
  PROVE  Round(n, d) \in Int /\ (n % d = 0 => Round(n, d) = n \div d)
<1>1. n \div d \in Int /\ n % d \in Int
  BY Quotient
<1>2. n % d = 0 => 2 * (n % d) < d
  OBVIOUS
<1> QED
  BY <1>1, <1>2 DEF Round

\* The ratios of a table: positive, and so is their sum.
LEMMA RatioType ==
  ASSUME NEW r \in RatioTables
  PROVE  /\ DOMAIN r = 1 .. Len(r) /\ Len(r) \in Nat \ {0}
         /\ \A i \in DOMAIN r : r[i] \in Nat \ {0}
         /\ SumOf(r) \in Nat \ {0}
         /\ \A i \in DOMAIN r : BaseCycle * r[i] \in Nat \ {0}
<1>1. r \in Seq(Nat \ {0}) /\ r # <<>>
  BY TarAssumption
<1>2. DOMAIN r = 1 .. Len(r) /\ Len(r) \in Nat \ {0} /\ \A i \in DOMAIN r : r[i] \in Nat \ {0}
  BY ONLY <1>1
<1>3. r \in Seq(Int)
  <2>1. Nat \ {0} \subseteq Int
    OBVIOUS
  <2> QED
    BY ONLY <1>1, <2>1, WiderSeq
<1>4. SumOf(r) \in Nat /\ r[1] <= SumOf(r)
  <2>1. Numbers(r)
    BY <1>3, NumbersOfSeq
  <2>2. \A i \in DOMAIN r : r[i] >= 0
    BY <1>2
  <2>3. 1 \in DOMAIN r
    BY <1>2
  <2> QED
    BY ONLY <2>1, <2>2, <2>3, SumNat
<1>5. r[1] \in Nat \ {0}
  BY <1>2
<1>6. BaseCycle \in Nat \ {0}
  BY TarAssumption
<1>7. ASSUME NEW a \in Nat \ {0}, NEW b \in Nat \ {0} PROVE a * b \in Nat \ {0}
  BY ONLY <1>7
<1> QED
  BY <1>2, <1>4, <1>5, <1>6, <1>7

LEMMA RawTargetsType ==
  ASSUME NEW r \in RatioTables
  PROVE  /\ RawTargets(r) \in [DOMAIN r -> Nat \ {0}]
         /\ \A i \in DOMAIN r : (BaseCycle * r[i]) % SumOf(r) = 0 =>
              SumOf(r) * RawTargets(r)[i] = BaseCycle * r[i]
<1>1. ASSUME NEW i \in DOMAIN r
      PROVE  /\ RawTargets(r)[i] = Max({1, Round(BaseCycle * r[i], SumOf(r))})
             /\ RawTargets(r)[i] \in Nat \ {0}
             /\ (BaseCycle * r[i]) % SumOf(r) = 0 =>
                   SumOf(r) * RawTargets(r)[i] = BaseCycle * r[i]
  <2> DEFINE n == BaseCycle * r[i]
             d == SumOf(r)
  <2>1. n \in Nat \ {0} /\ d \in Nat \ {0}
    BY RatioType
  <2>2. RawTargets(r)[i] = Max({1, Round(n, d)})
    BY DEF RawTargets
  <2> HIDE DEF n, d
  <2>3. Round(n, d) \in Int /\ (n % d = 0 => Round(n, d) = n \div d)
    BY <2>1, RoundType
  <2>4. n % d = 0 => n \div d \in Nat \ {0} /\ n = d * (n \div d)
    BY <2>1, ExactQuotient
  <2>5. /\ Max({1, Round(n, d)}) \in Nat \ {0}
        /\ Round(n, d) >= 1 => Max({1, Round(n, d)}) = Round(n, d)
    BY <2>3, AtLeastOne
  <2>6. n % d = 0 => d * RawTargets(r)[i] = n
    BY <2>2, <2>3, <2>4, <2>5
  <2> QED
    BY <2>2, <2>5, <2>6 DEF n, d
<1>2. RawTargets(r) = [i \in DOMAIN r |-> RawTargets(r)[i]]
  BY DEF RawTargets
<1> QED
  BY <1>1, <1>2

LEMMA DivisorType ==
  ASSUME NEW D, 1 \in D, NEW t \in [D -> Nat \ {0}]
  PROVE  Divisor(t) \in Nat \ {0} /\ \A i \in D : t[i] % Divisor(t) = 0
<1> DEFINE K == {k \in 1 .. t[1] : \A i \in DOMAIN t : t[i] % k = 0}
<1>1. t[1] \in Nat /\ 1 \in 1 .. t[1] /\ DOMAIN t = D
  OBVIOUS
<1>2. 1 \in K
  <2>1. \A n \in Nat : n % 1 = 0
    OBVIOUS
  <2> QED
    BY <1>1, <2>1
<1>3. Divisor(t) = Max(K)
  BY DEF Divisor
<1>4. Max(K) \in K
  <2>1. K \in SUBSET (1 .. t[1]) /\ K # {}
    BY <1>2
  <2> HIDE DEF K
  <2> QED
    BY <1>1, <2>1, GreatestNumber
<1> QED
  BY <1>1, <1>3, <1>4

\* The reduced cycle keeps the proportions of the raw one.
LEMMA TargetsType ==
  ASSUME NEW r \in RatioTables
  PROVE  /\ Targets(r) \in [DOMAIN r -> Nat \ {0}]
         /\ \/ Targets(r) = RawTargets(r)
            \/ \E g \in Nat \ {0} : \A i \in DOMAIN r : RawTargets(r)[i] = g * Targets(r)[i]
<1> DEFINE D == DOMAIN r
           raw == RawTargets(r)
           g == Divisor(raw)
           red == [i \in DOMAIN r |-> Max({1, raw[i] \div g})]
<1>1. raw \in [D -> Nat \ {0}] /\ 1 \in D
  BY RawTargetsType, RatioType
<1>2. g \in Nat \ {0} /\ \A i \in D : raw[i] % g = 0
  BY <1>1, DivisorType
<1>3. Targets(r) = raw \/ Targets(r) = red
  BY DEF Targets
<1> HIDE DEF raw, g
<1>4. ASSUME NEW i \in D
      PROVE  red[i] \in Nat \ {0} /\ raw[i] = g * red[i]
  <2>1. raw[i] \in Nat \ {0} /\ raw[i] % g = 0
    BY <1>1, <1>2
  <2>2. raw[i] \div g \in Nat \ {0} /\ raw[i] = g * (raw[i] \div g)
    BY <1>2, <2>1, ExactQuotient
  <2>3. Max({1, raw[i] \div g}) = raw[i] \div g
    BY <2>2, AtLeastOne
  <2> QED
    BY <2>2, <2>3
<1>5. red \in [D -> Nat \ {0}]
  BY <1>4
<1> HIDE DEF red
<1> QED
  BY <1>1, <1>2, <1>3, <1>4, <1>5 DEF raw

LEMMA Cancelled ==
  ASSUME NEW k \in Nat \ {0}, NEW a \in Nat, NEW b \in Nat, k * a = k * b
  PROVE  a = b
<1>1. ASSUME NEW d \in Int, d >= 1 PROVE k * d >= 1
  BY <1>1
<1>2. k * (a - b) = 0 /\ k * (b - a) = 0
  OBVIOUS
<1>3. ~ (a - b >= 1) /\ ~ (b - a >= 1)
  BY <1>1, <1>2
<1> QED
  BY <1>3

\* Where BaseCycle can be divided that way, the cycle has the proportions of
\* the ratios.
LEMMA TargetsProportional ==
  ASSUME NEW r \in RatioTables, \A i \in DOMAIN r : (BaseCycle * r[i]) % SumOf(r) = 0
  PROVE  \A i, j \in DOMAIN r : Targets(r)[i] * r[j] = Targets(r)[j] * r[i]
<1> SUFFICES ASSUME NEW i \in DOMAIN r, NEW j \in DOMAIN r
             PROVE  Targets(r)[i] * r[j] = Targets(r)[j] * r[i]
  OBVIOUS
<1> DEFINE a == RawTargets(r)[i]
           b == RawTargets(r)[j]
           x == r[i]
           y == r[j]
           S == SumOf(r)
<1>1. /\ a \in Nat /\ b \in Nat /\ S * a = BaseCycle * x /\ S * b = BaseCycle * y
  BY RawTargetsType
<1>2. x \in Nat /\ y \in Nat /\ S \in Nat \ {0} /\ BaseCycle \in Nat
  BY RatioType, TarAssumption
<1> HIDE DEF a, b, x, y, S
<1>3. a * y = b * x
  <2>1. a * y \in Nat /\ b * x \in Nat
    BY ONLY <1>1, <1>2
  <2>2. S * (a * y) = (S * a) * y /\ S * (b * x) = (S * b) * x
    BY ONLY <1>1, <1>2
  <2>3. (BaseCycle * x) * y = (BaseCycle * y) * x
    BY ONLY <1>2
  <2>4. S * (a * y) = S * (b * x)
    BY ONLY <1>1, <2>2, <2>3
  <2> QED
    BY ONLY <1>2, <2>1, <2>4, Cancelled
<1>4. CASE Targets(r) = RawTargets(r)
  BY <1>3, <1>4 DEF a, b, x, y
<1>5. CASE \E g \in Nat \ {0} : \A k \in DOMAIN r : RawTargets(r)[k] = g * Targets(r)[k]
  <2>1. PICK g \in Nat \ {0} : a = g * Targets(r)[i] /\ b = g * Targets(r)[j]
    BY <1>5 DEF a, b
  <2> DEFINE u == Targets(r)[i]
             v == Targets(r)[j]
  <2>2. u \in Nat /\ v \in Nat /\ a = g * u /\ b = g * v
    BY <2>1, TargetsType
  <2> HIDE DEF u, v
  <2>3. u * y \in Nat /\ v * x \in Nat
    BY ONLY <1>2, <2>2
  <2>4. g * (u * y) = (g * u) * y /\ g * (v * x) = (g * v) * x
    BY ONLY <1>2, <2>2
  <2>5. g * (u * y) = g * (v * x)
    BY ONLY <1>3, <2>2, <2>4
  <2>6. u * y = v * x
    BY ONLY <2>3, <2>5, Cancelled
  <2> QED
    BY <2>6 DEF u, v, x, y
<1> QED
  BY <1>4, <1>5, TargetsType

\* Every dataset has been drawn from in c whole cycles and, but for what
\* remains, in one more.
Cycles(c) == \A i \in DOMAIN ratios : drawn[i] + remaining[i] = targets[i] * (c + 1)

MixInv ==
  packing # "off" =>
    /\ ratios \in RatioTables /\ targets = Targets(ratios)
    /\ targets \in [DOMAIN ratios -> Nat \ {0}]
    /\ remaining \in [DOMAIN ratios -> Nat] /\ drawn \in [DOMAIN ratios -> Nat]
    /\ \A i \in DOMAIN ratios : remaining[i] <= targets[i]
    /\ \E c \in Nat : Cycles(c)

LEMMA UsedUp ==
  ASSUME ratios \in RatioTables, remaining \in [DOMAIN ratios -> Nat], SumOf(remaining) = 0
  PROVE  \A i \in DOMAIN ratios : remaining[i] = 0
<1>1. IsFiniteSet(DOMAIN remaining)
  <2>1. DOMAIN remaining = 1 .. Len(ratios) /\ Len(ratios) \in Nat
    BY RatioType
  <2> QED
    BY <2>1, FS_Interval
<1>2. Numbers(remaining) /\ \A i \in DOMAIN remaining : remaining[i] >= 0
  BY <1>1 DEF Numbers
<1>3. \A i \in DOMAIN remaining : remaining[i] <= 0
  BY <1>2, SumNat
<1> QED
  BY <1>3

LEMMA MixDraw ==
  ASSUME MixInv, NEW i \in DOMAIN ratios, Draw(i)
  PROVE  MixInv'
<1> DEFINE D == DOMAIN ratios
<1>1. /\ ratios \in RatioTables /\ targets = Targets(ratios)
      /\ targets \in [D -> Nat \ {0}] /\ remaining \in [D -> Nat] /\ drawn \in [D -> Nat]
      /\ \A k \in D : remaining[k] <= targets[k]
  BY DEF MixInv, Draw
<1>2. PICK c \in Nat : Cycles(c)
  BY DEF MixInv, Draw
<1>3. /\ UNCHANGED <<ratios, targets>> /\ drawn' = [drawn EXCEPT ![i] = @ + 1]
      /\ remaining' = [Quotas EXCEPT ![i] = @ - 1] /\ Quotas[i] > 0
  BY DEF Draw, Open
<1>4. PICK m \in Nat : \A k \in D : drawn[k] + Quotas[k] = targets[k] * (m + 1)
  <2>1. CASE SumOf(remaining) = 0
    <3>1. Quotas = targets
      BY <2>1 DEF Quotas
    <3>2. ASSUME NEW k \in D PROVE drawn[k] + Quotas[k] = targets[k] * ((c + 1) + 1)
      <4>1. remaining[k] = 0
        BY <1>1, <2>1, UsedUp
      <4>2. drawn[k] \in Nat /\ targets[k] \in Nat
        BY <1>1
      <4>3. drawn[k] = targets[k] * (c + 1)
        BY <1>2, <4>1, <4>2 DEF Cycles
      <4>4. ASSUME NEW t \in Nat PROVE t * (c + 1) + t = t * ((c + 1) + 1)
        BY ONLY <1>2, <4>4
      <4> QED
        BY <3>1, <4>2, <4>3, <4>4
    <3>3. c + 1 \in Nat
      BY <1>2
    <3> QED
      BY <3>2, <3>3
  <2>2. CASE SumOf(remaining) # 0
    BY <1>2, <2>2 DEF Quotas, Cycles
  <2> QED
    BY <2>1, <2>2
<1>5. Quotas \in [D -> Nat] /\ \A k \in D : Quotas[k] <= targets[k]
  BY <1>1 DEF Quotas
<1>6. /\ remaining' \in [D -> Nat] /\ drawn' \in [D -> Nat]
      /\ \A k \in D : /\ remaining'[k] = IF k = i THEN Quotas[k] - 1 ELSE Quotas[k]
                      /\ drawn'[k] = IF k = i THEN drawn[k] + 1 ELSE drawn[k]
  BY <1>1, <1>3, <1>5
<1>7. \A k \in D : remaining'[k] <= targets'[k]
  BY <1>1, <1>3, <1>5, <1>6
<1>8. Cycles(m)'
  <2> SUFFICES ASSUME NEW k \in D PROVE drawn'[k] + remaining'[k] = targets[k] * (m + 1)
    BY <1>3 DEF Cycles
  <2>1. drawn[k] \in Nat /\ Quotas[k] \in Nat
    BY <1>1, <1>5
  <2>2. drawn'[k] + remaining'[k] = drawn[k] + Quotas[k]
    BY <1>6, <2>1
  <2> QED
    BY <1>4, <2>2
<1>9. \E n \in Nat : Cycles(n)'
  BY <1>8
<1> QED
  BY <1>1, <1>3, <1>6, <1>7, <1>9 DEF MixInv, Cycles

LEMMA MixStart ==
  ASSUME Configure
  PROVE  MixInv'
<1>1. PICK r \in RatioTables :
        /\ ratios' = r /\ targets' = Targets(r)
        /\ remaining' = targets' /\ drawn' = [i \in DOMAIN r |-> 0]
  BY DEF Configure
<1>2. Targets(r) \in [DOMAIN r -> Nat \ {0}]
  BY TargetsType
<1>3. Cycles(0)'
  BY <1>1, <1>2 DEF Cycles
<1>4. \E c \in Nat : Cycles(c)'
  BY <1>3
<1> QED
  BY <1>1, <1>2, <1>4 DEF MixInv, Cycles

LEMMA MixStep == MixInv /\ [TarNext]_tarVars => MixInv'
<1> SUFFICES ASSUME MixInv, [TarNext]_tarVars PROVE MixInv'
  OBVIOUS
<1>1. CASE UNCHANGED tarVars
  BY <1>1 DEF MixInv, Cycles, tarVars
<1>2. CASE Configure
  BY <1>2, MixStart
<1>3. CASE \E i \in DOMAIN ratios : Draw(i)
  BY <1>3, MixDraw
<1> QED
  BY <1>1, <1>2, <1>3 DEF TarNext, Skip, AddToPack, OpenPack, YieldBatch

LEMMA MixImplies == MixInv => MixtureKept
<1> SUFFICES ASSUME MixInv, packing # "off" PROVE MixtureKept
  BY DEF MixtureKept, RatiosKept, DrawnInCycles, CycleEnd
<1> DEFINE D == DOMAIN ratios
<1>1. /\ ratios \in RatioTables /\ targets = Targets(ratios)
      /\ targets \in [D -> Nat \ {0}] /\ remaining \in [D -> Nat] /\ drawn \in [D -> Nat]
      /\ \A k \in D : remaining[k] <= targets[k]
  BY DEF MixInv
<1>2. PICK c \in Nat : Cycles(c)
  BY DEF MixInv
<1>3. ASSUME NEW i \in D
      PROVE  drawn[i] \div targets[i] \in Int /\ drawn[i] \div targets[i] <= c + 1
             /\ drawn[i] \div targets[i] >= c
  <2> DEFINE n == drawn[i]
             t == targets[i]
             q == remaining[i]
  <2>1. n \in Nat /\ t \in Nat \ {0} /\ q \in Nat /\ q <= t /\ n + q = t * (c + 1)
    BY <1>1, <1>2 DEF Cycles
  <2> HIDE DEF n, t, q
  <2>2. t * (c + 1) = t * c + t /\ t * c \in Nat
    BY ONLY <1>2, <2>1
  <2>3. n <= t * (c + 1) /\ n >= t * c
    BY ONLY <2>1, <2>2
  <2>4. /\ n \div t \in Int
        /\ \A m \in Int : n <= t * m => n \div t <= m
        /\ \A m \in Int : n >= t * m => n \div t >= m
    BY ONLY <2>1, Quotient
  <2>5. c \in Int /\ c + 1 \in Int
    BY ONLY <1>2
  <2>6. n \div t <= c + 1
    BY ONLY <2>3, <2>4, <2>5
  <2>7. n \div t >= c
    BY ONLY <2>3, <2>4, <2>5
  <2> QED
    BY <2>4, <2>6, <2>7 DEF n, t
<1>4. DrawnInCycles
  <2> SUFFICES ASSUME NEW i \in D, NEW j \in D
               PROVE  drawn[i] \div targets[i] <= (drawn[j] \div targets[j]) + 1
    BY DEF DrawnInCycles
  <2> QED
    BY <1>3
<1>5. RatiosKept
  <2> SUFFICES ASSUME SumOf(remaining) = 0,
                      \A i \in D : (BaseCycle * ratios[i]) % SumOf(ratios) = 0,
                      NEW i \in D, NEW j \in D
               PROVE  drawn[i] * ratios[j] = drawn[j] * ratios[i]
    BY DEF RatiosKept, CycleEnd
  <2> DEFINE x == ratios[i]
             y == ratios[j]
             u == targets[i]
             v == targets[j]
             m == c + 1
  <2>1. x \in Nat /\ y \in Nat /\ u \in Nat /\ v \in Nat /\ m \in Nat
    BY <1>1, <1>2, RatioType
  <2>2. u * y = v * x
    BY <1>1, TargetsProportional
  <2>3. drawn[i] = u * m /\ drawn[j] = v * m
    <3>1. remaining[i] = 0 /\ remaining[j] = 0
      BY <1>1, UsedUp
    <3>2. drawn[i] \in Nat /\ drawn[j] \in Nat
      BY <1>1
    <3>3. drawn[i] + remaining[i] = u * m /\ drawn[j] + remaining[j] = v * m
      BY <1>2 DEF Cycles
    <3> QED
      BY <3>1, <3>2, <3>3
  <2> HIDE DEF x, y, u, v, m
  <2>4. (u * m) * y = (u * y) * m /\ (v * m) * x = (v * x) * m
    BY ONLY <2>1
  <2>5. (u * m) * y = (v * m) * x
    BY ONLY <2>2, <2>4
  <2> QED
    BY <2>3, <2>5 DEF x, y
<1> QED
  BY <1>4, <1>5 DEF MixtureKept

(* TarDataset, for every table of ratios and length of cycle: whatever is    *)
(* skipped, no dataset runs more than a cycle ahead of another, and at the   *)
(* end of each cycle they have been drawn from in the proportion of          *)
(* train_sampling_ratios, if base_cycle can be divided that way.             *)
THEOREM MixtureIsKept == TarSpec => []MixtureKept
<1>1. TarInit => MixInv
  BY DEF TarInit, MixInv
<1> QED
  BY <1>1, MixStep, MixImplies, PTL DEF TarSpec

-----------------------------------------------------------------------------
(* The score of an answer                                                    *)

LEMMA AddUpIsOn == ASSUME NEW s PROVE AddUp(s) = SumOn(s, DOMAIN s)
BY DEF AddUp, FoldFunction, FoldFunctionOnSet, MapThenFoldSet, SumOn, Fold, Picked

LEMMA Scaled ==
  ASSUME NEW f \in Nat, NEW a \in Int, NEW b \in Int
  PROVE  f * (a + b) = f * a + f * b /\ f * a \in Int /\ f * b \in Int
OBVIOUS

\* A sum is at most f times another, if each of its numbers is at most f times
\* the one at the same place, and those without one add nothing.
LEMMA SumBelow ==
  ASSUME NEW q, Numbers(q), NEW w, Numbers(w), NEW f \in Nat,
         \A x \in DOMAIN w : f * w[x] >= 0,
         \A x \in DOMAIN q : IF x \in DOMAIN w THEN q[x] <= f * w[x] ELSE q[x] <= 0
  PROVE  AddUp(q) <= f * AddUp(w)
<1> DEFINE Q == DOMAIN q
           W == DOMAIN w
           Below(T) == SumOn(q, T \cap Q) <= f * SumOn(w, T \cap W)
           G == {T \in SUBSET (Q \cup W) : Below(T)}
<1>1. ASSUME NEW T \in SUBSET (Q \cup W), \A x \in T : T \ {x} \in G PROVE T \in G
  <2> DEFINE a == SumOn(q, T \cap Q)
             b == SumOn(w, T \cap W)
  <2>1. CASE T = {}
    <3>1. T \cap Q = {} /\ T \cap W = {}
      BY <2>1
    <3>2. a = 0 /\ b = 0
      BY <3>1, SumOnStep DEF Numbers
    <3> QED
      BY <3>2
  <2>2. CASE T # {}
    <3>1. PICK x \in T : T \ {x} \in G
      BY <1>1, <2>2
    <3> DEFINE U == T \ {x}
               c == SumOn(q, U \cap Q)
               d == SumOn(w, U \cap W)
    <3>2. a \in Int /\ b \in Int /\ c \in Int /\ d \in Int
      <4>1. /\ T \cap Q \in SUBSET Q /\ U \cap Q \in SUBSET Q
            /\ T \cap W \in SUBSET W /\ U \cap W \in SUBSET W
        OBVIOUS
      <4> QED
        BY <4>1, SumOnInt
    <3>3. c <= f * d
      BY <3>1
    <3>4. /\ x \in Q => a = q[x] + c /\ q[x] \in Int
          /\ x \notin Q => a = c
      <4>1. (T \cap Q) \ {x} = U \cap Q /\ T \cap Q \in SUBSET Q
        OBVIOUS
      <4>2. CASE x \in Q
        <5>1. a = q[x] + SumOn(q, (T \cap Q) \ {x})
          BY <4>1, <4>2, SumOnAny
        <5> QED
          BY <4>1, <4>2, <5>1 DEF Numbers
      <4>3. CASE x \notin Q
        <5>1. T \cap Q = U \cap Q
          BY <4>3
        <5> QED
          BY <4>3, <5>1
      <4> QED
        BY <4>2, <4>3
    <3>5. /\ x \in W => b = w[x] + d /\ w[x] \in Int
          /\ x \notin W => b = d
      <4>1. (T \cap W) \ {x} = U \cap W /\ T \cap W \in SUBSET W
        OBVIOUS
      <4>2. CASE x \in W
        <5>1. b = w[x] + SumOn(w, (T \cap W) \ {x})
          BY <4>1, <4>2, SumOnAny
        <5> QED
          BY <4>1, <4>2, <5>1 DEF Numbers
      <4>3. CASE x \notin W
        <5>1. T \cap W = U \cap W
          BY <4>3
        <5> QED
          BY <4>3, <5>1
      <4> QED
        BY <4>2, <4>3
    <3>6. x \in Q \/ x \in W
      OBVIOUS
    <3> HIDE DEF a, b, c, d, U
    <3>7. a <= f * b
      <4>1. CASE x \in W
        <5>1. f * b = f * w[x] + f * d /\ f * w[x] \in Int /\ f * d \in Int
          BY <3>2, <3>5, <4>1, Scaled
        <5>2. f * w[x] >= 0 /\ (x \in Q => q[x] <= f * w[x])
          BY <4>1
        <5> QED
          BY <3>2, <3>3, <3>4, <5>1, <5>2
      <4>2. CASE x \notin W
        <5>1. x \in Q /\ q[x] <= 0 /\ b = d /\ f * d \in Int
          BY <3>2, <3>5, <3>6, <4>2, Scaled
        <5> QED
          BY <3>2, <3>3, <3>4, <5>1
      <4> QED
        BY <4>1, <4>2
    <3> QED
      BY <3>7 DEF a, b
  <2> QED
    BY <2>1, <2>2
<1>2. IsFiniteSet(Q \cup W)
  BY FS_Union DEF Numbers
<1>3. Q \cup W \in G
  <2>1. \A T \in SUBSET (Q \cup W) : (\A x \in T : T \ {x} \in G) => T \in G
    BY <1>1
  <2> DEFINE D == Q \cup W
  <2> HIDE DEF G, D
  <2>2. \A T \in SUBSET D : T \in G
    BY <1>2, <2>1, SubsetInduction DEF D
  <2>3. D \in G
    BY <2>2
  <2> QED
    BY <2>3 DEF D
<1>4. (Q \cup W) \cap Q = Q /\ (Q \cup W) \cap W = W
  OBVIOUS
<1>5. SumOn(q, Q) <= f * SumOn(w, W)
  BY <1>3, <1>4
<1> QED
  BY <1>5, AddUpIsOn

\* Numbers are added up to the same under other names, if no name is given twice.
LEMMA SumRenamed ==
  ASSUME NEW q, Numbers(q), NEW g, Numbers(g), NEW r,
         \A x \in DOMAIN q : r[x] \in DOMAIN g /\ q[x] = g[r[x]],
         \A x, y \in DOMAIN q : r[x] = r[y] => x = y,
         DOMAIN g = {r[x] : x \in DOMAIN q}
  PROVE  AddUp(q) = AddUp(g)
<1> DEFINE Named(T) == {r[x] : x \in T}
           G == {T \in SUBSET DOMAIN q : SumOn(q, T) = SumOn(g, Named(T))}
<1>1. ASSUME NEW T \in SUBSET DOMAIN q, \A x \in T : T \ {x} \in G PROVE T \in G
  <2>1. CASE T = {}
    <3>1. Named(T) = {} /\ Named(T) \in SUBSET DOMAIN g
      BY <2>1
    <3> HIDE DEF Named
    <3>2. SumOn(q, T) = 0 /\ SumOn(g, Named(T)) = 0
      BY <2>1, <3>1, SumOnStep DEF Numbers
    <3> QED
      BY <3>2
  <2>2. CASE T # {}
    <3>1. PICK x \in T : T \ {x} \in G
      BY <1>1, <2>2
    <3>2. Named(T) \in SUBSET DOMAIN g /\ r[x] \in Named(T)
      OBVIOUS
    <3>3. Named(T) \ {r[x]} = Named(T \ {x})
      OBVIOUS
    <3>4. SumOn(q, T) = q[x] + SumOn(q, T \ {x})
      BY SumOnAny
    <3>5. SumOn(q, T \ {x}) = SumOn(g, Named(T \ {x})) /\ q[x] = g[r[x]]
      BY <3>1
    <3> HIDE DEF Named, G
    <3>6. SumOn(g, Named(T)) = g[r[x]] + SumOn(g, Named(T) \ {r[x]})
      BY <3>2, SumOnAny
    <3>7. SumOn(q, T) = SumOn(g, Named(T))
      BY <3>3, <3>4, <3>5, <3>6
    <3> QED
      BY <3>7 DEF G
  <2> QED
    BY <2>1, <2>2
<1>2. DOMAIN q \in G
  <2>1. \A T \in SUBSET DOMAIN q : (\A x \in T : T \ {x} \in G) => T \in G
    BY <1>1
  <2> HIDE DEF G
  <2>2. IsFiniteSet(DOMAIN q)
    BY DEF Numbers
  <2>3. \A T \in SUBSET DOMAIN q : T \in G
    BY ONLY <2>1, <2>2, SubsetInduction
  <2> QED
    BY <2>3
<1>3. Named(DOMAIN q) = DOMAIN g
  OBVIOUS
<1> QED
  BY <1>2, <1>3, AddUpIsOn

\* The names of rewards.
Names == {"format", "spatial_xy", "accuracy"} \cup UNION {ToSet(r) : r \in RewardLists}

\* Where compute_score is, and what it has by then.
ScoreInv ==
  /\ scoring \in {"start", "format", "xy", "gated", "accuracy", "rest", "done", "raised"}
  /\ scoring = "start" => format_value = NotAsked /\ Computed = {}
  /\ scoring # "start" => reward_list \in RewardLists /\ given \in WeightTables
  /\ \A k \in Computed : reward_scores[k] \in 0 .. FullScore
  /\ called \in Seq(Names) /\ IsInjective(called)
  /\ \A i \in DOMAIN called :
       called[i] \in Computed \/ (scoring = "raised" /\ called[i] = "accuracy")
  /\ scoring \in {"start", "format"} => called = <<>> /\ Computed = {} /\ format_value = NotAsked
  /\ scoring = "format" => "format" \in Wanted
  /\ scoring = "xy" => {"format", "spatial_xy"} \subseteq Wanted /\ Computed = {"format"}
  /\ scoring = "gated" => {"format", "spatial_xy", "accuracy"} \subseteq Wanted
                          /\ Computed = {"format", "spatial_xy"}
  /\ scoring = "accuracy" => /\ "accuracy" \notin Computed /\ "spatial_xy" \notin Computed
                             /\ ~ ({"format", "spatial_xy"} \subseteq Wanted)
  /\ scoring \in {"xy", "gated", "accuracy", "rest"} =>
       format_value = IF "format" \in Wanted THEN FullScore ELSE NotAsked
  /\ scoring = "raised" => format_value # 0
  /\ scoring # "done" => combined = 0
  /\ scoring = "done" /\ format_value = 0 =>
       Computed = {"format"} /\ called = <<"format">> /\ combined = 0

\* Once accuracy has its turn behind it, it is paid only past the gate.
AllGates == {"format", "spatial_xy", "accuracy"} \subseteq Wanted
GateInv ==
  /\ scoring = "rest" /\ AllGates => {"spatial_xy", "accuracy"} \subseteq Computed
  /\ scoring \in {"rest", "done"} /\ AllGates /\ "accuracy" \in Computed =>
       /\ "spatial_xy" \in Computed
       /\ reward_scores["accuracy"] > 0 => reward_scores["spatial_xy"] > Gate

RewardInv == ScoreInv /\ GateInv /\ AtMostOne

LEMMA UnitsType == ASSUME NEW o \in Outcomes PROVE Units(o) \in 0 .. FullScore
BY CombinedAssumption DEF Outcomes, Units, Raised

\* The scores once k has got its own.
LEMMA WithScore ==
  ASSUME NEW k, NEW u \in 0 .. FullScore, With(k, u),
         \A x \in Computed : reward_scores[x] \in 0 .. FullScore
  PROVE  /\ Computed' = Computed \cup {k} /\ reward_scores'[k] = u
         /\ \A x \in Computed : x # k => reward_scores'[x] = reward_scores[x]
         /\ (\A x \in Computed : reward_scores[x] \in 0 .. FullScore)'
BY DEF With, Computed

LEMMA Appended ==
  ASSUME NEW S, NEW q \in Seq(S), NEW e \in S
  PROVE  /\ Append(q, e) \in Seq(S) /\ DOMAIN Append(q, e) = 1 .. Len(q) + 1
         /\ DOMAIN q = 1 .. Len(q) /\ Len(q) \in Nat
         /\ Append(q, e)[Len(q) + 1] = e
         /\ \A i \in 1 .. Len(q) : Append(q, e)[i] = q[i]
OBVIOUS

\* A call of a reward that was not called yet.
LEMMA CalledNew ==
  ASSUME called \in Seq(Names), IsInjective(called), NEW k \in Names,
         called' = Append(called, k), \A i \in DOMAIN called : called[i] # k
  PROVE  /\ called' \in Seq(Names) /\ IsInjective(called')
         /\ \A i \in DOMAIN called' :
              called'[i] = k \/ \E j \in DOMAIN called : called'[i] = called[j]
<1> DEFINE n == Len(called)
           a == Append(called, k)
<1>1. /\ a \in Seq(Names) /\ DOMAIN a = 1 .. n + 1 /\ DOMAIN called = 1 .. n /\ n \in Nat
      /\ a[n + 1] = k /\ \A i \in 1 .. n : a[i] = called[i]
  BY Appended
<1>2. called' = a
  OBVIOUS
<1> HIDE DEF a, n
<1>3. \A i \in 1 .. n + 1 : i \in 1 .. n \/ i = n + 1
  BY <1>1
<1>4. \A i \in DOMAIN a : (i \in DOMAIN called /\ a[i] = called[i]) \/ (i = n + 1 /\ a[i] = k)
  BY <1>1, <1>3, Zenon
<1>5. ASSUME NEW i \in DOMAIN a, NEW j \in DOMAIN a, a[i] = a[j] PROVE i = j
  BY <1>4, <1>5 DEF IsInjective
<1> QED
  BY <1>1, <1>2, <1>4, <1>5 DEF IsInjective

LEMMA WantedType ==
  ASSUME reward_list \in RewardLists
  PROVE  /\ reward_list \in Seq(STRING) /\ Wanted \subseteq Names /\ IsFiniteSet(Wanted)
         /\ \A i \in DOMAIN reward_list : reward_list[i] \in Wanted
         /\ \A k \in Wanted : \E i \in DOMAIN reward_list : reward_list[i] = k
<1>1. reward_list \in Seq(STRING)
  BY CombinedAssumption
<1>2. DOMAIN reward_list = 1 .. Len(reward_list) /\ Len(reward_list) \in Nat
  BY <1>1
<1>3. Wanted = {reward_list[i] : i \in DOMAIN reward_list}
  BY DEF Wanted, ToSet
<1>4. IsFiniteSet(DOMAIN reward_list)
  BY <1>2, FS_Interval
<1>5. IsFiniteSet(Wanted)
  <2>1. reward_list \in Surjection(DOMAIN reward_list, Wanted)
    BY <1>1, <1>3 DEF Surjection
  <2> QED
    BY <1>4, <2>1, FS_Surjection
<1>6. Wanted \subseteq Names
  BY DEF Wanted, Names
<1> QED
  BY <1>1, <1>2, <1>3, <1>5, <1>6

\* Weights are numbers, and so is their total, which is not 0.
LEMMA TotalType ==
  ASSUME NEW w \in WeightTables
  PROVE  /\ Numbers(w) /\ \A k \in DOMAIN w : w[k] \in Nat
         /\ AddUp(w) \in Int /\ Total(w) \in Nat \ {0} /\ AddUp(w) <= Total(w)
<1>1. Numbers(w) /\ \A k \in DOMAIN w : w[k] \in Nat
  BY CombinedAssumption DEF Numbers
<1>2. AddUp(w) \in Int
  BY <1>1, AddUpIsOn, SumOnInt
<1> QED
  BY <1>1, <1>2 DEF Total

\* The rewards that were called are computed, and so not among those that are
\* still to be called.
LEMMA CallNext ==
  ASSUME ScoreInv, NEW k \in Names, NEW u \in 0 .. FullScore, k \notin Computed, scoring # "raised",
         With(k, u), called' = Append(called, k)
  PROVE  /\ called' \in Seq(Names) /\ IsInjective(called')
         /\ \A i \in DOMAIN called' : called'[i] \in Computed'
         /\ Computed' = Computed \cup {k} /\ reward_scores'[k] = u
         /\ \A x \in Computed : x # k => reward_scores'[x] = reward_scores[x]
         /\ (\A x \in Computed : reward_scores[x] \in 0 .. FullScore)'
<1>1. \A i \in DOMAIN called : called[i] \in Computed
  BY DEF ScoreInv
<1>2. /\ called' \in Seq(Names) /\ IsInjective(called')
      /\ \A i \in DOMAIN called' : called'[i] = k \/ \E j \in DOMAIN called : called'[i] = called[j]
  BY <1>1, CalledNew DEF ScoreInv
<1>3. /\ Computed' = Computed \cup {k} /\ reward_scores'[k] = u
      /\ \A x \in Computed : x # k => reward_scores'[x] = reward_scores[x]
      /\ (\A x \in Computed : reward_scores[x] \in 0 .. FullScore)'
  BY WithScore DEF ScoreInv
<1> QED
  BY <1>1, <1>2, <1>3

LEMMA NamesOfRewards == "format" \in Names /\ "spatial_xy" \in Names /\ "accuracy" \in Names
BY DEF Names

LEMMA FullPositive ==
  FullScore \in Nat /\ FullScore # 0 /\ Gate \in 0 .. FullScore /\ NotAsked # 0 /\ NotAsked # FullScore
BY CombinedAssumption DEF NotAsked

\* A score that is not computed yet is within its limit.
LEMMA NothingEarned == ASSUME NEW w \in WeightTables PROVE 0 <= FullScore * Total(w)
<1>1. Total(w) \in Nat /\ FullScore \in Nat
  BY TotalType, FullPositive
<1> QED
  BY <1>1

LEMMA ScoreAsk == RewardInv /\ Ask => RewardInv'
<1> SUFFICES ASSUME RewardInv, Ask PROVE RewardInv'
  OBVIOUS
<1>1. /\ reward_list' \in RewardLists /\ given' \in WeightTables /\ scoring = "start"
      /\ scoring' = IF "format" \in Wanted' THEN "format" ELSE "accuracy"
      /\ UNCHANGED <<format_value, reward_scores, called, combined>>
  BY DEF Ask, Wanted
<1>2. called = <<>> /\ Computed = {} /\ format_value = NotAsked /\ combined = 0
  BY <1>1 DEF RewardInv, ScoreInv
<1>3. Computed' = {} /\ called' = <<>>
  BY <1>1, <1>2 DEF Computed
<1>4. ScoreInv'
  BY <1>1, <1>2, <1>3 DEF RewardInv, ScoreInv
<1>5. AtMostOne'
  BY <1>1, <1>2, NothingEarned DEF AtMostOne
<1> QED
  BY <1>1, <1>4, <1>5 DEF RewardInv, GateInv

LEMMA ScoreFormat == RewardInv /\ CheckFormat => RewardInv'
<1> SUFFICES ASSUME RewardInv, CheckFormat PROVE RewardInv'
  OBVIOUS
<1>1. PICK v \in {0, FullScore} : /\ format_value' = v /\ With("format", v) /\ scoring' = AfterFormat(v)
  BY DEF CheckFormat
<1>2. /\ scoring = "format" /\ called' = Append(called, "format")
      /\ UNCHANGED <<reward_list, given, combined>> /\ Wanted' = Wanted
  BY DEF CheckFormat, Wanted
<1>3. called = <<>> /\ Computed = {} /\ combined = 0 /\ "format" \in Wanted
      /\ reward_list \in RewardLists /\ given \in WeightTables
  BY <1>2 DEF RewardInv, ScoreInv
<1>4. v \in 0 .. FullScore
  BY FullPositive
<1>5. /\ called' \in Seq(Names) /\ IsInjective(called')
      /\ \A i \in DOMAIN called' : called'[i] \in Computed'
      /\ Computed' = {"format"} /\ (\A x \in Computed : reward_scores[x] \in 0 .. FullScore)'
  BY <1>1, <1>2, <1>3, <1>4, CallNext, NamesOfRewards DEF RewardInv
<1>6. called' = <<"format">>
  BY <1>2, <1>3
<1>7. ScoreInv'
  <2>1. CASE v = 0
    BY <1>1, <1>2, <1>3, <1>5, <1>6, <2>1 DEF ScoreInv, AfterFormat
  <2>2. CASE v = FullScore
    BY <1>1, <1>2, <1>3, <1>5, <1>6, <2>2, FullPositive DEF ScoreInv, AfterFormat
  <2> QED
    BY <2>1, <2>2
<1>8. AtMostOne'
  BY <1>2, <1>3, NothingEarned DEF AtMostOne
<1> QED
  BY <1>1, <1>2, <1>5, <1>7, <1>8 DEF RewardInv, GateInv, AfterFormat

LEMMA ScoreXy == RewardInv /\ CallXy => RewardInv'
<1> SUFFICES ASSUME RewardInv, CallXy PROVE RewardInv'
  OBVIOUS
<1>1. PICK o \in Outcomes : With("spatial_xy", Units(o))
  BY DEF CallXy
<1>2. /\ scoring = "xy" /\ called' = Append(called, "spatial_xy")
      /\ scoring' = IF "accuracy" \in Wanted THEN "gated" ELSE "rest"
      /\ UNCHANGED <<reward_list, given, format_value, combined>> /\ Wanted' = Wanted
  BY DEF CallXy, Wanted
<1>3. /\ Computed = {"format"} /\ combined = 0 /\ {"format", "spatial_xy"} \subseteq Wanted
      /\ reward_list \in RewardLists /\ given \in WeightTables /\ format_value = FullScore
  BY <1>2 DEF RewardInv, ScoreInv
<1>4. Units(o) \in 0 .. FullScore
  BY UnitsType
<1>5. /\ called' \in Seq(Names) /\ IsInjective(called')
      /\ \A i \in DOMAIN called' : called'[i] \in Computed'
      /\ Computed' = {"format", "spatial_xy"}
      /\ (\A x \in Computed : reward_scores[x] \in 0 .. FullScore)'
  BY <1>1, <1>2, <1>3, <1>4, CallNext, NamesOfRewards DEF RewardInv
<1>6. ScoreInv'
  BY <1>2, <1>3, <1>5, FullPositive DEF ScoreInv
<1>7. AtMostOne'
  BY <1>2, <1>3, NothingEarned DEF AtMostOne
<1> QED
  BY <1>2, <1>5, <1>6, <1>7 DEF RewardInv, GateInv, AllGates

LEMMA ScoreAccuracyGated == RewardInv /\ (CallGatedAccuracy \/ GateAccuracyOut) => RewardInv'
<1> SUFFICES ASSUME RewardInv, CallGatedAccuracy \/ GateAccuracyOut PROVE RewardInv'
  OBVIOUS
<1>1. /\ scoring = "gated" /\ scoring' = "rest"
      /\ UNCHANGED <<reward_list, given, format_value, combined>> /\ Wanted' = Wanted
  BY DEF CallGatedAccuracy, GateAccuracyOut, Wanted
<1>2. /\ Computed = {"format", "spatial_xy"} /\ combined = 0 /\ AllGates
      /\ reward_list \in RewardLists /\ given \in WeightTables /\ format_value = FullScore
      /\ \A x \in Computed : reward_scores[x] \in 0 .. FullScore
      /\ called \in Seq(Names) /\ IsInjective(called)
      /\ \A i \in DOMAIN called : called[i] \in Computed
  BY <1>1 DEF RewardInv, ScoreInv, AllGates
<1>3. PICK u \in 0 .. FullScore : With("accuracy", u) /\ (u > 0 => reward_scores["spatial_xy"] > Gate)
  <2>1. CASE CallGatedAccuracy
    BY <2>1, UnitsType DEF CallGatedAccuracy, PastGate
  <2>2. CASE GateAccuracyOut
    BY <2>2, FullPositive DEF GateAccuracyOut
  <2> QED
    BY <2>1, <2>2
<1>4. /\ Computed' = {"format", "spatial_xy", "accuracy"} /\ reward_scores'["accuracy"] = u
      /\ reward_scores'["spatial_xy"] = reward_scores["spatial_xy"]
      /\ (\A x \in Computed : reward_scores[x] \in 0 .. FullScore)'
  BY <1>2, <1>3, WithScore
<1>5. /\ called' \in Seq(Names) /\ IsInjective(called')
      /\ \A i \in DOMAIN called' : called'[i] \in Computed'
  <2>1. CASE CallGatedAccuracy
    BY <1>1, <1>2, <1>3, <2>1, CallNext, NamesOfRewards DEF RewardInv, CallGatedAccuracy
  <2>2. CASE GateAccuracyOut
    BY <1>2, <1>4, <2>2 DEF GateAccuracyOut
  <2> QED
    BY <2>1, <2>2
<1>6. ScoreInv'
  BY <1>1, <1>2, <1>4, <1>5, FullPositive DEF ScoreInv, AllGates
<1>7. GateInv'
  BY <1>1, <1>3, <1>4 DEF GateInv
<1>8. AtMostOne'
  BY <1>1, <1>2, NothingEarned DEF AtMostOne
<1> QED
  BY <1>6, <1>7, <1>8 DEF RewardInv

LEMMA ScoreAccuracy == RewardInv /\ CallAccuracy => RewardInv'
<1> SUFFICES ASSUME RewardInv, CallAccuracy PROVE RewardInv'
  OBVIOUS
<1>1. /\ scoring = "accuracy" /\ called' = Append(called, "accuracy")
      /\ UNCHANGED <<reward_list, given, format_value, combined>> /\ Wanted' = Wanted
  BY DEF CallAccuracy, Wanted
<1>2. /\ combined = 0 /\ ~ AllGates /\ "accuracy" \notin Computed
      /\ format_value = IF "format" \in Wanted THEN FullScore ELSE NotAsked
      /\ reward_list \in RewardLists /\ given \in WeightTables
      /\ \A x \in Computed : reward_scores[x] \in 0 .. FullScore
      /\ called \in Seq(Names) /\ IsInjective(called)
      /\ \A i \in DOMAIN called : called[i] \in Computed
  BY <1>1 DEF RewardInv, ScoreInv, AllGates
<1>3. AtMostOne'
  BY <1>1, <1>2, NothingEarned DEF AtMostOne
<1>4. CASE scoring' = "raised" /\ UNCHANGED reward_scores
  <2>1. Computed' = Computed /\ (\A x \in Computed : reward_scores[x] \in 0 .. FullScore)'
    BY <1>2, <1>4 DEF Computed
  <2>2. /\ called' \in Seq(Names) /\ IsInjective(called')
        /\ \A i \in DOMAIN called' :
             called'[i] = "accuracy" \/ \E j \in DOMAIN called : called'[i] = called[j]
    BY <1>1, <1>2, CalledNew, NamesOfRewards
  <2>3. \A i \in DOMAIN called' : called'[i] \in Computed' \/ called'[i] = "accuracy"
    BY <1>2, <2>1, <2>2
  <2>4. ScoreInv'
    BY <1>1, <1>2, <1>4, <2>1, <2>2, <2>3, FullPositive DEF ScoreInv
  <2> QED
    BY <1>3, <1>4, <2>4 DEF RewardInv, GateInv
<1>5. CASE scoring' = "rest" /\ \E o \in 0 .. FullScore : With("accuracy", o)
  <2>1. PICK o \in 0 .. FullScore : With("accuracy", o)
    BY <1>5
  <2>2. /\ called' \in Seq(Names) /\ IsInjective(called')
        /\ \A i \in DOMAIN called' : called'[i] \in Computed'
        /\ Computed' = Computed \cup {"accuracy"}
        /\ (\A x \in Computed : reward_scores[x] \in 0 .. FullScore)'
    BY <1>1, <1>2, <2>1, CallNext, NamesOfRewards DEF RewardInv
  <2>3. ScoreInv'
    BY <1>1, <1>2, <1>5, <2>2, FullPositive DEF ScoreInv
  <2>4. ~ AllGates'
    BY <1>1, <1>2 DEF AllGates
  <2> QED
    BY <1>3, <1>5, <2>3, <2>4 DEF RewardInv, GateInv
<1> QED
  BY <1>4, <1>5 DEF CallAccuracy, Outcomes

LEMMA ScoreNoAccuracy == RewardInv /\ NoAccuracy => RewardInv'
<1> SUFFICES ASSUME RewardInv, NoAccuracy PROVE RewardInv'
  OBVIOUS
<1>1. /\ scoring = "accuracy" /\ scoring' = "rest" /\ "accuracy" \notin Wanted
      /\ UNCHANGED <<reward_list, given, format_value, reward_scores, called, combined>>
      /\ Wanted' = Wanted /\ Computed' = Computed
  BY DEF NoAccuracy, Wanted, Computed
<1>2. ScoreInv'
  BY <1>1 DEF RewardInv, ScoreInv
<1>3. ~ AllGates'
  BY <1>1 DEF AllGates
<1> QED
  BY <1>1, <1>2, <1>3 DEF RewardInv, GateInv, AtMostOne

\* The loop computes the first reward of the list that has no score yet.
LEMMA FirstLeft ==
  ASSUME reward_list \in RewardLists, Left # {}
  PROVE  /\ reward_list[Min(Left)] \in Wanted /\ reward_list[Min(Left)] \in Names
         /\ reward_list[Min(Left)] \notin Computed
<1>1. DOMAIN reward_list \subseteq Nat
  BY WantedType
<1>2. Left \in SUBSET Nat
  BY <1>1 DEF Left
<1>3. \E x \in Left : \A y \in Left : x <= y
  BY <1>2, LeastNumber
<1>4. Min(Left) \in Left
  BY <1>3 DEF Min
<1> QED
  BY <1>4, WantedType DEF Left

LEMMA ScoreRest == RewardInv /\ CallRest => RewardInv'
<1> SUFFICES ASSUME RewardInv, CallRest PROVE RewardInv'
  OBVIOUS
<1> DEFINE k == reward_list[Min(Left)]
<1>1. /\ scoring = "rest" /\ scoring' = "rest" /\ Left # {}
      /\ UNCHANGED <<reward_list, given, format_value, combined>> /\ Wanted' = Wanted
  BY DEF CallRest, Wanted
<1>2. /\ combined = 0 /\ format_value = IF "format" \in Wanted THEN FullScore ELSE NotAsked
      /\ reward_list \in RewardLists /\ given \in WeightTables
      /\ \A x \in Computed : reward_scores[x] \in 0 .. FullScore
      /\ called \in Seq(Names) /\ IsInjective(called)
      /\ \A i \in DOMAIN called : called[i] \in Computed
  BY <1>1 DEF RewardInv, ScoreInv
<1>3. k \in Wanted /\ k \in Names /\ k \notin Computed
  BY <1>1, <1>2, FirstLeft
<1>4. \E u \in 0 .. FullScore : With(k, u) /\ (called' = called \/ called' = Append(called, k))
  BY UnitsType, FullPositive DEF CallRest
<1> HIDE DEF k
<1>5. PICK u \in 0 .. FullScore : With(k, u) /\ (called' = called \/ called' = Append(called, k))
  BY <1>4
<1>6. /\ Computed' = Computed \cup {k}
      /\ \A x \in Computed : x # k => reward_scores'[x] = reward_scores[x]
      /\ (\A x \in Computed : reward_scores[x] \in 0 .. FullScore)'
  BY <1>2, <1>5, WithScore
<1>7. /\ called' \in Seq(Names) /\ IsInjective(called')
      /\ \A i \in DOMAIN called' : called'[i] \in Computed'
  <2>1. CASE called' = called
    BY <1>2, <1>6, <2>1
  <2>2. CASE called' = Append(called, k)
    BY <1>1, <1>3, <1>5, <2>2, CallNext DEF RewardInv
  <2> QED
    BY <1>5, <2>1, <2>2
<1>8. ScoreInv'
  BY <1>1, <1>2, <1>6, <1>7, FullPositive DEF ScoreInv
<1>9. GateInv'
  <2> SUFFICES ASSUME AllGates PROVE GateInv'
    BY <1>1 DEF GateInv, AllGates
  <2>1. /\ {"spatial_xy", "accuracy"} \subseteq Computed
        /\ reward_scores["accuracy"] > 0 => reward_scores["spatial_xy"] > Gate
    BY <1>1 DEF RewardInv, GateInv
  <2>2. k # "spatial_xy" /\ k # "accuracy"
    BY <1>3, <2>1
  <2>3. /\ reward_scores'["accuracy"] = reward_scores["accuracy"]
        /\ reward_scores'["spatial_xy"] = reward_scores["spatial_xy"]
        /\ {"spatial_xy", "accuracy"} \subseteq Computed'
    BY <1>6, <2>1, <2>2
  <2> QED
    BY <2>1, <2>3 DEF GateInv
<1>10. AtMostOne'
  BY <1>1, <1>2, NothingEarned DEF AtMostOne
<1> QED
  BY <1>8, <1>9, <1>10 DEF RewardInv

LEMMA TimesFull == ASSUME NEW s \in Int PROVE (FullScore * s) \div FullScore = s
<1>1. FullScore \in Nat \ {0} /\ FullScore * s \in Int
  BY FullPositive
<1>2. PICK q \in Int, r \in 0 .. FullScore - 1 : q = (FullScore * s) \div FullScore /\ FullScore * s = FullScore * q + r
  BY <1>1, Divided
<1>3. FullScore * (s - q) = r
  BY <1>1, <1>2
<1>4. ASSUME NEW d \in Int, d >= 1 PROVE FullScore * d >= FullScore
  BY <1>1, <1>4
<1>5. ASSUME NEW d \in Int, d <= -1 PROVE FullScore * d < 0
  BY <1>1, <1>5
<1>6. s - q = 0
  BY <1>1, <1>3, <1>4, <1>5
<1> QED
  BY <1>2, <1>6

\* The weighted sum of scores of at most FullScore each.
LEMMA SumOfScores ==
  ASSUME NEW w \in WeightTables, DefaultKeys \subseteq DOMAIN w, NEW S, IsFiniteSet(S),
         NEW v, \A k \in S : v[k] \in 0 .. FullScore
  PROVE  /\ AddUp([k \in S |-> Weight(w, k) * v[k]]) \in Int
         /\ AddUp([k \in S |-> Weight(w, k) * v[k]]) <= FullScore * Total(w)
<1> DEFINE q == [k \in S |-> Weight(w, k) * v[k]]
<1>1. /\ FullScore \in Nat /\ Numbers(w) /\ \A k \in DOMAIN w : w[k] \in Nat
      /\ AddUp(w) \in Int /\ Total(w) \in Nat /\ AddUp(w) <= Total(w)
  BY FullPositive, TotalType
<1>2. ASSUME NEW a \in Nat, NEW b \in 0 .. FullScore
      PROVE  a * b \in Int /\ a * b <= FullScore * a /\ FullScore * a >= 0
  BY <1>1, <1>2
<1>3. ASSUME NEW k \in S
      PROVE  q[k] \in Int /\ IF k \in DOMAIN w THEN q[k] <= FullScore * w[k] ELSE q[k] <= 0
  <2>1. CASE k \in DOMAIN w
    <3>1. q[k] = w[k] * v[k]
      BY <2>1 DEF Weight
    <3> QED
      BY <1>1, <1>2, <2>1, <3>1
  <2>2. CASE k \notin DOMAIN w
    <3>1. q[k] = 0 * v[k]
      BY <2>2 DEF Weight
    <3> QED
      BY <1>1, <2>2, <3>1
  <2> QED
    BY <2>1, <2>2
<1>4. Numbers(q)
  BY <1>3 DEF Numbers
<1>5. \A k \in DOMAIN w : FullScore * w[k] >= 0
  BY <1>1, <1>2
<1> HIDE DEF q
<1>6. AddUp(q) <= FullScore * AddUp(w)
  <2>1. DOMAIN q = S
    BY DEF q
  <2> QED
    BY <1>1, <1>3, <1>4, <1>5, <2>1, SumBelow
<1>7. AddUp(q) \in Int
  BY <1>4, AddUpIsOn, SumOnInt
<1>8. FullScore * AddUp(w) <= FullScore * Total(w) /\ FullScore * AddUp(w) \in Int /\ FullScore * Total(w) \in Int
  BY ONLY <1>1
<1>9. AddUp(q) <= FullScore * Total(w)
  BY ONLY <1>6, <1>7, <1>8
<1> QED
  BY <1>7, <1>9 DEF q

\* A list without repeated names is added up by its names.
LEMMA SumOfDistinct ==
  ASSUME reward_list \in RewardLists, given \in WeightTables, IsInjective(reward_list),
         DefaultKeys \subseteq DOMAIN given,
         \A i \in Others : reward_scores[reward_list[i]] \in 0 .. FullScore
  PROVE  WeightedSum(Others) \in Int /\ WeightedSum(Others) <= FullScore * Total(given)
<1> DEFINE S == {reward_list[i] : i \in Others}
           q == [i \in Others |-> Weight(given, reward_list[i]) * reward_scores[reward_list[i]]]
           g == [k \in S |-> Weight(given, k) * reward_scores[k]]
<1>1. Others \subseteq DOMAIN reward_list /\ IsFiniteSet(Others) /\ IsFiniteSet(S)
  <2>1. reward_list \in Seq(STRING) /\ IsFiniteSet(Wanted) /\ S \subseteq Wanted
    BY WantedType DEF Others
  <2>2. DOMAIN reward_list = 1 .. Len(reward_list) /\ Len(reward_list) \in Nat
    BY <2>1
  <2>3. IsFiniteSet(DOMAIN reward_list) /\ Others \subseteq DOMAIN reward_list
    BY <2>2, FS_Interval DEF Others
  <2> HIDE DEF S
  <2> QED
    BY <2>1, <2>3, FS_Subset
<1>2. \A k \in S : reward_scores[k] \in 0 .. FullScore
  OBVIOUS
<1>3. AddUp(g) \in Int /\ AddUp(g) <= FullScore * Total(given)
  <2> HIDE DEF S
  <2> QED
    BY <1>1, <1>2, SumOfScores
<1>4. \A k \in S : Weight(given, k) * reward_scores[k] \in Int
  <2>1. \A k \in S : Weight(given, k) \in Int
    <3>1. Total(given) \in Nat /\ \A k \in DOMAIN given : given[k] \in Nat
      BY TotalType
    <3> HIDE DEF S
    <3> QED
      BY <3>1 DEF Weight
  <2>2. FullScore \in Nat
    BY FullPositive
  <2> HIDE DEF S
  <2> QED
    BY <1>2, <2>1, <2>2
<1>5. Numbers(g)
  <2> HIDE DEF S
  <2> QED
    BY <1>1, <1>4 DEF Numbers
<1>6. Numbers(q)
  BY <1>1, <1>4 DEF Numbers
<1>7. /\ \A i \in DOMAIN q : reward_list[i] \in DOMAIN g /\ q[i] = g[reward_list[i]]
      /\ \A i, j \in DOMAIN q : reward_list[i] = reward_list[j] => i = j
      /\ DOMAIN g = {reward_list[i] : i \in DOMAIN q}
  BY <1>1 DEF IsInjective
<1>8. WeightedSum(Others) = AddUp(q)
  BY DEF WeightedSum
<1> HIDE DEF q, g
<1>9. AddUp(q) = AddUp(g)
  BY <1>5, <1>6, <1>7, SumRenamed
<1> QED
  BY <1>3, <1>8, <1>9

LEMMA ScoreCombine == RewardInv /\ Combine => RewardInv'
<1> SUFFICES ASSUME RewardInv, Combine PROVE RewardInv'
  OBVIOUS
<1> DEFINE sum == WeightedSum(Others)
<1>1. /\ scoring = "rest" /\ scoring' = "done" /\ Left = {}
      /\ UNCHANGED <<reward_list, given, format_value, reward_scores, called>>
      /\ Wanted' = Wanted /\ Computed' = Computed
  BY DEF Combine, Wanted, Computed
<1>2. combined' = IF "format" \notin Wanted THEN sum
                  ELSE IF Others = {} THEN Total(given) * format_value
                  ELSE (format_value * sum) \div FullScore
  BY DEF Combine
<1>3. /\ format_value = IF "format" \in Wanted THEN FullScore ELSE NotAsked
      /\ reward_list \in RewardLists /\ given \in WeightTables
      /\ \A x \in Computed : reward_scores[x] \in 0 .. FullScore
  BY <1>1 DEF RewardInv, ScoreInv
<1>4. ScoreInv'
  BY <1>1, <1>3, FullPositive DEF RewardInv, ScoreInv
<1>5. GateInv'
  BY <1>1 DEF RewardInv, GateInv, AllGates
<1>6. ASSUME IsInjective(reward_list), DefaultKeys \subseteq DOMAIN given
      PROVE  combined' <= FullScore * Total(given)
  <2>1. \A i \in Others : reward_scores[reward_list[i]] \in 0 .. FullScore
    BY <1>1, <1>3 DEF Left, Others
  <2>2. sum \in Int /\ sum <= FullScore * Total(given)
    BY <1>3, <1>6, <2>1, SumOfDistinct
  <2> HIDE DEF sum
  <2>3. (FullScore * sum) \div FullScore = sum
    BY <2>2, TimesFull
  <2>4. Total(given) * FullScore = FullScore * Total(given) /\ FullScore * Total(given) \in Int
    <3>1. Total(given) \in Nat /\ FullScore \in Nat
      BY <1>3, TotalType, FullPositive
    <3> QED
      BY <3>1
  <2> QED
    BY <1>2, <1>3, <2>2, <2>3, <2>4
<1>7. AtMostOne'
  BY <1>1, <1>6 DEF AtMostOne
<1> QED
  BY <1>4, <1>5, <1>7 DEF RewardInv

LEMMA ScoreStep == RewardInv /\ [CombinedNext]_combinedVars => RewardInv'
<1>1. RewardInv /\ UNCHANGED combinedVars => RewardInv'
  BY DEF RewardInv, ScoreInv, GateInv, AllGates, AtMostOne, Wanted, Computed, combinedVars
<1> QED
  BY <1>1, ScoreAsk, ScoreFormat, ScoreXy, ScoreAccuracyGated, ScoreAccuracy, ScoreNoAccuracy,
     ScoreRest, ScoreCombine DEF CombinedNext

(* compute_score, for every list of rewards, table of weights and outcome of *)
(* the reward functions: a wrong format earns nothing, accuracy is paid only *)
(* past the configured spatial_xy gate, no reward is computed twice, and for *)
(* a list without repeated names and weights that name the default rewards   *)
(* the score is at most 1.0.                                                 *)
THEOREM ScoresAreGated == CombinedSpec => []ScoreGated
<1>1. CombinedInit => RewardInv
  <2> SUFFICES ASSUME CombinedInit PROVE RewardInv
    OBVIOUS
  <2>1. DOMAIN <<>> = {}
    OBVIOUS
  <2>2. ScoreInv
    BY <2>1 DEF CombinedInit, ScoreInv, Computed, IsInjective
  <2> QED
    BY <2>1, <2>2 DEF CombinedInit, RewardInv, GateInv, AtMostOne, DefaultKeys
<1>2. RewardInv => ScoreGated
  BY FullPositive DEF RewardInv, ScoreInv, GateInv, AllGates, ScoreGated, GatesHold, CalledOnce
<1> QED
  BY <1>1, <1>2, ScoreStep, PTL DEF CombinedSpec

-----------------------------------------------------------------------------
(* The pairing of answers and rewards                                        *)

Forward(l) == [asked |-> PromptOf(l), way |-> "forward"]
InverseTo(l) == [asked |-> PromptOf(l), way |-> "inverse"]

\* The scores that the forward call leaves behind: those of the workers that
\* had no temporal row, and zeros for the rest, unless no worker had any.
Mixed ==
  \A l \in Lines :
    \/ rm_scores[l] = Own(l)
    \/ /\ rm_scores[l] = Placeholder
       /\ \E k \in ChunkOf(WorkerOf(l)) : PromptOf(k) \in temporal
       /\ \E w \in 1..AgentWorkers : \A k \in ChunkOf(w) : PromptOf(k) \notin temporal

\* What is known of the forward call while it runs.
ForwardInv ==
  turn = "forward" =>
    /\ answer \in [Lines -> {NotAnswered} \cup {Forward(l) : l \in Lines}]
    /\ score = [l \in Lines |-> IF answer[l] = NotAnswered \/ Deferred(l) THEN NoScore ELSE Own(l)]
    /\ \A l \in Lines : answer[l] \in {NotAnswered, Forward(l)}

\* What is known of the inverse call.
InverseInv ==
  turn = "inverse" =>
    /\ answer \in [Lines -> {NotAnswered} \cup {InverseTo(l) : l \in Lines}]
    /\ \A l \in Lines : answer[l] \in {NotAnswered, InverseTo(l)}

\* What the trainer holds when it asks for the rewards.
HeldInv ==
  /\ turn \in {"inverse", "reward"} =>
       /\ \A l \in Lines : responses[l] = Forward(l)
       /\ rm_scores = Absent \/ Mixed
  /\ turn = "reward" /\ temporal # {} => \A l \in Lines : inverse[l] = InverseTo(l)

PairInv ==
  /\ turn = "fetch" => answer = Unanswered /\ score = Absent
  /\ ForwardInv /\ InverseInv /\ HeldInv /\ OwnOrUnpaid

LEMMA PairInit == RewardInit => PairInv
BY DEF RewardInit, PairInv, ForwardInv, InverseInv, HeldInv, OwnOrUnpaid

LEMMA PairFetch == PairInv /\ Fetch => PairInv'
<1> SUFFICES ASSUME PairInv, Fetch PROVE PairInv'
  OBVIOUS
<1>1. turn' = "forward" /\ answer' = Unanswered /\ score' = Absent
  BY DEF PairInv, Fetch
<1>2. ForwardInv'
  BY <1>1 DEF ForwardInv, Unanswered, Absent
<1> QED
  BY <1>1, <1>2 DEF PairInv, InverseInv, HeldInv, OwnOrUnpaid

LEMMA PairRun == ASSUME PairInv, NEW l \in Lines, RunAgentLoop(l) PROVE PairInv'
<1>1. turn' = turn /\ temporal' = temporal /\ turn \in {"forward", "inverse"}
  BY DEF RunAgentLoop
<1>2. ForwardInv'
  <2> SUFFICES ASSUME turn = "forward" PROVE ForwardInv'
    BY <1>1 DEF ForwardInv
  <2>1. answer' = [answer EXCEPT ![l] = Forward(l)] /\ answer[l] = NotAnswered
    BY DEF RunAgentLoop, Forward
  <2>2. /\ answer \in [Lines -> {NotAnswered} \cup {Forward(k) : k \in Lines}]
        /\ score = [k \in Lines |-> IF answer[k] = NotAnswered \/ Deferred(k) THEN NoScore ELSE Own(k)]
        /\ \A k \in Lines : answer[k] \in {NotAnswered, Forward(k)}
    BY DEF PairInv, ForwardInv
  <2>3. /\ answer' \in [Lines -> {NotAnswered} \cup {Forward(k) : k \in Lines}]
        /\ \A k \in Lines : answer'[k] \in {NotAnswered, Forward(k)}
    BY <2>1, <2>2
  <2>4. Forward(l) # NotAnswered
    BY DEF Forward, NotAnswered
  <2>5. ~Deferred(l) => RowScored(l, Forward(l), NotAnswered) = Own(l)
    BY DEF Deferred, RowScored, Own, Forward
  <2>6. score' = IF Deferred(l) THEN score ELSE [score EXCEPT ![l] = RowScored(l, Forward(l), NotAnswered)]
    BY DEF RunAgentLoop, Forward
  <2>7. score' = [k \in Lines |-> IF answer'[k] = NotAnswered \/ Deferred(k) THEN NoScore ELSE Own(k)]
    BY <2>1, <2>2, <2>4, <2>5, <2>6
  <2>8. \A k \in Lines : Deferred(k)' = Deferred(k) /\ Own(k)' = Own(k) /\ Forward(k)' = Forward(k)
    BY <1>1 DEF Deferred, Own, Forward, PromptOf
  <2> QED
    BY <2>3, <2>7, <2>8 DEF ForwardInv, Forward, PromptOf
<1>3. InverseInv'
  <2> SUFFICES ASSUME turn = "inverse" PROVE InverseInv'
    BY <1>1 DEF InverseInv
  <2>1. answer' = [answer EXCEPT ![l] = InverseTo(l)]
    BY DEF RunAgentLoop, InverseTo, InversePromptOf
  <2> QED
    BY <2>1 DEF InverseInv, PairInv, InverseTo, PromptOf
<1>4. HeldInv'
  BY <1>1 DEF RunAgentLoop, PairInv, HeldInv, Mixed, Own
<1> QED
  BY <1>1, <1>2, <1>3, <1>4 DEF PairInv, OwnOrUnpaid

\* What the workers' outputs look like put together.
LEMMA ConcatMixed ==
  ASSUME PairInv, turn = "forward", AllAnswered
  PROVE  /\ \A l \in Lines : answer[l] = Forward(l)
         /\ Concat = Absent \/
            \A l \in Lines :
              \/ Concat[l] = Own(l)
              \/ /\ Concat[l] = Placeholder
                 /\ \E k \in ChunkOf(WorkerOf(l)) : PromptOf(k) \in temporal
                 /\ \E w \in 1..AgentWorkers : \A k \in ChunkOf(w) : PromptOf(k) \notin temporal
<1>1. \A l \in Lines : answer[l] = Forward(l) /\ score[l] = IF Deferred(l) THEN NoScore ELSE Own(l)
  BY DEF PairInv, ForwardInv, AllAnswered
<1>2. \A l \in Lines : Own(l) # NoScore
  BY DEF Own, NoScore, NotAnswered
<1>3. \A w : \A k \in ChunkOf(w) : k \in Lines
  BY DEF ChunkOf
<1>4. \A w : HasScores(w) <=> \A k \in ChunkOf(w) : PromptOf(k) \notin temporal
  BY <1>1, <1>2, <1>3 DEF HasScores, Deferred
<1>5. \A l \in Lines : l \in ChunkOf(WorkerOf(l))
  BY DEF ChunkOf
<1>6. CASE \E w \in 1..AgentWorkers : HasScores(w)
  <2>1. Concat = [l \in Lines |-> IF HasScores(WorkerOf(l)) THEN score[l] ELSE Placeholder]
    BY <1>6 DEF Concat
  <2>2. PICK w \in 1..AgentWorkers : \A k \in ChunkOf(w) : PromptOf(k) \notin temporal
    BY <1>4, <1>6
  <2> SUFFICES ASSUME NEW l \in Lines
               PROVE  \/ Concat[l] = Own(l)
                      \/ /\ Concat[l] = Placeholder
                         /\ \E k \in ChunkOf(WorkerOf(l)) : PromptOf(k) \in temporal
    BY <1>1, <2>2
  <2>3. CASE HasScores(WorkerOf(l))
    <3>1. ~Deferred(l)
      BY <1>4, <1>5, <2>3 DEF Deferred
    <3> QED
      BY <1>1, <2>1, <2>3, <3>1
  <2>4. CASE ~HasScores(WorkerOf(l))
    BY <1>4, <2>1, <2>4
  <2> QED
    BY <2>3, <2>4
<1>7. CASE ~\E w \in 1..AgentWorkers : HasScores(w)
  BY <1>1, <1>7 DEF Concat
<1> QED
  BY <1>6, <1>7

LEMMA PairForwardDone == PairInv /\ ForwardDone => PairInv'
<1> SUFFICES ASSUME PairInv, ForwardDone PROVE PairInv'
  OBVIOUS
<1>1. /\ turn = "forward" /\ AllAnswered /\ temporal' = temporal
      /\ responses' = answer /\ rm_scores' = Concat /\ answer' = Unanswered
      /\ turn' \in {"inverse", "reward"} /\ (turn' = "reward" => temporal = {})
  BY DEF ForwardDone
<1>2. InverseInv'
  BY <1>1 DEF InverseInv, Unanswered
<1>3. HeldInv'
  BY <1>1, ConcatMixed DEF HeldInv, Mixed, Own, Forward, PromptOf
<1> QED
  BY <1>1, <1>2, <1>3 DEF PairInv, ForwardInv, OwnOrUnpaid

LEMMA PairInverseDone == PairInv /\ InverseDone => PairInv'
<1> SUFFICES ASSUME PairInv, InverseDone PROVE PairInv'
  OBVIOUS
<1>1. \A l \in Lines : answer[l] = InverseTo(l)
  BY DEF PairInv, InverseInv, InverseDone, AllAnswered
<1>2. HeldInv'
  BY <1>1 DEF PairInv, HeldInv, InverseDone, Mixed, Own, InverseTo, PromptOf
<1> QED
  BY <1>2 DEF InverseDone, PairInv, ForwardInv, InverseInv, OwnOrUnpaid

LEMMA PairPaid == PairInv /\ (ExtractReward \/ ComputeReward) => PairInv'
<1>1. ASSUME PairInv, ExtractReward PROVE PairInv'
  <2>1. OwnOrUnpaid'
    BY <1>1 DEF ExtractReward, PairInv, HeldInv, Mixed, OwnOrUnpaid, Own
  <2> QED
    BY <1>1, <2>1 DEF ExtractReward, PairInv, ForwardInv, InverseInv, HeldInv
<1>2. ASSUME PairInv, ComputeReward PROVE PairInv'
  <2>1. \A l \in Lines : RowScored(l, responses[l], inverse[l]) = Own(l)
    BY <1>2 DEF ComputeReward, PairInv, HeldInv, RowScored, Own, Forward, InverseTo
  <2>2. OwnOrUnpaid'
    BY <1>2, <2>1 DEF ComputeReward, OwnOrUnpaid, Own
  <2> QED
    BY <1>2, <2>2 DEF ComputeReward, PairInv, ForwardInv, InverseInv, HeldInv
<1> QED
  BY <1>1, <1>2

LEMMA PairRest ==
  PairInv /\ (ComputeRaises \/ (\E l \in Lines : AgentLoopRaises(l)) \/ UNCHANGED rewardVars) => PairInv'
<1>1. ASSUME PairInv, ComputeRaises PROVE PairInv'
  BY <1>1 DEF ComputeRaises, PairInv, ForwardInv, InverseInv, HeldInv, OwnOrUnpaid, Mixed, Own
<1>2. ASSUME PairInv, NEW l \in Lines, AgentLoopRaises(l) PROVE PairInv'
  BY <1>2 DEF AgentLoopRaises, PairInv, ForwardInv, InverseInv, HeldInv, OwnOrUnpaid
<1>3. ASSUME PairInv, UNCHANGED rewardVars PROVE PairInv'
  BY <1>3 DEF rewardVars, PairInv, ForwardInv, InverseInv, HeldInv, OwnOrUnpaid, Mixed, Own,
    Deferred, Forward, InverseTo
<1> QED
  BY <1>1, <1>2, <1>3

(* OwnOrUnpaid for any batch, any number of copies and workers and any set   *)
(* of temporal prompts: however the agent loops of the two calls interleave, *)
(* no row is paid for another row's answer or for a missing inverse answer,  *)
(* and the zeros of DataProto.concat reach only rows whose worker had a      *)
(* temporal row while another worker had none.                               *)
THEOREM RewardsPaired == RewardSpec => []OwnOrUnpaid
<1>1. RewardInit => PairInv
  BY PairInit
<1>2. PairInv /\ [RewardNext]_rewardVars => PairInv'
  BY PairFetch, PairRun, PairForwardDone, PairInverseDone, PairPaid, PairRest DEF RewardNext
<1>3. PairInv => OwnOrUnpaid
  BY DEF PairInv
<1> QED
  BY <1>1, <1>2, <1>3, PTL DEF RewardSpec

-----------------------------------------------------------------------------
(* The limits on the calls of the reward function                            *)

\* The items whose tokens of bucket b have been taken in advance, and those
\* of them that may go on by time T.
Owing(b) == {i \in Items : item[i].pc = "owed" /\ item[i].b = b}
OwingBy(b, T) == {i \in Owing(b) : item[i].t <= T}

\* The tokens that n grants of bucket b cost.
Paid(n, b) == n * Cost(b)

LimiterType ==
  /\ now \in Nat
  /\ is_async \in BOOLEAN
  /\ tokens \in [Buckets -> Int]
  /\ last_update \in [Buckets -> Int]
  /\ grants \in [Buckets -> Nat]
  /\ credit \in [Buckets -> Int]
  /\ item \in [Items -> [pc : {"acquire", "retry", "owed", "sem", "run", "done"}, b : Buckets, t : Nat]]
  /\ calls \subseteq Items

\* The bucket never counts more than an ideal one that is refilled at every tick.
CreditInv ==
  \A b \in Buckets :
    /\ tokens[b] <= Second
    /\ Never <= last_update[b] /\ last_update[b] <= now
    /\ Cost(b) <= Second => Refilled(b) <= credit[b] /\ 0 <= credit[b] /\ credit[b] <= Second

\* Tokens taken in advance count as spent: what has been taken in all, and
\* what may have been granted by any later time, has been refilled by then.
OwedInv ==
  /\ \A i \in Items : item[i].pc = "owed" => Cost(item[i].b) > Second
  /\ \A b \in Buckets :
       /\ Refilled(b) + Paid(grants[b] + Cardinality(Owing(b)), b) <= Second + now
       /\ \A T \in Nat : now <= T =>
            Paid(grants[b] + Cardinality(OwingBy(b, T)), b) <= Second + T

\* A coroutine that runs holds the semaphore.
CallInv ==
  /\ Cardinality(Holding) <= MaxConcurrent
  /\ is_async => calls \subseteq Holding

LimiterInv == LimiterType /\ CreditInv /\ OwedInv /\ CallInv

LEMMA CostType == \A b \in Buckets : Cost(b) \in Nat /\ Cost(b) > 0 /\ Second \in Nat /\ Second > 0
BY LimiterAssumption DEF Cost, Buckets

LEMMA PaidType == \A b \in Buckets : \A n \in Nat : Paid(n, b) \in Nat
BY CostType DEF Paid

LEMMA PaidNone == \A b \in Buckets : Paid(0, b) = 0
BY CostType DEF Paid

LEMMA PaidOneMore == \A b \in Buckets : \A n \in Nat : Paid(n + 1, b) = Paid(n, b) + Cost(b)
<1> SUFFICES ASSUME NEW b \in Buckets, NEW n \in Nat PROVE (n + 1) * Cost(b) = n * Cost(b) + Cost(b)
  BY DEF Paid
<1> DEFINE c == Cost(b)
<1>1. c \in Nat
  BY CostType
<1> HIDE DEF c
<1>2. (n + 1) * c = n * c + c
  BY <1>1
<1> QED
  BY <1>2 DEF c

LEMMA PaidMonotone ==
  \A b \in Buckets : \A m \in Nat : \A n \in Nat : m <= n => Paid(m, b) <= Paid(n, b)
<1> SUFFICES ASSUME NEW b \in Buckets, NEW m \in Nat, NEW n \in Nat, m <= n
             PROVE  m * Cost(b) <= n * Cost(b)
  BY DEF Paid
<1> DEFINE c == Cost(b)
<1>1. c \in Nat
  BY CostType
<1> HIDE DEF c
<1>2. m * c <= n * c
  BY <1>1
<1> QED
  BY <1>2 DEF c

LEMMA RefilledType ==
  ASSUME LimiterType, CreditInv, NEW b \in Buckets
  PROVE  Refilled(b) \in Int /\ Refilled(b) <= Second /\ tokens[b] <= Refilled(b)
BY CostType DEF LimiterType, CreditInv, Refilled, Elapsed, Never

LEMMA OwingFinite ==
  /\ \A b : IsFiniteSet(Owing(b)) /\ Cardinality(Owing(b)) \in Nat
  /\ \A b, T : /\ IsFiniteSet(OwingBy(b, T)) /\ Cardinality(OwingBy(b, T)) \in Nat
               /\ Cardinality(OwingBy(b, T)) <= Cardinality(Owing(b))
<1>1. ASSUME NEW b PROVE IsFiniteSet(Owing(b)) /\ Cardinality(Owing(b)) \in Nat
  <2>1. Owing(b) \subseteq Items
    BY DEF Owing
  <2>2. IsFiniteSet(Owing(b))
    BY <2>1, FS_Subset, LimiterAssumption
  <2> QED
    BY <2>2, FS_CardinalityType
<1>2. ASSUME NEW b, NEW T
      PROVE  /\ IsFiniteSet(OwingBy(b, T)) /\ Cardinality(OwingBy(b, T)) \in Nat
             /\ Cardinality(OwingBy(b, T)) <= Cardinality(Owing(b))
  <2>1. OwingBy(b, T) \subseteq Owing(b)
    BY DEF OwingBy
  <2>2. IsFiniteSet(OwingBy(b, T)) /\ Cardinality(OwingBy(b, T)) <= Cardinality(Owing(b))
    BY <1>1, <2>1, FS_Subset
  <2> QED
    BY <2>2, FS_CardinalityType
<1> QED
  BY <1>1, <1>2

LEMMA LimiterInitInv == LimiterInit => LimiterInv
<1> SUFFICES ASSUME LimiterInit PROVE LimiterInv
  OBVIOUS
<1>1. LimiterType
  BY CostType DEF LimiterInit, LimiterType, Stage, Buckets, Never
<1>2. CreditInv
  BY CostType DEF LimiterInit, CreditInv, Refilled, Elapsed, Never
<1>3. \A b, T : Owing(b) = {} /\ OwingBy(b, T) = {}
  BY DEF LimiterInit, Owing, OwingBy, Stage
<1>4. OwedInv
  <2>1. \A b, T : Cardinality(Owing(b)) = 0 /\ Cardinality(OwingBy(b, T)) = 0
    BY <1>3, FS_EmptySet
  <2>2. \A b \in Buckets : Refilled(b) = Second /\ grants[b] = 0 /\ now = 0
    BY CostType DEF LimiterInit, Refilled, Elapsed, Never
  <2>3. \A i \in Items : item[i].pc # "owed"
    BY DEF LimiterInit, Stage
  <2> QED
    BY <2>1, <2>2, <2>3, CostType, PaidNone DEF OwedInv
<1>5. Holding = {} /\ calls = {}
  BY DEF LimiterInit, Holding, Stage
<1>6. CallInv
  BY <1>5, FS_EmptySet, LimiterAssumption DEF CallInv
<1> QED
  BY <1>1, <1>2, <1>4, <1>6 DEF LimiterInv

\* A stage that is not "owed" to another one: nobody's debt changes.
LEMMA OwingKept ==
  ASSUME LimiterType, NEW i \in Items, NEW s, item[i].pc # "owed", s.pc # "owed",
         item' = [item EXCEPT ![i] = s]
  PROVE  /\ \A b, T : Owing(b)' = Owing(b) /\ OwingBy(b, T)' = OwingBy(b, T)
         /\ OwedInv => \A k \in Items : item'[k].pc = "owed" => Cost(item'[k].b) > Second
<1>1. \A k \in Items : item'[k] = IF k = i THEN s ELSE item[k]
  BY DEF LimiterType
<1> QED
  BY <1>1 DEF Owing, OwingBy, OwedInv

\* The same for the semaphore.
LEMMA HoldingKept ==
  ASSUME LimiterType, NEW i \in Items, NEW s, item[i].pc # "run", s.pc # "run",
         item' = [item EXCEPT ![i] = s]
  PROVE  Holding' = Holding
BY DEF LimiterType, Holding

LEMMA HoldingFinite == IsFiniteSet(Holding) /\ Cardinality(Holding) \in Nat
BY FS_Subset, FS_CardinalityType, LimiterAssumption DEF Holding

\* A bucket that has just been brought up to date, with v tokens in it.
LEMMA RefilledNow ==
  ASSUME LimiterType, CreditInv, NEW b \in Buckets, NEW v \in Int, v <= Second, now' = now,
         tokens' = [tokens EXCEPT ![b] = v], last_update' = [last_update EXCEPT ![b] = now]
  PROVE  /\ Refilled(b)' = v
         /\ \A c \in Buckets : c # b => Refilled(c)' = Refilled(c)
         /\ \A c \in Buckets : tokens'[c] <= Second /\ Never <= last_update'[c] /\ last_update'[c] <= now'
         /\ tokens' \in [Buckets -> Int] /\ last_update' \in [Buckets -> Int]
<1>1. /\ \A c \in Buckets : tokens'[c] = IF c = b THEN v ELSE tokens[c]
      /\ \A c \in Buckets : last_update'[c] = IF c = b THEN now ELSE last_update[c]
      /\ tokens' \in [Buckets -> Int] /\ last_update' \in [Buckets -> Int]
  BY DEF LimiterType
<1>2. now \in Nat
  BY DEF LimiterType
<1>3. Elapsed(b)' = 0 /\ \A c \in Buckets : c # b => Elapsed(c)' = Elapsed(c)
  BY <1>1, <1>2 DEF Elapsed, Never
<1>4. Refilled(b)' = v
  BY <1>1, <1>3, CostType DEF Refilled
<1>5. \A c \in Buckets : c # b => Refilled(c)' = Refilled(c)
  BY <1>1, <1>3 DEF Refilled
<1>6. \A c \in Buckets : tokens'[c] <= Second /\ Never <= last_update'[c] /\ last_update'[c] <= now'
  BY <1>1, <1>2 DEF CreditInv, Never
<1> QED
  BY <1>1, <1>4, <1>5, <1>6

LEMMA StageType ==
  ASSUME LimiterType, NEW i \in Items, NEW s, item' = [item EXCEPT ![i] = s],
         s \in [pc : {"acquire", "retry", "owed", "sem", "run", "done"}, b : Buckets, t : Nat]
  PROVE  item' \in [Items -> [pc : {"acquire", "retry", "owed", "sem", "run", "done"}, b : Buckets, t : Nat]]
BY DEF LimiterType

LEMMA AfterType ==
  ASSUME NEW b \in Buckets
  PROVE  /\ After(b) \in [pc : {"acquire", "retry", "owed", "sem", "run", "done"}, b : Buckets, t : Nat]
         /\ After(b).pc \notin {"owed", "run"}
BY DEF After, Stage, Buckets

LEMMA LimiterAcquireRetry ==
  ASSUME LimiterInv, NEW i \in Items, Acquire(i), Cost(item[i].b) - Refilled(item[i].b) > 0
  PROVE  LimiterInv'
<1> DEFINE b == item[i].b
           s == Stage("retry", b, now + (Cost(b) - Refilled(b)))
<1>1. /\ item[i].pc = "acquire" /\ Cost(b) <= Second /\ now' = now /\ is_async' = is_async /\ calls' = calls
      /\ grants' = grants /\ credit' = credit
      /\ tokens' = [tokens EXCEPT ![b] = Refilled(b)] /\ last_update' = [last_update EXCEPT ![b] = now]
      /\ item' = [item EXCEPT ![i] = s]
      /\ b \in Buckets
  <2>1. b \in Buckets
    BY DEF LimiterInv, LimiterType
  <2>2. Refilled(b) \in Int /\ Cost(b) \in Int
    BY <2>1, RefilledType, CostType DEF LimiterInv
  <2> QED
    BY <2>1, <2>2 DEF Acquire, NotGranted
<1>2. Refilled(b) \in Int /\ Refilled(b) <= Second /\ Cost(b) \in Nat /\ now \in Nat
  BY <1>1, RefilledType, CostType DEF LimiterInv, LimiterType
<1>3. \A c \in Buckets : Refilled(c)' = Refilled(c)
  BY <1>1, <1>2, RefilledNow DEF LimiterInv
<1>4. s \in [pc : {"acquire", "retry", "owed", "sem", "run", "done"}, b : Buckets, t : Nat] /\ s.pc = "retry"
  BY <1>1, <1>2 DEF Stage
<1> HIDE DEF s
<1>5. LimiterType'
  BY <1>1, <1>2, <1>4, StageType, RefilledNow DEF LimiterInv, LimiterType
<1>6. CreditInv'
  BY <1>1, <1>2, <1>3, RefilledNow DEF LimiterInv, CreditInv
<1>7. OwedInv'
  BY <1>1, <1>3, <1>4, OwingKept DEF LimiterInv, OwedInv
<1>8. CallInv'
  BY <1>1, <1>4, HoldingKept DEF LimiterInv, CallInv
<1> QED
  BY <1>5, <1>6, <1>7, <1>8 DEF LimiterInv

LEMMA LimiterAcquireGrant ==
  ASSUME LimiterInv, NEW i \in Items, Acquire(i), Cost(item[i].b) - Refilled(item[i].b) <= 0
  PROVE  LimiterInv'
<1>0. PICK b \in Buckets : b = item[i].b
  BY DEF LimiterInv, LimiterType
<1> DEFINE s == After(b)
<1>1. /\ item[i].pc = "acquire" /\ Cost(b) <= Second /\ now' = now /\ is_async' = is_async /\ calls' = calls
      /\ grants' = [grants EXCEPT ![b] = @ + 1] /\ credit' = [credit EXCEPT ![b] = @ - Cost(b)]
      /\ tokens' = [tokens EXCEPT ![b] = Refilled(b) - Cost(b)] /\ last_update' = [last_update EXCEPT ![b] = now]
      /\ item' = [item EXCEPT ![i] = s]
      /\ Cost(b) - Refilled(b) <= 0
  <2>1. Refilled(b) \in Int /\ Cost(b) \in Int
    BY RefilledType, CostType DEF LimiterInv
  <2> QED
    BY <1>0, <2>1 DEF Acquire, Granted
<1>2. Refilled(b) \in Int /\ Refilled(b) <= Second /\ Cost(b) \in Nat /\ now \in Nat /\ Second \in Nat
  BY <1>1, RefilledType, CostType DEF LimiterInv, LimiterType
<1>3. Refilled(b)' = Refilled(b) - Cost(b) /\ \A c \in Buckets : c # b => Refilled(c)' = Refilled(c)
  <2>1. Refilled(b) - Cost(b) \in Int /\ Refilled(b) - Cost(b) <= Second
    BY <1>2
  <2> QED
    BY <1>1, <2>1, RefilledNow DEF LimiterInv
<1>4. /\ s \in [pc : {"acquire", "retry", "owed", "sem", "run", "done"}, b : Buckets, t : Nat]
      /\ s.pc # "owed" /\ s.pc # "run"
  BY <1>1, AfterType
<1> HIDE DEF s
<1>5. LimiterType'
  BY <1>1, <1>2, <1>4, StageType, RefilledNow DEF LimiterInv, LimiterType
<1>6. CreditInv'
  <2>1. \A c \in Buckets : tokens'[c] <= Second /\ Never <= last_update'[c] /\ last_update'[c] <= now'
    <3>1. Refilled(b) - Cost(b) \in Int /\ Refilled(b) - Cost(b) <= Second
      BY <1>2
    <3> QED
      BY <1>1, <3>1, RefilledNow DEF LimiterInv
  <2>2. \A c \in Buckets : credit[c] \in Int /\ credit'[c] = IF c = b THEN credit[b] - Cost(b) ELSE credit[c]
    BY <1>1 DEF LimiterInv, LimiterType
  <2>3. \A c \in Buckets : Cost(c) <= Second => Refilled(c) <= credit[c] /\ 0 <= credit[c] /\ credit[c] <= Second
    BY DEF LimiterInv, CreditInv
  <2>4. \A c \in Buckets : Cost(c) <= Second => Refilled(c)' <= credit'[c] /\ 0 <= credit'[c] /\ credit'[c] <= Second
    BY <1>1, <1>2, <1>3, <2>2, <2>3
  <2> QED
    BY <2>1, <2>4 DEF CreditInv
<1>7. OwedInv'
  <2>1. /\ \A c, T : Owing(c)' = Owing(c) /\ OwingBy(c, T)' = OwingBy(c, T)
        /\ \A k \in Items : item'[k].pc = "owed" => Cost(item'[k].b) > Second
    BY <1>1, <1>4, OwingKept DEF LimiterInv
  <2>2. Owing(b) = {} /\ \A T : OwingBy(b, T) = {}
    <3>1. Cost(b) \in Nat /\ Second \in Nat /\ ~(Cost(b) > Second)
      BY <1>1, CostType
    <3>2. Owing(b) = {}
      BY <3>1 DEF Owing, LimiterInv, OwedInv
    <3> QED
      BY <3>2 DEF OwingBy
  <2>3. \A c \in Buckets : grants[c] \in Nat /\ grants'[c] = IF c = b THEN grants[b] + 1 ELSE grants[c]
    BY <1>1 DEF LimiterInv, LimiterType
  <2>4. Cardinality(Owing(b)) = 0 /\ \A T : Cardinality(OwingBy(b, T)) = 0
    BY <2>2, FS_EmptySet
  <2>5. Refilled(b) + Paid(grants[b], b) <= Second + now
    BY <1>1, <2>3, <2>4 DEF LimiterInv, OwedInv
  <2>6. Paid(grants[b] + 1, b) = Paid(grants[b], b) + Cost(b) /\ Paid(grants[b], b) \in Nat
    BY <1>1, <2>3, PaidOneMore, PaidType
  <2>7. (Refilled(b) - Cost(b)) + Paid(grants[b] + 1, b) <= Second + now
    BY <1>2, <2>5, <2>6
  <2>8. Paid(grants[b] + 1, b) <= Second + now
    BY <1>1, <1>2, <2>5, <2>6
  <2>9. ASSUME NEW c \in Buckets
        PROVE  /\ Refilled(c)' + Paid(grants'[c] + Cardinality(Owing(c)'), c) <= Second + now
               /\ \A T \in Nat : now <= T => Paid(grants'[c] + Cardinality(OwingBy(c, T)'), c) <= Second + T
    <3>1. CASE c = b
      <4>1. grants'[c] + Cardinality(Owing(c)') = grants[b] + 1
        BY <2>1, <2>3, <2>4, <3>1
      <4>2. \A T : grants'[c] + Cardinality(OwingBy(c, T)') = grants[b] + 1
        BY <2>1, <2>3, <2>4, <3>1
      <4>3. Paid(grants[b] + 1, b) \in Nat
        BY <1>1, <2>3, PaidType
      <4>4. \A T \in Nat : now <= T => Paid(grants[b] + 1, b) <= Second + T
        BY <1>2, <2>8, <4>3
      <4> QED
        BY <1>3, <2>7, <3>1, <4>1, <4>2, <4>4
    <3>2. CASE c # b
      BY <1>1, <1>3, <2>1, <2>3, <3>2 DEF LimiterInv, OwedInv
    <3> QED
      BY <3>1, <3>2
  <2> QED
    BY <1>1, <2>1, <2>9 DEF OwedInv
<1>8. CallInv'
  BY <1>1, <1>4, HoldingKept DEF LimiterInv, CallInv
<1> QED
  BY <1>5, <1>6, <1>7, <1>8 DEF LimiterInv

LEMMA LimiterAcquireLarge ==
  ASSUME LimiterInv, NEW i \in Items, AcquireLarge(i)
  PROVE  LimiterInv'
<1>0. PICK b \in Buckets : b = item[i].b
  BY DEF LimiterInv, LimiterType
<1> DEFINE t == now + (Cost(b) - Refilled(b))
           s == Stage("owed", b, t)
<1>1. /\ item[i].pc = "acquire" /\ Cost(b) > Second /\ now' = now /\ is_async' = is_async /\ calls' = calls
      /\ grants' = grants /\ credit' = credit
      /\ tokens' = [tokens EXCEPT ![b] = Refilled(b) - Cost(b)] /\ last_update' = [last_update EXCEPT ![b] = now]
      /\ item' = [item EXCEPT ![i] = s]
  BY <1>0 DEF AcquireLarge, NotGranted
<1>2. Refilled(b) \in Int /\ Refilled(b) <= Second /\ Cost(b) \in Nat /\ now \in Nat /\ Second \in Nat
  BY RefilledType, CostType DEF LimiterInv, LimiterType
<1>3. Refilled(b) - Cost(b) \in Int /\ Refilled(b) - Cost(b) <= Second /\ t \in Nat /\ now <= t
  BY <1>1, <1>2
<1>4. /\ s \in [pc : {"acquire", "retry", "owed", "sem", "run", "done"}, b : Buckets, t : Nat]
      /\ s.pc = "owed" /\ s.b = b /\ s.t = t
  BY <1>3 DEF Stage
<1> HIDE DEF s
<1>5. /\ Refilled(b)' = Refilled(b) - Cost(b) /\ \A c \in Buckets : c # b => Refilled(c)' = Refilled(c)
      /\ \A c \in Buckets : tokens'[c] <= Second /\ Never <= last_update'[c] /\ last_update'[c] <= now'
      /\ tokens' \in [Buckets -> Int] /\ last_update' \in [Buckets -> Int]
  BY <1>1, <1>3, RefilledNow DEF LimiterInv
<1>6. LimiterType'
  BY <1>1, <1>4, <1>5, StageType DEF LimiterInv, LimiterType
<1>7. CreditInv'
  BY <1>1, <1>2, <1>5 DEF LimiterInv, CreditInv
<1>8. OwedInv'
  <2>1. \A k \in Items : item'[k] = IF k = i THEN s ELSE item[k]
    BY <1>1 DEF LimiterInv, LimiterType
  <2>2. \A k \in Items : item'[k].pc = "owed" => Cost(item'[k].b) > Second
    BY <1>1, <1>4, <2>1 DEF LimiterInv, OwedInv
  <2>3. Owing(b)' = Owing(b) \cup {i} /\ i \notin Owing(b)
    BY <1>1, <1>4, <2>1 DEF Owing
  <2>4. \A c, T : c # b => Owing(c)' = Owing(c) /\ OwingBy(c, T)' = OwingBy(c, T)
    BY <1>1, <1>4, <2>1 DEF Owing, OwingBy
  <2>5. \A T \in Nat : OwingBy(b, T)' = IF t <= T THEN OwingBy(b, T) \cup {i} ELSE OwingBy(b, T)
    <3> HIDE DEF t
    <3> QED
      BY <1>1, <1>4, <2>1, <2>3 DEF OwingBy, Owing
  <2>6. Cardinality(Owing(b)') = Cardinality(Owing(b)) + 1
    BY <2>3, OwingFinite, FS_AddElement
  <2> DEFINE n == grants[b] + Cardinality(Owing(b))
  <2>7. n \in Nat /\ grants[b] \in Nat /\ Refilled(b) + Paid(n, b) <= Second + now
    BY OwingFinite DEF LimiterInv, LimiterType, OwedInv
  <2>8. Paid(n + 1, b) = Paid(n, b) + Cost(b) /\ Paid(n, b) \in Nat /\ Paid(n + 1, b) \in Nat
    BY <2>7, PaidOneMore, PaidType
  <2>9. (Refilled(b) - Cost(b)) + Paid(n + 1, b) <= Second + now /\ Paid(n + 1, b) <= Second + t
    <3> HIDE DEF n
    <3> QED
      BY <1>2, <2>7, <2>8
  <2>10. grants'[b] + Cardinality(Owing(b)') = n + 1
    BY <1>1, <2>6, <2>7, OwingFinite
  <2>11. ASSUME NEW T \in Nat, now <= T
         PROVE  Paid(grants'[b] + Cardinality(OwingBy(b, T)'), b) <= Second + T
    <3>1. CASE t <= T
      <4>1. Cardinality(OwingBy(b, T)') \in Nat /\ Cardinality(OwingBy(b, T)') <= Cardinality(Owing(b)) + 1
        <5>1. OwingBy(b, T)' \subseteq Owing(b)'
          BY DEF OwingBy
        <5>2. IsFiniteSet(Owing(b)')
          BY <2>3, OwingFinite, FS_AddElement
        <5> QED
          BY <2>6, <5>1, <5>2, FS_Subset, FS_CardinalityType
      <4> DEFINE m == grants[b] + Cardinality(OwingBy(b, T)')
      <4>2. m \in Nat /\ n + 1 \in Nat /\ m <= n + 1
        BY <2>7, <4>1, OwingFinite
      <4> HIDE DEF m, n
      <4>3. Paid(m, b) <= Paid(n + 1, b) /\ Paid(m, b) \in Nat
        BY <4>2, PaidMonotone, PaidType
      <4>4. Paid(m, b) <= Second + T
        BY <1>2, <1>3, <2>8, <2>9, <3>1, <4>3
      <4> QED
        BY <1>1, <4>4 DEF m
    <3>2. CASE ~(t <= T)
      BY <1>1, <2>5, <2>11, <3>2 DEF LimiterInv, OwedInv
    <3> QED
      BY <3>1, <3>2
  <2>12. ASSUME NEW c \in Buckets
         PROVE  /\ Refilled(c)' + Paid(grants'[c] + Cardinality(Owing(c)'), c) <= Second + now
                /\ \A T \in Nat : now <= T => Paid(grants'[c] + Cardinality(OwingBy(c, T)'), c) <= Second + T
    <3>1. CASE c = b
      BY <1>5, <2>9, <2>10, <2>11, <3>1
    <3>2. CASE c # b
      BY <1>1, <1>5, <2>4, <3>2 DEF LimiterInv, OwedInv
    <3> QED
      BY <3>1, <3>2
  <2> QED
    BY <1>1, <2>2, <2>12 DEF OwedInv
<1>9. CallInv'
  BY <1>1, <1>4, HoldingKept DEF LimiterInv, CallInv
<1> QED
  BY <1>6, <1>7, <1>8, <1>9 DEF LimiterInv

\* The parts that look at the buckets and the clock only.
LEMMA BucketsKept ==
  ASSUME LimiterInv, UNCHANGED <<now, tokens, last_update, credit>>
  PROVE  CreditInv' /\ \A b \in Buckets : Refilled(b)' = Refilled(b)
<1>1. \A b \in Buckets : Refilled(b)' = Refilled(b)
  BY DEF Refilled, Elapsed
<1> QED
  BY <1>1 DEF LimiterInv, CreditInv

LEMMA LimiterWakeRetry ==
  ASSUME LimiterInv, NEW i \in Items, Wake(i), item[i].pc = "retry"
  PROVE  LimiterInv'
<1>0. PICK b \in Buckets : b = item[i].b
  BY DEF LimiterInv, LimiterType
<1> DEFINE s == Stage("acquire", b, 0)
<1>1. /\ UNCHANGED <<now, is_async, tokens, last_update, calls, grants, credit>>
      /\ item' = [item EXCEPT ![i] = s]
  BY <1>0 DEF Wake, NotGranted
<1>2. /\ s \in [pc : {"acquire", "retry", "owed", "sem", "run", "done"}, b : Buckets, t : Nat]
      /\ s.pc = "acquire"
  BY DEF Stage
<1> HIDE DEF s
<1>3. LimiterType'
  BY <1>1, <1>2, StageType DEF LimiterInv, LimiterType
<1>4. CreditInv' /\ \A c \in Buckets : Refilled(c)' = Refilled(c)
  BY <1>1, BucketsKept
<1>5. OwedInv'
  BY <1>1, <1>2, <1>4, OwingKept DEF LimiterInv, OwedInv
<1>6. CallInv'
  BY <1>1, <1>2, HoldingKept DEF LimiterInv, CallInv
<1> QED
  BY <1>3, <1>4, <1>5, <1>6 DEF LimiterInv

LEMMA LimiterWakeOwed ==
  ASSUME LimiterInv, NEW i \in Items, Wake(i), item[i].pc = "owed"
  PROVE  LimiterInv'
<1>0. PICK b \in Buckets : b = item[i].b
  BY DEF LimiterInv, LimiterType
<1> DEFINE s == After(b)
<1>1. /\ UNCHANGED <<now, is_async, tokens, last_update, calls>>
      /\ item' = [item EXCEPT ![i] = s] /\ item[i].t <= now
      /\ grants' = [grants EXCEPT ![b] = @ + 1] /\ credit' = [credit EXCEPT ![b] = @ - Cost(b)]
  BY <1>0 DEF Wake, Granted, LimiterInv, LimiterType
<1>2. /\ s \in [pc : {"acquire", "retry", "owed", "sem", "run", "done"}, b : Buckets, t : Nat]
      /\ s.pc # "owed" /\ s.pc # "run"
  BY AfterType
<1> HIDE DEF s
<1>3. /\ Cost(b) > Second /\ Cost(b) \in Nat /\ Second \in Nat
      /\ \A c \in Buckets : Refilled(c)' = Refilled(c)
  BY <1>0, <1>1, CostType DEF LimiterInv, OwedInv, Refilled, Elapsed
<1>4. LimiterType'
  BY <1>1, <1>2, <1>3, StageType DEF LimiterInv, LimiterType
<1>5. CreditInv'
  <2>1. ~(Cost(b) <= Second)
    BY <1>3
  <2>2. \A c \in Buckets : c # b => credit'[c] = credit[c]
    BY <1>1 DEF LimiterInv, LimiterType
  <2> QED
    BY <1>1, <1>3, <2>1, <2>2 DEF LimiterInv, CreditInv
<1>6. OwedInv'
  <2>1. \A k \in Items : item'[k] = IF k = i THEN s ELSE item[k]
    BY <1>1 DEF LimiterInv, LimiterType
  <2>2. \A k \in Items : item'[k].pc = "owed" => Cost(item'[k].b) > Second
    BY <1>2, <2>1 DEF LimiterInv, OwedInv
  <2>3. Owing(b)' = Owing(b) \ {i} /\ i \in Owing(b)
    BY <1>0, <1>2, <2>1 DEF Owing
  <2>4. \A c, T : c # b => Owing(c)' = Owing(c) /\ OwingBy(c, T)' = OwingBy(c, T)
    BY <1>0, <1>2, <2>1 DEF Owing, OwingBy
  <2>5. \A T \in Nat : now <= T => OwingBy(b, T)' = OwingBy(b, T) \ {i} /\ i \in OwingBy(b, T)
    <3> SUFFICES ASSUME NEW T \in Nat, now <= T
                 PROVE  OwingBy(b, T)' = OwingBy(b, T) \ {i} /\ i \in OwingBy(b, T)
      OBVIOUS
    <3>1. item[i].t <= T
      BY <1>1 DEF LimiterInv, LimiterType
    <3> QED
      BY <2>1, <2>3, <3>1 DEF OwingBy, Owing
  <2>6. grants[b] \in Nat /\ grants'[b] = grants[b] + 1 /\ \A c \in Buckets : c # b => grants'[c] = grants[c]
    BY <1>1 DEF LimiterInv, LimiterType
  <2>7. grants'[b] + Cardinality(Owing(b)') = grants[b] + Cardinality(Owing(b))
    <3>1. Cardinality(Owing(b)') = Cardinality(Owing(b)) - 1
      BY <2>3, OwingFinite, FS_RemoveElement
    <3> QED
      BY <2>6, <3>1, OwingFinite
  <2>8. ASSUME NEW T \in Nat, now <= T
        PROVE  grants'[b] + Cardinality(OwingBy(b, T)') = grants[b] + Cardinality(OwingBy(b, T))
    <3>1. Cardinality(OwingBy(b, T)') = Cardinality(OwingBy(b, T)) - 1
      BY <2>5, <2>8, OwingFinite, FS_RemoveElement
    <3> QED
      BY <2>6, <3>1, OwingFinite
  <2>9. ASSUME NEW c \in Buckets
        PROVE  /\ Refilled(c)' + Paid(grants'[c] + Cardinality(Owing(c)'), c) <= Second + now
               /\ \A T \in Nat : now <= T => Paid(grants'[c] + Cardinality(OwingBy(c, T)'), c) <= Second + T
    <3>1. CASE c = b
      BY <1>3, <2>7, <2>8, <3>1 DEF LimiterInv, OwedInv
    <3>2. CASE c # b
      BY <1>3, <2>4, <2>6, <3>2 DEF LimiterInv, OwedInv
    <3> QED
      BY <3>1, <3>2
  <2> QED
    BY <1>1, <2>2, <2>9 DEF OwedInv
<1>7. CallInv'
  BY <1>1, <1>2, HoldingKept DEF LimiterInv, CallInv
<1> QED
  BY <1>4, <1>5, <1>6, <1>7 DEF LimiterInv

\* The semaphore and the calls: only items that owe nothing move.
LEMMA LimiterEnter ==
  ASSUME LimiterInv, NEW i \in Items, Enter(i)
  PROVE  LimiterInv'
<1> DEFINE s == Stage("run", "tpm", now)
<1>1. /\ UNCHANGED <<now, is_async, tokens, last_update, grants, credit>>
      /\ item' = [item EXCEPT ![i] = s] /\ calls' = calls \cup {i}
      /\ item[i].pc = "sem" /\ FreeSlot
  BY DEF Enter, bucketVars
<1>2. /\ s \in [pc : {"acquire", "retry", "owed", "sem", "run", "done"}, b : Buckets, t : Nat]
      /\ s.pc = "run"
  BY DEF Stage, LimiterInv, LimiterType, Buckets
<1> HIDE DEF s
<1>3. LimiterType'
  BY <1>1, <1>2, StageType DEF LimiterInv, LimiterType
<1>4. CreditInv' /\ \A c \in Buckets : Refilled(c)' = Refilled(c)
  BY <1>1, BucketsKept
<1>5. OwedInv'
  BY <1>1, <1>2, <1>4, OwingKept DEF LimiterInv, OwedInv
<1>6. CallInv'
  <2>1. Holding' = Holding \cup {i} /\ i \notin Holding
    BY <1>1, <1>2 DEF Holding, LimiterInv, LimiterType
  <2>2. Cardinality(Holding') = Cardinality(Holding) + 1
    BY <2>1, HoldingFinite, FS_AddElement
  <2>3. Cardinality(Holding') <= MaxConcurrent
    BY <1>1, <2>2, HoldingFinite, LimiterAssumption DEF FreeSlot
  <2> QED
    BY <1>1, <2>1, <2>3 DEF LimiterInv, CallInv
<1> QED
  BY <1>3, <1>4, <1>5, <1>6 DEF LimiterInv

LEMMA LimiterCallEnds ==
  ASSUME LimiterInv, NEW i \in Items, Scored(i) \/ TimedOut(i)
  PROVE  LimiterInv'
<1> DEFINE s == Stage("done", "tpm", 0)
<1>1. /\ UNCHANGED <<now, is_async, tokens, last_update, grants, credit>>
      /\ item' = [item EXCEPT ![i] = s] /\ item[i].pc = "run"
      /\ calls' \subseteq calls /\ (is_async => calls' = calls \ {i})
  BY DEF Scored, TimedOut, bucketVars
<1>2. /\ s \in [pc : {"acquire", "retry", "owed", "sem", "run", "done"}, b : Buckets, t : Nat]
      /\ s.pc = "done"
  BY DEF Stage, Buckets
<1> HIDE DEF s
<1>3. LimiterType'
  BY <1>1, <1>2, StageType DEF LimiterInv, LimiterType
<1>4. CreditInv' /\ \A c \in Buckets : Refilled(c)' = Refilled(c)
  BY <1>1, BucketsKept
<1>5. OwedInv'
  BY <1>1, <1>2, <1>4, OwingKept DEF LimiterInv, OwedInv
<1>6. CallInv'
  <2>1. Holding' = Holding \ {i}
    BY <1>1, <1>2 DEF Holding, LimiterInv, LimiterType
  <2>2. Cardinality(Holding') <= Cardinality(Holding) /\ Cardinality(Holding') \in Nat
    BY <2>1, HoldingFinite, FS_Subset, FS_CardinalityType
  <2>3. Cardinality(Holding') <= MaxConcurrent
    BY <2>2, HoldingFinite, LimiterAssumption DEF LimiterInv, CallInv
  <2> QED
    BY <1>1, <2>1, <2>3 DEF LimiterInv, CallInv
<1> QED
  BY <1>3, <1>4, <1>5, <1>6 DEF LimiterInv

LEMMA LimiterThreadEnds ==
  ASSUME LimiterInv, NEW i \in Items, ThreadEnds(i)
  PROVE  LimiterInv'
<1>1. UNCHANGED <<now, is_async, tokens, last_update, grants, credit, item>> /\ calls' \subseteq calls
  BY DEF ThreadEnds, bucketVars
<1>2. LimiterType'
  BY <1>1 DEF LimiterInv, LimiterType
<1>3. CreditInv' /\ \A c \in Buckets : Refilled(c)' = Refilled(c)
  BY <1>1, BucketsKept
<1>4. OwedInv'
  BY <1>1, <1>3 DEF LimiterInv, OwedInv, Owing, OwingBy
<1>5. CallInv'
  BY <1>1 DEF LimiterInv, CallInv, Holding
<1> QED
  BY <1>2, <1>3, <1>4, <1>5 DEF LimiterInv

\* Time passes: a bucket gains at most what the ideal one gains.
LEMMA LimiterTick ==
  ASSUME LimiterInv, Tick
  PROVE  LimiterInv'
<1>1. /\ now' = now + 1 /\ now \in Nat
      /\ UNCHANGED <<is_async, tokens, last_update, item, calls, grants>>
      /\ credit' = [b \in Buckets |-> IF credit[b] < Second THEN credit[b] + 1 ELSE Second]
  BY DEF Tick, LimiterInv, LimiterType
<1>2. LimiterType'
  <2>1. credit' \in [Buckets -> Int]
    BY <1>1, CostType DEF LimiterInv, LimiterType
  <2> QED
    BY <1>1, <2>1 DEF LimiterInv, LimiterType
<1>3. ASSUME NEW b \in Buckets
      PROVE  /\ Refilled(b)' <= Refilled(b) + 1 /\ Refilled(b)' <= Second
             /\ Refilled(b)' \in Int /\ Refilled(b) \in Int
  <2>1. /\ Elapsed(b) \in Int /\ Elapsed(b)' \in Int
        /\ Elapsed(b)' <= Elapsed(b) + 1
    BY <1>1 DEF Elapsed, Never, LimiterInv, LimiterType
  <2>2. tokens[b] \in Int /\ tokens'[b] = tokens[b] /\ Second \in Nat
    BY <1>1, CostType DEF LimiterInv, LimiterType
  <2>3. Refilled(b) = IF tokens[b] + Elapsed(b) < Second THEN tokens[b] + Elapsed(b) ELSE Second
    BY DEF Refilled
  <2>4. Refilled(b)' = IF tokens[b] + Elapsed(b)' < Second THEN tokens[b] + Elapsed(b)' ELSE Second
    BY <2>2 DEF Refilled
  <2> QED
    BY <2>1, <2>2, <2>3, <2>4
<1>4. CreditInv'
  <2>1. ASSUME NEW b \in Buckets, Cost(b) <= Second
        PROVE  Refilled(b)' <= credit'[b] /\ 0 <= credit'[b] /\ credit'[b] <= Second
    <3>1. Refilled(b) <= credit[b] /\ 0 <= credit[b] /\ credit[b] <= Second /\ credit[b] \in Int
      BY <2>1 DEF LimiterInv, CreditInv, LimiterType
    <3>2. credit'[b] = IF credit[b] < Second THEN credit[b] + 1 ELSE Second
      BY <1>1
    <3> QED
      BY <1>3, <3>1, <3>2, CostType
  <2>2. \A b \in Buckets : last_update[b] \in Int
    BY DEF LimiterInv, LimiterType
  <2>3. \A b \in Buckets : tokens'[b] <= Second /\ Never <= last_update'[b] /\ last_update'[b] <= now'
    BY <1>1, <2>2 DEF LimiterInv, CreditInv
  <2> QED
    BY <2>1, <2>3 DEF CreditInv
<1>5. OwedInv'
  <2>1. \A b, T : Owing(b)' = Owing(b) /\ OwingBy(b, T)' = OwingBy(b, T)
    BY <1>1 DEF Owing, OwingBy
  <2>2. ASSUME NEW b \in Buckets
        PROVE  Refilled(b)' + Paid(grants'[b] + Cardinality(Owing(b)'), b) <= Second + now'
    <3> DEFINE p == Paid(grants[b] + Cardinality(Owing(b)), b)
    <3>1. p \in Nat
      <4>1. grants[b] + Cardinality(Owing(b)) \in Nat
        BY OwingFinite DEF LimiterInv, LimiterType
      <4> QED
        BY <4>1, PaidType
    <3>2. Refilled(b) + p <= Second + now
      BY DEF LimiterInv, OwedInv
    <3> HIDE DEF p
    <3>3. Refilled(b)' + p <= Second + now'
      BY <1>1, <1>3, <3>1, <3>2, CostType
    <3> QED
      BY <1>1, <2>1, <3>3 DEF p
  <2>3. \A T \in Nat : now' <= T => now <= T
    BY <1>1
  <2>4. ASSUME NEW b \in Buckets, NEW T \in Nat, now' <= T
        PROVE  Paid(grants'[b] + Cardinality(OwingBy(b, T)'), b) <= Second + T
    BY <1>1, <2>1, <2>3, <2>4 DEF LimiterInv, OwedInv
  <2>5. \A i \in Items : item'[i].pc = "owed" => Cost(item'[i].b) > Second
    BY <1>1 DEF LimiterInv, OwedInv
  <2> QED
    BY <2>2, <2>4, <2>5 DEF OwedInv
<1>6. CallInv'
  BY <1>1 DEF LimiterInv, CallInv, Holding
<1> QED
  BY <1>2, <1>4, <1>5, <1>6 DEF LimiterInv

LEMMA LimiterKept ==
  ASSUME LimiterInv, UNCHANGED limiterVars
  PROVE  LimiterInv'
BY DEF limiterVars, LimiterInv, LimiterType, CreditInv, OwedInv, CallInv, Refilled, Elapsed,
  Owing, OwingBy, Holding

LEMMA LimiterImplies ==
  ASSUME LimiterInv PROVE LimitsKept
<1>1. \A b \in Buckets :
        /\ grants[b] \in Nat /\ tokens[b] \in Int /\ now \in Nat /\ Second \in Nat
        /\ Paid(grants[b], b) \in Nat /\ Paid(grants[b], b) = grants[b] * Cost(b)
  BY PaidType, CostType DEF LimiterInv, LimiterType, Paid
<1>2. ASSUME NEW b \in Buckets, NEW S \in {Owing(b), OwingBy(b, now)}
      PROVE  /\ Paid(grants[b], b) <= Paid(grants[b] + Cardinality(S), b)
             /\ Paid(grants[b] + Cardinality(S), b) \in Nat
  <2>1. Cardinality(S) \in Nat
    BY OwingFinite
  <2>2. grants[b] + Cardinality(S) \in Nat /\ grants[b] <= grants[b] + Cardinality(S)
    BY <1>1, <2>1
  <2> QED
    BY <1>1, <2>2, PaidMonotone, PaidType
<1>3. TokensConserved
  <2>1. ASSUME NEW b \in Buckets PROVE tokens[b] <= Second /\ tokens[b] + grants[b] * Cost(b) <= Second + now
    <3> DEFINE p == Paid(grants[b] + Cardinality(Owing(b)), b)
    <3>1. Refilled(b) + p <= Second + now /\ p \in Nat /\ Paid(grants[b], b) <= p
      BY <1>2 DEF LimiterInv, OwedInv
    <3> HIDE DEF p
    <3>2. Refilled(b) \in Int /\ tokens[b] <= Refilled(b) /\ tokens[b] <= Second
      BY RefilledType DEF LimiterInv, CreditInv
    <3>3. tokens[b] + Paid(grants[b], b) <= Second + now
      BY <1>1, <3>1, <3>2
    <3> QED
      BY <1>1, <3>2, <3>3
  <2> QED
    BY <2>1 DEF TokensConserved
<1>4. RateKept
  <2>1. ASSUME NEW b \in Buckets PROVE grants[b] * Cost(b) <= Second + now
    <3> DEFINE p == Paid(grants[b] + Cardinality(OwingBy(b, now)), b)
    <3>1. now \in Nat /\ now <= now
      BY <1>1
    <3>2. p <= Second + now /\ p \in Nat /\ Paid(grants[b], b) <= p
      BY <1>2, <3>1 DEF LimiterInv, OwedInv
    <3> HIDE DEF p
    <3>3. Paid(grants[b], b) <= Second + now
      BY <1>1, <3>2
    <3> QED
      BY <1>1, <3>3
  <2> QED
    BY <2>1 DEF RateKept, LimiterInv, CreditInv
<1>5. CallsBoundedAsync
  <2>1. ASSUME is_async PROVE Cardinality(calls) <= MaxConcurrent
    <3>1. calls \subseteq Holding
      BY <2>1 DEF LimiterInv, CallInv
    <3>2. Cardinality(calls) <= Cardinality(Holding) /\ Cardinality(calls) \in Nat
      BY <3>1, HoldingFinite, FS_Subset, FS_CardinalityType
    <3> QED
      BY <3>2, HoldingFinite, LimiterAssumption DEF LimiterInv, CallInv
  <2> QED
    BY <2>1 DEF CallsBoundedAsync
<1> QED
  BY <1>3, <1>4, <1>5 DEF LimitsKept

(* LimitsKept for any batch, any costs, rates and timeout: the lazy refill   *)
(* of AsyncTokenBucket never lets more requests pass than an ideal bucket    *)
(* would, requests larger than the bucket included, whatever the order in    *)
(* which sleeping ones are woken and however late; and with a coroutine as   *)
(* reward function the semaphore bounds what really runs.                    *)
THEOREM LimitsHold == LimiterSpec => []LimitsKept
<1>1. LimiterInit => LimiterInv
  BY LimiterInitInv
<1>2. LimiterInv /\ [LimiterNext]_limiterVars => LimiterInv'
  <2> SUFFICES ASSUME LimiterInv, [LimiterNext]_limiterVars PROVE LimiterInv'
    OBVIOUS
  <2>1. ASSUME NEW i \in Items, Acquire(i) PROVE LimiterInv'
    <3>1. item[i].b \in Buckets
      BY DEF LimiterInv, LimiterType
    <3>2. Cost(item[i].b) - Refilled(item[i].b) \in Int
      BY <3>1, CostType, RefilledType DEF LimiterInv
    <3>3. Cost(item[i].b) - Refilled(item[i].b) > 0 \/ Cost(item[i].b) - Refilled(item[i].b) <= 0
      BY <3>2
    <3> QED
      BY <2>1, <3>3, LimiterAcquireRetry, LimiterAcquireGrant
  <2>2. ASSUME NEW i \in Items, Wake(i) PROVE LimiterInv'
    <3>1. item[i].pc = "retry" \/ item[i].pc = "owed"
      BY <2>2 DEF Wake
    <3> QED
      BY <2>2, <3>1, LimiterWakeRetry, LimiterWakeOwed
  <2> QED
    BY <2>1, <2>2, LimiterAcquireLarge, LimiterEnter, LimiterCallEnds, LimiterThreadEnds,
       LimiterTick, LimiterKept DEF LimiterNext
<1>3. LimiterInv => LimitsKept
  BY LimiterImplies
<1> QED
  BY <1>1, <1>2, <1>3, PTL DEF LimiterSpec
=============================================================================
