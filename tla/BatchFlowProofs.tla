-------------------------- MODULE BatchFlowProofs --------------------------
(***************************************************************************)
(* That no row of a batch is lost, doubled or given another row's result   *)
(* (RowsKept), and that the ranks run the same number of micro-batches     *)
(* (MicroInStep), for every batch, mesh and length of the rows.  First the *)
(* means: sums, lists that hold every element once, sorting and joining;   *)
(* then the algorithms of SeqlenBalancing; then the cutting of batches;    *)
(* then the step itself.                                                   *)
(***************************************************************************)
EXTENDS BatchFlow, FunctionTheorems, FiniteSetTheorems, TLAPS

SumOf(s) == FoldSeq(LAMBDA x, y : x + y, 0, s)
\* What % and \div mean, in terms of multiples.
LEMMA Divided ==
  \A k \in Int : \A l \in Nat \ {0} :
    \E q \in Int : \E r \in 0 .. l - 1 : q = k \div l /\ r = k % l /\ k = l * q + r
<1> SUFFICES ASSUME NEW k \in Int, NEW l \in Nat \ {0}
             PROVE  \E q \in Int : \E r \in 0 .. l - 1 : q = k \div l /\ r = k % l /\ k = l * q + r
  OBVIOUS
<1>1. ASSUME NEW q \in Int, NEW r \in Int, q = k \div l, r = k % l PROVE k = l * q + r
  BY <1>1
<1>2. k \div l \in Int /\ k % l \in 0 .. l - 1
  OBVIOUS
<1> QED
  BY <1>1, <1>2

\* A set of natural numbers has a least element.
LEMMA LeastNumber ==
  ASSUME NEW T \in SUBSET Nat, T # {}
  PROVE  \E x \in T : \A y \in T : x <= y
<1>1. PICK x \in T : \A y \in T : ~ (<<y, x>> \in OpToRel(<, Nat))
  BY WFMin, NatLessThanWellFounded
<1>2. \A y \in T : ~ (y < x)
  BY <1>1 DEF OpToRel
<1> QED
  BY <1>2

\* What holds of a set once it holds without one of its elements holds of
\* every subset of a finite set.
LEMMA SubsetInduction ==
  ASSUME NEW D, IsFiniteSet(D), NEW G,
         \A T \in SUBSET D : (\A x \in T : T \ {x} \in G) => T \in G
  PROVE  \A T \in SUBSET D : T \in G
<1> SUFFICES ASSUME NEW U \in SUBSET D, U \notin G PROVE FALSE
  OBVIOUS
<1> DEFINE Sizes == {n \in Nat : \E T \in SUBSET D : T \notin G /\ n = Cardinality(T)}
<1>1. \A T \in SUBSET D : IsFiniteSet(T) /\ Cardinality(T) \in Nat
  BY FS_Subset, FS_CardinalityType
<1>2. Cardinality(U) \in Sizes
  BY <1>1
<1>3. PICK n \in Sizes : \A m \in Sizes : n <= m
  BY <1>2, LeastNumber
<1>4. PICK T \in SUBSET D : T \notin G /\ n = Cardinality(T)
  BY <1>3
<1>5. PICK x \in T : T \ {x} \notin G
  BY <1>4
<1>6. Cardinality(T \ {x}) = n - 1 /\ T \ {x} \in SUBSET D
  BY <1>1, <1>4, <1>5, FS_RemoveElement
<1>7. n - 1 \in Sizes
  BY <1>1, <1>5, <1>6
<1> QED
  BY <1>3, <1>7

Picked(T) == CHOOSE x \in T : TRUE

\* One step of the fold over a sequence, f being what it gives for a part of
\* the indices, and what it gives in the end.
Fold(s, f) == [T \in SUBSET DOMAIN s |-> IF T = {} THEN 0
                                         ELSE s[Picked(T)] + f[T \ {Picked(T)}]]
SumOn(s, T) == (CHOOSE f : f = Fold(s, f))[T]

\* FoldSeq adds up, in whatever order, what a sequence holds.
LEMMA SumIsOn == ASSUME NEW s PROVE SumOf(s) = SumOn(s, DOMAIN s)
BY DEF SumOf, FoldSeq, FoldFunction, FoldFunctionOnSet, MapThenFoldSet, SumOn, Fold, Picked

\* There is such an f: one that is right for the parts of at most k indices
\* can be made right for those of k + 1.
LEMMA FoldExists ==
  ASSUME NEW s, IsFiniteSet(DOMAIN s)
  PROVE  \E f : f = Fold(s, f)
<1> DEFINE D == DOMAIN s
           Right(f, T) == f[T] = IF T = {} THEN 0 ELSE s[Picked(T)] + f[T \ {Picked(T)}]
           Upto(k, f) == \A T \in SUBSET D : Cardinality(T) <= k => Right(f, T)
           Wrong == {k \in Nat : ~ \E f : Upto(k, f)}
<1>1. \A T \in SUBSET D : IsFiniteSet(T) /\ Cardinality(T) \in Nat
  BY FS_Subset, FS_CardinalityType
<1>2. \A T \in SUBSET D : Cardinality(T) <= 0 => T = {}
  BY <1>1, FS_EmptySet
<1>3. \A T \in SUBSET D : T # {} => /\ Picked(T) \in T /\ T \ {Picked(T)} \in SUBSET D
                                    /\ Cardinality(T \ {Picked(T)}) = Cardinality(T) - 1
  <2> SUFFICES ASSUME NEW T \in SUBSET D, T # {}
               PROVE  /\ Picked(T) \in T /\ T \ {Picked(T)} \in SUBSET D
                      /\ Cardinality(T \ {Picked(T)}) = Cardinality(T) - 1
    OBVIOUS
  <2>1. Picked(T) \in T
    BY DEF Picked
  <2> QED
    BY <1>1, <2>1, FS_RemoveElement
<1>4. 0 \notin Wrong
  <2> DEFINE f == [T \in SUBSET D |-> 0]
  <2>1. Upto(0, f)
    BY <1>2
  <2> QED
    BY <2>1
<1>5. ASSUME NEW k \in Nat, k + 1 \in Wrong PROVE k \in Wrong
  <2> SUFFICES ASSUME NEW f, Upto(k, f) PROVE FALSE
    OBVIOUS
  <2> DEFINE g == [T \in SUBSET D |-> IF Cardinality(T) <= k THEN f[T]
                                      ELSE s[Picked(T)] + f[T \ {Picked(T)}]]
  <2>1. ASSUME NEW T \in SUBSET D, Cardinality(T) <= k + 1 PROVE Right(g, T)
    <3>1. CASE T = {}
      <4>1. Cardinality(T) <= k
        BY <3>1, FS_EmptySet
      <4> QED
        BY <3>1, <4>1
    <3>2. CASE T # {}
      <4>1. /\ T \ {Picked(T)} \in SUBSET D
            /\ Cardinality(T \ {Picked(T)}) <= k
        BY <1>1, <1>3, <2>1, <3>2
      <4>2. g[T \ {Picked(T)}] = f[T \ {Picked(T)}]
        BY <4>1
      <4>3. g[T] = s[Picked(T)] + f[T \ {Picked(T)}]
        BY <3>2
      <4> QED
        BY <3>2, <4>2, <4>3
    <3> QED
      BY <3>1, <3>2
  <2>2. Upto(k + 1, g)
    BY <2>1
  <2> HIDE DEF g, Upto
  <2> QED
    BY <1>5, <2>2
<1> HIDE DEF Upto
<1>6. Wrong = {}
  <2> SUFFICES ASSUME Wrong # {} PROVE FALSE
    OBVIOUS
  <2>1. PICK k \in Wrong : \A m \in Wrong : k <= m
    BY LeastNumber
  <2>2. k - 1 \in Nat /\ (k - 1) + 1 = k
    BY <1>4, <2>1
  <2>3. k - 1 \in Wrong
    BY <1>5, <2>1, <2>2
  <2> QED
    BY <2>1, <2>2, <2>3
<1>7. PICK f : Upto(Cardinality(D), f)
  BY <1>1, <1>6
<1> DEFINE h == [T \in SUBSET D |-> f[T]]
<1>8. ASSUME NEW T \in SUBSET D PROVE Right(h, T)
  <2>1. Cardinality(T) <= Cardinality(D)
    BY FS_Subset
  <2>2. Right(f, T)
    BY <1>7, <2>1 DEF Upto
  <2> QED
    BY <2>2, <1>3
<1>9. h = Fold(s, h)
  BY <1>8 DEF Fold
<1> HIDE DEF h
<1> QED
  BY <1>9

\* One element is taken out of the indices at a time.
LEMMA SumOnStep ==
  ASSUME NEW s, IsFiniteSet(DOMAIN s), NEW T \in SUBSET DOMAIN s
  PROVE  /\ T = {} => SumOn(s, T) = 0
         /\ T # {} => /\ Picked(T) \in T
                      /\ SumOn(s, T) = s[Picked(T)] + SumOn(s, T \ {Picked(T)})
<1> DEFINE f == CHOOSE f : f = Fold(s, f)
<1>1. f = Fold(s, f)
  BY FoldExists
<1>2. \A U : SumOn(s, U) = f[U]
  BY DEF SumOn
<1> HIDE DEF f
<1>3. f[T] = IF T = {} THEN 0 ELSE s[Picked(T)] + f[T \ {Picked(T)}]
  <2>1. Fold(s, f)[T] = IF T = {} THEN 0 ELSE s[Picked(T)] + f[T \ {Picked(T)}]
    BY DEF Fold
  <2> QED
    BY <1>1, <2>1
<1>4. T # {} => Picked(T) \in T
  BY DEF Picked
<1> QED
  BY <1>2, <1>3, <1>4

\* The numbers that are summed.
Numbers(s) == IsFiniteSet(DOMAIN s) /\ \A i \in DOMAIN s : s[i] \in Int

\* A sum of integers is one.
LEMMA SumOnInt ==
  ASSUME NEW s, Numbers(s), NEW T \in SUBSET DOMAIN s
  PROVE  SumOn(s, T) \in Int
<1> DEFINE G == {U \in SUBSET DOMAIN s : SumOn(s, U) \in Int}
<1>1. ASSUME NEW U \in SUBSET DOMAIN s, \A x \in U : U \ {x} \in G PROVE U \in G
  <2>1. CASE U = {}
    <3>1. SumOn(s, U) = 0
      BY <2>1, SumOnStep DEF Numbers
    <3> QED
      BY <3>1
  <2>2. CASE U # {}
    <3>1. Picked(U) \in U /\ SumOn(s, U) = s[Picked(U)] + SumOn(s, U \ {Picked(U)})
      BY <2>2, SumOnStep DEF Numbers
    <3>2. SumOn(s, U \ {Picked(U)}) \in Int /\ s[Picked(U)] \in Int
      BY <1>1, <3>1 DEF Numbers
    <3> QED
      BY <3>1, <3>2
  <2> QED
    BY <2>1, <2>2
<1>2. T \in G
  <2>1. \A U \in SUBSET DOMAIN s : (\A x \in U : U \ {x} \in G) => U \in G
    BY <1>1
  <2> HIDE DEF G
  <2>2. IsFiniteSet(DOMAIN s)
    BY DEF Numbers
  <2> QED
    BY <2>1, <2>2, SubsetInduction
<1> QED
  BY <1>2

\* The order in which the elements are added does not matter.
LEMMA SumOnAny ==
  ASSUME NEW s, Numbers(s), NEW T \in SUBSET DOMAIN s, NEW z \in T
  PROVE  SumOn(s, T) = s[z] + SumOn(s, T \ {z})
<1> DEFINE P(U, x) == SumOn(s, U) = s[x] + SumOn(s, U \ {x})
           G == {U \in SUBSET DOMAIN s : \A x \in U : P(U, x)}
<1>1. ASSUME NEW U \in SUBSET DOMAIN s, \A x \in U : U \ {x} \in G, NEW x \in U PROVE P(U, x)
  <2> DEFINE p == Picked(U)
  <2>1. p \in U /\ SumOn(s, U) = s[p] + SumOn(s, U \ {p})
    BY SumOnStep DEF Numbers
  <2> HIDE DEF p
  <2>2. CASE p = x
    BY <2>1, <2>2
  <2>3. CASE p # x
    <3>1. U \ {p} \in G /\ U \ {x} \in G /\ x \in U \ {p} /\ p \in U \ {x}
      BY <1>1, <2>1, <2>3
    <3>2. /\ SumOn(s, U \ {p}) = s[x] + SumOn(s, (U \ {p}) \ {x})
          /\ SumOn(s, U \ {x}) = s[p] + SumOn(s, (U \ {x}) \ {p})
      BY <3>1
    <3>3. (U \ {p}) \ {x} = (U \ {x}) \ {p}
      OBVIOUS
    <3>4. s[x] \in Int /\ s[p] \in Int /\ SumOn(s, (U \ {x}) \ {p}) \in Int
      BY <2>1, SumOnInt DEF Numbers
    <3>5. SumOn(s, U) = s[p] + (s[x] + SumOn(s, (U \ {x}) \ {p}))
      BY <2>1, <3>2, <3>3
    <3> QED
      BY <3>2, <3>4, <3>5
  <2> QED
    BY <2>2, <2>3
<1>2. T \in G
  <2>1. \A U \in SUBSET DOMAIN s : (\A x \in U : U \ {x} \in G) => U \in G
    BY <1>1
  <2> HIDE DEF G
  <2>2. IsFiniteSet(DOMAIN s)
    BY DEF Numbers
  <2> QED
    BY <2>1, <2>2, SubsetInduction
<1> QED
  BY <1>2

\* Only the elements at the indices count.
LEMMA SumOnSame ==
  ASSUME NEW s, NEW t, IsFiniteSet(DOMAIN s), IsFiniteSet(DOMAIN t),
         NEW T \in SUBSET DOMAIN s, T \subseteq DOMAIN t, \A i \in T : s[i] = t[i]
  PROVE  SumOn(s, T) = SumOn(t, T)
<1> DEFINE G == {U \in SUBSET T : SumOn(s, U) = SumOn(t, U)}
<1>1. ASSUME NEW U \in SUBSET T, \A x \in U : U \ {x} \in G PROVE U \in G
  <2>0. U \in SUBSET DOMAIN s /\ U \in SUBSET DOMAIN t
    OBVIOUS
  <2>1. CASE U = {}
    BY <2>0, <2>1, SumOnStep
  <2>2. CASE U # {}
    <3>1. /\ Picked(U) \in U
          /\ SumOn(s, U) = s[Picked(U)] + SumOn(s, U \ {Picked(U)})
          /\ SumOn(t, U) = t[Picked(U)] + SumOn(t, U \ {Picked(U)})
      BY <2>0, <2>2, SumOnStep
    <3>2. SumOn(s, U \ {Picked(U)}) = SumOn(t, U \ {Picked(U)}) /\ s[Picked(U)] = t[Picked(U)]
      BY <1>1, <3>1
    <3> QED
      BY <3>1, <3>2
  <2> QED
    BY <2>1, <2>2
<1>2. T \in G
  <2>1. IsFiniteSet(T)
    BY FS_Subset
  <2> HIDE DEF G
  <2> QED
    BY <1>1, <2>1, SubsetInduction
<1> QED
  BY <1>2

\* A sequence of integers can be added up.
LEMMA NumbersOfSeq ==
  ASSUME NEW q \in Seq(Int)
  PROVE  Numbers(q) /\ DOMAIN q = 1 .. Len(q) /\ Len(q) \in Nat
<1>1. DOMAIN q = 1 .. Len(q) /\ Len(q) \in Nat /\ \A i \in 1 .. Len(q) : q[i] \in Int
  OBVIOUS
<1>2. IsFiniteSet(1 .. Len(q))
  BY <1>1, FS_Interval
<1> QED
  BY <1>1, <1>2 DEF Numbers

\* Nothing adds up to nothing.
LEMMA SumEmpty == SumOf(<<>>) = 0
<1>1. DOMAIN <<>> = {}
  OBVIOUS
<1>2. IsFiniteSet({})
  BY FS_EmptySet
<1>3. SumOn(<<>>, {}) = 0
  BY <1>1, <1>2, SumOnStep
<1> QED
  BY <1>1, <1>3, SumIsOn

\* A sum of natural numbers is at least each of them.
LEMMA SumNat ==
  ASSUME NEW q, Numbers(q), \A i \in DOMAIN q : q[i] >= 0
  PROVE  SumOf(q) \in Nat /\ \A i \in DOMAIN q : q[i] <= SumOf(q)
<1> DEFINE D == DOMAIN q
           G == {U \in SUBSET D : SumOn(q, U) \in Nat}
<1>1. ASSUME NEW U \in SUBSET D, \A x \in U : U \ {x} \in G PROVE U \in G
  <2>1. CASE U = {}
    <3>1. SumOn(q, U) = 0
      BY <2>1, SumOnStep DEF Numbers
    <3> QED
      BY <3>1
  <2>2. CASE U # {}
    <3>1. Picked(U) \in U /\ SumOn(q, U) = q[Picked(U)] + SumOn(q, U \ {Picked(U)})
      BY <2>2, SumOnStep DEF Numbers
    <3>2. SumOn(q, U \ {Picked(U)}) \in Nat /\ q[Picked(U)] \in Nat
      BY <1>1, <3>1 DEF Numbers
    <3> QED
      BY <3>1, <3>2
  <2> QED
    BY <2>1, <2>2
<1>2. \A U \in SUBSET D : SumOn(q, U) \in Nat
  <2>1. \A U \in SUBSET D : (\A x \in U : U \ {x} \in G) => U \in G
    BY <1>1
  <2>2. \A U \in SUBSET D : U \in G
    <3> HIDE DEF G
    <3>1. IsFiniteSet(D)
      BY DEF Numbers
    <3> QED
      BY <2>1, <3>1, SubsetInduction
  <2> QED
    BY <2>2
<1>3. SumOf(q) = SumOn(q, D)
  BY SumIsOn
<1>4. ASSUME NEW i \in D PROVE q[i] <= SumOf(q)
  <2>1. SumOn(q, D) = q[i] + SumOn(q, D \ {i})
    BY SumOnAny
  <2>2. SumOn(q, D \ {i}) \in Nat /\ q[i] \in Int
    BY <1>2 DEF Numbers
  <2> QED
    BY <1>3, <2>1, <2>2
<1> QED
  BY <1>2, <1>3, <1>4

\* What holds of 0 and of every successor of a number it holds of, holds of every number.
LEMMA UpFromZero ==
  ASSUME NEW G, 0 \in G, \A n \in Nat : n \in G => n + 1 \in G
  PROVE  \A n \in Nat : n \in G
<1> SUFFICES ASSUME NEW u \in Nat, u \notin G PROVE FALSE
  OBVIOUS
<1>1. PICK n \in Nat \ G : \A m \in Nat \ G : n <= m
  <2>1. Nat \ G \in SUBSET Nat /\ Nat \ G # {}
    OBVIOUS
  <2> QED
    BY <2>1, LeastNumber
<1>2. n - 1 \in Nat /\ (n - 1) + 1 = n
  BY <1>1
<1>3. n - 1 \in G
  BY <1>1, <1>2
<1> QED
  BY <1>1, <1>2, <1>3

-----------------------------------------------------------------------------
(* Rows, each of them once                                                   *)

\* s holds every element of S, each of them once.
Lists(s, S) ==
  /\ s \in Seq(S)
  /\ \A x \in S : \E i \in 1 .. Len(s) : s[i] = x
  /\ \A i, j \in 1 .. Len(s) : s[i] = s[j] => i = j

\* t is s in another order.
Rearranges(t, s) == \E p : Lists(p, 1 .. Len(s)) /\ Len(p) = Len(s) /\ t = [i \in 1 .. Len(s) |-> s[p[i]]]

\* A list of all elements is as long as there are elements.
LEMMA ListLength ==
  ASSUME NEW S, NEW s, Lists(s, S)
  PROVE  /\ IsFiniteSet(S) /\ Cardinality(S) = Len(s) /\ Len(s) \in Nat /\ DOMAIN s = 1 .. Len(s)
         /\ \A i \in 1 .. Len(s) : s[i] \in S
<1>1. Len(s) \in Nat /\ s \in [1 .. Len(s) -> S]
  BY DEF Lists
<1>2. s \in Bijection(1 .. Len(s), S)
  BY <1>1, Fun_IsBij DEF Lists
<1>3. IsFiniteSet(1 .. Len(s)) /\ Cardinality(1 .. Len(s)) = Len(s)
  BY <1>1, FS_Interval
<1>4. ExistsBijection(1 .. Len(s), S)
  BY <1>2 DEF ExistsBijection
<1> QED
  BY <1>1, <1>3, <1>4, FS_Bijection

\* Two lists of the same elements have one length.
LEMMA SameLength ==
  ASSUME NEW S, NEW s, NEW t, Lists(s, S), Lists(t, S)
  PROVE  Len(s) = Len(t)
BY ListLength

\* A list of 1 .. n has n elements.
LEMMA LengthOfAll ==
  ASSUME NEW n \in Nat, NEW p, Lists(p, 1 .. n)
  PROVE  Len(p) = n
<1>1. Cardinality(1 .. n) = n
  BY FS_Interval
<1> QED
  BY <1>1, ListLength

\* Another order has the type and the length of the first.
LEMMA RearrangedSeq ==
  ASSUME NEW S, NEW s \in Seq(S), NEW t, Rearranges(t, s)
  PROVE  t \in Seq(S) /\ Len(t) = Len(s)
<1>1. PICK p : Lists(p, 1 .. Len(s)) /\ Len(p) = Len(s) /\ t = [i \in 1 .. Len(s) |-> s[p[i]]]
  BY DEF Rearranges
<1>2. \A i \in 1 .. Len(s) : p[i] \in 1 .. Len(s)
  BY <1>1, ListLength
<1>3. \A i \in 1 .. Len(s) : s[p[i]] \in S
  BY <1>2
<1> QED
  BY <1>1, <1>3

\* What lists every element once still does so in another order.
LEMMA RearrangedLists ==
  ASSUME NEW S, NEW s, Lists(s, S), NEW t, Rearranges(t, s)
  PROVE  Lists(t, S)
<1>1. PICK p : Lists(p, 1 .. Len(s)) /\ Len(p) = Len(s) /\ t = [i \in 1 .. Len(s) |-> s[p[i]]]
  BY DEF Rearranges
<1>2. s \in Seq(S) /\ Len(s) \in Nat
  BY DEF Lists
<1>3. t \in Seq(S) /\ Len(t) = Len(s)
  BY <1>2, RearrangedSeq
<1>4. \A i \in 1 .. Len(s) : t[i] = s[p[i]] /\ p[i] \in 1 .. Len(s)
  BY <1>1, <1>2, ListLength
<1>5. ASSUME NEW x \in S PROVE \E i \in 1 .. Len(t) : t[i] = x
  <2>1. PICK j \in 1 .. Len(s) : s[j] = x
    BY DEF Lists
  <2>2. PICK i \in 1 .. Len(s) : p[i] = j
    BY <1>1 DEF Lists
  <2> QED
    BY <1>3, <1>4, <2>1, <2>2
<1>6. ASSUME NEW i \in 1 .. Len(t), NEW j \in 1 .. Len(t), t[i] = t[j] PROVE i = j
  <2>1. s[p[i]] = s[p[j]] /\ p[i] \in 1 .. Len(s) /\ p[j] \in 1 .. Len(s)
    BY <1>3, <1>4, <1>6
  <2>2. p[i] = p[j]
    BY <2>1 DEF Lists
  <2> QED
    BY <1>1, <1>3, <2>2 DEF Lists
<1> QED
  BY <1>3, <1>5, <1>6 DEF Lists

\* data taken at the places that idx lists.
LEMMA ListsThrough ==
  ASSUME NEW S, NEW data, Lists(data, S), NEW idx, Lists(idx, 1 .. Len(data))
  PROVE  /\ Lists([j \in 1 .. Len(idx) |-> data[idx[j]]], S)
         /\ Len(idx) = Len(data)
<1>1. Len(data) \in Nat
  BY ListLength
<1>2. Len(idx) = Len(data)
  BY <1>1, LengthOfAll
<1>3. Rearranges([j \in 1 .. Len(idx) |-> data[idx[j]]], data)
  BY <1>2 DEF Rearranges
<1> QED
  BY <1>2, <1>3, RearrangedLists

-----------------------------------------------------------------------------
(* Sorting                                                                   *)

Orders(B, D) ==
  /\ \A i \in D : <<i, i>> \notin B
  /\ \A i, j, k \in D : <<i, j>> \in B /\ <<j, k>> \in B => <<i, k>> \in B
  /\ \A i, j \in D : i = j \/ <<i, j>> \in B \/ <<j, i>> \in B

\* Arranged puts the elements in an order the pairs of B agree with.
LEMMA ArrangedRearranges ==
  ASSUME NEW S, NEW s \in Seq(S), NEW B, Orders(B, 1 .. Len(s))
  PROVE  \E p : /\ Lists(p, 1 .. Len(s)) /\ Len(p) = Len(s)
                /\ Arranged(s, B) = [i \in 1 .. Len(s) |-> s[p[i]]]
                /\ \A i, j \in 1 .. Len(s) : i < j => <<p[i], p[j]>> \in B
<1> DEFINE n == Len(s)
           D == 1 .. n
           below(i) == {j \in D : <<j, i>> \in B}
           place == [i \in D |-> Cardinality(below(i))]
           p == [q \in D |-> CHOOSE i \in D : place[i] = q - 1]
<1>1. /\ n \in Nat /\ D = 1 .. n /\ DOMAIN s = D /\ n = Len(s)
      /\ \A i \in D : s[i] \in S
  OBVIOUS
<1>e. Arranged(s, B) = <<>> \o [i \in D |-> s[p[i]]]
  BY <1>1 DEF Arranged
<1>a. /\ place = [i \in D |-> Cardinality(below(i))]
      /\ \A i \in D : below(i) = {j \in D : <<j, i>> \in B}
  OBVIOUS
<1>b. p = [q \in D |-> CHOOSE i \in D : place[i] = q - 1]
  OBVIOUS
<1>c. Orders(B, D)
  OBVIOUS
<1> HIDE DEF n, D, below, place, p
<1>2. IsFiniteSet(D) /\ Cardinality(D) = n
  <2>1. n \in Int /\ 1 \in Int /\ (1 > n => n = 0) /\ n = n - 1 + 1
    BY <1>1
  <2>2. IsFiniteSet(1 .. n) /\ Cardinality(1 .. n) = IF 1 > n THEN 0 ELSE n - 1 + 1
    BY <2>1, FS_Interval
  <2> QED
    BY <1>1, <2>1, <2>2
<1>3. ASSUME NEW i \in D PROVE IsFiniteSet(below(i)) /\ place[i] \in 0 .. n - 1
  <2>a. below(i) = {j \in D : <<j, i>> \in B} /\ <<i, i>> \notin B
    BY <1>a, <1>c DEF Orders
  <2>1. below(i) \in SUBSET (D \ {i})
    BY <2>a
  <2>2. IsFiniteSet(D \ {i}) /\ Cardinality(D \ {i}) = n - 1
    BY <1>2, FS_RemoveElement
  <2>3. IsFiniteSet(below(i)) /\ Cardinality(below(i)) <= Cardinality(D \ {i})
    BY <2>1, <2>2, FS_Subset
  <2>4. Cardinality(below(i)) \in Nat
    BY <2>3, FS_CardinalityType
  <2> QED
    BY <1>1, <1>a, <2>2, <2>3, <2>4
<1>4. ASSUME NEW i \in D, NEW j \in D, <<i, j>> \in B PROVE place[i] < place[j]
  <2>1. below(i) \in SUBSET below(j)
    BY <1>4, <1>a, <1>c DEF Orders
  <2>2. i \in below(j) /\ i \notin below(i)
    BY <1>4, <1>a, <1>c DEF Orders
  <2>3. IsFiniteSet(below(i)) /\ IsFiniteSet(below(j))
    BY <1>3
  <2>4. Cardinality(below(i)) <= Cardinality(below(j)) /\ Cardinality(below(i)) # Cardinality(below(j))
    BY <2>1, <2>2, <2>3, FS_Subset
  <2>5. Cardinality(below(i)) \in Nat /\ Cardinality(below(j)) \in Nat
    BY <2>3, FS_CardinalityType
  <2> QED
    BY <1>a, <2>4, <2>5
<1>5. ASSUME NEW i \in D, NEW j \in D, place[i] = place[j] PROVE i = j
  <2>1. place[i] \in Int /\ place[j] \in Int
    BY <1>1, <1>3
  <2>2. ~ (place[i] < place[j]) /\ ~ (place[j] < place[i])
    BY <1>5, <2>1
  <2>3. <<i, j>> \notin B /\ <<j, i>> \notin B
    BY <1>4, <2>2
  <2> QED
    BY <1>c, <2>3 DEF Orders
<1>6. ASSUME NEW q \in D PROVE \E i \in D : place[i] = q - 1
  <2>1. place \in [D -> 0 .. n - 1]
    BY <1>3, <1>a
  <2>2. place \in Injection(D, 0 .. n - 1)
    BY <1>5, <2>1, Fun_IsInj
  <2>3. IsFiniteSet(0 .. n - 1) /\ Cardinality(0 .. n - 1) = n
    <3>1. n - 1 \in Int /\ 0 \in Int /\ (n = 0 => 0 > n - 1) /\ n = (n - 1) - 0 + 1
      BY <1>1
    <3>2. IsFiniteSet(0 .. n - 1) /\ Cardinality(0 .. n - 1) = IF 0 > n - 1 THEN 0 ELSE (n - 1) - 0 + 1
      BY <3>1, FS_Interval
    <3> QED
      BY <1>1, <3>1, <3>2
  <2>4. place \in Surjection(D, 0 .. n - 1)
    BY <1>2, <2>2, <2>3, FS_Injection
  <2>5. q - 1 \in 0 .. n - 1
    BY <1>1
  <2>6. \A t \in 0 .. n - 1 : \E i \in D : place[i] = t
    BY <2>4, Fun_SurjectionProperties
  <2> QED
    BY <2>5, <2>6
<1>7. ASSUME NEW q \in D PROVE p[q] \in D /\ place[p[q]] = q - 1
  BY <1>6, <1>b
<1>d. p \in [D -> D]
  BY <1>7, <1>b
<1>8. Arranged(s, B) = [i \in D |-> s[p[i]]]
  <2>1. [i \in D |-> s[p[i]]] \in Seq(S)
    BY <1>1, <1>7
  <2> QED
    BY <1>e, <2>1
<1>9. Lists(p, D) /\ Len(p) = n
  <2>2. p \in Seq(D) /\ Len(p) = n
    BY <1>1, <1>d
  <2>3. ASSUME NEW x \in D PROVE \E i \in D : p[i] = x
    <3>1. place[x] + 1 \in D /\ (place[x] + 1) - 1 = place[x]
      <4>1. place[x] \in 0 .. n - 1
        BY <1>3
      <4> QED
        BY <1>1, <4>1
    <3>2. place[p[place[x] + 1]] = place[x] /\ p[place[x] + 1] \in D
      BY <1>7, <3>1
    <3>3. p[place[x] + 1] = x
      BY <1>5, <3>2
    <3> QED
      BY <3>1, <3>3
  <2>4. ASSUME NEW i \in D, NEW j \in D, p[i] = p[j] PROVE i = j
    <3>1. i - 1 = j - 1
      BY <1>7, <2>4
    <3> QED
      BY <1>1, <3>1
  <2> QED
    BY <1>1, <2>2, <2>3, <2>4 DEF Lists
<1>10. ASSUME NEW i \in D, NEW j \in D, i < j PROVE <<p[i], p[j]>> \in B
  <2>1. p[i] \in D /\ p[j] \in D /\ place[p[i]] = i - 1 /\ place[p[j]] = j - 1
    BY <1>7
  <2>2. ~ (place[p[j]] < place[p[i]]) /\ p[i] # p[j]
    BY <1>1, <1>10, <2>1
  <2>3. <<p[j], p[i]>> \notin B
    BY <1>4, <2>1, <2>2
  <2> QED
    BY <1>c, <2>1, <2>2, <2>3 DEF Orders
<1> QED
  BY <1>1, <1>8, <1>9, <1>10
\* How a sequence is sorted by a relation on its elements.
Total(R, S) ==
  /\ \A x \in S : <<x, x>> \notin R
  /\ \A x, y, z \in S : <<x, y>> \in R /\ <<y, z>> \in R => <<x, z>> \in R
  /\ \A x, y \in S : x = y \/ <<x, y>> \in R \/ <<y, x>> \in R

IndexOrder(s, R) == {d \in (1 .. Len(s)) \X (1 .. Len(s)) :
                       <<s[d[1]], s[d[2]]>> \in R \/ (s[d[1]] = s[d[2]] /\ d[1] < d[2])}

\* A total order of the elements, and of equal ones by their places, orders the places.
LEMMA IndicesOrdered ==
  ASSUME NEW S, NEW s \in Seq(S), NEW R, Total(R, S)
  PROVE  Orders(IndexOrder(s, R), 1 .. Len(s))
<1> DEFINE D == 1 .. Len(s)
           B == IndexOrder(s, R)
<1>1. \A i, j \in D : <<i, j>> \in B <=> (<<s[i], s[j]>> \in R \/ (s[i] = s[j] /\ i < j))
  BY DEF IndexOrder
<1>2. \A i \in D : s[i] \in S /\ i \in Int
  OBVIOUS
<1> HIDE DEF D, B
<1>3. ASSUME NEW i \in D PROVE <<i, i>> \notin B
  <2>1. <<s[i], s[i]>> \notin R /\ ~ (i < i)
    BY <1>2 DEF Total
  <2> QED
    BY <1>1, <2>1
<1>4. ASSUME NEW i \in D, NEW j \in D, NEW k \in D, <<i, j>> \in B, <<j, k>> \in B
      PROVE  <<i, k>> \in B
  <2>1. /\ <<s[i], s[j]>> \in R \/ (s[i] = s[j] /\ i < j)
        /\ <<s[j], s[k]>> \in R \/ (s[j] = s[k] /\ j < k)
    BY <1>1, <1>4
  <2>2. <<s[i], s[k]>> \in R \/ (s[i] = s[k] /\ i < k)
    BY <1>2, <2>1 DEF Total
  <2> QED
    BY <1>1, <2>2
<1>5. ASSUME NEW i \in D, NEW j \in D PROVE i = j \/ <<i, j>> \in B \/ <<j, i>> \in B
  <2>1. s[i] = s[j] \/ <<s[i], s[j]>> \in R \/ <<s[j], s[i]>> \in R
    BY <1>2 DEF Total
  <2>2. i = j \/ i < j \/ j < i
    BY <1>2
  <2> QED
    BY <1>1, <2>1, <2>2
<1> QED
  BY <1>3, <1>4, <1>5 DEF Orders, D, B

\* Sorting by a total order rearranges, and leaves no two elements the wrong way round.
LEMMA SortRearranges ==
  ASSUME NEW S, NEW s \in Seq(S), NEW R, Total(R, S)
  PROVE  /\ Rearranges(Arranged(s, IndexOrder(s, R)), s)
         /\ LET t == Arranged(s, IndexOrder(s, R))
            IN \A i, j \in 1 .. Len(s) : i < j => <<t[i], t[j]>> \in R \/ t[i] = t[j]
<1> DEFINE B == IndexOrder(s, R)
           t == Arranged(s, B)
<1>1. PICK p : /\ Lists(p, 1 .. Len(s)) /\ Len(p) = Len(s)
               /\ t = [i \in 1 .. Len(s) |-> s[p[i]]]
               /\ \A i, j \in 1 .. Len(s) : i < j => <<p[i], p[j]>> \in B
  BY IndicesOrdered, ArrangedRearranges
<1>2. Rearranges(t, s)
  BY <1>1 DEF Rearranges
<1>3. ASSUME NEW i \in 1 .. Len(s), NEW j \in 1 .. Len(s), i < j
      PROVE  <<t[i], t[j]>> \in R \/ t[i] = t[j]
  <2>1. p[i] \in 1 .. Len(s) /\ p[j] \in 1 .. Len(s) /\ t[i] = s[p[i]] /\ t[j] = s[p[j]]
    BY <1>1, ListLength
  <2>2. <<p[i], p[j]>> \in B
    BY <1>1, <1>3
  <2> HIDE DEF t
  <2>3. <<s[p[i]], s[p[j]]>> \in R \/ s[p[i]] = s[p[j]]
    BY <2>1, <2>2 DEF IndexOrder
  <2> QED
    BY <2>1, <2>3
<1> QED
  BY <1>2, <1>3

-----------------------------------------------------------------------------
(* Parts, and what FlattenSeq makes of them                                  *)

\* What the parts before the i-th and it are together.
Joined(f, parts) == [i \in 1 .. Len(parts) |-> IF i = 1 THEN parts[1] ELSE f[i - 1] \o parts[i]]

\* The parts can be joined one after the other.
LEMMA JoinExists ==
  ASSUME NEW parts, Len(parts) \in Nat
  PROVE  \E f : f = Joined(f, parts)
<1> DEFINE K == Len(parts)
           Right(f, i) == f[i] = IF i = 1 THEN parts[1] ELSE f[i - 1] \o parts[i]
           Upto(n, f) == \A i \in 1 .. K : i <= n => Right(f, i)
           G == {n \in Nat : \E f : Upto(n, f)}
<1>1. 0 \in G
  <2>1. Upto(0, parts)
    OBVIOUS
  <2> QED
    BY <2>1
<1>2. ASSUME NEW n \in Nat, n \in G PROVE n + 1 \in G
  <2>1. PICK f : Upto(n, f)
    BY <1>2
  <2> DEFINE g == [i \in 1 .. K |-> IF i <= n THEN f[i]
                                    ELSE IF i = 1 THEN parts[1] ELSE f[i - 1] \o parts[i]]
  <2>2. ASSUME NEW i \in 1 .. K, i <= n + 1 PROVE Right(g, i)
    <3>1. CASE i = 1
      BY <2>1, <3>1
    <3>2. CASE i # 1
      <4>1. i - 1 \in 1 .. K /\ i - 1 <= n
        BY <2>2, <3>2
      <4>2. g[i - 1] = f[i - 1]
        BY <4>1
      <4>3. g[i] = f[i - 1] \o parts[i]
        BY <2>1, <3>2
      <4> QED
        BY <3>2, <4>2, <4>3
    <3> QED
      BY <3>1, <3>2
  <2> HIDE DEF g, Right
  <2>3. Upto(n + 1, g)
    BY <2>2
  <2> HIDE DEF Upto
  <2> QED
    BY <2>3
<1>3. K \in G
  <2> HIDE DEF G
  <2> QED
    BY <1>1, <1>2, UpFromZero
<1>4. PICK f : Upto(K, f)
  BY <1>3
<1> DEFINE h == [i \in 1 .. K |-> f[i]]
<1>5. ASSUME NEW i \in 1 .. K PROVE h[i] = IF i = 1 THEN parts[1] ELSE h[i - 1] \o parts[i]
  <2>1. i <= K
    OBVIOUS
  <2>2. Right(f, i)
    BY <1>4, <2>1
  <2>3. i # 1 => i - 1 \in 1 .. K
    OBVIOUS
  <2> QED
    BY <2>2, <2>3
<1>6. h = Joined(h, parts)
  <2> HIDE DEF h
  <2>1. h = [i \in 1 .. K |-> h[i]]
    BY DEF h
  <2> QED
    BY <1>5, <2>1 DEF Joined
<1> HIDE DEF h
<1> QED
  BY <1>6

\* FlattenSeq joins the parts one after the other.
LEMMA FlattenIs ==
  ASSUME NEW parts, Len(parts) \in Nat \ {0}
  PROVE  \E f : f = Joined(f, parts) /\ FlattenSeq(parts) = f[Len(parts)]
<1> DEFINE f == CHOOSE f : f = Joined(f, parts)
<1>1. f = Joined(f, parts)
  BY JoinExists
<1>2. FlattenSeq(parts) = f[Len(parts)]
  BY DEF FlattenSeq, Joined
<1> HIDE DEF f
<1> QED
  BY <1>1, <1>2

\* A function on 1 .. n is a sequence of n elements.
LEMMA FunctionIsSeq ==
  ASSUME NEW S, NEW n \in Nat, NEW f \in [1 .. n -> S]
  PROVE  f \in Seq(S) /\ Len(f) = n
OBVIOUS

\* A sequence is a function on 1 .. Len.
LEMMA SeqIsFunction ==
  ASSUME NEW S, NEW f \in Seq(S)
  PROVE  /\ Len(f) \in Nat /\ DOMAIN f = 1 .. Len(f) /\ f = [i \in 1 .. Len(f) |-> f[i]]
         /\ \A i \in 1 .. Len(f) : f[i] \in S
OBVIOUS

\* Where the elements of two sequences are in their concatenation
LEMMA Concatenated ==
  ASSUME NEW S, NEW a \in Seq(S), NEW b \in Seq(S), NEW c, c = a \o b
  PROVE  /\ c \in Seq(S) /\ Len(c) = Len(a) + Len(b) /\ Len(a) \in Nat /\ Len(b) \in Nat
         /\ \A q \in 1 .. Len(a) : q \in 1 .. Len(c) /\ c[q] = a[q]
         /\ \A q \in 1 .. Len(b) : Len(a) + q \in 1 .. Len(c) /\ c[Len(a) + q] = b[q]
         /\ \A q \in 1 .. Len(c) : q \notin 1 .. Len(a) =>
              q - Len(a) \in 1 .. Len(b) /\ c[q] = b[q - Len(a)] /\ q = Len(a) + (q - Len(a))
<1>1. /\ c \in Seq(S) /\ Len(c) = Len(a) + Len(b) /\ Len(a) \in Nat /\ Len(b) \in Nat
      /\ \A q \in 1 .. Len(c) : c[q] = IF q <= Len(a) THEN a[q] ELSE b[q - Len(a)]
  OBVIOUS
<1>2. \A q \in 1 .. Len(a) : q \in 1 .. Len(c) /\ c[q] = a[q]
  BY <1>1
<1>3. ASSUME NEW q \in 1 .. Len(b) PROVE Len(a) + q \in 1 .. Len(c) /\ c[Len(a) + q] = b[q]
  <2>1. Len(a) + q \in 1 .. Len(c) /\ ~ (Len(a) + q <= Len(a)) /\ (Len(a) + q) - Len(a) = q
    BY <1>1
  <2> QED
    BY <1>1, <2>1
<1>4. ASSUME NEW q \in 1 .. Len(c), q \notin 1 .. Len(a)
      PROVE  q - Len(a) \in 1 .. Len(b) /\ c[q] = b[q - Len(a)] /\ q = Len(a) + (q - Len(a))
  BY <1>1, <1>4
<1> QED
  BY <1>1, <1>2, <1>3, <1>4

\* k sequences that hold every element of S, each of them in one place.
Splits(parts, k, S) ==
  /\ parts \in Seq(Seq(S)) /\ Len(parts) = k
  /\ \A x \in S : \E i \in 1 .. k : \E j \in 1 .. Len(parts[i]) : parts[i][j] = x
  /\ \A i, h \in 1 .. k : \A j \in 1 .. Len(parts[i]), l \in 1 .. Len(parts[h]) :
       parts[i][j] = parts[h][l] => i = h /\ j = l

\* Parts that hold every element once are joined to a list of the elements.
LEMMA FlattenLists ==
  ASSUME NEW S, NEW parts, NEW k \in Nat, Splits(parts, k, S)
  PROVE  Lists(FlattenSeq(parts), S)
<1>1. /\ parts \in Seq(Seq(S)) /\ Len(parts) = k
      /\ \A i \in 1 .. k : parts[i] \in Seq(S) /\ Len(parts[i]) \in Nat
                           /\ \A j \in 1 .. Len(parts[i]) : parts[i][j] \in S
  BY DEF Splits
<1>2. CASE k = 0
  <2>1. parts = <<>> /\ S = {}
    BY <1>1, <1>2 DEF Splits
  <2>2. FlattenSeq(parts) = <<>>
    BY <2>1 DEF FlattenSeq
  <2>3. <<>> \in Seq({}) /\ 1 .. Len(<<>>) = {}
    OBVIOUS
  <2>4. Lists(<<>>, {})
    BY <2>3 DEF Lists
  <2> QED
    BY <2>1, <2>2, <2>4
<1>3. CASE k # 0
  <2>1. PICK f : f = Joined(f, parts) /\ FlattenSeq(parts) = f[k]
    BY <1>1, <1>3, FlattenIs
  <2>2. \A i \in 1 .. k : f[i] = IF i = 1 THEN parts[1] ELSE f[i - 1] \o parts[i]
    BY <1>1, <2>1 DEF Joined
  <2> DEFINE Good(n) ==
        /\ f[n] \in Seq(S)
        /\ \A i \in 1 .. n : \A j \in 1 .. Len(parts[i]) : \E q \in 1 .. Len(f[n]) : f[n][q] = parts[i][j]
        /\ \A q \in 1 .. Len(f[n]) : \E i \in 1 .. n : \E j \in 1 .. Len(parts[i]) : f[n][q] = parts[i][j]
        /\ \A q, r \in 1 .. Len(f[n]) : f[n][q] = f[n][r] => q = r
  <2> DEFINE G == {n \in Nat : n \in 1 .. k => Good(n)}
  <2>3. 0 \in G
    OBVIOUS
  <2>g. \A n \in Nat : n \in G <=> (n \in 1 .. k => Good(n))
    OBVIOUS
  <2> HIDE DEF G
  <2>4. ASSUME NEW n \in Nat, n \in G PROVE n + 1 \in G
    <3> SUFFICES ASSUME n + 1 \in 1 .. k PROVE Good(n + 1)
      <4>1. n + 1 \in Nat
        OBVIOUS
      <4> HIDE DEF Good
      <4> QED
        BY <2>g, <4>1
    <3>1. CASE n = 0
      <4>1. f[1] = parts[1] /\ 1 \in 1 .. k /\ n + 1 = 1
        BY <1>3, <2>2, <3>1
      <4>2. \A q, r \in 1 .. Len(parts[1]) : parts[1][q] = parts[1][r] => q = r
        BY <4>1 DEF Splits
      <4>3. /\ parts[1] \in Seq(S) /\ 1 .. 1 = {1}
            /\ \A i \in 1 .. 1 : i = 1
        BY <1>1, <4>1
      <4>4. Good(1)
        <5> PICK e : e = parts[1]
          OBVIOUS
        <5> HIDE DEF Good
        <5>1. Good(1) <=> /\ e \in Seq(S)
                          /\ \A i \in 1 .. 1 : \A j \in 1 .. Len(parts[i]) : \E q \in 1 .. Len(e) : e[q] = parts[i][j]
                          /\ \A q \in 1 .. Len(e) : \E i \in 1 .. 1 : \E j \in 1 .. Len(parts[i]) : e[q] = parts[i][j]
                          /\ \A q, r \in 1 .. Len(e) : e[q] = e[r] => q = r
          BY <4>1 DEF Good
        <5>2. \A j \in 1 .. Len(parts[1]) : \E q \in 1 .. Len(e) : e[q] = parts[1][j]
          OBVIOUS
        <5> QED
          BY <4>2, <4>3, <5>1, <5>2
      <4> HIDE DEF Good
      <4> QED
        BY <4>1, <4>4
    <3>2. CASE n # 0
      <4> DEFINE a == f[n]
                 b == parts[n + 1]
                 c == f[n + 1]
      <4>a. n \in 1 .. k /\ n + 1 \in 1 .. k /\ n + 1 # 1 /\ (n + 1) - 1 = n
        BY <1>1, <3>2
      <4>b. Good(n)
        <5> HIDE DEF Good
        <5> QED
          BY <2>4, <2>g, <4>a
      <4>1. /\ n \in 1 .. k /\ n + 1 \in 1 .. k /\ n + 1 # 1 /\ (n + 1) - 1 = n
            /\ a \in Seq(S)
            /\ \A i \in 1 .. n : \A j \in 1 .. Len(parts[i]) : \E q \in 1 .. Len(a) : a[q] = parts[i][j]
            /\ \A q \in 1 .. Len(a) : \E i \in 1 .. n : \E j \in 1 .. Len(parts[i]) : a[q] = parts[i][j]
            /\ \A q, r \in 1 .. Len(a) : a[q] = a[r] => q = r
        BY <4>a, <4>b
      <4>2. c = a \o b /\ a \in Seq(S) /\ b \in Seq(S)
        BY <1>1, <2>2, <4>1
      <4>c. /\ b = parts[n + 1] /\ a = f[n] /\ c = f[n + 1]
        OBVIOUS
      <4> HIDE DEF a, b, c, Good
      <4>3. /\ c \in Seq(S) /\ Len(c) = Len(a) + Len(b) /\ Len(a) \in Nat /\ Len(b) \in Nat
            /\ \A q \in 1 .. Len(a) : q \in 1 .. Len(c) /\ c[q] = a[q]
            /\ \A q \in 1 .. Len(b) : Len(a) + q \in 1 .. Len(c) /\ c[Len(a) + q] = b[q]
            /\ \A q \in 1 .. Len(c) : q \notin 1 .. Len(a) =>
                 q - Len(a) \in 1 .. Len(b) /\ c[q] = b[q - Len(a)] /\ q = Len(a) + (q - Len(a))
        BY <4>2, Concatenated
      <4>4. ASSUME NEW i \in 1 .. n + 1, NEW j \in 1 .. Len(parts[i])
            PROVE  \E q \in 1 .. Len(c) : c[q] = parts[i][j]
        <5>1. CASE i = n + 1
          <6>1. Len(a) + j \in 1 .. Len(c) /\ c[Len(a) + j] = b[j]
            BY <4>3, <4>c, <5>1
          <6> QED
            BY <4>c, <5>1, <6>1
        <5>2. CASE i # n + 1
          <6>1. i \in 1 .. n
            BY <5>2
          <6>2. PICK q \in 1 .. Len(a) : a[q] = parts[i][j]
            BY <4>1, <6>1
          <6>3. q \in 1 .. Len(c) /\ c[q] = a[q]
            BY <4>3
          <6> QED
            BY <6>2, <6>3
        <5> QED
          BY <5>1, <5>2
      <4>5. ASSUME NEW q \in 1 .. Len(c)
            PROVE  \E i \in 1 .. n + 1 : \E j \in 1 .. Len(parts[i]) : c[q] = parts[i][j]
        <5>1. CASE q \in 1 .. Len(a)
          <6>1. PICK i \in 1 .. n : \E j \in 1 .. Len(parts[i]) : a[q] = parts[i][j]
            BY <4>1, <5>1
          <6>2. i \in 1 .. n + 1 /\ c[q] = a[q]
            BY <4>3, <5>1
          <6> QED
            BY <6>1, <6>2
        <5>2. CASE q \notin 1 .. Len(a)
          <6>1. q - Len(a) \in 1 .. Len(b) /\ c[q] = b[q - Len(a)]
            BY <4>3, <5>2
          <6>2. n + 1 \in 1 .. n + 1
            OBVIOUS
          <6> QED
            BY <4>c, <6>1, <6>2
        <5> QED
          BY <5>1, <5>2
      <4>6. ASSUME NEW q \in 1 .. Len(a), NEW r \in 1 .. Len(b) PROVE a[q] # b[r]
        <5>1. PICK i \in 1 .. n : \E j \in 1 .. Len(parts[i]) : a[q] = parts[i][j]
          BY <4>1
        <5>2. i \in 1 .. k /\ i # n + 1
          BY <4>1
        <5>3. PICK j \in 1 .. Len(parts[i]) : a[q] = parts[i][j]
          BY <5>1
        <5>4. parts[i][j] # parts[n + 1][r]
          <6>1. r \in 1 .. Len(parts[n + 1]) /\ n + 1 \in 1 .. k
            BY <4>1, <4>c
          <6> QED
            BY <5>2, <6>1 DEF Splits
        <5> QED
          BY <4>c, <5>3, <5>4
      <4>7. ASSUME NEW q \in 1 .. Len(b), NEW r \in 1 .. Len(b), b[q] = b[r] PROVE q = r
        <5>1. n + 1 \in 1 .. k /\ q \in 1 .. Len(parts[n + 1]) /\ r \in 1 .. Len(parts[n + 1])
          BY <4>1, <4>c, <4>7
        <5>2. parts[n + 1][q] = parts[n + 1][r]
          BY <4>c, <4>7
        <5> QED
          BY <5>1, <5>2 DEF Splits
      <4>8. ASSUME NEW q \in 1 .. Len(c), NEW r \in 1 .. Len(c), c[q] = c[r] PROVE q = r
        <5>1. CASE q \in 1 .. Len(a) /\ r \in 1 .. Len(a)
          BY <4>1, <4>3, <4>8, <5>1
        <5>2. CASE q \in 1 .. Len(a) /\ r \notin 1 .. Len(a)
          BY <4>3, <4>6, <4>8, <5>2
        <5>3. CASE q \notin 1 .. Len(a) /\ r \in 1 .. Len(a)
          BY <4>3, <4>6, <4>8, <5>3
        <5>4. CASE q \notin 1 .. Len(a) /\ r \notin 1 .. Len(a)
          <6>1. /\ q - Len(a) \in 1 .. Len(b) /\ c[q] = b[q - Len(a)] /\ q = Len(a) + (q - Len(a))
                /\ r - Len(a) \in 1 .. Len(b) /\ c[r] = b[r - Len(a)] /\ r = Len(a) + (r - Len(a))
            BY <4>3, <5>4
          <6>2. q - Len(a) = r - Len(a)
            BY <4>7, <4>8, <6>1
          <6> QED
            BY <6>1, <6>2
        <5> QED
          BY <5>1, <5>2, <5>3, <5>4
      <4> QED
        <5>1. f[n + 1] \in Seq(S)
          BY <4>3, <4>c
        <5>2. \A i \in 1 .. n + 1 : \A j \in 1 .. Len(parts[i]) :
                \E q \in 1 .. Len(f[n + 1]) : f[n + 1][q] = parts[i][j]
          BY <4>4, <4>c
        <5>3. \A q \in 1 .. Len(f[n + 1]) : \E i \in 1 .. n + 1 : \E j \in 1 .. Len(parts[i]) :
                f[n + 1][q] = parts[i][j]
          BY <4>5, <4>c
        <5>4. \A q, r \in 1 .. Len(f[n + 1]) : f[n + 1][q] = f[n + 1][r] => q = r
          BY <4>8, <4>c
        <5> QED
          BY <5>1, <5>2, <5>3, <5>4 DEF Good
    <3> QED
      BY <3>1, <3>2
  <2>5. Good(k)
    <3> HIDE DEF Good
    <3>1. \A n \in Nat : n \in G
      BY <2>3, <2>4, UpFromZero
    <3>2. k \in 1 .. k
      BY <1>3
    <3> QED
      BY <2>g, <3>1, <3>2
  <2>6. ASSUME NEW x \in S PROVE \E q \in 1 .. Len(f[k]) : f[k][q] = x
    <3>1. PICK i \in 1 .. k : \E j \in 1 .. Len(parts[i]) : parts[i][j] = x
      BY DEF Splits
    <3>2. PICK j \in 1 .. Len(parts[i]) : parts[i][j] = x
      BY <3>1
    <3>3. \E q \in 1 .. Len(f[k]) : f[k][q] = parts[i][j]
      BY <2>5
    <3> QED
      BY <3>2, <3>3
  <2> QED
    BY <2>1, <2>5, <2>6 DEF Lists
<1> QED
  BY <1>2, <1>3

Even(parts, k, L, S) ==
  /\ k \in Nat \ {0} /\ L \in Nat /\ parts \in Seq(Seq(S)) /\ Len(parts) = k
  /\ \A i \in 1 .. k : Len(parts[i]) = L

\* Parts of one length follow each other at equal distances.
LEMMA FlattenEqual ==
  ASSUME NEW S, NEW k, NEW L, NEW parts, Even(parts, k, L, S)
  PROVE  /\ FlattenSeq(parts) \in Seq(S) /\ Len(FlattenSeq(parts)) = k * L
         /\ \A i \in 1 .. k : \A j \in 1 .. L : FlattenSeq(parts)[(i - 1) * L + j] = parts[i][j]
<1>0. /\ k \in Nat \ {0} /\ L \in Nat /\ parts \in Seq(Seq(S)) /\ Len(parts) = k
      /\ \A i \in 1 .. k : Len(parts[i]) = L
  BY DEF Even
<1> USE <1>0
<1>1. PICK f : f = Joined(f, parts) /\ FlattenSeq(parts) = f[k]
  BY FlattenIs
<1>2. \A i \in 1 .. k : f[i] = IF i = 1 THEN parts[1] ELSE f[i - 1] \o parts[i]
  BY <1>1 DEF Joined
<1>3. \A i \in 1 .. k : parts[i] \in Seq(S) /\ Len(parts[i]) = L
  OBVIOUS
<1> DEFINE Good(n) == /\ f[n] \in Seq(S) /\ Len(f[n]) = n * L
                      /\ \A i \in 1 .. n : \A j \in 1 .. L : f[n][(i - 1) * L + j] = parts[i][j]
           G == {n \in Nat : n \in 1 .. k => Good(n)}
<1>4. 0 \in G
  OBVIOUS
<1>g. \A n \in Nat : n \in G <=> (n \in 1 .. k => Good(n))
  OBVIOUS
<1> HIDE DEF G
<1>5. ASSUME NEW n \in Nat, n \in G PROVE n + 1 \in G
  <2> SUFFICES ASSUME n + 1 \in 1 .. k PROVE Good(n + 1)
    <3> HIDE DEF Good
    <3> QED
      BY <1>g
  <2>1. CASE n = 0
    <3>1. f[1] = parts[1] /\ n + 1 = 1 /\ 1 \in 1 .. k /\ 1 * L = L
      BY <1>2, <2>1
    <3>2. \A i \in 1 .. 1 : i = 1 /\ (i - 1) * L = 0
      OBVIOUS
    <3>3. ASSUME NEW i \in 1 .. 1, NEW j \in 1 .. L PROVE f[1][(i - 1) * L + j] = parts[i][j]
      <4>1. i = 1 /\ (i - 1) * L + j = j
        BY <3>2
      <4> QED
        BY <3>1, <4>1
    <3> QED
      BY <1>3, <3>1, <3>3
  <2>2. CASE n # 0
    <3>1. n \in 1 .. k /\ n + 1 # 1 /\ (n + 1) - 1 = n
      BY <2>2
    <3>2. Good(n)
      <4> HIDE DEF Good
      <4> QED
        BY <1>5, <1>g, <3>1
    <3> DEFINE a == f[n]
               b == parts[n + 1]
               c == f[n + 1]
    <3>3. c = a \o b /\ a \in Seq(S) /\ b \in Seq(S) /\ Len(a) = n * L /\ Len(b) = L
      BY <1>2, <1>3, <3>1, <3>2
    <3>4. \A i \in 1 .. n : \A j \in 1 .. L : a[(i - 1) * L + j] = parts[i][j]
      BY <3>2
    <3>c. b = parts[n + 1] /\ c = f[n + 1]
      OBVIOUS
    <3> HIDE DEF a, b, c
    <3>d. a \in Seq(S) /\ b \in Seq(S) /\ c = a \o b
      BY <3>3
    <3>5. /\ c \in Seq(S) /\ Len(c) = Len(a) + Len(b) /\ Len(a) \in Nat
          /\ \A q \in 1 .. Len(a) : c[q] = a[q]
          /\ \A q \in 1 .. Len(b) : c[Len(a) + q] = b[q]
      BY <3>d, Concatenated
    <3>6. Len(c) = (n + 1) * L
      BY <3>3, <3>5
    <3>7. ASSUME NEW i \in 1 .. n + 1, NEW j \in 1 .. L PROVE c[(i - 1) * L + j] = parts[i][j]
      <4>1. CASE i = n + 1
        <5>1. (i - 1) * L + j = Len(a) + j /\ j \in 1 .. Len(b)
          BY <3>1, <3>3, <4>1
        <5> QED
          BY <3>5, <3>c, <4>1, <5>1
      <4>2. CASE i # n + 1
        <5>1. i \in 1 .. n
          BY <4>2
        <5>2. (i - 1) * L + j \in 1 .. Len(a)
          <6>1. i - 1 \in Nat /\ n - i \in Nat
            BY <5>1
          <6>2. PICK x \in Nat, y \in Nat : x = (i - 1) * L /\ y = (n - i) * L
            BY <6>1
          <6>3. n * L = x + y + L
            BY <6>2
          <6>4. \A u, w \in Nat : u + j \in 1 .. u + w + L
            OBVIOUS
          <6> QED
            BY <3>3, <6>2, <6>3, <6>4
        <5> QED
          BY <3>4, <3>5, <5>1, <5>2
      <4> QED
        BY <4>1, <4>2
    <3> QED
      BY <3>5, <3>6, <3>7, <3>c
  <2> QED
    BY <2>1, <2>2
<1> HIDE DEF Good
<1>6. Good(k)
  <2>1. \A n \in Nat : n \in G
    BY <1>4, <1>5, UpFromZero
  <2> QED
    BY <1>g, <2>1
<1> QED
  BY <1>1, <1>6 DEF Good

-----------------------------------------------------------------------------
(* Parts in another order                                                    *)

\* The type of one part
LEMMA SplitType ==
  ASSUME NEW S, NEW k \in Nat, NEW parts, Splits(parts, k, S), NEW i \in 1 .. k
  PROVE  /\ parts[i] \in Seq(S) /\ Len(parts[i]) \in Nat
         /\ \A j \in 1 .. Len(parts[i]) : parts[i][j] \in S
BY DEF Splits

\* An element is at one place of one part.
LEMMA SplitUnique ==
  ASSUME NEW S, NEW k, NEW parts, Splits(parts, k, S), NEW i \in 1 .. k, NEW h \in 1 .. k,
         NEW j \in 1 .. Len(parts[i]), NEW l \in 1 .. Len(parts[h]), parts[i][j] = parts[h][l]
  PROVE  i = h /\ j = l
<1>1. \A a, b \in 1 .. k : \A c \in 1 .. Len(parts[a]), d \in 1 .. Len(parts[b]) :
        parts[a][c] = parts[b][d] => a = b /\ c = d
  BY DEF Splits
<1> QED
  BY <1>1

\* The parts still hold every element once when they change places.
LEMMA PartsRearranged ==
  ASSUME NEW S, NEW k \in Nat, NEW parts, Splits(parts, k, S), NEW new, Rearranges(new, parts)
  PROVE  Splits(new, k, S)
<1>1. PICK p : Lists(p, 1 .. k) /\ Len(p) = k /\ new = [i \in 1 .. k |-> parts[p[i]]]
  BY DEF Rearranges, Splits
<1>2. new \in Seq(Seq(S)) /\ Len(new) = k
  BY RearrangedSeq DEF Splits
<1>3. \A i \in 1 .. k : p[i] \in 1 .. k /\ new[i] = parts[p[i]]
  BY <1>1, ListLength
<1>4. ASSUME NEW x \in S PROVE \E i \in 1 .. k : \E j \in 1 .. Len(new[i]) : new[i][j] = x
  <2>1. PICK h \in 1 .. k : \E j \in 1 .. Len(parts[h]) : parts[h][j] = x
    BY DEF Splits
  <2>2. PICK i \in 1 .. k : p[i] = h
    BY <1>1 DEF Lists
  <2>3. new[i] = parts[h]
    BY <1>3, <2>2
  <2> QED
    BY <2>1, <2>3
<1>5. ASSUME NEW i \in 1 .. k, NEW h \in 1 .. k,
             NEW j \in 1 .. Len(new[i]), NEW l \in 1 .. Len(new[h]), new[i][j] = new[h][l]
      PROVE  i = h /\ j = l
  <2>1. /\ p[i] \in 1 .. k /\ p[h] \in 1 .. k /\ new[i] = parts[p[i]] /\ new[h] = parts[p[h]]
    BY <1>3
  <2>2. p[i] = p[h] /\ j = l
    BY <1>5, <2>1 DEF Splits
  <2> QED
    BY <1>1, <2>2 DEF Lists
<1> QED
  BY <1>2, <1>4, <1>5 DEF Splits

\* ... and when the elements change places inside each part.
LEMMA EachPartRearranged ==
  ASSUME NEW S, NEW k \in Nat, NEW parts, Splits(parts, k, S),
         NEW new, DOMAIN new = 1 .. k, new = [i \in 1 .. k |-> new[i]],
         \A i \in 1 .. k : Rearranges(new[i], parts[i])
  PROVE  Splits(new, k, S)
<1>1. \A i \in 1 .. k : parts[i] \in Seq(S)
  BY SplitType
<1>2. \A i \in 1 .. k : new[i] \in Seq(S) /\ Len(new[i]) = Len(parts[i])
  BY <1>1, RearrangedSeq
<1>3. new \in Seq(Seq(S)) /\ Len(new) = k
  BY <1>2
<1>4. ASSUME NEW i \in 1 .. k
      PROVE  \E p : /\ Lists(p, 1 .. Len(parts[i]))
                    /\ \A j \in 1 .. Len(parts[i]) : p[j] \in 1 .. Len(parts[i]) /\ new[i][j] = parts[i][p[j]]
  <2>1. PICK p : /\ Lists(p, 1 .. Len(parts[i])) /\ Len(p) = Len(parts[i])
                 /\ new[i] = [j \in 1 .. Len(parts[i]) |-> parts[i][p[j]]]
    BY DEF Rearranges
  <2>2. \A j \in 1 .. Len(parts[i]) : p[j] \in 1 .. Len(parts[i])
    BY <2>1, ListLength
  <2>3. \A j \in 1 .. Len(parts[i]) : new[i][j] = parts[i][p[j]]
    BY <2>1
  <2> QED
    BY <2>1, <2>2, <2>3
<1>5. ASSUME NEW x \in S PROVE \E i \in 1 .. k : \E j \in 1 .. Len(new[i]) : new[i][j] = x
  <2>1. PICK i \in 1 .. k : \E j \in 1 .. Len(parts[i]) : parts[i][j] = x
    BY DEF Splits
  <2>2. PICK j \in 1 .. Len(parts[i]) : parts[i][j] = x
    BY <2>1
  <2>3. PICK p : /\ Lists(p, 1 .. Len(parts[i]))
                 /\ \A q \in 1 .. Len(parts[i]) : new[i][q] = parts[i][p[q]]
    BY <1>4
  <2>4. Len(p) = Len(parts[i])
    BY <1>1, <2>3, LengthOfAll
  <2>5. PICK q \in 1 .. Len(parts[i]) : p[q] = j
    BY <2>3, <2>4 DEF Lists
  <2> QED
    BY <1>2, <2>2, <2>3, <2>5
<1>6. ASSUME NEW i \in 1 .. k, NEW h \in 1 .. k,
             NEW j \in 1 .. Len(new[i]), NEW l \in 1 .. Len(new[h]), new[i][j] = new[h][l]
      PROVE  i = h /\ j = l
  <2>1. j \in 1 .. Len(parts[i]) /\ l \in 1 .. Len(parts[h])
    BY <1>2
  <2>2. PICK p : /\ Lists(p, 1 .. Len(parts[i]))
                 /\ \A q \in 1 .. Len(parts[i]) : p[q] \in 1 .. Len(parts[i]) /\ new[i][q] = parts[i][p[q]]
    BY <1>4
  <2>3. PICK m : /\ Lists(m, 1 .. Len(parts[h]))
                 /\ \A q \in 1 .. Len(parts[h]) : m[q] \in 1 .. Len(parts[h]) /\ new[h][q] = parts[h][m[q]]
    BY <1>4
  <2>4. parts[i][p[j]] = parts[h][m[l]] /\ p[j] \in 1 .. Len(parts[i]) /\ m[l] \in 1 .. Len(parts[h])
    BY <1>6, <2>1, <2>2, <2>3
  <2>5. i = h
    BY <2>4 DEF Splits
  <2>6. new[i][j] = parts[i][p[j]] /\ new[i][l] = parts[i][p[l]] /\ p[l] \in 1 .. Len(parts[i])
    BY <2>1, <2>2, <2>5
  <2>9. parts[i][p[j]] = parts[i][p[l]]
    BY <1>6, <2>5, <2>6
  <2>a. \A q, r \in 1 .. Len(parts[i]) : parts[i][q] = parts[i][r] => q = r
    BY SplitUnique
  <2>7. p[j] = p[l]
    BY <2>4, <2>6, <2>9, <2>a
  <2>8. Len(p) = Len(parts[i])
    BY <1>1, <2>2, LengthOfAll
  <2> QED
    BY <2>1, <2>2, <2>5, <2>7, <2>8 DEF Lists
<1> QED
  BY <1>3, <1>5, <1>6 DEF Splits

-----------------------------------------------------------------------------
(* Every other one                                                           *)

\* p[::2] and p[1::2]: which elements they take
LEMMA Halves ==
  ASSUME NEW S, NEW s \in Seq(S)
  PROVE  LET n == Len(s)
             e == (n + 1) \div 2
             o == n \div 2
         IN /\ n \in Nat /\ e \in Nat /\ o \in Nat /\ n = e + o /\ o <= e /\ e <= o + 1
            /\ EveryOther(s) \in Seq(S) /\ Len(EveryOther(s)) = e
            /\ \A i \in 1 .. e : 2 * i - 1 \in 1 .. n /\ EveryOther(s)[i] = s[2 * i - 1]
            /\ TheOthers(s) \in Seq(S) /\ Len(TheOthers(s)) = o
            /\ \A i \in 1 .. o : 2 * i \in 1 .. n /\ TheOthers(s)[i] = s[2 * i]
<1> DEFINE n == Len(s)
           e == (n + 1) \div 2
           o == n \div 2
<1>1. n \in Nat /\ \A i \in 1 .. n : s[i] \in S
  OBVIOUS
<1>2. e \in Nat /\ o \in Nat /\ n = e + o /\ o <= e /\ e <= o + 1
  BY <1>1
<1>3. EveryOther(s) = [i \in 1 .. e |-> s[2 * i - 1]] /\ TheOthers(s) = [i \in 1 .. o |-> s[2 * i]]
  BY DEF EveryOther, TheOthers
<1> HIDE DEF n, e, o
<1>4. \A i \in 1 .. e : 2 * i - 1 \in 1 .. n
  BY <1>2
<1>5. \A i \in 1 .. o : 2 * i \in 1 .. n
  BY <1>2
<1> QED
  BY <1>1, <1>2, <1>3, <1>4, <1>5 DEF n, e, o

\* p[::-1]
LEMMA Reversed ==
  ASSUME NEW S, NEW s \in Seq(S)
  PROVE  /\ Reverse(s) \in Seq(S) /\ Len(Reverse(s)) = Len(s) /\ Len(s) \in Nat
         /\ \A i \in 1 .. Len(s) : Reverse(s)[i] = s[Len(s) - i + 1]
<1>1. Len(s) \in Nat /\ \A i \in 1 .. Len(s) : s[i] \in S /\ Len(s) - i + 1 \in 1 .. Len(s)
  OBVIOUS
<1> QED
  BY <1>1 DEF Reverse

\* The smaller ones to the ends, and the larger ones to the ends.
LEMMA EndsRearranged ==
  ASSUME NEW S, NEW s \in Seq(S)
  PROVE  /\ Rearranges(EveryOther(s) \o Reverse(TheOthers(s)), s)
         /\ Rearranges(Reverse(EveryOther(s)) \o TheOthers(s), s)
<1> DEFINE n == Len(s)
           e == (n + 1) \div 2
           o == n \div 2
           a == EveryOther(s)
           b == TheOthers(s)
<1>1. /\ n \in Nat /\ e \in Nat /\ o \in Nat /\ n = e + o /\ o <= e /\ e <= o + 1
      /\ a \in Seq(S) /\ Len(a) = e /\ b \in Seq(S) /\ Len(b) = o
      /\ \A i \in 1 .. e : 2 * i - 1 \in 1 .. n /\ a[i] = s[2 * i - 1]
      /\ \A i \in 1 .. o : 2 * i \in 1 .. n /\ b[i] = s[2 * i]
  BY Halves
<1>p. \A x \in 1 .. n : (\E i \in 1 .. e : x = 2 * i - 1) \/ (\E i \in 1 .. o : x = 2 * i)
  <2> SUFFICES ASSUME NEW x \in 1 .. n PROVE (\E i \in 1 .. e : x = 2 * i - 1) \/ (\E i \in 1 .. o : x = 2 * i)
    OBVIOUS
  <2>1. (x = 2 * ((x + 1) \div 2) - 1 /\ (x + 1) \div 2 \in 1 .. e) \/ (x = 2 * (x \div 2) /\ x \div 2 \in 1 .. o)
    OBVIOUS
  <2> QED
    BY <2>1
<1>n. n = Len(s) /\ a = EveryOther(s) /\ b = TheOthers(s)
  OBVIOUS
<1> HIDE DEF n, e, o, a, b
<1>2. Rearranges(a \o Reverse(b), s)
  <2> DEFINE p == [i \in 1 .. n |-> IF i <= e THEN 2 * i - 1 ELSE 2 * (o - (i - e) + 1)]
             c == a \o Reverse(b)
  <2>c. c = a \o Reverse(b)
    OBVIOUS
  <2>p. p = [i \in 1 .. n |-> p[i]]
    OBVIOUS
  <2>1. \A i \in 1 .. n : p[i] \in 1 .. n /\ p[i] = IF i <= e THEN 2 * i - 1 ELSE 2 * (o - (i - e) + 1)
    BY <1>1
  <2> HIDE DEF p, c
  <2>a. Reverse(b) \in Seq(S) /\ Len(Reverse(b)) = o /\ \A i \in 1 .. o : Reverse(b)[i] = b[o - i + 1]
    BY <1>1, Reversed
  <2>b. /\ c \in Seq(S) /\ Len(c) = Len(a) + Len(Reverse(b))
        /\ \A q \in 1 .. Len(a) : c[q] = a[q]
        /\ \A q \in 1 .. Len(c) : q \notin 1 .. Len(a) => c[q] = Reverse(b)[q - Len(a)]
    <3> PICK d : d = Reverse(b)
      OBVIOUS
    <3>1. a \in Seq(S) /\ d \in Seq(S) /\ c = a \o d
      BY <1>1, <2>a, <2>c
    <3> QED
      BY <3>1, Concatenated
  <2>2. c \in Seq(S) /\ Len(c) = n
    BY <1>1, <2>a, <2>b
  <2>3. ASSUME NEW i \in 1 .. n PROVE c[i] = s[p[i]]
    <3>1. CASE i <= e
      BY <1>1, <2>1, <2>b, <3>1
    <3>2. CASE ~ (i <= e)
      <4>1. i - e \in 1 .. o /\ o - (i - e) + 1 \in 1 .. o /\ i \notin 1 .. e
        BY <1>1, <3>2
      <4>2. c[i] = Reverse(b)[i - e]
        BY <1>1, <2>2, <2>b, <4>1
      <4>3. Reverse(b)[i - e] = b[o - (i - e) + 1]
        BY <2>a, <4>1
      <4> QED
        BY <1>1, <2>1, <3>2, <4>1, <4>2, <4>3
    <3> QED
      BY <3>1, <3>2
  <2>4. ASSUME NEW x \in 1 .. n PROVE \E i \in 1 .. n : p[i] = x
    <3>1. CASE \E i \in 1 .. e : x = 2 * i - 1
      <4>1. PICK i \in 1 .. e : x = 2 * i - 1
        BY <3>1
      <4>2. i \in 1 .. n /\ i <= e
        BY <1>1
      <4> QED
        BY <2>1, <4>1, <4>2
    <3>2. CASE \E i \in 1 .. o : x = 2 * i
      <4>1. PICK i \in 1 .. o : x = 2 * i
        BY <3>2
      <4>2. e + (o - i + 1) \in 1 .. n /\ ~ (e + (o - i + 1) <= e) /\ o - ((e + (o - i + 1)) - e) + 1 = i
        BY <1>1
      <4> QED
        BY <2>1, <4>1, <4>2
    <3> QED
      BY <1>p, <3>1, <3>2
  <2>5. ASSUME NEW i \in 1 .. n, NEW j \in 1 .. n, p[i] = p[j] PROVE i = j
    <3>1. (IF i <= e THEN 2 * i - 1 ELSE 2 * (o - (i - e) + 1)) = IF j <= e THEN 2 * j - 1 ELSE 2 * (o - (j - e) + 1)
      BY <2>1, <2>5
    <3>2. i \in Int /\ j \in Int /\ e \in Int /\ o \in Int
      BY <1>1
    <3>3. CASE i <= e /\ j <= e
      BY <3>1, <3>2, <3>3
    <3>4. CASE ~ (i <= e) /\ ~ (j <= e)
      BY <3>1, <3>2, <3>4
    <3>5. CASE i <= e /\ ~ (j <= e)
      BY <3>1, <3>2, <3>5
    <3>6. CASE ~ (i <= e) /\ j <= e
      BY <3>1, <3>2, <3>6
    <3> QED
      BY <3>3, <3>4, <3>5, <3>6
  <2>6. p \in Seq(1 .. n) /\ Len(p) = n
    <3>1. p \in [1 .. n -> 1 .. n]
      BY <2>1, <2>p
    <3> QED
      BY <1>1, <3>1, FunctionIsSeq
  <2>7. c = [i \in 1 .. n |-> s[p[i]]]
    <3>1. c = [i \in 1 .. Len(c) |-> c[i]]
      BY <2>2, SeqIsFunction
    <3> QED
      BY <2>2, <2>3, <3>1
  <2>8. Lists(p, 1 .. n)
    BY <2>4, <2>5, <2>6 DEF Lists
  <2> QED
    BY <1>n, <2>6, <2>7, <2>8, <2>c DEF Rearranges
<1>3. Rearranges(Reverse(a) \o b, s)
  <2> DEFINE p == [i \in 1 .. n |-> IF i <= e THEN 2 * (e - i + 1) - 1 ELSE 2 * (i - e)]
             c == Reverse(a) \o b
  <2>c. c = Reverse(a) \o b
    OBVIOUS
  <2>p. p = [i \in 1 .. n |-> p[i]]
    OBVIOUS
  <2>1. \A i \in 1 .. n : p[i] \in 1 .. n /\ p[i] = IF i <= e THEN 2 * (e - i + 1) - 1 ELSE 2 * (i - e)
    BY <1>1
  <2> HIDE DEF p, c
  <2>a. Reverse(a) \in Seq(S) /\ Len(Reverse(a)) = e /\ \A i \in 1 .. e : Reverse(a)[i] = a[e - i + 1]
    BY <1>1, Reversed
  <2>b. /\ c \in Seq(S) /\ Len(c) = Len(Reverse(a)) + Len(b)
        /\ \A q \in 1 .. Len(Reverse(a)) : c[q] = Reverse(a)[q]
        /\ \A q \in 1 .. Len(c) : q \notin 1 .. Len(Reverse(a)) => c[q] = b[q - Len(Reverse(a))]
    <3> PICK d : d = Reverse(a)
      OBVIOUS
    <3>1. d \in Seq(S) /\ b \in Seq(S) /\ c = d \o b
      BY <1>1, <2>a, <2>c
    <3> QED
      BY <3>1, Concatenated
  <2>2. c \in Seq(S) /\ Len(c) = n
    BY <1>1, <2>a, <2>b
  <2>3. ASSUME NEW i \in 1 .. n PROVE c[i] = s[p[i]]
    <3>1. CASE i <= e
      <4>1. i \in 1 .. e /\ e - i + 1 \in 1 .. e
        BY <1>1, <3>1
      <4>2. c[i] = Reverse(a)[i]
        BY <1>1, <2>a, <2>b, <4>1
      <4>3. Reverse(a)[i] = a[e - i + 1]
        BY <2>a, <4>1
      <4> QED
        BY <1>1, <2>1, <3>1, <4>1, <4>2, <4>3
    <3>2. CASE ~ (i <= e)
      <4>1. i - e \in 1 .. o /\ i \notin 1 .. e /\ i \in 1 .. Len(c)
        BY <1>1, <2>2, <3>2
      <4>2. c[i] = b[i - e]
        BY <2>a, <2>b, <4>1
      <4> QED
        BY <1>1, <2>1, <3>2, <4>1, <4>2
    <3> QED
      BY <3>1, <3>2
  <2>4. ASSUME NEW x \in 1 .. n PROVE \E i \in 1 .. n : p[i] = x
    <3>1. CASE \E i \in 1 .. e : x = 2 * i - 1
      <4>1. PICK i \in 1 .. e : x = 2 * i - 1
        BY <3>1
      <4>2. e - i + 1 \in 1 .. n /\ e - i + 1 <= e /\ e - (e - i + 1) + 1 = i
        BY <1>1
      <4> QED
        BY <2>1, <4>1, <4>2
    <3>2. CASE \E i \in 1 .. o : x = 2 * i
      <4>1. PICK i \in 1 .. o : x = 2 * i
        BY <3>2
      <4>2. e + i \in 1 .. n /\ ~ (e + i <= e) /\ (e + i) - e = i
        BY <1>1
      <4> QED
        BY <2>1, <4>1, <4>2
    <3> QED
      BY <1>p, <3>1, <3>2
  <2>5. ASSUME NEW i \in 1 .. n, NEW j \in 1 .. n, p[i] = p[j] PROVE i = j
    <3>1. (IF i <= e THEN 2 * (e - i + 1) - 1 ELSE 2 * (i - e)) = IF j <= e THEN 2 * (e - j + 1) - 1 ELSE 2 * (j - e)
      BY <2>1, <2>5
    <3>2. i \in Int /\ j \in Int /\ e \in Int /\ o \in Int
      BY <1>1
    <3>3. CASE i <= e /\ j <= e
      BY <3>1, <3>2, <3>3
    <3>4. CASE ~ (i <= e) /\ ~ (j <= e)
      BY <3>1, <3>2, <3>4
    <3>5. CASE i <= e /\ ~ (j <= e)
      BY <3>1, <3>2, <3>5
    <3>6. CASE ~ (i <= e) /\ j <= e
      BY <3>1, <3>2, <3>6
    <3> QED
      BY <3>3, <3>4, <3>5, <3>6
  <2>6. p \in Seq(1 .. n) /\ Len(p) = n
    <3>1. p \in [1 .. n -> 1 .. n]
      BY <2>1, <2>p
    <3> QED
      BY <1>1, <3>1, FunctionIsSeq
  <2>7. c = [i \in 1 .. n |-> s[p[i]]]
    <3>1. c = [i \in 1 .. Len(c) |-> c[i]]
      BY <2>2, SeqIsFunction
    <3> QED
      BY <2>2, <2>3, <3>1
  <2>8. Lists(p, 1 .. n)
    BY <2>4, <2>5, <2>6 DEF Lists
  <2> QED
    BY <1>n, <2>6, <2>7, <2>8, <2>c DEF Rearranges
<1> QED
  BY <1>2, <1>3, <1>n

-----------------------------------------------------------------------------
(* The sets of karmarkar_karp                                                *)

\* A sequence of elements of S is one of every larger set.
LEMMA WiderSeq ==
  ASSUME NEW S, NEW T, S \subseteq T, NEW s \in Seq(S)
  PROVE  s \in Seq(T)
OBVIOUS

\* The sum of rows is a number, that of no row is 0.
LEMMA SetSumType ==
  ASSUME NEW v \in Seq(Nat), NEW rs \in Seq(1 .. Len(v))
  PROVE  /\ SetSum(v, rs) \in Nat /\ (rs = <<>> => SetSum(v, rs) = 0)
<1> DEFINE q == [i \in DOMAIN rs |-> v[rs[i]]]
<1>1. DOMAIN rs = 1 .. Len(rs) /\ Len(rs) \in Nat /\ \A i \in 1 .. Len(rs) : rs[i] \in 1 .. Len(v)
  OBVIOUS
<1>2. \A i \in 1 .. Len(v) : v[i] \in Nat
  OBVIOUS
<1>3. \A i \in DOMAIN rs : q[i] \in Nat
  BY <1>1, <1>2
<1>4. IsFiniteSet(DOMAIN rs)
  BY <1>1, FS_Interval
<1>5. SetSum(v, rs) = SumOf(q)
  BY DEF SetSum, SumOf
<1>6. rs = <<>> => q = <<>>
  OBVIOUS
<1>7. DOMAIN q = DOMAIN rs
  OBVIOUS
<1> HIDE DEF q
<1>8. Numbers(q) /\ \A i \in DOMAIN q : q[i] >= 0
  BY <1>3, <1>4, <1>7 DEF Numbers
<1> QED
  BY <1>5, <1>6, <1>8, SumNat, SumEmpty

LargerOn(v, S) == {r \in S \X S : Larger(v, r[1], r[2])}

\* Set.__lt__ orders Sets that share no first row totally.
LEMMA LargerTotal ==
  ASSUME NEW v \in Seq(Nat), NEW S \in SUBSET Seq(1 .. Len(v)),
         \A a, b \in S : a # b /\ a # <<>> /\ b # <<>> => a[1] # b[1]
  PROVE  Total(LargerOn(v, S), S)
<1> DEFINE w(a) == SetSum(v, a)
           l(a) == Len(a)
           z(a) == IF Len(a) > 0 THEN a[1] ELSE 0
           Above(a, b) == \/ w(a) > w(b)
                          \/ w(a) = w(b) /\ l(a) > l(b)
                          \/ w(a) = w(b) /\ l(a) = l(b) /\ l(a) > 0 /\ z(a) > z(b)
<1>2. \A a \in S : w(a) \in Nat /\ l(a) \in Nat /\ z(a) \in Nat /\ (l(a) = 0 <=> a = <<>>)
  <2> SUFFICES ASSUME NEW a \in S
               PROVE  w(a) \in Nat /\ l(a) \in Nat /\ z(a) \in Nat /\ (l(a) = 0 <=> a = <<>>)
    OBVIOUS
  <2>1. a \in Seq(1 .. Len(v))
    OBVIOUS
  <2>2. Len(a) \in Nat /\ (Len(a) = 0 <=> a = <<>>) /\ (Len(a) > 0 => a[1] \in 1 .. Len(v))
    BY <2>1
  <2>3. w(a) \in Nat
    BY <2>1, SetSumType
  <2> QED
    BY <2>2, <2>3
<1>1. \A a, b \in S : <<a, b>> \in LargerOn(v, S) <=> Above(a, b)
  <2> SUFFICES ASSUME NEW a \in S, NEW b \in S PROVE Larger(v, a, b) <=> Above(a, b)
    BY DEF LargerOn
  <2>1. Len(a) \in Nat /\ Len(b) \in Nat
    BY <1>2
  <2> QED
    BY <2>1 DEF Larger, LargerBy
<1>6. \A a, b \in S : a # b /\ l(a) > 0 /\ l(b) > 0 => z(a) # z(b)
  BY <1>2
<1> HIDE DEF w, l, z
<1>3. ASSUME NEW a \in S PROVE <<a, a>> \notin LargerOn(v, S)
  <2>1. w(a) \in Nat /\ l(a) \in Nat /\ z(a) \in Nat
    BY <1>2
  <2>2. ~ Above(a, a)
    BY <2>1
  <2> QED
    BY <1>1, <2>2
<1>4. ASSUME NEW a \in S, NEW b \in S, NEW c \in S,
             <<a, b>> \in LargerOn(v, S), <<b, c>> \in LargerOn(v, S)
      PROVE  <<a, c>> \in LargerOn(v, S)
  <2>1. Above(a, b) /\ Above(b, c)
    BY <1>1, <1>4
  <2>2. /\ w(a) \in Nat /\ w(b) \in Nat /\ w(c) \in Nat
        /\ l(a) \in Nat /\ l(b) \in Nat /\ l(c) \in Nat
        /\ z(a) \in Nat /\ z(b) \in Nat /\ z(c) \in Nat
    BY <1>2
  <2>3. Above(a, c)
    BY <2>1, <2>2
  <2> QED
    BY <1>1, <2>3
<1>5. ASSUME NEW a \in S, NEW b \in S
      PROVE  a = b \/ <<a, b>> \in LargerOn(v, S) \/ <<b, a>> \in LargerOn(v, S)
  <2> SUFFICES ASSUME a # b PROVE Above(a, b) \/ Above(b, a)
    BY <1>1
  <2>1. /\ w(a) \in Nat /\ w(b) \in Nat /\ l(a) \in Nat /\ l(b) \in Nat /\ z(a) \in Nat /\ z(b) \in Nat
        /\ ~ (l(a) = 0 /\ l(b) = 0)
    BY <1>2
  <2>2. l(a) > 0 /\ l(b) > 0 => z(a) # z(b)
    BY <1>6
  <2> QED
    BY <2>1, <2>2
<1> QED
  BY <1>3, <1>4, <1>5 DEF Total

\* Decreasing sorts by Larger.
LEMMA DecreasingIs ==
  ASSUME NEW v, NEW S, NEW sets \in Seq(S)
  PROVE  Decreasing(v, sets) = Arranged(sets, IndexOrder(sets, LargerOn(v, S)))
<1>1. DOMAIN sets = 1 .. Len(sets) /\ \A i \in 1 .. Len(sets) : sets[i] \in S
  OBVIOUS
<1>2. IndexOrder(sets, LargerOn(v, S)) =
        {d \in (DOMAIN sets) \X (DOMAIN sets) :
           Larger(v, sets[d[1]], sets[d[2]]) \/ (sets[d[1]] = sets[d[2]] /\ d[1] < d[2])}
  BY <1>1 DEF IndexOrder, LargerOn
<1> QED
  BY <1>2 DEF Decreasing, SortedBy

Falling(v, s, k) == \A i, j \in 1 .. k : i < j => SetSum(v, s[j]) <= SetSum(v, s[i])
EmptyLast(s, k) == \A i, j \in 1 .. k : i < j /\ s[i] = <<>> => s[j] = <<>>

\* A State's sets, the largest first and the empty ones last.
LEMMA Decreased ==
  ASSUME NEW v \in Seq(Nat), NEW k \in Nat \ {0}, NEW A \in SUBSET (1 .. Len(v)),
         NEW parts, Splits(parts, k, A), NEW t, t = Decreasing(v, parts)
  PROVE  /\ Rearranges(t, parts) /\ Splits(t, k, A)
         /\ Falling(v, t, k) /\ EmptyLast(t, k)
         /\ A # {} => t[1] # <<>>
<1> DEFINE S == {parts[i] : i \in 1 .. k}
<1>1. parts \in Seq(S) /\ Len(parts) = k
  <2>1. Len(parts) = k /\ parts \in Seq(Seq(A))
    BY DEF Splits
  <2>2. parts \in [1 .. k -> S]
    BY <2>1
  <2> HIDE DEF S
  <2> QED
    BY <2>1, <2>2, FunctionIsSeq
<1>2. \A i \in 1 .. k : parts[i] \in Seq(A)
  BY SplitType
<1>3. S \in SUBSET Seq(1 .. Len(v))
  <2>1. \A i \in 1 .. k : parts[i] \in Seq(1 .. Len(v))
    BY <1>2, WiderSeq
  <2> QED
    BY <2>1
<1>4. ASSUME NEW a \in S, NEW b \in S, a # b, a # <<>>, b # <<>> PROVE a[1] # b[1]
  <2>1. PICK i \in 1 .. k : a = parts[i]
    OBVIOUS
  <2>2. PICK h \in 1 .. k : b = parts[h]
    OBVIOUS
  <2>3. 1 \in 1 .. Len(a) /\ 1 \in 1 .. Len(b) /\ i # h
    BY <1>2, <1>4, <2>1, <2>2
  <2>4. 1 \in 1 .. Len(parts[i]) /\ 1 \in 1 .. Len(parts[h])
    BY <2>1, <2>2, <2>3
  <2>5. parts[i][1] # parts[h][1]
    <3>1. \A q, r \in 1 .. k : \A c \in 1 .. Len(parts[q]), d \in 1 .. Len(parts[r]) :
            parts[q][c] = parts[r][d] => q = r
      BY DEF Splits
    <3> QED
      BY <2>3, <2>4, <3>1
  <2> QED
    BY <2>1, <2>2, <2>5
<1> HIDE DEF S
<1>5. Total(LargerOn(v, S), S)
  BY <1>3, <1>4, LargerTotal
<1>6. t = Arranged(parts, IndexOrder(parts, LargerOn(v, S)))
  BY <1>1, DecreasingIs
<1>7. /\ Rearranges(t, parts)
      /\ \A i, j \in 1 .. Len(parts) : i < j => <<t[i], t[j]>> \in LargerOn(v, S) \/ t[i] = t[j]
  BY <1>1, <1>5, <1>6, SortRearranges
<1>8. Splits(t, k, A)
  BY <1>7, PartsRearranged
<1>9. ASSUME NEW i \in 1 .. k, NEW j \in 1 .. k, i < j PROVE Larger(v, t[i], t[j]) \/ t[i] = t[j]
  <2>1. <<t[i], t[j]>> \in LargerOn(v, S) \/ t[i] = t[j]
    BY <1>1, <1>7, <1>9
  <2> QED
    BY <2>1 DEF LargerOn
<1>10. ASSUME A # {}, t[1] = <<>> PROVE FALSE
  <2>1. PICK x \in A : TRUE
    BY <1>10
  <2>2. PICK i \in 1 .. k : \E j \in 1 .. Len(t[i]) : t[i][j] = x
    BY <1>8 DEF Splits
  <2>3. t[i] \in Seq(A)
    BY <1>8, SplitType
  <2>a. Len(t[i]) \in Nat
    BY <2>3
  <2>4. t[i] # <<>> /\ Len(t[i]) > 0 /\ Len(t[i]) \in Nat
    BY <2>2, <2>a
  <2>c. t[i] \in Seq(1 .. Len(v))
    BY <2>3, WiderSeq
  <2>b. t[i] \in Seq(1 .. Len(v)) /\ <<>> \in Seq(1 .. Len(v)) /\ Len(<<>>) = 0
    BY <2>c
  <2>5. i # 1 /\ 1 \in 1 .. k /\ 1 < i
    BY <1>10, <2>4
  <2>6. Larger(v, t[1], t[i])
    BY <1>9, <1>10, <2>4, <2>5
  <2>7. SetSum(v, t[1]) = 0 /\ Len(t[1]) = 0 /\ t[1] \in Seq(1 .. Len(v))
    BY <1>10, <2>b, SetSumType
  <2>8. SetSum(v, t[i]) \in Nat
    BY <2>b, SetSumType
  <2> QED
    BY <2>4, <2>6, <2>7, <2>8 DEF Larger, LargerBy
<1>11. \A i \in 1 .. k : t[i] \in Seq(1 .. Len(v)) /\ Len(t[i]) \in Nat /\ SetSum(v, t[i]) \in Nat
  <2> SUFFICES ASSUME NEW i \in 1 .. k
               PROVE  t[i] \in Seq(1 .. Len(v)) /\ Len(t[i]) \in Nat /\ SetSum(v, t[i]) \in Nat
    OBVIOUS
  <2>1. t[i] \in Seq(A) /\ Len(t[i]) \in Nat
    BY <1>8, SplitType
  <2>2. t[i] \in Seq(1 .. Len(v))
    BY <2>1, WiderSeq
  <2> QED
    BY <2>1, <2>2, SetSumType
<1>12. ASSUME NEW i \in 1 .. k, NEW j \in 1 .. k, i < j PROVE SetSum(v, t[j]) <= SetSum(v, t[i])
  <2>1. CASE t[i] = t[j]
    BY <1>11, <2>1
  <2>2. CASE Larger(v, t[i], t[j])
    <3>1. PICK a \in Nat, b \in Nat : a = SetSum(v, t[i]) /\ b = SetSum(v, t[j])
      BY <1>11
    <3>2. a > b \/ a = b
      BY <2>2, <3>1 DEF Larger, LargerBy
    <3> QED
      BY <3>1, <3>2
  <2> QED
    BY <1>9, <1>12, <2>1, <2>2
<1>13. ASSUME NEW i \in 1 .. k, NEW j \in 1 .. k, i < j, t[i] = <<>> PROVE t[j] = <<>>
  <2>1. CASE t[i] = t[j]
    BY <1>13, <2>1
  <2>2. CASE Larger(v, t[i], t[j])
    <3>1. SetSum(v, t[i]) = 0 /\ Len(t[i]) = 0
      BY <1>11, <1>13, SetSumType
    <3>2. Len(t[j]) \in Nat /\ SetSum(v, t[j]) \in Nat
      BY <1>11
    <3>3. Len(t[i]) > Len(t[j]) \/ Len(t[i]) > 0 \/ SetSum(v, t[i]) > SetSum(v, t[j])
      BY <2>2 DEF Larger, LargerBy
    <3> QED
      BY <3>1, <3>2, <3>3
  <2> QED
    BY <1>9, <1>13, <2>1, <2>2
<1>14. Falling(v, t, k) /\ EmptyLast(t, k)
  BY <1>12, <1>13 DEF Falling, EmptyLast
<1> QED
  BY <1>7, <1>8, <1>10, <1>14
-----------------------------------------------------------------------------
(* The heap of karmarkar_karp                                                *)

\* A finite set of States: own[s] are the rows of s, no row is in two of them.
Pile(h, own, v, k) ==
  /\ IsFiniteSet(h)
  /\ \A s \in h : /\ own[s] \in SUBSET (1 .. Len(v)) /\ own[s] # {}
                  /\ Splits(s, k, own[s]) /\ s[1] # <<>>
  /\ \A s, t \in h : s # t => own[s] \cap own[t] = {}

PopsOn(v, h) == {r \in h \X h : PopsBefore(v, r[1], r[2])}

\* What a State of the heap looks like
LEMMA PileState ==
  ASSUME NEW v \in Seq(Nat), NEW k \in Nat \ {0}, NEW h, NEW own, Pile(h, own, v, k), NEW s \in h
  PROVE  /\ s[1] \in Seq(1 .. Len(v)) /\ s[k] \in Seq(1 .. Len(v)) /\ Len(s) = k
         /\ s[1] # <<>> /\ 1 \in 1 .. Len(s[1]) /\ s[1][1] \in own[s]
         /\ Spread(v, s) \in Int
<1>1. Splits(s, k, own[s]) /\ own[s] \subseteq 1 .. Len(v) /\ s[1] # <<>>
  BY DEF Pile
<1>2. 1 \in 1 .. k /\ k \in 1 .. k
  OBVIOUS
<1>3. s[1] \in Seq(own[s]) /\ s[k] \in Seq(own[s])
  BY <1>1, <1>2, SplitType
<1>4. s[1] \in Seq(1 .. Len(v)) /\ s[k] \in Seq(1 .. Len(v))
  BY <1>1, <1>3, WiderSeq
<1>5. 1 \in 1 .. Len(s[1]) /\ s[1][1] \in own[s]
  BY <1>1, <1>3
<1>6. SetSum(v, s[1]) \in Nat /\ SetSum(v, s[k]) \in Nat
  BY <1>4, SetSumType
<1>7. Len(s) = k
  BY <1>1 DEF Splits
<1> QED
  BY <1>1, <1>4, <1>5, <1>6, <1>7 DEF Spread

\* State.__lt__ orders the States of the heap totally.
LEMMA PopsTotal ==
  ASSUME NEW v \in Seq(Nat), NEW k \in Nat \ {0}, NEW h, NEW own, Pile(h, own, v, k)
  PROVE  Total(PopsOn(v, h), h)
<1> DEFINE S == {s[1] : s \in h}
           L == LargerOn(v, S)
           w(s) == Spread(v, s)
<1>1. \A s, t \in h : s # t => s[1] # t[1] /\ s[1][1] # t[1][1]
  <2> SUFFICES ASSUME NEW s \in h, NEW t \in h, s # t PROVE s[1] # t[1] /\ s[1][1] # t[1][1]
    OBVIOUS
  <2>1. s[1][1] \in own[s] /\ t[1][1] \in own[t]
    BY PileState
  <2>2. own[s] \cap own[t] = {}
    BY DEF Pile
  <2> QED
    BY <2>1, <2>2
<1>2. Total(L, S)
  <2>1. S \in SUBSET Seq(1 .. Len(v))
    BY PileState
  <2>2. \A a, b \in S : a # b /\ a # <<>> /\ b # <<>> => a[1] # b[1]
    BY <1>1
  <2> HIDE DEF S
  <2> QED
    BY <2>1, <2>2, LargerTotal
<1>3. \A s \in h : w(s) \in Int /\ s[1] \in S
  BY PileState
<1>4. \A s, t \in h : <<s, t>> \in PopsOn(v, h) <=>
        w(s) > w(t) \/ (w(s) = w(t) /\ <<s[1], t[1]>> \in L)
  BY <1>3 DEF PopsOn, PopsBefore, LargerOn
<1> HIDE DEF w, L, S
<1>5. ASSUME NEW s \in h PROVE <<s, s>> \notin PopsOn(v, h)
  <2>1. <<s[1], s[1]>> \notin L
    BY <1>2, <1>3 DEF Total
  <2>2. w(s) \in Int
    BY <1>3
  <2> QED
    BY <1>4, <2>1, <2>2
<1>6. ASSUME NEW s \in h, NEW t \in h, NEW u \in h, <<s, t>> \in PopsOn(v, h), <<t, u>> \in PopsOn(v, h)
      PROVE  <<s, u>> \in PopsOn(v, h)
  <2>1. /\ w(s) > w(t) \/ (w(s) = w(t) /\ <<s[1], t[1]>> \in L)
        /\ w(t) > w(u) \/ (w(t) = w(u) /\ <<t[1], u[1]>> \in L)
    BY <1>4, <1>6
  <2>2. <<s[1], t[1]>> \in L /\ <<t[1], u[1]>> \in L => <<s[1], u[1]>> \in L
    BY <1>2, <1>3 DEF Total
  <2>3. w(s) \in Int /\ w(t) \in Int /\ w(u) \in Int
    BY <1>3
  <2>4. w(s) > w(u) \/ (w(s) = w(u) /\ <<s[1], u[1]>> \in L)
    BY <2>1, <2>2, <2>3
  <2> QED
    BY <1>4, <2>4
<1>7. ASSUME NEW s \in h, NEW t \in h
      PROVE  s = t \/ <<s, t>> \in PopsOn(v, h) \/ <<t, s>> \in PopsOn(v, h)
  <2>1. s = t \/ <<s[1], t[1]>> \in L \/ <<t[1], s[1]>> \in L
    BY <1>1, <1>2, <1>3 DEF Total
  <2>2. w(s) \in Int /\ w(t) \in Int
    BY <1>3
  <2>3. w(s) > w(t) \/ w(t) > w(s) \/ w(s) = w(t)
    BY <2>2
  <2> QED
    BY <1>4, <2>1, <2>3
<1> QED
  BY <1>5, <1>6, <1>7 DEF Total

\* A finite set has a first element in every order.
LEMMA FirstOf ==
  ASSUME NEW h, IsFiniteSet(h), NEW R, Total(R, h), NEW U \in SUBSET h, U # {}
  PROVE  \E x \in U : \A y \in U \ {x} : <<x, y>> \in R
<1> DEFINE G == {T \in SUBSET h : T = {} \/ \E x \in T : \A y \in T \ {x} : <<x, y>> \in R}
<1>1. ASSUME NEW T \in SUBSET h, \A x \in T : T \ {x} \in G PROVE T \in G
  <2>1. CASE T = {}
    BY <2>1
  <2>2. CASE T # {}
    <3>1. PICK a \in T : TRUE
      BY <2>2
    <3>2. CASE T \ {a} = {}
      <4>1. \A y \in T \ {a} : <<a, y>> \in R
        BY <3>2
      <4> QED
        BY <4>1
    <3>3. CASE T \ {a} # {}
      <4>1. PICK b \in T \ {a} : \A y \in (T \ {a}) \ {b} : <<b, y>> \in R
        BY <1>1, <3>3
      <4>2. CASE <<b, a>> \in R
        <5>1. \A y \in T \ {b} : <<b, y>> \in R
          BY <4>1, <4>2
        <5> QED
          BY <5>1
      <4>3. CASE <<a, b>> \in R
        <5>1. \A y \in T \ {a} : <<a, y>> \in R
          <6> SUFFICES ASSUME NEW y \in T \ {a} PROVE <<a, y>> \in R
            OBVIOUS
          <6>1. y = b \/ <<b, y>> \in R
            BY <4>1
          <6>2. a \in h /\ b \in h /\ y \in h
            OBVIOUS
          <6> QED
            BY <4>3, <6>1, <6>2 DEF Total
        <5> QED
          BY <5>1
      <4>4. a \in h /\ b \in h /\ a # b
        OBVIOUS
      <4> QED
        BY <4>2, <4>3, <4>4 DEF Total
    <3> QED
      BY <3>2, <3>3
  <2> QED
    BY <2>1, <2>2
<1>2. U \in G
  <2>1. \A T \in SUBSET h : (\A x \in T : T \ {x} \in G) => T \in G
    BY <1>1
  <2> HIDE DEF G
  <2> QED
    BY <2>1, SubsetInduction
<1> QED
  BY <1>2

\* heappop takes the State that comes before the others.
LEMMA PoppedIn ==
  ASSUME NEW v \in Seq(Nat), NEW k \in Nat \ {0}, NEW h, NEW own, Pile(h, own, v, k),
         NEW U \in SUBSET h, U # {}
  PROVE  Popped(v, U) \in U /\ \A t \in U \ {Popped(v, U)} : PopsBefore(v, Popped(v, U), t)
<1>1. Total(PopsOn(v, h), h) /\ IsFiniteSet(h)
  BY PopsTotal DEF Pile
<1>2. PICK x \in U : \A y \in U \ {x} : <<x, y>> \in PopsOn(v, h)
  BY <1>1, FirstOf
<1>3. \A y \in U \ {x} : PopsBefore(v, x, y)
  BY <1>2 DEF PopsOn
<1> QED
  BY <1>3 DEF Popped

\* The largest set of one State joined to the smallest of the other, and so on.
LEMMA Crossed ==
  ASSUME NEW S, NEW k \in Nat \ {0}, NEW A \in SUBSET S, NEW B \in SUBSET S, A \cap B = {},
         NEW s, Splits(s, k, A), NEW t, Splits(t, k, B)
  PROVE  Splits([i \in 1 .. k |-> s[i] \o t[k + 1 - i]], k, A \cup B)
<1> DEFINE C == A \cup B
           m == [i \in 1 .. k |-> s[i] \o t[k + 1 - i]]
<1>1. \A i \in 1 .. k : k + 1 - i \in 1 .. k /\ k + 1 - (k + 1 - i) = i
  OBVIOUS
<1>2. \A i \in 1 .. k : /\ m[i] = s[i] \o t[k + 1 - i]
                        /\ s[i] \in Seq(A) /\ t[k + 1 - i] \in Seq(B)
                        /\ s[i] \in Seq(C) /\ t[k + 1 - i] \in Seq(C)
  <2> SUFFICES ASSUME NEW i \in 1 .. k
               PROVE  /\ m[i] = s[i] \o t[k + 1 - i]
                      /\ s[i] \in Seq(A) /\ t[k + 1 - i] \in Seq(B)
                      /\ s[i] \in Seq(C) /\ t[k + 1 - i] \in Seq(C)
    OBVIOUS
  <2>1. s[i] \in Seq(A) /\ t[k + 1 - i] \in Seq(B)
    BY <1>1, SplitType
  <2>2. A \subseteq C /\ B \subseteq C
    OBVIOUS
  <2> HIDE DEF C
  <2> QED
    BY <2>1, <2>2, WiderSeq
<1>3. m \in Seq(Seq(C)) /\ Len(m) = k
  <2>1. \A i \in 1 .. k : m[i] \in Seq(C)
    BY <1>2, Concatenated
  <2>2. m \in [1 .. k -> Seq(C)]
    BY <2>1
  <2> HIDE DEF m, C
  <2> QED
    BY <2>2, FunctionIsSeq
<1> HIDE DEF m, C
\* Where the elements of m come from
<1>4. ASSUME NEW i \in 1 .. k
      PROVE  /\ Len(s[i]) \in Nat /\ Len(t[k + 1 - i]) \in Nat
             /\ \A j \in 1 .. Len(s[i]) : j \in 1 .. Len(m[i]) /\ m[i][j] = s[i][j]
             /\ \A j \in 1 .. Len(t[k + 1 - i]) :
                  Len(s[i]) + j \in 1 .. Len(m[i]) /\ m[i][Len(s[i]) + j] = t[k + 1 - i][j]
             /\ \A q \in 1 .. Len(m[i]) : q \notin 1 .. Len(s[i]) =>
                  /\ q - Len(s[i]) \in 1 .. Len(t[k + 1 - i]) /\ m[i][q] = t[k + 1 - i][q - Len(s[i])]
                  /\ q = Len(s[i]) + (q - Len(s[i]))
  <2>1. PICK a, b, c : a \in Seq(C) /\ b \in Seq(C) /\ a = s[i] /\ b = t[k + 1 - i] /\ c = m[i] /\ c = a \o b
    BY <1>2
  <2>3. a \in Seq(C) /\ b \in Seq(C) /\ c = a \o b
    BY <2>1
  <2>2. /\ Len(a) \in Nat /\ Len(b) \in Nat
        /\ \A q \in 1 .. Len(a) : q \in 1 .. Len(c) /\ c[q] = a[q]
        /\ \A q \in 1 .. Len(b) : Len(a) + q \in 1 .. Len(c) /\ c[Len(a) + q] = b[q]
        /\ \A q \in 1 .. Len(c) : q \notin 1 .. Len(a) =>
             q - Len(a) \in 1 .. Len(b) /\ c[q] = b[q - Len(a)] /\ q = Len(a) + (q - Len(a))
    BY <2>3, Concatenated
  <2> QED
    BY <2>1, <2>2
<1>5. ASSUME NEW x \in C PROVE \E i \in 1 .. k : \E j \in 1 .. Len(m[i]) : m[i][j] = x
  <2>1. CASE x \in A
    <3>1. PICK i \in 1 .. k : \E j \in 1 .. Len(s[i]) : s[i][j] = x
      BY <2>1 DEF Splits
    <3>2. PICK j \in 1 .. Len(s[i]) : s[i][j] = x
      BY <3>1
    <3>3. j \in 1 .. Len(m[i]) /\ m[i][j] = x
      BY <1>4, <3>2
    <3> QED
      BY <3>3
  <2>2. CASE x \in B
    <3>1. PICK h \in 1 .. k : \E j \in 1 .. Len(t[h]) : t[h][j] = x
      BY <2>2 DEF Splits
    <3>2. PICK i \in 1 .. k : h = k + 1 - i
      BY <1>1
    <3>3. PICK j \in 1 .. Len(t[k + 1 - i]) : t[k + 1 - i][j] = x
      BY <3>1, <3>2
    <3>4. Len(s[i]) + j \in 1 .. Len(m[i]) /\ m[i][Len(s[i]) + j] = x
      BY <1>4, <3>3
    <3> QED
      BY <3>4
  <2> QED
    BY <2>1, <2>2 DEF C
<1>6. \A i \in 1 .. k : /\ \A j \in 1 .. Len(s[i]) : s[i][j] \in A
                        /\ \A j \in 1 .. Len(t[i]) : t[i][j] \in B
  BY SplitType
<1>7. ASSUME NEW i \in 1 .. k, NEW h \in 1 .. k,
             NEW j \in 1 .. Len(m[i]), NEW l \in 1 .. Len(m[h]), m[i][j] = m[h][l]
      PROVE  i = h /\ j = l
  <2>1. CASE j \in 1 .. Len(s[i]) /\ l \in 1 .. Len(s[h])
    <3>1. s[i][j] = s[h][l]
      BY <1>4, <1>7, <2>1
    <3> QED
      BY <2>1, <3>1 DEF Splits
  <2>2. CASE j \notin 1 .. Len(s[i]) /\ l \notin 1 .. Len(s[h])
    <3>1. /\ j - Len(s[i]) \in 1 .. Len(t[k + 1 - i]) /\ m[i][j] = t[k + 1 - i][j - Len(s[i])]
          /\ j = Len(s[i]) + (j - Len(s[i]))
          /\ l - Len(s[h]) \in 1 .. Len(t[k + 1 - h]) /\ m[h][l] = t[k + 1 - h][l - Len(s[h])]
          /\ l = Len(s[h]) + (l - Len(s[h]))
      BY <1>4, <2>2
    <3>2. k + 1 - i \in 1 .. k /\ k + 1 - h \in 1 .. k
      BY <1>1
    <3>3. k + 1 - i = k + 1 - h /\ j - Len(s[i]) = l - Len(s[h])
      <4>1. \A q, r \in 1 .. k : \A c \in 1 .. Len(t[q]), d \in 1 .. Len(t[r]) :
              t[q][c] = t[r][d] => q = r /\ c = d
        BY DEF Splits
      <4>2. t[k + 1 - i][j - Len(s[i])] = t[k + 1 - h][l - Len(s[h])]
        BY <1>7, <3>1
      <4>3. PICK q \in 1 .. k, r \in 1 .. k : q = k + 1 - i /\ r = k + 1 - h
        BY <3>2
      <4>4. PICK c \in 1 .. Len(t[q]), d \in 1 .. Len(t[r]) : c = j - Len(s[i]) /\ d = l - Len(s[h])
        BY <3>1, <4>3
      <4>5. t[q][c] = t[r][d]
        BY <4>2, <4>3, <4>4
      <4>6. q = r /\ c = d
        BY <4>1, <4>5
      <4> QED
        BY <4>3, <4>4, <4>6
    <3>4. i = h
      BY <3>3
    <3> QED
      BY <3>1, <3>3, <3>4
  <2>3. CASE j \in 1 .. Len(s[i]) /\ l \notin 1 .. Len(s[h])
    <3>1. /\ m[i][j] = s[i][j]
          /\ l - Len(s[h]) \in 1 .. Len(t[k + 1 - h]) /\ m[h][l] = t[k + 1 - h][l - Len(s[h])]
      BY <1>4, <2>3
    <3>2. s[i][j] \in A /\ t[k + 1 - h][l - Len(s[h])] \in B
      BY <1>1, <1>6, <2>3, <3>1
    <3> QED
      BY <1>7, <3>1, <3>2
  <2>4. CASE j \notin 1 .. Len(s[i]) /\ l \in 1 .. Len(s[h])
    <3>1. /\ m[h][l] = s[h][l]
          /\ j - Len(s[i]) \in 1 .. Len(t[k + 1 - i]) /\ m[i][j] = t[k + 1 - i][j - Len(s[i])]
      BY <1>4, <2>4
    <3>2. s[h][l] \in A /\ t[k + 1 - i][j - Len(s[i])] \in B
      BY <1>1, <1>6, <2>4, <3>1
    <3> QED
      BY <1>7, <3>1, <3>2
  <2> QED
    BY <2>1, <2>2, <2>3, <2>4
<1> QED
  BY <1>3, <1>5, <1>7 DEF Splits, m, C

\* Merging two States of different rows keeps all their rows, each in one Set.
LEMMA Merged ==
  ASSUME NEW v \in Seq(Nat), NEW k \in Nat \ {0}, NEW A \in SUBSET (1 .. Len(v)), NEW B \in SUBSET (1 .. Len(v)),
         A \cap B = {}, A # {}, NEW s, Splits(s, k, A), NEW t, Splits(t, k, B)
  PROVE  Splits(Merge(v, s, t), k, A \cup B) /\ Merge(v, s, t)[1] # <<>>
<1> DEFINE m == [i \in 1 .. k |-> s[i] \o t[k + 1 - i]]
<1>1. Splits(m, k, A \cup B)
  BY Crossed
<1>2. Len(s) = k
  BY DEF Splits
<1>3. Merge(v, s, t) = Decreasing(v, m)
  BY <1>2 DEF Merge
<1>4. A \cup B \in SUBSET (1 .. Len(v)) /\ A \cup B # {}
  OBVIOUS
<1> HIDE DEF m
<1>5. PICK C \in SUBSET (1 .. Len(v)) : C = A \cup B
  BY <1>4
<1>6. PICK u : u = Decreasing(v, m)
  OBVIOUS
<1>7. Splits(m, k, C) /\ C \in SUBSET (1 .. Len(v))
  BY <1>1, <1>5
<1>8. Splits(u, k, C) /\ (C # {} => u[1] # <<>>)
  BY <1>6, <1>7, Decreased
<1> QED
  BY <1>3, <1>4, <1>5, <1>6, <1>8

\* The rows of N are those of the States of h.
Covers(h, own, N) == \A x \in N : \E s \in h : x \in own[s]

\* The heap after a merge: one State less, every row in one of them
LEMMA MergedPile ==
  ASSUME NEW v \in Seq(Nat), NEW k \in Nat \ {0}, NEW h, NEW own, Pile(h, own, v, k),
         NEW N, Covers(h, own, N), Cardinality(h) > 1
  PROVE  \E new : /\ Pile(MergeTwo(v, h), new, v, k) /\ Covers(MergeTwo(v, h), new, N)
                  /\ Cardinality(MergeTwo(v, h)) = Cardinality(h) - 1
<1> DEFINE s == Popped(v, h)
           t == Popped(v, h \ {s})
           m == Merge(v, s, t)
           g == MergeTwo(v, h)
           new == [u \in g |-> IF u = m THEN own[s] \cup own[t] ELSE own[u]]
<1>1. IsFiniteSet(h) /\ Cardinality(h) \in Nat
  BY FS_CardinalityType DEF Pile
<1>2. s \in h
  <2>1. h # {}
    BY <1>1, FS_EmptySet
  <2> QED
    BY <2>1, PoppedIn
<1>3. t \in h \ {s}
  <2>1. IsFiniteSet(h \ {s}) /\ Cardinality(h \ {s}) = Cardinality(h) - 1
    BY <1>1, <1>2, FS_RemoveElement
  <2>2. h \ {s} # {}
    BY <1>1, <2>1, FS_EmptySet
  <2> HIDE DEF s
  <2> QED
    BY <2>2, PoppedIn
<1>4. g = (h \ {s, t}) \cup {m}
  BY DEF MergeTwo
<1> HIDE DEF s, t, m, g
<1>5. /\ own[s] \in SUBSET (1 .. Len(v)) /\ own[t] \in SUBSET (1 .. Len(v)) /\ own[s] # {}
      /\ own[s] \cap own[t] = {} /\ Splits(s, k, own[s]) /\ Splits(t, k, own[t])
  BY <1>2, <1>3 DEF Pile
<1>6. Splits(m, k, own[s] \cup own[t]) /\ m[1] # <<>>
  BY <1>5, Merged DEF m
<1>7. m \notin h \ {s, t}
  <2> SUFFICES ASSUME m \in h \ {s, t} PROVE FALSE
    OBVIOUS
  <2>1. Splits(m, k, own[m]) /\ own[m] \cap own[s] = {} /\ own[m] \cap own[t] = {} /\ 1 \in 1 .. k
    BY <1>2, <1>3 DEF Pile
  <2>2. 1 \in 1 .. Len(m[1]) /\ m[1] \in Seq(own[m]) /\ m[1] \in Seq(own[s] \cup own[t])
    <3>1. m[1] \in Seq(own[m]) /\ m[1] \in Seq(own[s] \cup own[t])
      BY <1>6, <2>1, SplitType
    <3> QED
      BY <1>6, <3>1
  <2>3. m[1][1] \in own[m] /\ m[1][1] \in own[s] \cup own[t]
    BY <2>2
  <2> QED
    BY <2>1, <2>3
<1>8. \A u \in g : new[u] = IF u = m THEN own[s] \cup own[t] ELSE own[u]
  OBVIOUS
<1> HIDE DEF new
<1>9. IsFiniteSet(g) /\ Cardinality(g) = Cardinality(h) - 1
  <2>1. IsFiniteSet(h \ {s}) /\ Cardinality(h \ {s}) = Cardinality(h) - 1
    BY <1>1, <1>2, FS_RemoveElement
  <2>2. IsFiniteSet((h \ {s}) \ {t}) /\ Cardinality((h \ {s}) \ {t}) = Cardinality(h) - 1 - 1
    <3>1. PICK H : H = h \ {s}
      OBVIOUS
    <3>2. IsFiniteSet(H \ {t}) /\ Cardinality(H \ {t}) = Cardinality(H) - 1
      BY <1>3, <2>1, <3>1, FS_RemoveElement
    <3> QED
      BY <2>1, <3>1, <3>2
  <2>3. (h \ {s}) \ {t} = h \ {s, t}
    OBVIOUS
  <2>4. IsFiniteSet(g) /\ Cardinality(g) = Cardinality(h) - 1 - 1 + 1
    BY <1>4, <1>7, <2>2, <2>3, FS_AddElement
  <2> QED
    BY <1>1, <2>4
<1>10. ASSUME NEW u \in g
       PROVE  /\ new[u] \in SUBSET (1 .. Len(v)) /\ new[u] # {}
              /\ Splits(u, k, new[u]) /\ u[1] # <<>>
  <2>1. CASE u = m
    BY <1>5, <1>6, <1>8, <2>1
  <2>2. CASE u # m
    BY <1>4, <1>8, <2>2 DEF Pile
  <2> QED
    BY <2>1, <2>2
<1>11. ASSUME NEW u \in g, NEW w \in g, u # w PROVE new[u] \cap new[w] = {}
  <2>1. CASE u = m
    <3>1. w \in h /\ w # s /\ w # t /\ new[w] = own[w] /\ new[u] = own[s] \cup own[t]
      BY <1>4, <1>8, <1>11, <2>1
    <3>2. own[w] \cap own[s] = {} /\ own[w] \cap own[t] = {}
      BY <1>2, <1>3, <3>1 DEF Pile
    <3> QED
      BY <3>1, <3>2
  <2>2. CASE w = m
    <3>1. u \in h /\ u # s /\ u # t /\ new[u] = own[u] /\ new[w] = own[s] \cup own[t]
      BY <1>4, <1>8, <1>11, <2>2
    <3>2. own[u] \cap own[s] = {} /\ own[u] \cap own[t] = {}
      BY <1>2, <1>3, <3>1 DEF Pile
    <3> QED
      BY <3>1, <3>2
  <2>3. CASE u # m /\ w # m
    <3>1. u \in h /\ w \in h /\ new[u] = own[u] /\ new[w] = own[w]
      BY <1>4, <1>8, <2>3
    <3> QED
      BY <1>11, <3>1 DEF Pile
  <2> QED
    BY <2>1, <2>2, <2>3
<1>12. ASSUME NEW x \in N PROVE \E u \in g : x \in new[u]
  <2>1. PICK u \in h : x \in own[u]
    BY DEF Covers
  <2>2. CASE u = s \/ u = t
    <3>1. m \in g /\ x \in new[m]
      BY <1>4, <1>8, <2>1, <2>2
    <3> QED
      BY <3>1
  <2>3. CASE u # s /\ u # t
    <3>1. u \in g /\ u # m
      BY <1>4, <1>7, <2>3
    <3>2. x \in new[u]
      BY <1>8, <2>1, <3>1
    <3> QED
      BY <3>1, <3>2
  <2> QED
    BY <2>2, <2>3
<1>13. Pile(g, new, v, k) /\ Covers(g, new, N)
  BY <1>9, <1>10, <1>11, <1>12 DEF Pile, Covers
<1> QED
  BY <1>9, <1>13 DEF g

-----------------------------------------------------------------------------
(* The first heap, and the last State                                        *)

\* A number has one place in one block of k.
LEMMA OnePlace ==
  ASSUME NEW k \in Nat \ {0}, NEW q \in Int, NEW r \in Int, NEW i \in 1 .. k, NEW j \in 1 .. k,
         q * k + i = r * k + j
  PROVE  q = r /\ i = j
<1>1. \A d \in Nat : d * k \in Nat
  OBVIOUS
<1>2. ASSUME NEW a \in Int, NEW b \in Int, a > b PROVE a * k >= b * k + k
  <2>1. PICK d \in Nat : a = b + 1 + d
    <3>1. a - b - 1 \in Nat /\ a = b + 1 + (a - b - 1)
      BY <1>2
    <3> QED
      BY <3>1
  <2>2. a * k = b * k + k + d * k
    BY <2>1
  <2>3. b * k \in Int /\ d * k \in Nat
    BY <1>1
  <2> QED
    BY <2>2, <2>3
<1>3. q * k \in Int /\ r * k \in Int
  OBVIOUS
<1>4. ~ (q > r)
  BY <1>2, <1>3
<1>5. ~ (r > q)
  BY <1>2, <1>3
<1>6. q = r
  BY <1>4, <1>5
<1> QED
  BY <1>3, <1>6

\* Sorting the rows loses none.
LEMMA AscendingLists ==
  ASSUME NEW v \in Seq(Nat)
  PROVE  Lists(Ascending(v), 1 .. Len(v))
<1> DEFINE n == Len(v)
           s == [i \in 1 .. n |-> i]
           R == {d \in (1 .. n) \X (1 .. n) : v[d[1]] < v[d[2]] \/ (v[d[1]] = v[d[2]] /\ d[1] < d[2])}
<1>1. n \in Nat /\ \A i \in 1 .. n : v[i] \in Nat /\ i \in Nat
  OBVIOUS
<1>2. \A i, j \in 1 .. n : <<i, j>> \in R <=> v[i] < v[j] \/ (v[i] = v[j] /\ i < j)
  OBVIOUS
<1>3. s \in Seq(1 .. n) /\ Len(s) = n /\ \A i \in 1 .. n : s[i] = i
  BY <1>1
<1>4. Lists(s, 1 .. n)
  <2> HIDE DEF s
  <2> QED
    BY <1>3 DEF Lists
<1>5. Ascending(v) = Arranged(s, IndexOrder(s, R))
  <2>1. DOMAIN s = 1 .. n
    OBVIOUS
  <2>2. IndexOrder(s, R) =
          {d \in (DOMAIN s) \X (DOMAIN s) :
             (v[s[d[1]]] < v[s[d[2]]] \/ (v[s[d[1]]] = v[s[d[2]]] /\ s[d[1]] < s[d[2]]))
             \/ (s[d[1]] = s[d[2]] /\ d[1] < d[2])}
    <3> HIDE DEF s
    <3> QED
      BY <1>3, <2>1 DEF IndexOrder
  <2> QED
    BY <2>2 DEF Ascending, SortedBy
<1> HIDE DEF s, R, n
<1>6. Total(R, 1 .. n)
  <2>1. \A i \in 1 .. n : <<i, i>> \notin R
    BY <1>1, <1>2
  <2>2. \A i, j, k \in 1 .. n : <<i, j>> \in R /\ <<j, k>> \in R => <<i, k>> \in R
    BY <1>1, <1>2
  <2>3. ASSUME NEW i \in 1 .. n, NEW j \in 1 .. n
        PROVE  i = j \/ <<i, j>> \in R \/ <<j, i>> \in R
    <3>1. v[i] \in Nat /\ v[j] \in Nat /\ i \in Nat /\ j \in Nat
      BY <1>1
    <3>2. v[i] < v[j] \/ v[j] < v[i] \/ (v[i] = v[j] /\ (i < j \/ j < i \/ i = j))
      BY <3>1
    <3> QED
      BY <1>2, <3>2
  <2> QED
    BY <2>1, <2>2, <2>3 DEF Total
<1>7. Rearranges(Ascending(v), s)
  BY <1>3, <1>5, <1>6, SortRearranges
<1> QED
  BY <1>4, <1>7, RearrangedLists DEF n

\* States with rows of their own make a pile.
Heaped(h, Q, st, A, v, k) ==
  /\ IsFiniteSet(Q) /\ h = {st[q] : q \in Q}
  /\ \A q \in Q : /\ A[q] \in SUBSET (1 .. Len(v)) /\ A[q] # {}
                  /\ Splits(st[q], k, A[q]) /\ st[q][1] # <<>>
  /\ \A q, r \in Q : q # r => A[q] \cap A[r] = {}
  /\ \A x \in 1 .. Len(v) : \E q \in Q : x \in A[q]

\* A heap of States that share no row
LEMMA HeapPile ==
  ASSUME NEW v, NEW k, NEW Q, NEW st, NEW A, NEW h, Heaped(h, Q, st, A, v, k)
  PROVE  \E own : Pile(h, own, v, k) /\ Covers(h, own, 1 .. Len(v))
<1>0. /\ IsFiniteSet(Q) /\ h = {st[q] : q \in Q}
      /\ \A q \in Q : /\ A[q] \in SUBSET (1 .. Len(v)) /\ A[q] # {}
                      /\ Splits(st[q], k, A[q]) /\ st[q][1] # <<>>
      /\ \A q, r \in Q : q # r => A[q] \cap A[r] = {}
      /\ \A x \in 1 .. Len(v) : \E q \in Q : x \in A[q]
  BY DEF Heaped
<1> USE <1>0
<1> DEFINE of(s) == CHOOSE q \in Q : st[q] = s
           own == [s \in h |-> A[of(s)]]
<1>1. \A s \in h : of(s) \in Q /\ st[of(s)] = s
  OBVIOUS
<1>2. \A s \in h : own[s] = A[of(s)]
  OBVIOUS
<1>3. IsFiniteSet(h)
  <2> DEFINE f == [q \in Q |-> st[q]]
  <2>1. f \in [Q -> h] /\ \A s \in h : \E q \in Q : f[q] = s
    OBVIOUS
  <2> HIDE DEF f
  <2>2. f \in Surjection(Q, h)
    BY <2>1, Fun_IsSurj
  <2> QED
    BY <2>2, FS_Surjection
<1>4. \A q \in Q : st[q] \in h /\ st[of(st[q])] = st[q] /\ of(st[q]) \in Q
  BY <1>1
<1> HIDE DEF of, own
<1>5. \A s \in h : /\ own[s] \in SUBSET (1 .. Len(v)) /\ own[s] # {}
                   /\ Splits(s, k, own[s]) /\ s[1] # <<>>
  <2> SUFFICES ASSUME NEW s \in h
               PROVE  /\ own[s] \in SUBSET (1 .. Len(v)) /\ own[s] # {}
                      /\ Splits(s, k, own[s]) /\ s[1] # <<>>
    OBVIOUS
  <2>1. PICK q \in Q : q = of(s) /\ st[q] = s /\ own[s] = A[q]
    BY <1>1, <1>2
  <2> QED
    BY <2>1
<1>6. ASSUME NEW s \in h, NEW t \in h, s # t PROVE own[s] \cap own[t] = {}
  <2>1. PICK q \in Q, r \in Q : /\ q = of(s) /\ st[q] = s /\ own[s] = A[q]
                                /\ r = of(t) /\ st[r] = t /\ own[t] = A[r]
    BY <1>1, <1>2
  <2>2. q # r
    BY <1>6, <2>1
  <2> QED
    BY <2>1, <2>2
\* Two indices of one State would share its rows.
<1>7. ASSUME NEW x \in 1 .. Len(v) PROVE \E s \in h : x \in own[s]
  <2>1. PICK q \in Q : x \in A[q]
    OBVIOUS
  <2>2. PICK r \in Q : r = of(st[q]) /\ st[r] = st[q] /\ st[q] \in h
    BY <1>4
  <2>3. Splits(st[q], k, A[q]) /\ Splits(st[q], k, A[r])
    BY <2>2
  <2>4. x \in A[r]
    <3>1. PICK i \in 1 .. k : \E j \in 1 .. Len(st[q][i]) : st[q][i][j] = x
      BY <2>1, <2>3 DEF Splits
    <3>2. PICK j \in 1 .. Len(st[q][i]) : st[q][i][j] = x
      BY <3>1
    <3>3. st[q] \in Seq(Seq(A[r])) /\ Len(st[q]) = k
      BY <2>3 DEF Splits
    <3>4. st[q][i] \in Seq(A[r])
      BY <3>3
    <3>5. st[q][i][j] \in A[r]
      BY <3>4
    <3> QED
      BY <3>2, <3>5
  <2> QED
    BY <1>2, <2>2, <2>4
<1> QED
  BY <1>3, <1>5, <1>6, <1>7 DEF Pile, Covers

\* One row to a State: the others of its sets are empty.
LEMMA SingleSplits ==
  ASSUME NEW k \in Nat \ {0}, NEW x, NEW s, s = [i \in 1 .. k |-> IF i = 1 THEN <<x>> ELSE <<>>]
  PROVE  Splits(s, k, {x}) /\ s[1] # <<>>
<1>1. \A i \in 1 .. k : s[i] = IF i = 1 THEN <<x>> ELSE <<>>
  OBVIOUS
<1>2. <<x>> \in Seq({x}) /\ <<>> \in Seq({x}) /\ Len(<<x>>) = 1 /\ Len(<<>>) = 0
  OBVIOUS
<1>3. ASSUME NEW i \in 1 .. k PROVE s[i] \in Seq({x}) /\ Len(s[i]) = IF i = 1 THEN 1 ELSE 0
  <2>1. CASE i = 1
    <3>1. s[i] = <<x>>
      BY <1>1, <2>1
    <3> QED
      BY <1>2, <2>1, <3>1
  <2>2. CASE i # 1
    <3>1. s[i] = <<>>
      BY <1>1, <2>2
    <3> QED
      BY <1>2, <2>2, <3>1
  <2> QED
    BY <2>1, <2>2
<1>4. s \in Seq(Seq({x})) /\ Len(s) = k
  <2>1. s \in [1 .. k -> Seq({x})]
    BY <1>3
  <2> QED
    BY <2>1, FunctionIsSeq
<1>5. 1 \in 1 .. k /\ s[1] = <<x>> /\ Len(s[1]) = 1 /\ s[1][1] = x /\ 1 \in 1 .. 1
  BY <1>1
<1>6. ASSUME NEW i \in 1 .. k, NEW h \in 1 .. k,
             NEW j \in 1 .. Len(s[i]), NEW l \in 1 .. Len(s[h])
      PROVE  i = h /\ j = l
  <2>1. i = 1 /\ h = 1
    BY <1>3
  <2> QED
    BY <1>5, <2>1
<1>7. \E i \in 1 .. k : \E j \in 1 .. Len(s[i]) : s[i][j] = x
  BY <1>5
<1> QED
  BY <1>4, <1>5, <1>6, <1>7 DEF Splits

\* Rows of their own to the sets of a State.
LEMMA OnesSplit ==
  ASSUME NEW k \in Nat \ {0}, NEW x, \A i, j \in 1 .. k : x[i] = x[j] => i = j,
         NEW A, A = {x[i] : i \in 1 .. k}, NEW s, s = [i \in 1 .. k |-> <<x[i]>>]
  PROVE  Splits(s, k, A)
<1>1. ASSUME NEW i \in 1 .. k PROVE /\ s[i] \in Seq(A) /\ Len(s[i]) = 1 /\ s[i][1] = x[i]
  <2>1. PICK y \in A : y = x[i]
    OBVIOUS
  <2>2. s[i] = <<y>>
    BY <2>1
  <2> QED
    BY <2>1, <2>2
<1>2. s \in Seq(Seq(A)) /\ Len(s) = k
  <2>1. s \in [1 .. k -> Seq(A)]
    BY <1>1
  <2> QED
    BY <2>1, FunctionIsSeq
<1>3. ASSUME NEW y \in A PROVE \E i \in 1 .. k : \E j \in 1 .. Len(s[i]) : s[i][j] = y
  <2>1. PICK i \in 1 .. k : y = x[i]
    OBVIOUS
  <2>2. s[i][1] = y /\ 1 \in 1 .. Len(s[i])
    BY <1>1, <2>1
  <2> QED
    BY <2>2
<1>4. ASSUME NEW i \in 1 .. k, NEW h \in 1 .. k,
             NEW j \in 1 .. Len(s[i]), NEW l \in 1 .. Len(s[h]), s[i][j] = s[h][l]
      PROVE  i = h /\ j = l
  <2>1. j = 1 /\ l = 1
    BY <1>1
  <2> QED
    BY <1>1, <1>4, <2>1
<1> QED
  BY <1>2, <1>3, <1>4 DEF Splits

\* How many rows the blocks of k have.
LEMMA Blocks ==
  ASSUME NEW n \in Nat, NEW k \in Nat \ {0}, n % k = 0
  PROVE  /\ n \div k \in Nat /\ n = (n \div k) * k
         /\ \A q \in 0 .. n \div k - 1 : \A i \in 1 .. k : q * k + i \in 1 .. n
         /\ \A p \in 1 .. n : \E q \in 0 .. n \div k - 1 : \E i \in 1 .. k : p = q * k + i
<1>1. PICK d \in Int : d = n \div k /\ n = k * d
  BY Divided
<1>p. \A a, b \in Nat : a * b \in Nat
  OBVIOUS
<1>2. d \in Nat
  <2> SUFFICES ASSUME d < 0 PROVE FALSE
    OBVIOUS
  <2>1. PICK c \in Nat : d = - 1 - c
    <3>1. - 1 - d \in Nat /\ d = - 1 - (- 1 - d)
      OBVIOUS
    <3> QED
      BY <3>1
  <2>2. k * d = - k - k * c
    BY <2>1
  <2>3. k * c \in Nat
    BY <1>p
  <2> QED
    BY <1>1, <2>2, <2>3
<1>3. ASSUME NEW q \in 0 .. d - 1, NEW i \in 1 .. k PROVE q * k + i \in 1 .. n
  <2>1. PICK c \in Nat : d = q + 1 + c
    <3>1. d - q - 1 \in Nat /\ d = q + 1 + (d - q - 1)
      BY <1>2
    <3> QED
      BY <3>1
  <2>2. n = q * k + k + c * k
    BY <1>1, <2>1
  <2>3. q * k \in Nat /\ c * k \in Nat
    BY <1>2, <1>p
  <2> QED
    BY <2>2, <2>3
<1>4. ASSUME NEW p \in 1 .. n PROVE \E q \in 0 .. d - 1 : \E i \in 1 .. k : p = q * k + i
  <2>1. PICK q \in Int, r \in 0 .. k - 1 : p - 1 = k * q + r
    <3>1. PICK m \in Int : m = p - 1
      OBVIOUS
    <3>2. \E q \in Int : \E r \in 0 .. k - 1 : q = m \div k /\ r = m % k /\ m = k * q + r
      BY Divided
    <3> QED
      BY <3>1, <3>2
  <2>2. r + 1 \in 1 .. k /\ p = q * k + (r + 1)
    BY <2>1
  <2>3. q >= 0
    <3> SUFFICES ASSUME q < 0 PROVE FALSE
      BY <2>1
    <3>1. PICK c \in Nat : q = - 1 - c
      <4>1. - 1 - q \in Nat /\ q = - 1 - (- 1 - q)
        BY <2>1
      <4> QED
        BY <4>1
    <3>2. k * q = - k - k * c /\ k * c \in Nat
      BY <1>p, <3>1
    <3> QED
      BY <2>1, <3>2
  <2>4. q < d
    <3> SUFFICES ASSUME q >= d PROVE FALSE
      BY <1>2, <2>1
    <3>1. PICK c \in Nat : q = d + c
      <4>1. q - d \in Nat /\ q = d + (q - d)
        BY <1>2, <2>1
      <4> QED
        BY <4>1
    <3>2. k * q = n + k * c /\ k * c \in Nat
      BY <1>1, <1>p, <1>2, <3>1
    <3> QED
      BY <2>1, <3>2
  <2>5. q \in 0 .. d - 1
    BY <1>2, <2>1, <2>3, <2>4
  <2> QED
    BY <2>2, <2>5
<1>5. n = d * k
  BY <1>1
<1> QED
  BY <1>1, <1>2, <1>3, <1>4, <1>5

\* The heap karmarkar_karp starts from has every row in one State.
LEMMA FirstHeapPile ==
  ASSUME NEW v \in Seq(Nat), NEW k \in Nat \ {0}, NEW eq \in BOOLEAN, eq => Len(v) % k = 0,
         Len(v) > 0, NEW h, h = FirstHeap(v, k, eq)
  PROVE  \E own : Pile(h, own, v, k) /\ Covers(h, own, 1 .. Len(v))
<1> DEFINE n == Len(v)
<1>0. n \in Nat
  OBVIOUS
<1>1. PICK row : row = Ascending(v) /\ Lists(row, 1 .. n)
  BY AscendingLists
<1>2. /\ Len(row) = n /\ \A i \in 1 .. n : row[i] \in 1 .. n
      /\ \A x \in 1 .. n : \E i \in 1 .. n : row[i] = x
      /\ \A i, j \in 1 .. n : row[i] = row[j] => i = j
  <2>1. Len(row) = n
    BY <1>0, <1>1, LengthOfAll
  <2>2. \A i \in 1 .. n : row[i] \in 1 .. n
    BY <1>1, <2>1, ListLength
  <2> QED
    BY <1>1, <2>1, <2>2 DEF Lists
<1>3. CASE ~ eq
  <2> DEFINE Q == 1 .. n
             st == [j \in Q |-> [i \in 1 .. k |-> IF i = 1 THEN <<row[j]>> ELSE <<>>]]
             A == [j \in Q |-> {row[j]}]
  <2>1. h = {[i \in 1 .. k |-> IF i = 1 THEN <<row[j]>> ELSE <<>>] : j \in 1 .. n}
    BY <1>1, <1>3 DEF FirstHeap
  <2>2. h = {st[j] : j \in Q}
    BY <2>1
  <2>3. IsFiniteSet(Q)
    BY <1>0, FS_Interval
  <2>4. ASSUME NEW q \in Q PROVE /\ A[q] \in SUBSET (1 .. n) /\ A[q] # {} /\ A[q] = {row[q]}
                                 /\ Splits(st[q], k, A[q]) /\ st[q][1] # <<>>
    <3>1. st[q] = [i \in 1 .. k |-> IF i = 1 THEN <<row[q]>> ELSE <<>>] /\ A[q] = {row[q]}
      OBVIOUS
    <3> HIDE DEF st, A
    <3>3. PICK s, x : s = st[q] /\ x = row[q]
      OBVIOUS
    <3>4. s = [i \in 1 .. k |-> IF i = 1 THEN <<x>> ELSE <<>>]
      BY <3>1, <3>3
    <3>5. Splits(s, k, {x}) /\ s[1] # <<>>
      BY <3>4, SingleSplits
    <3>2. Splits(st[q], k, {row[q]}) /\ st[q][1] # <<>>
      BY <3>3, <3>5
    <3> QED
      BY <1>2, <3>1, <3>2
  <2> HIDE DEF st, A
  <2>a. \A q \in Q : A[q] = {row[q]}
    BY <2>4
  <2>5. ASSUME NEW q \in Q, NEW r \in Q, q # r PROVE A[q] \cap A[r] = {}
    <3>1. A[q] = {row[q]} /\ A[r] = {row[r]} /\ row[q] # row[r]
      BY <1>2, <2>5, <2>a
    <3> QED
      BY <3>1
  <2>6. ASSUME NEW x \in 1 .. n PROVE \E q \in Q : x \in A[q]
    <3>1. PICK q \in Q : row[q] = x
      BY <1>2
    <3>2. x \in A[q]
      BY <2>a, <3>1
    <3> QED
      BY <3>2
  <2>7. \A q \in Q : /\ A[q] \in SUBSET (1 .. Len(v)) /\ A[q] # {}
                     /\ Splits(st[q], k, A[q]) /\ st[q][1] # <<>>
    BY <2>4
  <2>8. \A x \in 1 .. Len(v) : \E q \in Q : x \in A[q]
    BY <2>6
  <2>9. \A q, r \in Q : q # r => A[q] \cap A[r] = {}
    BY <2>5
  <2> HIDE DEF Q
  <2>10. Heaped(h, Q, st, A, v, k)
    BY <2>2, <2>3, <2>7, <2>8, <2>9 DEF Heaped
  <2> QED
    BY <2>10, HeapPile
<1>4. CASE eq
  <2>0. n % k = 0
    BY <1>4
  <2> DEFINE Q == 0 .. n \div k - 1
             ones(q) == [i \in 1 .. k |-> <<row[q * k + i]>>]
             st == [q \in Q |-> Decreasing(v, ones(q))]
             A == [q \in Q |-> {row[q * k + i] : i \in 1 .. k}]
  <2>1. h = {Decreasing(v, [i \in 1 .. k |-> <<row[q * k + i]>>]) : q \in 0 .. n \div k - 1}
    BY <1>1, <1>4 DEF FirstHeap
  <2>2. h = {st[q] : q \in Q}
    BY <2>1
  <2>b. /\ n \div k \in Nat
        /\ \A q \in Q : \A i \in 1 .. k : q * k + i \in 1 .. n
        /\ \A p \in 1 .. n : \E q \in Q : \E i \in 1 .. k : p = q * k + i
    BY <1>0, <2>0, Blocks
  <2>3. IsFiniteSet(Q)
    BY <2>b, FS_Interval
  <2>c. \A q \in Q : A[q] = {row[q * k + i] : i \in 1 .. k} /\ st[q] = Decreasing(v, ones(q))
    OBVIOUS
  <2>4. ASSUME NEW q \in Q PROVE /\ A[q] \in SUBSET (1 .. n) /\ A[q] # {}
                                 /\ Splits(st[q], k, A[q]) /\ st[q][1] # <<>>
    <3> DEFINE x == [i \in 1 .. k |-> row[q * k + i]]
    <3>1. \A i \in 1 .. k : x[i] = row[q * k + i] /\ q * k + i \in 1 .. n
      BY <2>b
    <3>2. \A i, j \in 1 .. k : x[i] = x[j] => i = j
      <4> SUFFICES ASSUME NEW i \in 1 .. k, NEW j \in 1 .. k, x[i] = x[j] PROVE i = j
        OBVIOUS
      <4>1. q * k + i = q * k + j
        BY <1>2, <3>1
      <4>2. q \in Int
        BY <2>b
      <4> QED
        BY <4>1, <4>2, OnePlace
    <3>3. A[q] = {x[i] : i \in 1 .. k} /\ ones(q) = [i \in 1 .. k |-> <<x[i]>>]
      BY <2>c
    <3>d. st[q] = Decreasing(v, ones(q))
      BY <2>c
    <3> HIDE DEF x, ones, A, st
    <3>4. Splits(ones(q), k, A[q])
      BY <3>2, <3>3, OnesSplit
    <3>5. A[q] \in SUBSET (1 .. n) /\ A[q] # {}
      <4>1. \A i \in 1 .. k : x[i] \in 1 .. n
        BY <1>2, <3>1
      <4>2. 1 \in 1 .. k
        OBVIOUS
      <4> QED
        BY <3>3, <4>1, <4>2
    <3>6. PICK B \in SUBSET (1 .. Len(v)) : B = A[q]
      BY <3>5
    <3>7. PICK t, u : t = st[q] /\ u = ones(q)
      OBVIOUS
    <3>8. Splits(u, k, B) /\ t = Decreasing(v, u)
      BY <3>4, <3>6, <3>7, <3>d
    <3>9. Splits(t, k, B) /\ (B # {} => t[1] # <<>>)
      BY <3>8, Decreased
    <3> QED
      BY <3>5, <3>6, <3>7, <3>9
  <2> HIDE DEF st, A
  <2>5. ASSUME NEW q \in Q, NEW r \in Q, q # r PROVE A[q] \cap A[r] = {}
    <3> SUFFICES ASSUME NEW x \in A[q], x \in A[r] PROVE FALSE
      OBVIOUS
    <3>0. x \in {row[q * k + i] : i \in 1 .. k} /\ x \in {row[r * k + i] : i \in 1 .. k}
      BY <2>c
    <3>1. PICK i \in 1 .. k : x = row[q * k + i]
      BY <3>0
    <3>2. PICK j \in 1 .. k : x = row[r * k + j]
      BY <3>0
    <3>3. q * k + i = r * k + j
      BY <1>2, <2>b, <3>1, <3>2
    <3>4. q \in Int /\ r \in Int
      BY <2>b
    <3> QED
      BY <2>5, <3>3, <3>4, OnePlace
  <2>6. ASSUME NEW x \in 1 .. n PROVE \E q \in Q : x \in A[q]
    <3>1. PICK p \in 1 .. n : row[p] = x
      BY <1>2
    <3>2. PICK q \in Q, i \in 1 .. k : p = q * k + i
      BY <2>b
    <3> QED
      BY <2>c, <3>1, <3>2
  <2>7. \A q \in Q : /\ A[q] \in SUBSET (1 .. Len(v)) /\ A[q] # {}
                     /\ Splits(st[q], k, A[q]) /\ st[q][1] # <<>>
    BY <2>4
  <2>8. \A x \in 1 .. Len(v) : \E q \in Q : x \in A[q]
    BY <2>6
  <2>9. \A q, r \in Q : q # r => A[q] \cap A[r] = {}
    BY <2>5
  <2> HIDE DEF Q
  <2>10. Heaped(h, Q, st, A, v, k)
    BY <2>2, <2>3, <2>7, <2>8, <2>9 DEF Heaped
  <2> QED
    BY <2>10, HeapPile
<1> QED
  BY <1>3, <1>4

\* What the heap is after each merge.
Merges(f, v, h, n) == [m \in 0 .. n |-> IF m = 0 THEN h ELSE MergeTwo(v, f[m - 1])]

\* There is a sequence of n merges.
LEMMA MergesExist ==
  ASSUME NEW v, NEW h, NEW K \in Nat
  PROVE  \E f : f = Merges(f, v, h, K)
<1> DEFINE Right(f, i) == f[i] = IF i = 0 THEN h ELSE MergeTwo(v, f[i - 1])
           Upto(n, f) == \A i \in 0 .. K : i <= n => Right(f, i)
           G == {n \in Nat : \E f : Upto(n, f)}
<1>1. 0 \in G
  <2> DEFINE f == [i \in 0 .. K |-> h]
  <2>1. Right(f, 0)
    OBVIOUS
  <2>2. \A i \in 0 .. K : i <= 0 => i = 0
    OBVIOUS
  <2> HIDE DEF Right, f
  <2>3. Upto(0, f)
    BY <2>1, <2>2
  <2> HIDE DEF Upto
  <2> QED
    BY <2>3
<1>2. ASSUME NEW n \in Nat, n \in G PROVE n + 1 \in G
  <2>1. PICK f : Upto(n, f)
    BY <1>2
  <2> DEFINE g == [i \in 0 .. K |-> IF i <= n THEN f[i]
                                    ELSE IF i = 0 THEN h ELSE MergeTwo(v, f[i - 1])]
  <2>2. ASSUME NEW i \in 0 .. K, i <= n + 1 PROVE Right(g, i)
    <3>1. CASE i = 0
      BY <2>1, <3>1
    <3>2. CASE i # 0
      <4>1. i - 1 \in 0 .. K /\ i - 1 <= n
        BY <2>2, <3>2
      <4>2. g[i - 1] = f[i - 1]
        BY <4>1
      <4>3. g[i] = MergeTwo(v, f[i - 1])
        BY <2>1, <3>2
      <4> QED
        BY <3>2, <4>2, <4>3
    <3> QED
      BY <3>1, <3>2
  <2> HIDE DEF g, Right
  <2>3. Upto(n + 1, g)
    BY <2>2
  <2> HIDE DEF Upto
  <2> QED
    BY <2>3
<1>3. K \in G
  <2> HIDE DEF G
  <2> QED
    BY <1>1, <1>2, UpFromZero
<1>4. PICK f : Upto(K, f)
  BY <1>3
<1> DEFINE e == [i \in 0 .. K |-> f[i]]
<1>5. ASSUME NEW i \in 0 .. K PROVE e[i] = IF i = 0 THEN h ELSE MergeTwo(v, e[i - 1])
  <2>1. i <= K
    OBVIOUS
  <2>2. Right(f, i)
    BY <1>4, <2>1
  <2>3. i # 0 => i - 1 \in 0 .. K
    OBVIOUS
  <2> QED
    BY <2>2, <2>3
<1>6. e = Merges(e, v, h, K)
  <2> HIDE DEF e
  <2>1. e = [i \in 0 .. K |-> e[i]]
    BY DEF e
  <2> QED
    BY <1>5, <2>1 DEF Merges
<1> HIDE DEF e
<1> QED
  BY <1>6

\* What karmarkar_karp does, as a sequence of merges
LEMMA KarmarkarIs ==
  ASSUME NEW v, NEW k, NEW eq, NEW h, h = FirstHeap(v, k, eq), Cardinality(h) - 1 \in Nat
  PROVE  \E f : /\ f = Merges(f, v, h, Cardinality(h) - 1)
                /\ karmarkar_karp(v, k, eq) = CHOOSE s \in f[Cardinality(h) - 1] : TRUE
<1> DEFINE f == CHOOSE f : f = Merges(f, v, h, Cardinality(h) - 1)
<1>1. f = Merges(f, v, h, Cardinality(h) - 1)
  BY MergesExist
<1>2. karmarkar_karp(v, k, eq) = CHOOSE s \in f[Cardinality(h) - 1] : TRUE
  BY DEF karmarkar_karp, Merges
<1> HIDE DEF f
<1> QED
  BY <1>1, <1>2

\* No row is lost or doubled on the way from the first heap to the last State.
LEMMA KarmarkarSplits ==
  ASSUME NEW v \in Seq(Nat), NEW k \in Nat \ {0}, NEW eq \in BOOLEAN, eq => Len(v) % k = 0, Len(v) > 0
  PROVE  Splits(karmarkar_karp(v, k, eq), k, 1 .. Len(v))
<1>1. PICK h : h = FirstHeap(v, k, eq)
  OBVIOUS
<1>2. PICK own : Pile(h, own, v, k) /\ Covers(h, own, 1 .. Len(v))
  BY <1>1, FirstHeapPile
<1> DEFINE N == Cardinality(h)
<1>3. N \in Nat /\ N >= 1
  <2>1. IsFiniteSet(h)
    BY <1>2 DEF Pile
  <2>2. 1 \in 1 .. Len(v)
    OBVIOUS
  <2>3. h # {}
    BY <1>2, <2>2 DEF Covers
  <2> QED
    BY <2>1, <2>3, FS_CardinalityType, FS_EmptySet
<1>4. PICK f : f = Merges(f, v, h, N - 1) /\ karmarkar_karp(v, k, eq) = CHOOSE s \in f[N - 1] : TRUE
  <2>1. Cardinality(h) - 1 \in Nat
    BY <1>3
  <2> QED
    BY <1>1, <2>1, KarmarkarIs
<1> HIDE DEF N
<1>5. \A m \in 0 .. N - 1 : f[m] = IF m = 0 THEN h ELSE MergeTwo(v, f[m - 1])
  BY <1>4 DEF Merges
<1> DEFINE Good(m) == \E o : /\ Pile(f[m], o, v, k) /\ Covers(f[m], o, 1 .. Len(v))
                             /\ Cardinality(f[m]) = N - m
           G == {m \in Nat : m \in 0 .. N - 1 => Good(m)}
<1>6. 0 \in G
  <2>1. 0 \in 0 .. N - 1 /\ f[0] = h /\ N - 0 = N
    BY <1>3, <1>5
  <2>2. Good(0)
    BY <1>2, <2>1 DEF N
  <2> QED
    BY <2>2
<1>g. \A m \in Nat : m \in G <=> (m \in 0 .. N - 1 => Good(m))
  OBVIOUS
<1> HIDE DEF G
<1>7. ASSUME NEW m \in Nat, m \in G PROVE m + 1 \in G
  <2> SUFFICES ASSUME m + 1 \in 0 .. N - 1 PROVE Good(m + 1)
    <3> HIDE DEF Good
    <3> QED
      BY <1>g
  <2>1. m \in 0 .. N - 1 /\ m + 1 # 0 /\ (m + 1) - 1 = m
    BY <1>3
  <2>2. f[m + 1] = MergeTwo(v, f[m])
    BY <1>5, <2>1
  <2>3. Good(m)
    <3> HIDE DEF Good
    <3> QED
      BY <1>7, <1>g, <2>1
  <2>4. PICK g, o : g = f[m] /\ Pile(g, o, v, k) /\ Covers(g, o, 1 .. Len(v)) /\ Cardinality(g) = N - m
    BY <2>3
  <2>5. Cardinality(g) > 1
    BY <1>3, <2>1, <2>4
  <2>6. PICK new : /\ Pile(MergeTwo(v, g), new, v, k) /\ Covers(MergeTwo(v, g), new, 1 .. Len(v))
                   /\ Cardinality(MergeTwo(v, g)) = Cardinality(g) - 1
    BY <2>4, <2>5, MergedPile
  <2>7. Cardinality(f[m + 1]) = N - (m + 1)
    BY <1>3, <2>2, <2>4, <2>6
  <2> QED
    BY <2>2, <2>4, <2>6, <2>7
<1>8. Good(N - 1)
  <2> HIDE DEF Good
  <2>1. \A m \in Nat : m \in G
    BY <1>6, <1>7, UpFromZero
  <2>2. N - 1 \in Nat /\ N - 1 \in 0 .. N - 1
    BY <1>3
  <2> QED
    BY <1>g, <2>1, <2>2
<1>9. PICK g, o : g = f[N - 1] /\ Pile(g, o, v, k) /\ Covers(g, o, 1 .. Len(v)) /\ Cardinality(g) = N - (N - 1)
  BY <1>8
<1>10. PICK s : g = {s}
  <2>1. Cardinality(g) = 1 /\ IsFiniteSet(g)
    BY <1>3, <1>9 DEF Pile
  <2> QED
    BY <2>1, FS_Singleton
<1>11. karmarkar_karp(v, k, eq) = s
  BY <1>4, <1>9, <1>10
<1>12. o[s] = 1 .. Len(v)
  <2>1. o[s] \subseteq 1 .. Len(v)
    BY <1>9, <1>10 DEF Pile
  <2>2. \A x \in 1 .. Len(v) : x \in o[s]
    BY <1>9, <1>10 DEF Covers
  <2> QED
    BY <2>1, <2>2
<1>13. Splits(s, k, o[s])
  BY <1>9, <1>10 DEF Pile
<1> QED
  BY <1>11, <1>12, <1>13

\* A sequence of numbers, sorted.
LEMMA NumbersSorted ==
  ASSUME NEW S \in SUBSET Int, NEW s \in Seq(S)
  PROVE  /\ Rearranges(Increasing(s), s)
         /\ \A i, j \in 1 .. Len(s) : i < j => Increasing(s)[i] <= Increasing(s)[j]
<1> DEFINE R == {d \in S \X S : d[1] < d[2]}
<1>1. \A x, y \in S : <<x, y>> \in R <=> x < y
  OBVIOUS
<1>2. DOMAIN s = 1 .. Len(s) /\ \A i \in 1 .. Len(s) : s[i] \in S
  OBVIOUS
<1>3. Increasing(s) = Arranged(s, IndexOrder(s, R))
  <2>1. IndexOrder(s, R) = {d \in (DOMAIN s) \X (DOMAIN s) :
                              s[d[1]] < s[d[2]] \/ (s[d[1]] = s[d[2]] /\ d[1] < d[2])}
    <3> HIDE DEF R
    <3> QED
      BY <1>1, <1>2 DEF IndexOrder
  <2> QED
    BY <2>1 DEF Increasing, SortedBy
<1>4. Total(R, S)
  <2> HIDE DEF R
  <2>1. \A x \in S : <<x, x>> \notin R
    BY <1>1
  <2>2. \A x, y, z \in S : <<x, y>> \in R /\ <<y, z>> \in R => <<x, z>> \in R
    BY <1>1
  <2>3. ASSUME NEW x \in S, NEW y \in S PROVE x = y \/ <<x, y>> \in R \/ <<y, x>> \in R
    <3>1. x \in Int /\ y \in Int
      OBVIOUS
    <3>2. x = y \/ x < y \/ y < x
      BY <3>1
    <3> QED
      BY <1>1, <3>2
  <2> QED
    BY <2>1, <2>2, <2>3 DEF Total
<1> HIDE DEF R
<1>5. PICK t : t = Arranged(s, IndexOrder(s, R))
  OBVIOUS
<1>6. Rearranges(t, s) /\ \A i, j \in 1 .. Len(s) : i < j => <<t[i], t[j]>> \in R \/ t[i] = t[j]
  BY <1>4, <1>5, SortRearranges
<1>7. t \in Seq(S) /\ Len(t) = Len(s)
  BY <1>6, RearrangedSeq
<1>8. \A i \in 1 .. Len(s) : t[i] \in S
  BY <1>7
<1>9. ASSUME NEW i \in 1 .. Len(s), NEW j \in 1 .. Len(s), i < j PROVE t[i] <= t[j]
  <2>1. t[i] \in S /\ t[j] \in S /\ (<<t[i], t[j]>> \in R \/ t[i] = t[j])
    BY <1>6, <1>8, <1>9
  <2>2. t[i] \in Int /\ t[j] \in Int
    BY <2>1
  <2>3. t[i] < t[j] \/ t[i] = t[j]
    BY <1>1, <2>1
  <2> QED
    BY <2>2, <2>3
<1> QED
  BY <1>3, <1>5, <1>6, <1>9

\* get_seqlen_balanced_partitions puts every row into one partition.
LEMMA PartitionsSplit ==
  ASSUME NEW v \in Seq(Nat), NEW k \in Nat \ {0}, NEW eq \in BOOLEAN, eq => Len(v) % k = 0, Len(v) > 0
  PROVE  /\ Splits(get_seqlen_balanced_partitions(v, k, eq), k, 1 .. Len(v))
<1>1. PICK parts : parts = karmarkar_karp(v, k, eq) /\ Splits(parts, k, 1 .. Len(v))
  BY KarmarkarSplits
<1>2. PICK new : new = [i \in 1 .. k |-> Increasing(parts[i])]
  OBVIOUS
<1>3. get_seqlen_balanced_partitions(v, k, eq) = new
  BY <1>1, <1>2 DEF get_seqlen_balanced_partitions, EachIncreasing
<1>4. DOMAIN new = 1 .. k /\ new = [i \in 1 .. k |-> new[i]]
  BY <1>2
<1>5. ASSUME NEW i \in 1 .. k PROVE Rearranges(new[i], parts[i])
  <2>1. parts[i] \in Seq(1 .. Len(v)) /\ 1 .. Len(v) \in SUBSET Int
    BY <1>1, SplitType
  <2>2. PICK S, s : S \in SUBSET Int /\ S = 1 .. Len(v) /\ s = parts[i] /\ s \in Seq(S)
    BY <2>1
  <2>3. Rearranges(Increasing(s), s)
    BY <2>2, NumbersSorted
  <2>4. new[i] = Increasing(s)
    BY <1>2, <2>2
  <2> QED
    BY <2>2, <2>3, <2>4
<1> QED
  BY <1>1, <1>3, <1>4, <1>5, EachPartRearranged

-----------------------------------------------------------------------------
(* Pieces                                                                    *)

\* Parts that list disjoint sets, which together are S.
Shares(parts, A, k, S) ==
  /\ parts = [i \in 1 .. k |-> parts[i]]
  /\ \A i \in 1 .. k : Lists(parts[i], A[i]) /\ A[i] \subseteq S
  /\ \A i, h \in 1 .. k : \A x \in A[i] : x \in A[h] => i = h
  /\ \A x \in S : \E i \in 1 .. k : x \in A[i]

\* Parts that own disjoint shares of S split it.
LEMMA SharesSplit ==
  ASSUME NEW S, NEW k \in Nat, NEW parts, NEW A, Shares(parts, A, k, S)
  PROVE  Splits(parts, k, S)
<1>1. ASSUME NEW i \in 1 .. k
      PROVE  /\ parts[i] \in Seq(S) /\ \A j \in 1 .. Len(parts[i]) : parts[i][j] \in A[i]
  <2>1. Lists(parts[i], A[i]) /\ A[i] \subseteq S
    BY DEF Shares
  <2>2. PICK s, B : s = parts[i] /\ B = A[i]
    OBVIOUS
  <2>3. s \in Seq(B) /\ B \subseteq S
    BY <2>1, <2>2 DEF Lists
  <2>4. s \in Seq(S) /\ \A j \in 1 .. Len(s) : s[j] \in B
    BY <2>3
  <2> QED
    BY <2>2, <2>4
<1>2. parts \in Seq(Seq(S)) /\ Len(parts) = k
  <2>1. parts \in [1 .. k -> Seq(S)]
    <3>1. parts = [i \in 1 .. k |-> parts[i]]
      BY DEF Shares
    <3> QED
      BY <1>1, <3>1
  <2> QED
    BY <2>1, FunctionIsSeq
<1>3. ASSUME NEW x \in S PROVE \E i \in 1 .. k : \E j \in 1 .. Len(parts[i]) : parts[i][j] = x
  <2>1. PICK i \in 1 .. k : x \in A[i]
    BY DEF Shares
  <2>2. Lists(parts[i], A[i])
    BY DEF Shares
  <2> QED
    BY <2>1, <2>2 DEF Lists
<1>4. ASSUME NEW i \in 1 .. k, NEW h \in 1 .. k,
             NEW j \in 1 .. Len(parts[i]), NEW l \in 1 .. Len(parts[h]), parts[i][j] = parts[h][l]
      PROVE  i = h /\ j = l
  <2>1. parts[i][j] \in A[i] /\ parts[i][j] \in A[h]
    BY <1>1, <1>4
  <2>2. i = h
    BY <2>1 DEF Shares
  <2>3. Lists(parts[i], A[i])
    BY DEF Shares
  <2> QED
    BY <1>4, <2>2, <2>3 DEF Lists
<1> QED
  BY <1>2, <1>3, <1>4 DEF Splits

\* A piece of a sequence
LEMMA SubSeqIs ==
  ASSUME NEW S, NEW data \in Seq(S), NEW lo \in Nat, NEW hi \in Nat, lo <= hi, hi <= Len(data),
         NEW s, s = SubSeq(data, lo + 1, hi)
  PROVE  s \in Seq(S) /\ Len(s) = hi - lo /\ \A j \in 1 .. hi - lo : lo + j \in 1 .. Len(data) /\ s[j] = data[lo + j]
OBVIOUS

\* data is cut behind the places lo[i] and hi[i]; every place is in one piece.
Cuts(lo, hi, k, n) ==
  /\ \A i \in 1 .. k : lo[i] \in Nat /\ hi[i] \in Nat /\ lo[i] <= hi[i] /\ hi[i] <= n
  /\ \A p \in 1 .. n : \E i \in 1 .. k : lo[i] < p /\ p <= hi[i]
  /\ \A p \in 1 .. n : \A i, h \in 1 .. k :
       lo[i] < p /\ p <= hi[i] /\ lo[h] < p /\ p <= hi[h] => i = h

\* The pieces a list is cut into hold every element once.
LEMMA PiecesSplit ==
  ASSUME NEW S, NEW data, Lists(data, S), NEW k \in Nat, NEW lo, NEW hi, Cuts(lo, hi, k, Len(data)),
         NEW parts, parts = [i \in 1 .. k |-> SubSeq(data, lo[i] + 1, hi[i])]
  PROVE  Splits(parts, k, S)
<1> DEFINE n == Len(data)
           A == [i \in 1 .. k |-> {data[p] : p \in lo[i] + 1 .. hi[i]}]
<1>1. n \in Nat /\ data \in Seq(S)
  BY DEF Lists
<1>2. \A i, j \in 1 .. n : data[i] = data[j] => i = j
  BY DEF Lists
<1>3. \A x \in S : \E p \in 1 .. n : data[p] = x
  BY DEF Lists
<1>4. ASSUME NEW i \in 1 .. k
      PROVE  /\ lo[i] \in Nat /\ hi[i] \in Nat /\ lo[i] <= hi[i] /\ hi[i] <= n
             /\ \A p \in lo[i] + 1 .. hi[i] : p \in 1 .. n /\ lo[i] < p /\ p <= hi[i]
             /\ A[i] = {data[p] : p \in lo[i] + 1 .. hi[i]}
  <2>1. lo[i] \in Nat /\ hi[i] \in Nat /\ lo[i] <= hi[i] /\ hi[i] <= n
    BY DEF Cuts
  <2> QED
    BY <1>1, <2>1
<1>p. parts = [i \in 1 .. k |-> parts[i]]
  OBVIOUS
<1>l. n = Len(data)
  OBVIOUS
<1> HIDE DEF A, n
<1>5. ASSUME NEW i \in 1 .. k PROVE Lists(parts[i], A[i]) /\ A[i] \subseteq S
  <2>1. PICK l \in Nat, h \in Nat : l = lo[i] /\ h = hi[i]
    BY <1>4
  <2>2. PICK s, B : s = parts[i] /\ B = A[i]
    OBVIOUS
  <2>3. s = SubSeq(data, l + 1, h) /\ l <= h /\ h <= Len(data) /\ B = {data[p] : p \in l + 1 .. h}
    BY <1>4, <1>l, <2>1, <2>2
  <2>4. s \in Seq(S) /\ Len(s) = h - l /\ \A j \in 1 .. h - l : l + j \in 1 .. n /\ s[j] = data[l + j]
    BY <1>1, <1>l, <2>3, SubSeqIs
  <2>5. \A j \in 1 .. h - l : l + j \in l + 1 .. h
    OBVIOUS
  <2>6. \A j \in 1 .. Len(s) : s[j] \in B
    BY <2>3, <2>4, <2>5
  <2>7. s \in Seq(B)
    <3>1. s = [j \in 1 .. Len(s) |-> s[j]] /\ Len(s) \in Nat
      BY <2>4
    <3>2. s \in [1 .. Len(s) -> B]
      BY <2>6, <3>1
    <3> QED
      BY <3>1, <3>2
  <2>8. ASSUME NEW x \in B PROVE \E j \in 1 .. Len(s) : s[j] = x
    <3>1. PICK p \in l + 1 .. h : x = data[p]
      BY <2>3
    <3>2. p - l \in 1 .. h - l /\ l + (p - l) = p
      OBVIOUS
    <3> QED
      BY <2>4, <3>1, <3>2
  <2>9. ASSUME NEW j \in 1 .. Len(s), NEW q \in 1 .. Len(s), s[j] = s[q] PROVE j = q
    <3>1. l + j = l + q
      BY <1>2, <2>4, <2>9
    <3> QED
      BY <2>4, <3>1
  <2>10. B \subseteq S
    <3>1. \A p \in l + 1 .. h : data[p] \in S
      <4>1. \A p \in 1 .. n : data[p] \in S
        BY <1>1, <1>l
      <4> QED
        BY <1>4, <2>1, <4>1
    <3> QED
      BY <2>3, <3>1
  <2>11. Lists(s, B)
    BY <2>7, <2>8, <2>9 DEF Lists
  <2> QED
    BY <2>2, <2>10, <2>11
<1>6. ASSUME NEW i \in 1 .. k, NEW h \in 1 .. k, NEW x \in A[i], x \in A[h] PROVE i = h
  <2>1. x \in {data[p] : p \in lo[i] + 1 .. hi[i]} /\ x \in {data[p] : p \in lo[h] + 1 .. hi[h]}
    BY <1>4, <1>6
  <2>2. PICK p \in lo[i] + 1 .. hi[i] : x = data[p]
    BY <2>1
  <2>3. PICK q \in lo[h] + 1 .. hi[h] : x = data[q]
    BY <2>1
  <2>4. p \in 1 .. n /\ lo[i] < p /\ p <= hi[i] /\ q \in 1 .. n /\ lo[h] < q /\ q <= hi[h]
    BY <1>4
  <2>5. p = q
    BY <1>2, <2>2, <2>3, <2>4
  <2> QED
    BY <1>l, <2>4, <2>5 DEF Cuts
<1>7. ASSUME NEW x \in S PROVE \E i \in 1 .. k : x \in A[i]
  <2>1. PICK p \in 1 .. n : data[p] = x
    BY <1>3
  <2>2. PICK i \in 1 .. k : lo[i] < p /\ p <= hi[i]
    BY <1>l, <2>1 DEF Cuts
  <2>3. p \in lo[i] + 1 .. hi[i]
    BY <1>1, <1>4, <2>2
  <2>4. A[i] = {data[q] : q \in lo[i] + 1 .. hi[i]}
    BY <1>4
  <2> QED
    BY <2>1, <2>3, <2>4
<1>8. Shares(parts, A, k, S)
  BY <1>p, <1>5, <1>6, <1>7 DEF Shares
<1> QED
  BY <1>8, SharesSplit

-----------------------------------------------------------------------------
(* Micro-batches                                                             *)

\* The work of rows is a number each.
LEMMA WorkType ==
  ASSUME NEW lens \in Seq(Nat), NEW v, v = [i \in DOMAIN lens |-> calculate_workload(lens[i])]
  PROVE  v \in Seq(Nat) /\ Len(v) = Len(lens)
<1>1. \A s \in Nat : calculate_workload(s) \in Nat
  BY DEF calculate_workload
<1>2. DOMAIN lens = 1 .. Len(lens) /\ Len(lens) \in Nat /\ \A i \in 1 .. Len(lens) : lens[i] \in Nat
  OBVIOUS
<1>3. v \in [1 .. Len(lens) -> Nat]
  BY <1>1, <1>2
<1> QED
  BY <1>2, <1>3, FunctionIsSeq

\* Every row of a worker is in one micro-batch.
LEMMA MicroSplits ==
  ASSUME NEW lens \in Seq(Nat), Len(lens) > 0, NEW num \in Nat \ {0}
  PROVE  Splits(MicroBatches(lens, num), num, 1 .. Len(lens))
<1>1. PICK v : v = [i \in DOMAIN lens |-> calculate_workload(lens[i])]
  OBVIOUS
<1>2. v \in Seq(Nat) /\ Len(v) = Len(lens)
  BY <1>1, WorkType
<1>3. PICK parts : /\ parts = get_seqlen_balanced_partitions(v, num, FALSE)
                   /\ Splits(parts, num, 1 .. Len(v))
  <2>1. Len(v) > 0 /\ FALSE \in BOOLEAN
    BY <1>2
  <2> QED
    BY <1>2, <2>1, PartitionsSplit
<1> DEFINE S == {parts[i] : i \in 1 .. num}
           w(p) == SetSum(v, p)
           z(p) == IF p = <<>> THEN 0 ELSE p[1]
           R == {r \in S \X S : \/ w(r[1]) > w(r[2])
                                \/ w(r[1]) = w(r[2]) /\ z(r[1]) > z(r[2])}
           Op(p, q) == \/ SetSum(v, p) > SetSum(v, q)
                       \/ SetSum(v, p) = SetSum(v, q) /\ z(p) > z(q)
           sorted == SortedBy(parts, LAMBDA p, q : \/ SetSum(v, p) > SetSum(v, q)
                                                   \/ SetSum(v, p) = SetSum(v, q) /\ z(p) > z(q))
<1>4. MicroBatches(lens, num) = Reverse(EveryOther(sorted)) \o TheOthers(sorted)
  BY <1>1, <1>3 DEF MicroBatches
<1>5. parts \in Seq(S) /\ Len(parts) = num /\ DOMAIN parts = 1 .. num
  <2>1. Len(parts) = num /\ parts \in Seq(Seq(1 .. Len(v)))
    BY <1>3 DEF Splits
  <2>2. parts \in [1 .. num -> S]
    BY <2>1
  <2> HIDE DEF S
  <2> QED
    BY <2>1, <2>2, FunctionIsSeq
<1>6. \A i \in 1 .. num : /\ parts[i] \in S /\ parts[i] \in Seq(1 .. Len(v))
                          /\ w(parts[i]) \in Nat /\ z(parts[i]) \in Nat
                          /\ (parts[i] # <<>> => z(parts[i]) = parts[i][1] /\ z(parts[i]) > 0 /\ 1 \in 1 .. Len(parts[i]))
  <2> SUFFICES ASSUME NEW i \in 1 .. num
               PROVE  /\ parts[i] \in S /\ parts[i] \in Seq(1 .. Len(v))
                      /\ w(parts[i]) \in Nat /\ z(parts[i]) \in Nat
                      /\ (parts[i] # <<>> => z(parts[i]) = parts[i][1] /\ z(parts[i]) > 0 /\ 1 \in 1 .. Len(parts[i]))
    OBVIOUS
  <2>1. PICK p : p = parts[i] /\ p \in Seq(1 .. Len(v))
    BY <1>3, SplitType
  <2>2. w(p) \in Nat
    BY <1>2, <2>1, SetSumType
  <2>3. z(p) \in Nat /\ (p # <<>> => z(p) = p[1] /\ z(p) > 0 /\ 1 \in 1 .. Len(p))
    BY <2>1
  <2> HIDE DEF w, z
  <2> QED
    BY <2>1, <2>2, <2>3
<1>7. ASSUME NEW i \in 1 .. num, NEW j \in 1 .. num, parts[i] # parts[j] PROVE z(parts[i]) # z(parts[j])
  <2>1. CASE parts[i] = <<>> \/ parts[j] = <<>>
    <3>1. z(<<>>) = 0
      OBVIOUS
    <3> HIDE DEF w, z
    <3>2. (parts[i] = <<>> /\ parts[j] # <<>>) \/ (parts[i] # <<>> /\ parts[j] = <<>>)
      BY <1>7, <2>1
    <3>3. (parts[i] # <<>> => z(parts[i]) > 0) /\ (parts[j] # <<>> => z(parts[j]) > 0)
      BY <1>6
    <3>4. z(parts[i]) \in Nat /\ z(parts[j]) \in Nat
      BY <1>6
    <3>5. (parts[i] = <<>> => z(parts[i]) = 0) /\ (parts[j] = <<>> => z(parts[j]) = 0)
      BY <3>1
    <3> QED
      BY <3>2, <3>3, <3>4, <3>5
  <2>2. CASE parts[i] # <<>> /\ parts[j] # <<>>
    <3>1. 1 \in 1 .. Len(parts[i]) /\ 1 \in 1 .. Len(parts[j]) /\ i # j
      BY <1>6, <1>7, <2>2
    <3>2. parts[i][1] # parts[j][1]
      BY <1>3, <3>1 DEF Splits
    <3> QED
      BY <2>2, <3>2
  <2> QED
    BY <2>1, <2>2
<1>8. sorted = Arranged(parts, IndexOrder(parts, R))
  <2>1. \A p, q \in S : <<p, q>> \in R <=> w(p) > w(q) \/ (w(p) = w(q) /\ z(p) > z(q))
    OBVIOUS
  <2> HIDE DEF R
  <2>2. \A p, q \in S : <<p, q>> \in R <=> Op(p, q)
    BY <2>1
  <2>3. IndexOrder(parts, R) =
          {d \in (1 .. num) \X (1 .. num) : Op(parts[d[1]], parts[d[2]]) \/ (parts[d[1]] = parts[d[2]] /\ d[1] < d[2])}
    <3> HIDE DEF Op, S
    <3> QED
      BY <1>5, <1>6, <2>2 DEF IndexOrder
  <2> HIDE DEF S
  <2> QED
    BY <1>5, <2>3 DEF SortedBy
<1>9. \A p \in S : w(p) \in Nat /\ z(p) \in Nat
  BY <1>6
<1>10. \A p, q \in S : p # q => z(p) # z(q)
  BY <1>7
<1>11. \A p, q \in S : <<p, q>> \in R <=> w(p) > w(q) \/ (w(p) = w(q) /\ z(p) > z(q))
  OBVIOUS
<1> HIDE DEF S, w, z, R, sorted
<1>12. Total(R, S)
  <2>1. \A p \in S : <<p, p>> \notin R
    BY <1>9, <1>11
  <2>2. ASSUME NEW p \in S, NEW q \in S, NEW r \in S, <<p, q>> \in R, <<q, r>> \in R PROVE <<p, r>> \in R
    BY <1>9, <1>11, <2>2
  <2>3. ASSUME NEW p \in S, NEW q \in S PROVE p = q \/ <<p, q>> \in R \/ <<q, p>> \in R
    <3>1. p = q \/ z(p) > z(q) \/ z(q) > z(p)
      BY <1>9, <1>10
    <3>2. w(p) > w(q) \/ w(q) > w(p) \/ w(p) = w(q)
      BY <1>9
    <3> QED
      BY <1>11, <3>1, <3>2
  <2> QED
    BY <2>1, <2>2, <2>3 DEF Total
<1>13. Rearranges(sorted, parts)
  BY <1>5, <1>8, <1>12, SortRearranges
<1>14. Splits(sorted, num, 1 .. Len(v))
  BY <1>3, <1>13, PartsRearranged
<1>15. Rearranges(Reverse(EveryOther(sorted)) \o TheOthers(sorted), sorted)
  <2>1. sorted \in Seq(Seq(1 .. Len(v)))
    BY <1>14 DEF Splits
  <2> QED
    BY <2>1, EndsRearranged
<1>16. Splits(Reverse(EveryOther(sorted)) \o TheOthers(sorted), num, 1 .. Len(v))
  BY <1>14, <1>15, PartsRearranged
<1> QED
  BY <1>2, <1>4, <1>16

\* A worker asks for at least one micro-batch.
LEMMA MicroNumType ==
  ASSUME NEW lens \in Seq(Nat \ {0}), Len(lens) > 0, NEW max \in Nat \ {0}
  PROVE  MicroNum(lens, max) \in Nat \ {0}
<1> DEFINE all == [i \in 1 .. Len(lens) |-> i]
           q == [i \in DOMAIN all |-> lens[all[i]]]
           total == SetSum(lens, all)
<1>1. Len(lens) \in Nat /\ \A i \in 1 .. Len(lens) : lens[i] \in Nat \ {0}
  OBVIOUS
<1>2. DOMAIN q = 1 .. Len(lens) /\ \A i \in 1 .. Len(lens) : q[i] = lens[i]
  OBVIOUS
<1>3. total = SumOf(q)
  BY DEF SetSum, SumOf
<1>4. MicroNum(lens, max) = IF Len(lens) < ceildiv(total, max) THEN Len(lens) ELSE ceildiv(total, max)
  BY DEF MicroNum
<1> HIDE DEF q, all, total
<1>5. Numbers(q) /\ \A i \in DOMAIN q : q[i] >= 0
  <2>1. IsFiniteSet(1 .. Len(lens))
    BY <1>1, FS_Interval
  <2> QED
    BY <1>1, <1>2, <2>1 DEF Numbers
<1>6. total \in Nat /\ total >= 1
  <2>1. SumOf(q) \in Nat /\ q[1] <= SumOf(q)
    BY <1>2, <1>5, SumNat
  <2>2. q[1] \in Nat \ {0}
    BY <1>1, <1>2
  <2> QED
    BY <1>3, <2>1, <2>2
<1>7. ceildiv(total, max) \in Nat \ {0}
  <2>1. PICK d \in Int, r \in 0 .. max - 1 : d = (total + max - 1) \div max /\ total + max - 1 = max * d + r
    <3>1. PICK m \in Int : m = total + max - 1
      BY <1>6
    <3>2. \E d \in Int : \E r \in 0 .. max - 1 : d = m \div max /\ r = m % max /\ m = max * d + r
      BY Divided
    <3> QED
      BY <3>1, <3>2
  <2>2. ASSUME d < 1 PROVE FALSE
    <3>1. PICK c \in Nat : d = - c
      <4>1. - d \in Nat /\ d = - (- d)
        BY <2>2
      <4> QED
        BY <4>1
    <3>2. max * d = - (max * c) /\ max * c \in Nat
      BY <3>1
    <3> QED
      BY <1>6, <2>1, <3>2
  <2>3. ceildiv(total, max) = d
    BY <2>1 DEF ceildiv
  <2>4. d \in Nat \ {0}
    <3>1. d \in Int /\ ~ (d < 1)
      BY <2>1, <2>2
    <3> QED
      BY <3>1
  <2> QED
    BY <2>3, <2>4
<1> QED
  BY <1>1, <1>4, <1>7

\* Pieces of one size; the last may be shorter.
LEMMA EvenCuts ==
  ASSUME NEW n \in Nat, NEW size \in Nat \ {0}, NEW k \in Nat \ {0},
         (k - 1) * size < n, n <= k * size,
         NEW lo, lo = [i \in 1 .. k |-> (i - 1) * size],
         NEW hi, hi = [i \in 1 .. k |-> IF i * size < n THEN i * size ELSE n]
  PROVE  Cuts(lo, hi, k, n)
<1> DEFINE mul(i) == i * size
<1>1. \A i \in Nat : mul(i) \in Nat /\ mul(i + 1) = mul(i) + size
  OBVIOUS
<1>2. ASSUME NEW i \in Nat, NEW h \in Nat, i <= h PROVE mul(i) <= mul(h)
  <2>1. PICK d \in Nat : h = i + d
    <3>1. h - i \in Nat /\ h = i + (h - i)
      BY <1>2
    <3> QED
      BY <3>1
  <2>2. mul(h) = mul(i) + mul(d)
    BY <2>1
  <2> QED
    BY <1>1, <2>2
<1>3. \A i \in 1 .. k : i - 1 \in Nat /\ lo[i] = mul(i - 1) /\ hi[i] = IF mul(i) < n THEN mul(i) ELSE n
  OBVIOUS
<1>4. mul(k - 1) < n /\ n <= mul(k)
  OBVIOUS
<1>5. \A p \in 1 .. n : \E q \in Int : mul(q) < p /\ p <= mul(q) + size
  <2> SUFFICES ASSUME NEW p \in 1 .. n PROVE \E q \in Int : mul(q) < p /\ p <= mul(q) + size
    OBVIOUS
  <2>1. PICK m \in Int : m = p - 1
    OBVIOUS
  <2>2. PICK q \in Int, r \in 0 .. size - 1 : m = size * q + r
    BY Divided
  <2>3. PICK x \in Int : x = size * q /\ x = mul(q)
    OBVIOUS
  <2>4. m = x + r
    BY <2>2, <2>3
  <2>5. x < p /\ p <= x + size
    BY <2>1, <2>4
  <2> QED
    BY <2>3, <2>5
<1>6. \A q \in Int : q < 0 => mul(q) <= - size
  <2> SUFFICES ASSUME NEW q \in Int, q < 0 PROVE mul(q) <= - size
    OBVIOUS
  <2>1. PICK c \in Nat : q = - 1 - c
    <3>1. - 1 - q \in Nat /\ q = - 1 - (- 1 - q)
      OBVIOUS
    <3> QED
      BY <3>1
  <2>2. mul(q) = - size - c * size /\ c * size \in Nat
    BY <2>1
  <2> QED
    BY <2>2
<1>7. \A q \in Int : mul(q) \in Int
  OBVIOUS
<1> HIDE DEF mul
<1>8. ASSUME NEW i \in 1 .. k PROVE /\ lo[i] \in Nat /\ hi[i] \in Nat /\ lo[i] <= hi[i] /\ hi[i] <= n
                                    /\ lo[i] = mul(i - 1) /\ hi[i] <= mul(i)
  <2>1. mul(i - 1) \in Nat /\ mul(i) \in Nat /\ mul(i - 1) <= mul(i)
    <3>1. i - 1 \in Nat /\ i \in Nat /\ i - 1 <= i
      OBVIOUS
    <3> QED
      BY <1>1, <1>2, <3>1
  <2>2. mul(i - 1) <= mul(k - 1) /\ mul(k - 1) \in Nat
    <3>1. i - 1 \in Nat /\ k - 1 \in Nat /\ i - 1 <= k - 1
      OBVIOUS
    <3> QED
      BY <1>1, <1>2, <3>1
  <2>3. PICK x \in Nat, y \in Nat, z \in Nat : x = mul(i - 1) /\ y = mul(i) /\ z = mul(k - 1)
    BY <2>1, <2>2
  <2>4. lo[i] = x /\ hi[i] = IF y < n THEN y ELSE n
    BY <1>3, <2>3
  <2>5. x <= y /\ x < n
    BY <1>4, <2>1, <2>2, <2>3
  <2> QED
    BY <2>3, <2>4, <2>5
<1>9. ASSUME NEW p \in 1 .. n PROVE \E i \in 1 .. k : lo[i] < p /\ p <= hi[i]
  <2>1. PICK q \in Int : mul(q) < p /\ p <= mul(q) + size
    BY <1>5
  <2>2. q >= 0
    BY <1>6, <1>7, <2>1
  <2>3. q < k
    <3>1. CASE q >= k
      <4>1. mul(k) <= mul(q) /\ mul(k) \in Nat /\ mul(q) \in Nat
        <5>1. q \in Nat /\ k \in Nat /\ k <= q
          BY <3>1
        <5> QED
          BY <1>1, <1>2, <5>1
      <4> QED
        BY <1>4, <2>1, <4>1
    <3> QED
      BY <3>1
  <2>4. q + 1 \in 1 .. k /\ (q + 1) - 1 = q /\ q \in Nat
    BY <2>2, <2>3
  <2>5. mul(q + 1) = mul(q) + size /\ mul(q) \in Nat
    BY <1>1, <2>4
  <2>6. lo[q + 1] = mul(q) /\ hi[q + 1] = IF mul(q + 1) < n THEN mul(q + 1) ELSE n
    BY <1>3, <2>4
  <2>7. PICK x \in Nat : x = mul(q)
    BY <2>5
  <2>8. lo[q + 1] < p /\ p <= hi[q + 1]
    BY <2>1, <2>5, <2>6, <2>7
  <2> QED
    BY <2>4, <2>8
<1>10. ASSUME NEW p \in 1 .. n, NEW i \in 1 .. k, NEW h \in 1 .. k, i < h,
              p <= hi[i], lo[h] < p
       PROVE  FALSE
  <2>1. i <= h - 1 /\ h - 1 \in Nat /\ i \in Nat
    BY <1>10
  <2>2. mul(i) <= mul(h - 1) /\ mul(i) \in Nat /\ mul(h - 1) \in Nat
    BY <1>1, <1>2, <2>1
  <2>3. hi[i] <= mul(i) /\ lo[h] = mul(h - 1) /\ hi[i] \in Nat
    BY <1>8
  <2> QED
    BY <1>10, <2>2, <2>3
<1>11. ASSUME NEW p \in 1 .. n, NEW i \in 1 .. k, NEW h \in 1 .. k,
              lo[i] < p, p <= hi[i], lo[h] < p, p <= hi[h]
       PROVE  i = h
  <2>1. ~ (i < h)
    BY <1>10, <1>11
  <2>2. ~ (h < i)
    BY <1>10, <1>11
  <2> QED
    BY <2>1, <2>2
<1> QED
  BY <1>8, <1>9, <1>11 DEF Cuts

\* DataProto.chunk
LEMMA ChunksSplit ==
  ASSUME NEW S, NEW data, Lists(data, S), NEW k \in Nat \ {0}, Len(data) % k = 0, Len(data) > 0,
         NEW parts, parts = [c \in 1 .. k |-> Chunk(data, k, c - 1)]
  PROVE  /\ Splits(parts, k, S)
         /\ LET size == Len(data) \div k
            IN /\ size \in Nat \ {0} /\ Len(data) = k * size
               /\ \A c \in 1 .. k : /\ parts[c] \in Seq(S) /\ Len(parts[c]) = size
                                    /\ \A j \in 1 .. size : parts[c][j] = data[(c - 1) * size + j]
<1> DEFINE n == Len(data)
           size == n \div k
           lo == [i \in 1 .. k |-> (i - 1) * size]
           hi == [i \in 1 .. k |-> IF i * size < n THEN i * size ELSE n]
<1>1. n \in Nat /\ data \in Seq(S)
  BY DEF Lists
<1>2. size \in Nat /\ n = size * k
  BY <1>1, Blocks
<1>3. size # 0
  BY <1>1, <1>2
<1>l. n = Len(data) /\ size = n \div k
  OBVIOUS
<1>4. \A c \in 1 .. k : parts[c] = SubSeq(data, (c - 1) * size + 1, c * size)
  <2>1. \A c \in 1 .. k : parts[c] = SubSeq(data, (c - 1) * size + 1, ((c - 1) + 1) * size)
    BY DEF Chunk
  <2>2. \A c \in 1 .. k : (c - 1) + 1 = c
    OBVIOUS
  <2> QED
    BY <2>1, <2>2
<1> HIDE DEF size, n
<1>5. \A c \in 1 .. k : /\ (c - 1) * size \in Nat /\ c * size \in Nat /\ c * size = (c - 1) * size + size
                        /\ c * size <= n /\ hi[c] = c * size /\ lo[c] = (c - 1) * size
  <2> SUFFICES ASSUME NEW c \in 1 .. k
               PROVE  /\ (c - 1) * size \in Nat /\ c * size \in Nat /\ c * size = (c - 1) * size + size
                      /\ c * size <= n /\ hi[c] = c * size /\ lo[c] = (c - 1) * size
    OBVIOUS
  <2>1. (c - 1) * size \in Nat /\ c * size \in Nat /\ c * size = (c - 1) * size + size
    <3>1. PICK d \in Nat : d = c - 1 /\ c = d + 1
      <4>1. c - 1 \in Nat /\ c = (c - 1) + 1
        OBVIOUS
      <4> QED
        BY <4>1
    <3>2. d * size \in Nat /\ (d + 1) * size = d * size + size
      BY <1>2
    <3> QED
      BY <1>2, <3>1, <3>2
  <2>2. c * size <= n
    <3>1. PICK d \in Nat : k = c + d
      <4>1. k - c \in Nat /\ k = c + (k - c)
        OBVIOUS
      <4> QED
        BY <4>1
    <3>2. n = c * size + d * size /\ d * size \in Nat
      BY <1>2, <3>1
    <3> QED
      BY <2>1, <3>2
  <2>3. hi[c] = c * size
    BY <1>1, <2>1, <2>2
  <2> QED
    BY <2>1, <2>2, <2>3
<1>6. Cuts(lo, hi, k, n)
  <2>1. (k - 1) * size < n /\ n <= k * size
    <3>1. k \in 1 .. k
      OBVIOUS
    <3>2. n = k * size
      BY <1>2
    <3> QED
      BY <1>2, <1>3, <1>5, <3>1, <3>2
  <2>2. size \in Nat \ {0}
    BY <1>2, <1>3
  <2> QED
    BY <1>1, <2>1, <2>2, EvenCuts
<1>7. parts = [i \in 1 .. k |-> SubSeq(data, lo[i] + 1, hi[i])]
  <2>1. \A i \in 1 .. k : parts[i] = SubSeq(data, lo[i] + 1, hi[i])
    BY <1>4, <1>5
  <2> HIDE DEF lo, hi
  <2> QED
    BY <2>1
<1> HIDE DEF lo, hi
<1>8. Splits(parts, k, S)
  <2>1. Cuts(lo, hi, k, Len(data))
    BY <1>6, <1>l
  <2> QED
    BY <1>7, <2>1, PiecesSplit
<1>9. ASSUME NEW c \in 1 .. k
      PROVE  /\ parts[c] \in Seq(S) /\ Len(parts[c]) = size
             /\ \A j \in 1 .. size : parts[c][j] = data[(c - 1) * size + j]
  <2>1. PICK l \in Nat, h \in Nat : l = (c - 1) * size /\ h = c * size /\ h = l + size /\ h <= n
    BY <1>5
  <2>2. PICK s : s = parts[c]
    OBVIOUS
  <2>6. l <= h /\ h <= Len(data)
    BY <1>2, <1>l, <2>1
  <2>7. parts[c] = SubSeq(data, l + 1, h)
    BY <1>4, <2>1
  <2>3. s = SubSeq(data, l + 1, h) /\ l <= h /\ h <= Len(data)
    BY <2>2, <2>6, <2>7
  <2>4. s \in Seq(S) /\ Len(s) = h - l /\ \A j \in 1 .. h - l : s[j] = data[l + j]
    BY <1>1, <2>3, SubSeqIs
  <2>5. h - l = size
    BY <1>2, <2>1
  <2> QED
    BY <2>1, <2>2, <2>4, <2>5
<1>10. n = k * size
  BY <1>2
<1> QED
  BY <1>2, <1>3, <1>8, <1>9, <1>10, <1>l

\* DataProto.split
Pieces(parts, data, size, k) ==
  k = ceildiv(Len(data), size) /\ parts = [m \in 1 .. k |-> Split(data, size, m)]

\* The pieces hold every row once, and none is empty.
LEMMA PiecesOfSize ==
  ASSUME NEW S, NEW data, Lists(data, S), NEW size \in Nat \ {0}, Len(data) > 0,
         NEW k, NEW parts, Pieces(parts, data, size, k)
  PROVE  /\ k \in Nat \ {0} /\ Splits(parts, k, S)
         /\ \A m \in 1 .. k : Len(parts[m]) > 0
<1> DEFINE n == Len(data)
           lo == [i \in 1 .. k |-> (i - 1) * size]
           hi == [i \in 1 .. k |-> IF i * size < n THEN i * size ELSE n]
<1>1. n \in Nat /\ data \in Seq(S)
  BY DEF Lists
<1>2. PICK m \in Int : m = n + size - 1
  <2> HIDE DEF n
  <2> QED
    BY <1>1
<1>3. PICK q \in Int, r \in 0 .. size - 1 : q = m \div size /\ m = size * q + r
  <2>1. \E q \in Int : \E r \in 0 .. size - 1 : q = m \div size /\ r = m % size /\ m = size * q + r
    BY Divided
  <2> QED
    BY <2>1
<1>4. k = q
  BY <1>2, <1>3 DEF ceildiv, Pieces
<1>5. n > 0 /\ n = Len(data)
  OBVIOUS
<1> HIDE DEF n
<1>6. k \in Nat \ {0}
  <2> SUFFICES ASSUME q < 1 PROVE FALSE
    BY <1>3, <1>4
  <2>1. PICK c \in Nat : q = - c
    <3>1. - q \in Nat /\ q = - (- q)
      BY <1>3
    <3> QED
      BY <3>1
  <2>2. size * q = - (size * c) /\ size * c \in Nat
    BY <2>1
  <2> QED
    BY <1>1, <1>2, <1>3, <1>5, <2>2
<1>7. (k - 1) * size < n /\ n <= k * size
  <2>1. PICK x \in Int : x = size * q /\ k * size = x /\ (k - 1) * size = x - size
    BY <1>4
  <2> QED
    BY <1>1, <1>2, <1>3, <2>1
<1>8. Cuts(lo, hi, k, n)
  BY <1>1, <1>6, <1>7, EvenCuts
<1>9. parts = [i \in 1 .. k |-> SubSeq(data, lo[i] + 1, hi[i])]
  <2>1. \A i \in 1 .. k : /\ lo[i] = (i - 1) * size /\ hi[i] = IF i * size < n THEN i * size ELSE n
    OBVIOUS
  <2>2. \A i \in 1 .. k : parts[i] = SubSeq(data, lo[i] + 1, hi[i])
    BY <1>5, <2>1 DEF Split, Pieces
  <2> HIDE DEF lo, hi
  <2> QED
    BY <2>2 DEF Pieces
<1>10. ASSUME NEW i \in 1 .. k PROVE lo[i] < hi[i]
  <2>1. PICK x \in Int : x = (i - 1) * size /\ i * size = x + size
    BY <1>6
  <2>2. x < n
    <3>1. PICK d \in Nat : k = i + d
      <4>1. k - i \in Nat /\ k = i + (k - i)
        BY <1>6
      <4> QED
        BY <4>1
    <3>2. (k - 1) * size = x + d * size /\ d * size \in Nat
      BY <2>1, <3>1
    <3> QED
      BY <1>1, <1>7, <2>1, <3>2
  <2>3. lo[i] = x /\ hi[i] = IF x + size < n THEN x + size ELSE n
    BY <2>1
  <2> QED
    BY <1>1, <2>1, <2>2, <2>3
<1> HIDE DEF lo, hi
<1>11. Splits(parts, k, S)
  <2>1. Cuts(lo, hi, k, Len(data)) /\ k \in Nat
    BY <1>5, <1>6, <1>8
  <2> QED
    BY <1>9, <2>1, PiecesSplit
<1>12. ASSUME NEW i \in 1 .. k PROVE Len(parts[i]) > 0
  <2>1. PICK l \in Nat, h \in Nat : l = lo[i] /\ h = hi[i] /\ l < h /\ h <= n
    BY <1>8, <1>10 DEF Cuts
  <2>2. PICK s : s = parts[i]
    OBVIOUS
  <2>5. l <= h /\ h <= Len(data)
    BY <1>5, <2>1
  <2>6. parts[i] = SubSeq(data, l + 1, h)
    BY <1>9, <2>1
  <2>3. s = SubSeq(data, l + 1, h) /\ l <= h /\ h <= Len(data)
    BY <2>2, <2>5, <2>6
  <2>4. Len(s) = h - l
    BY <1>1, <2>3, SubSeqIs
  <2> QED
    BY <2>1, <2>2, <2>4
<1> QED
  BY <1>6, <1>11, <1>12

-----------------------------------------------------------------------------
(* Repeated prompts and their groups                                         *)

\* Row i is a copy of a prompt, and copy j of prompt q is a row.
LEMMA PlaceOf ==
  ASSUME NEW p \in Nat, NEW n \in Nat \ {0}
  PROVE  /\ \A i \in 1 .. p * n : /\ (i - 1) \div n \in 0 .. p - 1 /\ (i - 1) % n \in 0 .. n - 1
                                  /\ i = ((i - 1) \div n) * n + ((i - 1) % n) + 1
         /\ p * n \in Nat
<1>0. p * n \in Nat /\ \A a, b \in Nat : a * b \in Nat
  OBVIOUS
<1>1. ASSUME NEW i \in 1 .. p * n
      PROVE  /\ (i - 1) \div n \in 0 .. p - 1 /\ (i - 1) % n \in 0 .. n - 1
             /\ i = ((i - 1) \div n) * n + ((i - 1) % n) + 1
  <2>1. PICK m \in Nat : m = i - 1
    BY <1>0
  <2>2. PICK q \in Int, r \in 0 .. n - 1 : q = m \div n /\ r = m % n /\ m = n * q + r
    <3>1. \E q \in Int : \E r \in 0 .. n - 1 : q = m \div n /\ r = m % n /\ m = n * q + r
      BY Divided
    <3> QED
      BY <3>1
  <2>3. q >= 0
    <3> SUFFICES ASSUME q < 0 PROVE FALSE
      BY <2>2
    <3>1. PICK c \in Nat : q = - 1 - c
      <4>1. - 1 - q \in Nat /\ q = - 1 - (- 1 - q)
        BY <2>2
      <4> QED
        BY <4>1
    <3>2. n * q = - n - n * c /\ n * c \in Nat
      BY <1>0, <3>1
    <3> QED
      BY <2>2, <3>2
  <2>4. q < p
    <3> SUFFICES ASSUME q >= p PROVE FALSE
      BY <2>2
    <3>1. PICK c \in Nat : q = p + c
      <4>1. q - p \in Nat /\ q = p + (q - p)
        BY <2>2
      <4> QED
        BY <4>1
    <3>2. n * q = p * n + n * c /\ n * c \in Nat
      BY <1>0, <3>1
    <3> QED
      BY <1>0, <2>1, <2>2, <3>2
  <2>5. q \in 0 .. p - 1
    BY <2>2, <2>3, <2>4
  <2>6. PICK x \in Int : x = n * q /\ x = q * n
    BY <2>2
  <2>7. i = q * n + r + 1
    BY <2>1, <2>2, <2>6
  <2>8. (i - 1) \div n = q /\ (i - 1) % n = r
    BY <2>1, <2>2
  <2>9. ((i - 1) \div n) * n + ((i - 1) % n) + 1 = q * n + r + 1
    BY <2>8
  <2> QED
    BY <2>5, <2>7, <2>8, <2>9
<1> QED
  BY <1>0, <1>1

\* The other way round: the place of element j of block q
LEMMA PlaceAt ==
  ASSUME NEW p \in Nat, NEW n \in Nat \ {0}, NEW q \in 0 .. p - 1, NEW j \in 0 .. n - 1
  PROVE  /\ q * n + j + 1 \in 1 .. p * n
         /\ (q * n + j) \div n = q /\ (q * n + j) % n = j
<1>0. p * n \in Nat /\ \A a, b \in Nat : a * b \in Nat
  OBVIOUS
<1>1. PICK c \in Nat : p = q + 1 + c
  <2>1. p - q - 1 \in Nat /\ p = q + 1 + (p - q - 1)
    OBVIOUS
  <2> QED
    BY <2>1
<1>2. p * n = q * n + n + c * n /\ q * n \in Nat /\ c * n \in Nat
  BY <1>0, <1>1
<1>3. PICK m \in Nat : m = q * n + j
  BY <1>2
<1>4. PICK d \in Int, r \in 0 .. n - 1 : d = m \div n /\ r = m % n /\ m = n * d + r
  <2>1. \E d \in Int : \E r \in 0 .. n - 1 : d = m \div n /\ r = m % n /\ m = n * d + r
    BY Divided
  <2> QED
    BY <2>1
<1>5. PICK x \in Int : x = n * d /\ x = d * n
  BY <1>4
<1>6. q * n + (j + 1) = d * n + (r + 1)
  BY <1>2, <1>3, <1>4, <1>5
<1>7. q \in Int /\ d \in Int /\ j + 1 \in 1 .. n /\ r + 1 \in 1 .. n
  BY <1>4
<1>8. q = d /\ j + 1 = r + 1
  BY <1>6, <1>7, OnePlace
<1>9. q * n + j + 1 \in 1 .. p * n
  BY <1>2
<1> QED
  BY <1>3, <1>4, <1>7, <1>8, <1>9

\* The repeated prompts hold every pair of a prompt and a copy once.
LEMMA RepeatedLists ==
  ASSUME NEW p \in Nat, NEW n \in Nat \ {0}, NEW b, b = Repeated(p, n)
  PROVE  Lists(b, (0 .. p - 1) \X (0 .. n - 1)) /\ Len(b) = p * n
<1> DEFINE S == (0 .. p - 1) \X (0 .. n - 1)
<1>1. b = [i \in 1 .. p * n |-> <<(i - 1) \div n, (i - 1) % n>>]
  BY DEF Repeated
<1>2. \A i \in 1 .. p * n : b[i] = <<(i - 1) \div n, (i - 1) % n>>
  BY <1>1
<1>3. b \in Seq(S) /\ Len(b) = p * n
  <2>1. ASSUME NEW i \in 1 .. p * n PROVE b[i] \in S
    <3>1. (i - 1) \div n \in 0 .. p - 1 /\ (i - 1) % n \in 0 .. n - 1
      BY PlaceOf
    <3>2. b[i] = <<(i - 1) \div n, (i - 1) % n>>
      BY <1>2
    <3>3. \A x \in 0 .. p - 1, y \in 0 .. n - 1 : <<x, y>> \in S
      OBVIOUS
    <3> QED
      BY <3>1, <3>2, <3>3, Zenon
  <2>2. p * n \in Nat
    BY PlaceOf
  <2> HIDE DEF S
  <2>3. b \in [1 .. p * n -> S]
    BY <1>1, <2>1
  <2> QED
    BY <2>2, <2>3, FunctionIsSeq
<1>4. ASSUME NEW x \in S PROVE \E i \in 1 .. p * n : b[i] = x
  <2>1. PICK q \in 0 .. p - 1, j \in 0 .. n - 1 : x = <<q, j>>
    OBVIOUS
  <2>2. q * n + j + 1 \in 1 .. p * n /\ (q * n + j) \div n = q /\ (q * n + j) % n = j
    BY PlaceAt
  <2>3. PICK i \in 1 .. p * n : i = q * n + j + 1
    BY <2>2
  <2>4. i - 1 = q * n + j
    <3>1. q * n \in Int
      OBVIOUS
    <3> QED
      BY <2>3, <3>1
  <2>5. b[i] = <<q, j>>
    BY <1>2, <2>2, <2>4
  <2> QED
    BY <2>1, <2>5
<1>5. ASSUME NEW i \in 1 .. p * n, NEW h \in 1 .. p * n, b[i] = b[h] PROVE i = h
  <2>1. (i - 1) \div n = (h - 1) \div n /\ (i - 1) % n = (h - 1) % n
    BY <1>2, <1>5
  <2>2. i = ((i - 1) \div n) * n + ((i - 1) % n) + 1 /\ h = ((h - 1) \div n) * n + ((h - 1) % n) + 1
    BY PlaceOf
  <2> QED
    BY <2>1, <2>2
<1> HIDE DEF S
<1>6. Lists(b, S)
  BY <1>3, <1>4, <1>5 DEF Lists
<1> QED
  BY <1>3, <1>6 DEF S

GroupRows(p, n) == [g \in 1 .. p |-> [j \in 1 .. n |-> (g - 1) * n + j]]
Uids(p, n) == [i \in 1 .. p * n |-> (i - 1) \div n]

\* The runs of one uid are the copies of a prompt.
LEMMA GroupsAre ==
  ASSUME NEW p, p \in Nat \ {0}, NEW n, n \in Nat \ {0}, NEW uid, uid = Uids(p, n)
  PROVE  UidGroups(uid) = GroupRows(p, n)
<1> DEFINE begin == {i \in DOMAIN uid : i = 1 \/ uid[i] # uid[i - 1]}
           number == [i \in DOMAIN uid |-> Cardinality(begin \cap 1 .. i)]
           size(g) == Cardinality({i \in DOMAIN uid : number[i] = g})
           first(g) == CHOOSE i \in begin : number[i] = g
           at(g) == g * n + 1
<1>0. p * n \in Nat /\ DOMAIN uid = 1 .. p * n /\ \A i \in 1 .. p * n : uid[i] = (i - 1) \div n /\ uid[i] \in 0 .. p - 1
  BY PlaceOf DEF Uids
<1>u. UidGroups(uid) = [g \in 1 .. Cardinality(begin) |-> [j \in 1 .. size(g) |-> first(g) + j - 1]]
  BY DEF UidGroups
\* Row i of the group of its prompt
<1>1. \A i \in 1 .. p * n : \E j \in 1 .. n : i = uid[i] * n + j
  <2> SUFFICES ASSUME NEW i \in 1 .. p * n PROVE \E j \in 1 .. n : i = uid[i] * n + j
    OBVIOUS
  <2>1. i = ((i - 1) \div n) * n + ((i - 1) % n) + 1 /\ (i - 1) % n \in 0 .. n - 1
    BY PlaceOf
  <2>2. PICK r \in 0 .. n - 1 : r = (i - 1) % n
    BY <2>1
  <2>3. uid[i] * n \in Int
    BY <1>0
  <2>a. uid[i] = (i - 1) \div n
    BY <1>0
  <2>b. PICK x \in Int : x = uid[i] * n /\ x = ((i - 1) \div n) * n
    BY <2>3, <2>a
  <2>c. i = x + r + 1
    BY <2>1, <2>2, <2>b
  <2>4. i = uid[i] * n + (r + 1) /\ r + 1 \in 1 .. n
    BY <2>b, <2>c
  <2> QED
    BY <2>4
<1>2. \A g \in 0 .. p - 1, j \in 1 .. n : g * n + j \in 1 .. p * n /\ uid[g * n + j] = g
  <2> SUFFICES ASSUME NEW g \in 0 .. p - 1, NEW j \in 1 .. n
               PROVE  g * n + j \in 1 .. p * n /\ uid[g * n + j] = g
    OBVIOUS
  <2>1. j - 1 \in 0 .. n - 1
    OBVIOUS
  <2>2. PICK h \in 0 .. n - 1 : h = j - 1
    BY <2>1
  <2>3. g * n + h + 1 \in 1 .. p * n /\ (g * n + h) \div n = g
    BY PlaceAt
  <2>4. PICK x \in Int : x = g * n
    OBVIOUS
  <2>5. g * n + j = g * n + h + 1 /\ (g * n + j) - 1 = g * n + h
    BY <2>2, <2>4
  <2> QED
    BY <1>0, <2>3, <2>5
<1> HIDE DEF begin, number, size, first
<1>b. \A i \in 1 .. p * n : i \in begin <=> i = 1 \/ uid[i] # uid[i - 1]
  BY <1>0 DEF begin
\* A row is the first of its group exactly when it is at its beginning.
<1>3. \A i \in 1 .. p * n : i \in begin <=> i = uid[i] * n + 1
  <2> SUFFICES ASSUME NEW i \in 1 .. p * n PROVE (i = 1 \/ uid[i] # uid[i - 1]) <=> i = uid[i] * n + 1
    BY <1>b
  <2>1. PICK j \in 1 .. n : i = uid[i] * n + j
    BY <1>1
  <2>2. uid[i] * n \in Int
    BY <1>0
  <2>3. CASE j = 1
    <3>1. i = uid[i] * n + 1
      BY <2>1, <2>3
    <3>2. ASSUME i # 1 PROVE uid[i] # uid[i - 1]
      <4>1. i - 1 \in 1 .. p * n
        BY <3>2
      <4>2. PICK h \in 1 .. n : i - 1 = uid[i - 1] * n + h
        BY <1>1, <4>1
      <4>3. ASSUME uid[i] = uid[i - 1] PROVE FALSE
        <5>1. i - 1 = uid[i] * n + h
          BY <4>2, <4>3
        <5> QED
          BY <2>2, <3>1, <5>1
      <4> QED
        BY <4>3
    <3> QED
      BY <3>1, <3>2
  <2>4. CASE j # 1
    <3>1. i # uid[i] * n + 1
      BY <2>1, <2>2, <2>4
    <3>2. j - 1 \in 1 .. n /\ uid[i] \in 0 .. p - 1
      BY <1>0, <2>4
    <3>3. uid[uid[i] * n + (j - 1)] = uid[i]
      BY <1>2, <3>2
    <3>4. uid[i] * n + (j - 1) = i - 1
      <4>1. PICK x \in Int : x = uid[i] * n
        BY <2>2
      <4>2. i = x + j
        BY <2>1, <4>1
      <4>3. x + (j - 1) = i - 1
        BY <4>2
      <4> QED
        BY <4>1, <4>3
    <3>5. i # 1
      <4>1. uid[i] * n >= 0
        BY <1>0
      <4> QED
        BY <2>1, <2>2, <2>4, <4>1
    <3> QED
      BY <3>1, <3>3, <3>4, <3>5
  <2> QED
    BY <2>3, <2>4
<1>c. begin \subseteq 1 .. p * n
  BY <1>0 DEF begin
\* The beginnings up to row i are those of the groups 0 .. uid[i].
<1>4. ASSUME NEW i \in 1 .. p * n PROVE number[i] = uid[i] + 1
  <2> DEFINE T == begin \cap 1 .. i
             f == [g \in 0 .. uid[i] |-> at(g)]
  <2>1. number[i] = Cardinality(T)
    BY <1>0 DEF number
  <2>2. uid[i] \in 0 .. p - 1
    BY <1>0
  <2>3. PICK r \in 1 .. n : i = uid[i] * n + r
    BY <1>1
  <2>4. PICK u \in 0 .. p - 1 : u = uid[i]
    BY <2>2
  <2>5. ASSUME NEW g \in 0 .. u PROVE at(g) \in T /\ uid[at(g)] = g
    <3>1. g \in 0 .. p - 1 /\ 1 \in 1 .. n /\ (g + 1) - 1 = g
      OBVIOUS
    <3>2. at(g) \in 1 .. p * n /\ uid[at(g)] = g
      BY <1>2, <3>1
    <3>3. at(g) \in begin
      <4>1. at(g) = uid[at(g)] * n + 1
        BY <3>2
      <4> QED
        BY <1>3, <3>2, <4>1
    <3>4. at(g) <= i
      <4>1. PICK d \in Nat : u = g + d
        <5>1. u - g \in Nat /\ u = g + (u - g)
          OBVIOUS
        <5> QED
          BY <5>1
      <4>2. u * n = g * n + d * n /\ d * n \in Nat /\ g * n \in Int
        BY <4>1
      <4>3. i = u * n + r
        BY <2>3, <2>4
      <4> QED
        BY <4>2, <4>3
    <3> QED
      BY <3>2, <3>3, <3>4
  <2>6. ASSUME NEW t \in T PROVE uid[t] \in 0 .. u /\ t = at(uid[t])
    <3>1. t \in 1 .. p * n /\ t \in begin /\ t <= i
      BY <1>c
    <3>2. t = uid[t] * n + 1 /\ uid[t] \in 0 .. p - 1
      BY <1>0, <1>3, <3>1
    <3>3. uid[t] <= u
      <4> SUFFICES ASSUME uid[t] > u PROVE FALSE
        BY <3>2
      <4>1. PICK g \in 0 .. p - 1 : g = uid[t]
        BY <3>2
      <4>2. PICK d \in Nat : g = u + 1 + d
        <5>1. g > u /\ g \in Int /\ u \in Int
          BY <4>1
        <5>2. g - u - 1 \in Nat /\ g = u + 1 + (g - u - 1)
          BY <5>1
        <5> QED
          BY <5>2
      <4>3. g * n = u * n + n + d * n /\ d * n \in Nat /\ u * n \in Int
        BY <4>2
      <4>4. t = g * n + 1 /\ i = u * n + r /\ t <= i
        BY <2>3, <2>4, <3>1, <3>2, <4>1
      <4>5. PICK x \in Int, y \in Int, z \in Nat : x = g * n /\ y = u * n /\ z = d * n
        BY <4>3
      <4>6. x = y + n + z
        BY <4>3, <4>5
      <4>7. x + 1 <= y + r
        BY <4>4, <4>5
      <4> QED
        BY <4>6, <4>7
    <3>4. uid[t] \in 0 .. u
      BY <3>2, <3>3
    <3> QED
      BY <3>2, <3>4
  <2>7. f = [g \in 0 .. u |-> at(g)]
    BY <2>4
  <2> HIDE DEF T, at
  <2>8. f \in [0 .. u -> T]
    BY <2>5, <2>7
  <2>9. \A g, h \in 0 .. u : f[g] = f[h] => g = h
    <3> SUFFICES ASSUME NEW g \in 0 .. u, NEW h \in 0 .. u, f[g] = f[h] PROVE g = h
      OBVIOUS
    <3>1. f[g] = at(g) /\ f[h] = at(h)
      BY <2>7
    <3>2. uid[at(g)] = g /\ uid[at(h)] = h
      BY <2>5
    <3> QED
      BY <3>1, <3>2
  <2>10. \A t \in T : \E g \in 0 .. u : f[g] = t
    BY <2>6, <2>7
  <2> HIDE DEF f
  <2>11. f \in Bijection(0 .. u, T)
    BY <2>8, <2>9, <2>10, Fun_IsBij
  <2>12. IsFiniteSet(0 .. u) /\ Cardinality(0 .. u) = u + 1
    BY FS_Interval
  <2>13. Cardinality(T) = Cardinality(0 .. u)
    <3>1. ExistsBijection(0 .. u, T)
      BY <2>11 DEF ExistsBijection
    <3> QED
      BY <2>12, <3>1, FS_Bijection
  <2> QED
    BY <2>1, <2>4, <2>12, <2>13
<1>5. Cardinality(begin) = p
  <2>1. PICK i \in 1 .. p * n : uid[i] = p - 1 /\ i = (p - 1) * n + n
    <3>1. p - 1 \in 0 .. p - 1 /\ n \in 1 .. n
      OBVIOUS
    <3>2. (p - 1) * n + n \in 1 .. p * n /\ uid[(p - 1) * n + n] = p - 1
      BY <1>2, <3>1
    <3> QED
      BY <3>2
  <2>2. i = p * n
    BY <2>1
  <2>3. begin \cap 1 .. i = begin
    BY <1>c, <2>2
  <2>4. number[i] = Cardinality(begin \cap 1 .. i)
    BY <1>0 DEF number
  <2>5. number[i] = (p - 1) + 1
    BY <1>4, <2>1
  <2>6. (p - 1) + 1 = p
    OBVIOUS
  <2> QED
    BY <2>3, <2>4, <2>5, <2>6
<1>6. ASSUME NEW g \in 1 .. p PROVE size(g) = n /\ first(g) = (g - 1) * n + 1
  <2>1. PICK h \in 0 .. p - 1 : h = g - 1 /\ g = h + 1
    <3>1. g - 1 \in 0 .. p - 1 /\ g = (g - 1) + 1
      OBVIOUS
    <3> QED
      BY <3>1
  <2>2. PICK x \in Nat : x = h * n
    BY <1>0
  <2>3. \A i \in 1 .. p * n : number[i] = g <=> uid[i] = h
    <3>1. \A i \in 1 .. p * n : number[i] = uid[i] + 1 /\ uid[i] \in 0 .. p - 1
      BY <1>0, <1>4
    <3> QED
      BY <2>1, <3>1
  <2>4. {i \in DOMAIN uid : number[i] = g} = x + 1 .. x + n
    <3>1. ASSUME NEW i \in 1 .. p * n, uid[i] = h PROVE i \in x + 1 .. x + n
      <4>1. PICK j \in 1 .. n : i = uid[i] * n + j
        BY <1>1
      <4>2. i = x + j
        BY <2>2, <3>1, <4>1
      <4> QED
        BY <4>2
    <3>2. ASSUME NEW i \in x + 1 .. x + n PROVE i \in 1 .. p * n /\ uid[i] = h
      <4>1. PICK j \in 1 .. n : j = i - x /\ i = x + j
        <5>1. i - x \in 1 .. n /\ i = x + (i - x)
          OBVIOUS
        <5> QED
          BY <5>1
      <4> QED
        BY <1>2, <2>2, <4>1
    <3> QED
      BY <1>0, <2>3, <3>1, <3>2
  <2>5. size(g) = n
    <3>1. Cardinality(x + 1 .. x + n) = n
      <4>1. x + 1 \in Int /\ x + n \in Int /\ ~ (x + 1 > x + n) /\ (x + n) - (x + 1) + 1 = n
        OBVIOUS
      <4>2. Cardinality(x + 1 .. x + n) = IF x + 1 > x + n THEN 0 ELSE (x + n) - (x + 1) + 1
        BY <4>1, FS_Interval
      <4> QED
        BY <4>1, <4>2
    <3> QED
      BY <2>4, <3>1 DEF size
  <2>6. x + 1 \in begin /\ number[x + 1] = g
    <3>1. 1 \in 1 .. n
      OBVIOUS
    <3>2. x + 1 \in 1 .. p * n /\ uid[x + 1] = h
      BY <1>2, <2>2, <3>1
    <3>3. x + 1 \in begin
      BY <1>3, <2>2, <3>2
    <3> QED
      BY <2>3, <3>2, <3>3
  <2>7. \A i \in begin : number[i] = g => i = x + 1
    <3> SUFFICES ASSUME NEW i \in begin, number[i] = g PROVE i = x + 1
      OBVIOUS
    <3>1. i \in 1 .. p * n /\ uid[i] = h
      BY <1>c, <2>3
    <3> QED
      BY <1>3, <2>2, <3>1
  <2>8. first(g) = x + 1
    BY <2>6, <2>7 DEF first
  <2> QED
    BY <2>1, <2>2, <2>5, <2>8
<1>7. \A g \in 1 .. p : [j \in 1 .. size(g) |-> first(g) + j - 1] = [j \in 1 .. n |-> (g - 1) * n + j]
  <2> SUFFICES ASSUME NEW g \in 1 .. p
               PROVE  [j \in 1 .. size(g) |-> first(g) + j - 1] = [j \in 1 .. n |-> (g - 1) * n + j]
    OBVIOUS
  <2>1. PICK x \in Int : x = (g - 1) * n
    OBVIOUS
  <2>2. size(g) = n /\ first(g) = x + 1
    BY <1>6, <2>1
  <2>3. \A j \in 1 .. n : (x + 1) + j - 1 = x + j
    BY <2>1
  <2> QED
    BY <2>1, <2>2, <2>3
<1> QED
  BY <1>u, <1>5, <1>7 DEF GroupRows

-----------------------------------------------------------------------------
(* Splits of splits                                                          *)

\* The parts of a split list disjoint sets.
LEMMA SplitsShare ==
  ASSUME NEW S, NEW k \in Nat, NEW parts, Splits(parts, k, S)
  PROVE  \E A : Shares(parts, A, k, S)
<1> DEFINE A == [i \in 1 .. k |-> {x \in S : \E j \in 1 .. Len(parts[i]) : parts[i][j] = x}]
<1>1. \A i \in 1 .. k : A[i] = {x \in S : \E j \in 1 .. Len(parts[i]) : parts[i][j] = x}
  OBVIOUS
<1> HIDE DEF A
<1>2. ASSUME NEW i \in 1 .. k PROVE Lists(parts[i], A[i]) /\ A[i] \subseteq S
  <2>1. parts[i] \in Seq(S) /\ Len(parts[i]) \in Nat /\ \A j \in 1 .. Len(parts[i]) : parts[i][j] \in A[i]
    BY <1>1, SplitType
  <2>2. parts[i] = [j \in 1 .. Len(parts[i]) |-> parts[i][j]]
    BY <2>1, SeqIsFunction
  <2>3. parts[i] \in [1 .. Len(parts[i]) -> A[i]]
    BY <2>1, <2>2
  <2>4. parts[i] \in Seq(A[i])
    BY <2>1, <2>3, FunctionIsSeq
  <2>5. \A j, l \in 1 .. Len(parts[i]) : parts[i][j] = parts[i][l] => j = l
    BY SplitUnique
  <2>6. \A x \in A[i] : \E j \in 1 .. Len(parts[i]) : parts[i][j] = x
    BY <1>1
  <2>7. A[i] \subseteq S
    BY <1>1
  <2> QED
    BY <2>4, <2>5, <2>6, <2>7 DEF Lists
<1>3. ASSUME NEW i \in 1 .. k, NEW h \in 1 .. k, NEW x \in A[i], x \in A[h] PROVE i = h
  <2>1. PICK j \in 1 .. Len(parts[i]) : parts[i][j] = x
    BY <1>1
  <2>2. PICK l \in 1 .. Len(parts[h]) : parts[h][l] = x
    BY <1>1, <1>3
  <2>3. parts[i][j] = parts[h][l]
    BY <2>1, <2>2
  <2> QED
    BY <2>3, SplitUnique
<1>4. ASSUME NEW x \in S PROVE \E i \in 1 .. k : x \in A[i]
  <2>1. PICK i \in 1 .. k : \E j \in 1 .. Len(parts[i]) : parts[i][j] = x
    BY DEF Splits
  <2> QED
    BY <1>1, <2>1
<1>5. parts = [i \in 1 .. k |-> parts[i]]
  <2>1. parts \in Seq(Seq(S)) /\ Len(parts) = k
    BY DEF Splits
  <2> QED
    BY <2>1, SeqIsFunction
<1>6. Shares(parts, A, k, S)
  BY <1>2, <1>3, <1>4, <1>5 DEF Shares
<1> QED
  BY <1>6

\* Every g of G has its own set A[g], which groups[g] lists.
Owned(groups, A, G, S) ==
  /\ \A g \in G : Lists(groups[g], A[g]) /\ A[g] \subseteq S
  /\ \A g, h \in G : \A x \in A[g] : x \in A[h] => g = h

Through(groups, c) == [j \in DOMAIN c |-> groups[c[j]]]
OwnedBy(A, B, S) == {x \in S : \E g \in B : x \in A[g]}

\* Some of them, joined, list what belongs to those.
LEMMA OwnedJoin ==
  ASSUME NEW S, NEW G, NEW A, NEW groups, Owned(groups, A, G, S),
         NEW B \in SUBSET G, NEW c, Lists(c, B)
  PROVE  Lists(FlattenSeq(Through(groups, c)), OwnedBy(A, B, S))
<1>t. PICK t, C : /\ t = Through(groups, c) /\ t = [j \in DOMAIN c |-> groups[c[j]]]
                  /\ C = OwnedBy(A, B, S) /\ C = {x \in S : \E g \in B : x \in A[g]}
  BY DEF Through, OwnedBy
<1>1. /\ DOMAIN c = 1 .. Len(c) /\ Len(c) \in Nat
      /\ \A j \in 1 .. Len(c) : c[j] \in B /\ c[j] \in G
      /\ \A j, l \in 1 .. Len(c) : c[j] = c[l] => j = l
      /\ \A g \in B : \E j \in 1 .. Len(c) : c[j] = g
  <2>1. DOMAIN c = 1 .. Len(c) /\ Len(c) \in Nat /\ \A j \in 1 .. Len(c) : c[j] \in B
    BY ListLength
  <2>2. /\ \A j, l \in 1 .. Len(c) : c[j] = c[l] => j = l
        /\ \A g \in B : \E j \in 1 .. Len(c) : c[j] = g
    BY DEF Lists
  <2> QED
    BY <2>1, <2>2
<1> DEFINE D == [j \in 1 .. Len(c) |-> A[c[j]]]
<1>2. t = [j \in 1 .. Len(c) |-> t[j]] /\ \A j \in 1 .. Len(c) : t[j] = groups[c[j]] /\ D[j] = A[c[j]]
  BY <1>1, <1>t
<1> HIDE DEF D
<1>3. \A j \in 1 .. Len(c) : Lists(t[j], D[j]) /\ D[j] \subseteq C
  <2> SUFFICES ASSUME NEW j \in 1 .. Len(c) PROVE Lists(t[j], D[j]) /\ D[j] \subseteq C
    OBVIOUS
  <2>1. PICK g \in B : g = c[j] /\ t[j] = groups[g] /\ D[j] = A[g]
    BY <1>1, <1>2
  <2>2. Lists(groups[g], A[g]) /\ A[g] \subseteq S
    BY DEF Owned
  <2>3. A[g] \subseteq C
    BY <1>t, <2>2
  <2> QED
    BY <2>1, <2>2, <2>3
<1>4. \A j, l \in 1 .. Len(c) : \A x \in D[j] : x \in D[l] => j = l
  <2> SUFFICES ASSUME NEW j \in 1 .. Len(c), NEW l \in 1 .. Len(c), NEW x \in D[j], x \in D[l] PROVE j = l
    OBVIOUS
  <2>1. PICK g \in G : g = c[j] /\ D[j] = A[g]
    BY <1>1, <1>2
  <2>2. PICK h \in G : h = c[l] /\ D[l] = A[h]
    BY <1>1, <1>2
  <2>3. g = h
    BY <2>1, <2>2 DEF Owned
  <2>4. c[j] = c[l]
    BY <2>1, <2>2, <2>3
  <2> QED
    BY <1>1, <2>4
<1>5. \A x \in C : \E j \in 1 .. Len(c) : x \in D[j]
  BY <1>1, <1>2, <1>t
<1>6. Shares(t, D, Len(c), C)
  BY <1>2, <1>3, <1>4, <1>5 DEF Shares
<1>7. Splits(t, Len(c), C)
  BY <1>1, <1>6, SharesSplit
<1> QED
  BY <1>1, <1>7, <1>t, FlattenLists

ChosenJoined(groups, parts, k) ==
  [q \in 1 .. k |-> FlattenSeq([j \in DOMAIN parts[q] |-> groups[parts[q][j]]])]

\* A split of the numbers of groups splits what is in the groups.
LEMMA ChosenSplit ==
  ASSUME NEW S, NEW p \in Nat, NEW groups, Splits(groups, p, S),
         NEW G, G = 1 .. p, NEW k \in Nat, NEW parts, Splits(parts, k, G)
  PROVE  Splits(ChosenJoined(groups, parts, k), k, S)
<1>0. PICK new : new = ChosenJoined(groups, parts, k)
  OBVIOUS
<1>n. new = [q \in 1 .. k |-> FlattenSeq([j \in DOMAIN parts[q] |-> groups[parts[q][j]]])]
  BY <1>0 DEF ChosenJoined
<1>1. PICK A : Shares(groups, A, p, S)
  BY SplitsShare
<1>2. PICK B : Shares(parts, B, k, G)
  BY SplitsShare
<1>4. Owned(groups, A, G, S) /\ \A x \in S : \E g \in G : x \in A[g]
  BY <1>1 DEF Shares, Owned
<1>5. /\ \A q \in 1 .. k : Lists(parts[q], B[q]) /\ B[q] \in SUBSET G
      /\ \A q, r \in 1 .. k : \A g \in B[q] : g \in B[r] => q = r
      /\ \A g \in G : \E q \in 1 .. k : g \in B[q]
  BY <1>2 DEF Shares
<1> DEFINE C == [q \in 1 .. k |-> {x \in S : \E g \in B[q] : x \in A[g]}]
<1>6. \A q \in 1 .. k : C[q] = {x \in S : \E g \in B[q] : x \in A[g]}
  OBVIOUS
<1> HIDE DEF C
<1>7. ASSUME NEW q \in 1 .. k PROVE Lists(new[q], C[q]) /\ C[q] \subseteq S
  <2>1. new[q] = FlattenSeq([j \in DOMAIN parts[q] |-> groups[parts[q][j]]])
    BY <1>n
  <2>2. Lists(FlattenSeq([j \in DOMAIN parts[q] |-> groups[parts[q][j]]]), C[q])
    <3>1. PICK c, b : c = parts[q] /\ b = B[q]
      OBVIOUS
    <3>2. b \in SUBSET G /\ Lists(c, b)
      BY <1>5, <3>1
    <3>3. Owned(groups, A, G, S)
      BY <1>4
    <3>4. Lists(FlattenSeq(Through(groups, c)), OwnedBy(A, b, S))
      BY <3>2, <3>3, OwnedJoin
    <3>5. C[q] = OwnedBy(A, b, S)
      BY <1>6, <3>1 DEF OwnedBy
    <3> QED
      BY <3>1, <3>4, <3>5 DEF Through
  <2>3. C[q] \subseteq S
    BY <1>6
  <2> QED
    BY <2>1, <2>2, <2>3
<1>8. \A q, r \in 1 .. k : \A x \in C[q] : x \in C[r] => q = r
  <2> SUFFICES ASSUME NEW q \in 1 .. k, NEW r \in 1 .. k, NEW x \in C[q], x \in C[r] PROVE q = r
    OBVIOUS
  <2>1. PICK g \in B[q] : x \in A[g]
    BY <1>6
  <2>2. PICK h \in B[r] : x \in A[h]
    BY <1>6
  <2>3. g = h
    BY <1>4, <1>5, <2>1, <2>2 DEF Owned
  <2> QED
    BY <1>5, <2>3
<1>9. \A x \in S : \E q \in 1 .. k : x \in C[q]
  <2> SUFFICES ASSUME NEW x \in S PROVE \E q \in 1 .. k : x \in C[q]
    OBVIOUS
  <2>1. PICK g \in G : x \in A[g]
    BY <1>4
  <2>2. PICK q \in 1 .. k : g \in B[q]
    BY <1>5
  <2> QED
    BY <1>6, <2>1, <2>2
<1>10. new = [q \in 1 .. k |-> new[q]]
  BY <1>n
<1>11. Shares(new, C, k, S)
  BY <1>7, <1>8, <1>9, <1>10 DEF Shares
<1> QED
  BY <1>0, <1>11, SharesSplit

\* A list of a set, its elements renamed
LEMMA MovedList ==
  ASSUME NEW B, NEW s, Lists(s, B), NEW f, \A x, y \in B : f[x] = f[y] => x = y,
         NEW C, C = {f[x] : x \in B}
  PROVE  Lists([j \in DOMAIN s |-> f[s[j]]], C)
<1> DEFINE t == [j \in DOMAIN s |-> f[s[j]]]
<1>1. DOMAIN s = 1 .. Len(s) /\ Len(s) \in Nat /\ \A j \in 1 .. Len(s) : s[j] \in B
  BY ListLength
<1>2. /\ \A j, l \in 1 .. Len(s) : s[j] = s[l] => j = l
      /\ \A x \in B : \E j \in 1 .. Len(s) : s[j] = x
  BY DEF Lists
<1>3. t \in [1 .. Len(s) -> C] /\ \A j \in 1 .. Len(s) : t[j] = f[s[j]]
  BY <1>1
<1> HIDE DEF t
<1>4. t \in Seq(C) /\ Len(t) = Len(s)
  BY <1>1, <1>3, FunctionIsSeq
<1>5. \A j, l \in 1 .. Len(t) : t[j] = t[l] => j = l
  BY <1>1, <1>2, <1>3, <1>4
<1>6. \A x \in C : \E j \in 1 .. Len(t) : t[j] = x
  BY <1>2, <1>3, <1>4
<1>7. Lists(t, C)
  BY <1>4, <1>5, <1>6 DEF Lists
<1> QED
  BY <1>7 DEF t

\* at places the elements of U once for every m, in different places of S.
Placed(at, I, U, S) ==
  /\ \A m \in I : \A x \in U : at[m][x] \in S
  /\ \A m, h \in I : \A x, y \in U : at[m][x] = at[h][y] => m = h /\ x = y
  /\ \A z \in S : \E m \in I : \E x \in U : at[m][x] = z

MinisJoined(at, minis, k, M) ==
  [r \in 1 .. k |-> FlattenSeq([m \in 1 .. M |-> [j \in DOMAIN minis[m][r] |-> at[m][minis[m][r][j]]]])]

\* The splits of every mini-batch, joined part by part
LEMMA MinisSplit ==
  ASSUME NEW S, NEW U, NEW M \in Nat, NEW k \in Nat, NEW at, NEW I, I = 1 .. M, Placed(at, I, U, S),
         NEW minis, \A m \in I : Splits(minis[m], k, U)
  PROVE  Splits(MinisJoined(at, minis, k, M), k, S)
<1>0. PICK new : new = MinisJoined(at, minis, k, M)
  OBVIOUS
<1>n. new = [r \in 1 .. k |-> FlattenSeq([m \in 1 .. M |-> [j \in DOMAIN minis[m][r] |-> at[m][minis[m][r][j]]]])]
  BY <1>0 DEF MinisJoined
<1> DEFINE B == [m \in 1 .. M |-> CHOOSE A : Shares(minis[m], A, k, U)]
<1>1. \A m \in 1 .. M : Shares(minis[m], B[m], k, U)
  <2> SUFFICES ASSUME NEW m \in 1 .. M PROVE Shares(minis[m], B[m], k, U)
    OBVIOUS
  <2>1. \E A : Shares(minis[m], A, k, U)
    BY SplitsShare
  <2> QED
    BY <2>1
<1> HIDE DEF B
<1>i. I = 1 .. M
  OBVIOUS
<1>p. /\ \A m \in I : \A x \in U : at[m][x] \in S
      /\ \A m, h \in I : \A x, y \in U : at[m][x] = at[h][y] => m = h /\ x = y
      /\ \A z \in S : \E m \in I : \E x \in U : at[m][x] = z
  BY <1>i DEF Placed
<1>2. /\ \A m \in I : \A r \in 1 .. k : Lists(minis[m][r], B[m][r]) /\ B[m][r] \subseteq U
      /\ \A m \in I : \A r, q \in 1 .. k : \A x \in B[m][r] : x \in B[m][q] => r = q
      /\ \A m \in I : \A x \in U : \E r \in 1 .. k : x \in B[m][r]
  BY <1>1, <1>i DEF Shares
<1> DEFINE D(r) == [m \in I |-> {at[m][x] : x \in B[m][r]}]
           C == [r \in 1 .. k |-> {z \in S : \E m \in I : \E x \in B[m][r] : at[m][x] = z}]
<1>3. \A r \in 1 .. k : C[r] = {z \in S : \E m \in I : \E x \in B[m][r] : at[m][x] = z}
  OBVIOUS
<1> HIDE DEF C
<1>4. ASSUME NEW r \in 1 .. k PROVE Lists(new[r], C[r]) /\ C[r] \subseteq S
  <2> DEFINE t == [m \in I |-> [j \in DOMAIN minis[m][r] |-> at[m][minis[m][r][j]]]]
             E == D(r)
  <2>1. new[r] = FlattenSeq(t)
    BY <1>i, <1>n
  <2>2. \A m \in I : E[m] = {at[m][x] : x \in B[m][r]} /\ t[m] = [j \in DOMAIN minis[m][r] |-> at[m][minis[m][r][j]]]
    OBVIOUS
  <2>3. t = [m \in 1 .. M |-> t[m]]
    BY <1>i
  <2>a. \A m \in I : \A z : z \in E[m] <=> \E x \in B[m][r] : z = at[m][x]
    OBVIOUS
  <2> HIDE DEF t, E, D
  <2>4. \A m \in I : Lists(t[m], E[m]) /\ E[m] \subseteq C[r]
    <3> SUFFICES ASSUME NEW m \in I PROVE Lists(t[m], E[m]) /\ E[m] \subseteq C[r]
      OBVIOUS
    <3>1. Lists(minis[m][r], B[m][r]) /\ B[m][r] \subseteq U
      BY <1>2
    <3>2. \A x, y \in B[m][r] : at[m][x] = at[m][y] => x = y
      BY <1>p, <3>1
    <3>3. Lists(t[m], E[m])
      <4>1. PICK b, s, f : b = B[m][r] /\ s = minis[m][r] /\ f = at[m]
        OBVIOUS
      <4>2. Lists(s, b) /\ \A x, y \in b : f[x] = f[y] => x = y
        BY <3>1, <3>2, <4>1
      <4>3. t[m] = [j \in DOMAIN s |-> f[s[j]]] /\ E[m] = {f[x] : x \in b}
        BY <2>2, <4>1
      <4> QED
        BY <4>2, <4>3, MovedList
    <3>4. E[m] \subseteq C[r]
      BY <1>3, <1>p, <2>a, <3>1
    <3> QED
      BY <3>3, <3>4
  <2>5. \A m, h \in I : \A z \in E[m] : z \in E[h] => m = h
    <3> SUFFICES ASSUME NEW m \in I, NEW h \in I, NEW z \in E[m], z \in E[h] PROVE m = h
      OBVIOUS
    <3>1. PICK x \in B[m][r] : at[m][x] = z
      BY <2>a
    <3>2. PICK y \in B[h][r] : at[h][y] = z
      BY <2>a
    <3>3. x \in U /\ y \in U
      BY <1>2
    <3> QED
      BY <1>p, <3>1, <3>2, <3>3
  <2>6. \A z \in C[r] : \E m \in I : z \in E[m]
    BY <1>3, <2>a
  <2>7. Shares(t, E, M, C[r])
    BY <1>i, <2>3, <2>4, <2>5, <2>6 DEF Shares
  <2>8. Splits(t, M, C[r])
    BY <2>7, SharesSplit
  <2>9. Lists(FlattenSeq(t), C[r])
    BY <2>8, FlattenLists
  <2>10. C[r] \subseteq S
    BY <1>3
  <2> QED
    BY <2>1, <2>9, <2>10
<1>5. \A r, q \in 1 .. k : \A z \in C[r] : z \in C[q] => r = q
  <2> SUFFICES ASSUME NEW r \in 1 .. k, NEW q \in 1 .. k, NEW z \in C[r], z \in C[q] PROVE r = q
    OBVIOUS
  <2>1. PICK m \in I : \E x \in B[m][r] : at[m][x] = z
    BY <1>3
  <2>2. PICK x \in B[m][r] : at[m][x] = z
    BY <2>1
  <2>3. PICK h \in I : \E y \in B[h][q] : at[h][y] = z
    BY <1>3
  <2>4. PICK y \in B[h][q] : at[h][y] = z
    BY <2>3
  <2>5. x \in U /\ y \in U
    BY <1>2
  <2>6. m = h /\ x = y
    BY <1>p, <2>2, <2>4, <2>5
  <2> QED
    BY <1>2, <2>6
<1>6. \A z \in S : \E r \in 1 .. k : z \in C[r]
  <2> SUFFICES ASSUME NEW z \in S PROVE \E r \in 1 .. k : z \in C[r]
    OBVIOUS
  <2>1. PICK m \in I : \E x \in U : at[m][x] = z
    BY <1>p
  <2>2. PICK x \in U : at[m][x] = z
    BY <2>1
  <2>3. PICK r \in 1 .. k : x \in B[m][r]
    BY <1>2
  <2> QED
    BY <1>3, <2>2, <2>3
<1>7. new = [r \in 1 .. k |-> new[r]]
  BY <1>n
<1>8. Shares(new, C, k, S)
  BY <1>4, <1>5, <1>6, <1>7 DEF Shares
<1> QED
  BY <1>0, <1>8, SharesSplit

-----------------------------------------------------------------------------
(* Chunks joined again                                                       *)

\* Quotient and remainder are the only ones.
LEMMA Remainder ==
  ASSUME NEW k \in Nat \ {0}, NEW q \in Int, NEW r \in 0 .. k - 1, NEW m \in Int, m = q * k + r
  PROVE  m \div k = q /\ m % k = r
<1>1. PICK d \in Int, e \in 0 .. k - 1 : d = m \div k /\ e = m % k /\ m = k * d + e
  <2>1. \E d \in Int : \E e \in 0 .. k - 1 : d = m \div k /\ e = m % k /\ m = k * d + e
    BY Divided
  <2> QED
    BY <2>1
<1>2. PICK x \in Int, y \in Int : x = q * k /\ y = k * d /\ y = d * k
  BY <1>1
<1>3. d * k + (e + 1) = q * k + (r + 1)
  BY <1>1, <1>2
<1>4. e + 1 \in 1 .. k /\ r + 1 \in 1 .. k
  BY <1>1
<1>5. d = q /\ e + 1 = r + 1
  BY <1>3, <1>4, OnePlace
<1> QED
  BY <1>1, <1>4, <1>5

\* A number below k is its own remainder.
LEMMA SmallRemainder ==
  ASSUME NEW k \in Nat \ {0}, NEW m \in 0 .. k - 1
  PROVE  m % k = m
<1>1. m \in Int /\ 0 \in Int /\ m = 0 * k + m
  OBVIOUS
<1> QED
  BY <1>1, Remainder

\* A multiple of k leaves none.
LEMMA WholeRemainder ==
  ASSUME NEW k \in Nat \ {0}, NEW q \in Int, NEW m \in Int, m = k * q
  PROVE  m % k = 0
<1>1. m = q * k + 0 /\ 0 \in 0 .. k - 1
  OBVIOUS
<1> QED
  BY <1>1, Remainder

Chunkable(data, k, S) ==
  data \in Seq(S) /\ k \in Nat \ {0} /\ Len(data) % k = 0 /\ Len(data) > 0

IsChunk(p, data, c, size, S) ==
  /\ p \in Seq(S) /\ Len(p) = size
  /\ \A j \in 1 .. size : p[j] = data[(c - 1) * size + j]

\* The chunks of a batch have one size.
LEMMA ChunkSize ==
  ASSUME NEW S, NEW data, NEW k, Chunkable(data, k, S)
  PROVE  Len(data) \div k \in Nat \ {0} /\ Len(data) = k * (Len(data) \div k)
<1>1. PICK n \in Nat : n = Len(data) /\ n > 0 /\ n % k = 0 /\ k \in Nat \ {0}
  BY DEF Chunkable
<1>2. n \div k \in Nat /\ n = (n \div k) * k
  BY <1>1, Blocks
<1>3. n \div k # 0 /\ n = k * (n \div k)
  BY <1>1, <1>2
<1> QED
  BY <1>1, <1>2, <1>3

\* DataProto.chunk
LEMMA ChunksAre ==
  ASSUME NEW S, NEW data, NEW k, Chunkable(data, k, S), NEW c, c \in 1 .. k
  PROVE  IsChunk(Chunk(data, k, c - 1), data, c, Len(data) \div k, S)
<1> DEFINE size == Len(data) \div k
<1>s. size = Len(data) \div k
  OBVIOUS
<1> HIDE DEF size
<1>0. data \in Seq(S) /\ k \in Nat \ {0} /\ Len(data) % k = 0 /\ Len(data) > 0
  BY DEF Chunkable
<1> USE <1>0
<1>1. PICK n \in Nat : n = Len(data) /\ n > 0 /\ n % k = 0
  OBVIOUS
<1>2. size \in Nat /\ n = size * k
  BY <1>1, <1>s, Blocks
<1>4. PICK l \in Nat, h \in Nat : l = (c - 1) * size /\ h = c * size /\ h = l + size /\ h <= n
  <2>1. PICK d \in Nat : d = c - 1 /\ c = d + 1
    <3>1. c - 1 \in Nat /\ c = (c - 1) + 1
      OBVIOUS
    <3> QED
      BY <3>1
  <2>2. d * size \in Nat /\ (d + 1) * size = d * size + size
    BY <1>2
  <2>3. PICK e \in Nat : k = c + e
    <3>1. k - c \in Nat /\ k = c + (k - c)
      OBVIOUS
    <3> QED
      BY <3>1
  <2>4. n = c * size + e * size /\ e * size \in Nat /\ c * size \in Nat
    BY <1>2, <2>3
  <2>5. c * size <= n
    BY <2>4
  <2>6. PICK x \in Nat, y \in Nat : x = d * size /\ y = (d + 1) * size /\ y = x + size
    <3>1. d * size \in Nat /\ (d + 1) * size \in Nat /\ (d + 1) * size = d * size + size
      BY <1>2, <2>2
    <3> QED
      BY <3>1
  <2>7. x = (c - 1) * size /\ y = c * size
    BY <2>1, <2>6
  <2>8. y <= n
    BY <2>5, <2>7
  <2> QED
    BY <2>6, <2>7, <2>8
<1>n. size \in Nat /\ h = l + size /\ h <= n /\ n = Len(data)
  BY <1>1, <1>2, <1>4
<1>5. PICK s : s = Chunk(data, k, c - 1)
  OBVIOUS
<1>6. s = SubSeq(data, l + 1, h)
  <2>1. s = SubSeq(data, (c - 1) * size + 1, ((c - 1) + 1) * size)
    BY <1>5, <1>s, Zenon DEF Chunk
  <2>2. (c - 1) + 1 = c
    OBVIOUS
  <2> QED
    BY <1>4, <2>1, <2>2
<1>7. l <= h /\ h <= Len(data)
  BY <1>n
<1>8. s \in Seq(S) /\ Len(s) = h - l /\ \A j \in 1 .. h - l : s[j] = data[l + j]
  BY <1>6, <1>7, SubSeqIs
<1>9. h - l = size
  BY <1>n
<1>10. s \in Seq(S) /\ Len(s) = size /\ \A j \in 1 .. size : s[j] = data[(c - 1) * size + j]
  BY <1>4, <1>8, <1>9
<1> QED
  BY <1>5, <1>10, <1>s DEF IsChunk

\* Concatenating the equal chunks gives the data back.
LEMMA ChunksJoined ==
  ASSUME NEW S, NEW data, NEW k, Chunkable(data, k, S)
  PROVE  FlattenSeq([c \in 1 .. k |-> Chunk(data, k, c - 1)]) = data
<1>0. data \in Seq(S) /\ k \in Nat \ {0} /\ Len(data) % k = 0 /\ Len(data) > 0
  BY DEF Chunkable
<1>p. PICK parts : parts = [c \in 1 .. k |-> Chunk(data, k, c - 1)]
  OBVIOUS
<1> USE <1>0, <1>p
<1>1. PICK size : size = Len(data) \div k
  OBVIOUS
<1>3. size \in Nat \ {0} /\ Len(data) = k * size
  BY <1>1, ChunkSize
<1>4. \A c \in 1 .. k : IsChunk(parts[c], data, c, size, S)
  BY <1>1, ChunksAre
<1>4a. \A c \in 1 .. k : /\ parts[c] \in Seq(S) /\ Len(parts[c]) = size
                         /\ \A j \in 1 .. size : parts[c][j] = data[(c - 1) * size + j]
  BY <1>4 DEF IsChunk
<1>5. parts \in Seq(Seq(S)) /\ Len(parts) = k
  <2>1. parts \in [1 .. k -> Seq(S)]
    BY <1>4a
  <2> QED
    BY <2>1, FunctionIsSeq
<1>6. PICK f : f = FlattenSeq(parts)
  OBVIOUS
<1>n. size \in Nat /\ size # 0 /\ k \in Nat
  BY <1>3
<1>l. \A i \in 1 .. k : Len(parts[i]) = size
  BY <1>4a
<1>7. /\ f \in Seq(S) /\ Len(f) = k * size
      /\ \A i \in 1 .. k : \A j \in 1 .. size : f[(i - 1) * size + j] = parts[i][j]
  <2>1. k \in Nat \ {0} /\ size \in Nat /\ parts \in Seq(Seq(S)) /\ Len(parts) = k
    BY <1>5, <1>n
  <2>e. Even(parts, k, size, S)
    BY <1>l, <2>1 DEF Even
  <2> HIDE <1>p
  <2>2. /\ FlattenSeq(parts) \in Seq(S) /\ Len(FlattenSeq(parts)) = k * size
        /\ \A i \in 1 .. k : \A j \in 1 .. size : FlattenSeq(parts)[(i - 1) * size + j] = parts[i][j]
    BY <2>e, FlattenEqual
  <2> QED
    BY <1>6, <2>2, Zenon
<1>8. \A x \in 1 .. k * size : f[x] = data[x]
  <2> SUFFICES ASSUME NEW x \in 1 .. k * size PROVE f[x] = data[x]
    OBVIOUS
  <2>1. /\ (x - 1) \div size \in 0 .. k - 1 /\ (x - 1) % size \in 0 .. size - 1
        /\ x = ((x - 1) \div size) * size + ((x - 1) % size) + 1
    <3>1. k \in Nat /\ size \in Nat \ {0}
      BY <1>n
    <3>2. \A i \in 1 .. k * size : /\ (i - 1) \div size \in 0 .. k - 1 /\ (i - 1) % size \in 0 .. size - 1
                                  /\ i = ((i - 1) \div size) * size + ((i - 1) % size) + 1
      BY <3>1, PlaceOf, Zenon
    <3> QED
      BY <3>2, Zenon
  <2>2. PICK d \in 0 .. k - 1, e \in 0 .. size - 1 : d = (x - 1) \div size /\ e = (x - 1) % size
    BY <2>1
  <2>3. x = d * size + e + 1
    BY <2>1, <2>2
  <2>4. PICK i \in 1 .. k, j \in 1 .. size : i = d + 1 /\ d = i - 1 /\ j = e + 1
    <3>1. d + 1 \in 1 .. k /\ e + 1 \in 1 .. size /\ d = (d + 1) - 1
      BY <1>n
    <3> QED
      BY <3>1
  <2>5. x = (i - 1) * size + j
    <3>1. PICK y \in Int : y = d * size
      BY <1>n
    <3>2. x = y + j
      BY <2>3, <2>4, <3>1
    <3> QED
      BY <2>4, <3>1, <3>2
  <2>6. f[(i - 1) * size + j] = parts[i][j] /\ parts[i][j] = data[(i - 1) * size + j]
    BY <1>4a, <1>7
  <2> QED
    BY <2>5, <2>6
<1>9. f = [x \in 1 .. Len(f) |-> f[x]] /\ data = [x \in 1 .. Len(data) |-> data[x]]
  BY <1>7, SeqIsFunction
<1> QED
  BY <1>3, <1>6, <1>7, <1>8, <1>9

-----------------------------------------------------------------------------
(* Back in order                                                             *)

\* restore_dynamic_batch undoes the concatenation of the micro-batches.
LEMMA Restored ==
  ASSUME NEW S, NEW data \in Seq(S), NEW idx_list, NEW num \in Nat, Splits(idx_list, num, 1 .. Len(data)),
         NEW idx, idx = FlattenSeq(idx_list), NEW out, out = [j \in DOMAIN idx |-> data[idx[j]]]
  PROVE  restore_dynamic_batch(out, idx_list) = data
<1>1. PICK n \in Nat : n = Len(data)
  OBVIOUS
<1>2. Lists(idx, 1 .. n)
  BY <1>1, FlattenLists
<1>3. Len(idx) = n /\ DOMAIN idx = 1 .. n
  BY <1>2, LengthOfAll, ListLength
<1>4. \A j \in 1 .. n : \E i \in 1 .. n : idx[i] = j
  BY <1>2, <1>3 DEF Lists
<1>5. PICK rev : rev = get_reverse_idx(idx)
  OBVIOUS
<1>6. \A j \in 1 .. n : rev[j] \in 1 .. n /\ idx[rev[j]] = j
  BY <1>3, <1>4, <1>5 DEF get_reverse_idx
<1>7. restore_dynamic_batch(out, idx_list) = [j \in DOMAIN out |-> out[rev[j]]]
  BY <1>5 DEF restore_dynamic_batch
<1>8. DOMAIN out = 1 .. n /\ \A j \in 1 .. n : out[rev[j]] = data[j]
  BY <1>3, <1>6
<1>9. data = [j \in 1 .. n |-> data[j]]
  BY <1>1, SeqIsFunction
<1> QED
  BY <1>7, <1>8, <1>9

\* What a worker returns
LEMMA Permuted ==
  ASSUME NEW data, NEW idx, Lists(idx, 1 .. Len(data)), Len(data) \in Nat
  PROVE  Rearranges([j \in DOMAIN idx |-> data[idx[j]]], data)
<1>1. Len(idx) = Len(data) /\ DOMAIN idx = 1 .. Len(data)
  BY LengthOfAll, ListLength
<1> QED
  BY <1>1 DEF Rearranges

\* The padded chunks, joined and unpadded, are the data.
LEMMA UnpaddedAgain ==
  ASSUME NEW n \in Nat \ {0}, NEW k \in Nat \ {0}, NEW data, data = [i \in 1 .. n |-> i],
         NEW chunks, chunks = [c \in 1 .. k |-> Chunk(Padded(data, k), k, c - 1)]
  PROVE  Unpad(FlattenSeq(chunks), PadSize(n, k)) = data
<1>1. data \in Seq(Nat) /\ Len(data) = n
  <2>1. data \in [1 .. n -> Nat]
    OBVIOUS
  <2> QED
    BY <2>1, FunctionIsSeq
<1>2. PICK pad \in Nat : pad = PadSize(n, k) /\ (n + pad) % k = 0
  <2>1. PICK q \in Int, r \in 0 .. k - 1 : q = n \div k /\ r = n % k /\ n = k * q + r
    <3>1. n \in Int /\ k \in Nat \ {0}
      OBVIOUS
    <3>2. \E q \in Int : \E r \in 0 .. k - 1 : q = n \div k /\ r = n % k /\ n = k * q + r
      BY <3>1, Divided
    <3> QED
      BY <3>2
  <2>2. PadSize(n, k) = (k - r) % k
    BY <2>1 DEF PadSize
  <2>3. CASE r = 0
    <3>1. k = k * 1 /\ k \in Int
      OBVIOUS
    <3>2. k % k = 0
      BY <3>1, WholeRemainder
    <3>3. PadSize(n, k) = 0
      BY <2>2, <2>3, <3>2
    <3>4. (n + 0) % k = 0
      BY <2>1, <2>3
    <3> QED
      BY <3>3, <3>4
  <2>4. CASE r # 0
    <3>1. k - r \in 0 .. k - 1
      BY <2>4
    <3>2. (k - r) % k = k - r
      BY <3>1, SmallRemainder
    <3>3. PICK m \in Int : m = n + (k - r)
      OBVIOUS
    <3>4. m = k * (q + 1)
      <4>1. PICK x \in Int : x = k * q /\ k * (q + 1) = x + k
        OBVIOUS
      <4>2. n = x + r
        BY <2>1, <4>1
      <4> QED
        BY <3>3, <4>1, <4>2
    <3>5. q + 1 \in Int
      OBVIOUS
    <3>6. m % k = 0
      BY <3>4, <3>5, WholeRemainder
    <3>7. k - r \in Nat /\ PadSize(n, k) = k - r
      BY <2>2, <3>1, <3>2
    <3> QED
      BY <3>3, <3>6, <3>7
  <2> QED
    BY <2>3, <2>4
<1>3. PICK all : all = Padded(data, k)
  OBVIOUS
<1>4. all = [j \in 1 .. n + pad |-> data[((j - 1) % n) + 1]]
  BY <1>1, <1>2, <1>3 DEF Padded
<1>5. all \in Seq(Nat) /\ Len(all) = n + pad
  <2>1. ASSUME NEW j \in 1 .. n + pad PROVE data[((j - 1) % n) + 1] \in Nat
    <3>1. PICK m \in Nat : m = j - 1
      <4>1. j - 1 \in Nat
        OBVIOUS
      <4> QED
        BY <4>1
    <3>2. PICK d \in Int, r \in 0 .. n - 1 : r = m % n
      <4>1. m \in Int /\ n \in Nat \ {0}
        OBVIOUS
      <4>2. \E d \in Int : \E r \in 0 .. n - 1 : d = m \div n /\ r = m % n /\ m = n * d + r
        BY <4>1, Divided
      <4> QED
        BY <4>2
    <3>3. ((j - 1) % n) + 1 = r + 1
      BY <3>1, <3>2
    <3>4. r + 1 \in 1 .. n
      OBVIOUS
    <3>5. \A e \in 1 .. n : data[e] \in Nat
      OBVIOUS
    <3> QED
      BY <3>3, <3>4, <3>5
  <2>2. all \in [1 .. n + pad -> Nat]
    BY <1>4, <2>1
  <2>3. n + pad \in Nat
    OBVIOUS
  <2> QED
    BY <2>2, <2>3, FunctionIsSeq
<1>6. \A j \in 1 .. n : all[j] = data[j]
  <2> SUFFICES ASSUME NEW j \in 1 .. n PROVE all[j] = data[j]
    OBVIOUS
  <2>1. j \in 1 .. n + pad
    OBVIOUS
  <2>2. (j - 1) % n = j - 1
    <3>1. PICK m \in 0 .. n - 1 : m = j - 1
      OBVIOUS
    <3>2. m % n = m
      BY SmallRemainder
    <3> QED
      BY <3>1, <3>2
  <2>3. ((j - 1) % n) + 1 = j
    BY <2>2
  <2> QED
    BY <1>4, <2>1, <2>3
<1>7. FlattenSeq(chunks) = all
  <2>1. Chunkable(all, k, Nat)
    BY <1>2, <1>5 DEF Chunkable
  <2>2. FlattenSeq([c \in 1 .. k |-> Chunk(all, k, c - 1)]) = all
    BY <2>1, ChunksJoined
  <2> QED
    BY <1>3, <2>2
<1>8. Unpad(all, pad) = SubSeq(all, 0 + 1, n)
  <2>1. Len(all) - pad = n
    BY <1>5
  <2> QED
    BY <2>1 DEF Unpad
<1>9. PICK s : s = SubSeq(all, 0 + 1, n)
  OBVIOUS
<1>10. s \in Seq(Nat) /\ Len(s) = n /\ \A j \in 1 .. n : s[j] = all[j]
  <2>1. 0 \in Nat /\ 0 <= n /\ n <= Len(all)
    BY <1>5
  <2>2. s \in Seq(Nat) /\ Len(s) = n - 0 /\ \A j \in 1 .. n - 0 : s[j] = all[0 + j]
    BY <1>5, <1>9, <2>1, SubSeqIs
  <2> QED
    BY <2>2
<1>11. s = data
  <2>1. s = [j \in 1 .. n |-> s[j]] /\ data = [j \in 1 .. n |-> data[j]]
    BY <1>10, SeqIsFunction
  <2>2. \A j \in 1 .. n : s[j] = data[j]
    BY <1>6, <1>10
  <2> QED
    BY <2>1, <2>2
<1> QED
  BY <1>2, <1>7, <1>8, <1>9, <1>11

-----------------------------------------------------------------------------
(* The partitions of _balance_batch                                          *)

\* Rows counted on from one block of `size' to the next
LEMMA PlacedRows ==
  ASSUME NEW size \in Nat \ {0}, NEW M \in Nat, NEW at,
         \A m \in 1 .. M : \A x \in 1 .. size : at[m][x] = (m - 1) * size + x
  PROVE  Placed(at, 1 .. M, 1 .. size, 1 .. M * size)
<1>1. ASSUME NEW m \in 1 .. M, NEW x \in 1 .. size PROVE at[m][x] \in 1 .. M * size
  <2>1. PICK d \in 0 .. M - 1, e \in 0 .. size - 1 : d = m - 1 /\ e = x - 1
    <3>1. m - 1 \in 0 .. M - 1 /\ x - 1 \in 0 .. size - 1
      OBVIOUS
    <3> QED
      BY <3>1
  <2>2. d * size + e + 1 \in 1 .. M * size
    BY PlaceAt
  <2>3. PICK y \in Int : y = d * size
    OBVIOUS
  <2>4. y + e + 1 = y + x
    BY <2>1
  <2>5. at[m][x] = y + x
    BY <2>1, <2>3
  <2> QED
    BY <2>2, <2>3, <2>4, <2>5
<1>2. ASSUME NEW m \in 1 .. M, NEW h \in 1 .. M, NEW x \in 1 .. size, NEW y \in 1 .. size, at[m][x] = at[h][y]
      PROVE  m = h /\ x = y
  <2>1. m - 1 \in Int /\ h - 1 \in Int /\ (m - 1) * size + x = (h - 1) * size + y
    BY <1>2
  <2>2. m - 1 = h - 1 /\ x = y
    BY <2>1, OnePlace
  <2> QED
    BY <2>2
<1>3. ASSUME NEW z \in 1 .. M * size PROVE \E m \in 1 .. M : \E x \in 1 .. size : at[m][x] = z
  <2>1. \A i \in 1 .. M * size : /\ (i - 1) \div size \in 0 .. M - 1 /\ (i - 1) % size \in 0 .. size - 1
                                 /\ i = ((i - 1) \div size) * size + ((i - 1) % size) + 1
    BY PlaceOf, Zenon
  <2>2. PICK d \in 0 .. M - 1, e \in 0 .. size - 1 : z = d * size + e + 1
    BY <2>1, Zenon
  <2>3. PICK m \in 1 .. M, x \in 1 .. size : d = m - 1 /\ x = e + 1
    <3>1. d + 1 \in 1 .. M /\ e + 1 \in 1 .. size /\ d = (d + 1) - 1
      OBVIOUS
    <3> QED
      BY <3>1
  <2>4. PICK y \in Int : y = d * size
    OBVIOUS
  <2>5. z = y + x
    BY <2>2, <2>3, <2>4
  <2>6. at[m][x] = y + x
    BY <2>3, <2>4
  <2> QED
    BY <2>5, <2>6
<1> QED
  BY <1>1, <1>2, <1>3 DEF Placed

\* Sorting each partition keeps every row in it.
LEMMA IncreasingSplit ==
  ASSUME NEW N \in Nat, NEW k \in Nat, NEW parts, Splits(parts, k, 1 .. N)
  PROVE  Splits([q \in 1 .. k |-> Increasing(parts[q])], k, 1 .. N)
<1>1. PICK S : S \in SUBSET Int /\ S = 1 .. N
  OBVIOUS
<1>2. PICK new : new = [q \in 1 .. k |-> Increasing(parts[q])]
  OBVIOUS
<1>3. Splits(parts, k, S)
  BY <1>1
<1>4. ASSUME NEW q \in 1 .. k PROVE Rearranges(new[q], parts[q])
  <2>1. parts[q] \in Seq(S)
    BY <1>3, SplitType
  <2>2. Rearranges(Increasing(parts[q]), parts[q])
    BY <1>1, <2>1, NumbersSorted
  <2> QED
    BY <1>2, <2>2
<1>5. DOMAIN new = 1 .. k /\ new = [i \in 1 .. k |-> new[i]]
  BY <1>2
<1>6. Splits(new, k, S)
  BY <1>3, <1>4, <1>5, EachPartRearranged
<1> QED
  BY <1>1, <1>2, <1>6

\* Every row is in one partition, its group with it.
LEMMA GroupPartitions ==
  ASSUME NEW p \in Nat \ {0}, NEW n \in Nat \ {0}, NEW k \in Nat \ {0}, p % k = 0,
         NEW lens \in Seq(Nat), Len(lens) = p * n,
         NEW uid, uid = Uids(p, n)
  PROVE  Splits(get_group_balanced_partitions(lens, uid, k), k, 1 .. p * n)
<1>1. PICK groups : groups = UidGroups(uid)
  OBVIOUS
<1>2. groups = [g \in 1 .. p |-> [j \in 1 .. n |-> (g - 1) * n + j]]
  <2>1. groups = GroupRows(p, n)
    BY <1>1, GroupsAre
  <2> QED
    BY <2>1 DEF GroupRows
<1>3. \A g \in 1 .. p : /\ groups[g] = [j \in 1 .. n |-> (g - 1) * n + j]
                        /\ \A j \in 1 .. n : groups[g][j] = (g - 1) * n + j
  BY <1>2
<1>4. PICK N \in Nat : N = p * n
  OBVIOUS
<1>5. Placed(groups, 1 .. p, 1 .. n, 1 .. N)
  BY <1>3, <1>4, PlacedRows
<1>6. PICK I, U, S : I = 1 .. p /\ U = 1 .. n /\ S = 1 .. N
  OBVIOUS
<1>7. /\ \A g \in I : \A x \in U : groups[g][x] \in S
      /\ \A g, h \in I : \A x, y \in U : groups[g][x] = groups[h][y] => g = h /\ x = y
      /\ \A z \in S : \E g \in I : \E x \in U : groups[g][x] = z
  <2>1. Placed(groups, I, U, S)
    BY <1>5, <1>6
  <2> QED
    BY <2>1, Zenon DEF Placed
<1>8. \A g \in I : groups[g] \in Seq(S) /\ Len(groups[g]) = n
  <2> SUFFICES ASSUME NEW g \in I PROVE groups[g] \in Seq(S) /\ Len(groups[g]) = n
    OBVIOUS
  <2>1. groups[g] = [j \in U |-> (g - 1) * n + j]
    BY <1>3, <1>6
  <2>2. groups[g] = [j \in U |-> groups[g][j]]
    BY <2>1
  <2>3. groups[g] \in [U -> S]
    BY <1>7, <2>2
  <2>4. groups[g] \in [1 .. n -> S] /\ n \in Nat
    BY <1>6, <2>3
  <2> QED
    BY <2>4, FunctionIsSeq
<1>9. Splits(groups, p, S)
  <2>1. groups \in Seq(Seq(S)) /\ Len(groups) = p
    <3>1. groups \in [1 .. p -> Seq(S)]
      BY <1>2, <1>6, <1>8
    <3> QED
      BY <3>1, FunctionIsSeq
  <2>2. \A i \in 1 .. p : i \in I /\ 1 .. Len(groups[i]) = U
    BY <1>6, <1>8
  <2>3. ASSUME NEW i \in 1 .. p, NEW h \in 1 .. p, NEW j \in 1 .. Len(groups[i]), NEW l \in 1 .. Len(groups[h]),
               groups[i][j] = groups[h][l]
        PROVE  i = h /\ j = l
    <3>1. i \in I /\ h \in I /\ j \in U /\ l \in U
      BY <2>2
    <3> QED
      BY <1>7, <2>3, <3>1
  <2>4. ASSUME NEW x \in S PROVE \E i \in 1 .. p : \E j \in 1 .. Len(groups[i]) : groups[i][j] = x
    <3>1. PICK g \in I : \E u \in U : groups[g][u] = x
      BY <1>7
    <3>2. PICK u \in U : groups[g][u] = x
      BY <3>1
    <3>3. g \in 1 .. p /\ u \in 1 .. Len(groups[g])
      BY <1>6, <2>2
    <3> QED
      BY <3>2, <3>3
  <2> QED
    BY <2>1, <2>3, <2>4 DEF Splits
<1>10. PICK v : v = [i \in DOMAIN lens |-> calculate_workload(lens[i])]
  OBVIOUS
<1>11. v \in Seq(Nat) /\ Len(v) = N
  BY <1>4, <1>10, WorkType
<1>12. PICK w : w = [g \in DOMAIN groups |-> SetSum(v, groups[g])]
  OBVIOUS
<1>13. w \in Seq(Nat) /\ Len(w) = p
  <2>1. \A g \in 1 .. p : SetSum(v, groups[g]) \in Nat
    <3> SUFFICES ASSUME NEW g \in 1 .. p PROVE SetSum(v, groups[g]) \in Nat
      OBVIOUS
    <3>1. groups[g] \in Seq(1 .. Len(v))
      BY <1>6, <1>8, <1>11
    <3> QED
      BY <1>11, <3>1, SetSumType
  <2>2. w \in [1 .. p -> Nat]
    BY <1>2, <1>12, <2>1
  <2> QED
    BY <2>2, FunctionIsSeq
<1>14. PICK parts : parts = get_seqlen_balanced_partitions(w, k, TRUE)
  OBVIOUS
<1>15. Splits(parts, k, 1 .. p)
  <2>1. TRUE => Len(w) % k = 0
    BY <1>13
  <2>2. Len(w) > 0 /\ TRUE \in BOOLEAN
    BY <1>13
  <2>3. Splits(parts, k, 1 .. Len(w))
    BY <1>13, <1>14, <2>1, <2>2, PartitionsSplit
  <2> QED
    BY <1>13, <2>3
<1>16. PICK new : new = ChosenJoined(groups, parts, k)
  OBVIOUS
<1>17. Splits(new, k, 1 .. N)
  <2>1. Splits(parts, k, I)
    BY <1>6, <1>15
  <2>2. Splits(new, k, S)
    BY <1>6, <1>9, <1>16, <2>1, ChosenSplit
  <2> QED
    BY <1>6, <2>2
<1>18. Splits([q \in 1 .. k |-> Increasing(new[q])], k, 1 .. N)
  BY <1>17, IncreasingSplit
<1>19. get_group_balanced_partitions(lens, uid, k)
         = [q \in 1 .. k |-> Increasing(FlattenSeq([j \in DOMAIN parts[q] |-> groups[parts[q][j]]]))]
  BY <1>1, <1>10, <1>12, <1>14 DEF get_group_balanced_partitions
<1>20. [q \in 1 .. k |-> Increasing(FlattenSeq([j \in DOMAIN parts[q] |-> groups[parts[q][j]]]))]
         = [q \in 1 .. k |-> Increasing(new[q])]
  BY <1>16 DEF ChosenJoined
<1> QED
  BY <1>4, <1>18, <1>19, <1>20

\* keep_minibatch: new, from the partitions minis of the M whole mini-batches of v
MiniParts(v, size, k, M, minis, new) ==
  /\ M = Len(v) \div size
  /\ minis = [m \in 1 .. M |-> get_seqlen_balanced_partitions(Split(v, size, m), k, TRUE)]
  /\ new = [r \in 1 .. k |-> FlattenSeq([m \in DOMAIN minis |->
              [j \in DOMAIN minis[m][r] |-> minis[m][r][j] + size * (m - 1)]])]

\* Every row is in one partition when whole mini-batches are balanced one by one.
LEMMA MiniPartitions ==
  ASSUME NEW v \in Seq(Nat), NEW size \in Nat \ {0}, NEW k \in Nat \ {0}, size % k = 0,
         Len(v) > 0, Len(v) % size = 0, NEW M, NEW minis, NEW new, MiniParts(v, size, k, M, minis, new)
  PROVE  Splits(new, k, 1 .. Len(v))
<1>0. /\ M = Len(v) \div size
      /\ minis = [m \in 1 .. M |-> get_seqlen_balanced_partitions(Split(v, size, m), k, TRUE)]
      /\ new = [r \in 1 .. k |-> FlattenSeq([m \in DOMAIN minis |->
                                 [j \in DOMAIN minis[m][r] |-> minis[m][r][j] + size * (m - 1)]])]
  BY DEF MiniParts
<1>1. PICK n \in Nat : n = Len(v)
  OBVIOUS
<1>2. M \in Nat /\ n = M * size
  BY <1>0, <1>1, Blocks
<1>3. ASSUME NEW m \in 1 .. M PROVE Splits(minis[m], k, 1 .. size)
  <2>1. PICK l \in Nat, h \in Nat : l = (m - 1) * size /\ h = m * size /\ h = l + size /\ h <= n
    <3>1. PICK d \in Nat : d = m - 1 /\ m = d + 1
      <4>1. m - 1 \in Nat /\ m = (m - 1) + 1
        BY <1>2
      <4> QED
        BY <4>1
    <3>2. d * size \in Nat /\ (d + 1) * size \in Nat /\ (d + 1) * size = d * size + size
      OBVIOUS
    <3>3. PICK e \in Nat : M = m + e
      <4>1. M - m \in Nat /\ M = m + (M - m)
        BY <1>2
      <4> QED
        BY <4>1
    <3>4. (m + e) * size = m * size + e * size /\ e * size \in Nat /\ m * size \in Nat
      BY <1>2
    <3>5. m * size <= n
      <4>1. PICK a \in Nat, b \in Nat : a = m * size /\ b = e * size /\ (m + e) * size = a + b
        BY <3>4
      <4>2. n = a + b
        BY <1>2, <3>3, <4>1
      <4>3. a <= n
        BY <4>2
      <4> QED
        BY <4>1, <4>3
    <3>6. PICK x \in Nat, y \in Nat : x = d * size /\ y = (d + 1) * size /\ y = x + size
      BY <3>2
    <3>7. x = (m - 1) * size /\ y = m * size
      BY <3>1, <3>6
    <3>8. y <= n
      BY <3>5, <3>7
    <3> QED
      BY <3>6, <3>7, <3>8
  <2>2. PICK s : s = Split(v, size, m)
    OBVIOUS
  <2>3. (IF m * size < Len(v) THEN m * size ELSE Len(v)) = h
    BY <1>1, <2>1
  <2>4. s = SubSeq(v, l + 1, h)
    BY <2>1, <2>2, <2>3 DEF Split
  <2>5. l <= h /\ h <= Len(v)
    BY <1>1, <2>1
  <2>6. s \in Seq(Nat) /\ Len(s) = h - l
    BY ONLY v \in Seq(Nat), l \in Nat, h \in Nat, <2>4, <2>5, SubSeqIs
  <2>7. Len(s) = size
    BY <2>1, <2>6
  <2>8. Len(s) > 0 /\ (TRUE => Len(s) % k = 0) /\ TRUE \in BOOLEAN
    BY <2>7
  <2>9. Splits(get_seqlen_balanced_partitions(s, k, TRUE), k, 1 .. Len(s))
    BY <2>6, <2>8, PartitionsSplit
  <2>10. minis[m] = get_seqlen_balanced_partitions(s, k, TRUE)
    BY <1>0, <2>2
  <2> QED
    BY <2>7, <2>9, <2>10
<1>4. PICK at : at = [m \in 1 .. M |-> [x \in 1 .. size |-> x + size * (m - 1)]]
  OBVIOUS
<1>5. \A m \in 1 .. M : \A x \in 1 .. size : at[m][x] = x + size * (m - 1) /\ at[m][x] = (m - 1) * size + x
  <2> SUFFICES ASSUME NEW m \in 1 .. M, NEW x \in 1 .. size
               PROVE  at[m][x] = x + size * (m - 1) /\ at[m][x] = (m - 1) * size + x
    OBVIOUS
  <2>1. at[m][x] = x + size * (m - 1)
    BY <1>4
  <2>2. PICK y \in Int : y = size * (m - 1) /\ y = (m - 1) * size
    BY <1>2
  <2> QED
    BY <2>1, <2>2
<1>6. Placed(at, 1 .. M, 1 .. size, 1 .. n)
  BY <1>2, <1>5, PlacedRows
<1>7. PICK moved : moved = MinisJoined(at, minis, k, M)
  OBVIOUS
<1>8. Splits(moved, k, 1 .. n)
  <2>1. PICK I, U, S : I = 1 .. M /\ U = 1 .. size /\ S = 1 .. n
    OBVIOUS
  <2>2. Placed(at, I, U, S) /\ M \in Nat /\ I = 1 .. M
    BY <1>2, <1>6, <2>1
  <2>3. \A m \in I : Splits(minis[m], k, U)
    BY <1>3, <2>1
  <2>4. Splits(moved, k, S)
    BY <1>7, <2>2, <2>3, MinisSplit
  <2> QED
    BY <2>1, <2>4
<1>9. ASSUME NEW r \in 1 .. k, NEW m \in 1 .. M
      PROVE  [j \in DOMAIN minis[m][r] |-> minis[m][r][j] + size * (m - 1)] = [j \in DOMAIN minis[m][r] |-> at[m][minis[m][r][j]]]
  <2>1. Splits(minis[m], k, 1 .. size)
    BY <1>3
  <2>2. minis[m][r] \in Seq(1 .. size)
    BY <2>1, SplitType
  <2>3. PICK c \in Seq(1 .. size) : c = minis[m][r]
    BY <2>2
  <2>4. \A j \in DOMAIN c : c[j] \in 1 .. size
    OBVIOUS
  <2>5. \A j \in DOMAIN c : c[j] + size * (m - 1) = at[m][c[j]]
    BY <1>5, <2>4
  <2>6. [j \in DOMAIN c |-> c[j] + size * (m - 1)] = [j \in DOMAIN c |-> at[m][c[j]]]
    BY <2>5
  <2> QED
    BY <2>3, <2>6
<1>10. \A r \in 1 .. k : [m \in 1 .. M |-> [j \in DOMAIN minis[m][r] |-> minis[m][r][j] + size * (m - 1)]]
                           = [m \in 1 .. M |-> [j \in DOMAIN minis[m][r] |-> at[m][minis[m][r][j]]]]
  BY <1>9
<1>11. new = moved
  <2>1. DOMAIN minis = 1 .. M
    BY <1>0
  <2>2. new = [r \in 1 .. k |-> FlattenSeq([m \in 1 .. M |-> [j \in DOMAIN minis[m][r] |-> minis[m][r][j] + size * (m - 1)]])]
    BY <1>0, <2>1
  <2> QED
    BY <1>7, <1>10, <2>2 DEF MinisJoined
<1> QED
  BY <1>1, <1>8, <1>11

-----------------------------------------------------------------------------
(* The step                                                                  *)

RowSet == (0 .. shape.prompts - 1) \X (0 .. shape.n - 1)

StepType ==
  /\ shape \in Shapes /\ balancing \in Balancing
  /\ seqlen \in [RowSet -> 1 .. MaxTokens]

\* What the assumptions on the constants say of this step's numbers
LEMMA ShapeFacts ==
  ASSUME StepType
  PROVE  /\ shape.prompts \in Nat \ {0} /\ shape.n \in Nat \ {0} /\ shape.sp \in Nat \ {0}
         /\ DpSize \in Nat \ {0} /\ MiniPrompts \in Nat \ {0}
         /\ MiniRows \in Nat \ {0}
         /\ shape.prompts * shape.n \in Nat \ {0}
         /\ balancing \in {"plain", "minibatch", "group"}
         /\ balancing = "minibatch" =>
              /\ MiniPrompts % DpSize = 0
              /\ (shape.prompts * shape.n) % DpSize = 0 => (shape.prompts * shape.n) % MiniPrompts = 0
<1>1. /\ shape.prompts \in Nat \ {0} /\ shape.n \in Nat \ {0} /\ shape.sp \in Nat \ {0}
      /\ DpSize \in Nat \ {0} /\ MiniPrompts \in Nat \ {0}
      /\ (MiniPrompts * shape.n) \div DpSize > 0
  BY FlowAssumption DEF StepType
<1>2. balancing = "minibatch" =>
        /\ MiniPrompts % DpSize = 0
        /\ (shape.prompts * shape.n) % DpSize = 0 => (shape.prompts * shape.n) % MiniPrompts = 0
  BY MiniAssumption DEF StepType
<1>3. MiniRows \in Nat \ {0}
  <2>1. PICK m \in Int : m = MiniPrompts * shape.n
    BY <1>1
  <2>2. m \div DpSize \in Int
    <3>1. \E q \in Int : \E r \in 0 .. DpSize - 1 : q = m \div DpSize /\ r = m % DpSize /\ m = DpSize * q + r
      BY <1>1, Divided
    <3> QED
      BY <3>1
  <2>3. m \div DpSize > 0
    BY <1>1, <2>1
  <2>4. MiniRows = m \div DpSize
    BY <2>1 DEF MiniRows
  <2> QED
    BY <2>2, <2>3, <2>4
<1>4. shape.prompts * shape.n \in Nat \ {0}
  <2>1. PICK a \in Nat \ {0}, b \in Nat \ {0} : a = shape.prompts /\ b = shape.n
    BY <1>1
  <2>2. a * b \in Nat /\ a * b # 0
    OBVIOUS
  <2> QED
    BY <2>1, <2>2
<1>5. balancing \in {"plain", "minibatch", "group"}
  BY FlowAssumption DEF StepType
<1> QED
  BY <1>1, <1>2, <1>3, <1>4, <1>5

\* The workers of a rank are neighbours, the first of them collects.
LEMMA WorkersAre ==
  ASSUME StepType
  PROVE  /\ \A w \in Workers : DpRank(w) \in 0 .. DpSize - 1
         /\ \A r \in 1 .. DpSize : /\ (r - 1) * shape.sp \in Workers
                                   /\ IsCollect((r - 1) * shape.sp) /\ DpRank((r - 1) * shape.sp) = r - 1
         /\ IsFiniteSet(Workers) /\ Workers # {}
<1>1. PICK d \in Nat \ {0}, sp \in Nat \ {0} : d = DpSize /\ sp = shape.sp
  BY ShapeFacts
<1>2. d * sp \in Nat
  OBVIOUS
<1>3. Workers = 0 .. d * sp - 1
  BY <1>1 DEF Workers
<1>4. ASSUME NEW w \in Workers PROVE DpRank(w) \in 0 .. DpSize - 1
  <2>1. PICK i \in 1 .. d * sp : w = i - 1
    <3>1. w + 1 \in 1 .. d * sp /\ w = (w + 1) - 1
      BY <1>2, <1>3
    <3> QED
      BY <3>1
  <2>2. \A x \in 1 .. d * sp : /\ (x - 1) \div sp \in 0 .. d - 1 /\ (x - 1) % sp \in 0 .. sp - 1
                               /\ x = ((x - 1) \div sp) * sp + ((x - 1) % sp) + 1
    BY PlaceOf, Zenon
  <2>3. (i - 1) \div sp \in 0 .. d - 1
    BY <2>2, Zenon
  <2>4. DpRank(w) = (i - 1) \div sp
    BY <1>1, <2>1 DEF DpRank
  <2> QED
    BY <1>1, <2>3, <2>4
<1>5. ASSUME NEW r \in 1 .. DpSize
      PROVE  /\ (r - 1) * shape.sp \in Workers
             /\ IsCollect((r - 1) * shape.sp) /\ DpRank((r - 1) * shape.sp) = r - 1
  <2>1. PICK q \in 0 .. d - 1 : q = r - 1
    BY <1>1
  <2>2. 0 \in 0 .. sp - 1
    OBVIOUS
  <2>3. /\ q * sp + 0 + 1 \in 1 .. d * sp
        /\ (q * sp + 0) \div sp = q /\ (q * sp + 0) % sp = 0
    BY <2>2, PlaceAt
  <2>4. PICK x \in Int : x = q * sp /\ q * sp + 0 = x
    OBVIOUS
  <2>5. x \div sp = q /\ x % sp = 0
    BY <2>3, <2>4, Zenon
  <2>6. x + 1 \in 1 .. d * sp
    BY <2>3, <2>4
  <2>7. x \in Workers
    BY <1>2, <1>3, <2>6
  <2>8. (r - 1) * shape.sp = x
    BY <1>1, <2>1, <2>4
  <2> QED
    BY <1>1, <2>1, <2>5, <2>7, <2>8 DEF IsCollect, DpRank
<1>6. IsFiniteSet(Workers)
  <2>1. d * sp - 1 \in Int
    BY <1>2
  <2> QED
    BY <1>3, <2>1, FS_Interval
<1>7. Workers # {}
  <2>1. 1 \in 1 .. DpSize
    BY <1>1
  <2> QED
    BY <1>5, <2>1
<1> QED
  BY <1>4, <1>5, <1>6, <1>7

\* The lengths of rows, and their work
LEMMA LengthsType ==
  ASSUME StepType, NEW rs \in Seq(RowSet)
  PROVE  /\ LenOf(rs) \in Seq(Nat \ {0}) /\ LenOf(rs) \in Seq(Nat) /\ Len(LenOf(rs)) = Len(rs)
         /\ WorkOf(rs) \in Seq(Nat) /\ Len(WorkOf(rs)) = Len(rs)
<1>1. Len(rs) \in Nat /\ DOMAIN rs = 1 .. Len(rs) /\ \A i \in 1 .. Len(rs) : rs[i] \in RowSet
  BY SeqIsFunction
<1>2. \A x \in RowSet : seqlen[x] \in Nat \ {0}
  <2>1. \A x \in RowSet : seqlen[x] \in 1 .. MaxTokens
    BY DEF StepType
  <2> QED
    BY <2>1
<1>3. LenOf(rs) \in Seq(Nat \ {0}) /\ Len(LenOf(rs)) = Len(rs)
  <2>1. LenOf(rs) \in [1 .. Len(rs) -> Nat \ {0}]
    BY <1>1, <1>2 DEF LenOf
  <2> QED
    BY <1>1, <2>1, FunctionIsSeq
<1>4. LenOf(rs) \in Seq(Nat)
  <2>1. Nat \ {0} \subseteq Nat
    OBVIOUS
  <2> QED
    BY <1>3, <2>1, WiderSeq
<1>5. WorkOf(rs) = [i \in DOMAIN LenOf(rs) |-> calculate_workload(LenOf(rs)[i])]
  BY <1>1 DEF WorkOf, LenOf
<1>6. WorkOf(rs) \in Seq(Nat) /\ Len(WorkOf(rs)) = Len(LenOf(rs))
  BY <1>4, <1>5, WorkType
<1> QED
  BY <1>3, <1>4, <1>6

\* SmallOutside keeps the rows of a partition.
LEMMA OutsideLists ==
  ASSUME NEW N \in Nat, WorkOf(batch) \in Seq(Nat), Len(WorkOf(batch)) = N,
         NEW A \in SUBSET (1 .. N), NEW p, Lists(p, A)
  PROVE  Lists(SmallOutside(p), A)
<1>1. PICK v \in Seq(Nat) : v = WorkOf(batch) /\ Len(v) = N
  OBVIOUS
<1> DEFINE R == {d \in A \X A : v[d[1]] < v[d[2]] \/ (v[d[1]] = v[d[2]] /\ d[1] < d[2])}
           s == SortedBy(p, LAMBDA i, j : v[i] < v[j] \/ (v[i] = v[j] /\ i < j))
<1>2. p \in Seq(A) /\ Len(p) \in Nat /\ DOMAIN p = 1 .. Len(p) /\ \A i \in 1 .. Len(p) : p[i] \in A
  <2>1. p \in Seq(A)
    BY DEF Lists
  <2> QED
    BY <2>1, SeqIsFunction
<1>3. \A i \in A : v[i] \in Nat /\ i \in Nat
  BY <1>1
<1>4. \A i, j \in A : <<i, j>> \in R <=> v[i] < v[j] \/ (v[i] = v[j] /\ i < j)
  OBVIOUS
<1>5. s = Arranged(p, IndexOrder(p, R))
  <2>1. IndexOrder(p, R) =
          {d \in (DOMAIN p) \X (DOMAIN p) :
             (v[p[d[1]]] < v[p[d[2]]] \/ (v[p[d[1]]] = v[p[d[2]]] /\ p[d[1]] < p[d[2]]))
             \/ (p[d[1]] = p[d[2]] /\ d[1] < d[2])}
    BY <1>2 DEF IndexOrder
  <2> QED
    BY <2>1 DEF SortedBy
<1>6. SmallOutside(p) = EveryOther(s) \o Reverse(TheOthers(s))
  BY <1>1 DEF SmallOutside
<1> HIDE DEF s, R
<1>7. Total(R, A)
  <2>1. \A i \in A : <<i, i>> \notin R
    BY <1>3, <1>4
  <2>2. ASSUME NEW i \in A, NEW j \in A, NEW k \in A, <<i, j>> \in R, <<j, k>> \in R
        PROVE  <<i, k>> \in R
    <3>1. /\ v[i] \in Nat /\ v[j] \in Nat /\ v[k] \in Nat /\ i \in Nat /\ j \in Nat /\ k \in Nat
      BY <1>3
    <3>2. /\ v[i] < v[j] \/ (v[i] = v[j] /\ i < j)
          /\ v[j] < v[k] \/ (v[j] = v[k] /\ j < k)
      BY <1>4, <2>2
    <3>3. v[i] < v[k] \/ (v[i] = v[k] /\ i < k)
      <4>1. PICK a \in Nat, b \in Nat, c \in Nat : a = v[i] /\ b = v[j] /\ c = v[k]
        BY <3>1
      <4>2. (a < b \/ (a = b /\ i < j)) /\ (b < c \/ (b = c /\ j < k))
        BY <3>2, <4>1
      <4>3. a < c \/ (a = c /\ i < k)
        BY <3>1, <4>2
      <4> QED
        BY <4>1, <4>3
    <3> QED
      BY <1>4, <3>3
  <2>3. ASSUME NEW i \in A, NEW j \in A
        PROVE  i = j \/ <<i, j>> \in R \/ <<j, i>> \in R
    <3>1. v[i] \in Nat /\ v[j] \in Nat /\ i \in Nat /\ j \in Nat
      BY <1>3
    <3>2. v[i] < v[j] \/ v[j] < v[i] \/ (v[i] = v[j] /\ (i < j \/ j < i \/ i = j))
      BY <3>1
    <3> QED
      BY <1>4, <3>2
  <2> QED
    BY <2>1, <2>2, <2>3 DEF Total
<1>8. Rearranges(s, p)
  BY <1>2, <1>5, <1>7, SortRearranges
<1>9. Lists(s, A)
  BY <1>8, RearrangedLists
<1>10. s \in Seq(A)
  BY <1>9 DEF Lists
<1>11. Rearranges(EveryOther(s) \o Reverse(TheOthers(s)), s)
  BY <1>10, EndsRearranged
<1>12. Lists(EveryOther(s) \o Reverse(TheOthers(s)), A)
  BY <1>9, <1>11, RearrangedLists
<1> QED
  BY <1>6, <1>12

\* The generated batch holds every row once, the copies of a prompt next to each other.
LEMMA RepeatedFacts ==
  ASSUME StepType, batch = Repeated(shape.prompts, shape.n)
  PROVE  /\ Lists(batch, RowSet) /\ batch \in Seq(RowSet) /\ Len(batch) = shape.prompts * shape.n
         /\ Len(batch) \in Nat \ {0} /\ DOMAIN batch = 1 .. Len(batch)
         /\ [i \in DOMAIN batch |-> batch[i][1]] = Uids(shape.prompts, shape.n)
<1>1. PICK p \in Nat \ {0}, n \in Nat \ {0} : p = shape.prompts /\ n = shape.n
  BY ShapeFacts
<1>2. Lists(batch, RowSet) /\ Len(batch) = p * n
  BY <1>1, RepeatedLists DEF RowSet
<1>3. batch \in Seq(RowSet) /\ p * n \in Nat \ {0}
  BY <1>1, <1>2, ShapeFacts DEF Lists
<1>4. DOMAIN batch = 1 .. Len(batch)
  BY <1>3, SeqIsFunction
<1>5. batch = [i \in 1 .. p * n |-> <<(i - 1) \div n, (i - 1) % n>>]
  BY <1>1 DEF Repeated
<1>6. [i \in DOMAIN batch |-> batch[i][1]] = Uids(p, n)
  BY <1>2, <1>4, <1>5 DEF Uids
<1> QED
  BY <1>1, <1>2, <1>3, <1>4, <1>6

\* The partitions hold every row of the batch once.
LEMMA PartitionsOfBatch ==
  ASSUME StepType, batch = Repeated(shape.prompts, shape.n), Len(batch) % DpSize = 0,
         balancing = "group" => shape.prompts % DpSize = 0
  PROVE  Splits(Partitions, DpSize, 1 .. Len(batch))
<1>1. /\ batch \in Seq(RowSet) /\ Len(batch) = shape.prompts * shape.n
      /\ Len(batch) \in Nat \ {0} /\ DOMAIN batch = 1 .. Len(batch)
      /\ [i \in DOMAIN batch |-> batch[i][1]] = Uids(shape.prompts, shape.n)
  BY RepeatedFacts
<1>2. /\ LenOf(batch) \in Seq(Nat) /\ Len(LenOf(batch)) = Len(batch)
      /\ WorkOf(batch) \in Seq(Nat) /\ Len(WorkOf(batch)) = Len(batch)
  BY <1>1, LengthsType
<1>3. DpSize \in Nat \ {0} /\ MiniPrompts \in Nat \ {0}
  BY ShapeFacts
<1>4. CASE balancing = "group"
  <2>1. Partitions = get_group_balanced_partitions(LenOf(batch), [i \in DOMAIN batch |-> batch[i][1]], DpSize)
    BY <1>4 DEF Partitions
  <2>2. PICK p \in Nat \ {0}, n \in Nat \ {0}, lens \in Seq(Nat) :
          p = shape.prompts /\ n = shape.n /\ lens = LenOf(batch)
    BY <1>2, ShapeFacts
  <2>5. PICK uid : uid = [i \in DOMAIN batch |-> batch[i][1]]
    OBVIOUS
  <2>3. p % DpSize = 0 /\ Len(lens) = p * n /\ uid = Uids(p, n)
    BY <1>1, <1>2, <1>4, <2>2, <2>5
  <2>4. Splits(get_group_balanced_partitions(lens, uid, DpSize), DpSize, 1 .. p * n)
    BY <1>3, <2>3, GroupPartitions
  <2> QED
    BY <1>1, <2>1, <2>2, <2>4, <2>5
<1>5. CASE balancing = "minibatch"
  <2>1. PICK v \in Seq(Nat) : v = WorkOf(batch)
    BY <1>2
  <2>2. PICK M : M = Len(batch) \div MiniPrompts
    OBVIOUS
  <2>3. PICK minis : minis = [m \in 1 .. M |-> get_seqlen_balanced_partitions(Split(v, MiniPrompts, m), DpSize, TRUE)]
    OBVIOUS
  <2>4. PICK new : new = [r \in 1 .. DpSize |-> FlattenSeq([m \in DOMAIN minis |->
                            [j \in DOMAIN minis[m][r] |-> minis[m][r][j] + MiniPrompts * (m - 1)]])]
    OBVIOUS
  <2>5. Partitions = new
    BY <1>5, <2>1, <2>2, <2>3, <2>4 DEF Partitions
  <2>6. Len(v) > 0 /\ M = Len(v) \div MiniPrompts
    BY <1>1, <1>2, <2>1, <2>2
  <2>7. Len(v) % MiniPrompts = 0 /\ MiniPrompts % DpSize = 0
    BY <1>1, <1>2, <1>5, <2>1, ShapeFacts
  <2>8. MiniParts(v, MiniPrompts, DpSize, M, minis, new)
    BY <2>3, <2>4, <2>6 DEF MiniParts
  <2>9. Splits(new, DpSize, 1 .. Len(v))
    BY <1>3, <2>6, <2>7, <2>8, MiniPartitions
  <2> QED
    BY <1>2, <2>1, <2>5, <2>9
<1>6. CASE balancing = "plain"
  <2>1. PICK v \in Seq(Nat) : v = WorkOf(batch)
    BY <1>2
  <2>2. Partitions = get_seqlen_balanced_partitions(v, DpSize, TRUE)
    BY <1>6, <2>1 DEF Partitions
  <2>3. Len(v) > 0 /\ (TRUE => Len(v) % DpSize = 0) /\ TRUE \in BOOLEAN
    BY <1>1, <1>2, <2>1
  <2>4. Splits(get_seqlen_balanced_partitions(v, DpSize, TRUE), DpSize, 1 .. Len(v))
    BY <1>3, <2>3, PartitionsSplit
  <2> QED
    BY <1>2, <2>1, <2>2, <2>4
<1> QED
  BY <1>4, <1>5, <1>6, ShapeFacts

\* The new order of the batch lists every row once.
LEMMA OrderOfBatch ==
  ASSUME StepType, batch = Repeated(shape.prompts, shape.n), Len(batch) % DpSize = 0,
         balancing = "group" => shape.prompts % DpSize = 0
  PROVE  Lists(FlattenSeq(PartitionOrder), 1 .. Len(batch))
<1>1. PICK N \in Nat : N = Len(batch) /\ WorkOf(batch) \in Seq(Nat) /\ Len(WorkOf(batch)) = N
  BY RepeatedFacts, LengthsType
<1>2. PICK k \in Nat : k = DpSize
  BY ShapeFacts
<1>3. Splits(Partitions, k, 1 .. N)
  BY <1>1, <1>2, PartitionsOfBatch
<1>4. Splits(PartitionOrder, k, 1 .. N)
  <2>1. CASE balancing = "group"
    BY <1>3, <2>1 DEF PartitionOrder
  <2>2. CASE balancing # "group"
    <3>1. PICK parts : parts = Partitions
      OBVIOUS
    <3>2. PICK A : Shares(parts, A, k, 1 .. N)
      BY <1>3, <3>1, SplitsShare
    <3>3. PICK new : new = [r \in 1 .. k |-> SmallOutside(parts[r])]
      OBVIOUS
    <3>4. PartitionOrder = new
      BY <1>2, <2>2, <3>1, <3>3 DEF PartitionOrder
    <3>5. ASSUME NEW r \in 1 .. k PROVE Lists(new[r], A[r]) /\ A[r] \subseteq 1 .. N
      <4>1. Lists(parts[r], A[r]) /\ A[r] \in SUBSET (1 .. N)
        BY <3>2 DEF Shares
      <4>2. Lists(SmallOutside(parts[r]), A[r])
        BY <1>1, <4>1, OutsideLists
      <4> QED
        BY <3>3, <4>1, <4>2
    <3>6. /\ \A i, h \in 1 .. k : \A x \in A[i] : x \in A[h] => i = h
          /\ \A x \in 1 .. N : \E i \in 1 .. k : x \in A[i]
      BY <3>2 DEF Shares
    <3>7. new = [r \in 1 .. k |-> new[r]]
      BY <3>3
    <3>8. Shares(new, A, k, 1 .. N)
      BY <3>5, <3>6, <3>7 DEF Shares
    <3>9. Splits(new, k, 1 .. N)
      BY <3>8, SharesSplit
    <3> QED
      BY <3>4, <3>9
  <2> QED
    BY <2>1, <2>2
<1> QED
  BY <1>1, <1>4, FlattenLists

-----------------------------------------------------------------------------
(* The all-reduce                                                            *)

\* A finite set of numbers has a largest one.
LEMMA Maximum ==
  ASSUME NEW T \in SUBSET Nat, IsFiniteSet(T), T # {}
  PROVE  \E x \in T : \A y \in T : y <= x
<1> DEFINE G == {U \in SUBSET T : U # {} => \E x \in U : \A y \in U : y <= x}
<1>1. ASSUME NEW U \in SUBSET T, \A x \in U : U \ {x} \in G PROVE U \in G
  <2> SUFFICES ASSUME U # {} PROVE \E x \in U : \A y \in U : y <= x
    OBVIOUS
  <2>1. PICK z \in U : TRUE
    OBVIOUS
  <2>2. CASE U = {z}
    BY <2>2
  <2>3. CASE U # {z}
    <3>1. U \ {z} # {} /\ U \ {z} \in G
      BY <1>1, <2>3
    <3>2. PICK x \in U \ {z} : \A y \in U \ {z} : y <= x
      BY <3>1
    <3>3. x \in Nat /\ z \in Nat /\ \A y \in U : y \in Nat
      OBVIOUS
    <3>4. CASE z <= x
      BY <3>2, <3>4
    <3>5. CASE x <= z
      <4>1. \A y \in U : y <= z
        BY <3>2, <3>3, <3>5
      <4> QED
        BY <4>1
    <3> QED
      BY <3>3, <3>4, <3>5
  <2> QED
    BY <2>2, <2>3
<1>2. \A U \in SUBSET T : U \in G
  <2> HIDE DEF G
  <2> QED
    BY <1>1, SubsetInduction
<1> QED
  BY <1>2

\* The all-reduce gives every rank a number of micro-batches.
LEMMA ReducedType ==
  ASSUME StepType, NEW w, NEW m \in Nat, \A u \in Workers : want[u][m] \in Nat \ {0}
  PROVE  Reduced(w, m) \in Nat \ {0}
<1> DEFINE T == {want[u][m] : u \in Workers}
<1>1. T \in SUBSET Nat /\ \A x \in T : x \in Nat \ {0}
  OBVIOUS
<1>2. IsFiniteSet(Workers) /\ Workers # {}
  BY WorkersAre
<1>3. IsFiniteSet(T) /\ T # {}
  <2>1. PICK W : W = Workers /\ IsFiniteSet(W) /\ W # {}
    BY <1>2
  <2>2. PICK g : g = [u \in W |-> want[u][m]]
    OBVIOUS
  <2>3. g \in [W -> T] /\ \A x \in T : \E u \in W : g[u] = x
    BY <2>1, <2>2
  <2>4. T # {}
    BY <2>1
  <2> HIDE DEF T
  <2>5. g \in Surjection(W, T)
    BY <2>3 DEF Surjection
  <2>6. IsFiniteSet(T)
    BY <2>1, <2>5, FS_Surjection
  <2> QED
    BY <2>4, <2>6
<1>4. \A x : (\A y \in T : y <= x) <=> (\A u \in Workers : want[u][m] <= x)
  OBVIOUS
<1>5. Reduced(w, m) = CHOOSE x \in T : \A u \in Workers : want[u][m] <= x
  BY DEF Reduced
<1> HIDE DEF T
<1>6. \E x \in T : \A y \in T : y <= x
  BY <1>1, <1>3, Maximum
<1>7. Reduced(w, m) \in T
  BY <1>4, <1>5, <1>6
<1> QED
  BY <1>1, <1>7

-----------------------------------------------------------------------------
(* The shards of the workers and their rounds                                *)

BatchReady ==
  /\ StepType /\ Lists(batch, RowSet)
  /\ Len(batch) = shape.prompts * shape.n /\ Len(batch) % DpSize = 0

\* The batch can be cut into one chunk for every rank.
LEMMA BatchFacts ==
  ASSUME BatchReady
  PROVE  /\ Chunkable(batch, DpSize, RowSet)
         /\ batch \in Seq(RowSet) /\ Len(batch) \in Nat \ {0} /\ DpSize \in Nat \ {0}
<1>1. batch \in Seq(RowSet)
  BY DEF BatchReady, Lists
<1>2. Len(batch) \in Nat \ {0} /\ DpSize \in Nat \ {0}
  BY ShapeFacts DEF BatchReady
<1>3. Len(batch) > 0
  BY <1>2
<1> QED
  BY <1>1, <1>2, <1>3 DEF Chunkable, BatchReady

\* A worker gets rows of the batch, every one once and as many as the others.
LEMMA ShardFacts ==
  ASSUME BatchReady, NEW w \in Workers
  PROVE  /\ ShardOf(w) \in Seq(RowSet) /\ Len(ShardOf(w)) = Len(batch) \div DpSize
         /\ Len(batch) \div DpSize \in Nat \ {0}
         /\ \E A : Lists(ShardOf(w), A)
<1>1. DpSize \in Nat \ {0} /\ Chunkable(batch, DpSize, RowSet) /\ Len(batch) \in Nat \ {0}
  BY BatchFacts
<1>2. PICK c \in 1 .. DpSize : DpRank(w) = c - 1
  <2>1. DpRank(w) \in 0 .. DpSize - 1
    BY WorkersAre DEF BatchReady
  <2>2. DpRank(w) + 1 \in 1 .. DpSize /\ DpRank(w) = (DpRank(w) + 1) - 1
    BY <1>1, <2>1
  <2> QED
    BY <2>2
<1>3. ShardOf(w) = Chunk(batch, DpSize, c - 1)
  BY <1>2 DEF ShardOf
<1>4. IsChunk(ShardOf(w), batch, c, Len(batch) \div DpSize, RowSet)
  BY <1>1, <1>3, ChunksAre
<1>5. Len(batch) \div DpSize \in Nat \ {0}
  BY <1>1, ChunkSize
<1>6. PICK parts : parts = [r \in 1 .. DpSize |-> Chunk(batch, DpSize, r - 1)]
  OBVIOUS
<1>7. Splits(parts, DpSize, RowSet)
  <2>1. Lists(batch, RowSet) /\ Len(batch) % DpSize = 0 /\ Len(batch) > 0
    BY <1>1 DEF BatchReady
  <2> QED
    BY <1>1, <1>6, <2>1, ChunksSplit
<1>8. PICK A : Shares(parts, A, DpSize, RowSet)
  <2>1. DpSize \in Nat
    BY <1>1
  <2> QED
    BY <1>7, <2>1, SplitsShare
<1>9. Lists(parts[c], A[c])
  BY <1>8 DEF Shares
<1>10. parts[c] = ShardOf(w)
  BY <1>3, <1>6
<1> QED
  BY <1>4, <1>5, <1>9, <1>10 DEF IsChunk

\* The mini-batches of a worker hold every row of its shard once.
LEMMA MinisOfShard ==
  ASSUME BatchReady, NEW w \in Workers, rows[w] = ShardOf(w), NEW A, Lists(ShardOf(w), A),
         NEW parts, parts = [m \in 1 .. MiniBatches |-> Split(rows[w], MiniRows, m)]
  PROVE  /\ MiniBatches \in Nat \ {0} /\ Splits(parts, MiniBatches, A)
         /\ \A m \in 1 .. MiniBatches : Len(parts[m]) > 0
<1>1. MiniRows \in Nat \ {0}
  BY ShapeFacts DEF BatchReady
<1>2. Len(rows[w]) = Len(batch) \div DpSize /\ Len(batch) \div DpSize \in Nat \ {0}
  BY ShardFacts
<1>3. PICK data, size, k : data = rows[w] /\ size = MiniRows /\ k = MiniBatches
  OBVIOUS
<1>4. k = ceildiv(Len(data), size)
  BY <1>2, <1>3 DEF MiniBatches
<1>5. Lists(data, A) /\ Len(data) > 0
  BY <1>2, <1>3
<1>6. parts = [m \in 1 .. k |-> Split(data, size, m)]
  BY <1>3
<1>7. size \in Nat \ {0}
  BY <1>1, <1>3
<1>9. Pieces(parts, data, size, k)
  BY <1>4, <1>6 DEF Pieces
<1>8. /\ k \in Nat \ {0} /\ Splits(parts, k, A)
      /\ \A m \in 1 .. k : Len(parts[m]) > 0
  BY <1>5, <1>7, <1>9, PiecesOfSize
<1> QED
  BY <1>3, <1>8

\* No round of a worker is without rows.
LEMMA RoundFacts ==
  ASSUME BatchReady, NEW w \in Workers, rows[w] = ShardOf(w)
  PROVE  /\ MiniBatches \in Nat \ {0}
         /\ \A m \in 1 .. 1 + MiniBatches : /\ RoundRows(w, m) \in Seq(RowSet)
                                            /\ Len(RoundRows(w, m)) \in Nat \ {0}
<1>1. PICK A : Lists(ShardOf(w), A)
  BY ShardFacts
<1>2. PICK parts : parts = [m \in 1 .. MiniBatches |-> Split(rows[w], MiniRows, m)]
  OBVIOUS
<1>3. /\ MiniBatches \in Nat \ {0} /\ Splits(parts, MiniBatches, A)
      /\ \A m \in 1 .. MiniBatches : Len(parts[m]) > 0
  BY <1>1, <1>2, MinisOfShard
<1>4. A \subseteq RowSet
  <2>1. ASSUME NEW x \in A PROVE x \in RowSet
    <3>1. PICK i \in 1 .. Len(ShardOf(w)) : ShardOf(w)[i] = x
      BY <1>1 DEF Lists
    <3>2. ShardOf(w) \in Seq(RowSet)
      BY ShardFacts
    <3> QED
      BY <3>1, <3>2
  <2> QED
    BY <2>1
<1>5. ASSUME NEW m \in 1 .. 1 + MiniBatches
      PROVE  RoundRows(w, m) \in Seq(RowSet) /\ Len(RoundRows(w, m)) \in Nat \ {0}
  <2>1. CASE m = 1
    <3>1. RoundRows(w, m) = ShardOf(w)
      BY <2>1 DEF RoundRows
    <3> QED
      BY <3>1, ShardFacts
  <2>2. CASE m # 1
    <3>1. m - 1 \in 1 .. MiniBatches
      BY <1>3, <2>2
    <3>2. RoundRows(w, m) = parts[m - 1]
      BY <1>2, <2>2, <3>1 DEF RoundRows
    <3>3. PICK p : p = parts[m - 1] /\ Len(p) > 0
      BY <1>3, <3>1
    <3>4. p \in Seq(A) /\ Len(p) \in Nat
      <4>1. MiniBatches \in Nat
        BY <1>3
      <4> QED
        BY <1>3, <3>1, <3>3, <4>1, SplitType
    <3>5. p \in Seq(RowSet)
      BY <1>4, <3>4, WiderSeq
    <3>6. Len(p) # 0
      BY <3>3, <3>4
    <3> QED
      BY <3>2, <3>3, <3>4, <3>5, <3>6
  <2> QED
    BY <2>1, <2>2
<1> QED
  BY <1>3, <1>5

-----------------------------------------------------------------------------
(* What comes back                                                           *)

\* The micro-batches of a round hold each of its rows once.
RoundSplit(w, m) == \E num \in Nat : Splits(micro[w][m], num, 1 .. Len(RoundRows(w, m)))

\* restore_dynamic_batch undoes the micro-batches: what a worker returns is in the
\* order of its shard.
LEMMA LogProbsAre ==
  ASSUME BatchReady, NEW w \in Workers, rows[w] = ShardOf(w), RoundSplit(w, 1)
  PROVE  LogProbs(w) = ShardOf(w)
<1>1. PICK data \in Seq(RowSet) : data = rows[w]
  BY ShardFacts
<1>2. RoundRows(w, 1) = data
  BY <1>1 DEF RoundRows
<1>3. PICK num \in Nat : Splits(micro[w][1], num, 1 .. Len(data))
  BY <1>2 DEF RoundSplit
<1>4. PICK list : list = micro[w][1]
  OBVIOUS
<1>5. PICK idx : idx = FlattenSeq(list)
  OBVIOUS
<1>6. PICK out : out = [j \in DOMAIN idx |-> data[idx[j]]]
  OBVIOUS
<1>7. restore_dynamic_batch(out, list) = data
  BY <1>3, <1>4, <1>5, <1>6, Restored
<1>8. LogProbs(w) = restore_dynamic_batch(out, list)
  BY <1>1, <1>4, <1>5, <1>6 DEF LogProbs
<1> QED
  BY <1>1, <1>7, <1>8

\* What the collecting workers return, joined, is the batch in its order.
LEMMA CollectedIs ==
  ASSUME BatchReady, \A w \in Workers : rows[w] = ShardOf(w) /\ RoundSplit(w, 1)
  PROVE  Collected = batch
<1>1. PICK k : k = DpSize
  OBVIOUS
<1>2. ASSUME NEW r \in 1 .. k
      PROVE  LogProbs(CHOOSE w \in Workers : IsCollect(w) /\ DpRank(w) = r - 1) = Chunk(batch, k, r - 1)
  <2>1. \E w \in Workers : IsCollect(w) /\ DpRank(w) = r - 1
    BY <1>1, <1>2, WorkersAre DEF BatchReady
  <2>2. PICK w \in Workers : /\ w = CHOOSE u \in Workers : IsCollect(u) /\ DpRank(u) = r - 1
                             /\ DpRank(w) = r - 1
    BY <2>1
  <2>3. LogProbs(w) = ShardOf(w)
    BY LogProbsAre
  <2>4. ShardOf(w) = Chunk(batch, k, r - 1)
    BY <1>1, <2>2 DEF ShardOf
  <2> QED
    BY <2>2, <2>3, <2>4
<1>3. Collected = FlattenSeq([r \in 1 .. k |-> Chunk(batch, k, r - 1)])
  BY <1>1, <1>2 DEF Collected
<1>4. Chunkable(batch, k, RowSet)
  BY <1>1, BatchFacts
<1> QED
  BY <1>3, <1>4, ChunksJoined

-----------------------------------------------------------------------------
(* What is trained                                                           *)

RoundTrained(w, m) ==
  LET idx == FlattenSeq(micro[w][m]) IN [j \in DOMAIN idx |-> RoundRows(w, m)[idx[j]]]
WorkerTrained(w) == FlattenSeq([m \in 1 .. MiniBatches |-> RoundTrained(w, m + 1)])

\* A round trains on its rows, in the order of the micro-batches.
LEMMA RoundTrainedIs ==
  ASSUME BatchReady, NEW w \in Workers, rows[w] = ShardOf(w), NEW m \in 1 .. 1 + MiniBatches, RoundSplit(w, m)
  PROVE  Rearranges(RoundTrained(w, m), RoundRows(w, m))
<1>1. PICK data : data = RoundRows(w, m)
  OBVIOUS
<1>2. Len(data) \in Nat
  BY <1>1, RoundFacts
<1>3. PICK idx : idx = FlattenSeq(micro[w][m])
  OBVIOUS
<1>4. Lists(idx, 1 .. Len(data))
  BY <1>1, <1>3, FlattenLists DEF RoundSplit
<1>5. Rearranges([j \in DOMAIN idx |-> data[idx[j]]], data)
  BY <1>2, <1>4, Permuted
<1> QED
  BY <1>1, <1>3, <1>5 DEF RoundTrained

\* A worker trains on every row of its shard once.
LEMMA WorkerTrainedIs ==
  ASSUME BatchReady, NEW w \in Workers, rows[w] = ShardOf(w), NEW A, Lists(ShardOf(w), A),
         \A m \in 1 .. 1 + MiniBatches : RoundSplit(w, m)
  PROVE  Lists(WorkerTrained(w), A)
<1>1. PICK parts : parts = [m \in 1 .. MiniBatches |-> Split(rows[w], MiniRows, m)]
  OBVIOUS
<1>2. MiniBatches \in Nat \ {0} /\ Splits(parts, MiniBatches, A)
  BY <1>1, MinisOfShard
<1>3. PICK k \in Nat : k = MiniBatches
  BY <1>2
<1>4. PICK new : new = [m \in 1 .. k |-> RoundTrained(w, m + 1)]
  OBVIOUS
<1>5. ASSUME NEW m \in 1 .. k PROVE Rearranges(new[m], parts[m])
  <2>1. m + 1 \in 1 .. 1 + MiniBatches /\ m + 1 # 1 /\ (m + 1) - 1 = m
    BY <1>3
  <2>2. PICK h \in 1 .. 1 + MiniBatches : h = m + 1 /\ h # 1 /\ h - 1 = m
    BY <2>1
  <2>3. Rearranges(RoundTrained(w, h), RoundRows(w, h))
    BY RoundTrainedIs
  <2>4. RoundRows(w, h) = parts[m]
    BY <1>1, <1>3, <2>2 DEF RoundRows
  <2>5. new[m] = RoundTrained(w, h)
    BY <1>4, <2>2
  <2> QED
    BY <2>3, <2>4, <2>5
<1>6. DOMAIN new = 1 .. k /\ new = [m \in 1 .. k |-> new[m]]
  BY <1>4
<1>7. Splits(new, k, A)
  BY <1>2, <1>3, <1>5, <1>6, EachPartRearranged
<1>8. Lists(FlattenSeq(new), A)
  BY <1>7, FlattenLists
<1> QED
  BY <1>3, <1>4, <1>8 DEF WorkerTrained

\* All workers together train on every row of the batch once.
LEMMA TrainedIs ==
  ASSUME BatchReady, \A w \in Workers : rows[w] = ShardOf(w),
         \A w \in Workers : \A m \in 1 .. 1 + MiniBatches : RoundSplit(w, m)
  PROVE  /\ Len(TrainedRows) = shape.prompts * shape.n
         /\ ToSet(TrainedRows) = DOMAIN seqlen
<1>1. PICK k \in Nat : k = DpSize
  BY BatchFacts
<1>2. PICK parts : parts = [c \in 1 .. k |-> Chunk(batch, k, c - 1)]
  OBVIOUS
<1>3. Splits(parts, k, RowSet)
  <2>1. Lists(batch, RowSet) /\ Len(batch) % k = 0 /\ Len(batch) > 0 /\ k \in Nat \ {0}
    BY <1>1, BatchFacts DEF BatchReady
  <2> QED
    BY <1>2, <2>1, ChunksSplit
<1>4. PICK A : Shares(parts, A, k, RowSet)
  BY <1>3, SplitsShare
<1>5. PICK new : new = [r \in 1 .. k |-> WorkerTrained((r - 1) * shape.sp)]
  OBVIOUS
<1>6. TrainedRows = FlattenSeq(new)
  BY <1>1, <1>5 DEF TrainedRows, WorkerTrained, RoundTrained
<1>7. ASSUME NEW r \in 1 .. k PROVE Lists(new[r], A[r]) /\ A[r] \subseteq RowSet
  <2>1. PICK w \in Workers : w = (r - 1) * shape.sp /\ DpRank(w) = r - 1
    BY <1>1, WorkersAre DEF BatchReady
  <2>2. ShardOf(w) = parts[r]
    BY <1>1, <1>2, <2>1 DEF ShardOf
  <2>3. Lists(ShardOf(w), A[r]) /\ A[r] \subseteq RowSet
    BY <1>4, <2>2 DEF Shares
  <2>4. Lists(WorkerTrained(w), A[r])
    BY <2>3, WorkerTrainedIs
  <2> QED
    BY <1>5, <2>1, <2>3, <2>4
<1>8. Shares(new, A, k, RowSet)
  <2>1. /\ \A i, h \in 1 .. k : \A x \in A[i] : x \in A[h] => i = h
        /\ \A x \in RowSet : \E i \in 1 .. k : x \in A[i]
    BY <1>4 DEF Shares
  <2>2. new = [r \in 1 .. k |-> new[r]]
    BY <1>5
  <2> QED
    BY <1>7, <2>1, <2>2 DEF Shares
<1>9. Splits(new, k, RowSet)
  BY <1>8, SharesSplit
<1>10. Lists(TrainedRows, RowSet)
  BY <1>6, <1>9, FlattenLists
<1>11. Len(TrainedRows) = Len(batch)
  BY <1>10, SameLength DEF BatchReady
<1>12. ToSet(TrainedRows) = RowSet
  <2>1. /\ TrainedRows \in Seq(RowSet)
        /\ \A x \in RowSet : \E i \in 1 .. Len(TrainedRows) : TrainedRows[i] = x
    BY <1>10 DEF Lists
  <2>2. DOMAIN TrainedRows = 1 .. Len(TrainedRows) /\ \A i \in 1 .. Len(TrainedRows) : TrainedRows[i] \in RowSet
    BY <2>1, SeqIsFunction
  <2> QED
    BY <2>1, <2>2 DEF ToSet
<1>13. DOMAIN seqlen = RowSet
  BY DEF BatchReady, StepType
<1> QED
  BY <1>11, <1>12, <1>13 DEF BatchReady

-----------------------------------------------------------------------------
(* The invariant                                                             *)

Stages == {"idle", "generated", "balanced", "raised", "log_prob", "update", "done", "validated"}

WorkersInv ==
  /\ rows = [w \in Workers |-> ShardOf(w)]
  /\ want \in [Workers -> Seq(Nat \ {0})]
  /\ micro \in [Workers -> Seq(Seq(Seq(Nat)))]
  /\ \A w \in Workers : Len(want[w]) <= RoundsDue
  /\ \A w, u \in Workers : Len(micro[w]) <= Len(want[u])
  /\ \A w \in Workers : \A m \in 1 .. Len(micro[w]) :
       Splits(micro[w][m], Reduced(w, m), 1 .. Len(RoundRows(w, m)))

FlowInv ==
  /\ stage \in Stages
  /\ stage \notin {"idle", "validated"} => StepType
  /\ stage = "generated" => batch = Repeated(shape.prompts, shape.n)
  /\ stage \in {"balanced", "log_prob", "update", "done"} => BatchReady
  /\ stage \in {"log_prob", "update", "done"} => WorkersInv
  /\ RowsMatch /\ ValRowsMatch
  /\ stage = "done" => \A w \in Workers : Len(micro[w]) = 1 + MiniBatches

\* The types of what a worker holds
LEMMA Counted ==
  ASSUME WorkersInv, NEW w \in Workers
  PROVE  /\ rows[w] = ShardOf(w)
         /\ want[w] \in Seq(Nat \ {0}) /\ Len(want[w]) \in Nat
         /\ micro[w] \in Seq(Seq(Seq(Nat))) /\ Len(micro[w]) \in Nat
<1>1. want[w] \in Seq(Nat \ {0}) /\ micro[w] \in Seq(Seq(Seq(Nat)))
  BY DEF WorkersInv
<1>2. rows[w] = ShardOf(w)
  BY DEF WorkersInv
<1> QED
  BY <1>1, <1>2, SeqIsFunction

\* A round a worker has finished split its rows.
LEMMA RoundsSplit ==
  ASSUME BatchReady, WorkersInv, NEW w \in Workers, NEW m \in 1 .. Len(micro[w])
  PROVE  /\ Reduced(w, m) \in Nat \ {0} /\ RoundSplit(w, m)
         /\ \A u \in Workers : m \in 1 .. Len(want[u])
<1>1. ASSUME NEW u \in Workers PROVE m \in 1 .. Len(want[u]) /\ want[u][m] \in Nat \ {0}
  <2>1. Len(micro[w]) <= Len(want[u]) /\ Len(micro[w]) \in Nat /\ Len(want[u]) \in Nat
    BY Counted DEF WorkersInv
  <2>2. m \in 1 .. Len(want[u])
    BY <2>1
  <2>3. want[u] \in Seq(Nat \ {0})
    BY Counted
  <2> QED
    BY <2>2, <2>3, SeqIsFunction
<1>2. Reduced(w, m) \in Nat \ {0}
  <2>1. m \in Nat
    BY Counted
  <2> QED
    BY <1>1, <2>1, ReducedType DEF BatchReady
<1>3. Splits(micro[w][m], Reduced(w, m), 1 .. Len(RoundRows(w, m)))
  BY DEF WorkersInv
<1> QED
  BY <1>1, <1>2, <1>3 DEF RoundSplit

\* There is a mini-batch at least, and a round due.
LEMMA RoundsNumber ==
  ASSUME BatchReady, WorkersInv
  PROVE  MiniBatches \in Nat \ {0} /\ RoundsDue \in 1 .. 1 + MiniBatches
<1>1. PICK w \in Workers : TRUE
  BY WorkersAre DEF BatchReady
<1>2. MiniBatches \in Nat \ {0}
  BY Counted, RoundFacts
<1> QED
  BY <1>2 DEF RoundsDue

-----------------------------------------------------------------------------
(* What a step leaves alone                                                  *)

\* A step that leaves the shape alone leaves the workers and the rows alone.
LEMMA SameStep ==
  ASSUME UNCHANGED stepVars
  PROVE  /\ StepType' <=> StepType
         /\ Workers' = Workers /\ RowSet' = RowSet /\ MiniRows' = MiniRows
BY DEF stepVars, StepType, RowSet, Workers, MiniRows

\* ... with the batch, its shards,
LEMMA SameBatch ==
  ASSUME UNCHANGED <<stepVars, batch>>
  PROVE  /\ BatchReady' <=> BatchReady
         /\ MiniBatches' = MiniBatches
         /\ \A w : ShardOf(w)' = ShardOf(w)
<1>1. /\ StepType' <=> StepType
      /\ RowSet' = RowSet /\ MiniRows' = MiniRows /\ shape' = shape /\ batch' = batch
  BY SameStep DEF stepVars
<1>2. BatchReady' <=> BatchReady
  BY <1>1 DEF BatchReady
<1>3. MiniBatches' = MiniBatches
  BY <1>1 DEF MiniBatches
<1>4. \A w : ShardOf(w)' = ShardOf(w)
  BY <1>1 DEF ShardOf, DpRank
<1> QED
  BY <1>2, <1>3, <1>4

\* ... and with the shards, the rows of every round.
LEMMA SameRows ==
  ASSUME UNCHANGED <<stepVars, batch, rows>>
  PROVE  \A w, m : RoundRows(w, m)' = RoundRows(w, m)
BY SameStep DEF RoundRows

\* The invariant of the workers holds on as long as enough rounds are due.
LEMMA SameWorkers ==
  ASSUME UNCHANGED <<stepVars, batch, workerVars>>, WorkersInv,
         \A w \in Workers : Len(want[w]) <= RoundsDue'
  PROVE  WorkersInv'
<1>1. /\ rows' = rows /\ want' = want /\ micro' = micro
      /\ Workers' = Workers /\ \A w : ShardOf(w)' = ShardOf(w)
  BY SameStep, SameBatch DEF workerVars
<1>2. \A w, m : RoundRows(w, m)' = RoundRows(w, m)
  BY SameRows DEF workerVars
<1>3. \A w, m : Reduced(w, m)' = Reduced(w, m)
  BY <1>1 DEF Reduced
<1> QED
  BY <1>1, <1>2, <1>3 DEF WorkersInv

-----------------------------------------------------------------------------
(* The steps                                                                 *)

\* The invariant holds before the step begins.
LEMMA FlowStarts == ASSUME FlowInit PROVE FlowInv
BY DEF FlowInit, FlowInv, Stages, RowsMatch, ValRowsMatch

\* The responses come back: every row has its length.
LEMMA GenerateKeeps == ASSUME FlowInv, Generate PROVE FlowInv'
<1>1. PICK s \in Shapes, b \in Balancing :
        /\ shape' = s /\ balancing' = b
        /\ batch' = Repeated(s.prompts, s.n)
        /\ seqlen' \in [(0 .. s.prompts - 1) \X (0 .. s.n - 1) -> s.lens]
  BY DEF Generate
<1>2. stage' = "generated"
  BY DEF Generate
<1>3. s.lens \subseteq 1 .. MaxTokens
  BY FlowAssumption
<1>4. seqlen' \in [(0 .. s.prompts - 1) \X (0 .. s.n - 1) -> 1 .. MaxTokens]
  BY <1>1, <1>3
<1>5. StepType'
  BY <1>1, <1>4 DEF StepType, RowSet
<1> QED
  BY <1>1, <1>2, <1>5 DEF FlowInv, Stages, RowsMatch, ValRowsMatch

\* _balance_batch keeps every row.
LEMMA BalanceKeeps == ASSUME FlowInv, Balance PROVE FlowInv'
<1>1. /\ stage = "generated" /\ stage' = "balanced" /\ UNCHANGED stepVars
      /\ Len(batch) % DpSize = 0
      /\ balancing = "group" => shape.prompts % DpSize = 0
  BY DEF Balance
<1>2. StepType /\ batch = Repeated(shape.prompts, shape.n)
  BY <1>1 DEF FlowInv
<1>3. PICK idx : idx = FlattenSeq(PartitionOrder)
  OBVIOUS
<1>4. batch' = [j \in DOMAIN idx |-> batch[idx[j]]]
  BY <1>3 DEF Balance, Reordered
<1>5. Lists(idx, 1 .. Len(batch))
  BY <1>1, <1>2, <1>3, OrderOfBatch
<1>6. DOMAIN idx = 1 .. Len(idx)
  BY <1>5, ListLength
<1>7. Lists(batch, RowSet) /\ Len(batch) = shape.prompts * shape.n
  BY <1>2, RepeatedFacts
<1>8. Lists(batch', RowSet)
  BY <1>4, <1>5, <1>6, <1>7, ListsThrough
<1>9. Len(batch') = Len(batch)
  BY <1>7, <1>8, SameLength
<1>10. StepType' /\ RowSet' = RowSet /\ shape' = shape
  BY <1>1, <1>2, SameStep DEF stepVars
<1>11. BatchReady'
  BY <1>1, <1>7, <1>8, <1>9, <1>10 DEF BatchReady
<1> QED
  BY <1>1, <1>10, <1>11 DEF FlowInv, Stages, RowsMatch, ValRowsMatch

\* A batch that cannot be balanced goes nowhere.
LEMMA RaisesKeeps == ASSUME FlowInv, BalanceRaises PROVE FlowInv'
<1>1. stage = "generated" /\ stage' = "raised" /\ UNCHANGED stepVars
  BY DEF BalanceRaises
<1>2. StepType'
  BY <1>1, SameStep DEF FlowInv
<1> QED
  BY <1>1, <1>2 DEF FlowInv, Stages, RowsMatch, ValRowsMatch

\* Every worker starts with its shard and no micro-batch.
LEMMA DispatchKeeps == ASSUME FlowInv, Dispatch PROVE FlowInv'
<1>1. /\ stage = "balanced" /\ stage' = "log_prob" /\ UNCHANGED <<stepVars, batch>>
      /\ rows' = [w \in Workers |-> ShardOf(w)]
      /\ want' = [w \in Workers |-> <<>>] /\ micro' = [w \in Workers |-> <<>>]
  BY DEF Dispatch
<1>2. StepType /\ BatchReady
  BY <1>1 DEF FlowInv
<1>6. StepType' /\ BatchReady' /\ Workers' = Workers /\ \A w : ShardOf(w)' = ShardOf(w)
  <2>1. UNCHANGED stepVars /\ UNCHANGED <<stepVars, batch>>
    BY <1>1
  <2>2. StepType' /\ Workers' = Workers
    BY <1>2, <2>1, SameStep
  <2>3. BatchReady' /\ MiniBatches' = MiniBatches /\ \A w : ShardOf(w)' = ShardOf(w)
    BY <1>2, <2>1, SameBatch
  <2> QED
    BY <2>2, <2>3
<1>3. RoundsDue' = 1
  BY <1>1 DEF RoundsDue
<1>4. <<>> \in Seq(Nat \ {0}) /\ <<>> \in Seq(Seq(Seq(Nat))) /\ Len(<<>>) = 0 /\ 0 <= 1 /\ 0 <= 0
  OBVIOUS
<1>5. WorkersInv'
  <2>1. rows' = [w \in Workers' |-> ShardOf(w)']
    BY <1>1, <1>6
  <2>2. want' \in [Workers' -> Seq(Nat \ {0})] /\ micro' \in [Workers' -> Seq(Seq(Seq(Nat)))]
    BY <1>1, <1>6, <1>4
  <2>3. \A w \in Workers' : want'[w] = <<>> /\ micro'[w] = <<>>
    BY <1>1, <1>6
  <2>4. \A w \in Workers' : Len(want'[w]) <= RoundsDue'
    BY <1>3, <1>4, <2>3
  <2>5. \A w, u \in Workers' : Len(micro'[w]) <= Len(want'[u])
    BY <1>4, <2>3
  <2>6. ASSUME NEW w \in Workers', NEW m \in 1 .. Len(micro'[w]) PROVE FALSE
    <3>1. m \in 1 .. 0
      BY <1>4, <2>3
    <3> QED
      BY <3>1
  <2> QED
    BY <2>1, <2>2, <2>4, <2>5, <2>6 DEF WorkersInv
<1> QED
  BY <1>1, <1>6, <1>5 DEF FlowInv, Stages, RowsMatch, ValRowsMatch

\* The collected log-probabilities are in the order of the batch.
LEMMA CollectKeeps == ASSUME FlowInv, Collect PROVE FlowInv'
<1>1. /\ stage = "log_prob" /\ stage' = "update" /\ UNCHANGED <<stepVars, batch, workerVars>>
      /\ logp' = Collected /\ \A w \in Workers : Len(micro[w]) = 1
  BY DEF Collect
<1>2. StepType /\ BatchReady /\ WorkersInv
  BY <1>1 DEF FlowInv
<1>3. StepType' /\ BatchReady' /\ MiniBatches' = MiniBatches
  <2>1. UNCHANGED stepVars /\ UNCHANGED <<stepVars, batch>>
    BY <1>1
  <2>2. StepType' /\ Workers' = Workers
    BY <1>2, <2>1, SameStep
  <2>3. BatchReady' /\ MiniBatches' = MiniBatches /\ \A w : ShardOf(w)' = ShardOf(w)
    BY <1>2, <2>1, SameBatch
  <2> QED
    BY <2>2, <2>3
<1>4. ASSUME NEW w \in Workers PROVE rows[w] = ShardOf(w) /\ RoundSplit(w, 1)
  <2>a. Len(micro[w]) = 1
    BY <1>1
  <2>1. 1 \in 1 .. Len(micro[w])
    BY <2>a
  <2> QED
    BY <1>2, <2>1, Counted, RoundsSplit
<1>5. Collected = batch
  BY <1>2, <1>4, CollectedIs
<1>6. ASSUME NEW w \in Workers PROVE Len(want[w]) <= RoundsDue'
  <2>1. RoundsDue' = 1 + MiniBatches /\ MiniBatches \in Nat
    BY <1>1, <1>2, <1>3, RoundsNumber DEF RoundsDue
  <2>2. Len(want[w]) <= 1
    BY <1>1, <1>2 DEF WorkersInv, RoundsDue
  <2>3. Len(want[w]) \in Nat
    BY <1>2, Counted
  <2> QED
    BY <2>1, <2>2, <2>3
<1>7. WorkersInv'
  BY <1>1, <1>2, <1>6, SameWorkers
<1> QED
  BY <1>1, <1>3, <1>5, <1>7 DEF FlowInv, Stages, RowsMatch, ValRowsMatch

\* When all workers have returned, all rounds are done.
LEMMA UpdatedKeeps == ASSUME FlowInv, Updated PROVE FlowInv'
<1>1. /\ stage = "update" /\ stage' = "done" /\ UNCHANGED <<stepVars, batch, logp, workerVars>>
      /\ \A w \in Workers : Len(micro[w]) = RoundsDue
  BY DEF Updated
<1>2. StepType /\ BatchReady /\ WorkersInv /\ logp = batch
  BY <1>1 DEF FlowInv, RowsMatch
<1>3. StepType' /\ BatchReady' /\ MiniBatches' = MiniBatches /\ Workers' = Workers
  <2>1. UNCHANGED stepVars /\ UNCHANGED <<stepVars, batch>>
    BY <1>1
  <2>2. StepType' /\ Workers' = Workers
    BY <1>2, <2>1, SameStep
  <2>3. BatchReady' /\ MiniBatches' = MiniBatches /\ \A w : ShardOf(w)' = ShardOf(w)
    BY <1>2, <2>1, SameBatch
  <2> QED
    BY <2>2, <2>3
<1>4. RoundsDue' = RoundsDue /\ RoundsDue = 1 + MiniBatches
  BY <1>1, <1>3 DEF RoundsDue
<1>5. WorkersInv'
  <2>1. \A w \in Workers : Len(want[w]) <= RoundsDue'
    BY <1>2, <1>4 DEF WorkersInv
  <2> QED
    BY <1>1, <1>2, <2>1, SameWorkers
<1>6. \A w \in Workers' : Len(micro'[w]) = 1 + MiniBatches'
  BY <1>1, <1>3, <1>4 DEF workerVars
<1> QED
  BY <1>1, <1>2, <1>3, <1>5, <1>6 DEF FlowInv, Stages, RowsMatch, ValRowsMatch

\* A validation batch comes back unpadded as it was.
LEMMA ValidationKeeps == ASSUME FlowInv, Validation PROVE FlowInv'
<1>1. PICK n \in 1 .. ValRows, k \in 1 .. ValWorkers :
        LET data == [i \in 1 .. n |-> i]
            chunks == [c \in 1 .. k |-> Chunk(Padded(data, k), k, c - 1)]
        IN val' = [rows |-> data, out |-> Unpad(FlattenSeq(chunks), PadSize(n, k))]
  BY DEF Validation
<1>2. stage' = "validated"
  BY DEF Validation
<1>3. PICK data : data = [i \in 1 .. n |-> i]
  OBVIOUS
<1>4. PICK chunks : chunks = [c \in 1 .. k |-> Chunk(Padded(data, k), k, c - 1)]
  OBVIOUS
<1>5. val' = [rows |-> data, out |-> Unpad(FlattenSeq(chunks), PadSize(n, k))]
  BY <1>1, <1>3, <1>4
<1>6. n \in Nat \ {0} /\ k \in Nat \ {0}
  BY FlowAssumption
<1>7. Unpad(FlattenSeq(chunks), PadSize(n, k)) = data
  BY <1>3, <1>4, <1>6, UnpaddedAgain
<1>8. val'.out = val'.rows
  BY <1>5, <1>7
<1> QED
  BY <1>2, <1>8 DEF FlowInv, Stages, RowsMatch, ValRowsMatch

\* An element appended to one of the sequences of a function
LEMMA AppendedAt ==
  ASSUME NEW S, NEW W, NEW f \in [W -> Seq(S)], NEW w \in W, NEW x \in S,
         NEW g, g = [f EXCEPT ![w] = Append(@, x)]
  PROVE  /\ g \in [W -> Seq(S)]
         /\ Len(g[w]) = Len(f[w]) + 1 /\ g[w][Len(f[w]) + 1] = x
         /\ \A u \in W : /\ Len(f[u]) \in Nat /\ Len(g[u]) \in Nat /\ Len(f[u]) <= Len(g[u])
                         /\ u # w => g[u] = f[u]
                         /\ \A i \in 1 .. Len(f[u]) : g[u][i] = f[u][i]
<1>1. f[w] \in Seq(S) /\ g[w] = Append(f[w], x)
  OBVIOUS
<1>2. PICK s \in Seq(S) : s = f[w]
  BY <1>1
<1>3. /\ Append(s, x) \in Seq(S) /\ Len(Append(s, x)) = Len(s) + 1 /\ Append(s, x)[Len(s) + 1] = x
      /\ \A i \in 1 .. Len(s) : Append(s, x)[i] = s[i]
      /\ Len(s) \in Nat
  OBVIOUS
<1>4. g \in [W -> Seq(S)]
  BY <1>1, <1>2, <1>3
<1>5. ASSUME NEW u \in W
      PROVE  /\ Len(f[u]) \in Nat /\ Len(g[u]) \in Nat /\ Len(f[u]) <= Len(g[u])
             /\ u # w => g[u] = f[u]
             /\ \A i \in 1 .. Len(f[u]) : g[u][i] = f[u][i]
  <2>1. CASE u = w
    <3>1. f[u] = s /\ g[u] = Append(s, x)
      BY <1>1, <1>2, <2>1
    <3>2. Len(Append(s, x)) \in Nat /\ Len(s) <= Len(Append(s, x))
      BY <1>3
    <3> QED
      BY <1>3, <2>1, <3>1, <3>2
  <2>2. CASE u # w
    <3>1. g[u] = f[u]
      BY <2>2
    <3>2. Len(f[u]) \in Nat
      OBVIOUS
    <3> QED
      BY <3>1, <3>2
  <2> QED
    BY <2>1, <2>2
<1> QED
  BY <1>1, <1>2, <1>3, <1>4, <1>5

\* The lengths of the rows of a round, as the micro-batches are cut from them
LEMMA RoundLengths ==
  ASSUME BatchReady, WorkersInv, NEW w \in Workers, NEW m \in 1 .. 1 + MiniBatches
  PROVE  /\ LenOf(RoundRows(w, m)) \in Seq(Nat \ {0}) /\ LenOf(RoundRows(w, m)) \in Seq(Nat)
         /\ Len(LenOf(RoundRows(w, m))) = Len(RoundRows(w, m))
         /\ Len(RoundRows(w, m)) > 0
         /\ MaxTokens \in Nat \ {0}
<1>1. RoundRows(w, m) \in Seq(RowSet) /\ Len(RoundRows(w, m)) \in Nat \ {0}
  BY Counted, RoundFacts
<1>2. PICK rs \in Seq(RowSet) : rs = RoundRows(w, m) /\ Len(rs) \in Nat \ {0}
  BY <1>1
<1>3. LenOf(rs) \in Seq(Nat \ {0}) /\ LenOf(rs) \in Seq(Nat) /\ Len(LenOf(rs)) = Len(rs)
  BY LengthsType DEF BatchReady
<1>4. MaxTokens \in Nat \ {0}
  <2>1. Len(rs) \in Nat \ {0} /\ 1 \in 1 .. Len(rs)
    BY <1>2
  <2>2. rs[1] \in RowSet
    BY <2>1, SeqIsFunction
  <2>3. seqlen[rs[1]] \in 1 .. MaxTokens
    BY <2>2 DEF BatchReady, StepType
  <2> QED
    BY <2>3, FlowAssumption
<1>5. Len(rs) > 0
  BY <1>2
<1> QED
  BY <1>2, <1>3, <1>4, <1>5

\* A worker's number of micro-batches does not change those already reduced.
LEMMA AllReduceKeeps == ASSUME FlowInv, NEW w \in Workers, AllReduce(w) PROVE FlowInv'
<1>1. PICK m : m = Len(micro[w]) + 1
  OBVIOUS
<1>2. PICK x : x = MicroNum(LenOf(RoundRows(w, m)), MaxTokens)
  OBVIOUS
<1>3. /\ stage \in {"log_prob", "update"} /\ m <= RoundsDue /\ Len(want[w]) < m
      /\ want' = [want EXCEPT ![w] = Append(@, x)]
      /\ UNCHANGED <<stage, stepVars, batch, logp, rows, micro, val>>
  BY <1>1, <1>2 DEF AllReduce
<1>4. StepType /\ BatchReady /\ WorkersInv
  BY <1>3 DEF FlowInv
<1>5. UNCHANGED stepVars /\ UNCHANGED <<stepVars, batch>> /\ UNCHANGED <<stepVars, batch, rows>>
  BY <1>3
<1>6. StepType' /\ Workers' = Workers
  BY <1>4, <1>5, SameStep
<1>7. BatchReady' /\ MiniBatches' = MiniBatches /\ \A u : ShardOf(u)' = ShardOf(u)
  BY <1>4, <1>5, SameBatch
<1>8. \A u, n : RoundRows(u, n)' = RoundRows(u, n)
  BY <1>5, SameRows
<1>9. RoundsDue' = RoundsDue
  BY <1>3, <1>7 DEF RoundsDue
<1>10. Len(micro[w]) \in Nat /\ MiniBatches \in Nat \ {0} /\ RoundsDue \in 1 .. 1 + MiniBatches
  BY <1>4, Counted, RoundsNumber
<1>11. m \in 1 .. 1 + MiniBatches
  BY <1>1, <1>3, <1>10
<1>12. x \in Nat \ {0}
  <2>1. PICK lens \in Seq(Nat \ {0}) : lens = LenOf(RoundRows(w, m)) /\ Len(lens) > 0
    BY <1>4, <1>11, RoundLengths
  <2>2. MaxTokens \in Nat \ {0}
    BY <1>4, <1>11, RoundLengths
  <2> QED
    BY <1>2, <2>1, <2>2, MicroNumType
<1>13. want \in [Workers -> Seq(Nat \ {0})]
  BY <1>4 DEF WorkersInv
<1>14. /\ want' \in [Workers -> Seq(Nat \ {0})]
       /\ Len(want'[w]) = Len(want[w]) + 1
       /\ \A u \in Workers : /\ Len(want[u]) \in Nat /\ Len(want'[u]) \in Nat /\ Len(want[u]) <= Len(want'[u])
                             /\ u # w => want'[u] = want[u]
                             /\ \A i \in 1 .. Len(want[u]) : want'[u][i] = want[u][i]
  BY <1>3, <1>12, <1>13, AppendedAt
<1>15. ASSUME NEW u \in Workers PROVE Len(want'[u]) <= RoundsDue
  <2>1. CASE u = w
    <3>1. Len(want[w]) \in Nat
      BY <1>14
    <3> QED
      BY <1>1, <1>3, <1>10, <1>14, <2>1, <3>1
  <2>2. CASE u # w
    BY <1>4, <1>14, <2>2 DEF WorkersInv
  <2> QED
    BY <2>1, <2>2
<1>16. ASSUME NEW u \in Workers, NEW v \in Workers PROVE Len(micro[u]) <= Len(want'[v])
  <2>1. Len(micro[u]) <= Len(want[v]) /\ Len(micro[u]) \in Nat
    BY <1>4, Counted DEF WorkersInv
  <2>2. Len(want[v]) \in Nat /\ Len(want'[v]) \in Nat /\ Len(want[v]) <= Len(want'[v])
    BY <1>14
  <2> QED
    BY <2>1, <2>2
<1>17. ASSUME NEW u \in Workers, NEW n \in 1 .. Len(micro[u])
       PROVE  Reduced(u, n)' = Reduced(u, n)
  <2>1. \A v \in Workers : want'[v][n] = want[v][n]
    BY <1>4, <1>14, RoundsSplit
  <2>2. {want'[v][n] : v \in Workers} = {want[v][n] : v \in Workers}
    BY <2>1
  <2>3. \A y : (\A v \in Workers : want'[v][n] <= y) <=> (\A v \in Workers : want[v][n] <= y)
    BY <2>1
  <2> QED
    BY <1>6, <2>2, <2>3 DEF Reduced
<1>18. WorkersInv'
  <2>1. rows' = [u \in Workers' |-> ShardOf(u)']
    BY <1>3, <1>4, <1>6, <1>7 DEF WorkersInv
  <2>2. want' \in [Workers' -> Seq(Nat \ {0})] /\ micro' \in [Workers' -> Seq(Seq(Seq(Nat)))]
    BY <1>3, <1>4, <1>6, <1>14 DEF WorkersInv
  <2>3. \A u \in Workers' : Len(want'[u]) <= RoundsDue'
    BY <1>6, <1>9, <1>15
  <2>4. \A u, v \in Workers' : Len(micro'[u]) <= Len(want'[v])
    BY <1>3, <1>6, <1>16
  <2>5. \A u \in Workers' : \A n \in 1 .. Len(micro'[u]) :
          Splits(micro'[u][n], Reduced(u, n)', 1 .. Len(RoundRows(u, n)'))
    <3>1. ASSUME NEW u \in Workers, NEW n \in 1 .. Len(micro[u])
          PROVE  Splits(micro[u][n], Reduced(u, n)', 1 .. Len(RoundRows(u, n)'))
      BY <1>4, <1>8, <1>17 DEF WorkersInv
    <3> QED
      BY <1>3, <1>6, <3>1
  <2> QED
    BY <2>1, <2>2, <2>3, <2>4, <2>5 DEF WorkersInv
<1> QED
  BY <1>3, <1>6, <1>7, <1>18 DEF FlowInv, Stages, RowsMatch, ValRowsMatch

\* A worker cuts its round into the reduced number of micro-batches.
LEMMA ForwardKeeps == ASSUME FlowInv, NEW w \in Workers, Forward(w) PROVE FlowInv'
<1>1. PICK m : m = Len(micro[w]) + 1
  OBVIOUS
<1>2. PICK x : x = MicroBatches(LenOf(RoundRows(w, m)), Reduced(w, m))
  OBVIOUS
<1>3. /\ stage \in {"log_prob", "update"} /\ \A u \in Workers : Len(want[u]) >= m
      /\ micro' = [micro EXCEPT ![w] = Append(@, x)]
      /\ UNCHANGED <<stage, stepVars, batch, logp, rows, want, val>>
  BY <1>1, <1>2 DEF Forward
<1>4. StepType /\ BatchReady /\ WorkersInv
  BY <1>3 DEF FlowInv
<1>5. UNCHANGED stepVars /\ UNCHANGED <<stepVars, batch>> /\ UNCHANGED <<stepVars, batch, rows>>
  BY <1>3
<1>6. StepType' /\ Workers' = Workers
  BY <1>4, <1>5, SameStep
<1>7. BatchReady' /\ MiniBatches' = MiniBatches /\ \A u : ShardOf(u)' = ShardOf(u)
  BY <1>4, <1>5, SameBatch
<1>8. \A u, n : RoundRows(u, n)' = RoundRows(u, n)
  BY <1>5, SameRows
<1>9. RoundsDue' = RoundsDue /\ \A u, n : Reduced(u, n)' = Reduced(u, n)
  BY <1>3, <1>6, <1>7 DEF RoundsDue, Reduced
<1>10. \A u \in Workers : m \in 1 .. Len(want[u])
  <2>1. Len(micro[w]) \in Nat /\ \A u \in Workers : Len(want[u]) \in Nat
    BY <1>4, Counted
  <2> QED
    BY <1>1, <1>3, <2>1
<1>11. m \in 1 .. 1 + MiniBatches
  <2>1. MiniBatches \in Nat \ {0} /\ RoundsDue \in 1 .. 1 + MiniBatches
    BY <1>4, RoundsNumber
  <2>2. Len(want[w]) <= RoundsDue /\ Len(want[w]) \in Nat
    BY <1>4, Counted DEF WorkersInv
  <2> QED
    BY <1>10, <2>1, <2>2
<1>12. Reduced(w, m) \in Nat \ {0}
  <2>1. \A u \in Workers : want[u][m] \in Nat \ {0}
    <3> SUFFICES ASSUME NEW u \in Workers PROVE want[u][m] \in Nat \ {0}
      OBVIOUS
    <3>1. want[u] \in Seq(Nat \ {0})
      BY <1>4, Counted
    <3> QED
      BY <1>10, <3>1, SeqIsFunction
  <2>2. m \in Nat
    BY <1>11
  <2> QED
    BY <1>4, <2>1, <2>2, ReducedType
<1>13. Splits(x, Reduced(w, m), 1 .. Len(RoundRows(w, m)))
  <2>1. PICK lens \in Seq(Nat) :
          /\ lens = LenOf(RoundRows(w, m)) /\ Len(lens) > 0 /\ Len(lens) = Len(RoundRows(w, m))
    BY <1>4, <1>11, RoundLengths
  <2>2. PICK num \in Nat \ {0} : num = Reduced(w, m)
    BY <1>12
  <2>3. Splits(MicroBatches(lens, num), num, 1 .. Len(lens))
    BY <2>1, MicroSplits
  <2> QED
    BY <1>2, <2>1, <2>2, <2>3
<1>14. x \in Seq(Seq(Nat))
  <2>1. x \in Seq(Seq(1 .. Len(RoundRows(w, m))))
    BY <1>13 DEF Splits
  <2>2. Seq(1 .. Len(RoundRows(w, m))) \subseteq Seq(Nat)
    <3>1. 1 .. Len(RoundRows(w, m)) \subseteq Nat
      OBVIOUS
    <3> QED
      BY <3>1, WiderSeq
  <2> QED
    BY <2>1, <2>2, WiderSeq
<1>15. micro \in [Workers -> Seq(Seq(Seq(Nat)))]
  BY <1>4 DEF WorkersInv
<1>16. /\ micro' \in [Workers -> Seq(Seq(Seq(Nat)))]
       /\ Len(micro'[w]) = Len(micro[w]) + 1 /\ micro'[w][Len(micro[w]) + 1] = x
       /\ \A u \in Workers : /\ Len(micro[u]) \in Nat /\ Len(micro'[u]) \in Nat
                             /\ u # w => micro'[u] = micro[u]
                             /\ \A i \in 1 .. Len(micro[u]) : micro'[u][i] = micro[u][i]
  BY <1>3, <1>14, <1>15, AppendedAt
<1>17. ASSUME NEW u \in Workers, NEW v \in Workers PROVE Len(micro'[u]) <= Len(want[v])
  <2>1. CASE u = w
    BY <1>1, <1>3, <1>10, <1>16, <2>1
  <2>2. CASE u # w
    BY <1>4, <1>16, <2>2 DEF WorkersInv
  <2> QED
    BY <2>1, <2>2
<1>18. ASSUME NEW u \in Workers, NEW n \in 1 .. Len(micro'[u])
       PROVE  Splits(micro'[u][n], Reduced(u, n), 1 .. Len(RoundRows(u, n)))
  <2>1. CASE n \in 1 .. Len(micro[u])
    BY <1>4, <1>16, <2>1 DEF WorkersInv
  <2>2. CASE n \notin 1 .. Len(micro[u])
    <3>1. u = w
      BY <1>16, <2>2
    <3>2. n = m
      <4>1. Len(micro[w]) \in Nat /\ Len(micro'[w]) = Len(micro[w]) + 1
        BY <1>16
      <4> QED
        BY <1>1, <2>2, <3>1, <4>1
    <3>3. micro'[u][n] = x
      BY <1>1, <1>16, <3>1, <3>2
    <3> QED
      BY <1>13, <3>1, <3>2, <3>3
  <2> QED
    BY <2>1, <2>2
<1>19. WorkersInv'
  <2>1. rows' = [u \in Workers' |-> ShardOf(u)']
    BY <1>3, <1>4, <1>6, <1>7 DEF WorkersInv
  <2>2. want' \in [Workers' -> Seq(Nat \ {0})] /\ micro' \in [Workers' -> Seq(Seq(Seq(Nat)))]
    BY <1>3, <1>4, <1>6, <1>16 DEF WorkersInv
  <2>3. \A u \in Workers' : Len(want'[u]) <= RoundsDue'
    BY <1>3, <1>4, <1>6, <1>9 DEF WorkersInv
  <2>4. \A u, v \in Workers' : Len(micro'[u]) <= Len(want'[v])
    BY <1>3, <1>6, <1>17
  <2>5. \A u \in Workers' : \A n \in 1 .. Len(micro'[u]) :
          Splits(micro'[u][n], Reduced(u, n)', 1 .. Len(RoundRows(u, n)'))
    BY <1>6, <1>8, <1>9, <1>18
  <2> QED
    BY <2>1, <2>2, <2>3, <2>4, <2>5 DEF WorkersInv
<1> QED
  BY <1>3, <1>6, <1>7, <1>19 DEF FlowInv, Stages, RowsMatch, ValRowsMatch

\* Every step keeps the invariant.
LEMMA FlowKeeps == ASSUME FlowInv, [FlowNext]_flowVars PROVE FlowInv'
<1>1. CASE FlowNext
  BY <1>1, GenerateKeeps, BalanceKeeps, RaisesKeeps, DispatchKeeps, CollectKeeps, UpdatedKeeps,
     ValidationKeeps, AllReduceKeeps, ForwardKeeps DEF FlowNext
<1>2. CASE UNCHANGED flowVars
  <2>1. /\ UNCHANGED <<stepVars, batch>> /\ UNCHANGED stepVars /\ UNCHANGED <<stepVars, batch, workerVars>>
        /\ UNCHANGED <<stage, logp, val, micro, shape>>
    BY <1>2 DEF flowVars, workerVars, stepVars
  <2>2. /\ StepType' <=> StepType
        /\ Workers' = Workers
    BY <2>1, SameStep
  <2>3. /\ BatchReady' <=> BatchReady
        /\ MiniBatches' = MiniBatches
    BY <2>1, SameBatch
  <2>4. WorkersInv => WorkersInv'
    <3> SUFFICES ASSUME WorkersInv PROVE WorkersInv'
      OBVIOUS
    <3>1. RoundsDue' = RoundsDue
      BY <2>1, <2>3 DEF RoundsDue
    <3> QED
      BY <2>1, <3>1, SameWorkers DEF WorkersInv
  <2> QED
    BY <2>1, <2>2, <2>3, <2>4 DEF FlowInv, RowsMatch, ValRowsMatch, stepVars
<1> QED
  BY <1>1, <1>2

\* The invariant holds at all times.
LEMMA FlowAlways == FlowSpec => []FlowInv
BY FlowStarts, FlowKeeps, PTL DEF FlowSpec

-----------------------------------------------------------------------------
(* The theorems                                                              *)

\* When the step is done, every row was trained once.
LEMMA OnceEach == ASSUME FlowInv PROVE EachRowOnce
<1> SUFFICES ASSUME stage = "done"
             PROVE  Len(TrainedRows) = shape.prompts * shape.n /\ ToSet(TrainedRows) = DOMAIN seqlen
  BY DEF EachRowOnce
<1>1. BatchReady /\ WorkersInv /\ \A w \in Workers : Len(micro[w]) = 1 + MiniBatches
  BY DEF FlowInv
<1>2. \A w \in Workers : rows[w] = ShardOf(w)
  BY <1>1, Counted
<1>3. \A w \in Workers : \A m \in 1 .. 1 + MiniBatches : RoundSplit(w, m)
  BY <1>1, RoundsSplit
<1> QED
  BY <1>1, <1>2, <1>3, TrainedIs

\* All workers cut a round into the same number of micro-batches.
LEMMA RoundsInStep == ASSUME FlowInv PROVE MicroInStep
<1> SUFFICES ASSUME stage \in {"log_prob", "update", "done"}, NEW w \in Workers, NEW u \in Workers,
                    NEW m \in DOMAIN micro[w] \cap DOMAIN micro[u]
             PROVE  Len(micro[w][m]) = Len(micro[u][m])
  BY DEF MicroInStep
<1>1. BatchReady /\ WorkersInv
  BY DEF FlowInv
<1>2. DOMAIN micro[w] = 1 .. Len(micro[w]) /\ DOMAIN micro[u] = 1 .. Len(micro[u])
  BY <1>1, Counted, SeqIsFunction
<1>3. Splits(micro[w][m], Reduced(w, m), 1 .. Len(RoundRows(w, m)))
  BY <1>1, <1>2 DEF WorkersInv
<1>4. Splits(micro[u][m], Reduced(u, m), 1 .. Len(RoundRows(u, m)))
  BY <1>1, <1>2 DEF WorkersInv
<1>5. Len(micro[w][m]) = Reduced(w, m) /\ Len(micro[u][m]) = Reduced(u, m)
  BY <1>3, <1>4 DEF Splits
<1>6. Reduced(w, m) = Reduced(u, m)
  BY DEF Reduced
<1> QED
  BY <1>5, <1>6

\* RowsKept holds in every reachable state: balancing, the dispatch over the mesh, the
\* micro-batches, the way back and the padding of a validation batch lose no row, train
\* none twice and give none the result of another (_balance_batch,
\* rearrange_micro_batches, restore_dynamic_batch, pad_dataproto_to_divisor).
THEOREM RowsAreKept == FlowSpec => []RowsKept
<1>1. FlowInv => RowsKept
  BY OnceEach DEF FlowInv, RowsKept
<1> QED
  BY <1>1, FlowAlways, PTL

\* MicroInStep holds in every reachable state: whatever the rows of the ranks, the all-
\* reduced number of micro-batches is the number every rank runs
\* (rearrange_micro_batches).
THEOREM RanksRunInStep == FlowSpec => []MicroInStep
BY RoundsInStep, FlowAlways, PTL
=============================================================================
