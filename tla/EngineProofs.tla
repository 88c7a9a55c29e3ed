---------------------------- MODULE EngineProofs ----------------------------
(***************************************************************************)
(* Proofs about the three ways the weights get to the rollout.             *)
(*                                                                         *)
(* First the broadcast of the asynchronous job: the layout of the buckets  *)
(* (recursion over the parameters and over the turns, by induction over a  *)
(* range of numbers), then the invariant of a rank, that a step of one     *)
(* rank keeps it, and that it survives the steps of the others.  Then the  *)
(* NCCL and the NIXL checkpoint engine.  All of it for any weights, any    *)
(* number of ranks and, for the engines, any bucket size that holds the    *)
(* largest weight.                                                         *)
(***************************************************************************)
EXTENDS BucketBroadcast, NcclEngine, NixlEngine, FiniteSetTheorems, TLAPS

-----------------------------------------------------------------------------
(* Recursion and induction over a range of numbers                           *)

LEMMA LeastOf ==
  ASSUME NEW T \in SUBSET Nat, T # {}
  PROVE  \E x \in T : \A y \in T : x <= y
<1>1. PICK x \in T : \A y \in T : ~ (<<y, x>> \in OpToRel(<, Nat))
  BY WFMin, NatLessThanWellFounded
<1>2. \A y \in T : ~ (y < x)
  BY <1>1 DEF OpToRel
<1> QED
  BY <1>2

\* What holds of 1, and of every number with the one before, holds up to n.
LEMMA UpTo ==
  ASSUME NEW n \in Nat, NEW G, 1 \in G, \A k \in 2 .. n : k - 1 \in G => k \in G
  PROVE  \A k \in 1 .. n : k \in G
<1> SUFFICES ASSUME NEW m \in 1 .. n, m \notin G PROVE FALSE
  OBVIOUS
<1> DEFINE Out == {k \in 1 .. n : k \notin G}
<1>1. Out \in SUBSET Nat /\ m \in Out
  OBVIOUS
<1>2. PICK k \in Out : \A j \in Out : k <= j
  BY <1>1, LeastOf
<1>3. k \in 2 .. n /\ k - 1 \in 1 .. n /\ k - 1 \in Out
  BY <1>2
<1> QED
  BY <1>2, <1>3

\* A function computed from its value for the number before
Stepwise(n, b, h, f) == [k \in 1 .. n |-> IF k = 1 THEN b ELSE h[k][f[k - 1]]]

\* There is one.
LEMMA Recursion ==
  ASSUME NEW n \in Nat \ {0}, NEW V, NEW b \in V, NEW h \in [2 .. n -> [V -> V]]
  PROVE  \E f \in [1 .. n -> V] : f = Stepwise(n, b, h, f)
<1> DEFINE Right(m, f) == f[1] = b /\ \A k \in 2 .. m : f[k] = h[k][f[k - 1]]
           G == {m \in 1 .. n : \E f \in [1 .. n -> V] : Right(m, f)}
<1>1. 1 \in G
  <2> DEFINE z == [k \in 1 .. n |-> b]
  <2>1. z \in [1 .. n -> V] /\ z[1] = b /\ 1 \in 1 .. n /\ 2 .. 1 = {}
    OBVIOUS
  <2> HIDE DEF z
  <2>2. Right(1, z)
    BY <2>1
  <2> QED
    BY <2>1, <2>2
<1>2. ASSUME NEW m \in 2 .. n, m - 1 \in G PROVE m \in G
  <2>1. PICK f \in [1 .. n -> V] : Right(m - 1, f)
    BY <1>2
  <2> DEFINE e == [f EXCEPT ![m] = h[m][f[m - 1]]]
  <2>2. m - 1 \in 1 .. n /\ f[m - 1] \in V /\ m \in 1 .. n
    OBVIOUS
  <2>3. h[m][f[m - 1]] \in V
    BY <2>2
  <2>4. e \in [1 .. n -> V]
    BY <2>3
  <2>5. \A k \in 1 .. n : k # m => e[k] = f[k]
    OBVIOUS
  <2>6. ASSUME NEW k \in 2 .. m PROVE e[k] = h[k][e[k - 1]]
    <3>1. k - 1 \in 1 .. n /\ k - 1 # m /\ k \in 1 .. n
      OBVIOUS
    <3>2. e[k - 1] = f[k - 1]
      BY <2>5, <3>1
    <3>3. CASE k = m
      BY <2>2, <3>2, <3>3
    <3>4. CASE k # m
      <4>1. k \in 2 .. m - 1
        BY <3>4
      <4> QED
        BY <2>1, <2>5, <3>1, <3>2, <3>4, <4>1
    <3> QED
      BY <3>3, <3>4
  <2>7. e[1] = b
    BY <2>1
  <2> HIDE DEF e
  <2> QED
    BY <2>2, <2>4, <2>6, <2>7
<1>3. n \in G
  <2>1. \A k \in 2 .. n : k - 1 \in G => k \in G
    BY <1>2
  <2> HIDE DEF G
  <2>2. \A k \in 1 .. n : k \in G
    BY <1>1, <2>1, UpTo
  <2> QED
    BY <2>2
<1>4. PICK f \in [1 .. n -> V] : Right(n, f)
  BY <1>3
<1>5. f = Stepwise(n, b, h, f)
  BY <1>4 DEF Stepwise
<1> QED
  BY <1>5

-----------------------------------------------------------------------------
(* The layout of a bucket                                                    *)

\* The sizes of parameters.
LEMMA SizesType ==
  /\ Len(ParamSize) \in Nat /\ Len(ParamSize) >= 1 /\ DOMAIN ParamSize = Params
  /\ \A p \in Params : ParamSize[p] \in Nat /\ ParamSize[p] >= 1
<1>1. ParamSize \in Seq(Nat \ {0}) /\ ParamSize # <<>>
  BY TransferAssumption
<1> QED
  BY <1>1 DEF Params

\* Each parameter of a bucket starts where the one before it ends.
LEMMA OffsetsStep ==
  ASSUME NEW q \in Seq(Params)
  PROVE  /\ Offsets(q) \in [1 .. Len(q) + 1 -> Nat] /\ Offsets(q)[1] = 0
         /\ \A n \in 1 .. Len(q) : /\ Offsets(q)[n + 1] = Offsets(q)[n] + ParamSize[q[n]]
                                   /\ q[n] \in Params
<1> DEFINE l == Len(q) + 1
           h == [k \in 2 .. l |-> [x \in Nat |-> x + ParamSize[q[k - 1]]]]
           Step(f) == [k \in 1 .. l |-> IF k = 1 THEN 0 ELSE f[k - 1] + ParamSize[q[k - 1]]]
<1>1. l \in Nat \ {0} /\ \A k \in 1 .. Len(q) : q[k] \in Params
  OBVIOUS
<1>2. \A k \in 2 .. l : k - 1 \in 1 .. Len(q) /\ ParamSize[q[k - 1]] \in Nat
  <2>1. \A k \in 2 .. l : k - 1 \in 1 .. Len(q)
    BY <1>1
  <2> QED
    BY <1>1, <2>1, SizesType
<1>3. h \in [2 .. l -> [Nat -> Nat]]
  BY <1>2
<1>4. PICK f \in [1 .. l -> Nat] : f = Stepwise(l, 0, h, f)
  <2> HIDE DEF l, h
  <2>1. PICK V, z : V = Nat /\ z = 0
    OBVIOUS
  <2>2. z \in V /\ h \in [2 .. l -> [V -> V]]
    BY <1>3, <2>1
  <2>3. \E f \in [1 .. l -> V] : f = Stepwise(l, z, h, f)
    BY <1>1, <2>2, Recursion
  <2> QED
    BY <2>1, <2>3
<1>5. f = Step(f)
  <2>1. \A k \in 2 .. l : k - 1 \in 1 .. l /\ f[k - 1] \in Nat
    <3> HIDE DEF h, l
    <3>1. \A k \in 2 .. l : k - 1 \in 1 .. l
      BY <1>1
    <3> QED
      BY <1>4, <3>1
  <2>2. \A k \in 2 .. l : h[k][f[k - 1]] = f[k - 1] + ParamSize[q[k - 1]]
    <3>1. ASSUME NEW k \in 2 .. l PROVE h[k][f[k - 1]] = f[k - 1] + ParamSize[q[k - 1]]
      <4>1. h[k] = [x \in Nat |-> x + ParamSize[q[k - 1]]]
        OBVIOUS
      <4> HIDE DEF h
      <4> QED
        BY <2>1, <4>1
    <3> QED
      BY <3>1
  <2> HIDE DEF h
  <2>3. f = [k \in 1 .. l |-> IF k = 1 THEN 0 ELSE h[k][f[k - 1]]]
    BY <1>4 DEF Stepwise
  <2>4. \A k \in 1 .. l : k # 1 => k \in 2 .. l
    BY <1>1
  <2> QED
    BY <2>2, <2>3, <2>4
<1>6. Offsets(q) = Step(Offsets(q))
  <2>1. Offsets(q) = CHOOSE g : g = Step(g)
    BY DEF Offsets
  <2>2. \E g : g = Step(g)
    BY <1>5
  <2> HIDE DEF Step
  <2> QED
    BY <2>1, <2>2
<1>7. PICK g : g = Offsets(q) /\ g = Step(g)
  BY <1>6
<1>8. /\ g[1] = 0 /\ DOMAIN g = 1 .. l /\ g = [k \in 1 .. l |-> g[k]]
      /\ \A n \in 1 .. Len(q) : g[n + 1] = g[n] + ParamSize[q[n]]
  <2>1. \A n \in 1 .. Len(q) : n + 1 \in 1 .. l /\ n + 1 # 1 /\ (n + 1) - 1 = n
    BY <1>1
  <2>2. \A k \in 1 .. l : g[k] = IF k = 1 THEN 0 ELSE g[k - 1] + ParamSize[q[k - 1]]
    BY <1>7
  <2>3. g[1] = 0 /\ DOMAIN g = 1 .. l /\ g = [k \in 1 .. l |-> g[k]]
    BY <1>1, <1>7, <2>2
  <2>4. ASSUME NEW n \in 1 .. Len(q) PROVE g[n + 1] = g[n] + ParamSize[q[n]]
    BY <2>1, <2>2
  <2> QED
    BY <2>3, <2>4
<1>9. \A k \in 1 .. l : g[k] \in Nat
  <2> DEFINE G == {k \in 1 .. l : g[k] \in Nat}
  <2>1. 1 \in G
    BY <1>1, <1>8
  <2>2. ASSUME NEW k \in 2 .. l, k - 1 \in G PROVE k \in G
    <3>1. k \in 1 .. l /\ k - 1 \in 1 .. Len(q) /\ (k - 1) + 1 = k
      BY <1>1
    <3>2. g[k] = g[k - 1] + ParamSize[q[k - 1]]
      BY <1>8, <3>1
    <3> QED
      BY <1>2, <2>2, <3>1, <3>2
  <2>3. \A k \in 2 .. l : k - 1 \in G => k \in G
    BY <2>2
  <2> HIDE DEF G
  <2>4. \A k \in 1 .. l : k \in G
    BY <1>1, <2>1, <2>3, UpTo
  <2> QED
    BY <2>4 DEF G
<1>10. g \in [1 .. l -> Nat]
  BY <1>8, <1>9
<1> QED
  BY <1>1, <1>7, <1>8, <1>10

LEMMA OffsetsGrow ==
  ASSUME NEW q \in Seq(Params), NEW n \in 1 .. Len(q), NEW m \in n + 1 .. Len(q) + 1
  PROVE  Offsets(q)[n] + ParamSize[q[n]] <= Offsets(q)[m]
<1> DEFINE l == Len(q) + 1
           G == {k \in 1 .. l : k > n => Offsets(q)[n] + ParamSize[q[n]] <= Offsets(q)[k]}
<1>1. PICK f \in [1 .. l -> Nat] : f = Offsets(q)
  BY OffsetsStep
<1>2. \A k \in 1 .. Len(q) : f[k + 1] = f[k] + ParamSize[q[k]] /\ ParamSize[q[k]] \in Nat
  BY <1>1, OffsetsStep, SizesType
<1>3. l \in Nat /\ Len(q) \in Nat /\ n \in Nat /\ n >= 1 /\ n <= Len(q) /\ f[n] \in Nat
  BY <1>1
<1>4. 1 \in G
  BY <1>3
<1>5. ASSUME NEW k \in 2 .. l, k - 1 \in G PROVE k \in G
  <2>1. k - 1 \in 1 .. Len(q) /\ k \in 1 .. l /\ (k - 1) + 1 = k
    BY <1>3
  <2>2. f[k] = f[k - 1] + ParamSize[q[k - 1]] /\ ParamSize[q[k - 1]] \in Nat /\ f[k - 1] \in Nat
    BY <1>1, <1>2, <2>1
  <2>3. CASE k - 1 = n
    BY <1>1, <2>1, <2>2, <2>3
  <2>4. CASE k - 1 > n
    <3>1. f[n] + ParamSize[q[n]] <= f[k - 1]
      BY <1>1, <1>5, <2>4
    <3>2. ParamSize[q[n]] \in Nat
      BY <1>2
    <3> QED
      BY <1>1, <1>3, <2>1, <2>2, <3>1, <3>2
  <2>5. CASE k - 1 < n
    BY <1>3, <2>1, <2>5
  <2> QED
    BY <1>3, <2>1, <2>3, <2>4, <2>5
<1>6. \A k \in 2 .. l : k - 1 \in G => k \in G
  BY <1>5
<1> HIDE DEF G
<1>7. \A k \in 1 .. l : k \in G
  BY <1>3, <1>4, <1>6, UpTo
<1>8. m \in 1 .. l /\ m > n
  BY <1>3
<1> QED
  BY <1>7, <1>8 DEF G

\* The layout of a bucket is not changed by what is put behind it.
LEMMA OffsetsAppend ==
  ASSUME NEW q \in Seq(Params), NEW p \in Params
  PROVE  Size(Append(q, p)) = Size(q) + ParamSize[p] /\ Size(q) \in Nat
<1>1. PICK a : a = Append(q, p)
  OBVIOUS
<1>2. /\ a \in Seq(Params) /\ Len(a) = Len(q) + 1 /\ a[Len(q) + 1] = p
      /\ \A n \in 1 .. Len(q) : a[n] = q[n]
  BY <1>1
<1>3. PICK f \in [1 .. Len(q) + 1 -> Nat] : f = Offsets(q)
  BY OffsetsStep
<1>4. PICK e \in [1 .. Len(a) + 1 -> Nat] : e = Offsets(a)
  BY <1>2, OffsetsStep
<1>5. PICK l : l = Len(q) + 1 /\ Len(q) \in Nat /\ l \in Nat
  OBVIOUS
<1> DEFINE G == {k \in 1 .. l : e[k] = f[k]}
<1>6. f[1] = 0 /\ e[1] = 0
  BY <1>2, <1>3, <1>4, OffsetsStep
<1>7. ASSUME NEW k \in 2 .. l, k - 1 \in G PROVE k \in G
  <2>1. k - 1 \in 1 .. Len(q) /\ k - 1 \in 1 .. Len(a) /\ k \in 1 .. l /\ (k - 1) + 1 = k
    BY <1>2, <1>5
  <2>2. f[k] = f[k - 1] + ParamSize[q[k - 1]]
    BY <1>3, <2>1, OffsetsStep
  <2>3. e[k] = e[k - 1] + ParamSize[a[k - 1]]
    BY <1>2, <1>4, <2>1, OffsetsStep
  <2> QED
    BY <1>2, <1>7, <2>1, <2>2, <2>3
<1>8. 1 \in G
  BY <1>5, <1>6
<1>9. \A k \in 2 .. l : k - 1 \in G => k \in G
  BY <1>7
<1>10. \A k \in 1 .. l : k \in G
  <2> HIDE DEF G
  <2> QED
    BY <1>5, <1>8, <1>9, UpTo
<1>11. e[l] = f[l] /\ l \in 1 .. Len(a) /\ Len(a) = l
  BY <1>2, <1>5, <1>10
<1>12. e[l + 1] = e[l] + ParamSize[a[l]]
  BY <1>2, <1>4, <1>11, OffsetsStep
<1>13. Size(a) = e[l + 1] /\ Size(q) = f[l]
  BY <1>3, <1>4, <1>5, <1>11 DEF Size
<1>14. f[l] \in Nat
  BY <1>3, <1>5
<1> QED
  BY <1>1, <1>2, <1>5, <1>11, <1>12, <1>13, <1>14

LEMMA SmallBuckets ==
  /\ <<>> \in Seq(Params) /\ Size(<<>>) = 0
  /\ \A p \in Params : << p >> \in Seq(Params) /\ Size(<< p >>) = ParamSize[p]
<1>1. PICK q : q = <<>> /\ q \in Seq(Params) /\ Len(q) = 0
  <2>1. <<>> \in Seq(Params) /\ Len(<<>>) = 0
    OBVIOUS
  <2> QED
    BY <2>1, Zenon
<1>2. Size(q) = 0
  <2>1. Offsets(q)[1] = 0
    BY <1>1, OffsetsStep, Zenon
  <2>2. Len(q) + 1 = 1
    BY <1>1
  <2> QED
    BY <2>1, <2>2 DEF Size
<1>3. ASSUME NEW p \in Params PROVE << p >> \in Seq(Params) /\ Size(<< p >>) = ParamSize[p]
  <2>1. << p >> = Append(q, p) /\ << p >> \in Seq(Params)
    BY <1>1
  <2>2. Size(Append(q, p)) = 0 + ParamSize[p]
    BY <1>1, <1>2, OffsetsAppend
  <2>3. 0 + ParamSize[p] = ParamSize[p]
    BY SizesType
  <2> QED
    BY <2>1, <2>2, <2>3
<1> QED
  BY <1>1, <1>2, <1>3

\* In the pinned memory of a bucket each parameter is where its offset says.
LEMMA PackedAt ==
  ASSUME NEW q \in Seq(Params), NEW v
  PROVE  /\ Size(q) \in Nat /\ Packed(q, v) = [c \in 1 .. Size(q) |-> Packed(q, v)[c]]
         /\ \A n \in 1 .. Len(q) :
              /\ Offset(q, n) \in Nat /\ Offset(q, n) + ParamSize[q[n]] <= Size(q)
              /\ \A j \in 1 .. ParamSize[q[n]] :
                   Packed(q, v)[Offset(q, n) + j] = << q[n], j, v >>
<1>1. PICK f \in [1 .. Len(q) + 1 -> Nat] : f = Offsets(q)
  BY OffsetsStep
<1>2. Len(q) \in Nat /\ \A k \in 1 .. Len(q) : q[k] \in Params /\ ParamSize[q[k]] \in Nat /\ f[k] \in Nat
  <2>1. Len(q) \in Nat
    OBVIOUS
  <2>2. ASSUME NEW k \in 1 .. Len(q) PROVE q[k] \in Params /\ ParamSize[q[k]] \in Nat /\ f[k] \in Nat
    <3>1. q[k] \in Params
      OBVIOUS
    <3>2. ParamSize[q[k]] \in Nat
      BY <3>1, SizesType
    <3>3. k \in 1 .. Len(q) + 1
      BY <2>1
    <3> QED
      BY <1>1, <3>1, <3>2, <3>3
  <2> QED
    BY <2>1, <2>2
<1>3. Size(q) = f[Len(q) + 1] /\ Size(q) \in Nat
  BY <1>1, <1>2 DEF Size
<1>4. ASSUME NEW n \in 1 .. Len(q)
      PROVE  Offset(q, n) = f[n] /\ f[n] \in Nat /\ f[n] + ParamSize[q[n]] <= Size(q)
  <2>1. Len(q) + 1 \in n + 1 .. Len(q) + 1
    BY <1>2
  <2> QED
    BY <1>1, <1>2, <1>3, <2>1, OffsetsGrow DEF Offset
<1>5. ASSUME NEW n \in 1 .. Len(q), NEW j \in 1 .. ParamSize[q[n]]
      PROVE  Packed(q, v)[f[n] + j] = << q[n], j, v >>
  <2> DEFINE In(c, k) == c - Offset(q, k) \in 1 .. ParamSize[q[k]]
  <2>1. PICK c : c = f[n] + j
    OBVIOUS
  <2>2. c \in 1 .. Size(q) /\ In(c, n) /\ c - f[n] = j /\ c \in Nat
    <3>1. PICK d, e, z : d = f[n] /\ e = ParamSize[q[n]] /\ z = Size(q)
      OBVIOUS
    <3>2. d \in Nat /\ e \in Nat /\ z \in Nat /\ d + e <= z /\ j \in 1 .. e /\ c = d + j
      BY <1>2, <1>3, <1>4, <2>1, <3>1
    <3>3. c \in 1 .. z /\ c - d = j /\ c \in Nat
      BY <3>2
    <3>4. Offset(q, n) = d
      BY <1>4, <3>1
    <3> QED
      BY <3>1, <3>2, <3>3, <3>4
  <2>3. ASSUME NEW k \in 1 .. Len(q), In(c, k) PROVE k = n
    <3>1. f[k] \in Nat /\ f[n] \in Nat /\ k \in Nat /\ n \in Nat /\ ParamSize[q[k]] \in Nat /\ ParamSize[q[n]] \in Nat
      BY <1>2
    <3>2. f[k] < c /\ c <= f[k] + ParamSize[q[k]] /\ f[n] < c /\ c <= f[n] + ParamSize[q[n]]
      <4>1. Offset(q, k) = f[k] /\ Offset(q, n) = f[n]
        BY <1>4
      <4>2. c - f[k] \in 1 .. ParamSize[q[k]] /\ c - f[n] \in 1 .. ParamSize[q[n]]
        BY <2>2, <2>3, <4>1
      <4>3. PICK d, e, x, y : d = f[k] /\ e = ParamSize[q[k]] /\ x = f[n] /\ y = ParamSize[q[n]]
        OBVIOUS
      <4>4. d \in Nat /\ e \in Nat /\ x \in Nat /\ y \in Nat /\ c \in Nat /\ c - d \in 1 .. e /\ c - x \in 1 .. y
        BY <2>2, <3>1, <4>2, <4>3
      <4>5. d < c /\ c <= d + e /\ x < c /\ c <= x + y
        BY <4>4
      <4> QED
        BY <4>3, <4>5
    <3>3. CASE k < n
      <4>1. n \in k + 1 .. Len(q) + 1
        BY <1>2, <3>1, <3>3
      <4>2. f[k] + ParamSize[q[k]] <= f[n]
        BY <1>1, <4>1, OffsetsGrow
      <4> QED
        BY <2>2, <3>1, <3>2, <4>2
    <3>4. CASE n < k
      <4>1. k \in n + 1 .. Len(q) + 1
        BY <1>2, <3>1, <3>4
      <4>2. f[n] + ParamSize[q[n]] <= f[k]
        BY <1>1, <4>1, OffsetsGrow
      <4> QED
        BY <2>2, <3>1, <3>2, <4>2
    <3> QED
      BY <3>1, <3>3, <3>4
  <2>4. (CHOOSE k \in 1 .. Len(q) : In(c, k)) = n
    <3> HIDE DEF In
    <3> QED
      BY <2>2, <2>3
  <2>5. Packed(q, v)[c] = Cells(q[n], v)[c - Offset(q, n)]
    BY <2>2, <2>4 DEF Packed
  <2>6. Cells(q[n], v)[j] = << q[n], j, v >>
    BY DEF Cells
  <2> QED
    BY <1>4, <2>1, <2>2, <2>5, <2>6
<1>6. Packed(q, v) = [c \in 1 .. Size(q) |-> Packed(q, v)[c]]
  BY DEF Packed
<1> QED
  BY <1>3, <1>4, <1>5, <1>6

-----------------------------------------------------------------------------
(* The buckets of the ranks                                                  *)

\* One of finitely many numbers is the largest.
LEMMA LargestOf ==
  ASSUME NEW n \in Nat \ {0}, NEW f \in [1 .. n -> Nat]
  PROVE  \E m \in 1 .. n : \A i \in 1 .. n : f[i] <= f[m]
<1> DEFINE G == {k \in 1 .. n : \E m \in 1 .. k : \A i \in 1 .. k : f[i] <= f[m]}
<1>1. 1 \in G
  OBVIOUS
<1>2. ASSUME NEW k \in 2 .. n, k - 1 \in G PROVE k \in G
  <2>1. PICK m \in 1 .. k - 1 : \A i \in 1 .. k - 1 : f[i] <= f[m]
    BY <1>2
  <2>2. f[m] \in Nat /\ f[k] \in Nat /\ \A i \in 1 .. k : i = k \/ i \in 1 .. k - 1
    OBVIOUS
  <2>3. \A i \in 1 .. k : f[i] \in Nat
    OBVIOUS
  <2>4. CASE f[k] <= f[m]
    <3>1. m \in 1 .. k /\ \A i \in 1 .. k : f[i] <= f[m]
      BY <2>1, <2>2, <2>4
    <3> QED
      BY <3>1
  <2>5. CASE f[m] < f[k]
    <3>1. k \in 1 .. k /\ \A i \in 1 .. k : f[i] <= f[k]
      BY <2>1, <2>2, <2>3, <2>5
    <3> QED
      BY <3>1
  <2> QED
    BY <2>2, <2>4, <2>5
<1>3. \A k \in 2 .. n : k - 1 \in G => k \in G
  BY <1>2
<1>4. \A k \in 1 .. n : k \in G
  <2> HIDE DEF G
  <2> QED
    BY <1>1, <1>3, UpTo
<1>5. n \in G
  <2> HIDE DEF G
  <2> QED
    BY <1>4
<1> QED
  BY <1>5

LEMMA MaxBounds ==
  ASSUME NEW T, NEW m \in T, \A y \in T : m >= y
  PROVE  Max(T) \in T /\ \A y \in T : Max(T) >= y
  BY DEF Max

\* The buffer holds every parameter.
LEMMA BufferFits ==
  bucket_size \in Nat /\ bucket_size >= 1 /\ \A p \in Params : ParamSize[p] <= bucket_size
<1>1. PICK l : l = Len(ParamSize)
  OBVIOUS
<1>2. l \in Nat \ {0} /\ Params = 1 .. l /\ ParamSize \in [1 .. l -> Nat]
  BY <1>1, SizesType, TransferAssumption DEF Params
<1>3. PICK m \in 1 .. l : \A i \in 1 .. l : ParamSize[i] <= ParamSize[m]
  BY <1>2, LargestOf
<1>4. PICK T : T = {DeviceBuffer} \cup Range(ParamSize)
  OBVIOUS
<1>5. \A y : y \in T <=> y = DeviceBuffer \/ \E i \in 1 .. l : y = ParamSize[i]
  BY <1>2, <1>4 DEF Range
<1>6. DeviceBuffer \in Nat \ {0} /\ \A i \in 1 .. l : ParamSize[i] \in Nat
  BY <1>2, TransferAssumption
<1>7. \E x \in T : \A y \in T : x >= y
  <2>1. CASE ParamSize[m] <= DeviceBuffer
    <3>1. DeviceBuffer \in T /\ \A y \in T : DeviceBuffer >= y
      BY <1>3, <1>5, <1>6, <2>1
    <3> QED
      BY <3>1
  <2>2. CASE DeviceBuffer <= ParamSize[m]
    <3>1. ParamSize[m] \in T /\ \A y \in T : ParamSize[m] >= y
      BY <1>3, <1>5, <1>6, <2>2
    <3> QED
      BY <3>1
  <2> QED
    BY <1>3, <1>6, <2>1, <2>2
<1>8. bucket_size \in T /\ \A y \in T : bucket_size >= y
  BY <1>4, <1>7, MaxBounds DEF bucket_size
<1>9. bucket_size \in Nat
  BY <1>5, <1>6, <1>8
<1> QED
  BY <1>2, <1>5, <1>6, <1>8, <1>9

\* What the i-th bucket holds, if there is one
Held(bs, i) == IF i \in 1 .. Len(bs) THEN Range(bs[i]) ELSE {}
Bucketed == {bs \in Seq(Seq(Params)) : Len(bs) >= 1}
Fitting(bs) == \A i \in 1 .. Len(bs) : Size(bs[i]) <= bucket_size

LEMMA RangeAppend ==
  ASSUME NEW S, NEW q \in Seq(S), NEW e \in S
  PROVE  Range(Append(q, e)) = Range(q) \cup {e}
<1>1. PICK a : a = Append(q, e)
  OBVIOUS
<1>2. /\ a \in Seq(S) /\ Len(a) = Len(q) + 1 /\ Len(q) \in Nat /\ a[Len(q) + 1] = e
      /\ \A i \in 1 .. Len(q) : a[i] = q[i]
  BY <1>1
<1>3. DOMAIN a = 1 .. Len(q) + 1 /\ DOMAIN q = 1 .. Len(q)
  BY <1>2
<1>4. \A i \in 1 .. Len(q) + 1 : i \in 1 .. Len(q) \/ i = Len(q) + 1
  BY <1>2
<1>5. 1 .. Len(q) \subseteq 1 .. Len(q) + 1 /\ Len(q) + 1 \in 1 .. Len(q) + 1
  BY <1>2
<1>6. ASSUME NEW y PROVE y \in Range(a) <=> y \in Range(q) \/ y = e
  <2>1. y \in Range(a) <=> \E i \in 1 .. Len(q) + 1 : a[i] = y
    BY <1>3 DEF Range
  <2>2. y \in Range(q) <=> \E i \in 1 .. Len(q) : q[i] = y
    BY <1>3 DEF Range
  <2> QED
    BY <1>2, <1>4, <1>5, <2>1, <2>2
<1> QED
  BY <1>1, <1>6

\* register_checkpoint adds a parameter to one bucket and disturbs no other.
LEMMA PlaceAdds ==
  ASSUME NEW bs \in Bucketed, NEW p \in Params
  PROVE  /\ Place(bs, p) \in Bucketed
         /\ Fitting(bs) => Fitting(Place(bs, p))
         /\ \E k \in Nat : \A i \in Nat :
              Held(Place(bs, p), i) = Held(bs, i) \cup (IF i = k THEN {p} ELSE {})
<1>1. PICK l : l = Len(bs) /\ l \in Nat /\ l >= 1
  BY DEF Bucketed
<1>2. bs \in Seq(Seq(Params)) /\ \A i \in 1 .. l : bs[i] \in Seq(Params)
  BY <1>1 DEF Bucketed
<1>3. PICK last : last = bs[l] /\ last \in Seq(Params)
  BY <1>1, <1>2
<1>4. PICK next : next = Place(bs, p)
  OBVIOUS
<1>5. CASE Size(last) + ParamSize[p] > bucket_size
  <2>1. next = Append(bs, << p >>) /\ << p >> \in Seq(Params)
    BY <1>1, <1>3, <1>4, <1>5 DEF Place
  <2>2. /\ next \in Seq(Seq(Params)) /\ Len(next) = l + 1 /\ next[l + 1] = << p >>
        /\ \A i \in 1 .. l : next[i] = bs[i]
    BY <1>1, <1>2, <2>1
  <2>3. next \in Bucketed
    BY <1>1, <2>2 DEF Bucketed
  <2>4. \A i \in 1 .. l + 1 : i \in 1 .. l \/ i = l + 1
    BY <1>1
  <2>5. ASSUME Fitting(bs) PROVE Fitting(next)
    <3>1. Size(<< p >>) <= bucket_size
      BY BufferFits, SmallBuckets
    <3>2. \A i \in 1 .. l : Size(next[i]) <= bucket_size
      BY <1>1, <2>2, <2>5 DEF Fitting
    <3> QED
      BY <2>2, <2>4, <3>1, <3>2 DEF Fitting
  <2>6. Range(<< p >>) = {p}
    BY DEF Range
  <2>7. ASSUME NEW i \in Nat
        PROVE  Held(next, i) = Held(bs, i) \cup (IF i = l + 1 THEN {p} ELSE {})
    <3>1. CASE i \in 1 .. l
      <4>1. i \in 1 .. l + 1 /\ i # l + 1 /\ next[i] = bs[i]
        BY <1>1, <2>2, <3>1
      <4> QED
        BY <1>1, <2>2, <3>1, <4>1 DEF Held
    <3>2. CASE i = l + 1
      <4>1. i \in 1 .. l + 1 /\ i \notin 1 .. l /\ next[i] = << p >>
        BY <1>1, <2>2, <3>2
      <4> QED
        BY <1>1, <2>2, <2>6, <3>2, <4>1 DEF Held
    <3>3. CASE i \notin 1 .. l + 1
      <4>1. i # l + 1 /\ i \notin 1 .. l
        BY <1>1, <3>3
      <4> QED
        BY <1>1, <2>2, <3>3, <4>1 DEF Held
    <3> QED
      BY <2>4, <3>1, <3>2, <3>3
  <2>8. PICK k \in Nat : k = l + 1
    BY <1>1
  <2> QED
    BY <1>4, <2>3, <2>5, <2>7, <2>8
<1>6. CASE ~ (Size(last) + ParamSize[p] > bucket_size)
  <2>0. PICK q : q = Append(last, p)
    OBVIOUS
  <2>1. q = Append(last, p) /\ q \in Seq(Params)
    BY <1>3, <2>0
  <2>2. next = [bs EXCEPT ![l] = q]
    BY <1>1, <1>3, <1>4, <1>6, <2>1 DEF Place
  <2>3. l \in 1 .. l
    BY <1>1
  <2>4. /\ next \in Seq(Seq(Params)) /\ Len(next) = l /\ next[l] = q
        /\ \A i \in 1 .. l : i # l => next[i] = bs[i]
    BY <1>1, <1>2, <2>1, <2>2, <2>3
  <2>5. next \in Bucketed
    BY <1>1, <2>4 DEF Bucketed
  <2>6. ASSUME Fitting(bs) PROVE Fitting(next)
    <3>1. Size(q) <= bucket_size
      BY <1>3, <1>6, <2>1, BufferFits, SizesType, OffsetsAppend
    <3>2. \A i \in 1 .. l : i # l => Size(next[i]) <= bucket_size
      BY <1>1, <2>4, <2>6 DEF Fitting
    <3> QED
      BY <2>4, <3>1, <3>2 DEF Fitting
  <2>7. Range(q) = Range(last) \cup {p}
    BY <1>3, <2>1, RangeAppend
  <2>8. ASSUME NEW i \in Nat
        PROVE  Held(next, i) = Held(bs, i) \cup (IF i = l THEN {p} ELSE {})
    <3>1. CASE i = l
      BY <1>1, <1>3, <2>3, <2>4, <2>7, <3>1 DEF Held
    <3>2. CASE i # l
      <4>1. i \in 1 .. l => next[i] = bs[i]
        BY <2>4, <3>2
      <4> QED
        BY <1>1, <2>4, <3>2, <4>1 DEF Held
    <3> QED
      BY <3>1, <3>2
  <2> QED
    BY <1>1, <1>4, <2>5, <2>6, <2>8
<1> QED
  BY <1>5, <1>6

\* The actor rank that parameter p is put on
LEMMA RankOf ==
  /\ 0 \in actor_ranks /\ actor_ranks \subseteq Nat
  /\ \A n \in Nat : n % ActorNum \in actor_ranks
<1>1. ActorNum \in Nat /\ ActorNum > 0
  BY TransferAssumption
<1>2. \A n \in Nat : n % ActorNum \in 0 .. ActorNum - 1
  BY <1>1
<1> QED
  BY <1>1, <1>2 DEF actor_ranks

\* The loop over weights_info, one parameter at a time.
LEMMA BucketsStep ==
  /\ BucketsBefore \in [1 .. Len(ParamSize) + 1 -> [actor_ranks -> Bucketed]]
  /\ BucketsBefore[1] = [r \in actor_ranks |-> << <<>> >>]
  /\ \A p \in Params :
       BucketsBefore[p + 1] =
         [BucketsBefore[p] EXCEPT ![(p - 1) % ActorNum] = Place(BucketsBefore[p][(p - 1) % ActorNum], p)]
<1>1. PICK l : l = Len(ParamSize) + 1 /\ l \in Nat \ {0} /\ Params = 1 .. l - 1
  BY SizesType DEF Params
<1>2. PICK V : V = [actor_ranks -> Bucketed]
  OBVIOUS
<1>3. PICK z : z = [r \in actor_ranks |-> << <<>> >>]
  OBVIOUS
<1> DEFINE Put(x, k) == [x EXCEPT ![(k - 2) % ActorNum] = Place(x[(k - 2) % ActorNum], k - 1)]
           h == [k \in 2 .. l |-> [x \in V |-> Put(x, k)]]
           Step(f) == [k \in 1 .. l |-> IF k = 1 THEN z ELSE Put(f[k - 1], k)]
<1>4. z \in V
  <2>1. <<>> \in Seq(Params)
    OBVIOUS
  <2>2. << <<>> >> \in Seq(Seq(Params)) /\ Len(<< <<>> >>) = 1
    BY <2>1
  <2>3. << <<>> >> \in Bucketed
    BY <2>2 DEF Bucketed
  <2> QED
    BY <1>2, <1>3, <2>3
<1>5. ASSUME NEW k \in 2 .. l, NEW x \in V PROVE Put(x, k) \in V
  <2>1. PICK r : r = (k - 2) % ActorNum
    OBVIOUS
  <2>2. k - 2 \in Nat /\ k - 1 \in Params
    BY <1>1
  <2>3. r \in actor_ranks
    BY <2>1, <2>2, RankOf
  <2>4. Place(x[r], k - 1) \in Bucketed
    BY <1>2, <2>2, <2>3, PlaceAdds
  <2>5. [x EXCEPT ![r] = Place(x[r], k - 1)] \in V
    BY <1>2, <2>3, <2>4
  <2> QED
    BY <2>1, <2>5
<1>6. h \in [2 .. l -> [V -> V]]
  <2> HIDE DEF Put
  <2> QED
    BY <1>5
<1>7. PICK f \in [1 .. l -> V] : f = Stepwise(l, z, h, f)
  <2> HIDE DEF h
  <2> QED
    BY <1>1, <1>4, <1>6, Recursion
<1>8. f = Step(f)
  <2> HIDE DEF Put
  <2>1. \A k \in 2 .. l : k - 1 \in 1 .. l
    BY <1>1
  <2>2. \A k \in 2 .. l : h[k][f[k - 1]] = Put(f[k - 1], k)
    BY <1>7, <2>1
  <2> HIDE DEF h
  <2>3. f = [k \in 1 .. l |-> IF k = 1 THEN z ELSE h[k][f[k - 1]]]
    BY <1>7 DEF Stepwise
  <2>4. \A k \in 1 .. l : k # 1 => k \in 2 .. l
    BY <1>1
  <2> QED
    BY <2>2, <2>3, <2>4
<1>9. BucketsBefore = Step(BucketsBefore)
  <2>1. BucketsBefore = CHOOSE g : g = Step(g)
    BY <1>1, <1>3 DEF BucketsBefore
  <2>2. \E g : g = Step(g)
    BY <1>8
  <2> HIDE DEF Step
  <2> QED
    BY <2>1, <2>2
<1> DEFINE G == {k \in 1 .. l : BucketsBefore[k] \in V}
<1>10. PICK g : g = BucketsBefore
  OBVIOUS
<1>11. /\ g = [k \in 1 .. l |-> g[k]]
       /\ \A k \in 1 .. l : g[k] = IF k = 1 THEN z ELSE Put(g[k - 1], k)
  <2> HIDE DEF Put
  <2> QED
    BY <1>9, <1>10
<1> HIDE DEF Step, Put
<1>12. \A k \in 1 .. l : g[k] \in V
  <2>1. 1 \in G
    <3>1. 1 \in 1 .. l
      BY <1>1
    <3>2. g[1] = z
      BY <1>11, <3>1
    <3> QED
      BY <1>4, <1>10, <3>1, <3>2
  <2>2. ASSUME NEW k \in 2 .. l, k - 1 \in G PROVE k \in G
    <3>1. k \in 1 .. l /\ k # 1
      BY <1>1
    <3> QED
      BY <1>5, <1>10, <1>11, <2>2, <3>1
  <2>3. \A k \in 2 .. l : k - 1 \in G => k \in G
    BY <2>2
  <2>4. \A k \in 1 .. l : k \in G
    <3> HIDE DEF G
    <3> QED
      BY <1>1, <2>1, <2>3, UpTo
  <2> QED
    BY <1>10, <2>4
<1>13. g \in [1 .. l -> V]
  BY <1>11, <1>12
<1>14. g[1] = z
  <2>1. 1 \in 1 .. l
    BY <1>1
  <2> QED
    BY <1>11, <2>1
<1>15. ASSUME NEW p \in Params
       PROVE  g[p + 1] = [g[p] EXCEPT ![(p - 1) % ActorNum] = Place(g[p][(p - 1) % ActorNum], p)]
  <2>1. p + 1 \in 1 .. l /\ p + 1 # 1 /\ (p + 1) - 1 = p /\ (p + 1) - 2 = p - 1
    BY <1>1
  <2>2. g[p + 1] = Put(g[p], p + 1)
    BY <1>11, <2>1
  <2> QED
    BY <2>1, <2>2 DEF Put
<1> QED
  BY <1>1, <1>2, <1>3, <1>10, <1>13, <1>14, <1>15

\* Before parameter n each earlier one is in one bucket, and all buckets fit.
Spread(n, x) ==
  /\ \A r \in actor_ranks : Fitting(x[r])
  /\ \A r \in actor_ranks : \A i \in Nat : \A p \in Held(x[r], i) : p \in Nat /\ 1 <= p /\ p < n
  /\ \A p \in 1 .. n - 1 : \E r \in actor_ranks : \E i \in Nat : p \in Held(x[r], i)
  /\ \A r, s \in actor_ranks : \A i, j \in Nat : \A p \in Held(x[r], i) :
       p \in Held(x[s], j) => r = s /\ i = j

LEMMA SpreadFirst == Spread(1, [r \in actor_ranks |-> << <<>> >>])
<1>1. PICK e : e = <<>>
  OBVIOUS
<1>2. PICK o : o = << e >>
  OBVIOUS
<1>3. Len(o) = 1 /\ o[1] = e
  BY <1>2
<1>4. Range(e) = {}
  BY <1>1 DEF Range
<1>5. \A i \in Nat : Held(o, i) = {}
  <2>1. \A i \in 1 .. 1 : i = 1
    OBVIOUS
  <2> QED
    BY <1>3, <1>4, <2>1 DEF Held
<1>6. Fitting(o)
  <2>1. Size(e) = 0
    BY <1>1, SmallBuckets
  <2>2. \A i \in 1 .. 1 : i = 1
    OBVIOUS
  <2> QED
    BY <1>3, <2>1, <2>2, BufferFits DEF Fitting
<1>7. PICK x : x = [r \in actor_ranks |-> o]
  OBVIOUS
<1>8. \A r \in actor_ranks : x[r] = o
  BY <1>7
<1>9. 1 .. 1 - 1 = {}
  OBVIOUS
<1>10. Spread(1, x)
  BY <1>5, <1>6, <1>8, <1>9 DEF Spread
<1> QED
  BY <1>1, <1>2, <1>7, <1>10

LEMMA SpreadStep ==
  ASSUME NEW p \in Params, NEW x \in [actor_ranks -> Bucketed], Spread(p, x)
  PROVE  Spread(p + 1, [x EXCEPT ![(p - 1) % ActorNum] = Place(x[(p - 1) % ActorNum], p)])
<1>1. p \in Nat /\ p >= 1 /\ p - 1 \in Nat
  BY SizesType DEF Params
<1>2. PICK r0 : r0 = (p - 1) % ActorNum
  OBVIOUS
<1>3. r0 \in actor_ranks
  BY <1>1, <1>2, RankOf
<1>4. PICK b : b = Place(x[r0], p)
  OBVIOUS
<1>5. PICK y : y = [x EXCEPT ![r0] = b]
  OBVIOUS
<1>6. x[r0] \in Bucketed /\ y[r0] = b /\ \A r \in actor_ranks : r # r0 => y[r] = x[r]
  BY <1>3, <1>5
<1>7. PICK k \in Nat : \A i \in Nat : Held(b, i) = Held(x[r0], i) \cup (IF i = k THEN {p} ELSE {})
  <2>1. PICK c : c = x[r0] /\ c \in Bucketed
    BY <1>6
  <2>2. \E k \in Nat : \A i \in Nat : Held(Place(c, p), i) = Held(c, i) \cup (IF i = k THEN {p} ELSE {})
    BY <2>1, PlaceAdds
  <2> QED
    BY <1>4, <2>1, <2>2, Zenon
<1>8. Fitting(b)
  BY <1>3, <1>4, <1>6, PlaceAdds DEF Spread
<1>9. ASSUME NEW r \in actor_ranks, NEW i \in Nat, NEW q
      PROVE  q \in Held(y[r], i) <=> q \in Held(x[r], i) \/ (r = r0 /\ i = k /\ q = p)
  <2>1. CASE r = r0
    BY <1>6, <1>7, <2>1
  <2>2. CASE r # r0
    BY <1>6, <2>2
  <2> QED
    BY <2>1, <2>2
<1>10. \A r \in actor_ranks : Fitting(y[r])
  BY <1>6, <1>8 DEF Spread
<1>11. ASSUME NEW r \in actor_ranks, NEW i \in Nat, NEW q \in Held(y[r], i)
       PROVE  q \in Nat /\ 1 <= q /\ q < p + 1
  <2>1. q \in Held(x[r], i) \/ q = p
    BY <1>9
  <2>2. CASE q \in Held(x[r], i)
    BY <1>1, <2>2 DEF Spread
  <2>3. CASE q = p
    BY <1>1, <2>3
  <2> QED
    BY <2>1, <2>2, <2>3
<1>12. ASSUME NEW q \in 1 .. (p + 1) - 1
       PROVE  \E r \in actor_ranks : \E i \in Nat : q \in Held(y[r], i)
  <2>1. CASE q = p
    BY <1>3, <1>7, <1>9, <2>1
  <2>2. CASE q # p
    <3>1. q \in 1 .. p - 1
      BY <1>1, <2>2
    <3>2. PICK r \in actor_ranks, i \in Nat : q \in Held(x[r], i)
      BY <3>1 DEF Spread
    <3> QED
      BY <1>9, <3>2
  <2> QED
    BY <2>1, <2>2
<1>13. ASSUME NEW r \in actor_ranks, NEW s \in actor_ranks, NEW i \in Nat, NEW j \in Nat,
              NEW q \in Held(y[r], i), q \in Held(y[s], j)
       PROVE  r = s /\ i = j
  <2>1. \A t \in actor_ranks : \A m \in Nat : p \notin Held(x[t], m)
    BY <1>1 DEF Spread
  <2>2. CASE q = p
    BY <1>9, <1>13, <2>1, <2>2
  <2>3. CASE q # p
    <3>1. q \in Held(x[r], i) /\ q \in Held(x[s], j)
      BY <1>9, <1>13, <2>3
    <3> QED
      BY <3>1 DEF Spread
  <2> QED
    BY <2>2, <2>3
<1>14. Spread(p + 1, y)
  BY <1>10, <1>11, <1>12, <1>13 DEF Spread
<1> QED
  BY <1>2, <1>4, <1>5, <1>14

\* Every parameter is in one bucket of one rank, and every bucket fits.
LEMMA Buckets ==
  /\ global_buckets \in [actor_ranks -> Bucketed]
  /\ \A r \in actor_ranks : Fitting(global_buckets[r])
  /\ \A p \in Params : \E r \in actor_ranks : \E i \in Nat : p \in Held(global_buckets[r], i)
  /\ \A r, s \in actor_ranks : \A i, j \in Nat : \A p \in Held(global_buckets[r], i) :
       p \in Held(global_buckets[s], j) => r = s /\ i = j
<1>1. PICK l : l = Len(ParamSize) + 1 /\ l \in Nat \ {0} /\ Params = 1 .. l - 1
  BY SizesType DEF Params
<1>2. PICK g : g = BucketsBefore
  OBVIOUS
<1>3. PICK V : V = [actor_ranks -> Bucketed]
  OBVIOUS
<1>4. g \in [1 .. l -> V]
  BY <1>1, <1>2, <1>3, BucketsStep
<1> DEFINE G == {k \in 1 .. l : Spread(k, g[k])}
<1>5. 1 \in G
  BY <1>1, <1>2, BucketsStep, SpreadFirst
<1>6. ASSUME NEW k \in 2 .. l, k - 1 \in G PROVE k \in G
  <2>1. PICK p \in Params : p = k - 1 /\ k = p + 1 /\ p \in 1 .. l /\ k \in 1 .. l
    BY <1>1
  <2>2. g[p] \in [actor_ranks -> Bucketed] /\ Spread(p, g[p])
    BY <1>3, <1>4, <1>6, <2>1
  <2>3. g[p + 1] = [g[p] EXCEPT ![(p - 1) % ActorNum] = Place(g[p][(p - 1) % ActorNum], p)]
    BY <1>2, BucketsStep
  <2>4. Spread(p + 1, g[p + 1])
    BY <2>2, <2>3, SpreadStep
  <2> QED
    BY <2>1, <2>4
<1>7. \A k \in 2 .. l : k - 1 \in G => k \in G
  BY <1>6
<1>8. l \in G
  <2> HIDE DEF G
  <2>1. \A k \in 1 .. l : k \in G
    BY <1>1, <1>5, <1>7, UpTo
  <2> QED
    BY <1>1, <2>1
<1>9. Spread(l, global_buckets) /\ global_buckets = g[l] /\ l \in 1 .. l
  BY <1>1, <1>2, <1>8 DEF global_buckets
<1>10. global_buckets \in [actor_ranks -> Bucketed]
  BY <1>3, <1>4, <1>9
<1> QED
  BY <1>1, <1>9, <1>10 DEF Spread

-----------------------------------------------------------------------------
(* The order of the broadcasts                                               *)

LEMMA DivModType ==
  ASSUME NEW n \in Nat \ {0}, NEW k \in Nat
  PROVE  k % n \in Nat /\ k % n < n /\ k \div n \in Nat /\ k = n * (k \div n) + (k % n)
<1>1. k % n \in Nat /\ k % n < n /\ k \div n \in Nat
  OBVIOUS
<1>2. k = n * (k \div n) + (k % n)
  OBVIOUS
<1> QED
  BY <1>1, <1>2

LEMMA ProductGrows ==
  ASSUME NEW n \in Nat \ {0}, NEW a \in Nat, NEW b \in Nat, a + 1 <= b
  PROVE  n * a + n <= n * b /\ n * a \in Nat /\ n * b \in Nat
  OBVIOUS

LEMMA DivModOf ==
  ASSUME NEW n \in Nat \ {0}, NEW a \in Nat, NEW b \in 0 .. n - 1
  PROVE  (n * a + b) \div n = a /\ (n * a + b) % n = b
<1>1. PICK k \in Nat : k = n * a + b
  OBVIOUS
<1>2. PICK q \in Nat, r \in Nat : q = k \div n /\ r = k % n /\ r < n
  BY DivModType
<1>3. k = n * q + r
  BY <1>2, DivModType
<1>4. q = a
  <2>1. CASE q < a
    <3>1. n * q + n <= n * a
      BY <2>1, ProductGrows
    <3> QED
      BY <1>1, <1>2, <1>3, <3>1
  <2>2. CASE a < q
    <3>1. n * a + n <= n * q
      BY <2>2, ProductGrows
    <3> QED
      BY <1>1, <1>2, <1>3, <3>1
  <2> QED
    BY <2>1, <2>2
<1>5. n * a \in Nat
  OBVIOUS
<1>6. r = b
  BY <1>1, <1>3, <1>4, <1>5
<1> QED
  BY <1>1, <1>2, <1>4, <1>6

LEMMA Iterations ==
  /\ max_h2d_iter \in Nat /\ max_h2d_iter * ActorNum \in Nat
  /\ \A r \in actor_ranks : Len(global_buckets[r]) \in Nat /\ Len(global_buckets[r]) <= max_h2d_iter
<1>1. \A r \in actor_ranks : Len(global_buckets[r]) \in Nat
  BY Buckets DEF Bucketed
<1>2. ActorNum \in Nat \ {0} /\ actor_ranks = 0 .. ActorNum - 1
  BY TransferAssumption DEF actor_ranks
<1>3. PICK f : f = [k \in 1 .. ActorNum |-> Len(global_buckets[k - 1])]
  OBVIOUS
<1>4. \A k \in 1 .. ActorNum : k - 1 \in actor_ranks
  BY <1>2
<1>5. f \in [1 .. ActorNum -> Nat]
  BY <1>1, <1>3, <1>4
<1>6. PICK m \in 1 .. ActorNum : \A i \in 1 .. ActorNum : f[i] <= f[m]
  BY <1>2, <1>5, LargestOf
<1>7. PICK T : T = {Len(global_buckets[r]) : r \in actor_ranks}
  OBVIOUS
<1>8. \A y \in T : y \in Nat /\ \E i \in 1 .. ActorNum : y = f[i]
  <2>1. \A r \in actor_ranks : r + 1 \in 1 .. ActorNum /\ (r + 1) - 1 = r
    BY <1>2
  <2>2. \A r \in actor_ranks : f[r + 1] = Len(global_buckets[r])
    BY <1>3, <2>1
  <2> QED
    BY <1>1, <1>7, <2>1, <2>2
<1>9. f[m] \in T /\ f[m] \in Nat
  BY <1>3, <1>4, <1>5, <1>7
<1>10. \A y \in T : f[m] >= y
  BY <1>6, <1>8, <1>9
<1>11. max_h2d_iter \in T /\ \A y \in T : max_h2d_iter >= y
  BY <1>7, <1>9, <1>10, MaxBounds DEF max_h2d_iter
<1>12. max_h2d_iter \in Nat
  BY <1>8, <1>11
<1>13. max_h2d_iter * ActorNum \in Nat
  BY <1>2, <1>12
<1> QED
  BY <1>1, <1>7, <1>11, <1>12, <1>13

Slot == [rank : actor_ranks, i : Nat \ {0}]

\* The turns are numbered without gaps and without repetition.
LEMMA Turns ==
  /\ \A k \in Nat \ {0} : Turn(k) \in Slot
  /\ \A j, k \in Nat \ {0} : Turn(j) = Turn(k) => j = k
  /\ \A r \in actor_ranks : \A i \in 1 .. Len(global_buckets[r]) :
       \E k \in 1 .. max_h2d_iter * ActorNum : Turn(k) = [rank |-> r, i |-> i]
<1>1. ActorNum \in Nat \ {0} /\ actor_ranks = 0 .. ActorNum - 1
  BY TransferAssumption DEF actor_ranks
<1>2. ASSUME NEW k \in Nat \ {0}
      PROVE  /\ Turn(k).rank = (k - 1) % ActorNum /\ Turn(k).i = (k - 1) \div ActorNum + 1
             /\ Turn(k).rank \in Nat /\ Turn(k).rank < ActorNum /\ (k - 1) \div ActorNum \in Nat
             /\ k - 1 = ActorNum * ((k - 1) \div ActorNum) + Turn(k).rank
             /\ Turn(k) \in Slot
  <2>1. PICK j \in Nat : j = k - 1
    OBVIOUS
  <2>2. /\ j % ActorNum \in Nat /\ j % ActorNum < ActorNum /\ j \div ActorNum \in Nat
        /\ j = ActorNum * (j \div ActorNum) + (j % ActorNum)
    BY <1>1, DivModType
  <2>3. j % ActorNum \in actor_ranks /\ j \div ActorNum + 1 \in Nat \ {0}
    BY <1>1, <2>2
  <2>4. Turn(k) = [rank |-> j % ActorNum, i |-> j \div ActorNum + 1]
    BY <2>1 DEF Turn
  <2>5. Turn(k).rank = j % ActorNum /\ Turn(k).i = j \div ActorNum + 1 /\ Turn(k) \in Slot
    BY <2>3, <2>4 DEF Slot
  <2> QED
    BY <2>1, <2>2, <2>5
<1>3. ASSUME NEW j \in Nat \ {0}, NEW k \in Nat \ {0}, Turn(j) = Turn(k) PROVE j = k
  <2>1. (j - 1) \div ActorNum = (k - 1) \div ActorNum
    BY <1>2, <1>3
  <2>2. j - 1 = k - 1
    BY <1>2, <1>3, <2>1
  <2> QED
    BY <2>2
<1>4. ASSUME NEW r \in actor_ranks, NEW i \in 1 .. Len(global_buckets[r])
      PROVE  \E k \in 1 .. max_h2d_iter * ActorNum : Turn(k) = [rank |-> r, i |-> i]
  <2>1. i \in Nat /\ i - 1 \in Nat /\ i <= max_h2d_iter /\ r \in 0 .. ActorNum - 1 /\ max_h2d_iter \in Nat
    BY <1>1, Iterations
  <2>2. (i - 1) + 1 <= max_h2d_iter
    BY <2>1
  <2>3. /\ ActorNum * (i - 1) + ActorNum <= ActorNum * max_h2d_iter
        /\ ActorNum * (i - 1) \in Nat /\ ActorNum * max_h2d_iter \in Nat
    BY <1>1, <2>1, <2>2, ProductGrows
  <2>4. PICK k \in Nat : k = ActorNum * (i - 1) + r + 1
    BY <1>1, <2>1, <2>3
  <2>5. k - 1 = ActorNum * (i - 1) + r
    BY <1>1, <2>1, <2>3, <2>4
  <2>6. (k - 1) \div ActorNum = i - 1 /\ (k - 1) % ActorNum = r
    <3>1. PICK a \in Nat : a = i - 1
      BY <2>1
    <3>2. (ActorNum * a + r) \div ActorNum = a /\ (ActorNum * a + r) % ActorNum = r
      BY <1>1, <2>1, DivModOf
    <3>3. k - 1 = ActorNum * a + r
      BY <2>5, <3>1
    <3> QED
      BY <3>1, <3>2, <3>3
  <2>7. max_h2d_iter * ActorNum = ActorNum * max_h2d_iter
    BY <1>1, <2>1
  <2>8. k \in 1 .. max_h2d_iter * ActorNum
    BY <1>1, <2>1, <2>3, <2>4, <2>7
  <2>9. Turn(k) = [rank |-> r, i |-> i]
    BY <2>1, <2>6 DEF Turn
  <2> QED
    BY <2>8, <2>9
<1> QED
  BY <1>2, <1>3, <1>4

\* The two loops over the iterations and the ranks, one turn at a time.
LEMMA BroadcastsStep ==
  /\ BroadcastsBefore \in [1 .. max_h2d_iter * ActorNum + 1 -> Seq(Slot)]
  /\ BroadcastsBefore[1] = <<>>
  /\ \A k \in 1 .. max_h2d_iter * ActorNum :
       BroadcastsBefore[k + 1] =
         BroadcastsBefore[k] \o (IF HasTurn(Turn(k)) THEN << Turn(k) >> ELSE <<>>)
<1>1. PICK l : l = max_h2d_iter * ActorNum + 1 /\ l \in Nat \ {0} /\ l - 1 = max_h2d_iter * ActorNum
  BY Iterations
<1>2. PICK V : V = Seq(Slot)
  OBVIOUS
<1>3. PICK z : z = <<>>
  OBVIOUS
<1> DEFINE Own(k) == IF HasTurn(Turn(k - 1)) THEN << Turn(k - 1) >> ELSE <<>>
           Put(x, k) == x \o Own(k)
           h == [k \in 2 .. l |-> [x \in V |-> Put(x, k)]]
           Step(f) == [k \in 1 .. l |-> IF k = 1 THEN z ELSE Put(f[k - 1], k)]
<1>4. z \in V
  BY <1>2, <1>3
<1>5. ASSUME NEW k \in 2 .. l, NEW x \in V PROVE Put(x, k) \in V
  <2>1. PICK t : t = Turn(k - 1) /\ t \in Slot
    BY <1>1, Turns
  <2>2. << t >> \in Seq(Slot)
    BY <2>1
  <2>3. <<>> \in Seq(Slot)
    OBVIOUS
  <2>4. Own(k) \in Seq(Slot)
    BY <2>1, <2>2, <2>3
  <2> HIDE DEF Own
  <2> QED
    BY <1>2, <2>4
<1>6. h \in [2 .. l -> [V -> V]]
  <2> HIDE DEF Put
  <2> QED
    BY <1>5
<1>7. PICK f \in [1 .. l -> V] : f = Stepwise(l, z, h, f)
  <2>1. l \in Nat \ {0}
    BY <1>1
  <2> HIDE DEF h
  <2> QED
    BY <1>4, <1>6, <2>1, Recursion
<1>8. f = Step(f)
  <2> HIDE DEF Put
  <2>1. \A k \in 2 .. l : k - 1 \in 1 .. l
    BY <1>1
  <2>2. \A k \in 2 .. l : h[k][f[k - 1]] = Put(f[k - 1], k)
    BY <1>7, <2>1
  <2> HIDE DEF h
  <2>3. f = [k \in 1 .. l |-> IF k = 1 THEN z ELSE h[k][f[k - 1]]]
    BY <1>7 DEF Stepwise
  <2>4. \A k \in 1 .. l : k # 1 => k \in 2 .. l
    BY <1>1
  <2> QED
    BY <2>2, <2>3, <2>4
<1>9. BroadcastsBefore = Step(BroadcastsBefore)
  <2>1. BroadcastsBefore = CHOOSE g : g = Step(g)
    BY <1>1, <1>3 DEF BroadcastsBefore
  <2>2. \E g : g = Step(g)
    BY <1>8
  <2> HIDE DEF Step
  <2> QED
    BY <2>1, <2>2
<1> DEFINE G == {k \in 1 .. l : BroadcastsBefore[k] \in V}
<1>10. PICK g : g = BroadcastsBefore
  OBVIOUS
<1>11. /\ g = [k \in 1 .. l |-> g[k]]
       /\ \A k \in 1 .. l : g[k] = IF k = 1 THEN z ELSE Put(g[k - 1], k)
  <2> HIDE DEF Put
  <2> QED
    BY <1>9, <1>10
<1> HIDE DEF Step, Put, Own
<1>a. 1 \in 1 .. l
  BY <1>1
<1>b. g[1] = z
  BY <1>11, <1>a, Zenon
<1>12. \A k \in 1 .. l : g[k] \in V
  <2>1. 1 \in G
    BY <1>4, <1>10, <1>a, <1>b
  <2>2. ASSUME NEW k \in 2 .. l, k - 1 \in G PROVE k \in G
    <3>1. k \in 1 .. l /\ k # 1
      BY <1>1
    <3> QED
      BY <1>5, <1>10, <1>11, <2>2, <3>1
  <2>3. \A k \in 2 .. l : k - 1 \in G => k \in G
    BY <2>2
  <2>4. \A k \in 1 .. l : k \in G
    <3> HIDE DEF G
    <3> QED
      BY <1>1, <2>1, <2>3, UpTo
  <2> QED
    BY <1>10, <2>4
<1>13. g \in [1 .. l -> V]
  BY <1>11, <1>12
<1>15. ASSUME NEW k \in 1 .. l - 1
       PROVE  g[k + 1] = g[k] \o (IF HasTurn(Turn(k)) THEN << Turn(k) >> ELSE <<>>)
  <2>1. k + 1 \in 1 .. l /\ k + 1 # 1 /\ (k + 1) - 1 = k
    BY <1>1
  <2>2. g[k + 1] = Put(g[k], k + 1)
    BY <1>11, <2>1
  <2> QED
    BY <2>1, <2>2 DEF Put, Own
<1> QED
  BY <1>1, <1>2, <1>3, <1>10, <1>13, <1>b, <1>15

\* The turns before the k-th that have a bucket, each once
Listed(k, s) ==
  /\ \A a \in 1 .. Len(s) : \E j \in 1 .. k - 1 : s[a] = Turn(j) /\ HasTurn(Turn(j))
  /\ \A j \in 1 .. k - 1 : HasTurn(Turn(j)) => \E a \in 1 .. Len(s) : s[a] = Turn(j)
  /\ \A a, b \in 1 .. Len(s) : s[a] = s[b] => a = b

LEMMA ListedStep ==
  ASSUME NEW k \in Nat \ {0}, NEW s \in Seq(Slot), Listed(k, s)
  PROVE  Listed(k + 1, s \o (IF HasTurn(Turn(k)) THEN << Turn(k) >> ELSE <<>>))
<1>1. PICK l : l = Len(s) /\ l \in Nat
  OBVIOUS
<1>2. PICK t : t = Turn(k) /\ t \in Slot
  BY Turns
<1>3. 1 .. (k + 1) - 1 = 1 .. k /\ k \in 1 .. k /\ \A j \in 1 .. k : j # k => j \in 1 .. k - 1
  OBVIOUS
<1>4. \A j \in 1 .. k - 1 : j \in 1 .. k /\ j \in Nat \ {0} /\ j # k
  OBVIOUS
<1>5. CASE HasTurn(t)
  <2>1. PICK u : u = s \o << t >>
    OBVIOUS
  <2>2. Len(u) = l + 1 /\ u[l + 1] = t /\ \A a \in 1 .. l : u[a] = s[a]
    BY <1>1, <1>2, <2>1
  <2>3. \A a \in 1 .. l + 1 : a \in 1 .. l \/ a = l + 1
    BY <1>1
  <2>4. 1 .. l \subseteq 1 .. l + 1 /\ l + 1 \in 1 .. l + 1
    BY <1>1
  <2>5. \A a \in 1 .. l : \E j \in 1 .. k - 1 : s[a] = Turn(j) /\ HasTurn(Turn(j))
    BY <1>1 DEF Listed
  <2>6. \A a \in 1 .. l : s[a] # t
    BY <1>2, <1>4, <2>5, Turns
  <2>7. ASSUME NEW a \in 1 .. l + 1 PROVE \E j \in 1 .. k : u[a] = Turn(j) /\ HasTurn(Turn(j))
    <3>1. CASE a = l + 1
      BY <1>2, <1>3, <1>5, <2>2, <3>1
    <3>2. CASE a \in 1 .. l
      BY <1>4, <2>2, <2>5, <3>2
    <3> QED
      BY <2>3, <3>1, <3>2
  <2>8. ASSUME NEW j \in 1 .. k, HasTurn(Turn(j)) PROVE \E a \in 1 .. l + 1 : u[a] = Turn(j)
    <3>1. CASE j = k
      BY <1>2, <2>2, <2>4, <3>1
    <3>2. CASE j # k
      <4>1. PICK a \in 1 .. l : s[a] = Turn(j)
        BY <1>1, <1>3, <2>8, <3>2 DEF Listed
      <4> QED
        BY <2>2, <2>4, <4>1
    <3> QED
      BY <3>1, <3>2
  <2>9. ASSUME NEW a \in 1 .. l + 1, NEW b \in 1 .. l + 1, u[a] = u[b] PROVE a = b
    <3>1. \A c, d \in 1 .. l : s[c] = s[d] => c = d
      BY <1>1 DEF Listed
    <3> QED
      BY <2>2, <2>3, <2>6, <2>9, <3>1
  <2>10. Listed(k + 1, u)
    BY <1>3, <2>2, <2>7, <2>8, <2>9 DEF Listed
  <2> QED
    BY <1>2, <1>5, <2>1, <2>10
<1>6. CASE ~ HasTurn(t)
  <2>1. s \o <<>> = s
    OBVIOUS
  <2>2. Listed(k + 1, s)
    <3>1. \A a \in 1 .. Len(s) : \E j \in 1 .. k : s[a] = Turn(j) /\ HasTurn(Turn(j))
      BY <1>4 DEF Listed
    <3>2. \A j \in 1 .. k : HasTurn(Turn(j)) => \E a \in 1 .. Len(s) : s[a] = Turn(j)
      BY <1>2, <1>3, <1>6 DEF Listed
    <3> QED
      BY <1>3, <3>1, <3>2 DEF Listed
  <2> QED
    BY <1>2, <1>6, <2>1, <2>2
<1> QED
  BY <1>5, <1>6

LEMMA ScheduleListed ==
  Schedule \in Seq(Slot) /\ Listed(max_h2d_iter * ActorNum + 1, Schedule)
<1>1. PICK l : l = max_h2d_iter * ActorNum + 1 /\ l \in Nat \ {0} /\ l - 1 = max_h2d_iter * ActorNum
  BY Iterations
<1>2. PICK g : g = BroadcastsBefore
  OBVIOUS
<1>3. g \in [1 .. l -> Seq(Slot)]
  BY <1>1, <1>2, BroadcastsStep
<1> DEFINE G == {k \in 1 .. l : Listed(k, g[k])}
<1>4. 1 \in G
  <2>1. PICK e : e = <<>>
    OBVIOUS
  <2>2. 1 .. Len(e) = {}
    BY <2>1
  <2>3. 1 .. 1 - 1 = {}
    OBVIOUS
  <2>4. Listed(1, e)
    BY <2>2, <2>3 DEF Listed
  <2>5. g[1] = e
    BY <1>2, <2>1, BroadcastsStep
  <2> QED
    BY <1>1, <2>4, <2>5
<1>5. ASSUME NEW k \in 2 .. l, k - 1 \in G PROVE k \in G
  <2>1. PICK p \in Nat \ {0} : p = k - 1 /\ k = p + 1 /\ p \in 1 .. l - 1 /\ p \in 1 .. l /\ k \in 1 .. l
    BY <1>1
  <2>2. g[p] \in Seq(Slot) /\ Listed(p, g[p])
    BY <1>3, <1>5, <2>1
  <2>3. g[p + 1] = g[p] \o (IF HasTurn(Turn(p)) THEN << Turn(p) >> ELSE <<>>)
    BY <1>1, <1>2, <2>1, BroadcastsStep
  <2>4. Listed(p + 1, g[p + 1])
    BY <2>2, <2>3, ListedStep
  <2> QED
    BY <2>1, <2>4
<1>6. \A k \in 2 .. l : k - 1 \in G => k \in G
  BY <1>5
<1>7. l \in G
  <2> HIDE DEF G
  <2>1. \A k \in 1 .. l : k \in G
    BY <1>1, <1>4, <1>6, UpTo
  <2> QED
    BY <1>1, <2>1
<1>8. Schedule = g[l] /\ l \in 1 .. l
  BY <1>1, <1>2 DEF Schedule
<1>9. Schedule \in Seq(Slot)
  BY <1>3, <1>8
<1>10. Listed(l, Schedule)
  BY <1>7, <1>8
<1> QED
  BY <1>1, <1>9, <1>10

-----------------------------------------------------------------------------
(* What the protocol needs of the layout                                     *)

\* A bucket to be broadcast is one of its rank's, and fits the buffer.
LEMMA BucketOf ==
  ASSUME NEW g \in 1 .. Len(Schedule)
  PROVE  /\ Schedule[g].rank \in actor_ranks
         /\ Schedule[g].i \in 1 .. Len(global_buckets[Schedule[g].rank])
         /\ Bucket(g) \in Seq(Params) /\ Size(Bucket(g)) \in Nat /\ Size(Bucket(g)) <= bucket_size
<1>1. PICK s : s = Schedule[g]
  OBVIOUS
<1>2. s \in Slot
  BY <1>1, ScheduleListed
<1>3. s.rank \in actor_ranks /\ s.i \in Nat \ {0}
  BY <1>2 DEF Slot
<1>4. HasTurn(s)
  BY <1>1, ScheduleListed DEF Listed
<1>5. PICK bs : bs = global_buckets[s.rank]
  OBVIOUS
<1>6. bs \in Seq(Seq(Params)) /\ Fitting(bs) /\ Len(bs) \in Nat
  BY <1>3, <1>5, Buckets DEF Bucketed
<1>7. s.i \in 1 .. Len(bs)
  BY <1>3, <1>4, <1>5, <1>6 DEF HasTurn
<1>8. bs[s.i] \in Seq(Params) /\ Size(bs[s.i]) <= bucket_size
  BY <1>6, <1>7 DEF Fitting
<1>9. Bucket(g) = bs[s.i]
  BY <1>1, <1>5 DEF Bucket
<1>10. Size(bs[s.i]) \in Nat
  BY <1>8, PackedAt
<1> QED
  BY <1>1, <1>3, <1>5, <1>7, <1>8, <1>9, <1>10

\* A parameter is broadcast, and only once.
LEMMA Broadcast ==
  ASSUME NEW p \in Params
  PROVE  /\ \E g \in 1 .. Len(Schedule) : p \in Range(Bucket(g))
         /\ \A g, k \in 1 .. Len(Schedule) :
              p \in Range(Bucket(g)) /\ p \in Range(Bucket(k)) => g = k
<1>1. ASSUME NEW g \in 1 .. Len(Schedule)
      PROVE  /\ Schedule[g].rank \in actor_ranks /\ Schedule[g].i \in Nat
             /\ Held(global_buckets[Schedule[g].rank], Schedule[g].i) = Range(Bucket(g))
  BY BucketOf DEF Held, Bucket
<1>2. \E g \in 1 .. Len(Schedule) : p \in Range(Bucket(g))
  <2>1. PICK r \in actor_ranks, i \in Nat : p \in Held(global_buckets[r], i)
    BY Buckets
  <2>2. i \in 1 .. Len(global_buckets[r]) /\ p \in Range(global_buckets[r][i])
    BY <2>1 DEF Held
  <2>3. PICK k \in 1 .. max_h2d_iter * ActorNum : Turn(k) = [rank |-> r, i |-> i]
    BY <2>2, Turns
  <2>4. HasTurn(Turn(k))
    BY <2>2, <2>3, Iterations DEF HasTurn
  <2>5. k \in 1 .. (max_h2d_iter * ActorNum + 1) - 1
    BY Iterations
  <2>6. PICK a \in 1 .. Len(Schedule) : Schedule[a] = Turn(k)
    BY <2>4, <2>5, ScheduleListed DEF Listed
  <2>7. Bucket(a) = global_buckets[r][i]
    BY <2>3, <2>6 DEF Bucket
  <2> QED
    BY <2>2, <2>7
<1>3. ASSUME NEW g \in 1 .. Len(Schedule), NEW k \in 1 .. Len(Schedule),
             p \in Range(Bucket(g)), p \in Range(Bucket(k))
      PROVE  g = k
  <2>1. PICK s, t : s = Schedule[g] /\ t = Schedule[k]
    OBVIOUS
  <2>2. s.rank = t.rank /\ s.i = t.i
    BY <1>1, <1>3, <2>1, Buckets
  <2>3. s \in Slot /\ t \in Slot
    BY <2>1, ScheduleListed
  <2>4. s = t
    BY <2>2, <2>3 DEF Slot
  <2> QED
    BY <2>1, <2>4, ScheduleListed DEF Listed
<1> QED
  BY <1>2, <1>3

\* The part of WeightsLoaded that is about the layout
LEMMA LayoutOK ==
  /\ \A g \in 1 .. Len(Schedule) : Size(Bucket(g)) \in 0 .. bucket_size
  /\ \A p \in Params : Cardinality({g \in 1 .. Len(Schedule) : p \in Range(Bucket(g))}) = 1
<1>1. \A g \in 1 .. Len(Schedule) : Size(Bucket(g)) \in 0 .. bucket_size
  BY BucketOf, BufferFits
<1>2. ASSUME NEW p \in Params
      PROVE  Cardinality({g \in 1 .. Len(Schedule) : p \in Range(Bucket(g))}) = 1
  <2>1. PICK g \in 1 .. Len(Schedule) : p \in Range(Bucket(g))
    BY Broadcast
  <2>2. {k \in 1 .. Len(Schedule) : p \in Range(Bucket(k))} = {g}
    BY <2>1, Broadcast
  <2>3. Cardinality({g}) = 1
    BY FS_Singleton
  <2> QED
    BY <2>2, <2>3
<1> QED
  BY <1>1, <1>2
LEMMA Slice ==
  ASSUME NEW S, NEW s \in Seq(S), NEW o \in Nat, NEW n \in Nat, o + n <= Len(s)
  PROVE  SubSeq(s, o + 1, o + n) = [j \in 1 .. n |-> s[o + j]]
<1> DEFINE t == SubSeq(s, o + 1, o + n)
<1>1. t \in Seq(S)
  OBVIOUS
<1>2. Len(t) = n
  OBVIOUS
<1>3. ASSUME NEW j \in 1 .. n PROVE t[j] = s[o + j]
  <2>1. t[j] = s[o + 1 + j - 1]
    OBVIOUS
  <2>2. o + 1 + j - 1 = o + j
    OBVIOUS
  <2> QED
    BY <2>1, <2>2
<1> HIDE DEF t
<1>4. t = [j \in 1 .. Len(t) |-> t[j]]
  BY <1>1
<1>5. t = [j \in 1 .. n |-> s[o + j]]
  BY <1>2, <1>3, <1>4
<1> QED
  BY <1>5 DEF t


-----------------------------------------------------------------------------
(* The invariant of the transfer                                             *)
(*                                                                           *)
(* A rank r is in the states m of its main thread, mm of its memory_buffers, *)
(* h of its h2d_buffer, b of its broadcast_load_buffer, s of its socket, c   *)
(* of its consumer and l of its loaded weights; w is what the sources sent   *)
(* and o says whether broadcast and loading overlap.                         *)

Last == Len(Schedule)
MainState ==
  [pc : {"register", "ready", "copy", "take", "got", "bar", "join", "last", "done"},
   round : Nat, g : Nat, bar : Nat]
Requests == [kind : {"none", "hello", "bucket", "None", "ack"}, g : Nat, start : Nat]
Consumer == [pc : {"off", "wait", "load"}, g : Nat, start : Nat, n : Nat]
HalfOf(o, g) == IF o THEN ((g - 1) % 2) * bucket_size ELSE 0
Sized(b, z) == b = [j \in 1 .. z |-> b[j]]
BufferSize(o) == bucket_size * (IF o THEN 2 ELSE 1)
LastBarrier(o) == IF o THEN Last + 2 ELSE 2

\* Where the main thread is and how many barriers it has come to
MainInv(o, m) ==
  /\ m \in MainState /\ 1 <= m.round /\ m.round <= Rounds
  /\ m.pc \in {"register", "ready"} => m.g = 0
  /\ m.pc \in {"copy", "take", "got", "bar"} => 1 <= m.g
  /\ m.pc \in {"take", "got", "bar"} => m.g <= Last
  /\ m.pc = "copy" => m.g <= Last + 1
  /\ m.pc \in {"join", "last", "done"} => m.g = Last + 1
  /\ m.pc \in {"bar", "join"} => o
  /\ m.pc \in {"last", "done"} => m.bar = LastBarrier(o)
  /\ m.pc = "register" => m.bar = 0
  /\ m.pc = "ready" => m.bar = 1
  /\ m.pc \in {"copy", "take", "got"} => m.bar = IF o THEN m.g ELSE 1
  /\ m.pc = "bar" => m.bar = m.g + 1
  /\ m.pc = "join" => m.bar = Last + 1

\* What the two threads of a rank owe each other: at most the bucket before
\* the main thread's is being loaded.
TalkInv(o, m, s, c) ==
  /\ s \in Requests /\ c \in Consumer
  /\ ~ o \/ m.pc \in {"register", "ready", "last", "done"} => s.kind = "none" /\ c.pc = "off"
  /\ o /\ m.pc \in {"copy", "take", "got"} =>
       /\ s.kind \in {"hello", "bucket", "ack"} /\ c.pc \in {"wait", "load"}
       /\ c.pc = "load" => s.kind = "bucket"
       /\ s.kind = "hello" => m.g = 1
  /\ m.pc = "bar" => s.kind = "ack" /\ c.pc = "wait"
  /\ m.pc = "join" => (s.kind = "None" /\ c.pc = "wait") \/ (s.kind = "ack" /\ c.pc = "off")
  /\ s.kind = "bucket" => 2 <= m.g /\ s.g = m.g - 1 /\ s.start = HalfOf(o, m.g - 1)
  /\ c.pc = "load" =>
       /\ c.g = m.g - 1 /\ c.start = HalfOf(o, m.g - 1)
       /\ 1 <= c.n /\ c.n <= Len(Bucket(m.g - 1)) + 1

\* The rank's own buckets in pinned memory, and the one on the device
MemoryInv(r, m, mm, h) ==
  /\ r \in actor_ranks /\ m.pc \notin {"register", "done"} =>
       mm = [i \in 1 .. Len(global_buckets[r]) |-> Packed(global_buckets[r][i], m.round)]
  /\ r \notin actor_ranks => mm = <<>>
  /\ r \in actor_ranks => \A k \in 1 .. Last :
       ( /\ (k = m.g - 1 /\ m.pc = "copy") \/ (k = m.g /\ m.pc \in {"take", "got", "bar"})
         /\ Schedule[k].i <= Len(global_buckets[r]) )
       => h = Packed(global_buckets[r][Schedule[k].i], m.round)

\* How far the broadcasts of this round have come
NetInv(r, m, w) ==
  /\ m.pc \in {"copy", "take", "join", "last", "done"} => m.g - 1 <= Len(w)
  /\ m.pc \in {"got", "bar"} => m.g <= Len(w)
  /\ \A k \in 1 .. Len(w) :
       Schedule[k].rank = r => k < m.g \/ (k = m.g /\ m.pc \in {"got", "bar"})

\* Bucket k is in its part of the buffer.
InPlace(o, b, k, v) ==
  \A j \in 1 .. Size(Bucket(k)) : b[HalfOf(o, k) + j] = Packed(Bucket(k), v)[j]

BufferInv(o, m, b, s) ==
  /\ m.pc \in {"register", "ready"} => b = <<>>
  /\ m.pc \notin {"register", "ready"} =>
       Sized(b, BufferSize(o))
  /\ m.pc \in {"got", "bar"} => InPlace(o, b, m.g, m.round)
  /\ s.kind = "bucket" => InPlace(o, b, m.g - 1, m.round)

\* What the rollout rank has loaded in this round
LoadedInv(r, m, s, c, l) ==
  r \in rollout_ranks =>
    /\ l = [p \in Params |-> l[p]]
    /\ \A p \in Params : l[p] = <<>> \/ l[p] = Cells(p, m.round - 1) \/ l[p] = Cells(p, m.round)
    /\ \A k \in 1 .. Last : k < m.g /\ ~ (k = m.g - 1 /\ s.kind = "bucket") =>
         \A n \in 1 .. Len(Bucket(k)) : l[Bucket(k)[n]] = Cells(Bucket(k)[n], m.round)
    /\ c.pc = "load" => \A n \in 1 .. Len(Bucket(m.g - 1)) : n < c.n =>
         l[Bucket(m.g - 1)[n]] = Cells(Bucket(m.g - 1)[n], m.round)

RankInv(o, r, m, mm, h, b, w, s, c, l) ==
  /\ MainInv(o, m) /\ TalkInv(o, m, s, c) /\ MemoryInv(r, m, mm, h) /\ NetInv(r, m, w)
  /\ BufferInv(o, m, b, s) /\ LoadedInv(r, m, s, c, l)

\* What has been sent is right, for the round all ranks are in.
Blocks == {Packed(Bucket(k), v) : k \in 1 .. Last, v \in Nat}
SentInv(w, v) ==
  w \in Seq(Blocks) /\ Len(w) <= Last /\ \A k \in 1 .. Len(w) : w[k] = Packed(Bucket(k), v)
TogetherInv(ms) ==
  /\ \A r \in Ranks : ms[r].round = ms[0].round
  /\ (\E r \in Ranks : ms[r].pc = "done") => \A r \in Ranks : ms[r].pc \in {"last", "done"}

Tables(ms, mms, hs, bs, ss, cs, ls) ==
  /\ ms = [r \in Ranks |-> ms[r]] /\ mms = [r \in Ranks |-> mms[r]] /\ hs = [r \in Ranks |-> hs[r]]
  /\ bs = [r \in Ranks |-> bs[r]] /\ ss = [r \in Ranks |-> ss[r]] /\ cs = [r \in Ranks |-> cs[r]]
  /\ ls = [r \in rollout_ranks |-> ls[r]]

TransferInv ==
  /\ overlap \in BOOLEAN /\ Tables(main, mem, h2d, buf, sock, cons, loaded)
  /\ SentInv(net, main[0].round) /\ TogetherInv(main)
  /\ \A r \in Ranks :
       RankInv(overlap, r, main[r], mem[r], h2d[r], buf[r], net, sock[r], cons[r], loaded[r])

-----------------------------------------------------------------------------
(* The buffer                                                                *)

LEMMA LastType == Last \in Nat /\ Schedule \in Seq(Slot)
  BY ScheduleListed DEF Last

\* The parts of the buffer that two broadcasts in a row use do not overlap.
LEMMA Halves ==
  ASSUME NEW o \in BOOLEAN, NEW g \in Nat, g >= 1
  PROVE  /\ HalfOf(o, g) \in Nat /\ BufferSize(o) \in Nat
         /\ HalfOf(o, g) + bucket_size <= BufferSize(o)
         /\ o /\ g >= 2 => \/ HalfOf(o, g) = 0 /\ HalfOf(o, g - 1) = bucket_size
                           \/ HalfOf(o, g) = bucket_size /\ HalfOf(o, g - 1) = 0
<1>1. PICK z : z = bucket_size /\ z \in Nat
  BY BufferFits
<1>2. CASE o
  <2>1. BufferSize(o) = z * 2 /\ z * 2 = z + z
    BY <1>1, <1>2 DEF BufferSize
  <2>2. (g - 1) % 2 \in {0, 1}
    OBVIOUS
  <2>3. 0 * z = 0 /\ 1 * z = z
    BY <1>1
  <2>4. HalfOf(o, g) = ((g - 1) % 2) * z /\ HalfOf(o, g - 1) = ((g - 2) % 2) * z
    <3>1. (g - 1) - 1 = g - 2
      OBVIOUS
    <3> QED
      BY <1>1, <1>2, <3>1 DEF HalfOf
  <2>5. HalfOf(o, g) \in {0, z}
    BY <2>2, <2>3, <2>4
  <2>6. ASSUME g >= 2 PROVE \/ HalfOf(o, g) = 0 /\ HalfOf(o, g - 1) = z
                            \/ HalfOf(o, g) = z /\ HalfOf(o, g - 1) = 0
    <3>1. ((g - 1) % 2 = 0 /\ (g - 2) % 2 = 1) \/ ((g - 1) % 2 = 1 /\ (g - 2) % 2 = 0)
      BY <2>6
    <3> QED
      BY <2>3, <2>4, <3>1
  <2> QED
    BY <1>1, <2>1, <2>5, <2>6
<1>3. CASE ~ o
  <2>1. BufferSize(o) = z * 1 /\ z * 1 = z /\ HalfOf(o, g) = 0
    BY <1>1, <1>3 DEF BufferSize, HalfOf
  <2> QED
    BY <1>1, <1>3, <2>1
<1> QED
  BY <1>2, <1>3

\* What is written is there, and the rest is as it was.
LEMMA WriteAt ==
  ASSUME NEW z \in Nat, NEW b, Sized(b, z),
         NEW n \in Nat, NEW x, Sized(x, n), NEW st \in Nat, st + n <= z
  PROVE  /\ Sized(Written(b, st, x), z)
         /\ \A j \in 1 .. n : Written(b, st, x)[st + j] = x[j]
         /\ \A j \in 1 .. z : ~ (st < j /\ j <= st + n) => Written(b, st, x)[j] = b[j]
<1>1. Len(b) = z /\ Len(x) = n
  BY DEF Sized
<1>2. PICK y : y = Written(b, st, x)
  OBVIOUS
<1>3. y = [c \in 1 .. z |-> IF c - st \in 1 .. n THEN x[c - st] ELSE b[c]]
  BY <1>1, <1>2 DEF Written
<1>4. ASSUME NEW j \in 1 .. n PROVE y[st + j] = x[j]
  <2>1. st + j \in 1 .. z /\ (st + j) - st = j
    OBVIOUS
  <2> QED
    BY <1>3, <2>1
<1>5. ASSUME NEW j \in 1 .. z, ~ (st < j /\ j <= st + n) PROVE y[j] = b[j]
  <2>1. j - st \notin 1 .. n
    BY <1>5
  <2> QED
    BY <1>3, <2>1
<1>6. Sized(y, z)
  BY <1>3 DEF Sized
<1> QED
  BY <1>2, <1>4, <1>5, <1>6

\* A bucket written to its part of the buffer is in place, and so is still
\* the bucket before it.
LEMMA BucketWritten ==
  ASSUME NEW o \in BOOLEAN, NEW g \in 1 .. Last, NEW v,
         NEW b, Sized(b, BufferSize(o)),
         NEW b1, b1 = Written(b, HalfOf(o, g), Packed(Bucket(g), v))
  PROVE  /\ Sized(b1, BufferSize(o))
         /\ InPlace(o, b1, g, v)
         /\ o /\ g >= 2 /\ InPlace(o, b, g - 1, v) => InPlace(o, b1, g - 1, v)
<1>1. g \in Nat /\ g >= 1 /\ g \in 1 .. Len(Schedule)
  BY LastType DEF Last
<1>2. PICK q : q = Bucket(g) /\ q \in Seq(Params) /\ Size(q) \in Nat /\ Size(q) <= bucket_size
  BY <1>1, BucketOf
<1>3. PICK x : x = Packed(q, v)
  OBVIOUS
<1>4. Sized(x, Size(q))
  BY <1>2, <1>3, PackedAt DEF Sized
<1>5. PICK st, z : st = HalfOf(o, g) /\ z = BufferSize(o)
  OBVIOUS
<1>6. st \in Nat /\ z \in Nat /\ st + bucket_size <= z /\ bucket_size \in Nat
  BY <1>1, <1>5, Halves, BufferFits
<1>7. st + Size(q) <= z
  BY <1>2, <1>6
<1>8. Sized(b, z) /\ b1 = Written(b, st, x)
  BY <1>2, <1>3, <1>5
<1>9. /\ Sized(b1, z)
      /\ \A j \in 1 .. Size(q) : b1[st + j] = x[j]
      /\ \A j \in 1 .. z : ~ (st < j /\ j <= st + Size(q)) => b1[j] = b[j]
  <2>1. PICK n \in Nat : n = Size(q) /\ Sized(x, n) /\ st + n <= z
    BY <1>2, <1>4, <1>7
  <2>2. /\ Sized(Written(b, st, x), z)
        /\ \A j \in 1 .. n : Written(b, st, x)[st + j] = x[j]
        /\ \A j \in 1 .. z : ~ (st < j /\ j <= st + n) => Written(b, st, x)[j] = b[j]
    <3>1. z \in Nat /\ Sized(b, z) /\ Sized(x, n) /\ st \in Nat /\ st + n <= z
      BY <1>6, <1>8, <2>1
    <3> QED
      BY <3>1, WriteAt
  <2> QED
    BY <1>8, <2>1, <2>2, Zenon
<1>10. InPlace(o, b1, g, v)
  BY <1>2, <1>3, <1>5, <1>9 DEF InPlace
<1>11. ASSUME o, g >= 2, InPlace(o, b, g - 1, v) PROVE InPlace(o, b1, g - 1, v)
  <2>1. g - 1 \in 1 .. Len(Schedule) /\ g - 1 \in Nat /\ g - 1 >= 1
    BY <1>1, <1>11, LastType DEF Last
  <2>2. PICK n : n = Size(Bucket(g - 1)) /\ n \in Nat /\ n <= bucket_size
    BY <2>1, BucketOf
  <2>3. PICK su : su = HalfOf(o, g - 1) /\ su \in Nat /\ su + bucket_size <= z
    BY <1>5, <2>1, Halves
  <2>4. (st = 0 /\ su = bucket_size) \/ (st = bucket_size /\ su = 0)
    BY <1>1, <1>5, <1>11, <2>3, Halves
  <2>5. ASSUME NEW j \in 1 .. n PROVE b1[su + j] = b[su + j]
    <3>1. su + j \in 1 .. z
      BY <1>6, <2>2, <2>3
    <3>2. ~ (st < su + j /\ su + j <= st + Size(q))
      <4>1. PICK d, e : d = Size(q) /\ e = bucket_size
        OBVIOUS
      <4>2. d \in Nat /\ e \in Nat /\ d <= e /\ n \in Nat /\ n <= e /\ j \in 1 .. n
        BY <1>2, <1>6, <2>2, <4>1
      <4>3. (st = 0 /\ su = e) \/ (st = e /\ su = 0)
        BY <2>4, <4>1
      <4>4. ~ (st < su + j /\ su + j <= st + d)
        BY <4>2, <4>3
      <4> QED
        BY <4>1, <4>4
    <3> QED
      BY <1>9, <3>1, <3>2
  <2> QED
    BY <1>11, <2>2, <2>3, <2>5 DEF InPlace
<1> QED
  BY <1>5, <1>9, <1>10, <1>11

LEMMA AsSequence ==
  ASSUME NEW z \in Nat, NEW b, Sized(b, z)
  PROVE  \E S : b \in Seq(S) /\ Len(b) = z
<1>1. PICK S : S = {b[j] : j \in 1 .. z}
  OBVIOUS
<1>2. Len(b) = z
  BY DEF Sized
<1>3. \A j \in 1 .. z : b[j] \in S
  BY <1>1
<1>4. b \in Seq(S)
  BY <1>2, <1>3 DEF Sized
<1> QED
  BY <1>2, <1>4

\* What a broadcast takes from the buffer, and what load_weights takes from it
LEMMA TakenFrom ==
  ASSUME NEW o \in BOOLEAN, NEW g \in 1 .. Last, NEW v,
         NEW b, Sized(b, BufferSize(o)), InPlace(o, b, g, v)
  PROVE  /\ SubSeq(b, HalfOf(o, g) + 1, HalfOf(o, g) + Size(Bucket(g))) = Packed(Bucket(g), v)
         /\ \A n \in 1 .. Len(Bucket(g)) :
              LET f == HalfOf(o, g) + Offset(Bucket(g), n)
              IN  SubSeq(b, f + 1, f + ParamSize[Bucket(g)[n]]) = Cells(Bucket(g)[n], v)
<1>1. g \in Nat /\ g >= 1 /\ g \in 1 .. Len(Schedule)
  BY LastType DEF Last
<1>2. PICK q : q = Bucket(g) /\ q \in Seq(Params) /\ Size(q) \in Nat /\ Size(q) <= bucket_size
  BY <1>1, BucketOf
<1>3. PICK st, z : st = HalfOf(o, g) /\ z = BufferSize(o)
  OBVIOUS
<1>4. st \in Nat /\ z \in Nat /\ st + bucket_size <= z /\ bucket_size \in Nat
  BY <1>1, <1>3, Halves, BufferFits
<1>5. st + Size(q) <= z
  BY <1>2, <1>4
<1>6. \A j \in 1 .. Size(q) : b[st + j] = Packed(q, v)[j]
  BY <1>2, <1>3 DEF InPlace
<1>8. Sized(b, z)
  BY <1>3
<1>9. PICK S : b \in Seq(S) /\ Len(b) = z
  BY <1>4, <1>8, AsSequence, Zenon
<1>10. SubSeq(b, st + 1, st + Size(q)) = [j \in 1 .. Size(q) |-> b[st + j]]
  <2>1. PICK n \in Nat : n = Size(q) /\ st + n <= Len(b)
    BY <1>2, <1>5, <1>9
  <2>2. SubSeq(b, st + 1, st + n) = [j \in 1 .. n |-> b[st + j]]
    BY <1>4, <1>9, <2>1, Slice
  <2> QED
    BY <2>1, <2>2
<1>11. Packed(q, v) = [j \in 1 .. Size(q) |-> Packed(q, v)[j]]
  BY <1>2, PackedAt
<1>12. SubSeq(b, st + 1, st + Size(q)) = Packed(q, v)
  BY <1>6, <1>10, <1>11
<1>13. ASSUME NEW n \in 1 .. Len(q)
       PROVE  SubSeq(b, (st + Offset(q, n)) + 1, (st + Offset(q, n)) + ParamSize[q[n]]) = Cells(q[n], v)
  <2>1. PICK f, k : f = Offset(q, n) /\ k = ParamSize[q[n]]
    OBVIOUS
  <2>2. q[n] \in Params
    BY <1>2
  <2>3. f \in Nat /\ k \in Nat /\ f + k <= Size(q)
    BY <1>2, <2>1, <2>2, PackedAt, SizesType
  <2>4. \A j \in 1 .. k : Packed(q, v)[f + j] = << q[n], j, v >>
    BY <1>2, <2>1, PackedAt
  <2>5. st + f \in Nat /\ (st + f) + k <= Len(b)
    <3>1. (st + f) + k <= z
      BY <1>2, <1>4, <1>5, <2>3
    <3>2. st + f \in Nat
      BY <1>4, <2>3
    <3> QED
      BY <1>9, <3>1, <3>2, Zenon
  <2>6. SubSeq(b, (st + f) + 1, (st + f) + k) = [j \in 1 .. k |-> b[(st + f) + j]]
    <3>1. PICK i \in Nat, u \in Nat : i = st + f /\ u = k /\ i + u <= Len(b)
      BY <2>3, <2>5
    <3>2. b \in Seq(S) /\ i + u <= Len(b)
      BY <1>9, <3>1
    <3>3. SubSeq(b, i + 1, i + u) = [j \in 1 .. u |-> b[i + j]]
      BY <3>2, Slice
    <3> QED
      BY <3>1, <3>3
  <2>7. ASSUME NEW j \in 1 .. k PROVE b[(st + f) + j] = << q[n], j, v >>
    <3>1. f + j \in 1 .. Size(q) /\ (st + f) + j = st + (f + j)
      BY <1>2, <1>4, <2>3
    <3> QED
      BY <1>6, <2>4, <3>1
  <2>8. SubSeq(b, (st + f) + 1, (st + f) + k) = [j \in 1 .. k |-> << q[n], j, v >>]
    BY <2>6, <2>7
  <2> QED
    BY <2>1, <2>8 DEF Cells
<1> QED
  BY <1>2, <1>3, <1>12, <1>13

-----------------------------------------------------------------------------
(* The steps of one rank                                                     *)

Numbers(w) == Len(w) \in Nat

LEMMA RegisterStep ==
  ASSUME NEW o \in BOOLEAN, NEW r, NEW m, NEW mm, NEW h, NEW b, NEW w, NEW s, NEW c, NEW l,
         RankInv(o, r, m, mm, h, b, w, s, c, l), Numbers(w),
         m.pc = "register",
         NEW m1 \in MainState, m1.pc = "ready", m1.round = m.round, m1.g = m.g, m1.bar = m.bar + 1,
         NEW mm1, mm1 = IF r \in actor_ranks
                          THEN [i \in 1 .. Len(global_buckets[r]) |-> Packed(global_buckets[r][i], m.round)]
                          ELSE <<>>
  PROVE  RankInv(o, r, m1, mm1, h, b, w, s, c, l)
<1>1. m.g = 0 /\ m.bar = 0 /\ m.round \in Nat
  BY DEF RankInv, MainInv, MainState
<1>2. MainInv(o, m1)
  BY <1>1 DEF RankInv, MainInv
<1>3. TalkInv(o, m1, s, c)
  BY DEF RankInv, TalkInv
<1>4. MemoryInv(r, m1, mm1, h)
  BY DEF RankInv, MemoryInv
<1>5. NetInv(r, m1, w)
  BY DEF RankInv, NetInv
<1>6. BufferInv(o, m1, b, s)
  BY DEF RankInv, BufferInv
<1>7. LoadedInv(r, m1, s, c, l)
  BY DEF RankInv, LoadedInv
<1> QED
  BY <1>2, <1>3, <1>4, <1>5, <1>6, <1>7 DEF RankInv

LEMMA StartStep ==
  ASSUME NEW o \in BOOLEAN, NEW r, NEW m, NEW mm, NEW h, NEW b, NEW w, NEW s, NEW c, NEW l,
         RankInv(o, r, m, mm, h, b, w, s, c, l), Numbers(w),
         m.pc = "ready",
         NEW m1 \in MainState, m1.pc = "copy", m1.round = m.round, m1.g = 1, m1.bar = m.bar,
         NEW b1, Sized(b1, BufferSize(o)),
         NEW s1 \in Requests, NEW c1 \in Consumer,
         s1.kind = (IF o THEN "hello" ELSE "none"), c1.pc = (IF o THEN "wait" ELSE "off")
  PROVE  RankInv(o, r, m1, mm, h, b1, w, s1, c1, l)
<1>1. m.g = 0 /\ m.bar = 1 /\ m.round \in Nat /\ Last \in Nat
  BY LastType DEF RankInv, MainInv, MainState
<1>2. MainInv(o, m1)
  BY <1>1 DEF RankInv, MainInv
<1>3. TalkInv(o, m1, s1, c1)
  BY DEF TalkInv
<1>4. MemoryInv(r, m1, mm, h)
  <2>1. \A k \in 1 .. Last : k # m1.g - 1
    BY <1>1
  <2> QED
    BY <2>1 DEF RankInv, MemoryInv
<1>5. NetInv(r, m1, w)
  <2>1. \A k \in 1 .. Len(w) : Schedule[k].rank # r
    BY <1>1 DEF RankInv, NetInv, Numbers
  <2>2. m1.g - 1 <= Len(w)
    BY DEF Numbers
  <2> QED
    BY <2>1, <2>2 DEF NetInv
<1>6. BufferInv(o, m1, b1, s1)
  BY DEF BufferInv
<1>7. LoadedInv(r, m1, s1, c1, l)
  <2>1. \A k \in 1 .. Last : ~ (k < m1.g)
    BY <1>1
  <2> QED
    BY <2>1 DEF RankInv, LoadedInv
<1> QED
  BY <1>2, <1>3, <1>4, <1>5, <1>6, <1>7 DEF RankInv

\* The main thread goes to the next bucket, which another source may have sent.
LEMMA AwaitStep ==
  ASSUME NEW o \in BOOLEAN, NEW r, NEW m, NEW mm, NEW h, NEW b, NEW w, NEW s, NEW c, NEW l,
         RankInv(o, r, m, mm, h, b, w, s, c, l), Numbers(w),
         m.pc = "got", o, s.kind = "ack",
         NEW m1 \in MainState, m1.pc = "bar", m1.round = m.round, m1.g = m.g, m1.bar = m.bar + 1
  PROVE  RankInv(o, r, m1, mm, h, b, w, s, c, l)
<1>1. m.g \in Nat /\ m.bar = m.g /\ c.pc = "wait"
  BY DEF RankInv, MainInv, MainState, TalkInv
<1>2. MainInv(o, m1)
  BY <1>1 DEF RankInv, MainInv
<1>3. TalkInv(o, m1, s, c)
  BY <1>1 DEF RankInv, TalkInv
<1>4. MemoryInv(r, m1, mm, h)
  BY DEF RankInv, MemoryInv
<1>5. NetInv(r, m1, w)
  BY DEF RankInv, NetInv
<1>6. BufferInv(o, m1, b, s)
  BY DEF RankInv, BufferInv
<1>7. LoadedInv(r, m1, s, c, l)
  BY DEF RankInv, LoadedInv
<1> QED
  BY <1>2, <1>3, <1>4, <1>5, <1>6, <1>7 DEF RankInv

LEMMA SendBucketStep ==
  ASSUME NEW o \in BOOLEAN, NEW r, NEW m, NEW mm, NEW h, NEW b, NEW w, NEW s, NEW c, NEW l,
         RankInv(o, r, m, mm, h, b, w, s, c, l), Numbers(w),
         m.pc = "bar",
         NEW m1 \in MainState, m1.pc = "copy", m1.round = m.round, m1.g = m.g + 1, m1.bar = m.bar,
         NEW s1 \in Requests, s1.kind = "bucket", s1.g = m.g, s1.start = HalfOf(o, m.g)
  PROVE  RankInv(o, r, m1, mm, h, b, w, s1, c, l)
<1>1. /\ o /\ m.g \in Nat /\ m.g >= 1 /\ m.g <= Last /\ m.bar = m.g + 1 /\ c.pc = "wait" /\ s.kind = "ack"
      /\ m1.g - 1 = m.g /\ Last \in Nat
  BY LastType DEF RankInv, MainInv, MainState, TalkInv
<1>2. MainInv(o, m1)
  BY <1>1 DEF RankInv, MainInv
<1>3. TalkInv(o, m1, s1, c)
  <2>1. c \in Consumer /\ c.pc = "wait" /\ 2 <= m1.g /\ s1.g = m1.g - 1
    BY <1>1 DEF RankInv, TalkInv
  <2>2. s1.start = HalfOf(o, m1.g - 1)
    BY <1>1
  <2> QED
    BY <1>1, <2>1, <2>2 DEF TalkInv
<1>4. MemoryInv(r, m1, mm, h)
  BY <1>1 DEF RankInv, MemoryInv
<1>5. NetInv(r, m1, w)
  BY <1>1 DEF RankInv, NetInv, Numbers
<1>6. BufferInv(o, m1, b, s1)
  BY <1>1 DEF RankInv, BufferInv
<1>7. LoadedInv(r, m1, s1, c, l)
  <2>1. \A k \in 1 .. Last : k < m1.g /\ ~ (k = m1.g - 1 /\ s1.kind = "bucket") => k < m.g
    BY <1>1
  <2> QED
    BY <1>1, <2>1 DEF RankInv, LoadedInv
<1> QED
  BY <1>2, <1>3, <1>4, <1>5, <1>6, <1>7 DEF RankInv

LEMMA SendNoneStep ==
  ASSUME NEW o \in BOOLEAN, NEW r, NEW m, NEW mm, NEW h, NEW b, NEW w, NEW s, NEW c, NEW l,
         RankInv(o, r, m, mm, h, b, w, s, c, l), Numbers(w),
         m.pc = "copy", o, m.g > Last, s.kind = "ack",
         NEW m1 \in MainState, m1.pc = "join", m1.round = m.round, m1.g = m.g, m1.bar = m.bar,
         NEW s1 \in Requests, s1.kind = "None"
  PROVE  RankInv(o, r, m1, mm, h, b, w, s1, c, l)
<1>1. m.g = Last + 1 /\ m.bar = m.g /\ c.pc = "wait" /\ Last \in Nat
  BY LastType DEF RankInv, MainInv, MainState, TalkInv
<1>2. MainInv(o, m1)
  BY <1>1 DEF RankInv, MainInv
<1>3. TalkInv(o, m1, s1, c)
  BY <1>1 DEF RankInv, TalkInv
<1>4. MemoryInv(r, m1, mm, h)
  BY DEF RankInv, MemoryInv
<1>5. NetInv(r, m1, w)
  BY DEF RankInv, NetInv
<1>6. BufferInv(o, m1, b, s1)
  BY DEF RankInv, BufferInv
<1>7. LoadedInv(r, m1, s1, c, l)
  BY <1>1 DEF RankInv, LoadedInv
<1> QED
  BY <1>2, <1>3, <1>4, <1>5, <1>6, <1>7 DEF RankInv

LEMMA JoinStep ==
  ASSUME NEW o \in BOOLEAN, NEW r, NEW m, NEW mm, NEW h, NEW b, NEW w, NEW s, NEW c, NEW l,
         RankInv(o, r, m, mm, h, b, w, s, c, l), Numbers(w),
         \/ m.pc = "join" /\ s.kind = "ack" /\ c.pc = "off"
         \/ m.pc = "copy" /\ ~ o /\ m.g > Last,
         NEW m1 \in MainState, m1.pc = "last", m1.round = m.round, m1.g = m.g, m1.bar = m.bar + 1,
         NEW s1 \in Requests, s1.kind = "none"
  PROVE  RankInv(o, r, m1, mm, h, b, w, s1, c, l)
<1>1. m.g = Last + 1 /\ m1.bar = LastBarrier(o) /\ c.pc = "off" /\ Last \in Nat /\ s.kind # "bucket"
  BY LastType DEF RankInv, MainInv, MainState, TalkInv, LastBarrier
<1>2. MainInv(o, m1)
  BY <1>1 DEF RankInv, MainInv
<1>3. TalkInv(o, m1, s1, c)
  BY <1>1 DEF RankInv, TalkInv
<1>4. MemoryInv(r, m1, mm, h)
  BY DEF RankInv, MemoryInv
<1>5. NetInv(r, m1, w)
  BY DEF RankInv, NetInv
<1>6. BufferInv(o, m1, b, s1)
  BY DEF RankInv, BufferInv
<1>7. LoadedInv(r, m1, s1, c, l)
  BY <1>1 DEF RankInv, LoadedInv
<1> QED
  BY <1>2, <1>3, <1>4, <1>5, <1>6, <1>7 DEF RankInv

LEMMA LeaveStep ==
  ASSUME NEW o \in BOOLEAN, NEW r, NEW m, NEW mm, NEW h, NEW b, NEW w, NEW s, NEW c, NEW l,
         RankInv(o, r, m, mm, h, b, w, s, c, l), Numbers(w),
         m.pc = "last",
         NEW m1 \in MainState, m1.pc = "done", m1.round = m.round, m1.g = m.g, m1.bar = m.bar,
         NEW mm1, mm1 = <<>>
  PROVE  RankInv(o, r, m1, mm1, h, b, w, s, c, l)
<1>2. MainInv(o, m1)
  BY DEF RankInv, MainInv
<1>3. TalkInv(o, m1, s, c)
  BY DEF RankInv, TalkInv
<1>4. MemoryInv(r, m1, mm1, h)
  BY DEF RankInv, MemoryInv
<1>5. NetInv(r, m1, w)
  BY DEF RankInv, NetInv
<1>6. BufferInv(o, m1, b, s)
  BY DEF RankInv, BufferInv
<1>7. LoadedInv(r, m1, s, c, l)
  BY DEF RankInv, LoadedInv
<1> QED
  BY <1>2, <1>3, <1>4, <1>5, <1>6, <1>7 DEF RankInv

\* What is on the device after step 1, and what the source then sends
OnDeviceNext(g, mm, h) ==
  IF (g = 1 \/ Schedule[g - 1].i # Schedule[g].i) /\ Schedule[g].i <= Len(mm)
    THEN mm[Schedule[g].i] ELSE h
WithBroadcast(w, b, o, g) ==
  Append(w, SubSeq(b, HalfOf(o, g) + 1, HalfOf(o, g) + Size(Bucket(g))))

\* The source's step 1 finds its bucket on the device.
LEMMA OnDevice ==
  ASSUME NEW o \in BOOLEAN, NEW r \in actor_ranks, NEW m, NEW mm, NEW h, NEW b, NEW w, NEW s, NEW c, NEW l,
         RankInv(o, r, m, mm, h, b, w, s, c, l), m.pc = "copy", m.g <= Last,
         NEW h1, h1 = OnDeviceNext(m.g, mm, h),
         Schedule[m.g].i <= Len(global_buckets[r])
  PROVE  h1 = Packed(global_buckets[r][Schedule[m.g].i], m.round)
<1>1. PICK n : n = Len(global_buckets[r]) /\ n \in Nat
  BY Iterations
<1>2. mm = [i \in 1 .. n |-> Packed(global_buckets[r][i], m.round)]
  BY <1>1 DEF RankInv, MemoryInv
<1>3. Len(mm) = n
  BY <1>1, <1>2
<1>4. PICK g : g = m.g /\ g \in 1 .. Last /\ g \in Nat
  BY LastType DEF RankInv, MainInv, MainState
<1>5. PICK i : i = Schedule[g].i /\ i \in Nat /\ i >= 1 /\ i <= n
  <2>1. Schedule[g] \in Slot
    BY <1>4, LastType DEF Last
  <2> QED
    BY <1>1, <1>4, <2>1 DEF Slot
<1>6. CASE g = 1 \/ Schedule[g - 1].i # i
  <2>1. h1 = mm[i]
    BY <1>3, <1>4, <1>5, <1>6 DEF OnDeviceNext
  <2>2. mm[i] = Packed(global_buckets[r][i], m.round)
    BY <1>1, <1>2, <1>5
  <2> QED
    BY <1>4, <1>5, <2>1, <2>2
<1>7. CASE ~ (g = 1 \/ Schedule[g - 1].i # i)
  <2>1. h1 = h /\ g - 1 \in 1 .. Last /\ g - 1 = m.g - 1 /\ Schedule[g - 1].i = i
    BY <1>4, <1>5, <1>7, LastType DEF OnDeviceNext
  <2>2. Schedule[g - 1].i <= Len(global_buckets[r])
    BY <1>1, <1>5, <2>1
  <2>3. h = Packed(global_buckets[r][Schedule[g - 1].i], m.round)
    BY <2>1, <2>2 DEF RankInv, MemoryInv
  <2> QED
    BY <1>4, <1>5, <2>1, <2>3
<1> QED
  BY <1>6, <1>7

\* A rank that is not the source of the bucket
LEMMA CopyStep ==
  ASSUME NEW o \in BOOLEAN, NEW r, NEW m, NEW mm, NEW h, NEW b, NEW w, NEW s, NEW c, NEW l,
         RankInv(o, r, m, mm, h, b, w, s, c, l), Numbers(w),
         m.pc = "copy", m.g <= Last, Schedule[m.g].rank # r,
         NEW m1 \in MainState, m1.pc = "take", m1.round = m.round, m1.g = m.g, m1.bar = m.bar,
         NEW h1, h1 = OnDeviceNext(m.g, mm, h)
  PROVE  RankInv(o, r, m1, mm, h1, b, w, s, c, l)
<1>2. MainInv(o, m1)
  BY DEF RankInv, MainInv
<1>3. TalkInv(o, m1, s, c)
  BY DEF RankInv, TalkInv
<1>4. MemoryInv(r, m1, mm, h1)
  <2>1. ASSUME r \in actor_ranks, Schedule[m.g].i <= Len(global_buckets[r])
        PROVE  h1 = Packed(global_buckets[r][Schedule[m.g].i], m.round)
    BY <2>1, OnDevice
  <2> QED
    BY <2>1 DEF RankInv, MemoryInv
<1>5. NetInv(r, m1, w)
  BY DEF RankInv, NetInv
<1>6. BufferInv(o, m1, b, s)
  BY DEF RankInv, BufferInv
<1>7. LoadedInv(r, m1, s, c, l)
  BY DEF RankInv, LoadedInv
<1> QED
  BY <1>2, <1>3, <1>4, <1>5, <1>6, <1>7 DEF RankInv

LEMMA AppendAt ==
  ASSUME NEW S, NEW q \in Seq(S), NEW e \in S
  PROVE  /\ Append(q, e) \in Seq(S) /\ Len(Append(q, e)) = Len(q) + 1
         /\ Append(q, e)[Len(q) + 1] = e /\ \A i \in 1 .. Len(q) : Append(q, e)[i] = q[i]
  OBVIOUS

\* The source's step: m1, h1, b1 and w1 are what m, h, b and w become.
SourceMove(o, r, m, mm, h, b, w, m1, h1, b1, w1) ==
  /\ m.pc = "copy" /\ m.g <= Last /\ Schedule[m.g].rank = r
  /\ m1 \in MainState /\ m1.pc = "got" /\ m1.round = m.round /\ m1.g = m.g /\ m1.bar = m.bar
  /\ h1 = OnDeviceNext(m.g, mm, h)
  /\ b1 = Written(b, HalfOf(o, m.g), h1)
  /\ w1 = WithBroadcast(w, b1, o, m.g)

\* The source of the bucket: it is the next to be sent.
LEMMA SourceStep ==
  ASSUME NEW o \in BOOLEAN, NEW r, NEW m, NEW mm, NEW h, NEW b, NEW w, NEW s, NEW c, NEW l,
         RankInv(o, r, m, mm, h, b, w, s, c, l), SentInv(w, m.round),
         NEW m1, NEW h1, NEW b1, NEW w1,
         SourceMove(o, r, m, mm, h, b, w, m1, h1, b1, w1)
  PROVE  /\ RankInv(o, r, m1, mm, h1, b1, w1, s, c, l)
         /\ SentInv(w1, m.round) /\ Len(w1) = Len(w) + 1 /\ Schedule[Len(w) + 1].rank = r
<1> /\ m.pc = "copy" /\ m.g <= Last /\ Schedule[m.g].rank = r
    /\ m1 \in MainState /\ m1.pc = "got" /\ m1.round = m.round /\ m1.g = m.g /\ m1.bar = m.bar
    /\ h1 = OnDeviceNext(m.g, mm, h)
    /\ b1 = Written(b, HalfOf(o, m.g), h1)
    /\ w1 = WithBroadcast(w, b1, o, m.g)
  BY DEF SourceMove
<1>1. PICK g : g = m.g /\ g \in 1 .. Last /\ g \in Nat /\ g >= 1 /\ g \in 1 .. Len(Schedule) /\ Last \in Nat
  BY LastType DEF RankInv, MainInv, MainState, Last
<1>2. r \in actor_ranks /\ Schedule[g].i <= Len(global_buckets[r]) /\ Schedule[g].i \in Nat
  BY <1>1, BucketOf
<1>3. h1 = Packed(Bucket(g), m.round)
  <2>1. h1 = Packed(global_buckets[r][Schedule[m.g].i], m.round)
    BY <1>1, <1>2, OnDevice
  <2> QED
    BY <1>1, <2>1 DEF Bucket
<1>4. Sized(b, BufferSize(o)) /\ m.round \in Nat
  BY DEF RankInv, BufferInv, MainInv, MainState
<1>5. b1 = Written(b, HalfOf(o, g), Packed(Bucket(g), m.round))
  BY <1>1, <1>3
<1>6. /\ Sized(b1, BufferSize(o)) /\ InPlace(o, b1, g, m.round)
      /\ o /\ g >= 2 /\ InPlace(o, b, g - 1, m.round) => InPlace(o, b1, g - 1, m.round)
  BY <1>1, <1>4, <1>5, BucketWritten
<1>7. w1 = Append(w, Packed(Bucket(g), m.round))
  <2>1. SubSeq(b1, HalfOf(o, g) + 1, HalfOf(o, g) + Size(Bucket(g))) = Packed(Bucket(g), m.round)
    BY <1>1, <1>6, TakenFrom
  <2> QED
    BY <1>1, <2>1 DEF WithBroadcast
<1>8. PICK x : x = Packed(Bucket(g), m.round) /\ x \in Blocks
  BY <1>1, <1>4 DEF Blocks
<1>9. w \in Seq(Blocks) /\ Len(w) \in Nat
  BY DEF SentInv
<1>10. Len(w) = g - 1
  <2>1. g - 1 <= Len(w)
    BY <1>1 DEF RankInv, NetInv
  <2>2. ~ (g <= Len(w))
    <3>1. \A k \in 1 .. Len(w) : Schedule[k].rank = r => k < m.g
      BY DEF RankInv, NetInv
    <3>2. Schedule[g].rank = r
      BY <1>1
    <3> QED
      BY <1>1, <1>9, <3>1, <3>2
  <2> QED
    BY <1>1, <1>9, <2>1, <2>2
<1>11. /\ w1 \in Seq(Blocks) /\ Len(w1) = Len(w) + 1 /\ w1[g] = x
       /\ \A k \in 1 .. Len(w) : w1[k] = w[k]
  <2>1. w1 = Append(w, x)
    BY <1>7, <1>8
  <2>2. Len(w) + 1 = g
    BY <1>1, <1>10
  <2>3. /\ w1 \in Seq(Blocks) /\ Len(w1) = Len(w) + 1 /\ w1[Len(w) + 1] = x
        /\ \A k \in 1 .. Len(w) : w1[k] = w[k]
    <3>1. /\ Append(w, x) \in Seq(Blocks) /\ Len(Append(w, x)) = Len(w) + 1
          /\ Append(w, x)[Len(w) + 1] = x /\ \A k \in 1 .. Len(w) : Append(w, x)[k] = w[k]
      <4>1. x \in Blocks
        BY <1>8
      <4>2. \A S : \A q \in Seq(S) : \A e \in S :
              /\ Append(q, e) \in Seq(S) /\ Len(Append(q, e)) = Len(q) + 1
              /\ Append(q, e)[Len(q) + 1] = e /\ \A k \in 1 .. Len(q) : Append(q, e)[k] = q[k]
        BY AppendAt
      <4> QED
        BY <1>9, <4>1, <4>2
    <3> QED
      BY <2>1, <3>1, Zenon
  <2> QED
    BY <2>2, <2>3
<1>12. SentInv(w1, m.round)
  <2>1. Len(w1) = g /\ \A k \in 1 .. g : k = g \/ k \in 1 .. Len(w)
    BY <1>1, <1>10, <1>11
  <2> QED
    BY <1>1, <1>8, <1>11, <2>1 DEF SentInv
<1>13. MainInv(o, m1)
  BY DEF RankInv, MainInv
<1>14. TalkInv(o, m1, s, c)
  BY DEF RankInv, TalkInv
<1>15. MemoryInv(r, m1, mm, h1)
  <2>1. h1 = Packed(global_buckets[r][Schedule[m.g].i], m.round)
    BY <1>1, <1>3 DEF Bucket
  <2> QED
    BY <2>1 DEF RankInv, MemoryInv
<1>16. NetInv(r, m1, w1)
  BY <1>1, <1>10, <1>11 DEF RankInv, NetInv
<1>17. BufferInv(o, m1, b1, s)
  <2>1. ASSUME s.kind = "bucket" PROVE InPlace(o, b1, m.g - 1, m.round)
    <3>1. o /\ g >= 2
      BY <1>1, <2>1 DEF RankInv, TalkInv
    <3> QED
      BY <1>1, <1>6, <2>1, <3>1 DEF RankInv, BufferInv
  <2> QED
    BY <1>1, <1>6, <2>1 DEF BufferInv
<1>18. LoadedInv(r, m1, s, c, l)
  BY DEF RankInv, LoadedInv
<1>19. Schedule[Len(w) + 1].rank = r
  BY <1>1, <1>10
<1> QED
  BY <1>11, <1>12, <1>13, <1>14, <1>15, <1>16, <1>17, <1>18, <1>19 DEF RankInv

LEMMA TakeStep ==
  ASSUME NEW o \in BOOLEAN, NEW r, NEW m, NEW mm, NEW h, NEW b, NEW w, NEW s, NEW c, NEW l,
         RankInv(o, r, m, mm, h, b, w, s, c, l), SentInv(w, m.round),
         m.pc = "take", m.g <= Len(w),
         NEW m1 \in MainState, m1.pc = "got", m1.round = m.round, m1.g = m.g, m1.bar = m.bar,
         NEW b1, b1 = Written(b, HalfOf(o, m.g), w[m.g])
  PROVE  RankInv(o, r, m1, mm, h, b1, w, s, c, l)
<1>1. PICK g : g = m.g /\ g \in 1 .. Last /\ g \in Nat /\ g >= 1 /\ Last \in Nat
  BY LastType DEF RankInv, MainInv, MainState, Last
<1>2. w[g] = Packed(Bucket(g), m.round) /\ Len(w) \in Nat
  BY <1>1 DEF SentInv
<1>3. Sized(b, BufferSize(o))
  BY DEF RankInv, BufferInv
<1>4. b1 = Written(b, HalfOf(o, g), Packed(Bucket(g), m.round))
  BY <1>1, <1>2
<1>5. /\ Sized(b1, BufferSize(o)) /\ InPlace(o, b1, g, m.round)
      /\ o /\ g >= 2 /\ InPlace(o, b, g - 1, m.round) => InPlace(o, b1, g - 1, m.round)
  BY <1>1, <1>3, <1>4, BucketWritten
<1>6. MainInv(o, m1)
  BY DEF RankInv, MainInv
<1>7. TalkInv(o, m1, s, c)
  BY DEF RankInv, TalkInv
<1>8. MemoryInv(r, m1, mm, h)
  BY DEF RankInv, MemoryInv
<1>9. NetInv(r, m1, w)
  BY <1>1, <1>2 DEF RankInv, NetInv
<1>10. BufferInv(o, m1, b1, s)
  <2>1. ASSUME s.kind = "bucket" PROVE InPlace(o, b1, m.g - 1, m.round)
    <3>1. o /\ g >= 2
      BY <1>1, <2>1 DEF RankInv, TalkInv
    <3> QED
      BY <1>1, <1>5, <2>1, <3>1 DEF RankInv, BufferInv
  <2> QED
    BY <1>1, <1>5, <2>1 DEF BufferInv
<1>11. LoadedInv(r, m1, s, c, l)
  BY DEF RankInv, LoadedInv
<1> QED
  BY <1>6, <1>7, <1>8, <1>9, <1>10, <1>11 DEF RankInv

\* A bucket is loaded by the main thread.
LoadedNow(l, b, g) ==
  [p \in Params |->
     IF \E n \in 1 .. Len(Bucket(g)) : Bucket(g)[n] = p
       THEN LET n == CHOOSE n \in 1 .. Len(Bucket(g)) : Bucket(g)[n] = p
                f == 0 + Offset(Bucket(g), n)
            IN  SubSeq(b, f + 1, f + ParamSize[Bucket(g)[n]])
       ELSE l[p]]

LEMMA LoadNowStep ==
  ASSUME NEW o \in BOOLEAN, NEW r, NEW m, NEW mm, NEW h, NEW b, NEW w, NEW s, NEW c, NEW l,
         RankInv(o, r, m, mm, h, b, w, s, c, l), Numbers(w),
         m.pc = "got", ~ o,
         NEW m1 \in MainState, m1.pc = "copy", m1.round = m.round, m1.g = m.g + 1, m1.bar = m.bar,
         NEW l1, r \in rollout_ranks => l1 = LoadedNow(l, b, m.g)
  PROVE  RankInv(o, r, m1, mm, h, b, w, s, c, l1)
<1>1. PICK g : g = m.g /\ g \in 1 .. Last /\ g \in Nat /\ g >= 1 /\ Last \in Nat /\ m1.g - 1 = g
  BY LastType DEF RankInv, MainInv, MainState
<1>2. s.kind = "none" /\ c.pc = "off" /\ HalfOf(o, g) = 0 /\ m.round \in Nat
  BY DEF RankInv, TalkInv, HalfOf, MainInv, MainState
<1>3. MainInv(o, m1)
  BY <1>1 DEF RankInv, MainInv
<1>4. TalkInv(o, m1, s, c)
  BY <1>1, <1>2 DEF RankInv, TalkInv
<1>5. MemoryInv(r, m1, mm, h)
  BY <1>1 DEF RankInv, MemoryInv
<1>6. NetInv(r, m1, w)
  <2>1. m1.g - 1 <= Len(w)
    BY <1>1 DEF RankInv, NetInv
  <2>2. ASSUME NEW k \in 1 .. Len(w), Schedule[k].rank = r PROVE k < m1.g
    <3>1. k < m.g \/ k = m.g
      BY <2>2 DEF RankInv, NetInv
    <3> QED
      BY <1>1, <3>1
  <2> QED
    BY <2>1, <2>2 DEF NetInv
<1>7. BufferInv(o, m1, b, s)
  BY <1>1, <1>2 DEF RankInv, BufferInv
<1>8. LoadedInv(r, m1, s, c, l1)
  <2> SUFFICES ASSUME r \in rollout_ranks PROVE LoadedInv(r, m1, s, c, l1)
    BY DEF LoadedInv
  <2>1. PICK q : q = Bucket(g) /\ q \in Seq(Params)
    BY <1>1, BucketOf DEF Last
  <2>2. Sized(b, BufferSize(o)) /\ InPlace(o, b, g, m.round)
    BY <1>1 DEF RankInv, BufferInv
  <2>3. ASSUME NEW n \in 1 .. Len(q)
        PROVE  SubSeq(b, (0 + Offset(q, n)) + 1, (0 + Offset(q, n)) + ParamSize[q[n]]) = Cells(q[n], m.round)
    BY <1>1, <1>2, <2>1, <2>2, TakenFrom
  <2>4. ASSUME NEW p \in Params, NEW n \in 1 .. Len(q), q[n] = p PROVE l1[p] = Cells(p, m.round)
    <3>1. PICK k : k = CHOOSE i \in 1 .. Len(q) : q[i] = p
      OBVIOUS
    <3>2. k \in 1 .. Len(q) /\ q[k] = p
      BY <2>4, <3>1
    <3>3. l1[p] = SubSeq(b, (0 + Offset(q, k)) + 1, (0 + Offset(q, k)) + ParamSize[q[k]])
      BY <1>1, <2>1, <2>4, <3>1 DEF LoadedNow
    <3> QED
      BY <2>3, <3>2, <3>3
  <2>5. ASSUME NEW p \in Params, ~ \E n \in 1 .. Len(q) : q[n] = p PROVE l1[p] = l[p]
    BY <1>1, <2>1, <2>5 DEF LoadedNow
  <2>6. \A p \in Params : l1[p] = l[p] \/ l1[p] = Cells(p, m.round)
    BY <2>4, <2>5
  <2>7. l1 = [p \in Params |-> l1[p]]
    BY DEF LoadedNow
  <2>8. ASSUME NEW k \in 1 .. Last, k < m1.g, NEW n \in 1 .. Len(Bucket(k))
        PROVE  l1[Bucket(k)[n]] = Cells(Bucket(k)[n], m.round)
    <3>1. PICK p : p = Bucket(k)[n] /\ p \in Params
      BY BucketOf DEF Last
    <3>2. CASE k = g
      BY <2>1, <2>4, <3>1, <3>2
    <3>3. CASE k # g
      <4>1. k < m.g
        BY <1>1, <2>8, <3>3
      <4>2. l[p] = Cells(p, m.round)
        BY <1>2, <3>1, <4>1 DEF RankInv, LoadedInv
      <4> QED
        BY <2>6, <3>1, <4>2
    <3> QED
      BY <3>2, <3>3
  <2>9. \A p \in Params : l1[p] = <<>> \/ l1[p] = Cells(p, m.round - 1) \/ l1[p] = Cells(p, m.round)
    BY <2>6 DEF RankInv, LoadedInv
  <2> QED
    BY <1>2, <2>7, <2>8, <2>9 DEF LoadedInv
<1> QED
  BY <1>3, <1>4, <1>5, <1>6, <1>7, <1>8 DEF RankInv

\* The consumer receives a request ...
LEMMA ServeStep ==
  ASSUME NEW o \in BOOLEAN, NEW r, NEW m, NEW mm, NEW h, NEW b, NEW w, NEW s, NEW c, NEW l,
         RankInv(o, r, m, mm, h, b, w, s, c, l), c.pc = "wait",
         NEW s1 \in Requests, NEW c1 \in Consumer,
         \/ /\ s.kind = "bucket" /\ s1 = s
            /\ c1.pc = "load" /\ c1.g = s.g /\ c1.start = s.start /\ c1.n = 1
         \/ s.kind = "hello" /\ s1.kind = "ack" /\ c1.pc = "wait"
         \/ s.kind = "None" /\ s1.kind = "ack" /\ c1.pc = "off"
  PROVE  RankInv(o, r, m, mm, h, b, w, s1, c1, l)
<1>1. MainInv(o, m) /\ MemoryInv(r, m, mm, h) /\ NetInv(r, m, w)
  BY DEF RankInv
<1>2. o /\ m.pc \in {"copy", "take", "got", "bar", "join"} /\ m.g \in Nat
  BY DEF RankInv, TalkInv, MainInv, MainState
<1>3. CASE s.kind = "bucket"
  <2>1. /\ s1 = s /\ c1.pc = "load" /\ c1.g = s.g /\ c1.start = s.start /\ c1.n = 1
        /\ m.pc \in {"copy", "take", "got"} /\ 2 <= m.g
    BY <1>2, <1>3 DEF RankInv, TalkInv
  <2>2. Len(Bucket(m.g - 1)) \in Nat
    <3>1. m.g - 1 \in 1 .. Len(Schedule)
      BY <1>1, <1>2, <2>1, LastType DEF MainInv, Last
    <3> QED
      BY <3>1, BucketOf
  <2>3. TalkInv(o, m, s1, c1)
    <3>1. s.g = m.g - 1 /\ s.start = HalfOf(o, m.g - 1) /\ s \in Requests
      BY <1>3 DEF RankInv, TalkInv
    <3>2. c1.g = m.g - 1 /\ c1.start = HalfOf(o, m.g - 1)
      BY <2>1, <3>1
    <3>3. 1 <= c1.n /\ c1.n <= Len(Bucket(m.g - 1)) + 1
      BY <2>1, <2>2
    <3>4. s1.kind = "bucket" /\ s1.g = m.g - 1 /\ s1.start = HalfOf(o, m.g - 1) /\ s1 \in Requests
      BY <1>3, <2>1, <3>1
    <3> QED
      BY <1>2, <2>1, <3>2, <3>3, <3>4, Zenon DEF TalkInv
  <2>4. BufferInv(o, m, b, s1)
    BY <2>1 DEF RankInv, BufferInv
  <2>5. LoadedInv(r, m, s1, c1, l)
    BY <2>1, <2>2 DEF RankInv, LoadedInv
  <2> QED
    BY <1>1, <2>3, <2>4, <2>5 DEF RankInv
<1>4. CASE s.kind # "bucket"
  <2>1. s1.kind = "ack" /\ \/ s.kind = "hello" /\ c1.pc = "wait" /\ m.pc \in {"copy", "take", "got"}
                           \/ s.kind = "None" /\ c1.pc = "off" /\ m.pc = "join"
    BY <1>2, <1>4 DEF RankInv, TalkInv
  <2>2. TalkInv(o, m, s1, c1)
    BY <1>2, <2>1 DEF TalkInv
  <2>3. BufferInv(o, m, b, s1)
    BY <2>1 DEF RankInv, BufferInv
  <2>4. LoadedInv(r, m, s1, c1, l)
    BY <1>4, <2>1 DEF RankInv, LoadedInv
  <2> QED
    BY <1>1, <2>2, <2>3, <2>4 DEF RankInv
<1> QED
  BY <1>3, <1>4

\* ... loads the bucket's parameters one by one ...
LEMMA LoadStep ==
  ASSUME NEW o \in BOOLEAN, NEW r, NEW m, NEW mm, NEW h, NEW b, NEW w, NEW s, NEW c, NEW l,
         RankInv(o, r, m, mm, h, b, w, s, c, l), c.pc = "load", c.n <= Len(Bucket(c.g)),
         NEW c1 \in Consumer, c1.pc = "load", c1.g = c.g, c1.start = c.start, c1.n = c.n + 1,
         NEW l1, r \in rollout_ranks =>
           l1 = [l EXCEPT ![Bucket(c.g)[c.n]] =
                   LET f == c.start + Offset(Bucket(c.g), c.n)
                   IN  SubSeq(b, f + 1, f + ParamSize[Bucket(c.g)[c.n]])]
  PROVE  RankInv(o, r, m, mm, h, b, w, s, c1, l1)
<1>1. MainInv(o, m) /\ MemoryInv(r, m, mm, h) /\ NetInv(r, m, w) /\ BufferInv(o, m, b, s)
  BY DEF RankInv
<1>2. /\ o /\ m.pc \in {"copy", "take", "got"} /\ m.g \in Nat /\ s.kind = "bucket" /\ 2 <= m.g
      /\ c.g = m.g - 1 /\ c.start = HalfOf(o, m.g - 1) /\ c.n \in Nat /\ 1 <= c.n
  BY DEF RankInv, TalkInv, MainInv, MainState, Consumer
<1>3. PICK k : k = m.g - 1 /\ k \in 1 .. Last /\ k \in 1 .. Len(Schedule)
  BY <1>1, <1>2, LastType DEF MainInv, Last
<1>4. PICK q : q = Bucket(k) /\ q \in Seq(Params) /\ Len(q) \in Nat
  BY <1>3, BucketOf
<1>5. PICK n : n = c.n /\ n \in 1 .. Len(q) /\ c.g = k /\ c.start = HalfOf(o, k)
  BY <1>2, <1>3, <1>4
<1>6. TalkInv(o, m, s, c1)
  <2>1. 1 <= c1.n /\ c1.n <= Len(Bucket(m.g - 1)) + 1
    BY <1>2, <1>3, <1>4, <1>5
  <2>2. c1.g = m.g - 1 /\ c1.start = HalfOf(o, m.g - 1)
    BY <1>2
  <2>3. s.g = m.g - 1 /\ s.start = HalfOf(o, m.g - 1) /\ s \in Requests
    BY <1>2 DEF RankInv, TalkInv
  <2> QED
    BY <1>2, <2>1, <2>2, <2>3, Zenon DEF TalkInv
<1>7. LoadedInv(r, m, s, c1, l1)
  <2> SUFFICES ASSUME r \in rollout_ranks PROVE LoadedInv(r, m, s, c1, l1)
    BY DEF LoadedInv
  <2>1. Sized(b, BufferSize(o)) /\ InPlace(o, b, k, m.round)
    BY <1>1, <1>2, <1>3 DEF BufferInv
  <2>2. PICK x, p : /\ x = SubSeq(b, (HalfOf(o, k) + Offset(q, n)) + 1, (HalfOf(o, k) + Offset(q, n)) + ParamSize[q[n]])
                    /\ p = q[n]
    OBVIOUS
  <2>3. x = Cells(p, m.round) /\ p \in Params
    BY <1>3, <1>4, <1>5, <2>1, <2>2, TakenFrom
  <2>4. l1 = [l EXCEPT ![p] = x]
    BY <1>4, <1>5, <2>2
  <2>5. l = [y \in Params |-> l[y]]
    BY DEF RankInv, LoadedInv
  <2>6. l1 = [y \in Params |-> l1[y]] /\ l1[p] = Cells(p, m.round) /\ \A y \in Params : y # p => l1[y] = l[y]
    BY <2>3, <2>4, <2>5
  <2>7. \A y \in Params : l1[y] = <<>> \/ l1[y] = Cells(y, m.round - 1) \/ l1[y] = Cells(y, m.round)
    BY <2>6 DEF RankInv, LoadedInv
  <2>8. \A y \in Params : l[y] = Cells(y, m.round) => l1[y] = Cells(y, m.round)
    BY <2>6
  <2>9. ASSUME NEW j \in 1 .. Last, j < m.g, ~ (j = m.g - 1 /\ s.kind = "bucket"), NEW i \in 1 .. Len(Bucket(j))
        PROVE  l1[Bucket(j)[i]] = Cells(Bucket(j)[i], m.round)
    <3>1. PICK y : y = Bucket(j)[i] /\ y \in Params
      BY BucketOf DEF Last
    <3>2. l[y] = Cells(y, m.round)
      BY <2>9, <3>1 DEF RankInv, LoadedInv
    <3> QED
      BY <2>8, <3>1, <3>2
  <2>10. ASSUME NEW i \in 1 .. Len(q), i < c1.n PROVE l1[q[i]] = Cells(q[i], m.round)
    <3>1. q[i] \in Params
      BY <1>4
    <3>2. CASE i = n
      BY <2>2, <2>6, <3>2
    <3>3. CASE i # n
      <4>1. i < c.n
        BY <1>2, <1>5, <2>10, <3>3
      <4>2. l[q[i]] = Cells(q[i], m.round)
        BY <1>3, <1>4, <4>1 DEF RankInv, LoadedInv
      <4> QED
        BY <2>8, <3>1, <4>2
    <3> QED
      BY <3>2, <3>3
  <2> QED
    BY <1>3, <1>4, <2>6, <2>7, <2>9, <2>10 DEF LoadedInv
<1> QED
  BY <1>1, <1>6, <1>7 DEF RankInv

\* ... and answers.
LEMMA ReplyStep ==
  ASSUME NEW o \in BOOLEAN, NEW r, NEW m, NEW mm, NEW h, NEW b, NEW w, NEW s, NEW c, NEW l,
         RankInv(o, r, m, mm, h, b, w, s, c, l), c.pc = "load", c.n > Len(Bucket(c.g)),
         NEW s1 \in Requests, s1.kind = "ack", NEW c1 \in Consumer, c1.pc = "wait"
  PROVE  RankInv(o, r, m, mm, h, b, w, s1, c1, l)
<1>1. MainInv(o, m) /\ MemoryInv(r, m, mm, h) /\ NetInv(r, m, w)
  BY DEF RankInv
<1>2. /\ o /\ m.pc \in {"copy", "take", "got"} /\ m.g \in Nat /\ s.kind = "bucket" /\ 2 <= m.g
      /\ c.g = m.g - 1 /\ c.n \in Nat
  BY DEF RankInv, TalkInv, MainInv, MainState, Consumer
<1>3. TalkInv(o, m, s1, c1)
  BY <1>2 DEF TalkInv
<1>4. BufferInv(o, m, b, s1)
  BY DEF RankInv, BufferInv
<1>5. LoadedInv(r, m, s1, c1, l)
  <2> SUFFICES ASSUME r \in rollout_ranks PROVE LoadedInv(r, m, s1, c1, l)
    BY DEF LoadedInv
  <2>1. PICK k : k = m.g - 1 /\ k \in 1 .. Last /\ k \in 1 .. Len(Schedule)
    BY <1>1, <1>2, LastType DEF MainInv, Last
  <2>2. Len(Bucket(k)) \in Nat
    BY <2>1, BucketOf
  <2>3. \A n \in 1 .. Len(Bucket(k)) : n < c.n
    BY <1>2, <2>1, <2>2
  <2>4. \A n \in 1 .. Len(Bucket(k)) : l[Bucket(k)[n]] = Cells(Bucket(k)[n], m.round)
    BY <2>1, <2>3 DEF RankInv, LoadedInv
  <2>5. ASSUME NEW j \in 1 .. Last, j < m.g, NEW n \in 1 .. Len(Bucket(j))
        PROVE  l[Bucket(j)[n]] = Cells(Bucket(j)[n], m.round)
    <3>1. CASE j = k
      BY <2>4, <3>1
    <3>2. CASE j # k
      <4>1. ~ (j = m.g - 1 /\ s.kind = "bucket")
        BY <2>1, <3>2
      <4> QED
        BY <2>5, <4>1 DEF RankInv, LoadedInv
    <3> QED
      BY <3>1, <3>2
  <2> QED
    BY <2>5 DEF RankInv, LoadedInv
<1> QED
  BY <1>1, <1>3, <1>4, <1>5 DEF RankInv

\* A new round: everything of the last one has been loaded.
LEMMA RoundStep ==
  ASSUME NEW o \in BOOLEAN, NEW r, NEW m, NEW mm, NEW h, NEW b, NEW w, NEW s, NEW c, NEW l,
         RankInv(o, r, m, mm, h, b, w, s, c, l), m.pc = "done", m.round < Rounds,
         NEW m1 \in MainState, m1.pc = "register", m1.round = m.round + 1, m1.g = 0, m1.bar = 0,
         NEW h1, NEW b1, b1 = <<>>, NEW w1, w1 = <<>>
  PROVE  RankInv(o, r, m1, mm, h1, b1, w1, s, c, l)
<1>1. m.g = Last + 1 /\ s.kind = "none" /\ c.pc = "off" /\ m.round \in Nat /\ Last \in Nat /\ Rounds \in Nat
  BY LastType, TransferAssumption DEF RankInv, TalkInv, MainInv, MainState
<1>2. MainInv(o, m1)
  BY <1>1 DEF RankInv, MainInv
<1>3. TalkInv(o, m1, s, c)
  BY <1>1 DEF RankInv, TalkInv
<1>4. MemoryInv(r, m1, mm, h1)
  BY DEF RankInv, MemoryInv
<1>5. NetInv(r, m1, w1)
  <2>1. Len(w1) = 0
    BY DEF Numbers
  <2>2. 1 .. 0 = {}
    OBVIOUS
  <2> QED
    BY <2>1, <2>2 DEF NetInv
<1>6. BufferInv(o, m1, b1, s)
  BY <1>1 DEF BufferInv
<1>7. LoadedInv(r, m1, s, c, l)
  <2> SUFFICES ASSUME r \in rollout_ranks PROVE LoadedInv(r, m1, s, c, l)
    BY DEF LoadedInv
  <2>1. ASSUME NEW p \in Params PROVE l[p] = Cells(p, m1.round - 1)
    <3>1. PICK g \in 1 .. Len(Schedule) : p \in Range(Bucket(g))
      BY Broadcast
    <3>2. Bucket(g) \in Seq(Params)
      BY BucketOf
    <3>3. PICK n \in 1 .. Len(Bucket(g)) : Bucket(g)[n] = p
      BY <3>1, <3>2 DEF Range
    <3>4. g \in 1 .. Last /\ g < m.g
      BY <1>1 DEF Last
    <3>5. l[p] = Cells(p, m.round)
      BY <1>1, <3>3, <3>4 DEF RankInv, LoadedInv
    <3>6. m1.round - 1 = m.round
      BY <1>1
    <3> QED
      BY <3>5, <3>6
  <2>2. \A k \in 1 .. Last : ~ (k < m1.g)
    BY <1>1
  <2> QED
    BY <1>1, <2>1, <2>2 DEF RankInv, LoadedInv
<1> QED
  BY <1>2, <1>3, <1>4, <1>5, <1>6, <1>7 DEF RankInv

-----------------------------------------------------------------------------
(* A step of one rank among all of them                                      *)

\* A rank notices only that more has been sent, by another one.
LEMMA OtherRank ==
  ASSUME NEW o, NEW q, NEW m, NEW mm, NEW h, NEW b, NEW w, NEW s, NEW c, NEW l,
         RankInv(o, q, m, mm, h, b, w, s, c, l), Len(w) \in Nat,
         NEW w1, w1 = w \/ (Len(w1) = Len(w) + 1 /\ Schedule[Len(w) + 1].rank # q),
         NEW l1, q \in rollout_ranks => l1 = l
  PROVE  RankInv(o, q, m, mm, h, b, w1, s, c, l1)
<1>1. MainInv(o, m) /\ TalkInv(o, m, s, c) /\ MemoryInv(q, m, mm, h) /\ BufferInv(o, m, b, s)
  BY DEF RankInv
<1>2. LoadedInv(q, m, s, c, l1)
  BY DEF RankInv, LoadedInv
<1>3. NetInv(q, m, w1)
  <2>1. CASE w1 = w
    BY <2>1 DEF RankInv
  <2>2. CASE Len(w1) = Len(w) + 1 /\ Schedule[Len(w) + 1].rank # q
    <3>1. \A k \in 1 .. Len(w1) : Schedule[k].rank = q => k \in 1 .. Len(w)
      BY <2>2
    <3>2. m.g \in Nat
      BY <1>1 DEF MainInv, MainState
    <3> QED
      BY <2>2, <3>1, <3>2 DEF RankInv, NetInv
  <2> QED
    BY <2>1, <2>2
<1> QED
  BY <1>1, <1>2, <1>3 DEF RankInv

NewRank(r) ==
  RankInv(overlap, r, main'[r], mem'[r], h2d'[r], buf'[r], net', sock'[r], cons'[r], loaded'[r])
OthersStay(r) ==
  \A q \in Ranks : q # r =>
    /\ main'[q] = main[q] /\ mem'[q] = mem[q] /\ h2d'[q] = h2d[q] /\ buf'[q] = buf[q]
    /\ sock'[q] = sock[q] /\ cons'[q] = cons[q] /\ (q \in rollout_ranks => loaded'[q] = loaded[q])
NetGrows(r) == net' = net \/ (Len(net') = Len(net) + 1 /\ Schedule[Len(net) + 1].rank = r)

LEMMA RankZero == 0 \in Ranks /\ rollout_ranks \subseteq Ranks /\ actor_ranks \subseteq Ranks
  BY TransferAssumption DEF Ranks, actor_ranks

LEMMA OneRank ==
  ASSUME TransferInv, NEW r \in Ranks, overlap' = overlap,
         Tables(main', mem', h2d', buf', sock', cons', loaded'),
         OthersStay(r), NetGrows(r), SentInv(net', main[r].round), NewRank(r),
         main'[r].round = main[r].round,
         main[r].pc \in {"last", "done"} => main'[r].pc \in {"last", "done"},
         main'[r].pc = "done" => \A q \in Ranks : main[q].pc \in {"last", "done"}
  PROVE  TransferInv'
<1>1. overlap' \in BOOLEAN
  BY DEF TransferInv
<1>2. \A q \in Ranks : main'[q].round = main[q].round
  BY DEF OthersStay
<1>3. \A q \in Ranks : main[q].round = main[0].round
  BY DEF TransferInv, TogetherInv
<1>4. SentInv(net', main'[0].round)
  BY <1>2, <1>3, RankZero
<1>5. TogetherInv(main')
  <2>1. \A q \in Ranks : main'[q].round = main'[0].round
    BY <1>2, <1>3, RankZero
  <2>2. ASSUME NEW q \in Ranks, main'[q].pc = "done", NEW t \in Ranks PROVE main'[t].pc \in {"last", "done"}
    <3>1. main[t].pc \in {"last", "done"}
      BY <2>2 DEF OthersStay, TransferInv, TogetherInv
    <3> QED
      BY <3>1 DEF OthersStay
  <2> QED
    BY <2>1, <2>2 DEF TogetherInv
<1>6. ASSUME NEW q \in Ranks
      PROVE  RankInv(overlap', q, main'[q], mem'[q], h2d'[q], buf'[q], net', sock'[q], cons'[q], loaded'[q])
  <2>1. CASE q = r
    BY <2>1 DEF NewRank
  <2>2. CASE q # r
    <3>1. Len(net) \in Nat
      BY DEF TransferInv, SentInv
    <3>2. net' = net \/ (Len(net') = Len(net) + 1 /\ Schedule[Len(net) + 1].rank # q)
      BY <2>2 DEF NetGrows
    <3>3. RankInv(overlap, q, main[q], mem[q], h2d[q], buf[q], net, sock[q], cons[q], loaded[q])
      BY DEF TransferInv
    <3>4. q \in rollout_ranks => loaded'[q] = loaded[q]
      BY <2>2 DEF OthersStay
    <3>5. RankInv(overlap, q, main[q], mem[q], h2d[q], buf[q], net', sock[q], cons[q], loaded'[q])
      BY <3>1, <3>2, <3>3, <3>4, OtherRank
    <3> QED
      BY <2>2, <3>5 DEF OthersStay
  <2> QED
    BY <2>1, <2>2
<1> QED
  BY <1>1, <1>4, <1>5, <1>6 DEF TransferInv

\* What the invariant says of one rank
LEMMA OfRank ==
  ASSUME TransferInv, NEW r \in Ranks
  PROVE  /\ RankInv(overlap, r, main[r], mem[r], h2d[r], buf[r], net, sock[r], cons[r], loaded[r])
         /\ overlap \in BOOLEAN /\ main[r] \in MainState /\ sock[r] \in Requests /\ cons[r] \in Consumer
         /\ Numbers(net) /\ SentInv(net, main[r].round)
         /\ Tables(main, mem, h2d, buf, sock, cons, loaded)
<1>1. SentInv(net, main[r].round)
  BY DEF TransferInv, TogetherInv
<1>2. RankInv(overlap, r, main[r], mem[r], h2d[r], buf[r], net, sock[r], cons[r], loaded[r])
  BY DEF TransferInv
<1>3. Numbers(net)
  BY <1>1 DEF SentInv, Numbers
<1>4. main[r] \in MainState /\ sock[r] \in Requests /\ cons[r] \in Consumer
  BY <1>2 DEF RankInv, MainInv, TalkInv
<1> QED
  BY <1>1, <1>2, <1>3, <1>4 DEF TransferInv

LEMMA SameNet == ASSUME net' = net, NEW r PROVE NetGrows(r)
  BY DEF NetGrows

\* A step of the main thread
Move(m, m1, pc, g, bar) ==
  m1 \in MainState /\ m1.pc = pc /\ m1.round = m.round /\ m1.g = g /\ m1.bar = bar

LEMMA Moved ==
  ASSUME NEW m \in MainState, NEW x \in Nat,
         NEW pc \in {"register", "ready", "copy", "take", "got", "bar", "join", "last", "done"}
  PROVE  /\ Move(m, [m EXCEPT !.pc = pc], pc, m.g, m.bar)
         /\ Move(m, [m EXCEPT !.pc = pc, !.g = x], pc, x, m.bar)
         /\ Move(m, [m EXCEPT !.pc = pc, !.bar = x], pc, m.g, x)
  BY DEF Move, MainState

LEMMA Next1 == ASSUME NEW m \in MainState PROVE m.g \in Nat /\ m.bar \in Nat /\ m.g + 1 \in Nat /\ m.bar + 1 \in Nat
  BY DEF MainState

LEMMA RegisterKeeps == ASSUME TransferInv, NEW r \in Ranks, Register(r) PROVE TransferInv'
<1>1. PICK m1 : m1 = [main[r] EXCEPT !.pc = "ready", !.bar = main[r].bar + 1]
  OBVIOUS
<1>2. main[r].pc = "register" /\ Move(main[r], m1, "ready", main[r].g, main[r].bar + 1)
  BY <1>1, OfRank, Moved, Next1 DEF Register, At
<1>3. main' = [main EXCEPT ![r] = m1]
  BY <1>1 DEF Register
<1>4. PICK mm1 : mm1 = IF r \in actor_ranks
                         THEN [i \in 1 .. Len(global_buckets[r]) |-> Packed(global_buckets[r][i], main[r].round)]
                         ELSE <<>>
  OBVIOUS
<1>5. mem' = [mem EXCEPT ![r] = mm1]
  BY <1>4 DEF Register
<1>6. UNCHANGED <<overlap, h2d, buf, net, sock, cons, loaded>>
  BY DEF Register
<1>7. RankInv(overlap, r, m1, mm1, h2d[r], buf[r], net, sock[r], cons[r], loaded[r])
  BY <1>2, <1>4, OfRank, RegisterStep DEF Move
<1>8. Tables(main', mem', h2d', buf', sock', cons', loaded') /\ OthersStay(r) /\ main'[r] = m1 /\ mem'[r] = mm1
  BY <1>3, <1>5, <1>6, OfRank DEF Tables, OthersStay
<1>9. NewRank(r)
  BY <1>6, <1>7, <1>8 DEF NewRank
<1> QED
  BY <1>2, <1>6, <1>8, <1>9, OfRank, OneRank, SameNet DEF Move

LEMMA StartKeeps == ASSUME TransferInv, NEW r \in Ranks, Start(r) PROVE TransferInv'
<1>1. PICK m1 : m1 = [main[r] EXCEPT !.pc = "copy", !.g = 1]
  OBVIOUS
<1>2. main[r].pc = "ready" /\ Move(main[r], m1, "copy", 1, main[r].bar)
  BY <1>1, OfRank, Moved DEF Start, At
<1>3. main' = [main EXCEPT ![r] = m1]
  BY <1>1 DEF Start
<1>4. PICK b1 : b1 = [j \in 1 .. BufferSize(overlap) |-> Free]
  OBVIOUS
<1>5. buf' = [buf EXCEPT ![r] = b1] /\ Sized(b1, BufferSize(overlap))
  BY <1>4 DEF Start, BufferSize, Sized
<1>6. UNCHANGED <<overlap, mem, h2d, net, loaded>>
  BY DEF Start
<1>7. PICK s1 : s1 = IF overlap THEN Send("hello", 0, 0) ELSE sock[r]
  OBVIOUS
<1>8. PICK c1 : c1 = IF overlap THEN [cons[r] EXCEPT !.pc = "wait"] ELSE cons[r]
  OBVIOUS
<1>9. /\ sock' = [q \in Ranks |-> sock'[q]] /\ sock'[r] = s1 /\ \A q \in Ranks : q # r => sock'[q] = sock[q]
      /\ cons' = [q \in Ranks |-> cons'[q]] /\ cons'[r] = c1 /\ \A q \in Ranks : q # r => cons'[q] = cons[q]
  <2>1. sock = [q \in Ranks |-> sock[q]] /\ cons = [q \in Ranks |-> cons[q]]
    BY OfRank DEF Tables
  <2>2. CASE overlap
    BY <1>7, <1>8, <2>1, <2>2 DEF Start
  <2>3. CASE ~ overlap
    <3>1. sock' = sock /\ cons' = cons /\ s1 = sock[r] /\ c1 = cons[r]
      BY <1>7, <1>8, <2>3 DEF Start
    <3> QED
      BY <2>1, <3>1
  <2> QED
    BY <2>2, <2>3
<1>10. s1 \in Requests /\ s1.kind = (IF overlap THEN "hello" ELSE "none")
  <2>1. ~ overlap => sock[r].kind = "none"
    BY <1>2, OfRank DEF RankInv, TalkInv
  <2> QED
    BY <1>7, <2>1, OfRank DEF Send, Requests
<1>11. c1 \in Consumer /\ c1.pc = (IF overlap THEN "wait" ELSE "off")
  <2>1. ~ overlap => cons[r].pc = "off"
    BY <1>2, OfRank DEF RankInv, TalkInv
  <2>2. cons[r] \in Consumer
    BY OfRank
  <2> QED
    BY <1>8, <2>1, <2>2 DEF Consumer
<1>12. RankInv(overlap, r, m1, mem[r], h2d[r], b1, net, s1, c1, loaded[r])
  BY <1>2, <1>5, <1>10, <1>11, OfRank, StartStep DEF Move
<1>13. Tables(main', mem', h2d', buf', sock', cons', loaded') /\ OthersStay(r) /\ main'[r] = m1 /\ buf'[r] = b1
  BY <1>3, <1>5, <1>6, <1>9, OfRank DEF Tables, OthersStay
<1>14. NewRank(r)
  BY <1>6, <1>9, <1>12, <1>13 DEF NewRank
<1> QED
  BY <1>2, <1>6, <1>13, <1>14, OfRank, OneRank, SameNet DEF Move

LEMMA AwaitKeeps == ASSUME TransferInv, NEW r \in Ranks, Await(r) PROVE TransferInv'
<1>1. PICK m1 : m1 = [main[r] EXCEPT !.pc = "bar", !.bar = main[r].bar + 1]
  OBVIOUS
<1>2. /\ main[r].pc = "got" /\ overlap /\ sock[r].kind = "ack"
      /\ Move(main[r], m1, "bar", main[r].g, main[r].bar + 1)
  BY <1>1, OfRank, Moved, Next1 DEF Await, At, Answered
<1>3. main' = [main EXCEPT ![r] = m1]
  BY <1>1 DEF Await
<1>4. UNCHANGED <<overlap, mem, h2d, buf, net, loaded, sock, cons>>
  BY DEF Await, tensors
<1>5. RankInv(overlap, r, m1, mem[r], h2d[r], buf[r], net, sock[r], cons[r], loaded[r])
  BY <1>2, OfRank, AwaitStep DEF Move
<1>6. Tables(main', mem', h2d', buf', sock', cons', loaded') /\ OthersStay(r) /\ main'[r] = m1
  BY <1>3, <1>4, OfRank DEF Tables, OthersStay
<1>7. NewRank(r)
  BY <1>4, <1>5, <1>6 DEF NewRank
<1> QED
  BY <1>2, <1>4, <1>6, <1>7, OfRank, OneRank, SameNet DEF Move

LEMMA HalfIs == \A g : Half(g) = HalfOf(overlap, g)
  BY DEF Half, HalfOf

LEMMA SendBucketKeeps == ASSUME TransferInv, NEW r \in Ranks, SendBucket(r) PROVE TransferInv'
<1>1. PICK m1, s1 : /\ m1 = [main[r] EXCEPT !.pc = "copy", !.g = main[r].g + 1]
                    /\ s1 = Send("bucket", main[r].g, HalfOf(overlap, main[r].g))
  OBVIOUS
<1>2. main[r].pc = "bar" /\ Move(main[r], m1, "copy", main[r].g + 1, main[r].bar)
  BY <1>1, OfRank, Moved, Next1 DEF SendBucket, At
<1>3. main' = [main EXCEPT ![r] = m1] /\ sock' = [sock EXCEPT ![r] = s1]
  BY <1>1, HalfIs DEF SendBucket
<1>4. UNCHANGED <<overlap, mem, h2d, buf, net, loaded, cons>>
  BY DEF SendBucket, tensors
<1>5. s1 \in Requests /\ s1.kind = "bucket" /\ s1.g = main[r].g /\ s1.start = HalfOf(overlap, main[r].g)
  <2>1. main[r].g \in Nat /\ main[r].g >= 1 /\ overlap \in BOOLEAN
    BY <1>2, OfRank DEF RankInv, MainInv, MainState
  <2>2. HalfOf(overlap, main[r].g) \in Nat
    BY <2>1, Halves
  <2> QED
    BY <1>1, <2>1, <2>2 DEF Send, Requests
<1>6. RankInv(overlap, r, m1, mem[r], h2d[r], buf[r], net, s1, cons[r], loaded[r])
  BY <1>2, <1>5, OfRank, SendBucketStep DEF Move
<1>7. Tables(main', mem', h2d', buf', sock', cons', loaded') /\ OthersStay(r) /\ main'[r] = m1 /\ sock'[r] = s1
  BY <1>3, <1>4, OfRank DEF Tables, OthersStay
<1>8. NewRank(r)
  BY <1>4, <1>6, <1>7 DEF NewRank
<1> QED
  BY <1>2, <1>4, <1>7, <1>8, OfRank, OneRank, SameNet DEF Move

LEMMA SendNoneKeeps == ASSUME TransferInv, NEW r \in Ranks, SendNone(r) PROVE TransferInv'
<1>1. PICK m1, s1 : m1 = [main[r] EXCEPT !.pc = "join"] /\ s1 = Send("None", 0, 0)
  OBVIOUS
<1>2. /\ main[r].pc = "copy" /\ overlap /\ main[r].g > Last /\ sock[r].kind = "ack"
      /\ Move(main[r], m1, "join", main[r].g, main[r].bar)
  BY <1>1, OfRank, Moved, Next1 DEF SendNone, At, Answered, Last
<1>3. main' = [main EXCEPT ![r] = m1] /\ sock' = [sock EXCEPT ![r] = s1]
  BY <1>1 DEF SendNone, Go
<1>4. UNCHANGED <<overlap, mem, h2d, buf, net, loaded, cons>>
  BY DEF SendNone, tensors
<1>5. s1 \in Requests /\ s1.kind = "None"
  BY <1>1 DEF Send, Requests
<1>6. RankInv(overlap, r, m1, mem[r], h2d[r], buf[r], net, s1, cons[r], loaded[r])
  BY <1>2, <1>5, OfRank, SendNoneStep DEF Move
<1>7. Tables(main', mem', h2d', buf', sock', cons', loaded') /\ OthersStay(r) /\ main'[r] = m1 /\ sock'[r] = s1
  BY <1>3, <1>4, OfRank DEF Tables, OthersStay
<1>8. NewRank(r)
  BY <1>4, <1>6, <1>7 DEF NewRank
<1> QED
  BY <1>2, <1>4, <1>7, <1>8, OfRank, OneRank, SameNet DEF Move

LEMMA JoinKeeps == ASSUME TransferInv, NEW r \in Ranks, Join(r) PROVE TransferInv'
<1>1. PICK m1, s1 : m1 = [main[r] EXCEPT !.pc = "last", !.bar = main[r].bar + 1] /\ s1 = NoAnswer
  OBVIOUS
<1>2. /\ \/ main[r].pc = "join" /\ sock[r].kind = "ack" /\ cons[r].pc = "off"
         \/ main[r].pc = "copy" /\ ~ overlap /\ main[r].g > Last
      /\ Move(main[r], m1, "last", main[r].g, main[r].bar + 1)
  BY <1>1, OfRank, Moved, Next1 DEF Join, At, Answered, Last
<1>3. main' = [main EXCEPT ![r] = m1] /\ sock' = [sock EXCEPT ![r] = s1]
  BY <1>1 DEF Join
<1>4. UNCHANGED <<overlap, mem, h2d, buf, net, loaded, cons>>
  BY DEF Join, tensors
<1>5. s1 \in Requests /\ s1.kind = "none"
  BY <1>1 DEF NoAnswer, Requests
<1>6. RankInv(overlap, r, m1, mem[r], h2d[r], buf[r], net, s1, cons[r], loaded[r])
  BY <1>2, <1>5, OfRank, JoinStep DEF Move
<1>7. Tables(main', mem', h2d', buf', sock', cons', loaded') /\ OthersStay(r) /\ main'[r] = m1 /\ sock'[r] = s1
  BY <1>3, <1>4, OfRank DEF Tables, OthersStay
<1>8. NewRank(r)
  BY <1>4, <1>6, <1>7 DEF NewRank
<1> QED
  BY <1>2, <1>4, <1>7, <1>8, OfRank, OneRank, SameNet DEF Move

\* The last barrier: whoever has come to it is at the end of the round.
LEMMA AtTheEnd ==
  ASSUME NEW o \in BOOLEAN, NEW m, MainInv(o, m), m.bar >= LastBarrier(o)
  PROVE  m.pc \in {"last", "done"}
<1>1. Last \in Nat /\ m \in MainState
  BY LastType DEF MainInv
<1> QED
  BY <1>1 DEF MainInv, MainState, LastBarrier

LEMMA LeaveKeeps == ASSUME TransferInv, NEW r \in Ranks, Leave(r) PROVE TransferInv'
<1>1. PICK m1, mm1 : m1 = [main[r] EXCEPT !.pc = "done"] /\ mm1 = <<>>
  OBVIOUS
<1>2. main[r].pc = "last" /\ Move(main[r], m1, "done", main[r].g, main[r].bar)
  BY <1>1, OfRank, Moved, Next1 DEF Leave, At
<1>3. main' = [main EXCEPT ![r] = m1] /\ mem' = [mem EXCEPT ![r] = mm1]
  BY <1>1 DEF Leave, Go
<1>4. UNCHANGED <<overlap, h2d, buf, net, sock, cons, loaded>>
  BY DEF Leave
<1>5. ASSUME NEW q \in Ranks PROVE main[q].pc \in {"last", "done"}
  <2>1. main[r].bar = LastBarrier(overlap)
    BY <1>2, OfRank DEF RankInv, MainInv
  <2>2. main[q].bar >= LastBarrier(overlap)
    BY <2>1 DEF Leave, Passed
  <2>3. MainInv(overlap, main[q]) /\ overlap \in BOOLEAN
    BY OfRank DEF RankInv
  <2> QED
    BY <2>2, <2>3, AtTheEnd
<1>6. RankInv(overlap, r, m1, mm1, h2d[r], buf[r], net, sock[r], cons[r], loaded[r])
  BY <1>1, <1>2, OfRank, LeaveStep DEF Move
<1>7. Tables(main', mem', h2d', buf', sock', cons', loaded') /\ OthersStay(r) /\ main'[r] = m1 /\ mem'[r] = mm1
  BY <1>3, <1>4, OfRank DEF Tables, OthersStay
<1>8. NewRank(r)
  BY <1>4, <1>6, <1>7 DEF NewRank
<1> QED
  BY <1>2, <1>4, <1>5, <1>7, <1>8, OfRank, OneRank, SameNet DEF Move

LEMMA CopyKeeps == ASSUME TransferInv, NEW r \in Ranks, Copy(r) PROVE TransferInv'
<1>1. PICK m, h1 : m = main[r] /\ h1 = OnDeviceNext(m.g, mem[r], h2d[r])
  OBVIOUS
<1>2. m.pc = "copy" /\ m.g <= Last /\ h2d' = [h2d EXCEPT ![r] = h1]
  BY <1>1 DEF Copy, At, Last, OnDeviceNext
<1>3. UNCHANGED <<overlap, mem, sock, cons, loaded>>
  BY DEF Copy
<1>4. CASE Schedule[m.g].rank = r
  <2>1. PICK m1, b1, w1 :
          /\ m1 = [main[r] EXCEPT !.pc = "got"] /\ b1 = Written(buf[r], HalfOf(overlap, m.g), h1)
          /\ w1 = Append(net, SubSeq(b1, HalfOf(overlap, m.g) + 1, HalfOf(overlap, m.g) + Size(Bucket(m.g))))
    OBVIOUS
  <2>2. Move(m, m1, "got", m.g, m.bar)
    BY <1>1, <2>1, OfRank, Moved, Next1
  <2>3. main' = [main EXCEPT ![r] = m1] /\ buf' = [buf EXCEPT ![r] = b1]
    BY <1>1, <1>4, <2>1, HalfIs DEF Copy, Go, OnDeviceNext
  <2>4. /\ Tables(main', mem', h2d', buf', sock', cons', loaded') /\ OthersStay(r)
        /\ main'[r] = m1 /\ buf'[r] = b1 /\ h2d'[r] = h1
    BY <1>2, <1>3, <2>3, OfRank DEF Tables, OthersStay
  <2>5. net' = w1
    <3>1. net' = Append(net, SubSeq(buf'[r], Half(m.g) + 1, Half(m.g) + Size(Bucket(m.g))))
      BY <1>1, <1>4 DEF Copy
    <3> QED
      BY <2>1, <2>4, <3>1, HalfIs
  <2>6. /\ RankInv(overlap, r, m1, mem[r], h1, b1, w1, sock[r], cons[r], loaded[r])
        /\ SentInv(w1, m.round) /\ Len(w1) = Len(net) + 1 /\ Schedule[Len(net) + 1].rank = r
    <3>1. /\ RankInv(overlap, r, m, mem[r], h2d[r], buf[r], net, sock[r], cons[r], loaded[r])
          /\ SentInv(net, m.round) /\ overlap \in BOOLEAN
      BY <1>1, OfRank
    <3>2. m1 \in MainState /\ m1.pc = "got" /\ m1.round = m.round /\ m1.g = m.g /\ m1.bar = m.bar
      BY <2>2 DEF Move
    <3> QED
      <4>1. PICK o, mm, h, b, w, s, c, l :
              /\ o \in BOOLEAN /\ o = overlap /\ mm = mem[r] /\ h = h2d[r] /\ b = buf[r] /\ w = net
              /\ s = sock[r] /\ c = cons[r] /\ l = loaded[r]
        BY <3>1, Zenon
      <4>2. /\ RankInv(o, r, m, mm, h, b, w, s, c, l) /\ SentInv(w, m.round)
            /\ m.pc = "copy" /\ m.g <= Last /\ Schedule[m.g].rank = r
        BY <1>2, <1>4, <3>1, <4>1, Zenon
      <4>3. h1 = OnDeviceNext(m.g, mm, h)
        BY <1>1, <4>1, Zenon
      <4>4. b1 = Written(b, HalfOf(o, m.g), h1)
        BY <2>1, <4>1, Zenon
      <4>5. w1 = WithBroadcast(w, b1, o, m.g)
        BY <2>1, <4>1 DEF WithBroadcast
      <4>6. SourceMove(o, r, m, mm, h, b, w, m1, h1, b1, w1)
        BY <3>2, <4>2, <4>3, <4>4, <4>5 DEF SourceMove
      <4>7. /\ RankInv(o, r, m1, mm, h1, b1, w1, s, c, l)
            /\ SentInv(w1, m.round) /\ Len(w1) = Len(w) + 1 /\ Schedule[Len(w) + 1].rank = r
        BY <4>1, <4>2, <4>6, SourceStep
      <4> QED
        BY <4>1, <4>7, Zenon
  <2>7. NewRank(r) /\ NetGrows(r) /\ SentInv(net', main[r].round)
    BY <1>1, <1>3, <2>4, <2>5, <2>6 DEF NewRank, NetGrows
  <2> QED
    BY <1>1, <1>2, <1>3, <2>2, <2>4, <2>7, OneRank DEF Move
<1>5. CASE Schedule[m.g].rank # r
  <2>1. PICK m1 : m1 = [main[r] EXCEPT !.pc = "take"]
    OBVIOUS
  <2>2. Move(m, m1, "take", m.g, m.bar)
    BY <1>1, <2>1, OfRank, Moved, Next1
  <2>3. main' = [main EXCEPT ![r] = m1] /\ buf' = buf /\ net' = net
    BY <1>1, <1>5, <2>1 DEF Copy, Go
  <2>4. /\ Tables(main', mem', h2d', buf', sock', cons', loaded') /\ OthersStay(r)
        /\ main'[r] = m1 /\ h2d'[r] = h1
    BY <1>2, <1>3, <2>3, OfRank DEF Tables, OthersStay
  <2>5. RankInv(overlap, r, m1, mem[r], h1, buf[r], net, sock[r], cons[r], loaded[r])
    <3>1. /\ RankInv(overlap, r, m, mem[r], h2d[r], buf[r], net, sock[r], cons[r], loaded[r])
          /\ Numbers(net) /\ overlap \in BOOLEAN
      BY <1>1, OfRank
    <3>2. m1 \in MainState /\ m1.pc = "take" /\ m1.round = m.round /\ m1.g = m.g /\ m1.bar = m.bar
      BY <2>2 DEF Move
    <3> QED
      BY <1>1, <1>2, <1>5, <3>1, <3>2, CopyStep
  <2>6. NewRank(r)
    BY <1>3, <2>3, <2>4, <2>5 DEF NewRank
  <2> QED
    BY <1>1, <1>2, <1>3, <2>2, <2>3, <2>4, <2>6, OfRank, OneRank, SameNet DEF Move
<1> QED
  BY <1>4, <1>5

LEMMA TakeKeeps == ASSUME TransferInv, NEW r \in Ranks, Take(r) PROVE TransferInv'
<1>1. PICK m1, b1 : /\ m1 = [main[r] EXCEPT !.pc = "got"]
                    /\ b1 = Written(buf[r], HalfOf(overlap, main[r].g), net[main[r].g])
  OBVIOUS
<1>2. main[r].pc = "take" /\ main[r].g <= Len(net) /\ Move(main[r], m1, "got", main[r].g, main[r].bar)
  BY <1>1, OfRank, Moved, Next1 DEF Take, At
<1>3. main' = [main EXCEPT ![r] = m1] /\ buf' = [buf EXCEPT ![r] = b1]
  BY <1>1, HalfIs DEF Take, Go
<1>4. UNCHANGED <<overlap, mem, h2d, net, sock, cons, loaded>>
  BY DEF Take
<1>5. RankInv(overlap, r, m1, mem[r], h2d[r], b1, net, sock[r], cons[r], loaded[r])
  BY <1>1, <1>2, OfRank, TakeStep DEF Move
<1>6. Tables(main', mem', h2d', buf', sock', cons', loaded') /\ OthersStay(r) /\ main'[r] = m1 /\ buf'[r] = b1
  BY <1>3, <1>4, OfRank DEF Tables, OthersStay
<1>7. NewRank(r)
  BY <1>4, <1>5, <1>6 DEF NewRank
<1> QED
  BY <1>2, <1>4, <1>6, <1>7, OfRank, OneRank, SameNet DEF Move

LEMMA LoadNowKeeps == ASSUME TransferInv, NEW r \in Ranks, LoadNow(r) PROVE TransferInv'
<1>1. PICK m, m1 : m = main[r] /\ m1 = [main[r] EXCEPT !.pc = "copy", !.g = main[r].g + 1]
  OBVIOUS
<1>2. m.pc = "got" /\ ~ overlap /\ Move(m, m1, "copy", m.g + 1, m.bar)
  BY <1>1, OfRank, Moved, Next1 DEF LoadNow, At
<1>3. main' = [main EXCEPT ![r] = m1]
  BY <1>1 DEF LoadNow
<1>4. UNCHANGED <<overlap, mem, h2d, buf, net, sock, cons>>
  BY DEF LoadNow
<1>5. loaded = [q \in rollout_ranks |-> loaded[q]]
  BY OfRank DEF Tables
<1>6. /\ loaded' = [q \in rollout_ranks |-> loaded'[q]]
      /\ \A q \in rollout_ranks : q # r => loaded'[q] = loaded[q]
      /\ r \in rollout_ranks => loaded'[r] = LoadedNow(loaded[r], buf[r], m.g)
  BY <1>1, <1>5 DEF LoadNow, Loads, Extract, LoadedNow
<1>7. RankInv(overlap, r, m1, mem[r], h2d[r], buf[r], net, sock[r], cons[r], loaded'[r])
  <2>1. /\ RankInv(overlap, r, m, mem[r], h2d[r], buf[r], net, sock[r], cons[r], loaded[r])
        /\ Numbers(net) /\ overlap \in BOOLEAN
    BY <1>1, OfRank
  <2>2. m1 \in MainState /\ m1.pc = "copy" /\ m1.round = m.round /\ m1.g = m.g + 1 /\ m1.bar = m.bar
    BY <1>2 DEF Move
  <2> QED
    BY <1>2, <1>6, <2>1, <2>2, LoadNowStep
<1>8. Tables(main', mem', h2d', buf', sock', cons', loaded') /\ OthersStay(r) /\ main'[r] = m1
  BY <1>3, <1>4, <1>6, OfRank DEF Tables, OthersStay
<1>9. NewRank(r)
  BY <1>4, <1>7, <1>8 DEF NewRank
<1> QED
  BY <1>1, <1>2, <1>4, <1>8, <1>9, OfRank, OneRank, SameNet DEF Move

LEMMA ServeKeeps == ASSUME TransferInv, NEW r \in Ranks, Serve(r) PROVE TransferInv'
<1>1. /\ cons[r].pc = "wait" /\ sock[r].kind \in {"hello", "bucket", "None"}
      /\ cons[r] \in Consumer /\ sock[r] \in Requests
  BY OfRank DEF Serve
<1>2. UNCHANGED <<overlap, main, mem, h2d, buf, net, loaded>>
  BY DEF Serve, consOther
<1>3. Tables(main, mem, h2d, buf, sock, cons, loaded)
  BY OfRank
<1>4. PICK s1, c1 :
        /\ sock' = [sock EXCEPT ![r] = s1] /\ cons' = [cons EXCEPT ![r] = c1]
        /\ s1 \in Requests /\ c1 \in Consumer
        /\ \/ /\ sock[r].kind = "bucket" /\ s1 = sock[r]
              /\ c1.pc = "load" /\ c1.g = sock[r].g /\ c1.start = sock[r].start /\ c1.n = 1
           \/ sock[r].kind = "hello" /\ s1.kind = "ack" /\ c1.pc = "wait"
           \/ sock[r].kind = "None" /\ s1.kind = "ack" /\ c1.pc = "off"
  <2>1. CASE sock[r].kind = "bucket"
    <3>1. PICK c1 : c1 = [pc |-> "load", g |-> sock[r].g, start |-> sock[r].start, n |-> 1]
      OBVIOUS
    <3>2. cons' = [cons EXCEPT ![r] = c1] /\ sock' = sock
      BY <2>1, <3>1 DEF Serve
    <3>3. sock' = [sock EXCEPT ![r] = sock[r]]
      BY <1>3, <3>2 DEF Tables
    <3>4. c1 \in Consumer /\ c1.pc = "load" /\ c1.g = sock[r].g /\ c1.start = sock[r].start /\ c1.n = 1
      BY <1>1, <3>1 DEF Consumer, Requests
    <3> QED
      BY <1>1, <2>1, <3>2, <3>3, <3>4
  <2>2. CASE sock[r].kind # "bucket"
    <3>1. PICK s1, c1 : /\ s1 = [sock[r] EXCEPT !.kind = "ack"]
                        /\ c1 = [cons[r] EXCEPT !.pc = IF sock[r].kind = "None" THEN "off" ELSE cons[r].pc]
      OBVIOUS
    <3>2. cons' = [cons EXCEPT ![r] = c1] /\ sock' = [sock EXCEPT ![r] = s1]
      BY <2>2, <3>1 DEF Serve
    <3>3. s1 \in Requests /\ s1.kind = "ack"
      BY <1>1, <3>1 DEF Requests
    <3>4. c1 \in Consumer /\ c1.pc = IF sock[r].kind = "None" THEN "off" ELSE "wait"
      BY <1>1, <3>1 DEF Consumer
    <3> QED
      BY <1>1, <2>2, <3>2, <3>3, <3>4
  <2> QED
    BY <2>1, <2>2
<1>5. RankInv(overlap, r, main[r], mem[r], h2d[r], buf[r], net, s1, c1, loaded[r])
  BY <1>1, <1>4, OfRank, ServeStep
<1>6. Tables(main', mem', h2d', buf', sock', cons', loaded') /\ OthersStay(r) /\ sock'[r] = s1 /\ cons'[r] = c1
  BY <1>2, <1>3, <1>4 DEF Tables, OthersStay
<1>7. NewRank(r)
  BY <1>2, <1>5, <1>6 DEF NewRank
<1>8. main'[r].pc = "done" => \A q \in Ranks : main[q].pc \in {"last", "done"}
  BY <1>2 DEF TransferInv, TogetherInv
<1> QED
  BY <1>2, <1>6, <1>7, <1>8, OfRank, OneRank, SameNet

LEMMA LoadKeeps == ASSUME TransferInv, NEW r \in Ranks, Load(r) PROVE TransferInv'
<1>1. PICK c, c1 : c = cons[r] /\ c1 = [cons[r] EXCEPT !.n = cons[r].n + 1]
  OBVIOUS
<1>2. c.pc = "load" /\ c.n <= Len(Bucket(c.g)) /\ cons' = [cons EXCEPT ![r] = c1]
  BY <1>1 DEF Load
<1>3. UNCHANGED <<overlap, main, mem, h2d, buf, net, sock>>
  BY DEF Load, consOther
<1>4. c1 \in Consumer /\ c1.pc = "load" /\ c1.g = c.g /\ c1.start = c.start /\ c1.n = c.n + 1
  <2>1. c \in Consumer
    BY <1>1, OfRank
  <2> QED
    BY <1>1, <1>2, <2>1 DEF Consumer
<1>5. Tables(main, mem, h2d, buf, sock, cons, loaded)
  BY OfRank
<1>6. /\ loaded' = [q \in rollout_ranks |-> loaded'[q]]
      /\ \A q \in rollout_ranks : q # r => loaded'[q] = loaded[q]
      /\ r \in rollout_ranks =>
           loaded'[r] = [loaded[r] EXCEPT ![Bucket(c.g)[c.n]] =
             LET f == c.start + Offset(Bucket(c.g), c.n)
             IN  SubSeq(buf[r], f + 1, f + ParamSize[Bucket(c.g)[c.n]])]
  BY <1>1, <1>5 DEF Load, Loads, Extract, Tables
<1>7. RankInv(overlap, r, main[r], mem[r], h2d[r], buf[r], net, sock[r], c1, loaded'[r])
  <2>1. /\ RankInv(overlap, r, main[r], mem[r], h2d[r], buf[r], net, sock[r], c, loaded[r])
        /\ overlap \in BOOLEAN
    BY <1>1, OfRank
  <2> QED
    BY <1>2, <1>4, <1>6, <2>1, LoadStep
<1>8. Tables(main', mem', h2d', buf', sock', cons', loaded') /\ OthersStay(r) /\ cons'[r] = c1
  BY <1>2, <1>3, <1>5, <1>6 DEF Tables, OthersStay
<1>9. NewRank(r)
  BY <1>3, <1>7, <1>8 DEF NewRank
<1>10. main'[r].pc = "done" => \A q \in Ranks : main[q].pc \in {"last", "done"}
  BY <1>3 DEF TransferInv, TogetherInv
<1> QED
  BY <1>3, <1>8, <1>9, <1>10, OfRank, OneRank, SameNet

LEMMA ReplyKeeps == ASSUME TransferInv, NEW r \in Ranks, Reply(r) PROVE TransferInv'
<1>1. PICK s1, c1 : s1 = Send("ack", 0, 0) /\ c1 = [Idle EXCEPT !.pc = "wait"]
  OBVIOUS
<1>2. /\ cons[r].pc = "load" /\ cons[r].n > Len(Bucket(cons[r].g))
      /\ sock' = [sock EXCEPT ![r] = s1] /\ cons' = [cons EXCEPT ![r] = c1]
  BY <1>1 DEF Reply
<1>3. UNCHANGED <<overlap, main, mem, h2d, buf, net, loaded>>
  BY DEF Reply, consOther
<1>4. s1 \in Requests /\ s1.kind = "ack" /\ c1 \in Consumer /\ c1.pc = "wait"
  BY <1>1 DEF Send, Idle, Requests, Consumer
<1>5. RankInv(overlap, r, main[r], mem[r], h2d[r], buf[r], net, s1, c1, loaded[r])
  BY <1>2, <1>4, OfRank, ReplyStep
<1>6. Tables(main', mem', h2d', buf', sock', cons', loaded') /\ OthersStay(r) /\ sock'[r] = s1 /\ cons'[r] = c1
  BY <1>2, <1>3, OfRank DEF Tables, OthersStay
<1>7. NewRank(r)
  BY <1>3, <1>5, <1>6 DEF NewRank
<1>8. main'[r].pc = "done" => \A q \in Ranks : main[q].pc \in {"last", "done"}
  BY <1>3 DEF TransferInv, TogetherInv
<1> QED
  BY <1>3, <1>6, <1>7, <1>8, OfRank, OneRank, SameNet

LEMMA RoundKeeps == ASSUME TransferInv, NextRound PROVE TransferInv'
<1>1. \A r \in Ranks : main[r].pc = "done" /\ main[r].round < Rounds
  BY DEF NextRound, At
<1>2. UNCHANGED <<overlap, mem, sock, cons, loaded>> /\ net' = <<>>
  BY DEF NextRound
<1>3. ASSUME NEW r \in Ranks
      PROVE  /\ h2d'[r] = <<>> /\ buf'[r] = <<>> /\ main'[r] \in MainState /\ main'[r].pc = "register"
             /\ main'[r].round = main[r].round + 1 /\ main'[r].g = 0 /\ main'[r].bar = 0
  <2>1. main[r] \in MainState
    BY OfRank
  <2>2. main'[r] = [main[r] EXCEPT !.pc = "register", !.round = main[r].round + 1, !.g = 0, !.bar = 0]
    BY DEF NextRound
  <2>3. h2d'[r] = <<>> /\ buf'[r] = <<>>
    BY DEF NextRound
  <2>4. PICK m, m1 : m = main[r] /\ m1 = main'[r]
    OBVIOUS
  <2>5. PICK x : x = m.round + 1 /\ x \in Nat
    BY <2>1, <2>4 DEF MainState
  <2>6. m \in MainState /\ m1 = [m EXCEPT !.pc = "register", !.round = x, !.g = 0, !.bar = 0]
    BY <2>1, <2>2, <2>4, <2>5
  <2>7. m1 \in MainState /\ m1.pc = "register" /\ m1.round = x /\ m1.g = 0 /\ m1.bar = 0
    BY <2>5, <2>6 DEF MainState
  <2> QED
    BY <2>3, <2>4, <2>5, <2>7
<1>4. Tables(main', mem', h2d', buf', sock', cons', loaded')
  <2>1. /\ main' = [r \in Ranks |-> main'[r]] /\ h2d' = [r \in Ranks |-> h2d'[r]]
        /\ buf' = [r \in Ranks |-> buf'[r]]
    BY DEF NextRound
  <2> QED
    BY <1>2, <2>1 DEF TransferInv, Tables
<1>5. ASSUME NEW r \in Ranks
      PROVE  RankInv(overlap', r, main'[r], mem'[r], h2d'[r], buf'[r], net', sock'[r], cons'[r], loaded'[r])
  <2>1. RankInv(overlap, r, main'[r], mem[r], h2d'[r], buf'[r], net', sock[r], cons[r], loaded[r])
    BY <1>1, <1>2, <1>3, OfRank, RoundStep
  <2> QED
    BY <1>2, <2>1
<1>6. SentInv(net', main'[0].round)
  <2>1. net' \in Seq(Blocks) /\ Len(net') = 0 /\ 1 .. 0 = {} /\ Last \in Nat
    BY <1>2, LastType
  <2> QED
    BY <2>1 DEF SentInv
<1>7. TogetherInv(main')
  <2>1. \A r \in Ranks : main'[r].round = main'[0].round
    BY <1>3, RankZero DEF TransferInv, TogetherInv
  <2> QED
    BY <1>3, <2>1 DEF TogetherInv
<1> QED
  BY <1>2, <1>4, <1>5, <1>6, <1>7 DEF TransferInv

LEMMA TransferStarts == ASSUME TransferInit PROVE TransferInv
<1>1. PICK m, s, c : /\ m = [pc |-> "register", round |-> 1, g |-> 0, bar |-> 0]
                     /\ s = NoAnswer /\ c = Idle
  OBVIOUS
<1>2. /\ m \in MainState /\ m.pc = "register" /\ m.round = 1 /\ m.g = 0 /\ m.bar = 0
      /\ s \in Requests /\ s.kind = "none" /\ c \in Consumer /\ c.pc = "off"
  BY <1>1 DEF MainState, Requests, Consumer, NoAnswer, Idle
<1>3. \A r \in Ranks : /\ main[r] = m /\ mem[r] = <<>> /\ h2d[r] = <<>> /\ buf[r] = <<>>
                       /\ sock[r] = s /\ cons[r] = c
  BY <1>1 DEF TransferInit
<1>4. net = <<>> /\ overlap \in BOOLEAN /\ Len(net) = 0 /\ 1 .. 0 = {} /\ Last \in Nat
  BY LastType DEF TransferInit
<1>5. Tables(main, mem, h2d, buf, sock, cons, loaded)
  BY DEF TransferInit, Tables
<1>6. SentInv(net, main[0].round)
  <2>1. net \in Seq(Blocks)
    BY <1>4
  <2> QED
    BY <1>4, <2>1 DEF SentInv
<1>7. TogetherInv(main)
  BY <1>2, <1>3, RankZero DEF TogetherInv
<1>8. ASSUME NEW r \in Ranks
      PROVE  RankInv(overlap, r, m, <<>>, <<>>, <<>>, net, s, c, loaded[r])
  <2>1. MainInv(overlap, m)
    BY <1>2, TransferAssumption DEF MainInv
  <2>2. TalkInv(overlap, m, s, c)
    BY <1>2 DEF TalkInv
  <2>3. MemoryInv(r, m, <<>>, <<>>)
    BY <1>2 DEF MemoryInv
  <2>4. NetInv(r, m, net)
    BY <1>2, <1>4 DEF NetInv
  <2>5. BufferInv(overlap, m, <<>>, s)
    BY <1>2 DEF BufferInv
  <2>6. LoadedInv(r, m, s, c, loaded[r])
    <3> SUFFICES ASSUME r \in rollout_ranks PROVE LoadedInv(r, m, s, c, loaded[r])
      BY DEF LoadedInv
    <3>1. loaded[r] = [p \in Params |-> <<>>]
      BY DEF TransferInit
    <3>2. \A k \in 1 .. Last : ~ (k < m.g)
      BY <1>2, <1>4
    <3> QED
      BY <1>2, <3>1, <3>2 DEF LoadedInv
  <2> QED
    BY <2>1, <2>2, <2>3, <2>4, <2>5, <2>6 DEF RankInv
<1> QED
  BY <1>3, <1>4, <1>5, <1>6, <1>7, <1>8 DEF TransferInv

LEMMA TransferSteps == ASSUME TransferInv, [TransferNext]_transferVars PROVE TransferInv'
<1>1. CASE UNCHANGED transferVars
  BY <1>1 DEF transferVars, tensors, TransferInv
<1>2. CASE NextRound
  BY <1>2, RoundKeeps
<1>3. ASSUME NEW r \in Ranks, RankNext(r) PROVE TransferInv'
  BY <1>3, RegisterKeeps, StartKeeps, CopyKeeps, TakeKeeps, LoadNowKeeps, AwaitKeeps, SendBucketKeeps,
     SendNoneKeeps, JoinKeeps, LeaveKeeps, ServeKeeps, LoadKeeps, ReplyKeeps DEF RankNext
<1> QED
  BY <1>1, <1>2, <1>3 DEF TransferNext

LEMMA TransferMeans == ASSUME TransferInv PROVE WeightsLoaded
<1>1. TransferTypeOK
  <2>1. ASSUME NEW r \in Ranks
        PROVE  /\ main[r].round \in 1 .. Rounds /\ main[r].g \in 0 .. Len(Schedule) + 1
               /\ Len(buf[r]) \in {0, bucket_size, 2 * bucket_size}
               /\ r \in rollout_ranks => mem[r] = <<>>
    <3>1. RankInv(overlap, r, main[r], mem[r], h2d[r], buf[r], net, sock[r], cons[r], loaded[r])
      BY DEF TransferInv
    <3>2. Last \in Nat /\ Rounds \in Nat
      BY LastType, TransferAssumption
    <3>3. main[r].round \in 1 .. Rounds
      BY <3>1, <3>2 DEF RankInv, MainInv, MainState
    <3>4. main[r].g \in 0 .. Last + 1
      BY <3>1, <3>2 DEF RankInv, MainInv, MainState
    <3>5. Len(buf[r]) \in {0, bucket_size, 2 * bucket_size}
      <4>1. CASE main[r].pc \in {"register", "ready"}
        BY <3>1, <4>1 DEF RankInv, BufferInv
      <4>2. CASE main[r].pc \notin {"register", "ready"}
        <5>1. PICK z : z = bucket_size /\ z \in Nat
          BY BufferFits
        <5>2. BufferSize(overlap) \in {z, 2 * z} /\ BufferSize(overlap) \in Nat
          BY <5>1 DEF BufferSize, TransferInv
        <5>3. Len(buf[r]) = BufferSize(overlap)
          BY <3>1, <4>2, <5>2 DEF RankInv, BufferInv, Sized
        <5> QED
          BY <5>1, <5>2, <5>3
      <4> QED
        BY <4>1, <4>2
    <3>6. r \in rollout_ranks => mem[r] = <<>>
      <4>1. r \in rollout_ranks => r \notin actor_ranks
        BY TransferAssumption DEF rollout_ranks, actor_ranks
      <4> QED
        BY <3>1, <4>1 DEF RankInv, MemoryInv
    <3> QED
      BY <3>3, <3>4, <3>5, <3>6 DEF Last
  <2> QED
    BY <2>1, LayoutOK DEF TransferTypeOK
<1>2. LoadedIntact
  BY RankZero DEF LoadedIntact, TransferInv, RankInv, LoadedInv
<1>3. AllLoaded
  <2> SUFFICES ASSUME NEW q \in Ranks, main[q].pc = "done", NEW r \in rollout_ranks, NEW p \in Params
               PROVE  loaded[r][p] = Cells(p, main[r].round)
    BY DEF AllLoaded, At
  <2>1. r \in Ranks /\ main[r].pc \in {"last", "done"}
    BY RankZero DEF TransferInv, TogetherInv
  <2>2. RankInv(overlap, r, main[r], mem[r], h2d[r], buf[r], net, sock[r], cons[r], loaded[r])
    BY <2>1 DEF TransferInv
  <2>3. main[r].g = Last + 1 /\ sock[r].kind = "none" /\ Last \in Nat
    BY <2>1, <2>2, LastType DEF RankInv, MainInv, TalkInv
  <2>4. PICK g \in 1 .. Len(Schedule) : p \in Range(Bucket(g))
    BY Broadcast
  <2>5. Bucket(g) \in Seq(Params)
    BY BucketOf
  <2>6. PICK n \in 1 .. Len(Bucket(g)) : Bucket(g)[n] = p
    BY <2>4, <2>5 DEF Range
  <2>7. g \in 1 .. Last /\ g < main[r].g
    BY <2>3 DEF Last
  <2> QED
    BY <2>2, <2>3, <2>6, <2>7 DEF RankInv, LoadedInv
<1> QED
  BY <1>1, <1>2, <1>3 DEF WeightsLoaded

\* update_checkpoint: the two halves of the buffer, the barriers and the requests
\* of the two threads keep broadcast and loading apart, so that every round ends
\* with all weights of it loaded, whole, on every rollout rank.
THEOREM WeightsAlwaysLoaded == TransferSpec => []WeightsLoaded
<1>1. TransferInit => TransferInv
  BY TransferStarts
<1>2. TransferInv /\ [TransferNext]_transferVars => TransferInv'
  BY TransferSteps
<1>3. TransferInv => WeightsLoaded
  BY TransferMeans
<1> QED
  BY <1>1, <1>2, <1>3, PTL DEF TransferSpec

-----------------------------------------------------------------------------
(* The NCCL and the NIXL checkpoint engine                                   *)

USE BucketAssumption

Both == {1, 2}
Cell == Nat \X Nat
Buffers == [1 .. BucketCells -> Cell]
Entry == [name : Weights, offset : Nat]
Total == Len(WeightSize)

\* Weight n as it should arrive.
Intact(n) == [name |-> n, tensor |-> [j \in 1 .. WeightSize[n] |-> <<n, j>>]]
IntactWeights == {Intact(n) : n \in Weights}

\* Buffer cells holds the weight that the metadata entry m names, whole.
Holds(cells, m) ==
  /\ m.offset + WeightSize[m.name] <= BucketCells
  /\ \A j \in 1 .. WeightSize[m.name] : cells[m.offset + j] = <<m.name, j>>

\* Buffer cells and metadata meta are the weights that follow weight k.
Filled(cells, meta, k) ==
  \A i \in 1 .. Len(meta) : meta[i].name = k + i /\ Holds(cells, meta[i])

LEMMA SizeType ==
  /\ Total \in Nat /\ BucketCells \in Nat /\ Weights = 1 .. Total
  /\ \A w \in Weights : WeightSize[w] \in Nat /\ WeightSize[w] > 0 /\ WeightSize[w] <= BucketCells
BY DEF Weights, Total

LEMMA OtherType == \A b \in Both : Other(b) \in Both /\ Other(b) # b /\ Other(Other(b)) = b
BY DEF Both, Other

LEMMA BlankType == Blank \in Buffers
BY DEF Blank, Buffers, Cell

LEMMA TensorIntact ==
  ASSUME NEW cells \in Buffers, NEW m \in Entry, Holds(cells, m)
  PROVE  Tensor(cells, m) = Intact(m.name)
<1>1. PICK size \in Nat, o \in Nat : size = WeightSize[m.name] /\ o = m.offset
  BY SizeType DEF Entry
<1>2. cells \in Seq(Cell) /\ Len(cells) = BucketCells
  BY SizeType DEF Buffers
<1>3. o + size <= Len(cells) /\ \A j \in 1 .. size : cells[o + j] = <<m.name, j>>
  BY <1>1, <1>2 DEF Holds
<1>4. SubSeq(cells, o + 1, o + size) = [j \in 1 .. size |-> cells[o + j]]
  BY <1>2, <1>3, Slice
<1>5. SubSeq(cells, o + 1, o + size) = [j \in 1 .. size |-> <<m.name, j>>]
  BY <1>3, <1>4
<1> QED
  BY <1>1, <1>5 DEF Tensor, Intact

LEMMA ElementType ==
  ASSUME NEW S, NEW s \in Seq(S), NEW i \in 1 .. Len(s)
  PROVE  s[i] \in S
OBVIOUS

LEMMA AppendType ==
  ASSUME NEW S, NEW s \in Seq(S), NEW e \in S
  PROVE  /\ Append(s, e) \in Seq(S) /\ Len(Append(s, e)) = Len(s) + 1 /\ Len(s) \in Nat
         /\ \A i \in 1 .. Len(s) : Append(s, e)[i] = s[i]
         /\ Append(s, e)[Len(s) + 1] = e
OBVIOUS

-----------------------------------------------------------------------------
(* The sender, which both engines share                                      *)

\* The weights before the bucket being filled.
Base == snd.w - 1 - Len(snd.meta)

\* Buffer and metadata are the weights that follow weight k, and end before
\* cell off.
Stacked(cells, meta, k, off) ==
  /\ Filled(cells, meta, k)
  /\ \A i \in 1 .. Len(meta) : meta[i].offset + WeightSize[meta[i].name] <= off

SenderType ==
  /\ snd \in [pc : {"pack", "wait", "done"}, w : 1 .. Total + 1, offset : Nat,
              meta : Seq(Entry), b : Both]
  /\ sbuf \in [Both -> Buffers]

\* The bucket being filled: consecutive weights, one behind the other.
SenderInv ==
  /\ SenderType
  /\ Base \in Nat
  /\ Stacked(sbuf[snd.b], snd.meta, Base, snd.offset)
  /\ snd.pc # "pack" => IsLast /\ snd.meta = <<>>

LEMMA SenderFacts ==
  ASSUME SenderType
  PROVE  /\ snd.pc \in {"pack", "wait", "done"} /\ snd.w \in 1 .. Total + 1 /\ snd.w \in Nat
         /\ snd.offset \in Nat /\ snd.meta \in Seq(Entry) /\ Len(snd.meta) \in Nat /\ snd.b \in Both
         /\ Base = snd.w - 1 - Len(snd.meta) /\ Total \in Nat
         /\ \A i \in 1 .. Len(snd.meta) : snd.meta[i] \in Entry
         /\ sbuf[snd.b] \in Buffers /\ sbuf[Other(snd.b)] \in Buffers
         /\ IsLast <=> snd.w = Total + 1
<1>1. /\ snd.pc \in {"pack", "wait", "done"} /\ snd.w \in 1 .. Total + 1 /\ snd.w \in Nat /\ Total \in Nat
      /\ snd.offset \in Nat /\ snd.meta \in Seq(Entry) /\ Len(snd.meta) \in Nat /\ snd.b \in Both
  BY SizeType DEF SenderType
<1>2. \A i \in 1 .. Len(snd.meta) : snd.meta[i] \in Entry
  BY <1>1, ElementType
<1>3. sbuf[snd.b] \in Buffers /\ sbuf[Other(snd.b)] \in Buffers
  BY <1>1, OtherType DEF SenderType
<1>4. IsLast <=> snd.w = Total + 1
  BY <1>1, SizeType DEF IsLast
<1> QED
  BY <1>1, <1>2, <1>3, <1>4 DEF Base

LEMMA SenderStarts == SenderInit => SenderInv /\ Base = 0
<1> SUFFICES ASSUME SenderInit PROVE SenderInv /\ Base = 0
  OBVIOUS
<1>1. snd = [pc |-> "pack", w |-> 1, offset |-> 0, meta |-> <<>>, b |-> 1] /\ sbuf = <<Blank, Blank>>
  BY DEF SenderInit
<1>2. sbuf \in [Both -> Buffers]
  BY <1>1, BlankType DEF Both
<1>3. 1 \in 1 .. Total + 1 /\ <<>> \in Seq(Entry) /\ 1 \in Both /\ Len(<<>>) = 0
  BY SizeType DEF Both
<1>4. snd \in [pc : {"pack", "wait", "done"}, w : 1 .. Total + 1, offset : Nat, meta : Seq(Entry), b : Both]
  BY <1>1, <1>3
<1>5. Base = 0 /\ snd.meta = <<>> /\ snd.pc = "pack"
  BY <1>1, <1>3 DEF Base
<1> QED
  BY <1>2, <1>3, <1>4, <1>5 DEF SenderInv, SenderType, Stacked, Filled

\* Buffer cells with weight w copied to offset off, and its metadata.
Copied(cells, w, off) ==
  [c \in 1 .. BucketCells |-> IF c - off \in 1 .. WeightSize[w] THEN <<w, c - off>> ELSE cells[c]]
EntryAt(w, off) == [name |-> w, offset |-> off]

\* A weight copied behind the others leaves them as they are.
LEMMA PackFilled ==
  ASSUME NEW cells \in Buffers, NEW meta \in Seq(Entry), NEW k \in Nat, NEW off \in Nat, NEW w \in Weights,
         w = k + Len(meta) + 1, off + WeightSize[w] <= BucketCells, Stacked(cells, meta, k, off)
  PROVE  /\ Copied(cells, w, off) \in Buffers
         /\ Append(meta, EntryAt(w, off)) \in Seq(Entry) /\ Len(Append(meta, EntryAt(w, off))) = Len(meta) + 1
         /\ Stacked(Copied(cells, w, off), Append(meta, EntryAt(w, off)), k, off + WeightSize[w])
<1>0. PICK fresh, e, size :
        /\ size = WeightSize[w] /\ e = EntryAt(w, off) /\ fresh = Copied(cells, w, off)
        /\ e = [name |-> w, offset |-> off]
        /\ fresh = [c \in 1 .. BucketCells |-> IF c - off \in 1 .. size THEN <<w, c - off>> ELSE cells[c]]
  BY DEF EntryAt, Copied
<1>1. size \in Nat /\ size > 0 /\ BucketCells \in Nat /\ Len(meta) \in Nat /\ w \in Nat /\ off + size <= BucketCells
  BY <1>0, SizeType
<1>2. e \in Entry /\ e.name = w /\ e.offset = off
  BY <1>0 DEF Entry
<1>3. fresh \in Buffers
  <2>1. \A c \in 1 .. BucketCells : cells[c] \in Cell
    BY DEF Buffers
  <2>2. \A c \in 1 .. BucketCells : c - off \in 1 .. size => <<w, c - off>> \in Cell
    BY <1>1 DEF Cell
  <2> QED
    BY <1>0, <2>1, <2>2 DEF Buffers
<1>4. /\ Append(meta, e) \in Seq(Entry) /\ Len(Append(meta, e)) = Len(meta) + 1
      /\ \A i \in 1 .. Len(meta) : Append(meta, e)[i] = meta[i]
      /\ Append(meta, e)[Len(meta) + 1] = e
  BY <1>2, AppendType
<1>5. Holds(fresh, e)
  <2>1. ASSUME NEW j \in 1 .. size PROVE fresh[off + j] = <<w, j>>
    <3>1. off + j \in 1 .. BucketCells /\ (off + j) - off = j
      BY <1>1
    <3> QED
      BY <1>0, <3>1
  <2> QED
    BY <1>0, <1>1, <1>2, <2>1 DEF Holds
<1>6. ASSUME NEW i \in 1 .. Len(meta)
      PROVE  /\ meta[i].name = k + i /\ Holds(fresh, meta[i])
             /\ meta[i].offset + WeightSize[meta[i].name] <= off + size
  <2>1. /\ meta[i].name = k + i /\ Holds(cells, meta[i])
        /\ meta[i].offset + WeightSize[meta[i].name] <= off
    BY DEF Filled, Stacked
  <2>2. meta[i] \in Entry
    BY ElementType
  <2>3. PICK o \in Nat, l \in Nat : o = meta[i].offset /\ l = WeightSize[meta[i].name]
    BY <2>2, SizeType DEF Entry
  <2>4. o + l <= off /\ o + l <= BucketCells /\ \A j \in 1 .. l : cells[o + j] = <<meta[i].name, j>>
    BY <2>1, <2>3 DEF Holds
  <2>5. ASSUME NEW j \in 1 .. l PROVE fresh[o + j] = cells[o + j]
    <3>1. j \in Nat /\ 1 <= j /\ j <= l
      BY <2>3
    <3>2. o + l <= off /\ o + l <= BucketCells /\ BucketCells \in Nat
      BY <1>1, <2>4
    <3>3. o + j \in 1 .. BucketCells /\ ~((o + j) - off >= 1)
      BY <3>1, <3>2
    <3> QED
      BY <1>0, <1>1, <3>3, SMTT(30)
  <2>6. Holds(fresh, meta[i])
    BY <2>3, <2>4, <2>5 DEF Holds
  <2>7. o + l <= off + size
    BY <1>1, <2>4
  <2> QED
    BY <2>1, <2>3, <2>6, <2>7
<1>7. ASSUME NEW i \in 1 .. Len(Append(meta, e))
      PROVE  /\ Append(meta, e)[i].name = k + i /\ Holds(fresh, Append(meta, e)[i])
             /\ Append(meta, e)[i].offset + WeightSize[Append(meta, e)[i].name] <= off + size
  <2>1. i \in 1 .. Len(meta) \/ i = Len(meta) + 1
    <3> DEFINE n == Len(meta)
    <3>1. n \in Nat /\ i \in 1 .. n + 1
      BY <1>1, <1>4
    <3> HIDE DEF n
    <3>2. i \in 1 .. n \/ i = n + 1
      BY <3>1
    <3> QED
      BY <3>2 DEF n
  <2>2. CASE i \in 1 .. Len(meta)
    BY <1>4, <1>6, <2>2
  <2>3. CASE i = Len(meta) + 1
    <3>1. Append(meta, e)[i] = e /\ w = k + i
      BY <1>1, <1>4, <2>3
    <3>2. e.offset + WeightSize[e.name] <= off + size
      <4>1. e.offset + WeightSize[e.name] = off + size
        BY <1>0, <1>2
      <4> QED
        BY <1>1, <4>1
    <3>3. e.name = k + i
      BY <1>2, <3>1
    <3> QED
      BY <1>5, <3>1, <3>2, <3>3
  <2> QED
    BY <2>1, <2>2, <2>3
<1> QED
  BY <1>0, <1>3, <1>4, <1>7 DEF Filled, Stacked

\* Packing a weight touches only the buffer being filled.
LEMMA Packing ==
  ASSUME SenderInv, PackWeight
  PROVE  /\ SenderInv' /\ Base' = Base /\ snd'.b = snd.b /\ snd'.pc = "pack" /\ snd.pc = "pack"
         /\ sbuf'[Other(snd.b)] = sbuf[Other(snd.b)]
<1>1. SenderType /\ Base \in Nat
  BY DEF SenderInv
<1>2. PICK w \in Weights, off \in Nat, meta \in Seq(Entry), b \in Both :
        snd.w = w /\ snd.offset = off /\ snd.meta = meta /\ snd.b = b
  BY <1>1, SenderFacts DEF PackWeight, Room
<1>3. PICK cells \in Buffers, k \in Nat : cells = sbuf[b] /\ k = Base
  BY <1>1, <1>2, SenderFacts
<1>4. /\ w \in Nat /\ w + 1 \in 1 .. Total + 1 /\ WeightSize[w] \in Nat /\ Len(meta) \in Nat
      /\ k = w - 1 - Len(meta) /\ w = k + Len(meta) + 1 /\ off + WeightSize[w] \in Nat
  <2>1. w \in Nat /\ w + 1 \in 1 .. Total + 1 /\ WeightSize[w] \in Nat
    BY SizeType
  <2>2. Len(meta) \in Nat /\ k = w - 1 - Len(meta)
    BY <1>1, <1>2, <1>3, SenderFacts
  <2>3. w = k + Len(meta) + 1 /\ off + WeightSize[w] \in Nat
    BY <2>1, <2>2
  <2> QED
    BY <2>1, <2>2, <2>3
<1> DEFINE e == EntryAt(w, off)
           fresh == Copied(cells, w, off)
<1>5. /\ snd.pc = "pack" /\ off + WeightSize[w] <= BucketCells
      /\ sbuf' = [sbuf EXCEPT ![b] = fresh]
      /\ snd' = [snd EXCEPT !.w = w + 1, !.offset = off + WeightSize[w], !.meta = Append(meta, e)]
  BY <1>2, <1>3 DEF PackWeight, Room, EntryAt, Copied
<1>6. Stacked(cells, meta, k, off)
  BY <1>2, <1>3 DEF SenderInv
<1>7. /\ fresh \in Buffers /\ Append(meta, e) \in Seq(Entry) /\ Len(Append(meta, e)) = Len(meta) + 1
      /\ Stacked(fresh, Append(meta, e), k, off + WeightSize[w])
  BY <1>4, <1>5, <1>6, PackFilled
<1> HIDE DEF e, fresh
<1>8. sbuf' \in [Both -> Buffers] /\ sbuf'[b] = fresh /\ sbuf'[Other(b)] = sbuf[Other(b)]
  BY <1>1, <1>5, <1>7, OtherType DEF SenderType
<1>9. /\ snd'.pc = "pack" /\ snd'.b = b /\ snd'.w = w + 1 /\ snd'.offset = off + WeightSize[w]
      /\ snd'.meta = Append(meta, e)
      /\ snd' \in [pc : {"pack", "wait", "done"}, w : 1 .. Total + 1, offset : Nat, meta : Seq(Entry), b : Both]
  BY <1>1, <1>2, <1>4, <1>5, <1>7 DEF SenderType
<1>10. Base' = k
  <2>1. Base' = (w + 1) - 1 - (Len(meta) + 1)
    BY <1>7, <1>9 DEF Base
  <2> QED
    BY <1>4, <2>1
<1>11. SenderType'
  BY <1>8, <1>9 DEF SenderType
<1>12. SenderInv'
  BY <1>7, <1>8, <1>9, <1>10, <1>11 DEF SenderInv
<1> QED
  BY <1>2, <1>3, <1>5, <1>8, <1>9, <1>10, <1>12

\* Handing the bucket over: the next one is empty and goes into the other buffer.
LEMMA Handing ==
  ASSUME SenderInv, HandOver
  PROVE  /\ SenderInv' /\ Base' = Base + Len(snd.meta) /\ snd'.b = Other(snd.b) /\ sbuf' = sbuf
         /\ snd.pc = "pack" /\ (snd'.pc # "pack" <=> IsLast) /\ (IsLast => Base' = Total)
<1>0. SenderType /\ Base \in Nat
  BY DEF SenderInv
<1>1. /\ snd.pc = "pack" /\ sbuf' = sbuf
      /\ snd' = [snd EXCEPT !.pc = IF IsLast THEN "wait" ELSE "pack", !.b = Other(snd.b),
                            !.meta = <<>>, !.offset = 0]
  BY DEF HandOver
<1>2. /\ snd'.pc = (IF IsLast THEN "wait" ELSE "pack") /\ snd'.b = Other(snd.b) /\ snd'.meta = <<>>
      /\ snd'.offset = 0 /\ snd'.w = snd.w
  BY <1>0, <1>1 DEF SenderType
<1>3. Len(snd'.meta) = 0 /\ <<>> \in Seq(Entry)
  BY <1>2
<1>4. snd' \in [pc : {"pack", "wait", "done"}, w : 1 .. Total + 1, offset : Nat, meta : Seq(Entry), b : Both]
  <2>1. Other(snd.b) \in Both
    BY <1>0, OtherType, SenderFacts
  <2> QED
    BY <1>0, <1>1, <1>3, <2>1 DEF SenderType
<1>5. Base' = snd.w - 1 /\ Base' \in Nat /\ Base' = Base + Len(snd.meta) /\ (IsLast => Base' = Total)
  BY <1>0, <1>2, <1>3, SenderFacts DEF Base
<1>6. IsLast' <=> IsLast
  BY <1>2 DEF IsLast
<1>7. SenderType'
  BY <1>0, <1>1, <1>4 DEF SenderType
<1>8. SenderInv'
  BY <1>2, <1>3, <1>5, <1>6, <1>7 DEF SenderInv, Stacked, Filled
<1> QED
  BY <1>1, <1>2, <1>5, <1>8

LEMMA Handed ==
  ASSUME SenderInv, HandedOver
  PROVE  SenderInv' /\ Base' = Base /\ snd'.b = snd.b /\ sbuf' = sbuf /\ snd'.pc # "pack" /\ snd.pc # "pack"
<1>0. SenderType /\ Base \in Nat
  BY DEF SenderInv
<1>1. snd.pc = "wait" /\ snd' = [snd EXCEPT !.pc = "done"] /\ sbuf' = sbuf
  BY DEF HandedOver
<1>2. /\ snd'.pc = "done" /\ snd'.b = snd.b /\ snd'.meta = snd.meta /\ snd'.offset = snd.offset /\ snd'.w = snd.w
      /\ snd' \in [pc : {"pack", "wait", "done"}, w : 1 .. Total + 1, offset : Nat, meta : Seq(Entry), b : Both]
  BY <1>0, <1>1 DEF SenderType
<1>3. Base' = Base /\ (IsLast' <=> IsLast)
  BY <1>2 DEF Base, IsLast
<1>4. SenderType'
  BY <1>0, <1>1, <1>2 DEF SenderType
<1>5. SenderInv'
  BY <1>1, <1>2, <1>3, <1>4 DEF SenderInv
<1> QED
  BY <1>1, <1>2, <1>3, <1>5

LEMMA SenderKept ==
  ASSUME SenderInv, UNCHANGED <<snd, sbuf>>
  PROVE  SenderInv' /\ Base' = Base
<1>1. Base' = Base /\ (IsLast' <=> IsLast)
  BY DEF Base, IsLast
<1> QED
  BY <1>1 DEF SenderInv, SenderType

-----------------------------------------------------------------------------
(* The NCCL engine                                                           *)

Op == [st : {"none", "meta", "data", "done"}, b : Both, meta : Seq(Entry), last : BOOLEAN, no : Nat]
Reader == [pc : {"first", "await", "next", "yield", "done"}, meta : Seq(Entry), last : BOOLEAN,
           b : Both, n : Nat]

\* The operation of rank 0: until every receiver has the bucket, it lies whole
\* in the buffer that is not being filled.
OpInv ==
  /\ sop \in Op /\ taken \subseteq Receivers
  /\ sop.st \in {"meta", "data"} =>
       /\ sop.b = Other(snd.b) /\ Len(sop.meta) <= Base
       /\ Filled(sbuf[sop.b], sop.meta, Base - Len(sop.meta))
  /\ sop.last => snd.pc # "pack"
  /\ sop.st = "none" => sop.no = 0
  /\ sop.st # "none" => sop.no > 0
  /\ sop.st \in {"none", "meta"} => taken = {}
  /\ sop.st = "done" => taken = Receivers

\* The operation under way has a bucket that receiver r does not have yet.
Due(r) == sop.st # "none" /\ r \notin taken

\* A receiver c waits, or will wait, for the operation it has started.
Outstanding(c) == c.pc = "await" \/ (c.pc = "yield" /\ ~ c.last)

\* The weights that it has yielded once the bucket in hand is consumed.
End(c, out) == Len(out) + Len(c.meta) + 1 - c.n

\* What a receiver holds: c, its operation o, its buffers bufs, the tensors out
\* it has yielded.
HeldInv(c, o, bufs, out) ==
  /\ c \in Reader /\ o \in Op /\ bufs \in [Both -> Buffers] /\ out \in Seq(IntactWeights)
  /\ c.n \in 1 .. Len(c.meta) + 1
  /\ InOrder(out)
  /\ IF Outstanding(c) THEN o.st # "none" ELSE o.st \in {"none", "done"}
  /\ c.pc \notin {"next", "yield"} => c.n = Len(c.meta) + 1
  /\ c.pc \in {"first", "await"} => ~ c.last
  /\ c.pc = "done" => c.last
  /\ c.last => End(c, out) = Total
  /\ c.pc \in {"next", "yield"} =>
       Filled(bufs[c.b], c.meta, End(c, out) - Len(c.meta))
  /\ c.pc = "yield" /\ ~ c.last => o.b = Other(c.b)
  /\ Outstanding(c) /\ o.st = "done" =>
       /\ Filled(bufs[o.b], o.meta, End(c, out))
       /\ o.last => End(c, out) + Len(o.meta) = Total

\* How far it is: it has taken part in count operations and has the first
\* reach weights; s is the metadata on its way, msg that of the bucket under way.
PaceInv(c, o, out, s, count, reach, msg) ==
  /\ (IF o.st \in {"none", "done"} THEN o.no ELSE o.no - 1) = count
  /\ o.st = "data" => msg = << [meta |-> o.meta, last |-> o.last] >>
  /\ s = IF o.st = "data" THEN <<>> ELSE msg
  /\ End(c, out) + (IF Outstanding(c) /\ o.st = "done" THEN Len(o.meta) ELSE 0) = reach

Count(r) == IF Due(r) THEN sop.no - 1 ELSE sop.no
Reach(r) == IF Due(r) THEN Base - Len(sop.meta) ELSE Base
Message(r) == IF sop.st = "data" /\ Due(r) THEN << [meta |-> sop.meta, last |-> sop.last] >> ELSE <<>>

ReceiverInv(r) ==
  /\ HeldInv(rcv[r], rop[r], rbuf[r], yielded[r])
  /\ PaceInv(rcv[r], rop[r], yielded[r], sub[r], Count(r), Reach(r), Message(r))

\* A function with an entry for every receiver.
Table(f) == f = [r \in Receivers |-> f[r]]

NcclInv ==
  /\ SenderInv /\ OpInv
  /\ Table(rcv) /\ Table(rop) /\ Table(rbuf) /\ Table(yielded) /\ Table(sub)
  /\ \A r \in Receivers : ReceiverInv(r)

\* The numbers that the steps of a receiver reckon with.
LEMMA HeldFacts ==
  ASSUME NEW c, NEW o, NEW bufs, NEW out, HeldInv(c, o, bufs, out)
  PROVE  /\ c \in Reader /\ o \in Op /\ bufs \in [Both -> Buffers] /\ out \in Seq(IntactWeights)
         /\ Len(c.meta) \in Nat /\ Len(out) \in Nat /\ c.n \in Nat /\ Len(o.meta) \in Nat /\ o.no \in Nat
         /\ End(c, out) = Len(out) + Len(c.meta) + 1 - c.n /\ End(c, out) \in Nat
         /\ 1 <= c.n /\ c.n <= Len(c.meta) + 1
<1>1. c \in Reader /\ o \in Op /\ bufs \in [Both -> Buffers] /\ out \in Seq(IntactWeights) /\ c.n \in 1 .. Len(c.meta) + 1
  BY DEF HeldInv
<1>2. c.meta \in Seq(Entry) /\ o.meta \in Seq(Entry) /\ c.n \in Nat /\ o.no \in Nat
  BY <1>1 DEF Reader, Op
<1>3. Len(c.meta) \in Nat /\ Len(out) \in Nat /\ Len(o.meta) \in Nat
  BY <1>1, <1>2
<1>4. 1 <= c.n /\ c.n <= Len(c.meta) + 1
  BY <1>1, <1>2, <1>3
<1>5. End(c, out) = Len(out) + Len(c.meta) + 1 - c.n
  BY DEF End
<1>6. End(c, out) \in Nat
  BY <1>2, <1>3, <1>4, <1>5
<1> QED
  BY <1>1, <1>2, <1>3, <1>4, <1>5, <1>6

\* What the steps of a receiver leave behind.
Put(f, x, v) == [f EXCEPT ![x] = v]
StartedBy(c) == [c EXCEPT !.pc = IF c.pc = "first" THEN "await" ELSE "yield"]
Started(o, b) == [st |-> "meta", b |-> b, meta |-> <<>>, last |-> FALSE, no |-> o.no + 1]
WithMeta(o, meta, last) == [o EXCEPT !.st = "data", !.meta = meta, !.last = last]
Finished(o) == [o EXCEPT !.st = "done"]
AtPc(c, pc) == [c EXCEPT !.pc = pc]
Counted(c) == [c EXCEPT !.n = c.n + 1]
WithTensor(c, bufs, out) == Append(out, Tensor(bufs[c.b], c.meta[c.n]))
Swapped(o) == [pc |-> "next", meta |-> o.meta, last |-> o.last, b |-> o.b, n |-> 1]

\* The next operation is started.
LEMMA ReceiveStep ==
  ASSUME NEW c, NEW o, NEW bufs, NEW out, NEW s, NEW count, NEW reach, NEW msg,
         HeldInv(c, o, bufs, out), PaceInv(c, o, out, s, count, reach, msg),
         c.pc = "first" \/ (c.pc = "next" /\ ~ c.last),
         NEW b \in Both, c.pc = "next" => b = Other(c.b)
  PROVE  /\ HeldInv(StartedBy(c), Started(o, b), bufs, out)
         /\ PaceInv(StartedBy(c), Started(o, b), out, s, count, reach, msg)
<1>a. PICK c1, o1 :
        /\ c1 = StartedBy(c) /\ c1 = [c EXCEPT !.pc = IF c.pc = "first" THEN "await" ELSE "yield"]
        /\ o1 = Started(o, b)
        /\ o1 = [st |-> "meta", b |-> b, meta |-> <<>>, last |-> FALSE, no |-> o.no + 1]
  BY DEF StartedBy, Started
<1>0. /\ c \in Reader /\ o \in Op /\ bufs \in [Both -> Buffers] /\ out \in Seq(IntactWeights)
      /\ Len(c.meta) \in Nat /\ Len(out) \in Nat /\ c.n \in Nat /\ Len(o.meta) \in Nat /\ o.no \in Nat
      /\ End(c, out) \in Nat
  BY HeldFacts
<1>1. /\ c1 \in Reader /\ c1.meta = c.meta /\ c1.last = c.last /\ c1.b = c.b /\ c1.n = c.n
      /\ c1.pc = (IF c.pc = "first" THEN "await" ELSE "yield") /\ ~ c.last
  BY <1>a, <1>0 DEF Reader, HeldInv
<1>2. o1 \in Op /\ o1.st = "meta" /\ o1.b = b /\ o1.no = o.no + 1
  <2>1. <<>> \in Seq(Entry) /\ o.no + 1 \in Nat
    BY <1>0
  <2> QED
    BY <1>a, <2>1 DEF Op
<1>3. End(c1, out) = End(c, out)
  BY <1>1 DEF End
<1>4. Outstanding(c1) /\ ~ Outstanding(c) /\ o.st \in {"none", "done"}
  BY <1>1 DEF Outstanding, HeldInv
<1>5. HeldInv(c1, o1, bufs, out)
  <2>1. /\ c.n \in 1 .. Len(c.meta) + 1 /\ InOrder(out)
        /\ c.pc = "first" => c.n = Len(c.meta) + 1
        /\ c.pc = "next" => Filled(bufs[c.b], c.meta, End(c, out) - Len(c.meta))
    BY DEF HeldInv
  <2>2. CASE c.pc = "first"
    BY <1>0, <1>1, <1>2, <1>3, <1>4, <2>1, <2>2 DEF HeldInv
  <2>3. CASE c.pc = "next"
    BY <1>0, <1>1, <1>2, <1>3, <1>4, <2>1, <2>3 DEF HeldInv
  <2> QED
    BY <2>2, <2>3
<1>6. PaceInv(c1, o1, out, s, count, reach, msg)
  <2>1. o.no = count /\ s = msg /\ End(c, out) + 0 = reach
    BY <1>4 DEF PaceInv
  <2>2. o1.no - 1 = count
    BY <1>0, <1>2, <2>1
  <2> QED
    BY <1>2, <1>3, <1>4, <2>1, <2>2 DEF PaceInv
<1> QED
  BY <1>a, <1>5, <1>6

\* The metadata has come.
LEMMA MetaStep ==
  ASSUME NEW c, NEW o, NEW bufs, NEW out, NEW s, NEW count, NEW reach, NEW msg,
         HeldInv(c, o, bufs, out), PaceInv(c, o, out, s, count, reach, msg),
         o.st = "meta", NEW meta \in Seq(Entry), NEW last \in BOOLEAN,
         msg = << [meta |-> meta, last |-> last] >>
  PROVE  /\ HeldInv(c, WithMeta(o, meta, last), bufs, out)
         /\ PaceInv(c, WithMeta(o, meta, last), out, <<>>, count, reach, msg)
<1>a. PICK o1 :
        o1 = WithMeta(o, meta, last) /\ o1 = [o EXCEPT !.st = "data", !.meta = meta, !.last = last]
  BY DEF WithMeta
<1>0. o \in Op
  BY HeldFacts
<1>1. o1 \in Op /\ o1.st = "data" /\ o1.b = o.b /\ o1.no = o.no /\ o1.meta = meta /\ o1.last = last
  BY <1>a, <1>0 DEF Op
<1>2. Outstanding(c)
  BY DEF HeldInv
<1>3. HeldInv(c, o1, bufs, out)
  BY <1>1, <1>2 DEF HeldInv
<1>4. PaceInv(c, o1, out, <<>>, count, reach, msg)
  BY <1>1 DEF PaceInv
<1> QED
  BY <1>a, <1>3, <1>4

\* The bucket has come, whole.
LEMMA DataStep ==
  ASSUME NEW c, NEW o, NEW bufs, NEW out, NEW s, NEW count, NEW reach, NEW msg,
         HeldInv(c, o, bufs, out), PaceInv(c, o, out, s, count, reach, msg),
         o.st = "data", NEW cells \in Buffers, Filled(cells, o.meta, reach),
         o.last => reach + Len(o.meta) = Total, count \in Nat
  PROVE  /\ HeldInv(c, Finished(o), Put(bufs, o.b, cells), out)
         /\ PaceInv(c, Finished(o), out, s, count + 1, reach + Len(o.meta), <<>>)
<1>a. PICK o1, bufs1 :
        /\ o1 = Finished(o) /\ o1 = [o EXCEPT !.st = "done"]
        /\ bufs1 = Put(bufs, o.b, cells) /\ bufs1 = [bufs EXCEPT ![o.b] = cells]
  BY DEF Finished, Put
<1>0. /\ c \in Reader /\ o \in Op /\ bufs \in [Both -> Buffers]
      /\ Len(o.meta) \in Nat /\ o.no \in Nat /\ End(c, out) \in Nat
  BY HeldFacts
<1>1. o1 \in Op /\ o1.st = "done" /\ o1.b = o.b /\ o1.no = o.no /\ o1.meta = o.meta /\ o1.last = o.last /\ o.b \in Both
  BY <1>a, <1>0 DEF Op
<1>2. Outstanding(c)
  BY DEF HeldInv
<1>3. End(c, out) + 0 = reach /\ o.no - 1 = count /\ s = <<>>
  BY DEF PaceInv
<1>4. End(c, out) = reach /\ o.no = count + 1
  BY <1>0, <1>3
<1>5. bufs1 \in [Both -> Buffers] /\ bufs1[o.b] = cells /\ \A b \in Both : b # o.b => bufs1[b] = bufs[b]
  BY <1>a, <1>0, <1>1
<1>6. c.pc \in {"next", "yield"} => c.b \in Both /\ c.b # o.b
  <2>1. c.b \in Both /\ (c.pc = "yield" /\ ~ c.last => o.b = Other(c.b))
    BY <1>0 DEF HeldInv, Reader
  <2> QED
    BY <1>2, <2>1, OtherType DEF Outstanding
<1>7. c.pc \in {"next", "yield"} => Filled(bufs1[c.b], c.meta, End(c, out) - Len(c.meta))
  BY <1>5, <1>6 DEF HeldInv
<1>8. Filled(bufs1[o1.b], o1.meta, End(c, out)) /\ (o1.last => End(c, out) + Len(o1.meta) = Total)
  BY <1>1, <1>4, <1>5
<1>9. HeldInv(c, o1, bufs1, out)
  BY <1>1, <1>2, <1>5, <1>7, <1>8 DEF HeldInv
<1>10. PaceInv(c, o1, out, s, count + 1, reach + Len(o.meta), <<>>)
  BY <1>1, <1>2, <1>3, <1>4 DEF PaceInv
<1> QED
  BY <1>a, <1>9, <1>10

\* The tensors of the bucket in hand are all yielded.
LEMMA EndStep ==
  ASSUME NEW c, NEW o, NEW bufs, NEW out, NEW s, NEW count, NEW reach, NEW msg,
         HeldInv(c, o, bufs, out), PaceInv(c, o, out, s, count, reach, msg),
         NEW pc, \/ c.pc = "next" /\ c.last /\ pc = "yield"
                 \/ c.pc = "yield" /\ c.n > Len(c.meta) /\ pc = (IF c.last THEN "done" ELSE "await")
  PROVE  HeldInv(AtPc(c, pc), o, bufs, out) /\ PaceInv(AtPc(c, pc), o, out, s, count, reach, msg)
<1>a. PICK c1 : c1 = AtPc(c, pc) /\ c1 = [c EXCEPT !.pc = pc]
  BY DEF AtPc
<1>0. c \in Reader /\ Len(c.meta) \in Nat /\ c.n \in Nat /\ c.n <= Len(c.meta) + 1
  BY HeldFacts
<1>1. c1 \in Reader /\ c1.meta = c.meta /\ c1.last = c.last /\ c1.b = c.b /\ c1.n = c.n /\ c1.pc = pc
  BY <1>a, <1>0 DEF Reader
<1>2. Outstanding(c1) <=> Outstanding(c)
  BY <1>1 DEF Outstanding
<1>3. End(c1, out) = End(c, out)
  BY <1>1 DEF End
<1>4. c.pc = "yield" /\ c.n > Len(c.meta) => c.n = Len(c.meta) + 1
  BY <1>0
<1>5. HeldInv(c1, o, bufs, out)
  BY <1>1, <1>2, <1>3, <1>4 DEF HeldInv
<1>6. PaceInv(c1, o, out, s, count, reach, msg)
  BY <1>2, <1>3 DEF PaceInv
<1> QED
  BY <1>a, <1>5, <1>6

\* Tensors in order, and the next weight intact behind them.
LEMMA NextInOrder ==
  ASSUME NEW out \in Seq(IntactWeights), InOrder(out), NEW w \in Weights, w = Len(out) + 1
  PROVE  /\ Append(out, Intact(w)) \in Seq(IntactWeights) /\ Len(Append(out, Intact(w))) = Len(out) + 1
         /\ InOrder(Append(out, Intact(w)))
<1>1. PICK t \in IntactWeights : t = Intact(w)
  BY DEF IntactWeights
<1>2. /\ Append(out, t) \in Seq(IntactWeights) /\ Len(Append(out, t)) = Len(out) + 1 /\ Len(out) \in Nat
      /\ \A i \in 1 .. Len(out) : Append(out, t)[i] = out[i]
      /\ Append(out, t)[Len(out) + 1] = t
  BY AppendType
<1>3. ASSUME NEW i \in 1 .. Len(Append(out, t)) PROVE Append(out, t)[i] = Intact(i)
  <2>1. i \in 1 .. Len(out) \/ i = Len(out) + 1
    BY <1>2
  <2>2. ASSUME i \in 1 .. Len(out) PROVE out[i] = Intact(i)
    BY <2>2 DEF InOrder, Intact
  <2> QED
    BY <1>1, <1>2, <2>1, <2>2
<1> QED
  BY <1>1, <1>2, <1>3 DEF InOrder, Intact

\* A tensor is yielded.
LEMMA TensorStep ==
  ASSUME NEW c, NEW o, NEW bufs, NEW out, NEW s, NEW count, NEW reach, NEW msg,
         HeldInv(c, o, bufs, out), PaceInv(c, o, out, s, count, reach, msg),
         c.pc = "yield", c.n <= Len(c.meta)
  PROVE  /\ HeldInv(Counted(c), o, bufs, WithTensor(c, bufs, out))
         /\ PaceInv(Counted(c), o, WithTensor(c, bufs, out), s, count, reach, msg)
<1>a. PICK c1, out1 :
        /\ c1 = Counted(c) /\ c1 = [c EXCEPT !.n = c.n + 1]
        /\ out1 = WithTensor(c, bufs, out) /\ out1 = Append(out, Tensor(bufs[c.b], c.meta[c.n]))
  BY DEF Counted, WithTensor
<1>0. /\ c \in Reader /\ o \in Op /\ bufs \in [Both -> Buffers] /\ out \in Seq(IntactWeights)
      /\ Len(c.meta) \in Nat /\ Len(out) \in Nat /\ c.n \in Nat /\ Len(o.meta) \in Nat
      /\ End(c, out) = Len(out) + Len(c.meta) + 1 - c.n /\ End(c, out) \in Nat
      /\ 1 <= c.n /\ c.n <= Len(c.meta) + 1
  BY HeldFacts
<1>1. c1 \in Reader /\ c1.meta = c.meta /\ c1.last = c.last /\ c1.b = c.b /\ c1.n = c.n + 1 /\ c1.pc = c.pc
  <2>1. c.n + 1 \in Nat
    BY <1>0
  <2> QED
    BY <1>a, <1>0, <2>1 DEF Reader
<1>2. PICK i \in 1 .. Len(c.meta) : i = c.n
  BY <1>0
<1>3. PICK m \in Entry : m = c.meta[i]
  BY <1>0, ElementType DEF Reader
<1>4. m.name = Len(out) + 1 /\ Holds(bufs[c.b], m)
  <2>1. m.name = (End(c, out) - Len(c.meta)) + i /\ Holds(bufs[c.b], m)
    BY <1>3 DEF HeldInv, Filled
  <2>2. PICK a \in Nat, l \in Nat : a = Len(out) /\ l = Len(c.meta)
    BY <1>0
  <2>3. End(c, out) = a + l + 1 - i /\ i \in Int
    BY <1>0, <1>2, <2>2
  <2>4. ((a + l + 1 - i) - l) + i = a + 1
    BY <2>3
  <2> QED
    BY <2>1, <2>2, <2>3, <2>4
<1>5. Tensor(bufs[c.b], m) = Intact(m.name)
  <2>1. bufs[c.b] \in Buffers
    BY <1>0 DEF Reader
  <2> QED
    BY <1>4, <2>1, TensorIntact
<1>6. out1 \in Seq(IntactWeights) /\ Len(out1) = Len(out) + 1 /\ InOrder(out1)
  <2>1. m.name \in Weights /\ InOrder(out)
    BY DEF Entry, HeldInv
  <2>2. out1 = Append(out, Intact(m.name))
    BY <1>a, <1>2, <1>3, <1>5
  <2> QED
    BY <1>0, <1>4, <2>1, <2>2, NextInOrder
<1>7. End(c1, out1) = End(c, out)
  <2>1. End(c1, out1) = (Len(out) + 1) + Len(c.meta) + 1 - (c.n + 1)
    BY <1>1, <1>6 DEF End
  <2>2. PICK a \in Nat, l \in Nat, n \in Nat : a = Len(out) /\ l = Len(c.meta) /\ n = c.n
    BY <1>0
  <2>3. (a + 1) + l + 1 - (n + 1) = a + l + 1 - n
    OBVIOUS
  <2> QED
    BY <1>0, <2>1, <2>2, <2>3
<1>8. Outstanding(c1) <=> Outstanding(c)
  BY <1>1 DEF Outstanding
<1>9. c1.n \in 1 .. Len(c1.meta) + 1
  BY <1>0, <1>1, SMTT(30)
<1>10. HeldInv(c1, o, bufs, out1)
  BY <1>1, <1>6, <1>7, <1>8, <1>9 DEF HeldInv
<1>11. PaceInv(c1, o, out1, s, count, reach, msg)
  BY <1>7, <1>8 DEF PaceInv
<1> QED
  BY <1>a, <1>10, <1>11

\* A reader that is through its metadata has yielded all it was handed.
LEMMA EndOfMeta ==
  ASSUME NEW l \in Nat, NEW m \in Nat, NEW n, NEW e, e = l + m + 1 - n, n = m + 1
  PROVE  e = l
  OBVIOUS

\* The received bucket takes the place of the consumed one.
LEMMA SwapStep ==
  ASSUME NEW c, NEW o, NEW bufs, NEW out, NEW s, NEW count, NEW reach, NEW msg,
         HeldInv(c, o, bufs, out), PaceInv(c, o, out, s, count, reach, msg),
         c.pc = "await", o.st = "done"
  PROVE  HeldInv(Swapped(o), o, bufs, out) /\ PaceInv(Swapped(o), o, out, s, count, reach, msg)
<1>a. PICK c1 :
        c1 = Swapped(o) /\ c1 = [pc |-> "next", meta |-> o.meta, last |-> o.last, b |-> o.b, n |-> 1]
  BY DEF Swapped
<1>0. /\ c \in Reader /\ o \in Op /\ Len(c.meta) \in Nat /\ Len(out) \in Nat /\ Len(o.meta) \in Nat
      /\ End(c, out) = Len(out) + Len(c.meta) + 1 - c.n /\ End(c, out) \in Nat
  BY HeldFacts
<1>1. c1 \in Reader /\ c1.meta = o.meta /\ c1.last = o.last /\ c1.b = o.b /\ c1.n = 1 /\ c1.pc = "next"
  BY <1>a, <1>0 DEF Reader, Op
<1>2. Outstanding(c) /\ ~ Outstanding(c1)
  BY <1>1 DEF Outstanding
<1>3. c.n = Len(c.meta) + 1
  BY DEF HeldInv
<1>4. End(c, out) = Len(out)
  <2>1. PICK e, l, k : e = End(c, out) /\ l = Len(out) /\ k = Len(c.meta)
    OBVIOUS
  <2>2. l \in Nat /\ k \in Nat /\ e = l + k + 1 - c.n /\ c.n = k + 1
    BY <1>0, <1>3, <2>1, Zenon
  <2>3. e = l
    BY <2>2
  <2> QED
    BY <2>1, <2>3, Zenon
<1>5. End(c1, out) = Len(out) + Len(o.meta) + 1 - 1
  BY <1>1 DEF End
<1>6. End(c1, out) = End(c, out) + Len(o.meta) /\ End(c1, out) - Len(c1.meta) = End(c, out)
  <2>1. PICK a \in Nat, l \in Nat : a = Len(out) /\ l = Len(o.meta)
    BY <1>0
  <2>2. a + l + 1 - 1 = a + l /\ (a + l) - l = a
    OBVIOUS
  <2> QED
    BY <1>1, <1>4, <1>5, <2>1, <2>2
<1>7. Filled(bufs[o.b], o.meta, End(c, out)) /\ (o.last => End(c, out) + Len(o.meta) = Total)
  BY <1>2 DEF HeldInv
<1>8. c1.n \in 1 .. Len(c1.meta) + 1
  BY <1>0, <1>1
<1>9. HeldInv(c1, o, bufs, out)
  BY <1>1, <1>2, <1>6, <1>7, <1>8 DEF HeldInv
<1>10. PaceInv(c1, o, out, s, count, reach, msg)
  <2>1. End(c, out) + Len(o.meta) = reach
    BY <1>2 DEF PaceInv
  <2>2. End(c1, out) + 0 = reach
    BY <1>0, <1>6, <2>1
  <2> QED
    BY <1>2, <2>2 DEF PaceInv
<1> QED
  BY <1>a, <1>9, <1>10

LEMMA TableAt ==
  ASSUME NEW f, Table(f), NEW r \in Receivers
  PROVE  f = [f EXCEPT ![r] = f[r]]
<1>1. [f EXCEPT ![r] = f[r]] = [x \in Receivers |-> f[x]]
  BY DEF Table
<1> QED
  BY <1>1 DEF Table

\* A receiver that nothing of concern to it has changed.
LEMMA ReceiverKept ==
  ASSUME NEW q \in Receivers, ReceiverInv(q), rcv'[q] = rcv[q], rop'[q] = rop[q], rbuf'[q] = rbuf[q],
         yielded'[q] = yielded[q], sub'[q] = sub[q],
         Count(q)' = Count(q), Reach(q)' = Reach(q), Message(q)' = Message(q)
  PROVE  ReceiverInv(q)'
BY DEF ReceiverInv

\* A step of receiver r leaves the others alone.
LEMMA ReceiverStep ==
  ASSUME NcclInv, NEW r \in Receivers, UNCHANGED <<snd, sbuf, sop>>, OpInv',
         NEW c, NEW o, NEW bufs, NEW out, NEW s,
         rcv' = Put(rcv, r, c), rop' = Put(rop, r, o), rbuf' = Put(rbuf, r, bufs),
         yielded' = Put(yielded, r, out), sub' = Put(sub, r, s),
         taken \subseteq taken', taken' \subseteq taken \cup {r},
         HeldInv(c, o, bufs, out), PaceInv(c, o, out, s, Count(r)', Reach(r)', Message(r)')
  PROVE  NcclInv'
<1>1. SenderInv' /\ Base' = Base
  BY SenderKept DEF NcclInv
<1>2. Table(rcv) /\ Table(rop) /\ Table(rbuf) /\ Table(yielded) /\ Table(sub)
  BY DEF NcclInv
<1>3. /\ Table(rcv') /\ Table(rop') /\ Table(rbuf') /\ Table(yielded') /\ Table(sub')
      /\ rcv'[r] = c /\ rop'[r] = o /\ rbuf'[r] = bufs /\ yielded'[r] = out /\ sub'[r] = s
      /\ \A q \in Receivers : q # r =>
           /\ rcv'[q] = rcv[q] /\ rop'[q] = rop[q] /\ rbuf'[q] = rbuf[q]
           /\ yielded'[q] = yielded[q] /\ sub'[q] = sub[q]
  <2>1. Table(rcv') /\ rcv'[r] = c /\ \A q \in Receivers : q # r => rcv'[q] = rcv[q]
    BY <1>2 DEF Table, Put
  <2>2. Table(rop') /\ rop'[r] = o /\ \A q \in Receivers : q # r => rop'[q] = rop[q]
    BY <1>2 DEF Table, Put
  <2>3. Table(rbuf') /\ rbuf'[r] = bufs /\ \A q \in Receivers : q # r => rbuf'[q] = rbuf[q]
    BY <1>2 DEF Table, Put
  <2>4. Table(yielded') /\ yielded'[r] = out /\ \A q \in Receivers : q # r => yielded'[q] = yielded[q]
    BY <1>2 DEF Table, Put
  <2>5. Table(sub') /\ sub'[r] = s /\ \A q \in Receivers : q # r => sub'[q] = sub[q]
    BY <1>2 DEF Table, Put
  <2> QED
    BY <2>1, <2>2, <2>3, <2>4, <2>5
<1>4. ASSUME NEW q \in Receivers PROVE ReceiverInv(q)'
  <2>1. CASE q = r
    BY <1>3, <2>1 DEF ReceiverInv
  <2>2. CASE q # r
    <3>1. Due(q)' <=> Due(q)
      BY <2>2 DEF Due
    <3>2. Count(q)' = Count(q) /\ Reach(q)' = Reach(q) /\ Message(q)' = Message(q)
      BY <1>1, <3>1 DEF Count, Reach, Message
    <3>3. ReceiverInv(q)
      BY DEF NcclInv
    <3> QED
      BY <1>3, <2>2, <3>2, <3>3, ReceiverKept
  <2> QED
    BY <2>1, <2>2
<1> QED
  BY <1>1, <1>3, <1>4 DEF NcclInv

\* The same for a step that takes no bucket.
LEMMA QuietStep ==
  ASSUME NcclInv, NEW r \in Receivers, UNCHANGED <<snd, sbuf, sop, taken>>,
         NEW c, NEW o, NEW bufs, NEW out, NEW s,
         rcv' = Put(rcv, r, c), rop' = Put(rop, r, o), rbuf' = Put(rbuf, r, bufs),
         yielded' = Put(yielded, r, out), sub' = Put(sub, r, s),
         HeldInv(c, o, bufs, out), PaceInv(c, o, out, s, Count(r), Reach(r), Message(r))
  PROVE  NcclInv'
<1>1. Base' = Base
  BY SenderKept DEF NcclInv
<1>2. OpInv'
  BY <1>1 DEF NcclInv, OpInv
<1>3. Count(r)' = Count(r) /\ Reach(r)' = Reach(r) /\ Message(r)' = Message(r)
  BY <1>1 DEF Count, Reach, Message, Due
<1> QED
  BY <1>2, <1>3, ReceiverStep

\* The state of a receiver, with names for its parts.
LEMMA ReceiverAt ==
  ASSUME NcclInv, NEW r \in Receivers
  PROVE  \E c, o, bufs, out, s, count, reach, msg :
           /\ c = rcv[r] /\ o = rop[r] /\ bufs = rbuf[r] /\ out = yielded[r] /\ s = sub[r]
           /\ count = Count(r) /\ reach = Reach(r) /\ msg = Message(r)
           /\ HeldInv(c, o, bufs, out) /\ PaceInv(c, o, out, s, count, reach, msg)
           /\ rcv = Put(rcv, r, c) /\ rop = Put(rop, r, o) /\ rbuf = Put(rbuf, r, bufs)
           /\ yielded = Put(yielded, r, out) /\ sub = Put(sub, r, s)
<1>1. HeldInv(rcv[r], rop[r], rbuf[r], yielded[r])
      /\ PaceInv(rcv[r], rop[r], yielded[r], sub[r], Count(r), Reach(r), Message(r))
  BY DEF NcclInv, ReceiverInv
<1>2. Table(rcv) /\ Table(rop) /\ Table(rbuf) /\ Table(yielded) /\ Table(sub)
  BY DEF NcclInv
<1>3. /\ rcv = Put(rcv, r, rcv[r]) /\ rop = Put(rop, r, rop[r])
      /\ rbuf = Put(rbuf, r, rbuf[r])
      /\ yielded = Put(yielded, r, yielded[r]) /\ sub = Put(sub, r, sub[r])
  BY <1>2, TableAt DEF Put
<1> QED
  BY <1>1, <1>3

LEMMA ReceiveKeeps ==
  ASSUME NcclInv, NEW r \in Receivers, Receive(r)
  PROVE  NcclInv'
<1>1. PICK c, o, bufs, out, s, count, reach, msg :
           /\ c = rcv[r] /\ o = rop[r] /\ bufs = rbuf[r] /\ out = yielded[r] /\ s = sub[r]
           /\ count = Count(r) /\ reach = Reach(r) /\ msg = Message(r)
           /\ HeldInv(c, o, bufs, out) /\ PaceInv(c, o, out, s, count, reach, msg)
           /\ rcv = Put(rcv, r, c) /\ rop = Put(rop, r, o) /\ rbuf = Put(rbuf, r, bufs)
           /\ yielded = Put(yielded, r, out) /\ sub = Put(sub, r, s)
  BY ReceiverAt
<1>2. c.b \in Both
  BY <1>1, HeldFacts DEF Reader
<1>3. PICK b \in Both : b = (IF c.pc = "first" THEN c.b ELSE Other(c.b))
  BY <1>2, OtherType
<1>4. PICK c1, o1 : c1 = StartedBy(c) /\ o1 = Started(o, b)
  OBVIOUS
<1>5. /\ c.pc = "first" \/ (c.pc = "next" /\ ~ c.last)
      /\ rcv' = Put(rcv, r, c1) /\ rop' = Put(rop, r, o1)
      /\ UNCHANGED <<snd, sbuf, sop, taken, sub, rbuf, yielded>>
  <2>1. [NoOp EXCEPT !.st = "meta", !.b = b, !.no = o.no + 1] = Started(o, b)
    <3>1. o.no + 1 \in Nat /\ <<>> \in Seq(Entry) /\ 1 \in Both
      BY <1>1, HeldFacts DEF Both
    <3>2. NoOp \in Op
      BY <3>1 DEF NoOp, Op
    <3>3. PICK n \in Nat : n = o.no + 1
      BY <3>1
    <3>4. PICK e \in Op, g \in Op : e = [NoOp EXCEPT !.st = "meta", !.b = b, !.no = n] /\ g = Started(o, b)
      BY <3>1, <3>2, <3>3 DEF Op, Started
    <3>5. e.st = g.st /\ e.b = g.b /\ e.meta = g.meta /\ e.last = g.last /\ e.no = g.no
      BY <3>2, <3>3, <3>4 DEF Op, NoOp, Started
    <3>6. e = g
      BY <3>5 DEF Op
    <3> QED
      BY <3>3, <3>4, <3>6
  <2> QED
    BY <1>1, <1>3, <1>4, <2>1 DEF Receive, StartOp, senderVars, StartedBy, Put
<1>6. c.pc = "next" => b = Other(c.b)
  BY <1>3
<1>7. HeldInv(c1, o1, bufs, out) /\ PaceInv(c1, o1, out, s, count, reach, msg)
  BY <1>1, <1>4, <1>5, <1>6, ReceiveStep
<1> QED
  BY <1>1, <1>5, <1>7, QuietStep

LEMMA RecvMetaKeeps ==
  ASSUME NcclInv, NEW r \in Receivers, RecvMeta(r)
  PROVE  NcclInv'
<1>1. PICK c, o, bufs, out, s, count, reach, msg :
           /\ c = rcv[r] /\ o = rop[r] /\ bufs = rbuf[r] /\ out = yielded[r] /\ s = sub[r]
           /\ count = Count(r) /\ reach = Reach(r) /\ msg = Message(r)
           /\ HeldInv(c, o, bufs, out) /\ PaceInv(c, o, out, s, count, reach, msg)
           /\ rcv = Put(rcv, r, c) /\ rop = Put(rop, r, o) /\ rbuf = Put(rbuf, r, bufs)
           /\ yielded = Put(yielded, r, out) /\ sub = Put(sub, r, s)
  BY ReceiverAt
<1>2. o.st = "meta" /\ s # <<>>
  BY <1>1 DEF RecvMeta
<1>3. s = msg
  BY <1>1, <1>2 DEF PaceInv
<1>4. PICK meta \in Seq(Entry), last \in BOOLEAN : msg = << [meta |-> meta, last |-> last] >>
  <2>1. sop.meta \in Seq(Entry) /\ sop.last \in BOOLEAN
    BY DEF NcclInv, OpInv, Op
  <2> QED
    BY <1>1, <1>2, <1>3, <2>1 DEF Message
<1>5. Head(s).meta = meta /\ Head(s).last = last /\ Tail(s) = <<>>
  BY <1>3, <1>4
<1>6. PICK o1 : o1 = WithMeta(o, meta, last)
  OBVIOUS
<1>7. /\ rop' = Put(rop, r, o1) /\ sub' = Put(sub, r, <<>>)
      /\ UNCHANGED <<snd, sbuf, sop, taken, rcv, rbuf, yielded>>
  BY <1>1, <1>5, <1>6 DEF RecvMeta, senderVars, WithMeta, Put
<1>8. HeldInv(c, o1, bufs, out) /\ PaceInv(c, o1, out, <<>>, count, reach, msg)
  BY <1>1, <1>2, <1>4, <1>6, MetaStep
<1> QED
  BY <1>1, <1>7, <1>8, QuietStep

LEMMA RecvDataKeeps ==
  ASSUME NcclInv, NEW r \in Receivers, RecvData(r)
  PROVE  NcclInv'
<1>1. PICK c, o, bufs, out, s, count, reach, msg :
           /\ c = rcv[r] /\ o = rop[r] /\ bufs = rbuf[r] /\ out = yielded[r] /\ s = sub[r]
           /\ count = Count(r) /\ reach = Reach(r) /\ msg = Message(r)
           /\ HeldInv(c, o, bufs, out) /\ PaceInv(c, o, out, s, count, reach, msg)
           /\ rcv = Put(rcv, r, c) /\ rop = Put(rop, r, o) /\ rbuf = Put(rbuf, r, bufs)
           /\ yielded = Put(yielded, r, out) /\ sub = Put(sub, r, s)
  BY ReceiverAt
<1>2. o.st = "data" /\ sop.st = "data" /\ r \notin taken /\ taken' = taken \cup {r} /\ Due(r)
      /\ UNCHANGED <<snd, sop, sbuf, sub, rcv, yielded>>
  BY <1>1 DEF RecvData, Due
<1>3. SenderInv /\ OpInv /\ SenderType /\ sop \in Op
  BY DEF NcclInv, SenderInv, OpInv
<1>4. sop.meta = o.meta /\ sop.last = o.last /\ count = sop.no - 1 /\ reach = Base - Len(o.meta)
  <2>1. msg = << [meta |-> o.meta, last |-> o.last] >> /\ msg = << [meta |-> sop.meta, last |-> sop.last] >>
    BY <1>1, <1>2 DEF PaceInv, Message
  <2>2. sop.meta = o.meta /\ sop.last = o.last
    <3>1. msg[1].meta = o.meta /\ msg[1].last = o.last
      BY <2>1
    <3>2. msg[1].meta = sop.meta /\ msg[1].last = sop.last
      BY <2>1
    <3> QED
      BY <3>1, <3>2
  <2> QED
    BY <1>1, <1>2, <2>2 DEF Count, Reach
<1>5. PICK cells \in Buffers : cells = sbuf[sop.b]
  BY <1>3 DEF SenderType, Op
<1>6. Filled(cells, o.meta, reach) /\ Len(o.meta) <= Base
  BY <1>2, <1>3, <1>4, <1>5 DEF OpInv
<1>7. /\ Base \in Nat /\ Len(o.meta) \in Nat /\ sop.no \in Nat /\ count \in Nat /\ count + 1 = sop.no
      /\ reach + Len(o.meta) = Base
  <2>1. Base \in Nat /\ sop.no \in Nat /\ sop.no > 0
    BY <1>2, <1>3 DEF SenderInv, OpInv, Op
  <2>2. Len(o.meta) \in Nat
    BY <1>1, HeldFacts
  <2> QED
    BY <1>4, <2>1, <2>2
<1>8. o.last => reach + Len(o.meta) = Total
  <2> SUFFICES ASSUME o.last PROVE Base = Total
    BY <1>7
  <2>1. snd.pc # "pack"
    BY <1>3, <1>4 DEF OpInv
  <2>2. snd.w = Total + 1 /\ Len(snd.meta) = 0
    BY <1>3, <2>1, SenderFacts DEF SenderInv
  <2> QED
    BY <1>3, <2>2, SenderFacts
<1>9. PICK o1, bufs1 : o1 = Finished(o) /\ bufs1 = Put(bufs, o.b, cells)
  OBVIOUS
<1>10. rop' = Put(rop, r, o1) /\ rbuf' = Put(rbuf, r, bufs1)
  BY <1>1, <1>5, <1>9 DEF RecvData, Finished, Put
<1>11. HeldInv(c, o1, bufs1, out) /\ PaceInv(c, o1, out, s, count + 1, reach + Len(o.meta), <<>>)
  BY <1>1, <1>2, <1>6, <1>7, <1>8, <1>9, DataStep
<1>12. Base' = Base
  BY <1>2, <1>3, SenderKept
<1>13. Count(r)' = count + 1 /\ Reach(r)' = reach + Len(o.meta) /\ Message(r)' = <<>>
  BY <1>2, <1>7, <1>12 DEF Count, Reach, Message, Due
<1>14. OpInv'
  BY <1>2, <1>3, <1>12 DEF OpInv
<1> QED
  BY <1>1, <1>2, <1>10, <1>11, <1>13, <1>14, ReceiverStep

LEMMA YieldLastKeeps ==
  ASSUME NcclInv, NEW r \in Receivers, YieldLast(r) \/ YieldEnd(r)
  PROVE  NcclInv'
<1>1. PICK c, o, bufs, out, s, count, reach, msg :
           /\ c = rcv[r] /\ o = rop[r] /\ bufs = rbuf[r] /\ out = yielded[r] /\ s = sub[r]
           /\ count = Count(r) /\ reach = Reach(r) /\ msg = Message(r)
           /\ HeldInv(c, o, bufs, out) /\ PaceInv(c, o, out, s, count, reach, msg)
           /\ rcv = Put(rcv, r, c) /\ rop = Put(rop, r, o) /\ rbuf = Put(rbuf, r, bufs)
           /\ yielded = Put(yielded, r, out) /\ sub = Put(sub, r, s)
  BY ReceiverAt
<1>2. PICK pc, c1 :
        /\ \/ c.pc = "next" /\ c.last /\ pc = "yield"
           \/ c.pc = "yield" /\ c.n > Len(c.meta) /\ pc = (IF c.last THEN "done" ELSE "await")
        /\ c1 = AtPc(c, pc) /\ rcv' = Put(rcv, r, c1)
        /\ UNCHANGED <<snd, sbuf, sop, taken, sub, rop, rbuf, yielded>>
  BY <1>1 DEF YieldLast, YieldEnd, senderVars, AtPc, Put
<1>3. HeldInv(c1, o, bufs, out) /\ PaceInv(c1, o, out, s, count, reach, msg)
  BY <1>1, <1>2, EndStep
<1> QED
  BY <1>1, <1>2, <1>3, QuietStep

LEMMA YieldTensorKeeps ==
  ASSUME NcclInv, NEW r \in Receivers, YieldTensor(r)
  PROVE  NcclInv'
<1>1. PICK c, o, bufs, out, s, count, reach, msg :
           /\ c = rcv[r] /\ o = rop[r] /\ bufs = rbuf[r] /\ out = yielded[r] /\ s = sub[r]
           /\ count = Count(r) /\ reach = Reach(r) /\ msg = Message(r)
           /\ HeldInv(c, o, bufs, out) /\ PaceInv(c, o, out, s, count, reach, msg)
           /\ rcv = Put(rcv, r, c) /\ rop = Put(rop, r, o) /\ rbuf = Put(rbuf, r, bufs)
           /\ yielded = Put(yielded, r, out) /\ sub = Put(sub, r, s)
  BY ReceiverAt
<1>2. PICK c1, out1 : c1 = Counted(c) /\ out1 = WithTensor(c, bufs, out)
  OBVIOUS
<1>3. /\ c.pc = "yield" /\ c.n <= Len(c.meta)
      /\ rcv' = Put(rcv, r, c1) /\ yielded' = Put(yielded, r, out1)
      /\ UNCHANGED <<snd, sbuf, sop, taken, sub, rop, rbuf>>
  BY <1>1, <1>2 DEF YieldTensor, senderVars, Counted, WithTensor, Put
<1>4. HeldInv(c1, o, bufs, out1) /\ PaceInv(c1, o, out1, s, count, reach, msg)
  BY <1>1, <1>2, <1>3, TensorStep
<1> QED
  BY <1>1, <1>3, <1>4, QuietStep

LEMMA SwapKeeps ==
  ASSUME NcclInv, NEW r \in Receivers, Swap(r)
  PROVE  NcclInv'
<1>1. PICK c, o, bufs, out, s, count, reach, msg :
           /\ c = rcv[r] /\ o = rop[r] /\ bufs = rbuf[r] /\ out = yielded[r] /\ s = sub[r]
           /\ count = Count(r) /\ reach = Reach(r) /\ msg = Message(r)
           /\ HeldInv(c, o, bufs, out) /\ PaceInv(c, o, out, s, count, reach, msg)
           /\ rcv = Put(rcv, r, c) /\ rop = Put(rop, r, o) /\ rbuf = Put(rbuf, r, bufs)
           /\ yielded = Put(yielded, r, out) /\ sub = Put(sub, r, s)
  BY ReceiverAt
<1>2. PICK c1 : c1 = Swapped(o)
  OBVIOUS
<1>3. /\ c.pc = "await" /\ o.st = "done" /\ rcv' = Put(rcv, r, c1)
      /\ UNCHANGED <<snd, sbuf, sop, taken, sub, rop, rbuf, yielded>>
  BY <1>1, <1>2 DEF Swap, ReceivedInto, senderVars, Swapped, Put
<1>4. HeldInv(c1, o, bufs, out) /\ PaceInv(c1, o, out, s, count, reach, msg)
  BY <1>1, <1>2, <1>3, SwapStep
<1> QED
  BY <1>1, <1>3, <1>4, QuietStep

\* A step of the sender alone, for every receiver at once.
LEMMA SenderStep ==
  ASSUME NcclInv, SenderInv', OpInv', UNCHANGED <<rcv, rop, rbuf, yielded>>, Table(sub'),
         \A r \in Receivers :
           PaceInv(rcv[r], rop[r], yielded[r], sub'[r], Count(r)', Reach(r)', Message(r)')
  PROVE  NcclInv'
<1>1. ASSUME NEW r \in Receivers PROVE ReceiverInv(r)'
  <2>1. HeldInv(rcv[r], rop[r], rbuf[r], yielded[r])
    BY DEF NcclInv, ReceiverInv
  <2> QED
    BY <2>1 DEF ReceiverInv
<1> QED
  BY <1>1 DEF NcclInv

\* The state of the receivers seen from the sender.
LEMMA PaceAt ==
  ASSUME NcclInv, NEW r \in Receivers
  PROVE  PaceInv(rcv[r], rop[r], yielded[r], sub[r], Count(r), Reach(r), Message(r))
BY DEF NcclInv, ReceiverInv

LEMMA PackKeeps == ASSUME NcclInv, Pack PROVE NcclInv'
<1>1. SenderInv /\ OpInv /\ PackWeight /\ UNCHANGED <<sop, taken, sub, rcv, rop, rbuf, yielded>>
  BY DEF NcclInv, Pack, receiverVars
<1>2. /\ SenderInv' /\ Base' = Base /\ snd'.b = snd.b /\ snd'.pc = "pack" /\ snd.pc = "pack"
      /\ sbuf'[Other(snd.b)] = sbuf[Other(snd.b)]
  BY <1>1, Packing
<1>3. OpInv'
  BY <1>1, <1>2 DEF OpInv
<1>4. ASSUME NEW r \in Receivers
      PROVE  PaceInv(rcv[r], rop[r], yielded[r], sub'[r], Count(r)', Reach(r)', Message(r)')
  <2>1. Count(r)' = Count(r) /\ Reach(r)' = Reach(r) /\ Message(r)' = Message(r)
    BY <1>1, <1>2 DEF Count, Reach, Message, Due
  <2> QED
    BY <1>1, <2>1, PaceAt
<1>5. Table(sub')
  BY <1>1 DEF NcclInv
<1> QED
  BY <1>1, <1>2, <1>3, <1>4, <1>5, SenderStep

LEMMA SendDoneKeeps == ASSUME NcclInv, SendDone PROVE NcclInv'
<1>1. SenderInv /\ OpInv /\ HandedOver /\ UNCHANGED <<sop, taken, sub, rcv, rop, rbuf, yielded>>
  BY DEF NcclInv, SendDone, receiverVars
<1>2. SenderInv' /\ Base' = Base /\ snd'.b = snd.b /\ sbuf' = sbuf /\ snd'.pc # "pack"
  BY <1>1, Handed
<1>3. OpInv'
  BY <1>1, <1>2 DEF OpInv
<1>4. ASSUME NEW r \in Receivers
      PROVE  PaceInv(rcv[r], rop[r], yielded[r], sub'[r], Count(r)', Reach(r)', Message(r)')
  <2>1. Count(r)' = Count(r) /\ Reach(r)' = Reach(r) /\ Message(r)' = Message(r)
    BY <1>1, <1>2 DEF Count, Reach, Message, Due
  <2> QED
    BY <1>1, <2>1, PaceAt
<1>5. Table(sub')
  BY <1>1 DEF NcclInv
<1> QED
  BY <1>1, <1>2, <1>3, <1>4, <1>5, SenderStep

\* The broadcast of the next bucket begins: every receiver had the last one.
LEMMA FlushKeeps == ASSUME NcclInv, Flush PROVE NcclInv'
<1>1. /\ SenderInv /\ OpInv /\ SenderType /\ HandOver /\ sop.st \in {"none", "done"} /\ taken' = {}
      /\ UNCHANGED <<sub, rcv, rop, rbuf, yielded>>
      /\ sop' = [st |-> "meta", b |-> snd.b, meta |-> snd.meta, last |-> IsLast, no |-> sop.no + 1]
  BY DEF NcclInv, SenderInv, Flush, PreviousDone, receiverVars
<1>2. /\ SenderInv' /\ Base' = Base + Len(snd.meta) /\ snd'.b = Other(snd.b) /\ sbuf' = sbuf
      /\ (snd'.pc # "pack" <=> IsLast)
  BY <1>1, Handing
<1>3. /\ Base \in Nat /\ Len(snd.meta) \in Nat /\ snd.meta \in Seq(Entry) /\ snd.b \in Both /\ sop.no \in Nat
      /\ Filled(sbuf[snd.b], snd.meta, Base)
  BY <1>1, SenderFacts DEF SenderInv, Stacked, OpInv, Op
<1>4. sop'.st = "meta" /\ sop'.b = snd.b /\ sop'.meta = snd.meta /\ (sop'.last <=> IsLast) /\ sop'.no = sop.no + 1
  BY <1>1
<1>5. sop' \in Op
  <2>1. IsLast \in BOOLEAN
    BY DEF IsLast
  <2>2. sop.no + 1 \in Nat
    BY <1>3
  <2> QED
    BY <1>1, <1>3, <2>1, <2>2 DEF Op
<1>6. Base' - Len(snd.meta) = Base /\ Len(snd.meta) <= Base' /\ sop.no + 1 > 0 /\ (sop.no + 1) - 1 = sop.no
  BY <1>2, <1>3
<1>7. snd.b = Other(snd'.b)
  BY <1>2, <1>3, OtherType
<1>8. OpInv'
  BY <1>1, <1>2, <1>3, <1>4, <1>5, <1>6, <1>7 DEF OpInv
<1>9. ASSUME NEW r \in Receivers
      PROVE  PaceInv(rcv[r], rop[r], yielded[r], sub'[r], Count(r)', Reach(r)', Message(r)')
  <2>1. ~ Due(r)
    BY <1>1 DEF OpInv, Due
  <2>2. Count(r) = sop.no /\ Reach(r) = Base /\ Message(r) = <<>>
    BY <2>1 DEF Count, Reach, Message
  <2>3. Due(r)'
    BY <1>1, <1>4 DEF Due
  <2>4. Count(r)' = sop.no /\ Reach(r)' = Base /\ Message(r)' = <<>>
    BY <1>4, <1>6, <2>3 DEF Count, Reach, Message
  <2> QED
    BY <1>1, <2>2, <2>4, PaceAt
<1>10. Table(sub')
  BY <1>1 DEF NcclInv
<1> QED
  BY <1>1, <1>2, <1>8, <1>9, <1>10, SenderStep

\* The metadata goes out.
LEMMA PublishKeeps == ASSUME NcclInv, Publish PROVE NcclInv'
<1>1. /\ SenderInv /\ OpInv /\ sop.st = "meta" /\ sop' = [sop EXCEPT !.st = "data"] /\ taken = {}
      /\ UNCHANGED <<snd, sbuf, taken, rcv, rop, rbuf, yielded>>
      /\ sub' = [r \in Receivers |-> Append(sub[r], [meta |-> sop.meta, last |-> sop.last])]
  BY DEF NcclInv, OpInv, Publish
<1>2. SenderInv' /\ Base' = Base
  BY <1>1, SenderKept
<1>3. sop' \in Op /\ sop'.st = "data" /\ sop'.b = sop.b /\ sop'.meta = sop.meta /\ sop'.last = sop.last /\ sop'.no = sop.no
  BY <1>1 DEF OpInv, Op
<1>4. OpInv'
  BY <1>1, <1>2, <1>3 DEF OpInv
<1>5. ASSUME NEW r \in Receivers
      PROVE  PaceInv(rcv[r], rop[r], yielded[r], sub'[r], Count(r)', Reach(r)', Message(r)')
  <2>1. Due(r) /\ Due(r)'
    BY <1>1, <1>3 DEF Due
  <2>2. Count(r)' = Count(r) /\ Reach(r)' = Reach(r) /\ Message(r) = <<>>
        /\ Message(r)' = << [meta |-> sop.meta, last |-> sop.last] >>
    BY <1>1, <1>2, <1>3, <2>1 DEF Count, Reach, Message
  <2>3. PICK o : o = rop[r]
    OBVIOUS
  <2>4. o.st # "data" /\ sub[r] = <<>>
    <3>1. PaceInv(rcv[r], o, yielded[r], sub[r], Count(r), Reach(r), <<>>)
      BY <2>2, <2>3, PaceAt
    <3>2. << [meta |-> o.meta, last |-> o.last] >> # <<>>
      OBVIOUS
    <3> QED
      BY <3>1, <3>2 DEF PaceInv
  <2>5. sub'[r] = << [meta |-> sop.meta, last |-> sop.last] >>
    <3>1. sub'[r] = Append(<<>>, [meta |-> sop.meta, last |-> sop.last])
      BY <1>1, <2>4
    <3> QED
      BY <3>1
  <2> QED
    BY <2>2, <2>3, <2>4, <2>5, PaceAt DEF PaceInv
<1>6. Table(sub')
  BY <1>1 DEF Table
<1> QED
  BY <1>1, <1>2, <1>4, <1>5, <1>6, SenderStep

\* Every receiver has the bucket.
LEMMA SentKeeps == ASSUME NcclInv, Sent PROVE NcclInv'
<1>1. /\ SenderInv /\ OpInv /\ sop.st = "data" /\ sop' = [sop EXCEPT !.st = "done"] /\ taken = Receivers
      /\ UNCHANGED <<snd, sbuf, taken, sub, rcv, rop, rbuf, yielded>>
  BY DEF NcclInv, Sent, receiverVars
<1>2. SenderInv' /\ Base' = Base
  BY <1>1, SenderKept
<1>3. sop' \in Op /\ sop'.st = "done" /\ sop'.b = sop.b /\ sop'.meta = sop.meta /\ sop'.last = sop.last /\ sop'.no = sop.no
  BY <1>1 DEF OpInv, Op
<1>4. OpInv'
  BY <1>1, <1>2, <1>3 DEF OpInv
<1>5. ASSUME NEW r \in Receivers
      PROVE  PaceInv(rcv[r], rop[r], yielded[r], sub'[r], Count(r)', Reach(r)', Message(r)')
  <2>1. ~ Due(r) /\ ~ Due(r)'
    BY <1>1 DEF Due
  <2>2. Count(r)' = Count(r) /\ Reach(r)' = Reach(r) /\ Message(r)' = Message(r)
    BY <1>2, <1>3, <2>1 DEF Count, Reach, Message
  <2> QED
    BY <1>1, <2>2, PaceAt
<1>6. Table(sub')
  BY <1>1 DEF NcclInv
<1> QED
  BY <1>1, <1>2, <1>4, <1>5, <1>6, SenderStep

LEMMA NcclStarts == NcclInit => NcclInv
<1> SUFFICES ASSUME NcclInit PROVE NcclInv
  OBVIOUS
<1>1. SenderInv /\ Base = 0 /\ snd.pc = "pack"
  BY SenderStarts DEF NcclInit, SenderInit
<1>2. PICK c, o, bufs : /\ c = [pc |-> "first", meta |-> <<>>, last |-> FALSE, b |-> 2, n |-> 1]
                        /\ o = NoOp /\ bufs = <<Blank, Blank>>
  OBVIOUS
<1>3. /\ sop = o /\ taken = {} /\ sub = [r \in Receivers |-> <<>>] /\ rcv = [r \in Receivers |-> c]
      /\ rop = [r \in Receivers |-> o] /\ rbuf = [r \in Receivers |-> bufs]
      /\ yielded = [r \in Receivers |-> <<>>]
  BY <1>2 DEF NcclInit
<1>4. /\ o \in Op /\ o.st = "none" /\ o.no = 0 /\ ~ o.last
      /\ c \in Reader /\ c.pc = "first" /\ c.meta = <<>> /\ ~ c.last /\ c.n = 1
  <2>1. <<>> \in Seq(Entry) /\ 1 \in Both /\ 2 \in Both
    BY DEF Both
  <2>2. o \in Op /\ o.st = "none" /\ o.no = 0 /\ ~ o.last
    BY <1>2, <2>1 DEF NoOp, Op
  <2>3. c \in Reader /\ c.pc = "first" /\ c.meta = <<>> /\ ~ c.last /\ c.n = 1
    BY <1>2, <2>1 DEF Reader
  <2> QED
    BY <2>2, <2>3
<1>5. bufs \in [Both -> Buffers]
  BY <1>2, BlankType DEF Both
<1>6. OpInv
  BY <1>3, <1>4 DEF OpInv
<1>7. Len(c.meta) = 0 /\ End(c, <<>>) = 0 /\ ~ Outstanding(c)
  BY <1>4 DEF End, Outstanding
<1>8. HeldInv(c, o, bufs, <<>>)
  <2>1. <<>> \in Seq(IntactWeights) /\ InOrder(<<>>) /\ c.n \in 1 .. Len(c.meta) + 1 /\ c.n = Len(c.meta) + 1
    BY <1>4, <1>7 DEF InOrder
  <2> QED
    BY <1>4, <1>5, <1>7, <2>1 DEF HeldInv
<1>9. ASSUME NEW r \in Receivers PROVE ReceiverInv(r)
  <2>1. ~ Due(r)
    BY <1>3, <1>4 DEF Due
  <2>2. Count(r) = 0 /\ Reach(r) = 0 /\ Message(r) = <<>>
    BY <1>1, <1>3, <1>4, <2>1 DEF Count, Reach, Message
  <2>3. PaceInv(c, o, <<>>, <<>>, 0, 0, <<>>)
    BY <1>4, <1>7 DEF PaceInv
  <2> QED
    BY <1>3, <1>8, <2>2, <2>3 DEF ReceiverInv
<1>10. Table(rcv) /\ Table(rop) /\ Table(rbuf) /\ Table(yielded) /\ Table(sub)
  BY <1>3 DEF Table
<1> QED
  BY <1>1, <1>6, <1>9, <1>10 DEF NcclInv

LEMMA NcclKept == NcclInv /\ [NcclNext]_ncclVars => NcclInv'
<1> SUFFICES ASSUME NcclInv, [NcclNext]_ncclVars PROVE NcclInv'
  OBVIOUS
<1>1. CASE Pack
  BY <1>1, PackKeeps
<1>2. CASE Flush
  BY <1>2, FlushKeeps
<1>3. CASE SendDone
  BY <1>3, SendDoneKeeps
<1>4. CASE Publish
  BY <1>4, PublishKeeps
<1>5. CASE Sent
  BY <1>5, SentKeeps
<1>6. ASSUME NEW r \in Receivers, Receive(r) PROVE NcclInv'
  BY <1>6, ReceiveKeeps
<1>7. ASSUME NEW r \in Receivers, RecvMeta(r) PROVE NcclInv'
  BY <1>7, RecvMetaKeeps
<1>8. ASSUME NEW r \in Receivers, RecvData(r) PROVE NcclInv'
  BY <1>8, RecvDataKeeps
<1>9. ASSUME NEW r \in Receivers, YieldLast(r) \/ YieldEnd(r) PROVE NcclInv'
  BY <1>9, YieldLastKeeps
<1>10. ASSUME NEW r \in Receivers, YieldTensor(r) PROVE NcclInv'
  BY <1>10, YieldTensorKeeps
<1>11. ASSUME NEW r \in Receivers, Swap(r) PROVE NcclInv'
  BY <1>11, SwapKeeps
<1>12. CASE UNCHANGED ncclVars
  <2>1. UNCHANGED <<snd, sop, sbuf, taken, sub, rcv, rop, rbuf, yielded>>
    BY <1>12 DEF ncclVars
  <2>2. SenderInv' /\ Base' = Base
    BY <2>1, SenderKept DEF NcclInv
  <2>3. OpInv'
    BY <2>1, <2>2 DEF NcclInv, OpInv
  <2>4. ASSUME NEW r \in Receivers
        PROVE  PaceInv(rcv[r], rop[r], yielded[r], sub'[r], Count(r)', Reach(r)', Message(r)')
    <3>1. Count(r)' = Count(r) /\ Reach(r)' = Reach(r) /\ Message(r)' = Message(r)
      BY <2>1, <2>2 DEF Count, Reach, Message, Due
    <3> QED
      BY <2>1, <3>1, PaceAt
  <2>5. Table(sub')
    BY <2>1 DEF NcclInv
  <2> QED
    BY <2>1, <2>2, <2>3, <2>4, <2>5, SenderStep
<1> QED
  BY <1>1, <1>2, <1>3, <1>4, <1>5, <1>6, <1>7, <1>8, <1>9, <1>10, <1>11, <1>12 DEF NcclNext

LEMMA NcclInvDelivers == NcclInv => NcclDelivers
<1> SUFFICES ASSUME NcclInv, NEW r \in Receivers
             PROVE  /\ rop[r].st = "data" /\ sop.st = "data" /\ r \notin taken =>
                         rop[r].no = sop.no /\ rop[r].meta = sop.meta
                    /\ Len(sub[r]) <= 1 /\ rop[r].no <= sop.no + 1
                    /\ InOrder(yielded[r])
                    /\ rcv[r].pc = "done" => Len(yielded[r]) = Len(WeightSize)
  BY DEF NcclDelivers, MetaMatchesBucket, YieldedInOrder
<1>1. PICK c, o, bufs, out, s, count, reach, msg :
           /\ c = rcv[r] /\ o = rop[r] /\ bufs = rbuf[r] /\ out = yielded[r] /\ s = sub[r]
           /\ count = Count(r) /\ reach = Reach(r) /\ msg = Message(r)
           /\ HeldInv(c, o, bufs, out) /\ PaceInv(c, o, out, s, count, reach, msg)
  BY ReceiverAt
<1>2. /\ Len(c.meta) \in Nat /\ Len(out) \in Nat /\ c.n \in Nat /\ o.no \in Nat
      /\ End(c, out) = Len(out) + Len(c.meta) + 1 - c.n
  BY <1>1, HeldFacts
<1>3. sop.no \in Nat
  BY DEF NcclInv, OpInv, Op
<1>4. count = sop.no \/ count = sop.no - 1
  BY <1>1 DEF Count
<1>5. o.no = count \/ o.no - 1 = count
  BY <1>1 DEF PaceInv
<1>6. o.no <= sop.no + 1
  BY <1>2, <1>3, <1>4, <1>5
<1>7. ASSUME o.st = "data", sop.st = "data", r \notin taken PROVE o.no = sop.no /\ o.meta = sop.meta
  <2>1. count = sop.no - 1 /\ msg = << [meta |-> sop.meta, last |-> sop.last] >>
    BY <1>1, <1>7 DEF Count, Message, Due
  <2>2. o.no - 1 = count /\ msg = << [meta |-> o.meta, last |-> o.last] >>
    BY <1>1, <1>7 DEF PaceInv
  <2>3. msg[1].meta = sop.meta
    BY <2>1
  <2>4. msg[1].meta = o.meta
    BY <2>2
  <2>5. o.no = sop.no
    BY <1>2, <1>3, <2>1, <2>2
  <2> QED
    BY <2>3, <2>4, <2>5
<1>8. Len(s) <= 1
  <2>1. PICK m : m = [meta |-> sop.meta, last |-> sop.last]
    OBVIOUS
  <2>2. s = <<>> \/ s = << m >>
    BY <1>1, <2>1 DEF PaceInv, Message
  <2>3. Len(<<>>) = 0 /\ Len(<< m >>) = 1
    OBVIOUS
  <2>4. PICK n \in {0, 1} : n = Len(s)
    BY <2>2, <2>3
  <2>5. n <= 1
    OBVIOUS
  <2> QED
    BY <2>4, <2>5
<1>9. ASSUME c.pc = "done" PROVE Len(out) = Total
  <2>1. End(c, out) = Total /\ c.n = Len(c.meta) + 1
    BY <1>1, <1>9 DEF HeldInv
  <2>2. End(c, out) = Len(out)
    BY <1>2, <2>1, EndOfMeta, Zenon
  <2> QED
    BY <2>1, <2>2, Zenon
<1>10. InOrder(out)
  BY <1>1 DEF HeldInv
<1> QED
  BY <1>1, <1>6, <1>7, <1>8, <1>9, <1>10 DEF Total

(* The NCCL engine, for any weights, any bucket that holds the largest of    *)
(* them and any set of receivers: each receiver pairs every bucket with the  *)
(* metadata of the same broadcast, and yields all weights whole and in the   *)
(* sender's order although the buffers are refilled meanwhile.               *)
THEOREM NcclAlwaysDelivers == NcclSpec => []NcclDelivers
<1>1. NcclInit => NcclInv
  BY NcclStarts
<1>2. NcclInv /\ [NcclNext]_ncclVars => NcclInv'
  BY NcclKept
<1>3. NcclInv => NcclDelivers
  BY NcclInvDelivers
<1> QED
  BY <1>1, <1>2, <1>3, PTL DEF NcclSpec

-----------------------------------------------------------------------------
(* The NIXL engine                                                           *)

Note == [meta : Seq(Entry), last : BOOLEAN, b : Both, key : Nat]
Rank == [pc : {"first", "wait", "meta", "yield", "done"}, meta : Seq(Entry), last : BOOLEAN,
         b : Both, n : Nat, read : {"none", "begun", "done"}, from : Both, key : Nat,
         nmeta : Seq(Entry), nlast : BOOLEAN]

\* What a rank k of the chain holds, with its buffers bufs and the tensors out
\* it has yielded: its bucket whole until it is swapped, and the next one once
\* the transfer has ended.
LinkHeld(k, bufs, out) ==
  /\ k \in Rank /\ bufs \in [Both -> Buffers] /\ out \in Seq(IntactWeights)
  /\ k.n \in 1 .. Len(k.meta) + 1
  /\ InOrder(out)
  /\ k.read = "none" <=> k.pc \in {"first", "meta", "done"} \/ k.last
  /\ k.read # "none" => k.key # 0
  /\ k.pc \notin {"meta", "yield"} => k.n = Len(k.meta) + 1
  /\ k.pc \in {"first", "meta"} => ~ k.last
  /\ k.pc = "done" => k.last
  /\ k.last => End(k, out) = Total
  /\ Filled(bufs[k.b], k.meta, End(k, out) - Len(k.meta))
  /\ k.read = "done" =>
       /\ Filled(bufs[Other(k.b)], k.nmeta, End(k, out))
       /\ k.nlast => End(k, out) + Len(k.nmeta) = Total

\* The weights that a rank has, those of the next bucket included.
Got(k, out) == End(k, out) + (IF k.read = "done" THEN Len(k.nmeta) ELSE 0)

\* What the rank before shows: it is at weight upto, and its bucket is in
\* buffer shown, with the content cells.
Above(r) ==
  IF r = 0 THEN [upto |-> Base, shown |-> Other(snd.b), cells |-> sbuf[Other(snd.b)]]
  ELSE [upto |-> End(link[r], handed[r]), shown |-> link[r].b, cells |-> lbuf[r][link[r].b]]

\* The bucket m that a, the rank before, has announced.
Offered(m, a) ==
  /\ m.b = a.shown /\ Filled(a.cells, m.meta, a.upto - Len(m.meta))
  /\ m.last => a.upto = Total

\* The bucket m is announced with nt, or rank k is reading it.
Pending(k, nt, m) ==
  IF k.read = "begun"
  THEN nt = <<>> /\ k.nmeta = m.meta /\ k.nlast = m.last /\ k.from = m.b /\ k.key = m.key
  ELSE nt = << m >>

\* Rank k against the rank before, a: key names the bucket that a waits for.
LinkPace(k, out, nt, key, a) ==
  IF key = 0 THEN nt = <<>> /\ k.read # "begun" /\ Got(k, out) = a.upto
  ELSE \E m \in Note : /\ m.key = key /\ Offered(m, a) /\ Pending(k, nt, m)
                       /\ Got(k, out) + Len(m.meta) = a.upto

LinkInv(r) ==
  /\ LinkHeld(link[r], lbuf[r], handed[r])
  /\ LinkPace(link[r], handed[r], note[r], open[r - 1], Above(r - 1))

ChainTable(f) == f = [r \in Chain |-> f[r]]

NixlInv ==
  /\ SenderInv
  /\ ChainTable(link) /\ ChainTable(lbuf) /\ ChainTable(handed) /\ ChainTable(note)
  /\ open = [r \in 0 .. ChainLen |-> open[r]]
  /\ \A r \in Chain : LinkInv(r)

\* What the steps of a rank leave behind.
Begun(k, m) == [k EXCEPT !.pc = IF k.pc = "first" THEN "wait" ELSE "yield", !.read = "begun",
                         !.from = m.b, !.key = m.key, !.nmeta = m.meta, !.nlast = m.last]
Transferred(k) == [k EXCEPT !.read = "done"]
SwappedTo(k) == [k EXCEPT !.pc = IF k.nlast THEN "yield" ELSE "meta", !.meta = k.nmeta,
                          !.last = k.nlast, !.b = Other(k.b), !.n = 1, !.read = "none"]
NoteOf(meta, last, b, key) == [meta |-> meta, last |-> last, b |-> b, key |-> key]

LEMMA LinkFacts ==
  ASSUME NEW k, NEW bufs, NEW out, LinkHeld(k, bufs, out)
  PROVE  /\ k \in Rank /\ bufs \in [Both -> Buffers] /\ out \in Seq(IntactWeights)
         /\ Len(k.meta) \in Nat /\ Len(out) \in Nat /\ k.n \in Nat /\ Len(k.nmeta) \in Nat /\ k.b \in Both
         /\ End(k, out) = Len(out) + Len(k.meta) + 1 - k.n /\ End(k, out) \in Nat
         /\ 1 <= k.n /\ k.n <= Len(k.meta) + 1
<1>1. k \in Rank /\ bufs \in [Both -> Buffers] /\ out \in Seq(IntactWeights) /\ k.n \in 1 .. Len(k.meta) + 1
  BY DEF LinkHeld
<1>2. k.meta \in Seq(Entry) /\ k.nmeta \in Seq(Entry) /\ k.n \in Nat /\ k.b \in Both
  BY <1>1 DEF Rank
<1>3. Len(k.meta) \in Nat /\ Len(out) \in Nat /\ Len(k.nmeta) \in Nat
  BY <1>1, <1>2
<1>4. 1 <= k.n /\ k.n <= Len(k.meta) + 1
  BY <1>1, <1>2, <1>3
<1>5. End(k, out) = Len(out) + Len(k.meta) + 1 - k.n
  BY DEF End
<1>6. End(k, out) \in Nat
  BY <1>2, <1>3, <1>4, <1>5
<1> QED
  BY <1>1, <1>2, <1>3, <1>4, <1>5, <1>6

\* The announced bucket is being read.
LEMMA BeginStep ==
  ASSUME NEW k, NEW bufs, NEW out, NEW key, NEW a, NEW m \in Note, key # 0,
         LinkHeld(k, bufs, out), k.pc \in {"first", "meta"},
         LinkPace(k, out, << m >>, key, a)
  PROVE  LinkHeld(Begun(k, m), bufs, out) /\ LinkPace(Begun(k, m), out, <<>>, key, a)
<1>a. PICK k1 :
        /\ k1 = Begun(k, m)
        /\ k1 = [k EXCEPT !.pc = IF k.pc = "first" THEN "wait" ELSE "yield", !.read = "begun",
                          !.from = m.b, !.key = m.key, !.nmeta = m.meta, !.nlast = m.last]
  BY DEF Begun
<1>1. k \in Rank /\ k.read = "none" /\ ~ k.last
  BY DEF LinkHeld
<1>2. PICK x \in Note : /\ x.key = key /\ Offered(x, a) /\ Pending(k, << m >>, x)
                        /\ Got(k, out) + Len(x.meta) = a.upto
  BY DEF LinkPace
<1>3. x = m
  <2>1. << m >> = << x >>
    BY <1>1, <1>2 DEF Pending
  <2>2. << m >>[1] = m /\ << x >>[1] = x
    OBVIOUS
  <2> QED
    BY <2>1, <2>2
<1>4. m.meta \in Seq(Entry) /\ m.last \in BOOLEAN /\ m.b \in Both /\ m.key \in Nat /\ m.key # 0
  BY <1>2, <1>3 DEF Note
<1>5. /\ k1 \in Rank /\ k1.pc = (IF k.pc = "first" THEN "wait" ELSE "yield") /\ k1.meta = k.meta
      /\ k1.last = k.last /\ k1.b = k.b /\ k1.n = k.n /\ k1.read = "begun" /\ k1.from = m.b
      /\ k1.key = m.key /\ k1.nmeta = m.meta /\ k1.nlast = m.last
  BY <1>a, <1>1, <1>4 DEF Rank
<1>6. End(k1, out) = End(k, out)
  BY <1>5 DEF End
<1>7. Got(k1, out) = Got(k, out)
  BY <1>1, <1>5, <1>6 DEF Got
<1>8. LinkHeld(k1, bufs, out)
  <2>1. /\ bufs \in [Both -> Buffers] /\ out \in Seq(IntactWeights) /\ k.n \in 1 .. Len(k.meta) + 1 /\ InOrder(out)
        /\ k.pc = "first" => k.n = Len(k.meta) + 1
        /\ Filled(bufs[k.b], k.meta, End(k, out) - Len(k.meta))
    BY DEF LinkHeld
  <2>2. CASE k.pc = "first"
    BY <1>1, <1>4, <1>5, <1>6, <2>1, <2>2 DEF LinkHeld
  <2>3. CASE k.pc = "meta"
    BY <1>1, <1>4, <1>5, <1>6, <2>1, <2>3 DEF LinkHeld
  <2> QED
    BY <2>2, <2>3
<1>9. Pending(k1, <<>>, m)
  BY <1>5 DEF Pending
<1>10. LinkPace(k1, out, <<>>, key, a)
  BY <1>2, <1>3, <1>7, <1>9 DEF LinkPace
<1> QED
  BY <1>a, <1>8, <1>10

\* The bucket being read is the one announced.
LEMMA Reading ==
  ASSUME NEW k, NEW bufs, NEW out, NEW nt, NEW key, NEW a,
         LinkHeld(k, bufs, out), k.read = "begun", LinkPace(k, out, nt, key, a)
  PROVE  /\ key = k.key /\ key # 0 /\ nt = <<>> /\ k.from = a.shown
         /\ Filled(a.cells, k.nmeta, a.upto - Len(k.nmeta)) /\ (k.nlast => a.upto = Total)
         /\ End(k, out) + Len(k.nmeta) = a.upto /\ a.upto - Len(k.nmeta) = End(k, out)
<1>1. key # 0
  BY DEF LinkPace
<1>2. PICK m \in Note : /\ m.key = key /\ Offered(m, a) /\ Pending(k, nt, m)
                        /\ Got(k, out) + Len(m.meta) = a.upto
  BY <1>1 DEF LinkPace
<1>3. nt = <<>> /\ k.nmeta = m.meta /\ k.nlast = m.last /\ k.from = m.b /\ k.key = m.key
  BY <1>2 DEF Pending
<1>4. End(k, out) \in Nat /\ Len(k.nmeta) \in Nat
  BY LinkFacts
<1>5. Got(k, out) = End(k, out)
  BY <1>4 DEF Got
<1>6. End(k, out) + Len(k.nmeta) = a.upto
  BY <1>2, <1>3, <1>5
<1>7. a.upto - Len(k.nmeta) = End(k, out)
  <2>1. PICK x \in Nat, y \in Nat : x = End(k, out) /\ y = Len(k.nmeta)
    BY <1>4
  <2>2. a.upto = x + y /\ (x + y) - y = x
    BY <1>6, <2>1
  <2> QED
    BY <2>1, <2>2
<1> QED
  BY <1>1, <1>2, <1>3, <1>6, <1>7 DEF Offered

\* The transfer ends: the bucket is here, whole, and its owner is told.
LEMMA TransferStep ==
  ASSUME NEW k, NEW bufs, NEW out, NEW nt, NEW key, NEW a,
         LinkHeld(k, bufs, out), k.read = "begun", LinkPace(k, out, nt, key, a), a.cells \in Buffers
  PROVE  /\ LinkHeld(Transferred(k), Put(bufs, Other(k.b), a.cells), out)
         /\ LinkPace(Transferred(k), out, nt, 0, a)
<1>a. PICK k1, bufs1, cells :
        /\ k1 = Transferred(k) /\ k1 = [k EXCEPT !.read = "done"] /\ cells = a.cells
        /\ bufs1 = Put(bufs, Other(k.b), cells) /\ bufs1 = [bufs EXCEPT ![Other(k.b)] = cells]
  BY DEF Transferred, Put
<1>1. /\ k \in Rank /\ bufs \in [Both -> Buffers] /\ k.b \in Both /\ End(k, out) \in Nat /\ Len(k.nmeta) \in Nat
  BY LinkFacts
<1>2. /\ k1 \in Rank /\ k1.pc = k.pc /\ k1.meta = k.meta /\ k1.last = k.last /\ k1.b = k.b /\ k1.n = k.n
      /\ k1.read = "done" /\ k1.key = k.key /\ k1.nmeta = k.nmeta /\ k1.nlast = k.nlast
  BY <1>a, <1>1 DEF Rank
<1>3. bufs1 \in [Both -> Buffers] /\ bufs1[Other(k.b)] = cells /\ bufs1[k.b] = bufs[k.b]
  BY <1>a, <1>1, OtherType
<1>4. /\ Filled(cells, k.nmeta, End(k, out)) /\ nt = <<>>
      /\ End(k, out) + Len(k.nmeta) = a.upto /\ (k.nlast => a.upto = Total)
  BY <1>a, Reading
<1>5. End(k1, out) = End(k, out)
  BY <1>2 DEF End
<1>6. LinkHeld(k1, bufs1, out)
  <2>1. /\ out \in Seq(IntactWeights) /\ k.n \in 1 .. Len(k.meta) + 1 /\ InOrder(out)
        /\ k.pc \notin {"first", "meta", "done"} /\ ~ k.last /\ k.key # 0
        /\ k.pc \notin {"meta", "yield"} => k.n = Len(k.meta) + 1
        /\ Filled(bufs[k.b], k.meta, End(k, out) - Len(k.meta))
    BY DEF LinkHeld
  <2> QED
    BY <1>2, <1>3, <1>4, <1>5, <2>1 DEF LinkHeld
<1>7. Got(k1, out) = a.upto
  BY <1>2, <1>4, <1>5 DEF Got
<1>8. LinkPace(k1, out, nt, 0, a)
  BY <1>2, <1>4, <1>7 DEF LinkPace
<1> QED
  BY <1>a, <1>6, <1>8

\* A rank that holds no more and no less keeps its pace.
LEMMA PaceSame ==
  ASSUME NEW k, NEW k1, NEW out, NEW out1, NEW nt, NEW key, NEW a, LinkPace(k, out, nt, key, a),
         End(k1, out1) = End(k, out), k1.read = k.read, k1.nmeta = k.nmeta, k1.nlast = k.nlast,
         k1.from = k.from, k1.key = k.key
  PROVE  LinkPace(k1, out1, nt, key, a)
<1>1. Got(k1, out1) = Got(k, out)
  BY DEF Got
<1>2. \A m : Pending(k1, nt, m) <=> Pending(k, nt, m)
  BY DEF Pending
<1> QED
  BY <1>1, <1>2 DEF LinkPace

\* A tensor is yielded.
LEMMA YieldStep ==
  ASSUME NEW k, NEW bufs, NEW out, NEW nt, NEW key, NEW a,
         LinkHeld(k, bufs, out), LinkPace(k, out, nt, key, a), k.pc = "yield", k.n <= Len(k.meta)
  PROVE  /\ LinkHeld(Counted(k), bufs, WithTensor(k, bufs, out))
         /\ LinkPace(Counted(k), WithTensor(k, bufs, out), nt, key, a)
         /\ End(Counted(k), WithTensor(k, bufs, out)) = End(k, out) /\ Counted(k).b = k.b
<1>a. PICK k1, out1 :
        /\ k1 = Counted(k) /\ k1 = [k EXCEPT !.n = k.n + 1]
        /\ out1 = WithTensor(k, bufs, out) /\ out1 = Append(out, Tensor(bufs[k.b], k.meta[k.n]))
  BY DEF Counted, WithTensor
<1>0. /\ k \in Rank /\ bufs \in [Both -> Buffers] /\ out \in Seq(IntactWeights) /\ k.b \in Both
      /\ Len(k.meta) \in Nat /\ Len(out) \in Nat /\ k.n \in Nat
      /\ End(k, out) = Len(out) + Len(k.meta) + 1 - k.n /\ 1 <= k.n
  BY LinkFacts
<1>1. /\ k1 \in Rank /\ k1.pc = k.pc /\ k1.meta = k.meta /\ k1.last = k.last /\ k1.b = k.b /\ k1.n = k.n + 1
      /\ k1.read = k.read /\ k1.key = k.key /\ k1.nmeta = k.nmeta /\ k1.nlast = k.nlast /\ k1.from = k.from
  <2>1. k.n + 1 \in Nat
    BY <1>0
  <2> QED
    BY <1>a, <1>0, <2>1 DEF Rank
<1>2. PICK i \in 1 .. Len(k.meta) : i = k.n
  BY <1>0
<1>3. PICK m \in Entry : m = k.meta[i]
  BY <1>0, ElementType DEF Rank
<1>4. PICK x \in Nat, l \in Nat : x = Len(out) /\ l = Len(k.meta)
  BY <1>0
<1>5. End(k, out) = x + l + 1 - i /\ i \in Int
  BY <1>0, <1>2, <1>4
<1>6. m.name = x + 1 /\ Holds(bufs[k.b], m)
  <2>1. m.name = (End(k, out) - Len(k.meta)) + i /\ Holds(bufs[k.b], m)
    BY <1>3 DEF LinkHeld, Filled
  <2>2. ((x + l + 1 - i) - l) + i = x + 1
    BY <1>5
  <2> QED
    BY <1>4, <1>5, <2>1, <2>2
<1>7. Tensor(bufs[k.b], m) = Intact(m.name)
  <2>1. bufs[k.b] \in Buffers
    BY <1>0
  <2> QED
    BY <1>6, <2>1, TensorIntact
<1>8. out1 \in Seq(IntactWeights) /\ Len(out1) = Len(out) + 1 /\ InOrder(out1)
  <2>1. m.name \in Weights /\ InOrder(out)
    BY DEF Entry, LinkHeld
  <2>2. out1 = Append(out, Intact(m.name))
    BY <1>a, <1>2, <1>3, <1>7
  <2> QED
    BY <1>0, <1>4, <1>6, <2>1, <2>2, NextInOrder
<1>9. End(k1, out1) = End(k, out)
  <2>1. End(k1, out1) = (x + 1) + l + 1 - (i + 1)
    BY <1>1, <1>2, <1>4, <1>8 DEF End
  <2>2. (x + 1) + l + 1 - (i + 1) = x + l + 1 - i
    BY <1>5
  <2> QED
    BY <1>5, <2>1, <2>2
<1>10. k1.n \in 1 .. Len(k1.meta) + 1
  BY <1>0, <1>1
<1>11. LinkHeld(k1, bufs, out1)
  BY <1>1, <1>8, <1>9, <1>10 DEF LinkHeld
<1>12. LinkPace(k1, out1, nt, key, a)
  BY <1>1, <1>9, PaceSame
<1> QED
  BY <1>a, <1>1, <1>9, <1>11, <1>12

\* The tensors are all yielded, or the rank is done.
LEMMA MoveStep ==
  ASSUME NEW k, NEW bufs, NEW out, NEW nt, NEW key, NEW a,
         LinkHeld(k, bufs, out), LinkPace(k, out, nt, key, a),
         NEW pc, \/ k.pc = "yield" /\ k.n > Len(k.meta) /\ pc = "wait"
                 \/ k.pc = "wait" /\ k.last /\ pc = "done"
  PROVE  /\ LinkHeld(AtPc(k, pc), bufs, out) /\ LinkPace(AtPc(k, pc), out, nt, key, a)
         /\ End(AtPc(k, pc), out) = End(k, out) /\ AtPc(k, pc).b = k.b
<1>a. PICK k1 : k1 = AtPc(k, pc) /\ k1 = [k EXCEPT !.pc = pc]
  BY DEF AtPc
<1>0. k \in Rank /\ Len(k.meta) \in Nat /\ k.n \in Nat /\ k.n <= Len(k.meta) + 1
  BY LinkFacts
<1>1. /\ k1 \in Rank /\ k1.pc = pc /\ k1.meta = k.meta /\ k1.last = k.last /\ k1.b = k.b /\ k1.n = k.n
      /\ k1.read = k.read /\ k1.key = k.key /\ k1.nmeta = k.nmeta /\ k1.nlast = k.nlast /\ k1.from = k.from
  BY <1>a, <1>0 DEF Rank
<1>2. End(k1, out) = End(k, out)
  BY <1>1 DEF End
<1>3. k.pc = "yield" /\ k.n > Len(k.meta) => k.n = Len(k.meta) + 1
  BY <1>0
<1>4. LinkHeld(k1, bufs, out)
  <2>1. CASE k.pc = "yield" /\ k.n > Len(k.meta) /\ pc = "wait"
    BY <1>1, <1>2, <1>3, <2>1 DEF LinkHeld
  <2>2. CASE k.pc = "wait" /\ k.last /\ pc = "done"
    BY <1>1, <1>2, <2>2 DEF LinkHeld
  <2> QED
    BY <2>1, <2>2
<1>5. LinkPace(k1, out, nt, key, a)
  BY <1>1, <1>2, PaceSame
<1> QED
  BY <1>a, <1>1, <1>2, <1>4, <1>5

\* The next bucket takes the place of the one in hand.
LEMMA SwapLinkStep ==
  ASSUME NEW k, NEW bufs, NEW out, NEW nt, NEW key, NEW a,
         LinkHeld(k, bufs, out), LinkPace(k, out, nt, key, a),
         k.pc = "wait", ~ k.last, k.read = "done"
  PROVE  /\ LinkHeld(SwappedTo(k), bufs, out) /\ LinkPace(SwappedTo(k), out, nt, key, a)
         /\ End(SwappedTo(k), out) = End(k, out) + Len(k.nmeta) /\ SwappedTo(k).b = Other(k.b)
         /\ Filled(bufs[Other(k.b)], k.nmeta, End(k, out))
         /\ k.nlast => End(k, out) + Len(k.nmeta) = Total
         /\ k.key \in Nat /\ k.key # 0
<1>a. PICK k1 :
        /\ k1 = SwappedTo(k)
        /\ k1 = [k EXCEPT !.pc = IF k.nlast THEN "yield" ELSE "meta", !.meta = k.nmeta,
                          !.last = k.nlast, !.b = Other(k.b), !.n = 1, !.read = "none"]
  BY DEF SwappedTo
<1>0. /\ k \in Rank /\ bufs \in [Both -> Buffers] /\ out \in Seq(IntactWeights) /\ k.b \in Both
      /\ Len(k.meta) \in Nat /\ Len(out) \in Nat /\ Len(k.nmeta) \in Nat
      /\ End(k, out) = Len(out) + Len(k.meta) + 1 - k.n /\ End(k, out) \in Nat
  BY LinkFacts
<1>1. /\ k1 \in Rank /\ k1.pc = (IF k.nlast THEN "yield" ELSE "meta") /\ k1.meta = k.nmeta
      /\ k1.last = k.nlast /\ k1.b = Other(k.b) /\ k1.n = 1 /\ k1.read = "none"
      /\ k.key \in Nat
  <2>1. Other(k.b) \in Both
    BY <1>0, OtherType
  <2>2. k.nmeta \in Seq(Entry) /\ k.nlast \in BOOLEAN /\ k.key \in Nat /\ 1 \in Nat
    BY <1>0 DEF Rank
  <2>3. PICK pc \in {"yield", "meta"} : pc = (IF k.nlast THEN "yield" ELSE "meta")
    OBVIOUS
  <2>4. k1 = [k EXCEPT !.pc = pc, !.meta = k.nmeta, !.last = k.nlast, !.b = Other(k.b), !.n = 1, !.read = "none"]
    BY <1>a, <2>3
  <2>5. k1 \in Rank /\ k1.pc = pc /\ k1.meta = k.nmeta /\ k1.last = k.nlast /\ k1.b = Other(k.b)
        /\ k1.n = 1 /\ k1.read = "none"
    BY <1>0, <2>1, <2>2, <2>4 DEF Rank
  <2> QED
    BY <2>2, <2>3, <2>5
<1>2. k.n = Len(k.meta) + 1 /\ k.key # 0 /\ InOrder(out)
      /\ Filled(bufs[Other(k.b)], k.nmeta, End(k, out)) /\ (k.nlast => End(k, out) + Len(k.nmeta) = Total)
  BY DEF LinkHeld
<1>3. PICK x \in Nat, l \in Nat, l0 \in Nat : x = Len(out) /\ l = Len(k.nmeta) /\ l0 = Len(k.meta)
  BY <1>0
<1>4. End(k, out) = x
  <2>1. End(k, out) = x + l0 + 1 - (l0 + 1)
    BY <1>0, <1>2, <1>3
  <2>2. x + l0 + 1 - (l0 + 1) = x
    OBVIOUS
  <2> QED
    BY <2>1, <2>2
<1>5. End(k1, out) = x + l
  <2>1. End(k1, out) = x + l + 1 - 1
    BY <1>1, <1>3 DEF End
  <2>2. x + l + 1 - 1 = x + l
    OBVIOUS
  <2> QED
    BY <2>1, <2>2
<1>6. End(k1, out) - Len(k1.meta) = x /\ k1.n \in 1 .. Len(k1.meta) + 1
  <2>1. (x + l) - l = x /\ 1 \in 1 .. l + 1
    OBVIOUS
  <2> QED
    BY <1>1, <1>3, <1>5, <2>1
<1>7. LinkHeld(k1, bufs, out)
  <2>1. Filled(bufs[k1.b], k1.meta, End(k1, out) - Len(k1.meta)) /\ (k1.last => End(k1, out) = Total)
    BY <1>1, <1>2, <1>3, <1>4, <1>5, <1>6
  <2> QED
    BY <1>0, <1>1, <1>2, <1>6, <2>1 DEF LinkHeld
<1>8. Got(k1, out) = Got(k, out)
  <2>1. Got(k, out) = x + l /\ Got(k1, out) = (x + l) + 0
    BY <1>1, <1>3, <1>4, <1>5 DEF Got
  <2> QED
    BY <2>1
<1>9. \A m : Pending(k1, nt, m) <=> Pending(k, nt, m)
  BY <1>1 DEF Pending
<1>10. LinkPace(k1, out, nt, key, a)
  BY <1>1, <1>8, <1>9 DEF LinkPace
<1> QED
  BY <1>a, <1>1, <1>2, <1>3, <1>4, <1>5, <1>7, <1>10

\* A bucket is announced to a rank that has all before it.
LEMMA AnnounceStep ==
  ASSUME NEW k, NEW out, NEW nt, NEW a, LinkPace(k, out, nt, 0, a),
         NEW m \in Note, m.key # 0, NEW a1, Offered(m, a1), a1.upto = a.upto + Len(m.meta)
  PROVE  nt = <<>> /\ LinkPace(k, out, << m >>, m.key, a1)
<1>1. nt = <<>> /\ k.read # "begun" /\ Got(k, out) = a.upto
  BY DEF LinkPace
<1>2. Pending(k, << m >>, m)
  BY <1>1 DEF Pending
<1> QED
  BY <1>1, <1>2 DEF LinkPace

\* What rank r, with these parts, shows to the next one.
Shows(k, bufs, out) == [upto |-> End(k, out), shown |-> k.b, cells |-> bufs[k.b]]

\* Nothing is announced to the ranks other than r and the next one.
Elsewhere(r) ==
  \A q \in Chain : q # r /\ q # r + 1 => note'[q] = note[q] /\ open'[q - 1] = open[q - 1]

\* The rank after r, once r has these parts.
After(r, k, bufs, out) ==
  \A q \in Chain : q = r + 1 => LinkPace(link[q], handed[q], note'[q], open'[r], Shows(k, bufs, out))

OpenTable(f) == f = [r \in 0 .. ChainLen |-> f[r]]

LEMMA ChainFacts ==
  ASSUME NEW r \in Chain
  PROVE  /\ r \in Nat /\ r # 0 /\ r - 1 \in 0 .. ChainLen /\ r \in 0 .. ChainLen /\ r - 1 # r /\ r + 1 # r
         /\ r - 1 # 0 => r - 1 \in Chain
         /\ (r + 1) - 1 = r
BY ChainAssumption DEF Chain

LEMMA ChainAt ==
  ASSUME NEW f, ChainTable(f), NEW r \in Chain
  PROVE  f = Put(f, r, f[r])
<1>1. Put(f, r, f[r]) = [x \in Chain |-> f[x]]
  BY DEF ChainTable, Put
<1> QED
  BY <1>1 DEF ChainTable

LEMMA OpenAt ==
  ASSUME NEW f, OpenTable(f), NEW r \in 0 .. ChainLen
  PROVE  f = Put(f, r, f[r])
<1>1. Put(f, r, f[r]) = [x \in 0 .. ChainLen |-> f[x]]
  BY DEF OpenTable, Put
<1> QED
  BY <1>1 DEF OpenTable

\* A step of rank r concerns r and the next rank.
LEMMA ChainStep ==
  ASSUME NixlInv, NEW r \in Chain, NEW k, NEW bufs, NEW out, UNCHANGED <<snd, sbuf>>,
         link' = Put(link, r, k), lbuf' = Put(lbuf, r, bufs), handed' = Put(handed, r, out),
         ChainTable(note'), OpenTable(open'), Elsewhere(r), After(r, k, bufs, out),
         LinkHeld(k, bufs, out), LinkPace(k, out, note'[r], open'[r - 1], Above(r - 1))
  PROVE  NixlInv'
<1>1. SenderInv' /\ Base' = Base
  BY SenderKept DEF NixlInv
<1>2. ChainTable(link) /\ ChainTable(lbuf) /\ ChainTable(handed)
  BY DEF NixlInv
<1>3. ChainTable(link') /\ link'[r] = k /\ \A q \in Chain : q # r => link'[q] = link[q]
  BY <1>2 DEF ChainTable, Put
<1>4. ChainTable(lbuf') /\ lbuf'[r] = bufs /\ \A q \in Chain : q # r => lbuf'[q] = lbuf[q]
  BY <1>2 DEF ChainTable, Put
<1>5. ChainTable(handed') /\ handed'[r] = out /\ \A q \in Chain : q # r => handed'[q] = handed[q]
  BY <1>2 DEF ChainTable, Put
<1>6. ASSUME NEW q \in 0 .. ChainLen, q # r PROVE Above(q)' = Above(q)
  <2>1. CASE q = 0
    BY <1>1, <2>1 DEF Above
  <2>2. CASE q # 0
    <3>1. q \in Chain
      BY <2>2, ChainAssumption DEF Chain
    <3>2. link'[q] = link[q] /\ lbuf'[q] = lbuf[q] /\ handed'[q] = handed[q]
      BY <1>3, <1>4, <1>5, <1>6, <3>1
    <3> QED
      BY <2>2, <3>2 DEF Above
  <2> QED
    BY <2>1, <2>2
<1>7. Above(r)' = Shows(k, bufs, out)
  BY <1>3, <1>4, <1>5, ChainFacts DEF Above, Shows
<1>8. ASSUME NEW q \in Chain PROVE LinkInv(q)'
  <2>1. CASE q = r
    <3>1. Above(q - 1)' = Above(r - 1)
      BY <1>6, <2>1, ChainFacts
    <3> QED
      BY <1>3, <1>4, <1>5, <2>1, <3>1 DEF LinkInv
  <2>2. CASE q # r /\ q = r + 1
    <3>1. q - 1 = r
      BY <2>2, ChainFacts
    <3>2. LinkPace(link[q], handed[q], note'[q], open'[r], Shows(k, bufs, out))
      BY <2>2 DEF After
    <3>3. LinkPace(link'[q], handed'[q], note'[q], open'[q - 1], Above(q - 1)')
      BY <1>3, <1>5, <1>7, <2>2, <3>1, <3>2
    <3>4. LinkHeld(link'[q], lbuf'[q], handed'[q])
      BY <1>3, <1>4, <1>5, <2>2 DEF NixlInv, LinkInv
    <3> QED
      BY <3>3, <3>4 DEF LinkInv
  <2>3. CASE q # r /\ q # r + 1
    <3>1. q - 1 # r /\ q - 1 \in 0 .. ChainLen
      BY <2>3, ChainFacts
    <3>2. Above(q - 1)' = Above(q - 1)
      BY <1>6, <3>1
    <3>3. note'[q] = note[q] /\ open'[q - 1] = open[q - 1]
      BY <2>3 DEF Elsewhere
    <3>4. LinkInv(q)
      BY DEF NixlInv
    <3> QED
      BY <1>3, <1>4, <1>5, <2>3, <3>2, <3>3, <3>4 DEF LinkInv
  <2> QED
    BY <2>1, <2>2, <2>3
<1> QED
  BY <1>1, <1>3, <1>4, <1>5, <1>8 DEF NixlInv, OpenTable

\* A step after which rank r shows the same bucket.
LEMMA StayStep ==
  ASSUME NixlInv, NEW r \in Chain, NEW k, NEW bufs, NEW out, NEW nt, NEW key, UNCHANGED <<snd, sbuf>>,
         link' = Put(link, r, k), lbuf' = Put(lbuf, r, bufs), handed' = Put(handed, r, out),
         note' = Put(note, r, nt), open' = Put(open, r - 1, key),
         LinkHeld(k, bufs, out), LinkPace(k, out, nt, key, Above(r - 1)),
         Shows(k, bufs, out) = Above(r)
  PROVE  NixlInv'
<1>1. ChainTable(note) /\ OpenTable(open)
  BY DEF NixlInv, OpenTable
<1>2. r - 1 \in 0 .. ChainLen /\ r \in 0 .. ChainLen /\ r - 1 # r
  BY ChainFacts
<1>3. ChainTable(note') /\ note'[r] = nt /\ \A q \in Chain : q # r => note'[q] = note[q]
  BY <1>1 DEF ChainTable, Put
<1>4. OpenTable(open') /\ open'[r - 1] = key /\ \A q \in 0 .. ChainLen : q # r - 1 => open'[q] = open[q]
  BY <1>1, <1>2 DEF OpenTable, Put
<1>5. Elsewhere(r)
  <2> SUFFICES ASSUME NEW q \in Chain, q # r PROVE note'[q] = note[q] /\ open'[q - 1] = open[q - 1]
    BY DEF Elsewhere
  <2>1. q - 1 \in 0 .. ChainLen /\ q - 1 # r - 1
    BY ChainFacts
  <2> QED
    BY <1>3, <1>4, <2>1
<1>6. After(r, k, bufs, out)
  <2> SUFFICES ASSUME NEW q \in Chain, q = r + 1
               PROVE  LinkPace(link[q], handed[q], note'[q], open'[r], Shows(k, bufs, out))
    BY DEF After
  <2>1. q - 1 = r /\ q # r
    BY ChainFacts
  <2>2. LinkPace(link[q], handed[q], note[q], open[r], Above(r))
    BY <2>1 DEF NixlInv, LinkInv
  <2>3. note'[q] = note[q] /\ open'[r] = open[r]
    BY <1>2, <1>3, <1>4, <2>1
  <2> QED
    BY <2>2, <2>3
<1> QED
  BY <1>3, <1>4, <1>5, <1>6, ChainStep

\* The state of a rank, with names for its parts.
LEMMA LinkAt ==
  ASSUME NixlInv, NEW r \in Chain
  PROVE  \E k, bufs, out, nt, key, a :
           /\ k = link[r] /\ bufs = lbuf[r] /\ out = handed[r] /\ nt = note[r] /\ key = open[r - 1]
           /\ a = Above(r - 1) /\ LinkHeld(k, bufs, out) /\ LinkPace(k, out, nt, key, a)
           /\ link = Put(link, r, k) /\ lbuf = Put(lbuf, r, bufs) /\ handed = Put(handed, r, out)
           /\ note = Put(note, r, nt) /\ open = Put(open, r - 1, key)
           /\ Above(r) = Shows(k, bufs, out)
<1>1. /\ LinkHeld(link[r], lbuf[r], handed[r])
      /\ LinkPace(link[r], handed[r], note[r], open[r - 1], Above(r - 1))
  BY DEF NixlInv, LinkInv
<1>2. ChainTable(link) /\ ChainTable(lbuf) /\ ChainTable(handed) /\ ChainTable(note) /\ OpenTable(open)
  BY DEF NixlInv, OpenTable
<1>3. /\ link = Put(link, r, link[r]) /\ lbuf = Put(lbuf, r, lbuf[r])
      /\ handed = Put(handed, r, handed[r]) /\ note = Put(note, r, note[r])
  BY <1>2, ChainAt
<1>4. open = Put(open, r - 1, open[r - 1])
  BY <1>2, ChainFacts, OpenAt
<1>5. Above(r) = Shows(link[r], lbuf[r], handed[r])
  BY ChainFacts DEF Above, Shows
<1> QED
  BY <1>1, <1>3, <1>4, <1>5

LEMMA BeginReadKeeps ==
  ASSUME NixlInv, NEW r \in Chain, BeginRead(r)
  PROVE  NixlInv'
<1>1. PICK k, bufs, out, nt, key, a :
           /\ k = link[r] /\ bufs = lbuf[r] /\ out = handed[r] /\ nt = note[r] /\ key = open[r - 1]
           /\ a = Above(r - 1) /\ LinkHeld(k, bufs, out) /\ LinkPace(k, out, nt, key, a)
           /\ link = Put(link, r, k) /\ lbuf = Put(lbuf, r, bufs) /\ handed = Put(handed, r, out)
           /\ note = Put(note, r, nt) /\ open = Put(open, r - 1, key)
           /\ Above(r) = Shows(k, bufs, out)
  BY LinkAt
<1>2. k.pc \in {"first", "meta"} /\ nt # <<>> /\ UNCHANGED <<snd, sbuf, open, lbuf, handed>>
  BY <1>1 DEF BeginRead
<1>3. key # 0 /\ k.read = "none"
  BY <1>1, <1>2 DEF LinkPace, LinkHeld
<1>4. PICK m \in Note : nt = << m >>
  BY <1>1, <1>3 DEF LinkPace, Pending
<1>5. Head(nt) = m /\ Tail(nt) = <<>>
  BY <1>4
<1>6. link' = Put(link, r, Begun(k, m)) /\ note' = Put(note, r, <<>>)
  <2>1. k = link[r] /\ Head(note[r]) = m /\ Tail(note[r]) = <<>>
    BY <1>1, <1>5
  <2>2. link' = [link EXCEPT ![r] = Begun(k, m)]
    BY <2>1 DEF BeginRead, Begun
  <2>3. note' = [note EXCEPT ![r] = <<>>]
    BY <2>1 DEF BeginRead
  <2> QED
    BY <2>2, <2>3 DEF Put
<1>7. PICK k1 : k1 = Begun(k, m)
  OBVIOUS
<1>8. LinkHeld(k1, bufs, out) /\ LinkPace(k1, out, <<>>, key, a)
  BY <1>1, <1>2, <1>3, <1>4, <1>7, BeginStep
<1>9. Shows(k1, bufs, out) = Shows(k, bufs, out)
  <2>1. k1.meta = k.meta /\ k1.n = k.n /\ k1.b = k.b
    BY <1>1, <1>7, LinkFacts DEF Begun, Rank
  <2> QED
    BY <2>1 DEF Shows, End
<1> QED
  BY <1>1, <1>2, <1>6, <1>7, <1>8, <1>9, StayStep

LEMMA TransferEndsKeeps ==
  ASSUME NixlInv, NEW r \in Chain, TransferEnds(r)
  PROVE  NixlInv'
<1>1. PICK k, bufs, out, nt, key, a :
           /\ k = link[r] /\ bufs = lbuf[r] /\ out = handed[r] /\ nt = note[r] /\ key = open[r - 1]
           /\ a = Above(r - 1) /\ LinkHeld(k, bufs, out) /\ LinkPace(k, out, nt, key, a)
           /\ link = Put(link, r, k) /\ lbuf = Put(lbuf, r, bufs) /\ handed = Put(handed, r, out)
           /\ note = Put(note, r, nt) /\ open = Put(open, r - 1, key)
           /\ Above(r) = Shows(k, bufs, out)
  BY LinkAt
<1>2. k.read = "begun" /\ UNCHANGED <<snd, sbuf, note, handed>>
  BY <1>1 DEF TransferEnds
<1>3. key = k.key /\ k.from = a.shown
  BY <1>1, <1>2, Reading
<1>4. a.cells \in Buffers /\ Buffer(r - 1, k.from) = a.cells
  <2>1. CASE r - 1 = 0
    <3>1. a.cells = sbuf[Other(snd.b)] /\ a.shown = Other(snd.b)
      BY <1>1, <2>1 DEF Above
    <3>2. sbuf[Other(snd.b)] \in Buffers
      BY SenderFacts DEF NixlInv, SenderInv
    <3> QED
      BY <1>3, <2>1, <3>1, <3>2 DEF Buffer
  <2>2. CASE r - 1 # 0
    <3>1. PICK q \in Chain : q = r - 1 /\ q # 0
      BY <2>2, ChainFacts
    <3>2. a.cells = lbuf[q][link[q].b] /\ a.shown = link[q].b
      BY <1>1, <3>1 DEF Above
    <3>3. LinkHeld(link[q], lbuf[q], handed[q])
      BY DEF NixlInv, LinkInv
    <3>4. lbuf[q][link[q].b] \in Buffers
      BY <3>3, LinkFacts
    <3> QED
      BY <1>3, <3>1, <3>2, <3>4 DEF Buffer
  <2> QED
    BY <2>1, <2>2
<1>5. PICK k1, bufs1 : k1 = Transferred(k) /\ bufs1 = Put(bufs, Other(k.b), a.cells)
  OBVIOUS
<1>6. link' = Put(link, r, k1) /\ lbuf' = Put(lbuf, r, bufs1) /\ open' = Put(open, r - 1, 0)
  BY <1>1, <1>3, <1>4, <1>5 DEF TransferEnds, Put, Transferred
<1>7. LinkHeld(k1, bufs1, out) /\ LinkPace(k1, out, nt, 0, a)
  BY <1>1, <1>2, <1>4, <1>5, TransferStep
<1>8. Shows(k1, bufs1, out) = Shows(k, bufs, out)
  <2>1. k \in Rank /\ bufs \in [Both -> Buffers] /\ k.b \in Both
    BY <1>1, LinkFacts
  <2>2. k1.meta = k.meta /\ k1.n = k.n /\ k1.b = k.b
    BY <1>5, <2>1 DEF Transferred, Rank
  <2>3. bufs1[k.b] = bufs[k.b]
    BY <1>5, <2>1, OtherType DEF Put
  <2> QED
    BY <2>2, <2>3 DEF Shows, End
<1> QED
  BY <1>1, <1>2, <1>6, <1>7, <1>8, StayStep

LEMMA YieldKeeps ==
  ASSUME NixlInv, NEW r \in Chain, Yield(r)
  PROVE  NixlInv'
<1>1. PICK k, bufs, out, nt, key, a :
           /\ k = link[r] /\ bufs = lbuf[r] /\ out = handed[r] /\ nt = note[r] /\ key = open[r - 1]
           /\ a = Above(r - 1) /\ LinkHeld(k, bufs, out) /\ LinkPace(k, out, nt, key, a)
           /\ link = Put(link, r, k) /\ lbuf = Put(lbuf, r, bufs) /\ handed = Put(handed, r, out)
           /\ note = Put(note, r, nt) /\ open = Put(open, r - 1, key)
           /\ Above(r) = Shows(k, bufs, out)
  BY LinkAt
<1>2. /\ k.pc = "yield" /\ k.n <= Len(k.meta) /\ UNCHANGED <<snd, sbuf, note, open, lbuf>>
      /\ link' = Put(link, r, Counted(k)) /\ handed' = Put(handed, r, WithTensor(k, bufs, out))
  BY <1>1 DEF Yield, Put, Counted, WithTensor
<1>3. PICK k1, out1 : k1 = Counted(k) /\ out1 = WithTensor(k, bufs, out)
  OBVIOUS
<1>4. /\ LinkHeld(k1, bufs, out1) /\ LinkPace(k1, out1, nt, key, a)
      /\ End(k1, out1) = End(k, out) /\ k1.b = k.b
  BY <1>1, <1>2, <1>3, YieldStep
<1>5. Shows(k1, bufs, out1) = Shows(k, bufs, out)
  BY <1>4 DEF Shows
<1> QED
  BY <1>1, <1>2, <1>3, <1>4, <1>5, StayStep

LEMMA MoveKeeps ==
  ASSUME NixlInv, NEW r \in Chain, Yielded(r) \/ EndLink(r)
  PROVE  NixlInv'
<1>1. PICK k, bufs, out, nt, key, a :
           /\ k = link[r] /\ bufs = lbuf[r] /\ out = handed[r] /\ nt = note[r] /\ key = open[r - 1]
           /\ a = Above(r - 1) /\ LinkHeld(k, bufs, out) /\ LinkPace(k, out, nt, key, a)
           /\ link = Put(link, r, k) /\ lbuf = Put(lbuf, r, bufs) /\ handed = Put(handed, r, out)
           /\ note = Put(note, r, nt) /\ open = Put(open, r - 1, key)
           /\ Above(r) = Shows(k, bufs, out)
  BY LinkAt
<1>2. PICK pc :
        /\ \/ k.pc = "yield" /\ k.n > Len(k.meta) /\ pc = "wait"
           \/ k.pc = "wait" /\ k.last /\ pc = "done"
        /\ link' = Put(link, r, AtPc(k, pc)) /\ UNCHANGED <<snd, sbuf, note, open, lbuf, handed>>
  <2>1. k = link[r]
    BY <1>1
  <2>2. CASE Yielded(r)
    <3>1. link' = [link EXCEPT ![r] = AtPc(k, "wait")]
      BY <2>1, <2>2 DEF Yielded, AtPc
    <3> QED
      BY <2>1, <2>2, <3>1 DEF Yielded, Put
  <2>3. CASE EndLink(r)
    <3>1. link' = [link EXCEPT ![r] = AtPc(k, "done")]
      BY <2>1, <2>3 DEF EndLink, AtPc
    <3> QED
      BY <2>1, <2>3, <3>1 DEF EndLink, Put
  <2> QED
    BY <2>2, <2>3
<1>3. PICK k1 : k1 = AtPc(k, pc)
  OBVIOUS
<1>4. /\ LinkHeld(k1, bufs, out) /\ LinkPace(k1, out, nt, key, a)
      /\ End(k1, out) = End(k, out) /\ k1.b = k.b
  BY <1>1, <1>2, <1>3, MoveStep
<1>5. Shows(k1, bufs, out) = Shows(k, bufs, out)
  BY <1>4 DEF Shows
<1> QED
  BY <1>1, <1>2, <1>3, <1>4, <1>5, StayStep

\* The swapped bucket is announced to the next rank, which has all before it.
LEMMA SwapLinkKeeps ==
  ASSUME NixlInv, NEW r \in Chain, SwapLink(r)
  PROVE  NixlInv'
<1>1. PICK k, bufs, out, nt, key, a :
           /\ k = link[r] /\ bufs = lbuf[r] /\ out = handed[r] /\ nt = note[r] /\ key = open[r - 1]
           /\ a = Above(r - 1) /\ LinkHeld(k, bufs, out) /\ LinkPace(k, out, nt, key, a)
           /\ link = Put(link, r, k) /\ lbuf = Put(lbuf, r, bufs) /\ handed = Put(handed, r, out)
           /\ note = Put(note, r, nt) /\ open = Put(open, r - 1, key)
           /\ Above(r) = Shows(k, bufs, out)
  BY LinkAt
<1>2. /\ k.pc = "wait" /\ ~ k.last /\ k.read = "done" /\ open[r] = 0 /\ UNCHANGED <<snd, sbuf, lbuf, handed>>
      /\ link' = Put(link, r, SwappedTo(k))
  <2>1. k = link[r]
    BY <1>1
  <2>2. link' = [link EXCEPT ![r] = SwappedTo(k)]
    BY <2>1 DEF SwapLink, SwappedTo
  <2>3. k.pc = "wait" /\ ~ k.last /\ k.read = "done" /\ open[r] = 0 /\ UNCHANGED <<snd, sbuf, lbuf, handed>>
    BY <2>1 DEF SwapLink, ReadByNext
  <2> QED
    BY <2>2, <2>3 DEF Put
<1>3. PICK k1 : k1 = SwappedTo(k)
  OBVIOUS
<1>4. /\ LinkHeld(k1, bufs, out) /\ LinkPace(k1, out, nt, key, a)
      /\ End(k1, out) = End(k, out) + Len(k.nmeta) /\ k1.b = Other(k.b)
      /\ Filled(bufs[Other(k.b)], k.nmeta, End(k, out))
      /\ k.nlast => End(k, out) + Len(k.nmeta) = Total
      /\ k.key \in Nat /\ k.key # 0
  BY <1>1, <1>2, <1>3, SwapLinkStep
<1>5. ChainTable(note) /\ OpenTable(open) /\ r \in 0 .. ChainLen /\ r - 1 \in 0 .. ChainLen /\ r - 1 # r /\ r \in Nat
  BY ChainFacts DEF NixlInv, OpenTable
<1>6. CASE r = ChainLen
  <2>1. UNCHANGED <<note, open>>
    BY <1>6 DEF SwapLink, Announce
  <2>2. After(r, k1, bufs, out)
    <3>1. \A q \in Chain : q # r + 1
      BY <1>6, ChainAssumption DEF Chain
    <3> QED
      BY <3>1 DEF After
  <2>3. Elsewhere(r)
    BY <2>1 DEF Elsewhere
  <2>4. ChainTable(note') /\ OpenTable(open') /\ note'[r] = nt /\ open'[r - 1] = key
    BY <1>1, <1>5, <2>1
  <2> QED
    BY <1>1, <1>2, <1>3, <1>4, <2>2, <2>3, <2>4, ChainStep
<1>7. CASE r # ChainLen
  <2>1. PICK m : m = NoteOf(k.nmeta, k.nlast, Other(k.b), k.key)
    OBVIOUS
  <2>2. /\ m \in Note /\ m.key = k.key /\ m.meta = k.nmeta /\ m.last = k.nlast /\ m.b = Other(k.b)
        /\ Len(k.nmeta) \in Nat /\ End(k, out) \in Nat
    <3>1. k \in Rank /\ k.b \in Both /\ Len(k.nmeta) \in Nat /\ End(k, out) \in Nat
      BY <1>1, LinkFacts
    <3>2. k.nmeta \in Seq(Entry) /\ k.nlast \in BOOLEAN /\ k.key \in Nat /\ Other(k.b) \in Both
      BY <3>1, OtherType DEF Rank
    <3> QED
      BY <2>1, <3>1, <3>2 DEF Note, NoteOf
  <2>3. r + 1 \in Chain
    BY <1>7, ChainAssumption DEF Chain
  <2>4. note' = [note EXCEPT ![r + 1] = Append(note[r + 1], m)] /\ open' = [open EXCEPT ![r] = k.key]
    BY <1>1, <1>7, <2>1 DEF SwapLink, Announce, NoteOf
  <2>5. /\ ChainTable(note') /\ note'[r + 1] = Append(note[r + 1], m)
        /\ \A q \in Chain : q # r + 1 => note'[q] = note[q]
    BY <1>5, <2>3, <2>4 DEF ChainTable
  <2>6. OpenTable(open') /\ open'[r] = k.key /\ \A q \in 0 .. ChainLen : q # r => open'[q] = open[q]
    BY <1>5, <2>4 DEF OpenTable
  <2>7. PICK a1 : a1 = Shows(k1, bufs, out)
    OBVIOUS
  <2>8. /\ a1.upto = End(k, out) + Len(k.nmeta) /\ a1.shown = Other(k.b) /\ a1.cells = bufs[Other(k.b)]
        /\ a1.upto - Len(k.nmeta) = End(k, out)
    <3>1. a1.upto = End(k, out) + Len(k.nmeta) /\ a1.shown = Other(k.b) /\ a1.cells = bufs[Other(k.b)]
      BY <1>4, <2>7 DEF Shows
    <3>2. PICK x \in Nat, l \in Nat : x = End(k, out) /\ l = Len(k.nmeta)
      BY <2>2
    <3>3. (x + l) - l = x
      OBVIOUS
    <3> QED
      BY <3>1, <3>2, <3>3
  <2>9. Offered(m, a1)
    BY <1>4, <2>2, <2>8 DEF Offered
  <2>10. PICK k2, out2, nt2 : k2 = link[r + 1] /\ out2 = handed[r + 1] /\ nt2 = note[r + 1]
    OBVIOUS
  <2>11. LinkPace(k2, out2, nt2, 0, Above(r))
    BY <1>2, <2>3, <2>10, ChainFacts DEF NixlInv, LinkInv
  <2>12. Above(r).upto = End(k, out)
    BY <1>1 DEF Shows
  <2>13. nt2 = <<>> /\ LinkPace(k2, out2, << m >>, m.key, a1)
    BY <1>4, <2>2, <2>8, <2>9, <2>11, <2>12, AnnounceStep
  <2>14. note'[r + 1] = << m >>
    BY <2>5, <2>10, <2>13
  <2>15. After(r, k1, bufs, out)
    BY <2>2, <2>6, <2>7, <2>10, <2>13, <2>14 DEF After
  <2>16. Elsewhere(r)
    <3> SUFFICES ASSUME NEW q \in Chain, q # r, q # r + 1 PROVE note'[q] = note[q] /\ open'[q - 1] = open[q - 1]
      BY DEF Elsewhere
    <3>1. q - 1 \in 0 .. ChainLen /\ q - 1 # r
      BY <1>5, ChainFacts
    <3> QED
      BY <2>5, <2>6, <3>1
  <2>17. note'[r] = nt /\ open'[r - 1] = key
    BY <1>1, <1>5, <2>5, <2>6, ChainFacts
  <2> QED
    BY <1>1, <1>2, <1>3, <1>4, <2>5, <2>6, <2>15, <2>16, <2>17, ChainStep
<1> QED
  BY <1>6, <1>7

\* A step of the sender concerns the first rank only.
LEMMA RankZeroStep ==
  ASSUME NixlInv, SenderInv', UNCHANGED <<link, lbuf, handed>>, ChainTable(note'), OpenTable(open'),
         Elsewhere(0), LinkPace(link[1], handed[1], note'[1], open'[0], Above(0)')
  PROVE  NixlInv'
<1>1. ASSUME NEW q \in Chain PROVE LinkInv(q)'
  <2>1. LinkHeld(link'[q], lbuf'[q], handed'[q])
    BY DEF NixlInv, LinkInv
  <2>2. CASE q = 1
    <3>1. q - 1 = 0
      BY <2>2
    <3>2. LinkPace(link'[q], handed'[q], note'[q], open'[q - 1], Above(q - 1)')
      BY <2>2, <3>1
    <3> QED
      BY <2>1, <3>2 DEF LinkInv
  <2>3. CASE q # 1
    <3>1. q # 0 /\ q # 0 + 1 /\ q - 1 # 0
      <4>1. q \in Nat /\ q # 0
        BY ChainFacts
      <4> QED
        BY <2>3, <4>1
    <3>2. note'[q] = note[q] /\ open'[q - 1] = open[q - 1]
      BY <3>1 DEF Elsewhere
    <3>3. Above(q - 1)' = Above(q - 1)
      BY <3>1 DEF Above
    <3>4. LinkPace(link[q], handed[q], note[q], open[q - 1], Above(q - 1))
      BY DEF NixlInv, LinkInv
    <3>5. LinkPace(link'[q], handed'[q], note'[q], open'[q - 1], Above(q - 1)')
      BY <3>2, <3>3, <3>4
    <3> QED
      BY <2>1, <3>5 DEF LinkInv
  <2> QED
    BY <2>2, <2>3
<1> QED
  BY <1>1 DEF NixlInv, OpenTable

LEMMA FirstRank ==
  ASSUME NixlInv
  PROVE  /\ 1 \in Chain /\ 0 \in 0 .. ChainLen /\ ChainTable(note) /\ OpenTable(open)
         /\ LinkPace(link[1], handed[1], note[1], open[0], Above(0))
<1>1. 1 \in Chain /\ 0 \in 0 .. ChainLen /\ 1 - 1 = 0
  BY ChainAssumption DEF Chain
<1> QED
  BY <1>1 DEF NixlInv, LinkInv, OpenTable

LEMMA NixlPackKeeps == ASSUME NixlInv, NixlPack \/ NixlSendDone PROVE NixlInv'
<1>1. UNCHANGED <<note, open, link, lbuf, handed>> /\ SenderInv
  BY DEF NixlInv, NixlPack, NixlSendDone
<1>2. SenderInv' /\ Base' = Base /\ snd'.b = snd.b /\ sbuf'[Other(snd.b)] = sbuf[Other(snd.b)]
  <2>1. CASE PackWeight
    BY <1>1, <2>1, Packing
  <2>2. CASE HandedOver
    BY <1>1, <2>2, Handed
  <2> QED
    BY <2>1, <2>2 DEF NixlPack, NixlSendDone
<1>3. Above(0)' = Above(0)
  BY <1>2 DEF Above
<1>4. Elsewhere(0)
  BY <1>1 DEF Elsewhere
<1>5. ChainTable(note') /\ OpenTable(open')
  BY <1>1, FirstRank
<1>6. LinkPace(link[1], handed[1], note'[1], open'[0], Above(0)')
  BY <1>1, <1>3, FirstRank
<1> QED
  BY <1>1, <1>2, <1>4, <1>5, <1>6, RankZeroStep

LEMMA NixlFlushKeeps == ASSUME NixlInv, NixlFlush PROVE NixlInv'
<1>1. /\ SenderInv /\ SenderType /\ HandOver /\ open[0] = 0 /\ UNCHANGED <<link, lbuf, handed>>
      /\ Announce(0, snd.meta, IsLast, snd.b, snd.w)
  BY DEF NixlInv, SenderInv, NixlFlush, ReadByNext
<1>2. /\ SenderInv' /\ Base' = Base + Len(snd.meta) /\ snd'.b = Other(snd.b) /\ sbuf' = sbuf
      /\ (IsLast => Base' = Total)
  BY <1>1, Handing
<1>3. /\ Base \in Nat /\ Len(snd.meta) \in Nat /\ snd.meta \in Seq(Entry) /\ snd.b \in Both
      /\ snd.w \in Nat /\ snd.w # 0 /\ Filled(sbuf[snd.b], snd.meta, Base)
  BY <1>1, SenderFacts DEF SenderInv, Stacked
<1>4. PICK m : m = NoteOf(snd.meta, IsLast, snd.b, snd.w)
  OBVIOUS
<1>5. m \in Note /\ m.meta = snd.meta /\ (m.last <=> IsLast) /\ m.b = snd.b /\ m.key = snd.w
  <2>1. IsLast \in BOOLEAN
    BY DEF IsLast
  <2> QED
    BY <1>3, <1>4, <2>1 DEF Note, NoteOf
<1>6. 0 # ChainLen /\ 0 + 1 = 1
  BY ChainAssumption
<1>7. note' = [note EXCEPT ![1] = Append(note[1], m)] /\ open' = [open EXCEPT ![0] = snd.w]
  BY <1>1, <1>4, <1>6 DEF Announce, NoteOf
<1>8. /\ ChainTable(note') /\ note'[1] = Append(note[1], m)
      /\ \A q \in Chain : q # 1 => note'[q] = note[q]
  BY <1>7, FirstRank DEF ChainTable
<1>9. OpenTable(open') /\ open'[0] = snd.w /\ \A q \in 0 .. ChainLen : q # 0 => open'[q] = open[q]
  BY <1>7, FirstRank DEF OpenTable
<1>10. PICK a, a1 : a = Above(0) /\ a1 = Above(0)'
  OBVIOUS
<1>11. /\ a.upto = Base /\ a1.upto = Base + Len(snd.meta) /\ a1.shown = snd.b /\ a1.cells = sbuf[snd.b]
       /\ a1.upto - Len(snd.meta) = Base
  <2>1. Other(snd'.b) = snd.b
    BY <1>2, <1>3, OtherType
  <2>2. a.upto = Base /\ a1.upto = Base + Len(snd.meta) /\ a1.shown = snd.b /\ a1.cells = sbuf[snd.b]
    BY <1>2, <1>10, <2>1 DEF Above
  <2>3. PICK x \in Nat, l \in Nat : x = Base /\ l = Len(snd.meta)
    BY <1>3
  <2>4. (x + l) - l = x
    OBVIOUS
  <2> QED
    BY <2>2, <2>3, <2>4
<1>12. Offered(m, a1)
  BY <1>2, <1>3, <1>5, <1>11 DEF Offered
<1>13. PICK k, out, nt : k = link[1] /\ out = handed[1] /\ nt = note[1]
  OBVIOUS
<1>14. LinkPace(k, out, nt, 0, a)
  BY <1>1, <1>10, <1>13, FirstRank
<1>15. nt = <<>> /\ LinkPace(k, out, << m >>, m.key, a1)
  BY <1>3, <1>5, <1>11, <1>12, <1>14, AnnounceStep
<1>16. note'[1] = << m >>
  BY <1>8, <1>13, <1>15
<1>17. LinkPace(link[1], handed[1], note'[1], open'[0], Above(0)')
  BY <1>5, <1>9, <1>10, <1>13, <1>15, <1>16
<1>18. Elsewhere(0)
  <2> SUFFICES ASSUME NEW q \in Chain, q # 0, q # 0 + 1 PROVE note'[q] = note[q] /\ open'[q - 1] = open[q - 1]
    BY DEF Elsewhere
  <2>1. q # 1 /\ q - 1 \in 0 .. ChainLen /\ q - 1 # 0
    BY ChainFacts
  <2> QED
    BY <1>8, <1>9, <2>1
<1> QED
  BY <1>1, <1>2, <1>8, <1>9, <1>17, <1>18, RankZeroStep

LEMMA NixlStarts == NixlInit => NixlInv
<1> SUFFICES ASSUME NixlInit PROVE NixlInv
  OBVIOUS
<1>1. SenderInv /\ Base = 0
  BY SenderStarts DEF NixlInit
<1>2. PICK k, bufs :
        /\ k = [pc |-> "first", meta |-> <<>>, last |-> FALSE, b |-> 1, n |-> 1,
                read |-> "none", from |-> 1, key |-> 0, nmeta |-> <<>>, nlast |-> FALSE]
        /\ bufs = <<Blank, Blank>>
  OBVIOUS
<1>3. /\ note = [r \in Chain |-> <<>>] /\ open = [r \in 0 .. ChainLen |-> 0]
      /\ link = [r \in Chain |-> k] /\ lbuf = [r \in Chain |-> bufs] /\ handed = [r \in Chain |-> <<>>]
  BY <1>2 DEF NixlInit
<1>4. /\ k \in Rank /\ k.pc = "first" /\ k.meta = <<>> /\ ~ k.last /\ k.n = 1 /\ k.read = "none" /\ k.b = 1
  <2>1. <<>> \in Seq(Entry) /\ 1 \in Both
    BY DEF Both
  <2> QED
    BY <1>2, <2>1 DEF Rank
<1>5. bufs \in [Both -> Buffers]
  BY <1>2, BlankType DEF Both
<1>6. Len(k.meta) = 0 /\ End(k, <<>>) = 0
  BY <1>4 DEF End
<1>7. LinkHeld(k, bufs, <<>>)
  <2>1. <<>> \in Seq(IntactWeights) /\ InOrder(<<>>) /\ k.n \in 1 .. Len(k.meta) + 1 /\ k.n = Len(k.meta) + 1
    BY <1>4, <1>6 DEF InOrder
  <2>2. Filled(bufs[k.b], k.meta, End(k, <<>>) - Len(k.meta))
    BY <1>6 DEF Filled
  <2> QED
    BY <1>4, <1>5, <2>1, <2>2 DEF LinkHeld
<1>8. ASSUME NEW r \in Chain PROVE LinkInv(r)
  <2>1. open[r - 1] = 0
    BY <1>3, ChainFacts
  <2>2. Above(r - 1).upto = 0
    <3>1. CASE r - 1 = 0
      BY <1>1, <3>1 DEF Above
    <3>2. CASE r - 1 # 0
      BY <1>3, <1>6, <3>2, ChainFacts DEF Above
    <3> QED
      BY <3>1, <3>2
  <2>3. Got(k, <<>>) = 0
    BY <1>4, <1>6 DEF Got
  <2>4. LinkPace(k, <<>>, <<>>, 0, Above(r - 1))
    BY <1>4, <2>2, <2>3 DEF LinkPace
  <2> QED
    BY <1>3, <1>7, <2>1, <2>4 DEF LinkInv
<1>9. ChainTable(link) /\ ChainTable(lbuf) /\ ChainTable(handed) /\ ChainTable(note) /\ OpenTable(open)
  BY <1>3 DEF ChainTable, OpenTable
<1> QED
  BY <1>1, <1>8, <1>9 DEF NixlInv, OpenTable

LEMMA NixlKept == NixlInv /\ [NixlNext]_nixlVars => NixlInv'
<1> SUFFICES ASSUME NixlInv, [NixlNext]_nixlVars PROVE NixlInv'
  OBVIOUS
<1>1. CASE NixlPack \/ NixlSendDone
  BY <1>1, NixlPackKeeps
<1>2. CASE NixlFlush
  BY <1>2, NixlFlushKeeps
<1>3. ASSUME NEW r \in Chain, BeginRead(r) PROVE NixlInv'
  BY <1>3, BeginReadKeeps
<1>4. ASSUME NEW r \in Chain, TransferEnds(r) PROVE NixlInv'
  BY <1>4, TransferEndsKeeps
<1>5. ASSUME NEW r \in Chain, Yield(r) PROVE NixlInv'
  BY <1>5, YieldKeeps
<1>6. ASSUME NEW r \in Chain, Yielded(r) \/ EndLink(r) PROVE NixlInv'
  BY <1>6, MoveKeeps
<1>7. ASSUME NEW r \in Chain, SwapLink(r) PROVE NixlInv'
  BY <1>7, SwapLinkKeeps
<1>8. CASE UNCHANGED nixlVars
  <2>1. UNCHANGED <<snd, sbuf, note, open, link, lbuf, handed>>
    BY <1>8 DEF nixlVars
  <2>2. SenderInv' /\ Base' = Base
    BY <2>1, SenderKept DEF NixlInv
  <2>3. Above(0)' = Above(0)
    BY <2>1, <2>2 DEF Above
  <2>4. Elsewhere(0)
    BY <2>1 DEF Elsewhere
  <2>5. ChainTable(note') /\ OpenTable(open')
    BY <2>1, FirstRank
  <2>6. LinkPace(link[1], handed[1], note'[1], open'[0], Above(0)')
    BY <2>1, <2>3, FirstRank
  <2> QED
    BY <2>1, <2>2, <2>4, <2>5, <2>6, RankZeroStep
<1> QED
  BY <1>1, <1>2, <1>3, <1>4, <1>5, <1>6, <1>7, <1>8 DEF NixlNext

LEMMA NixlInvDelivers == NixlInv => NixlDelivers
<1> SUFFICES ASSUME NixlInv, NEW r \in Chain
             PROVE  /\ Len(note[r]) + (IF link[r].read = "begun" THEN 1 ELSE 0) <= 1
                    /\ link[r].read = "begun" => open[r - 1] = link[r].key
                    /\ \A i \in 1 .. Len(note[r]) : open[r - 1] = note[r][i].key
                    /\ InOrder(handed[r])
                    /\ link[r].pc = "done" => Len(handed[r]) = Len(WeightSize)
  BY DEF NixlDelivers, KeysMatch, HandedInOrder
<1>1. PICK k, bufs, out, nt, key, a :
           /\ k = link[r] /\ bufs = lbuf[r] /\ out = handed[r] /\ nt = note[r] /\ key = open[r - 1]
           /\ a = Above(r - 1) /\ LinkHeld(k, bufs, out) /\ LinkPace(k, out, nt, key, a)
  BY LinkAt
<1>2. k.read = "begun" => key = k.key /\ nt = <<>>
  BY <1>1, Reading
<1>3. nt = <<>> \/ \E m \in Note : m.key = key /\ nt = << m >> /\ k.read # "begun"
  BY <1>1 DEF LinkPace, Pending
<1>4. /\ Len(nt) + (IF k.read = "begun" THEN 1 ELSE 0) <= 1
      /\ \A i \in 1 .. Len(nt) : key = nt[i].key
  <2>1. CASE nt = <<>>
    <3>1. Len(nt) = 0
      BY <2>1
    <3> QED
      BY <3>1
  <2>2. ASSUME NEW m \in Note, m.key = key, nt = << m >>, k.read # "begun"
        PROVE  /\ Len(nt) + (IF k.read = "begun" THEN 1 ELSE 0) <= 1
               /\ \A i \in 1 .. Len(nt) : key = nt[i].key
    <3>1. Len(nt) = 1 /\ nt[1] = m
      BY <2>2
    <3>2. Len(nt) + (IF k.read = "begun" THEN 1 ELSE 0) <= 1
      BY <2>2, <3>1
    <3>3. \A i \in 1 .. 1 : i = 1
      OBVIOUS
    <3> QED
      BY <2>2, <3>1, <3>2, <3>3
  <2> QED
    BY <1>3, <2>1, <2>2
<1>5. ASSUME k.pc = "done" PROVE Len(out) = Total
  <2>1. End(k, out) = Total /\ k.n = Len(k.meta) + 1
    BY <1>1, <1>5 DEF LinkHeld
  <2>2. /\ End(k, out) = Len(out) + Len(k.meta) + 1 - k.n /\ Len(out) \in Nat /\ Len(k.meta) \in Nat
    BY <1>1, LinkFacts
  <2>3. End(k, out) = Len(out)
    BY <2>1, <2>2, EndOfMeta, Zenon
  <2> QED
    BY <2>1, <2>3, Zenon
<1>6. InOrder(out)
  BY <1>1 DEF LinkHeld
<1> QED
  BY <1>1, <1>2, <1>4, <1>5, <1>6 DEF Total

(* The NIXL engine, for any weights, any bucket that holds the largest of    *)
(* them and a chain of any length: a rank refills a buffer only after the    *)
(* reader of this very bucket has reported, and every rank yields all        *)
(* weights whole and in the sender's order.                                  *)
THEOREM NixlAlwaysDelivers == NixlSpec => []NixlDelivers
<1>1. NixlInit => NixlInv
  BY NixlStarts
<1>2. NixlInv /\ [NixlNext]_nixlVars => NixlInv'
  BY NixlKept
<1>3. NixlInv => NixlDelivers
  BY NixlInvDelivers
<1> QED
  BY <1>1, <1>2, <1>3, PTL DEF NixlSpec
=============================================================================
