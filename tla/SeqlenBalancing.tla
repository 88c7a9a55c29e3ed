-------------------------- MODULE SeqlenBalancing --------------------------
(***************************************************************************)
(* seqlen_balancing.py: how a batch is cut into parts of similar work.  A  *)
(* batch of n rows is 1 .. n, v[i] is the value of row i, a Set of the     *)
(* code is the sequence of its rows and a State of the heap a sequence of  *)
(* k of them.                                                              *)
(***************************************************************************)
EXTENDS Integers, Sequences, FiniteSets, SequencesExt

calculate_workload(s) == 24576 * s + s * s

\* s in the order of the pairs in Before: an element comes after as many as precede it.
\* (Of a concatenation TLC keeps the value, of a function the expression.)
Arranged(s, Before) ==
  LET place == [i \in DOMAIN s |-> Cardinality({j \in DOMAIN s : <<j, i>> \in Before})]
  IN <<>> \o [p \in DOMAIN s |-> s[CHOOSE i \in DOMAIN s : place[i] = p - 1]]

\* list.sort and heappush; written out, for SortSeq of TLC has no definition to prove from.
SortedBy(s, Op(_, _)) ==
  Arranged(s, {d \in (DOMAIN s) \X (DOMAIN s) :
                Op(s[d[1]], s[d[2]]) \/ (s[d[1]] = s[d[2]] /\ d[1] < d[2])})

\* sorted, of numbers
Increasing(s) == SortedBy(s, LAMBDA x, y : x < y)

\* Set.sum
SetSum(v, rows) == FoldSeq(LAMBDA x, y : x + y, 0, [i \in DOMAIN rows |-> v[rows[i]]])

\* Set.__lt__, turned round: no two Sets share a row, so their first rows decide a tie.
LargerBy(la, lb, a, b) ==
  \/ la > lb
  \/ la = lb /\ Len(a) > Len(b)
  \/ la = lb /\ Len(a) = Len(b) /\ Len(a) > 0 /\ a[1] > b[1]
Larger(v, a, b) == LargerBy(SetSum(v, a), SetSum(v, b), a, b)

Decreasing(v, sets) == SortedBy(sets, LAMBDA a, b : Larger(v, a, b))
Spread(v, st) == SetSum(v, st[1]) - SetSum(v, st[Len(st)])

\* State.__lt__
PopsBefore(v, s, t) ==
  \/ Spread(v, s) > Spread(v, t)
  \/ Spread(v, s) = Spread(v, t) /\ Larger(v, s[1], t[1])

\* State.merge: the largest Set of one goes with the smallest of the other.
\* Mutant: the largest go together.
MergeAligned(v, s, t) == Decreasing(v, [i \in 1 .. Len(s) |-> s[i] \o t[i]])
Merge(v, s, t) == Decreasing(v, [i \in 1 .. Len(s) |-> s[i] \o t[Len(s) + 1 - i]])

Popped(v, heap) == CHOOSE s \in heap : \A t \in heap \ {s} : PopsBefore(v, s, t)

MergeTwo(v, heap) ==
  LET s == Popped(v, heap)
      t == Popped(v, heap \ {s})
  IN (heap \ {s, t}) \cup {Merge(v, s, t)}

\* The rows in increasing order
Ascending(v) == SortedBy([i \in 1 .. Len(v) |-> i],
                         LAMBDA i, j : v[i] < v[j] \/ (v[i] = v[j] /\ i < j))

FirstHeap(v, k, equal_size) ==
  LET row == Ascending(v)
  IN IF equal_size
     THEN {Decreasing(v, [i \in 1 .. k |-> <<row[q * k + i]>>]) : q \in 0 .. Len(v) \div k - 1}
     ELSE {[i \in 1 .. k |-> IF i = 1 THEN <<row[j]>> ELSE <<>>] : j \in 1 .. Len(v)}

\* The heap when one State is left
karmarkar_karp(v, k, equal_size) ==
  LET heap == FirstHeap(v, k, equal_size)
      merges == Cardinality(heap) - 1
      after[m \in 0 .. merges] == IF m = 0 THEN heap ELSE MergeTwo(v, after[m - 1])
  IN CHOOSE s \in after[merges] : TRUE

EachIncreasing(parts, k) == [i \in 1 .. k |-> Increasing(parts[i])]
get_seqlen_balanced_partitions(v, k, equal_size) == EachIncreasing(karmarkar_karp(v, k, equal_size), k)

\* p[::2] and p[1::2]
EveryOther(p) == [i \in 1 .. (Len(p) + 1) \div 2 |-> p[2 * i - 1]]
TheOthers(p) == [i \in 1 .. Len(p) \div 2 |-> p[2 * i]]

ceildiv(a, b) == (a + b - 1) \div b

\* The number of micro-batches one rank asks for
MicroNum(seqlen, max_token_len) ==
  LET total == SetSum(seqlen, [i \in 1 .. Len(seqlen) |-> i])
      need == ceildiv(total, max_token_len)
  IN IF Len(seqlen) < need THEN Len(seqlen) ELSE need

\* rearrange_micro_batches, its number of micro-batches given
MicroBatches(seqlen, num) ==
  LET v == [i \in DOMAIN seqlen |-> calculate_workload(seqlen[i])]
      parts == get_seqlen_balanced_partitions(v, num, FALSE)
      first(p) == IF p = <<>> THEN 0 ELSE p[1]
      sorted == SortedBy(parts, LAMBDA p, q : \/ SetSum(v, p) > SetSum(v, q)
                                              \/ SetSum(v, p) = SetSum(v, q) /\ first(p) > first(q))
  IN Reverse(EveryOther(sorted)) \o TheOthers(sorted)

get_reverse_idx(idx) == [j \in DOMAIN idx |-> CHOOSE i \in DOMAIN idx : idx[i] = j]

\* Mutant: the index list is applied instead of its inverse.
restore_forwards(data, idx_list) ==
  LET idx == FlattenSeq(idx_list) IN [j \in DOMAIN data |-> data[idx[j]]]
restore_dynamic_batch(data, idx_list) ==
  LET rev == get_reverse_idx(FlattenSeq(idx_list)) IN [j \in DOMAIN data |-> data[rev[j]]]

\* The runs of rows with the same uid
UidGroups(uid) ==
  LET begin == {i \in DOMAIN uid : i = 1 \/ uid[i] # uid[i - 1]}
      number == [i \in DOMAIN uid |-> Cardinality(begin \cap 1 .. i)]
      size(g) == Cardinality({i \in DOMAIN uid : number[i] = g})
      first(g) == CHOOSE i \in begin : number[i] = g
  IN [g \in 1 .. Cardinality(begin) |-> [j \in 1 .. size(g) |-> first(g) + j - 1]]

get_group_balanced_partitions(seqlen, uid, k) ==
  LET groups == UidGroups(uid)
      v == [i \in DOMAIN seqlen |-> calculate_workload(seqlen[i])]
      parts == get_seqlen_balanced_partitions([g \in DOMAIN groups |-> SetSum(v, groups[g])], k, TRUE)
  IN [p \in 1 .. k |-> Increasing(FlattenSeq([j \in DOMAIN parts[p] |-> groups[parts[p][j]]]))]
=============================================================================
