------------------------------ MODULE TarStream ------------------------------
(***************************************************************************)
(* The training data of one loader worker: TarDataset mixes its datasets   *)
(* by drawing from them in cycles (a quota per dataset and cycle), skips   *)
(* the samples it cannot use, and DynamicPackingDataset packs what is left *)
(* first-fit into the sequences of a batch.                                *)
(*                                                                         *)
(* A sample is its length: TarDataset truncates to max_length. The shards  *)
(* are resampled without end, so that the stream never ends by itself.     *)
(***************************************************************************)
EXTENDS Integers, Sequences, FiniteSets, FiniteSetsExt, SequencesExt

CONSTANTS RatioTables,  \* train_sampling_ratios: sequences of one length
          BaseCycle,    \* base_cycle
          MinCycle,     \* train_batch_size: a shorter cycle is not compacted
          SampleLens,   \* the lengths of usable samples
          MaxLen,       \* max_length
          PackTarget,   \* target_batch_size, packs of a batch
          MaxBatches, MaxDraws   \* bounds: batches yielded, samples drawn

ASSUME TarAssumption ==
  /\ \A r \in RatioTables : r # <<>> /\ r \in Seq(Nat \ {0})
  /\ SampleLens \subseteq 1..MaxLen
  /\ {BaseCycle, MinCycle, MaxLen, PackTarget, MaxBatches, MaxDraws} \subseteq Nat \ {0}

VARIABLES ratios,      \* desired_ratios
          targets,     \* target_counts
          remaining,   \* remaining_counts
          drawn,       \* samples asked of each dataset so far
          packs,       \* packed_sequences
          packing,     \* the loop of __iter__ that fills packs
          made,        \* samples TarDataset yielded
          kept,        \* samples in the batches yielded
          batches      \* batches yielded

tarVars == <<ratios, targets, remaining, drawn, packs, packing, made, kept, batches>>

SumOf(s) == FoldSeq(LAMBDA x, y : x + y, 0, s)

\* round(n / d) of Python: a half goes to the even neighbour.
Round(n, d) ==
  LET q == n \div d
      r == 2 * (n % d)
  IN  IF r < d \/ (r = d /\ q % 2 = 0) THEN q ELSE q + 1

RawTargets(r) == [i \in DOMAIN r |-> Max({1, Round(BaseCycle * r[i], SumOf(r))})]

\* math.gcd over the targets.
Divisor(t) == Max({k \in 1..t[1] : \A i \in DOMAIN t : t[i] % k = 0})

\* target_counts: the cycle is compacted unless it gets too short for a batch.
Targets(r) ==
  LET raw == RawTargets(r)
      reduced == [i \in DOMAIN r |-> Max({1, raw[i] \div Divisor(raw)})]
  IN  IF Len(r) > 1 /\ SumOf(reduced) >= MinCycle THEN reduced ELSE raw

\* A new cycle starts when the quotas are used up.
Quotas == IF SumOf(remaining) = 0 THEN targets ELSE remaining
-----------------------------------------------------------------------------
TarInit ==
  /\ ratios = <<>> /\ targets = <<>> /\ remaining = <<>> /\ drawn = <<>>
  /\ packs = <<>> /\ packing = "off"
  /\ made = 0 /\ kept = 0 /\ batches = 0

Configure ==
  /\ packing = "off"
  /\ \E r \in RatioTables :
       /\ ratios' = r
       /\ targets' = Targets(r)
       /\ remaining' = targets'
       /\ drawn' = [i \in DOMAIN r |-> 0]
  /\ packing' = "opening"
  /\ UNCHANGED <<packs, made, kept, batches>>

\* Mutant: a dataset is drawn from with no regard to what remains.
OpenAll(q) == DOMAIN q

\* rng.choices over the datasets with a quota left.
Open(q) == {i \in DOMAIN q : q[i] > 0}

\* One turn of TarDataset's loop: the quota is charged before the sample is
\* read, whether or not it turns out usable.
Draw(i) ==
  /\ packing # "off" /\ batches < MaxBatches /\ SumOf(drawn) < MaxDraws
  /\ i \in Open(Quotas)
  /\ remaining' = [Quotas EXCEPT ![i] = @ - 1]
  /\ drawn' = [drawn EXCEPT ![i] = @ + 1]
  /\ UNCHANGED <<ratios, targets>>

\* The dataset is exhausted twice, or the sample is not usable.
Skip(i) == Draw(i) /\ UNCHANGED <<packs, packing, made, kept, batches>>

Fits(p, n) == SumOf(p) + n <= MaxLen

Fitting(n) == {k \in DOMAIN packs : Fits(packs[k], n)}

\* First fit: the sample joins the first pack with room for it.
AddToPack(i, n) ==
  /\ Draw(i) /\ Fitting(n) # {}
  /\ packs' = [packs EXCEPT ![Min(Fitting(n))] = Append(@, n)]
  /\ made' = made + 1
  /\ UNCHANGED <<packing, kept, batches>>

\* Mutant: the pack is opened without the sample.
NewPackEmpty(n) == <<>>

NewPack(n) == <<n>>

\* In the first loop a sample that fits nowhere opens a pack.
OpenPack(i, n) ==
  /\ packing = "opening"
  /\ Draw(i) /\ Fitting(n) = {}
  /\ packs' = Append(packs, NewPack(n))
  /\ packing' = IF Len(packs') < PackTarget THEN "opening" ELSE "filling"
  /\ made' = made + 1
  /\ UNCHANGED <<kept, batches>>

\* samples_in_batch
InBatch == SumOf([k \in DOMAIN packs |-> Len(packs[k])])

\* In the second loop it ends the batch: the batch is yielded, and the sample,
\* which is in no pack, is not kept for the next one.
YieldBatch(i, n) ==
  /\ packing = "filling" /\ packing' = "opening"
  /\ Draw(i) /\ Fitting(n) = {}
  /\ batches' = batches + 1 /\ kept' = kept + InBatch /\ packs' = <<>>
  /\ made' = made + 1

TarNext ==
  \/ Configure
  \/ \E i \in DOMAIN ratios :
       \/ Skip(i)
       \/ \E n \in SampleLens : AddToPack(i, n) \/ OpenPack(i, n) \/ YieldBatch(i, n)

\* A bound is reached.
TarEnded == packing # "off" /\ (batches = MaxBatches \/ SumOf(drawn) = MaxDraws)

TarSpec == TarInit /\ [][TarNext]_tarVars
-----------------------------------------------------------------------------
CycleEnd == packing # "off" /\ SumOf(remaining) = 0

\* At the end of a cycle the datasets have been drawn from in the proportion
\* of train_sampling_ratios, where BaseCycle can be divided that way.
RatiosKept ==
  CycleEnd /\ (\A i \in DOMAIN ratios : (BaseCycle * ratios[i]) % SumOf(ratios) = 0)
    => \A i, j \in DOMAIN ratios : drawn[i] * ratios[j] = drawn[j] * ratios[i]

\* No dataset runs ahead of its quota within a cycle, whatever the skips:
\* the draws are whole cycles and a part of one.
DrawnInCycles ==
  packing # "off" =>
    \A i, j \in DOMAIN ratios :
      drawn[i] \div targets[i] <= (drawn[j] \div targets[j]) + 1

\* No pack is longer than max_length, and first fit leaves at most one pack
\* half empty: any two packs are too long to be one.
PacksTight ==
  \A j, k \in DOMAIN packs :
    /\ SumOf(packs[k]) <= MaxLen
    /\ j # k => SumOf(packs[j]) + SumOf(packs[k]) > MaxLen

\* Of the samples that were read and processed each batch loses exactly one,
\* the one that ended it; none is lost or doubled otherwise.
OneLostPerBatch == made = kept + InBatch + batches

\* The mixture of the datasets follows train_sampling_ratios, at the end of a
\* cycle exactly and within it up to the cycle under way.
MixtureKept == RatiosKept /\ DrawnInCycles

\* The packing fills its packs by first fit and loses one sample per batch.
PackingKept == PacksTight /\ OneLostPerBatch
=============================================================================
