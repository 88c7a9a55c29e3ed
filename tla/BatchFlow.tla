----------------------------- MODULE BatchFlow -----------------------------
(***************************************************************************)
(* The way of a batch through one training step: it is generated,          *)
(* balanced over the data-parallel ranks, dispatched to the workers of the *)
(* "actor" mesh, cut into micro-batches there (every round after an        *)
(* all-reduce of their number), its log-probabilities are put back in      *)
(* order and collected, and then every rank trains on its mini-batches.    *)
(* And the padded way of a validation batch.  A row is <<uid, copy>>, a    *)
(* result is the row it was computed from.                                 *)
(***************************************************************************)
EXTENDS SeqlenBalancing

CONSTANTS
  Shapes,       \* [prompts, n, sp, lens]: train_batch_size, rollout.n,
                \* ulysses_sequence_parallel_size, the sequence lengths
  DpSize,       \* data-parallel ranks
  MaxTokens,    \* max_token_len of a micro-batch
  MiniPrompts,  \* ppo_mini_batch_size, in prompts
  Balancing,    \* how _balance_batch may cut: use_prefix_grouper, keep_minibatch, neither
  ValRows, ValWorkers    \* bounds of a validation batch and of agent.num_workers

\* fsdp_workers.py: "ppo_mini_batch_size ... should be larger than 0 after normalization"
ASSUME FlowAssumption ==
  /\ DpSize \in Nat \ {0} /\ MaxTokens \in Nat /\ MiniPrompts \in Nat \ {0}
  /\ ValRows \in Nat /\ ValWorkers \in Nat
  /\ Balancing \subseteq {"plain", "minibatch", "group"}
  /\ \A s \in Shapes : /\ s.prompts \in Nat \ {0} /\ s.n \in Nat \ {0} /\ s.sp \in Nat \ {0}
                       /\ \A l \in s.lens : l \in 1 .. MaxTokens
                       /\ (MiniPrompts * s.n) \div DpSize > 0

\* keep_minibatch (no caller in ray_trainer.py passes it) asserts the first, and puts
\* the rows behind the last whole mini-batch into no partition.
ASSUME MiniAssumption ==
  "minibatch" \in Balancing =>
    /\ MiniPrompts % DpSize = 0
    /\ \A s \in Shapes : (s.prompts * s.n) % DpSize = 0 => (s.prompts * s.n) % MiniPrompts = 0

VARIABLES
  stage,     \* where the step is
  shape, balancing,  \* of this step
  batch,     \* the controller's rows
  seqlen,    \* seqlen[row]: its valid tokens
  logp,      \* the old_log_probs of the batch
  rows,      \* rows[w]: the shard of worker w
  want,      \* want[w]: the numbers of micro-batches w has put into the all-reduce
  micro,     \* micro[w]: the micro-batches of the rounds w has finished
  val        \* a validation batch and what was generated for it

stepVars == <<shape, balancing, seqlen>>
workerVars == <<rows, want, micro>>
flowVars == <<stage, stepVars, batch, logp, workerVars, val>>

NoShape == [prompts |-> 0, n |-> 0, sp |-> 1, lens |-> {}]

FlowInit ==
  /\ stage = "idle" /\ shape = NoShape /\ balancing = "plain"
  /\ batch = <<>> /\ seqlen = <<>> /\ logp = <<>>
  /\ rows = <<>> /\ want = <<>> /\ micro = <<>> /\ val = <<>>

Workers == 0 .. DpSize * shape.sp - 1
\* _register_dispatch_collect_info of the mesh (dp, sp)
DpRank(w) == w \div shape.sp
IsCollect(w) == w % shape.sp = 0

\* batch.repeat(n, interleave=True)
Repeated(prompts, n) == [i \in 1 .. prompts * n |-> <<(i - 1) \div n, (i - 1) % n>>]

\* DataProto.chunk: chunk c of k equal ones, c from 0
Chunk(data, k, c) ==
  LET size == Len(data) \div k IN SubSeq(data, c * size + 1, (c + 1) * size)
\* DataProto.split, piece m
Split(data, size, m) == SubSeq(data, (m - 1) * size + 1, IF m * size < Len(data) THEN m * size ELSE Len(data))

LenOf(rs) == [i \in DOMAIN rs |-> seqlen[rs[i]]]
WorkOf(rs) == [i \in DOMAIN rs |-> calculate_workload(seqlen[rs[i]])]

\* The responses have come back and are joined to the repeated prompts.
Generate ==
  /\ stage = "idle"
  /\ \E s \in Shapes, b \in Balancing :
       /\ shape' = s /\ balancing' = b
       /\ batch' = Repeated(s.prompts, s.n)
       /\ seqlen' \in [(0 .. s.prompts - 1) \X (0 .. s.n - 1) -> s.lens]
  /\ stage' = "generated"
  /\ UNCHANGED <<logp, workerVars, val>>

\* The balanced partitions of the batch, one for every rank
Partitions ==
  LET v == WorkOf(batch)
      minis == [m \in 1 .. Len(batch) \div MiniPrompts |->
                  get_seqlen_balanced_partitions(Split(v, MiniPrompts, m), DpSize, TRUE)]
  IN CASE balancing = "group" ->
            get_group_balanced_partitions(LenOf(batch), [i \in DOMAIN batch |-> batch[i][1]], DpSize)
       [] balancing = "minibatch" ->
            [r \in 1 .. DpSize |-> FlattenSeq([m \in DOMAIN minis |->
               [j \in DOMAIN minis[m][r] |-> minis[m][r][j] + MiniPrompts * (m - 1)]])]
       [] OTHER -> get_seqlen_balanced_partitions(v, DpSize, TRUE)

\* The smaller rows of a partition go to its ends.
SmallOutside(p) ==
  LET v == WorkOf(batch)
      s == SortedBy(p, LAMBDA i, j : v[i] < v[j] \/ (v[i] = v[j] /\ i < j))
  IN EveryOther(s) \o Reverse(TheOthers(s))

PartitionOrder ==
  IF balancing = "group" THEN Partitions
  ELSE [r \in 1 .. DpSize |-> SmallOutside(Partitions[r])]

\* DataProto.reorder
Reordered(data, idx) == [j \in DOMAIN idx |-> data[idx[j]]]

Balance ==
  /\ stage = "generated"
  /\ Len(batch) % DpSize = 0
  /\ balancing = "group" => shape.prompts % DpSize = 0
  /\ batch' = Reordered(batch, FlattenSeq(PartitionOrder))
  /\ stage' = "balanced"
  /\ UNCHANGED <<stepVars, logp, workerVars, val>>

\* "requires num_uid_groups % dp_size == 0", "% k_partitions != 0"
BalanceRaises ==
  /\ stage = "generated"
  /\ \/ Len(batch) % DpSize # 0
     \/ balancing = "group" /\ shape.prompts % DpSize # 0
  /\ stage' = "raised"
  /\ UNCHANGED <<stepVars, batch, logp, workerVars, val>>

\* dispatch_nd_compute_dataproto: every worker of a dp rank gets its chunk.
ShardOf(w) == Chunk(batch, DpSize, DpRank(w))
Dispatch ==
  /\ stage = "balanced"
  /\ rows' = [w \in Workers |-> ShardOf(w)]
  /\ want' = [w \in Workers |-> <<>>] /\ micro' = [w \in Workers |-> <<>>]
  /\ stage' = "log_prob"
  /\ UNCHANGED <<stepVars, batch, logp, val>>

\* ppo_mini_batch_size of a worker
MiniRows == (MiniPrompts * shape.n) \div DpSize
MiniBatches == ceildiv(Len(batch) \div DpSize, MiniRows)

\* The rows of round m: compute_log_prob first, then the mini-batches of update_policy
RoundRows(w, m) == IF m = 1 THEN rows[w] ELSE Split(rows[w], MiniRows, m - 1)
RoundsDue == IF stage = "log_prob" THEN 1 ELSE 1 + MiniBatches

\* A worker puts its number of micro-batches into the all-reduce.
AllReduce(w) ==
  LET m == Len(micro[w]) + 1
  IN /\ stage \in {"log_prob", "update"} /\ m <= RoundsDue /\ Len(want[w]) < m
     /\ want' = [want EXCEPT ![w] = Append(@, MicroNum(LenOf(RoundRows(w, m)), MaxTokens))]
     /\ UNCHANGED <<stage, stepVars, batch, logp, rows, micro, val>>

\* Mutant: a worker goes on with its own number.
ReducedOwn(w, m) == want[w][m]
Reduced(w, m) == CHOOSE x \in {want[u][m] : u \in Workers} : \A u \in Workers : want[u][m] <= x

\* All workers have contributed; this one cuts its rows and runs the model.
Forward(w) ==
  LET m == Len(micro[w]) + 1
  IN /\ stage \in {"log_prob", "update"}
     /\ \A u \in Workers : Len(want[u]) >= m
     /\ micro' = [micro EXCEPT ![w] =
                    Append(@, MicroBatches(LenOf(RoundRows(w, m)), Reduced(w, m)))]
     /\ UNCHANGED <<stage, stepVars, batch, logp, rows, want, val>>

\* What compute_log_prob of a worker returns
LogProbs(w) ==
  LET idx == FlattenSeq(micro[w][1])
  IN restore_dynamic_batch([j \in DOMAIN idx |-> rows[w][idx[j]]], micro[w][1])

\* collect_nd_compute_dataproto and union
Collected == FlattenSeq([r \in 1 .. DpSize |->
                           LogProbs(CHOOSE w \in Workers : IsCollect(w) /\ DpRank(w) = r - 1)])
Collect ==
  /\ stage = "log_prob" /\ \A w \in Workers : Len(micro[w]) = 1
  /\ logp' = Collected
  /\ stage' = "update"
  /\ UNCHANGED <<stepVars, batch, workerVars, val>>

\* update_actor has returned from all workers.
Updated ==
  /\ stage = "update" /\ \A w \in Workers : Len(micro[w]) = RoundsDue
  /\ stage' = "done"
  /\ UNCHANGED <<stepVars, batch, logp, workerVars, val>>

\* pad_dataproto_to_divisor: the rows are repeated from the first one on.
PadSize(n, k) == (k - (n % k)) % k
Padded(data, k) == [j \in 1 .. Len(data) + PadSize(Len(data), k) |-> data[((j - 1) % Len(data)) + 1]]
Unpad(data, pad) == SubSeq(data, 1, Len(data) - pad)

\* _validate: padded, cut into a chunk for every agent loop worker, joined, unpadded
Validation ==
  /\ stage = "idle"
  /\ \E n \in 1 .. ValRows, k \in 1 .. ValWorkers :
       LET data == [i \in 1 .. n |-> i]
           chunks == [c \in 1 .. k |-> Chunk(Padded(data, k), k, c - 1)]
       IN val' = [rows |-> data, out |-> Unpad(FlattenSeq(chunks), PadSize(n, k))]
  /\ stage' = "validated"
  /\ UNCHANGED <<stepVars, batch, logp, workerVars>>

FlowNext ==
  \/ Generate \/ Balance \/ BalanceRaises \/ Dispatch \/ Collect \/ Updated \/ Validation
  \/ \E w \in Workers : AllReduce(w) \/ Forward(w)

FlowEnded == stage \in {"done", "raised", "validated"}
FlowSpec == FlowInit /\ [][FlowNext]_flowVars
-----------------------------------------------------------------------------
\* The union with the collected log-probabilities joins every row to the value
\* computed from that very row, whatever the balancing, the dispatch over the
\* mesh, the reordering into micro-batches and the way back did to the order.
RowsMatch == stage \in {"update", "done"} => logp = batch

\* rearrange_micro_batches with its all-reduce: the ranks run the same number of
\* micro-batches in every round, or FSDP's collectives in the forward pass would hang.
MicroInStep ==
  stage \in {"log_prob", "update", "done"} =>
    \A w, u \in Workers : \A m \in DOMAIN micro[w] \cap DOMAIN micro[u] :
      Len(micro[w][m]) = Len(micro[u][m])

\* update_policy of the collecting workers trains on every row of the batch once:
\* no row is lost or doubled by balancing, dispatch and mini-batches.
TrainedRows == FlattenSeq([r \in 1 .. DpSize |->
  LET w == (r - 1) * shape.sp
  IN FlattenSeq([m \in 1 .. MiniBatches |->
       LET idx == FlattenSeq(micro[w][m + 1])
       IN [j \in DOMAIN idx |-> RoundRows(w, m + 1)[idx[j]]]])])
EachRowOnce ==
  stage = "done" =>
    /\ Len(TrainedRows) = shape.prompts * shape.n
    /\ ToSet(TrainedRows) = DOMAIN seqlen

\* The work of two ranks differs by no more than that of two neighbours among
\* the rows sorted by work (with use_prefix_grouper: the groups) did: merging the
\* partial solutions never widens the gap.
Shard(r) == Chunk(batch, DpSize, r)
SharesBalanced ==
  stage = "balanced" /\ balancing # "minibatch" =>
    LET work(rs) == SetSum(WorkOf(rs), [i \in DOMAIN rs |-> i])
        group(u) == work([c \in 1 .. shape.n |-> <<u, c - 1>>])
        v == IF balancing = "plain" THEN WorkOf(Repeated(shape.prompts, shape.n))
             ELSE [u \in 1 .. shape.prompts |-> group(u - 1)]
    IN \A r, q \in 0 .. DpSize - 1 : \E st \in FirstHeap(v, DpSize, TRUE) :
         work(Shard(r)) - work(Shard(q)) <= Spread(v, st)

\* With use_prefix_grouper the rows of a prompt reach one rank, next to each
\* other: both the balancing and the equal chunks of the dispatch keep them so.
GroupsTogether ==
  stage = "balanced" /\ balancing = "group" =>
    \A i, j \in DOMAIN batch :
      batch[i][1] = batch[j][1] =>
        /\ \A h \in i .. j : batch[h][1] = batch[i][1]
        /\ \E r \in 0 .. DpSize - 1 : {batch[i], batch[j]} \subseteq ToSet(Shard(r))

\* No micro-batch is empty, although a rank may have to cut its rows into more
\* than it asked for, and none is twice the work of a sequence of max_token_len
\* tokens. (The limit on its tokens is not kept: MicroWithinLimit.)
MicroFits ==
  stage \in {"log_prob", "update", "done"} =>
    \A w \in Workers : \A m \in DOMAIN micro[w] : \A q \in DOMAIN micro[w][m] :
      /\ micro[w][m][q] # <<>>
      /\ SetSum(WorkOf(RoundRows(w, m)), micro[w][m][q]) < 2 * calculate_workload(MaxTokens)

\* The validation outputs are those of the test rows, in their order.
ValRowsMatch == stage = "validated" => val.out = val.rows

\* The rows of a batch through balancing, dispatch, micro-batches, collection
\* and padding: none is lost, doubled or given another row's result.
RowsKept == RowsMatch /\ EachRowOnce /\ ValRowsMatch

\* How a batch is cut: the shares of the ranks are even, groups stay together, and
\* no micro-batch is empty or of twice the work of the longest sequence allowed.
BalanceKept == SharesBalanced /\ GroupsTogether /\ MicroFits

\* What rearrange_micro_batches says of max_token_len: "max sum of attention_mask
\* per micro-batch".
MicroWithinLimit ==
  stage \in {"log_prob", "update", "done"} =>
    \A w \in Workers : \A m \in DOMAIN micro[w] : \A q \in DOMAIN micro[w][m] :
      SetSum(LenOf(RoundRows(w, m)), micro[w][m][q]) <= MaxTokens
=============================================================================
