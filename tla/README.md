# Verification of the FactoSR training system

FactoSR trains vision-language models with reinforcement learning. Its programs
are the synchronous DAPO trainer (`recipe/dapo/`), the fully asynchronous
trainer (`verl/experimental/fully_async_policy/`) and the libraries of `verl/`
they stand on. This directory holds TLA+ modules of the parts that keep state
across processes, coroutines and restarts, the TLC configurations that check
them on small instances, and proofs checked by TLAPS.

## 1. Inventory

### Fully asynchronous job (`verl/experimental/fully_async_policy/`)

Four Ray actors:

| part | state | operations |
|---|---|---|
| `MessageQueue` (`message_queue.py`) | bounded deque of samples, deque of validation records, version, counters | `put_sample`, `get_sample`, `update_param_version`, `clear_queue`, `shutdown`, `put_validate`, `get_validate` |
| `FullyAsyncRollouter` (`fully_async_rollouter.py`) | `pending_queue`, `active_tasks`, `cancel_queue`, `paused`, `running`, `monitor_loop_trigger`, `staleness_samples`, version, one asyncio lock and condition | coroutines `_feed_samples`, `_processor_worker`, `_process_single_sample_streaming`, `_async_monitor_loop`, `_streaming_generation_main`; handlers `pause`, `update_param_version`, `resume` |
| `FullyAsyncTrainer` (`fully_async_trainer.py`) | collected samples, version, `local_trigger_step` | `fit`: collect, train, synchronize, log validation |
| `ParameterSynchronizer` (`param_sync.py`) | references of the last update and resume | `sync_weights`, `wait_last_valid` |

The rollouter's tasks generate samples on the rollout servers and put them into
the queue; the trainer takes `required_samples` of them, trains, and every
`trigger_parameter_sync_step` steps has the synchronizer pause the rollouter,
transfer the weights and submit `update_param_version` and `resume`. How far the
rollouter runs ahead is bounded by `staleness_samples` and the queue's size.
With partial rollout, `pause` interrupts the generations, which are continued
later from `cancel_queue`.

What is hard: the rollouter's coroutines interleave at every blocking `await`
and share one FIFO lock; the condition is used by two wait loops; the trainer
goes on while the rollouter still executes the last calls; the queue drops its
oldest sample when full; generations fail or are interrupted; the end of the
stream races with synchronizations.

What makes it correct: no sample is lost or trained on twice without a recorded
reason; samples are not older than the staleness threshold allows; nothing is
generated while the weights are replaced; version numbers stay in step;
validation records are logged once and in order; the finish signal arrives; the
job ends.

### Synchronous DAPO job (`recipe/dapo/dapo_ray_trainer_for_tar.py`)

`fit` loops over epochs and batches, generates and filters prompts until a batch
is full (dynamic sampling), updates the actor, saves, and ends at
`total_training_steps` or with the data. `_save_checkpoint` and
`_load_checkpoint` (`verl/trainer/ppo/ray_trainer_for_tar.py`) with the FSDP
checkpoint manager (`verl/utils/checkpoint/`) keep on disk
`global_step_k/actor`, `global_step_k/data.pt` and the tracker file
`latest_checkpointed_iteration.txt`; the list of checkpoints to rotate is in
memory.

What is hard: the process can be killed between any two writes; resuming must
find weights and data position of the same step; step names, updates and data
must agree whichever way the loop ends.

### Partial rollout (`fully_async_policy/agent_loop/`, `vllm_rollout/`)

An agent loop (single turn or with tools) asks a server for tokens;
`AsyncLLMServerManager` chooses the least used server and remembers it in an LRU
cache. `cancel` pauses every server, sets the cancellation event of every worker
and request, and comes back when all loops have returned what they have; after
the weight transfer `resume` lets the same loops continue their own output.
State: `cancel_event` and `req_output` per request and `paused` per server, the
event per worker, `AgentData` per rollout. Correct: the continued output is the
tokens that were generated, each in its context, with aligned mask and
log-probabilities and the versions that made them; cancel returns; every sample
is completed.

### Weight transfer (`fully_async_policy/checkpoint_engine.py`, `verl/checkpoint_engine/`)

Three implementations, all with a double buffer. The asynchronous job's engine
copies buckets from the actors' host memory, broadcasts them, and has an
inference process load one half of the buffer while the other is filled. The
NCCL engine sends metadata by ZMQ and buckets by broadcast from a background
thread. The NIXL engine passes buckets down a chain of ranks that read from one
another. Correct: every receiver gets every weight, whole, in order and of this
round.

### The path of a batch (`ray_trainer.py`, `protocol.py`, `decorator.py`, `seqlen_balancing.py`, `dp_actor.py`)

Rows are repeated, permuted by `_balance_batch`, cut into shards for the ranks,
permuted again into micro-batches of bounded length whose number the ranks agree
on, and the results are brought back. Correct: each row keeps its own results
and is trained on once; ranks run in step; shares are even; groups stay
together.

### Rewards (`agent_loop.py`, `workers/reward_manager/`, `utils/reward_score/`)

A row is scored by the agent loop that generated it or, when it needs an inverse
answer, by the reward manager afterwards. `combined_reward.compute_score` checks
the format, gates accuracy by the XY score and adds the weighted rewards. The
rate-limited manager calls a remote judge under a semaphore, two token buckets
and a time-out. Correct: every row gets the reward of its own answers; gates
hold; limits are kept.

### Data and the other trainers

`tar_dataset.py` mixes sources by quotas and packs samples first fit;
`fsdp_sft_trainer.py` loops over epochs with checkpoints and a renamed tracker;
`one_step_off_policy/ray_trainer.py` generates the next batch while it trains on
the present one. Correct: ratios are kept and no sample vanishes unaccounted;
killed jobs continue from their checkpoint at the right place of the data; a
batch is one update old and never generated by two versions.

## 2. Modules

| module | models |
|---|---|
| `MessageQueue` | the queue actor; every method runs under one lock and is one action |
| `LossyLog` | what the queue promises: a log whose oldest entries may be lost, read in order, nothing twice |
| `MessageQueueHistory` | the queue with the history of what was put, received and cleared, its properties and the refinement mapping to `LossyLog` |
| `MessageQueueProofs` | TLAPS proofs about the queue |
| `Rollouter` | the rollouter: one action per stretch of code between two blocking awaits |
| `FullyAsync` | composes the rollouter and the queue with the trainer and the synchronizer; the properties of the job |
| `FullyAsyncProofs` | TLAPS proofs about the asynchronous job |
| `CheckpointStore` | the checkpoint folder and the steps of a save |
| `DapoTrainer` | `fit` on top of `CheckpointStore`, with crashes and restarts |
| `DapoTrainerProofs` | TLAPS proofs about the trainer |
| `PartialRollout` | servers, workers, server manager and agent loops of partial rollout |
| `PartialRolloutProofs` | TLAPS proofs about partial rollout |
| `BucketBroadcast` | `CheckpointEngine` of the asynchronous job: buckets, halves of the buffer, barriers, the inference process |
| `WeightBuckets` | what the NCCL and NIXL senders share: filling two buckets in turn |
| `NcclEngine`, `NixlEngine` | the two engines on top of `WeightBuckets` |
| `EngineProofs` | TLAPS proofs about `BucketBroadcast` and both engines |
| `RateLimiter` | the rate-limited reward manager in virtual time |
| `OneStepOff` | the one-step-off trainer on top of `CheckpointStore`, with crashes |
| `AsyncResume` | the checkpoints and restarts of the asynchronous job on top of `CheckpointStore` |
| `SeqlenBalancing` | the balancing algorithms as operators |
| `BatchFlow` | the rows of a batch through balancing, dispatch, micro-batches, update, validation |
| `BatchFlowProofs` | TLAPS proofs about both |
| `RewardFlow` | forward and inverse answers of a batch and who scores them |
| `CombinedReward` | `compute_score` of the combined reward |
| `TarStream` | mixture and packing of the TAR dataset |
| `DataProofs` | TLAPS proofs about `TarStream`, `CombinedReward`, `RewardFlow` and `RateLimiter` |
| `SftTrainer` | the SFT loop on top of `CheckpointStore`, with crashes |
| `ResumeProofs` | TLAPS proofs about `OneStepOff`, `AsyncResume` and `SftTrainer` |
| `MCFullyAsync`, `MCDapoTrainer`, `MCPartialRollout`, `MCBatchFlow`, `MCCombinedReward` | instances for TLC |
| `MCComponents` | instances of the components without shared state, one after the other in one model |

Definitions named `...Late`, `...Lost`, etc. and marked *Mutant* are faulty
versions of the definition that follows them; no specification uses them. They
show that the properties tell the code from a plausible mistake in it.

### The event loop in `Rollouter`

`cpu` names the coroutine that is between two blocking awaits; only it may act,
and when `cpu = "none"` any coroutine that can go on may be resumed. An
uncontended `acquire` and a `get` from a non-empty queue do not block, so the
coroutine keeps the loop (`Keep`); otherwise it gives it up (`Yield`). `lock` is
the FIFO queue of the asyncio lock, its head the owner. `proc`, `mon`, `main`,
`rpc` are the places where the processor, the monitor, the main coroutine and
the synchronizer's current call stand; `task[s]` is where the task of sample `s`
stands. `_should_pause_generation` and `_validate` block the loop, so they are
part of the step that calls them. The answers of the queue and of the servers
are steps of other processes.

A sample is its number, with the version it was stamped with once in the queue
(`[id, ver]`); `None` is the finish signal. `pending_queue` is the interval
between `taken` and `fed`.

### Crashes in `DapoTrainer`

`Crash` may happen before any step; it clears what is in memory, keeps
`tracker` and `disk`, and goes back to `load`. A file is `partial` from the
moment it is opened until it is written. The weights are a pair: the number of
updates, and (a history variable) the place reached in the data order. What the
group filter keeps is arbitrary.

Left out: the critic (as a second folder next to the actor's it adds no new
order), `async_save`, HDFS, `resume_mode` other than `auto`, validation.
A removal (`rmtree`) is one step.

### Abstractions in the other modules

* `PartialRollout`: a token is its place and the version that generated it, or
  `Ext` for tokens of tools and users; one sample at a time, the agents of which
  run on one of the workers; whether a turn ends in a tool call is arbitrary. The rollouter
  is reduced to submit, cancel, transfer, resume. It assumes a model length above
  the response length, and that a pause is not undone by the monitor (that race
  is in `Rollouter`).
* `BucketBroadcast`: a parameter is a sequence of cells `<<parameter, cell,
  round>>`, so a torn, stale or misplaced load is visible. A rank and its
  inference process are two actors that exchange one message at a time.
* `RateLimiter`: time is a counter; a request may be woken late. `credit` is a
  history variable: what a full bucket with the same refill would still allow.
* `BatchFlow`: a row is `<<prompt, copy>>` and its length; workers run between
  the collectives in any order. Rows have at least one token, as responses do.
* `RewardFlow`: an answer is the prompt it was asked for and its direction; a
  score is the answers and the ground truth it was computed from.
* `CombinedReward`: a score is a number of units out of `FullScore`, or an exception;
  the sum is kept multiplied by the total weight, so no division is needed.
* `TarStream`: `Skip` stands for every reason to pass over a sample.
* `OneStepOff`, `AsyncResume`, `SftTrainer` use the save steps of
  `CheckpointStore`; weights carry, as history, the data they were trained on.

## 3. Runs

| run | question | result |
|---|---|---|
| `async_on_policy` | threshold 0: quiet transfer, on-policy training, nothing lost, and does the job end? | holds |
| `async_stale_share` | threshold 1/2: is at most that share of a batch stale? | **violated** |
| `async_partial` | threshold 1, partial rollout and a failure: conservation, finish signal, in-flight bound, versions, validation records? | holds |
| `async_hang` | does the job end with partial rollout? | **violated** |
| `dapo` | killed anywhere up to twice: is the latest checkpoint whole, does a resumed job go on where it left off, is every update on a whole on-policy batch, and does resampling end? | holds |
| `dapo_torn_tracker` | can the job always be resumed? | **violated** |
| `partial_rollout` | interrupted up to twice: are outputs continued in context, versions recorded, servers evenly used; does cancel return and the sample complete? | holds |
| `components` | the components without shared state, one at a time (`part`): see below | holds |
| `one_step_resume` | does a resumed one-step-off job go on? | **violated** |
| `reward_deferred` | does every row get the reward of its own answers? | **violated** |
| `micro_limit` | does a micro-batch hold at most `max_token_len` tokens? | **violated** |
| `xy_gate` | does any nonzero XY score let accuracy count, with the default gate? | **violated** |

The violations are described under `findings` in `PROJECT.json`, each with the
line of the repository that says otherwise.

The properties of `components`, each a conjunction of named parts:

| property | component |
|---|---|
| `QueueIsRecentPast`, `DroppedAreCounted`, `ImplementsLossyLog` | the message queue keeps the most recent samples, accounts for losses, implements `LossyLog` |
| `WeightsLoaded` | buckets fit; what is loaded is whole and of the round; at the end everything is loaded everywhere |
| `NcclDelivers`, `NixlDelivers` | bucket and metadata (notification and operation) stay paired; all weights arrive, in order, intact |
| `LimitsKept` | rate of both buckets over every window, conservation of tokens, concurrency of coroutines |
| `OneStepPipeline`, `BatchesInOrder` | batches are one update old and of one version; a restart skips at most one batch |
| `SamplesAccounted` | no sample trained on twice over restarts, none lost but those in flight, the numbering agrees |
| `RowsKept`, `MicroInStep`, `BalanceKept` | rows keep their results and are trained on once; ranks in step; shares, groups and micro-batches |
| `OwnOrUnpaid` | no row is paid for another row's answer; when it is not paid at all |
| `ScoreGated` | gates, calls and the bound of the combined score |
| `MixtureKept`, `PackingKept` | ratios at the end of and within a cycle; tight packs, exactly one sample lost per batch |
| `SftResumes` | complete checkpoint, right place, at most one epoch lost per restart |

What the properties had to take into account, and why they are not stronger:

* `QuietSync` is checked with threshold 0. With a larger one it fails: the
  monitor reads `monitor_loop_trigger` (rollouter, 653) and then waits for the
  lock `pause` holds; when `pause` returns, it sets `paused` to `False` and the
  processor submits samples during the transfer. The same race starts the hang
  of `async_hang`.
* When a pause empties `active_tasks` before the processor ever waited on a
  task, the processor reads `done_tasks` unbound (452, 479, 490) and the stream
  fails; `ProcCollect` has this step.
* `FreshEnough` is about threshold 0, the only one for which an age follows
  from the code. With a larger one even a whole batch may be stale
  (`async_stale_share`): a sample that waits in the processor's hand during a
  synchronization uses none of the next version's allowance, since
  `update_param_version` does not count it, and when the monitor undoes a later
  pause a whole round is generated with the old weights during the transfer. With 1/2 and ten
  samples instead of six, samples are trained on two versions late.
* With a threshold above 0, `InFlightBound` allows one sample more than
  `max_required_samples`, the bound the documentation gives: the one the
  processor has taken and not yet submitted is in none of the sets
  `update_param_version` counts.
* A pause during the drain after the end signal (partial rollout) leaves
  samples in `cancel_queue` for good: the processor has left its loop.
  `SampleConservation` counts them as being there, not as lost.
* `LatestComplete` and `SftResumes` are stated for a number of checkpoints to
  keep other than 1. With 1, rotation removes the only checkpoint before the
  new one is written.
* `KeepAtMostPerRun`, not `max_actor_ckpt_to_keep` in all: the list of
  checkpoints to rotate is in memory, so a restarted process never removes
  those of the run before it.
* `StepNamesUpdates` and `FinalCheckpointSaved` hold for as long as the data
  lasts (`spent`, a history variable, is `FALSE`). When the data ends before
  `total_training_steps`, which dynamic sampling can bring about in `dapo`,
  `global_steps` has been incremented already, so the last checkpoint is named
  after a step that was not made, and the folder of a save that was killed is
  taken for it.
* A DAPO job killed after its last save and restarted makes one more update than
  `total_training_steps`: it resumes at the step after the last.
* `LimitsKept` bounds the running calls for coroutines only. A synchronous reward
  function runs in a thread that survives the time-out while the semaphore is
  released (limited.py, 387), although the documentation at 182-184 promises
  that simultaneous requests are limited.
* `BalanceKept` bounds the work of a micro-batch, not its tokens. The docstring of
  `rearrange_micro_batches` (seqlen_balancing.py, 362) calls `max_token_len` the
  maximum of a micro-batch, but the code derives only their number from it and
  balances the work: `micro_limit` finds six tokens where five are allowed. What
  does hold is that a micro-batch has less than twice the work of a sequence of
  `max_token_len` tokens; with many short sequences next to a few long ones that
  can be many times `max_token_len` tokens.
* `OwnOrUnpaid` names the case in which a row goes unpaid: its worker deferred
  and another worker scored (`reward_deferred`). Within one group the copies can
  then be of both kinds.
* In `ScoreGated` the gate is the one that is configured. The comment next to it
  (combined_reward.py, 263-266) says that any nonzero score passes the default of
  0.5, which the code's `>` denies to a score of 0.5 (`xy_gate`).
* The bound of 1.0 in `ScoreGated` is for a list without repeated names: the sum
  runs over the list, so a name that stands there twice counts twice. `spatial_z` and
  `spatial_t` have no default weight and count nothing unless the weights name
  them.
* The asynchronous trainer saves its last version only if it is a multiple of
  `save_freq`; the one-step-off trainer's validation after step k measures the
  weights before the update of step k on its servers. Neither is promised
  otherwise.

### Bounds

*Asynchronous job.* `Total` (2 to 6 samples) bounds every behaviour. `Required`
and `Trigger` are 1 or 2, so that at least two synchronizations happen while
samples are in generation; `ServerSlots` and `PendingMax` are small enough that
the concurrency limit, the full pending queue and the full message queue are
reached. `MaxFail` bounds the failing generations. The threshold is a fraction
`StaleNum / StaleDen`.

*Message queue* (a part of `components`). Two messages (one is the marker), a
queue of two, four puts: full, empty, dropped and cleared queues in every order.

*Partial rollout.* One agent with tools and one without, two servers, two
interruptions, three response tokens and a cache of one entry: interruptions
before, during and after generation, twice in one output, and evictions.

*Components.* Two actors and one rollout rank, five parameters, buckets of two cells and two
rounds; five weights, two receivers, a chain of three; three requests, buckets of
one second with one cost below and one above their size, a time-out; two epochs of three
batches with two crashes for the one-step-off job; seven samples, windows of
four, every second version saved unless the end of the instance forces it, two
crashes for the asynchronous one; four batch shapes, with and without
sequence parallelism and with a last mini-batch that is not full; three prompts
with two copies on two agent workers; seven lists of rewards, one with a repeated
name, and three tables of weights; four tables of ratios, one with a tie to be
rounded and one whose cycle is not compacted, and two batches; four SFT epochs of two
batches with two deaths. The requests and the NCCL receivers are interchangeable and
treated by symmetry; no liveness is checked in this run (`ImplementsLossyLog` is
a safety property, and no symmetric value occurs in the queue). `MaxStep` is beyond
every step reached.

*DAPO.* Three batches per epoch and two epochs for five steps, with dynamic
sampling, so that the job may end with its last step, with its data or with
`max_num_gen_batches`; a generation that keeps every prompt is what a job
without dynamic sampling makes of each (`dapo_torn_tracker` has the filter off,
and the proofs cover both). Two crashes: resuming in the middle and at the end of
an epoch, a crash after a resume, and a rotation that removes something.
`MaxStep = TotalSteps + MaxCrash` is not a restriction: `TypeCorrect` proves that
no step beyond it is reached.

### Fairness

asyncio runs ready callbacks first come first served, so a coroutine that
becomes able to run again and again runs: strong fairness for each coroutine and
each task of the rollouter. Generation on a server ends (no fairness is assumed
on failures). The trainer and the DAPO process are sequential processes that go
on: weak fairness. No fairness is assumed on crashes.

## 4. Proofs

TLAPS checks the following for every value of the constants. The inductive
invariants were checked with TLC before they were proved.

### The message queue (`MessageQueueProofs`)

`TypeCorrect`, `RecentPast`, `Accounted`, from the inductive invariant `Inv`
(the three properties together: which suffix of the history the queue is follows
only with the counters, the counters only with the bound of the deque), and
`Refinement`: the initial states of the queue are those of `LossyLog` and every
step is a step of it or a stutter.

### The asynchronous job (`FullyAsyncProofs`)

`VersionsStayInStep`, `ValidationIsLogged`, `TypeCorrect`,
`MarkerReachesTrainer`, `SamplesConserved`, `InFlightIsBounded`, `SyncIsQuiet`,
`TrainingIsOnPolicy`, each on top of the ones before:

* `SyncInv`: where each copy of the version stands in each phase of the
  synchronizer's call. It is inductive by itself and gives `VersionsInStep`.
* `LogInv`: the validation records put so far are numbered from 0 through the
  trainer's log and on through the queue, and their number follows from the
  phase. Without it nothing ties the end of the trainer to an empty queue.
* `LockInv`: the FIFO of the asyncio lock holds exactly the coroutines whose
  place is at or inside a locked section, each once, and one that an await
  interrupts inside its section is the head. Every step does one of a few things
  to the FIFO (`LockMove`), which is proved once.
* `CapInv`, from `LockInv`: never more than `max_concurrent_samples` tasks, one
  less while a sample waits to be submitted. The processor checks the number and
  submits under the lock, but other coroutines run in between.
* `MarkerInv`, from `CapInv`: while the trainer wants the finish signal, the
  entries behind it and the tasks that may still put a sample are fewer than the
  queue is long. This is why the signal survives: the bound of the queue is
  above the number of tasks.
* `ConsInv`, `HandInv`: each sample is in at most one place, and the number of
  samples in no place is bounded by the failures, the drops and the batch given
  up. A step moves one sample or loses one; sets of samples are compared by
  cardinality.
* `FlyInv`: the samples in flight (`Flying`) are at most `staleness_samples` and
  the one in the processor's hand, and while `update_param_version` adds up its
  new value the partial sum covers those it has looked at. The processor takes a
  sample only while `staleness_samples` is below `max_required_samples`.

`SyncIsQuiet` and `TrainingIsOnPolicy` are about threshold 0, where
`max_required_samples` is exactly what a round trains on:

* `FeedInv`: the processor never submits nothing, and the finish signal is not
  in the queue before the processor has ended;
* `RoundInv`: `taken` is at most `max_required_samples` for each version so far,
  `staleness_samples` says how many of them belong to the present round, and
  `trained` holds all of the earlier rounds. No sample is in flight and trained
  on at once, so `|Flying| + Len(trained) <= taken` (`TakenCovers`, from
  `ConsInv`). After the last batch of a round the two bounds meet: nothing is in
  flight, whatever the monitor does to `paused`, until the next version is
  counted in;
* `FreshInv`: hence every sample on its way to the trainer has the rollouter's
  version, and the trainer's, until the trainer is told that no more will come.

The attempt to prove freshness for every threshold below 1 failed on a state
TLC then reached with more samples; the property was wrong, not the proof, and
is now stated for threshold 0 (section 3).

`EverySampleTrained`, also for threshold 0, is that nothing is left behind when
generations succeed. What could be: a sample interrupted into `cancel_queue`, a
task lost from `active_tasks`, an entry dropped or overtaken by the finish signal.

* `BootInv`: until the processor has waited for a task once, nobody else has had
  the lock, so its first wait finds the tasks it submitted;
* `EndInv`: without failures the processor ends only by the end signal of the
  feeder, with no task left;
* `PauseInv`: with `RoundInv`, nothing is in flight from the end of a round until
  the rollouter resumes. A monitor that found the rollouter free before that
  stands before `pause` in the FIFO of the lock (`MonFirst`), so it cannot undo
  the pause;
* `ServerInv`, `CancelInv`: the servers interrupt only while they are paused, and
  then there is nothing to interrupt: `cancel_queue` stays empty;
* `LastInv`: nothing is dropped (by `MarkerInv`'s counting) and the finish signal
  is the last entry;
* `WholeBatches`: what is trained on is a number of whole batches.

### Partial rollout (`PartialRolloutProofs`)

`OutputIsContinued`, `VersionsAreRecorded`, `ServersStayEven`. `PartialInv` adds

* `AgentInv`: of every output, whatever its state: tokens, mask and
  log-probabilities line up (`Aligned`); a token's version is between those
  recorded and none is before an earlier one's (`Dated`); a tool or user answer
  follows a turn that left room for it (`Spoken`), so the log-probabilities are
  extended with the rest;
* `CallInv`: a call under way continues the output its agent holds, its tokens
  are those that follow and of versions up to the servers' present one, so that
  what comes back can be appended;
* `SessionInv`: the loads of two servers differ by at most one, and the LRU
  cache has one entry for a session.

The server with the least load exists because the natural numbers are
well-founded (`LeastNatural`).

### The DAPO trainer (`DapoTrainerProofs`)

For `MaxKeep # 1`: `TypeCorrect`, `LatestIsComplete`, `DataStaysInStep`,
`BatchIsOnPolicy`. None is inductive. `Inv` adds

* `StepInv`: while a step is under way the tracker is behind `global_steps`, so
  the folder being written is not the one the tracker names;
* `PathInv`: in `previous_saved_paths` the tracker's step can only be the last
  entry, and rotation with `MaxKeep >= 2` never removes the last entry;
* `DiskInv`, `DataInv`: what the save under way has written is what is in
  memory, so writing the tracker publishes a whole checkpoint whose data
  position is that of its weights;
* `BatchInv`: the accumulated prompts are of the current weights and as many as
  `num_prompt_in_batch`.

`KeptAtMostPerRun` rests on `KeepInv`: the folders on disk are those of a set
left by the runs that died, of at most `MaxKeep` for each, and those this run
still remembers, which rotation keeps below its bound.

`StepsNameUpdates` and `FinalCheckpointIsSaved` are proved with and without
dynamic sampling, for as long as the data lasts. `CountInv` says that the steps
made and the updates of the weights agree and that a folder holds as many updates
as its name says; it holds until `EndOfData` is taken, which sets `spent`.

`DataSuffices` proves when that never happens (`EnoughData`): without dynamic
sampling, with more than one epoch, and epochs that hold the batches of all
steps. `LastsInv` counts the batches fetched, which are never ahead of the steps.
More than one epoch is needed: a job that resumes at the end of its only epoch
has no data left.

### The other trainers

`ResumeProofs`: `PipelineHolds` and `OrderHolds` of the one-step-off trainer, for
every `MaxKeep`. `Inv` adds

* `StepInv`: `global_steps` is beyond the tracker until the tracker is written,
  so a save never touches the data position of the latest checkpoint (rotation
  removes actor folders only);
* `AgeInv`: the age of the batch on its way, of the current batch and of the
  servers' weights at every place of `fit`;
* `PlaceInv`: the loader stands at the batch on its way, which is the one after
  the weights', or one further in the first step of a process;
* `DiskInv`: a saved position is that of the saved weights or one batch ahead.

`SamplesStayAccounted` of the restarts of the asynchronous job, from `ResumeInv`:

* `SampleInv`: the samples given out are trained on, on their way, or were on
  their way when an earlier run died, at most as many as fit in flight for each;
* `RoundInv`: the size of what is trained on is a round per version, a batch for
  each `local_trigger_step`, and an excess for each restart from weights that hold
  a part of a round;
* `SaveInv`, `WholeInv`: the version being saved is beyond the tracker's, and
  without an announced expiry only whole rounds are saved;
* `CkptInv`: what the tracker names is `Resumable`, and what the save under way
  has written will be when the tracker is written.

`SftAlwaysResumes` of the supervised trainer, for `MaxKeep # 1` (with 1, a kill in a
save leaves the tracker naming a removed or half-written folder; TLC shows it).
`SftInv` says that the counter is ahead of the tracker once a step was made
(`CounterInv`), that the folder the tracker names is not among those rotation
removes (`PathInv`), that it is complete and the one being saved complete so far
as it has been written (`FolderInv`), and that the loader fits the step, in memory
and on disk, and is at most an epoch ahead for each restart (`SftPlaceInv`).

### Weight transfer (`EngineProofs`)

`WeightsAlwaysLoaded` of the asynchronous job's broadcast. The layout is what
two loops compute, over the parameters and over the turns. `Stepwise` functions
and `UpTo` (what holds of 1, and of every number with the one before, holds up to
n) give what they leave behind: the offsets of a bucket grow by the parameters'
sizes, a bucket fits the buffer, every parameter is in exactly one bucket and
every bucket has one turn (`LayoutOK`). `TransferInv` is an invariant of each
rank, `RankInv`, and what the ranks share:

* `MainInv`: how many barriers a rank has come to follows from where it is, so
  whoever passes the last barrier knows all others at the end of the round;
* `TalkInv`: the two threads of a rank are at most one bucket apart, and the main
  thread passes the barrier of a bucket only when the one before was answered;
* `MemoryInv`: the device holds the source's bucket of this iteration, which was
  copied once for all turns of it;
* `NetInv`, `SentInv`: the sources send in the order of the schedule, each the
  bucket of its turn and of this round;
* `BufferInv`: the bucket under way, and the one being loaded, lie whole in their
  halves of the buffer. `Halves` says that the two do not overlap;
* `LoadedInv`: everything before the bucket being loaded is loaded, and of that
  one the first parameters.

The steps are proved for one rank at a time, about the values of its state
(`CopyStep`, `LoadStep`, ...); `OneRank` then says that the others notice nothing
but a longer `net`.

`NcclAlwaysDelivers` and `NixlAlwaysDelivers`. Both engines share `SenderInv`:
the bucket being filled holds consecutive weights one behind the other. For
NCCL, `OpInv` says that the bucket of the operation under way lies whole in the
other buffer until every receiver has it, and `ReceiverInv` counts operations
and weights: a receiver is at the operation of the sender or one behind, and
what it holds and has yielded are the weights up to there. For NIXL, `LinkInv`
says the same of each rank of the chain and the one before it: the bucket that
is announced or being read is the one the rank before still shows, since that
rank swaps its buffers only after it was told that the reading has ended.

### Data and rewards (`DataProofs`)

`PackingIsKept`, `MixtureIsKept` and `ScoresAreGated` are about sums, which the
models compute by folds. `SubsetInduction` (a set of subsets of a finite set that
holds a subset once it holds it without any one element holds them all) follows
from the least counterexample; with it `FoldExists` and `SumOnStep` say what a
fold over a set computes, and the rest is arithmetic.

* `PackInv`: the packs are sequences of sample lengths, and the counters agree
  with them; adding a sample first fit, opening a pack and yielding a batch each
  change one sum by one term.
* `MixInv`: for some number c of whole cycles, every dataset has been drawn from
  c times its target and, but for what remains of it, once more (`Cycles`). The
  targets, rounded and reduced by their greatest common divisor, are in proportion
  to the ratios where the base cycle can be divided that way
  (`TargetsProportional`).
* `ScoreInv`, `GateInv`: which rewards are computed at each place of
  `compute_score`, and that accuracy is positive only past the gate. A list
  without repeated names is added up by its names (`SumRenamed`), and `SumBelow`
  bounds that sum by the weights.

`RewardsPaired`: `PairInv` follows the answers and scores through the forward
and the inverse call (`Mixed` is what concatenation leaves of the workers'
scores). `LimitsHold`: `CreditInv` compares the bucket, which is refilled when it
is asked, with one refilled at every tick; `OwedInv` says that tokens taken in
advance by requests larger than the bucket have been refilled by the time any of
these may go on; `CallInv` that a coroutine which runs holds the semaphore.

### The path of a batch (`BatchFlowProofs`)

`RowsAreKept` and `RanksRunInStep`, for every batch, mesh and length of the rows.
What the code sorts and joins, `SeqlenBalancing` defines without recursion:
`Arranged` puts an element behind as many as precede it, and the merges of
Karmarkar-Karp are a recursive function of their number. The lemmas climb from
there:

* a sequence that `Lists` a set holds every element of it once; `Rearranged`
  sequences hold the same elements as often. Sorting rearranges
  (`SortRearranges`), and joining the parts of a partition lists what they
  partition (`FlattenLists`);
* `KarmarkarSplits`: each State of the heap is disjoint from the others, their
  rows together are all rows (`Pile`), and a merge keeps it so; hence the
  partitions of `get_seqlen_balanced_partitions` split the rows
  (`PartitionsSplit`), and those of the groups and of the mini-batches do
  (`GroupPartitions`, `MiniPartitions`);
* `restore_dynamic_batch` undoes the micro-batches (`Restored`), and the pieces
  of `chunk` and `split` are disjoint and complete (`ChunksAre`, `PiecesSplit`).

`FlowInv` then follows the batch: it lists the rows while it is generated and
balanced (`BatchReady`), each worker holds its chunk, and the micro-batches of a
finished round split the rows of it into as many parts as the all-reduce said
(`WorkersInv`); when the step is done, the rounds of the collecting workers
together are every row once (`OnceEach`).

### Assumptions and limits

The assumptions are the ranges of the constants (`TrainerAssumption`,
`MaxStepAssumption`, `MaxKeepAssumption`, `MaxStepIsEnough`,
`MaxQueueSizeAssumption`, `OffAssumption`, `JobAssumption`,
`ConstantsAssumption`, `TestFreqAssumption`, `TransferAssumption`,
`BucketAssumption`, `ChainAssumption`, `SftAssumption`, `PartialAssumption`,
`LimiterAssumption`, `RewardShape`, `CombinedAssumption`, `TarAssumption`,
`FlowAssumption`, `MiniAssumption`), which TLC evaluates in the runs. The last two
state what the code asserts of the mini-batches: none is empty on a rank, and
`keep_minibatch`, which is off in `ray_trainer.py`, cuts them evenly.

The SMT backend's axiom about `Len` says more than is true of functions that are
not sequences (`DOMAIN s = 1 .. n <=> Len(s) = n`, for all s). All proofs were also
checked with that axiom weakened to the direction that holds, so none of them
rests on it.

The `TypeOK` of the message queue and of the asynchronous job are proved and not
part of a run. Only model-checked are

* everything under fairness (`Termination`, `CancelReturns`, `SampleCompletes`
  and the like), which the prover cannot treat;
* `BalanceKept` of `BatchFlow`: it needs the sums of the rows along the merges
  of Karmarkar-Karp.

## 5. Not modelled

The reasons are with each component in `PROJECT.json`. In short: models,
losses, advantages, engines (FSDP, Megatron, vLLM, SGLang) and the geometry of
the spatial rewards are real-valued tensor computation; decoding, tokenization,
templates and answer parsing are text and I/O; the VLA experiments and the
transfer queue are not part of the FactoSR pipeline. These are most of the
repository's lines, which is why the map covers a small share of them while it
covers the code that coordinates processes, restarts, batches and data.

Of the modelled parts, these cases are left out and worth knowing:

* a ZMQ subscriber that is not ready when the NCCL engine publishes its first
  metadata (nccl_checkpoint_engine.py, 173): delivery is assumed;
* a tool call cut in two by an interruption, which is parsed from its last part
  only (partial_tool_agent_loop.py, 220);
* `inverse_answer` lengths overwriting `valid_response_length` in the DAPO
  reward manager (dapo.py, 117), and the `meta_info` of all but the first worker;
* the reward loop manager, which is not created when `use_rm` is off;
* the commented-out validation and end of training of the SFT trainer.

## 6. Plan

1. Proofs: `BalanceKept`, with the spread of a merged pile compared to those of
   its two parts along the loop of Karmarkar-Karp.
2. An abstract specification of the checkpoint store and of a weight transfer,
   which the three engines implement.
3. The composition of `PartialRollout` with `Rollouter`.
