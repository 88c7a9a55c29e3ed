----------------------------- MODULE OneStepOff -----------------------------
(***************************************************************************)
(* The one-step-off-policy trainer                                         *)
(* (verl/experimental/one_step_off_policy/ray_trainer.py, fit): the batch  *)
(* of the next step is generated on servers of their own while the actor   *)
(* is updated on the present one.  With its checkpoints, which are those   *)
(* of the synchronous trainer, and restarts of the job.                    *)
(*                                                                         *)
(* The weights of the actor are the pair <<updates made, place of the last *)
(* batch trained on>>; a batch is its place in the data order and the      *)
(* number of updates the servers' weights had when it was generated.  What *)
(* fit does without giving up control is one step; the generation task     *)
(* runs in the steps of fit that await, the servers in between.            *)
(***************************************************************************)
EXTENDS CheckpointStore

CONSTANTS
  OffDataLen,    \* len(train_dataloader)
  OffEpochs,     \* trainer.total_epochs
  OffSteps,      \* total_training_steps
  OffSaveFreq,   \* trainer.save_freq
  OffTestFreq,   \* trainer.test_freq
  OffMaxCrash    \* bound: how often the process may die

ASSUME OffAssumption ==
  /\ OffDataLen \in Nat \ {0} /\ OffEpochs \in Nat \ {0} /\ OffSteps \in Nat \ {0}
  /\ OffSaveFreq \in Nat /\ OffTestFreq \in Nat /\ OffMaxCrash \in Nat
  /\ MaxStep >= OffSteps + OffMaxCrash + 1

VARIABLES
  at,          \* where fit is
  step,        \* global_steps
  round, next, \* of the continuous iterator: its epoch, its place in it
  future,      \* batch_data_future
  current,     \* the batch of this step
  actor,       \* weights of the actor
  rollout,     \* number of updates in the servers' weights
  fresh,       \* no step has been made since the process started
  died

loopVars == <<step, round, next, future, current, actor, rollout, fresh>>
offVars == <<storeVars, loopVars, at, died>>

NoBatch == [state |-> "none", place |-> 0, made |-> 0]
PlaceAfter(p) == (p % OffDataLen) + 1    \* places are 1 .. OffDataLen
OffEnded == at \in {"done", "unpackNone", "loadFailed"}

OffInit ==
  /\ StoreInit
  /\ at = "load" /\ step = 0 /\ round = 0 /\ next = 0
  /\ future = NoBatch /\ current = NoBatch
  /\ actor = <<0, 0>> /\ rollout = 0 /\ fresh = TRUE /\ died = 0

------------------------------------------------------------------------------
\* _async_gen_next_batch up to its first await: the next batch is taken and
\* handed to the servers; no batch is left: the task returns None.
NextBatch ==
  IF next < OffDataLen
    THEN /\ future' = [state |-> "generating", place |-> next + 1, made |-> rollout']
         /\ next' = next + 1 /\ UNCHANGED round
    ELSE IF round + 1 < OffEpochs
    THEN /\ future' = [state |-> "generating", place |-> 1, made |-> rollout']
         /\ next' = 1 /\ round' = round + 1
    ELSE /\ future' = [NoBatch EXCEPT !.state = "None"]
         /\ UNCHANGED <<next, round>>

SyncRolloutWeights == rollout' = actor'[1]

\* Mutant: the position of the data loader is not restored.
SavedPlaceLost == 0

SavedPlace == IF disk[tracker].data = "complete" THEN disk[tracker].pos ELSE 0

\* _load_checkpoint, sync_rollout_weights and the first task, which starts when
\* it is awaited.
OffLoad ==
  /\ at = "load" /\ (NothingSaved \/ Loadable)
  /\ IF NothingSaved
       THEN step' = 1 /\ UNCHANGED <<actor, next>>
       ELSE /\ step' = tracker + 1 /\ actor' = disk[tracker].weights
            /\ next' = SavedPlace
  /\ SyncRolloutWeights
  /\ at' = "start"
  /\ UNCHANGED <<storeVars, round, future, current, fresh, died>>

OffLoadFails ==
  /\ at = "load" /\ ~ NothingSaved /\ ~ Loadable
  /\ at' = "loadFailed"
  /\ UNCHANGED <<storeVars, loopVars, died>>

FirstTask ==
  /\ at = "start"
  /\ UNCHANGED rollout /\ NextBatch
  /\ at' = "await"
  /\ UNCHANGED <<storeVars, step, current, actor, fresh, died>>

\* The servers finish the generation.
ServersDone ==
  /\ future.state = "generating"
  /\ future' = [future EXCEPT !.state = "ready"]
  /\ UNCHANGED <<storeVars, step, round, next, current, actor, rollout, fresh, at, died>>

\* Mutant: the weights are transferred before the batch is awaited.
AwaitedNot == future.state \in {"generating", "ready"}

\* await batch_data_future
Awaited == future.state = "ready"

OffLast == step >= OffSteps

\* The batch is there: the weights are transferred and, unless this is the last
\* step, the next generation is started.
TakeBatch ==
  /\ at = "await" /\ Awaited
  /\ current' = future
  /\ at' = "sync"
  /\ UNCHANGED <<storeVars, step, round, next, future, actor, rollout, fresh, died>>

\* The task has returned None, which cannot be unpacked.
UnpackNone ==
  /\ at = "await" /\ future.state = "None"
  /\ at' = "unpackNone"
  /\ UNCHANGED <<storeVars, loopVars, died>>

Transfer ==
  /\ at = "sync"
  /\ UNCHANGED actor /\ SyncRolloutWeights
  /\ IF OffLast THEN future' = NoBatch /\ UNCHANGED <<next, round>> ELSE NextBatch
  /\ at' = "update"
  /\ UNCHANGED <<storeVars, step, current, fresh, died>>

UpdateActor ==
  /\ at = "update"
  /\ actor' = <<actor[1] + 1, current.place>>
  /\ fresh' = FALSE
  /\ at' = IF OffTestFreq > 0 /\ (OffLast \/ step % OffTestFreq = 0)
             THEN "validate" ELSE "check"
  /\ UNCHANGED <<storeVars, step, round, next, future, current, rollout, died>>

\* _validate runs on the servers, next to the generation of the next batch.
Validate ==
  /\ at = "validate" /\ at' = "check"
  /\ UNCHANGED <<storeVars, loopVars, died>>

OffCheckSave ==
  /\ at = "check"
  /\ \E esi \in BOOLEAN :
       IF OffSaveFreq > 0 /\ (OffLast \/ step % OffSaveFreq = 0 \/ esi)
         THEN at' = "save" /\ SaveBegin /\ UNCHANGED <<tracker, disk, saved_paths>>
         ELSE at' = "finish" /\ UNCHANGED storeVars
  /\ UNCHANGED <<loopVars, died>>

OffSave ==
  /\ at = "save"
  /\ SaveStep(step, actor, next)
  /\ at' = IF save' = "none" THEN "finish" ELSE "save"
  /\ UNCHANGED <<loopVars, died>>

OffFinish ==
  /\ at = "finish"
  /\ step' = step + 1 /\ current' = NoBatch
  /\ at' = IF OffLast THEN "done" ELSE "await"
  /\ UNCHANGED <<storeVars, round, next, future, actor, rollout, fresh, died>>

\* The process is killed and started again.
OffCrash ==
  /\ ~ OffEnded /\ died < OffMaxCrash
  /\ died' = died + 1
  /\ StoreCrash
  /\ at' = "load" /\ step' = 0 /\ round' = 0 /\ next' = 0
  /\ future' = NoBatch /\ current' = NoBatch
  /\ actor' = <<0, 0>> /\ rollout' = 0 /\ fresh' = TRUE

OffStep ==
  \/ OffLoad \/ OffLoadFails \/ FirstTask \/ ServersDone
  \/ TakeBatch \/ UnpackNone \/ Transfer \/ UpdateActor
  \/ Validate \/ OffCheckSave \/ OffSave \/ OffFinish

OffNext == OffStep \/ OffCrash

OffStop == OffEnded /\ UNCHANGED offVars

OffSpec == OffInit /\ [][OffNext \/ OffStop]_offVars

------------------------------------------------------------------------------
(* Properties                                                                *)

\* fit trains on a batch whose responses come from the weights one update
\* before the present ones; only the first batch of a process is on policy.
OneStepBehind ==
  at = "update" => current.made = actor[1] - IF fresh THEN 0 ELSE 1

\* sync_rollout_weights never changes the weights of servers that are
\* generating: the batch is awaited first, the next one started afterwards.
NoTornBatch == at = "sync" => future.state # "generating"

\* The pipeline of fit: a batch is exactly one update old, and of one version.
OneStepPipeline == OneStepBehind /\ NoTornBatch

\* The batches are trained on in the order of the data, and each restart skips
\* at most one: when the checkpoint was written, the loader had already given
\* the batch of the next step to the servers.
BatchesInOrder ==
  at = "update" =>
    \/ current.place = PlaceAfter(actor[2])
    \/ fresh /\ current.place = PlaceAfter(PlaceAfter(actor[2]))

\* A job that was killed resumes from its latest checkpoint and goes on to its
\* last step ("auto: resume from last checkpoint if available").
ResumedJobGoesOn == at # "unpackNone"
=============================================================================
