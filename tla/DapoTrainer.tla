---------------------------- MODULE DapoTrainer ----------------------------
(***************************************************************************)
(* The synchronous DAPO trainer (recipe/dapo/dapo_ray_trainer_for_tar.py,  *)
(* fit) with its checkpoints, and the restarts of the job.                 *)
(*                                                                         *)
(* A prompt is represented by the number of updates the weights had when   *)
(* its responses were generated.  Which prompts the group filter keeps is  *)
(* not determined by the program: any number of them.  The weights are the *)
(* pair <<updates made, place reached in the data order>>, the second      *)
(* component being a history variable.  The stateful data loader is a      *)
(* position in an epoch of DataLen batches.                                *)
(***************************************************************************)
EXTENDS CheckpointStore, FiniteSets

CONSTANTS
  DataLen,     \* len(train_dataloader)
  Epochs,      \* trainer.total_epochs
  TotalSteps,  \* total_training_steps
  BatchSize,   \* data.train_batch_size
  GenSize,     \* data.gen_batch_size
  Filter,      \* algorithm.filter_groups.enable
  MaxGen,      \* filter_groups.max_num_gen_batches, 0 for no limit
  SaveFreq,    \* trainer.save_freq
  MaxCrash     \* bound: how often the process may die

ASSUME TrainerAssumption ==
  /\ DataLen \in Nat \ {0} /\ Epochs \in Nat \ {0} /\ TotalSteps \in Nat \ {0}
  /\ BatchSize \in Nat \ {0} /\ GenSize \in Nat \ {0}
  /\ Filter \in BOOLEAN /\ MaxGen \in Nat /\ SaveFreq \in Nat /\ MaxCrash \in Nat

\* A checkpoint can be named after any step the job can be at.
ASSUME MaxStepIsEnough == MaxStep >= TotalSteps + MaxCrash

VARIABLES
  pc, global_steps, epoch, pos, batch, num_prompt_in_batch, num_gen_batches,
  weights,     \* of the actor in memory
  crashes,
  spent        \* history: the data was used up before the last step

runVars == <<global_steps, epoch, pos, batch, num_prompt_in_batch,
             num_gen_batches, weights>>
vars == <<storeVars, runVars, pc, crashes, spent>>

Updates(w) == w[1]
Reached(w) == w[2]
Ended == pc \in {"done", "raised", "failed"}
NextPlace(r) == IF r + 1 = DataLen THEN 0 ELSE r + 1

\* Mutant: one step too many.
IsLastStepLate == global_steps > TotalSteps

IsLastStep == global_steps >= TotalSteps

Init ==
  /\ StoreInit
  /\ pc = "load" /\ global_steps = 0 /\ epoch = 0 /\ pos = 0
  /\ batch = <<>> /\ num_prompt_in_batch = 0 /\ num_gen_batches = 0
  /\ weights = <<0, 0>>
  /\ crashes = 0 /\ spent = FALSE

------------------------------------------------------------------------------
(* _load_checkpoint, then "we start from step 1"                             *)

LoadScratch ==
  /\ pc = "load" /\ NothingSaved
  /\ pc' = "fetch" /\ global_steps' = 1
  /\ UNCHANGED <<storeVars, epoch, pos, batch, num_prompt_in_batch,
                 num_gen_batches, weights, crashes, spent>>

Resume(step, p) ==
  /\ pc = "load" /\ Loadable
  /\ pc' = "fetch" /\ global_steps' = step
  /\ weights' = disk[tracker].weights
  /\ pos' = p
  /\ UNCHANGED <<storeVars, epoch, batch, num_prompt_in_batch, num_gen_batches,
                 crashes, spent>>

SavedPos == IF disk[tracker].data = "complete" THEN disk[tracker].pos ELSE 0

\* Mutant: the step after the saved one is not entered.
LoadSameStep == Resume(tracker, SavedPos)

\* Mutant: the position of the data loader is not restored.
LoadNoData == Resume(tracker + 1, 0)

LoadCheckpoint == Resume(tracker + 1, SavedPos)

\* An empty tracker file, a missing or torn file of the actor, a torn data.pt.
LoadFails ==
  /\ pc = "load" /\ ~ NothingSaved /\ ~ Loadable
  /\ pc' = "failed"
  /\ UNCHANGED <<storeVars, runVars, crashes, spent>>

------------------------------------------------------------------------------
(* The loop over epochs and batches                                          *)

\* A batch is fetched, generated and rewarded; the filter keeps some prompts.
Generate(kept) ==
  /\ pc = "fetch" /\ pos < DataLen
  /\ pos' = pos + 1
  /\ weights' = <<Updates(weights), NextPlace(Reached(weights))>>
  /\ num_gen_batches' = num_gen_batches + 1
  /\ LET new == [i \in 1 .. kept |-> Updates(weights)] IN
       IF Filter
         THEN /\ batch' = batch \o new
              /\ num_prompt_in_batch' = num_prompt_in_batch + kept
         ELSE batch' = new /\ UNCHANGED num_prompt_in_batch
  /\ pc' = "check"
  /\ UNCHANGED <<storeVars, global_steps, epoch, crashes, spent>>

Enough == Filter => num_prompt_in_batch >= BatchSize

KeepGenerating ==
  /\ pc = "check" /\ ~ Enough
  /\ MaxGen > 0 => num_gen_batches < MaxGen
  /\ pc' = "fetch"
  /\ UNCHANGED <<storeVars, runVars, crashes, spent>>

GeneratedTooMany ==
  /\ pc = "check" /\ ~ Enough
  /\ MaxGen > 0 /\ num_gen_batches >= MaxGen
  /\ pc' = "raised"
  /\ UNCHANGED <<storeVars, runVars, crashes, spent>>

Align ==
  /\ pc = "check" /\ Enough
  /\ batch' = IF Filter THEN SubSeq(batch, 1, BatchSize) ELSE batch
  /\ pc' = "update"
  /\ UNCHANGED <<storeVars, global_steps, epoch, pos, num_prompt_in_batch,
                 num_gen_batches, weights, crashes, spent>>

\* Mutant: the last step is saved only when save_freq divides it.
ShouldSaveNotLast == SaveFreq > 0 /\ global_steps % SaveFreq = 0

ShouldSave == SaveFreq > 0 /\ (IsLastStep \/ global_steps % SaveFreq = 0)

Update ==
  /\ pc = "update"
  /\ weights' = <<Updates(weights) + 1, Reached(weights)>>
  /\ IF ShouldSave
       THEN pc' = "save" /\ SaveBegin /\ UNCHANGED <<tracker, disk, saved_paths>>
       ELSE pc' = "finish" /\ UNCHANGED storeVars
  /\ UNCHANGED <<global_steps, epoch, pos, batch, num_prompt_in_batch,
                 num_gen_batches, crashes, spent>>

Save ==
  /\ pc \in {"save", "finalSave"}
  /\ SaveStep(global_steps, weights, pos)
  /\ pc' = IF save' # "none" THEN pc
             ELSE IF pc = "save" THEN "finish" ELSE "done"
  /\ UNCHANGED <<runVars, crashes, spent>>

EndStep(newBatch) ==
  /\ pc = "finish"
  /\ batch' = newBatch /\ num_prompt_in_batch' = 0 /\ num_gen_batches' = 0
  /\ IF IsLastStep
       THEN pc' = "done" /\ UNCHANGED global_steps
       ELSE pc' = "fetch" /\ global_steps' = global_steps + 1
  /\ UNCHANGED <<storeVars, epoch, pos, weights, crashes, spent>>

\* Mutant: the batch is not cleared.
FinishKeepsBatch == EndStep(batch)

Finish == EndStep(<<>>)

\* Mutant: the data is started over for as long as the batch is not full.
NextEpochUncounted ==
  /\ pc = "fetch" /\ pos >= DataLen
  /\ epoch + 1 < Epochs
  /\ pos' = 0 /\ num_gen_batches' = 0
  /\ UNCHANGED <<storeVars, global_steps, epoch, batch, num_prompt_in_batch,
                 weights, pc, crashes, spent>>

\* The epochs are counted from 0 again after a restart.
NextEpoch ==
  /\ pc = "fetch" /\ pos >= DataLen
  /\ epoch + 1 < Epochs
  /\ epoch' = epoch + 1 /\ pos' = 0
  /\ UNCHANGED <<storeVars, global_steps, batch, num_prompt_in_batch,
                 num_gen_batches, weights, pc, crashes, spent>>

\* The data is used up before the last step: save unless the folder exists.
EndOfData ==
  /\ pc = "fetch" /\ pos >= DataLen
  /\ epoch + 1 >= Epochs
  /\ IF DirExists(global_steps)
       THEN pc' = "done" /\ UNCHANGED storeVars
       ELSE /\ pc' = "finalSave" /\ SaveBegin
            /\ UNCHANGED <<tracker, disk, saved_paths>>
  /\ spent' = TRUE
  /\ UNCHANGED <<runVars, crashes>>

\* The process is killed and started again.
Crash ==
  /\ ~ Ended /\ crashes < MaxCrash
  /\ crashes' = crashes + 1
  /\ StoreCrash
  /\ pc' = "load" /\ global_steps' = 0 /\ epoch' = 0 /\ pos' = 0
  /\ batch' = <<>> /\ num_prompt_in_batch' = 0 /\ num_gen_batches' = 0
  /\ weights' = <<0, 0>>
  /\ UNCHANGED spent

Step ==
  \/ LoadScratch \/ LoadCheckpoint \/ LoadFails
  \/ \E kept \in IF Filter THEN 0 .. GenSize ELSE {GenSize} : Generate(kept)
  \/ KeepGenerating \/ GeneratedTooMany \/ Align
  \/ Update \/ Save \/ Finish \/ NextEpoch \/ EndOfData

Stop == Ended /\ UNCHANGED vars

Next == Step \/ Crash \/ Stop

Spec == Init /\ [][Next]_vars
FairSpec == Spec /\ WF_vars(Step)

------------------------------------------------------------------------------
(* Properties                                                                *)

\* The variables of fit and of the checkpoint folder have the values they may.
TypeOK ==
  /\ StoreTypeOK
  /\ pc \in {"load", "fetch", "check", "update", "save", "finish", "finalSave",
             "done", "raised", "failed"}
  /\ global_steps \in 0 .. MaxStep
  /\ epoch \in 0 .. Epochs - 1
  /\ pos \in 0 .. DataLen
  /\ batch \in Seq(Nat)
  /\ num_prompt_in_batch \in Nat /\ num_gen_batches \in Nat
  /\ weights \in Nat \X Nat
  /\ crashes \in 0 .. MaxCrash /\ spent \in BOOLEAN

\* Wherever the process dies, the checkpoint the tracker file names is whole:
\* actor and data.pt are complete.  _save_checkpoint writes the tracker last.
LatestComplete ==
  tracker \in Steps =>
    disk[tracker].actor = "complete" /\ disk[tracker].data = "complete"

\* Wherever the process dies, the job can be resumed: what the tracker file and
\* the checkpoint folder hold can be loaded ("for atomic usage").
ResumeSucceeds == pc # "failed"

\* The weights in memory and the data loader are at the same place of the data
\* order, across any restart: no batch is skipped or trained on twice.
DataInStep ==
  pc \notin {"load", "failed"} =>
    Reached(weights) = IF pos = DataLen THEN 0 ELSE pos

\* Checkpoint global_step_k holds the weights after k updates, and the step
\* counter of fit is in step with the updates of the weights it trains, over
\* any number of restarts, for as long as the data lasts: a job that runs out of
\* data saves a step that has made no update.
StepNamesUpdates ==
  ~ spent =>
    /\ \A k \in Steps : disk[k].actor = "complete" => Updates(disk[k].weights) = k
    /\ pc \in {"fetch", "check", "update"} => Updates(weights) = global_steps - 1

\* fit updates the actor on a whole batch, every prompt of which the weights it
\* updates have generated: nothing is carried over a step or a restart.
BatchOnPolicy ==
  pc = "update" =>
    /\ Filter => Len(batch) = BatchSize
    /\ \A i \in DOMAIN batch : batch[i] = Updates(weights)

Kept == {k \in Steps : disk[k].actor # "absent"}

\* Each run of the process leaves at most max_actor_ckpt_to_keep checkpoints of
\* the actor behind: the most a job that is restarted can leave.
KeepAtMostPerRun == MaxKeep > 0 => Cardinality(Kept) <= MaxKeep * (crashes + 1)

\* When fit returns and the data has lasted, the checkpoint of its last step
\* is the latest one and holds the weights it has trained.
FinalCheckpointSaved ==
  pc = "done" /\ SaveFreq > 0 /\ ~ spent =>
    tracker = global_steps /\ disk[global_steps].weights = weights

\* fit returns or raises: the retries of dynamic sampling use up the data.
Termination == <>Ended
=============================================================================
