----------------------------- MODULE SftTrainer -----------------------------
(***************************************************************************)
(* The supervised trainer (fsdp_sft_trainer.py; fsdp_cot_trainer.py has    *)
(* the same fit): its loop over epochs and batches, its checkpoints, and   *)
(* restarts of the job.  A checkpoint here is the folder global_step_k as  *)
(* a whole: rotation removes data.pt with it, and the tracker is replaced  *)
(* by renaming a temporary file.                                           *)
(*                                                                         *)
(* The ranks run in step (the barriers around save_checkpoint) and are one *)
(* process here.  The weights are <<updates made, place of the last batch>>.*)
(***************************************************************************)
EXTENDS CheckpointStore

CONSTANTS
  SftLen,       \* len(train_dataloader), steps_per_epoch
  SftEpochs,    \* trainer.total_epochs
  SftSaveFreq,  \* trainer.save_freq
  SftMaxDied,   \* bound: how often the process may die
  SftHorizon    \* bound: the steps looked at of an endless stream

ASSUME SftAssumption ==
  /\ {SftLen, SftEpochs, SftSaveFreq} \subseteq Nat \ {0} /\ SftMaxDied \in Nat
  /\ SftHorizon \in Nat /\ MaxStep >= SftHorizon /\ MaxStep >= SftLen * SftEpochs

VARIABLES
  sftAt,       \* where fit is
  web,         \* _is_webdataset: an endless stream with no state to save
  sftStep,     \* global_step
  sftEpoch,    \* epoch
  sftPlace,    \* batches the loader has given in this epoch
  sftWeights,
  sftDied

runVars == <<sftStep, sftEpoch, sftPlace, sftWeights>>
sftVars == <<storeVars, runVars, sftAt, web, sftDied>>

SftInit ==
  /\ StoreInit
  /\ sftAt = "config" /\ web = FALSE
  /\ sftStep = 0 /\ sftEpoch = 0 /\ sftPlace = 0
  /\ sftWeights = <<0, 0>> /\ sftDied = 0

SftConfigure ==
  /\ sftAt = "config" /\ sftAt' = "load"
  /\ web' \in BOOLEAN
  /\ UNCHANGED <<storeVars, runVars, sftDied>>

------------------------------------------------------------------------------
\* Mutant: the loader starts at the beginning of the epoch.
RestoredPlaceNone == 0

\* _load_dataloader_state
RestoredPlace ==
  IF web \/ disk[tracker].data # "complete" THEN 0 ELSE disk[tracker].pos

StartEpoch == IF web THEN 0 ELSE tracker \div SftLen

\* load_checkpoint, and the epoch fit starts with.
SftLoad ==
  /\ sftAt = "load" /\ (NothingSaved \/ Loadable)
  /\ IF NothingSaved
       THEN UNCHANGED <<sftStep, sftEpoch, sftPlace, sftWeights>>
       ELSE /\ sftStep' = tracker /\ sftWeights' = disk[tracker].weights
            /\ sftEpoch' = StartEpoch
            /\ sftPlace' = RestoredPlace
  /\ sftAt' = "fetch"
  /\ UNCHANGED <<storeVars, web, sftDied>>

\* The next batch, global_step += 1 and training_step.
SftTrain ==
  /\ sftAt = "fetch" /\ sftEpoch < SftEpochs
  /\ IF web THEN sftStep < SftHorizon ELSE sftPlace < SftLen
  /\ sftPlace' = sftPlace + 1 /\ sftStep' = sftStep + 1
  /\ sftWeights' = <<sftWeights[1] + 1, sftPlace'>>
  /\ sftAt' = "check"
  /\ UNCHANGED <<storeVars, web, sftEpoch, sftDied>>

\* The last step is not saved as such, and does not end the loop either.
SftCheckSave ==
  /\ sftAt = "check"
  /\ IF sftStep % SftSaveFreq = 0
       THEN sftAt' = "save" /\ SaveBegin /\ UNCHANGED <<tracker, disk, saved_paths>>
       ELSE sftAt' = "fetch" /\ UNCHANGED storeVars
  /\ UNCHANGED <<runVars, web, sftDied>>

\* Rotation: the n oldest folders go, data.pt included.
SftRemove(n) ==
  /\ save = "rotate" /\ save' = "mkdir"
  /\ disk' = [k \in Steps |->
                IF \E i \in 1 .. n : saved_paths[i] = k THEN NoCheckpoint ELSE disk[k]]
  /\ saved_paths' = SubSeq(saved_paths, n + 1, Len(saved_paths))
  /\ UNCHANGED tracker

SftRotate == SftRemove(keep_start)

\* No state of the loader is saved for an endless stream.
SftNoData ==
  /\ web /\ save = "dataOpen" /\ save' = "truncate"
  /\ UNCHANGED <<tracker, disk, saved_paths>>

\* os.rename of the temporary tracker: the last file that is written.
SftRename ==
  /\ save = "truncate" /\ save' = "none"
  /\ tracker' = sftStep
  /\ UNCHANGED <<disk, saved_paths>>

SftSave ==
  /\ sftAt = "save"
  /\ \/ SftRotate \/ SaveMkdir(sftStep) \/ SaveActor(sftStep, sftWeights)
     \/ SftNoData \/ SftRename
     \/ ~web /\ (SaveDataOpen(sftStep) \/ SaveData(sftStep, sftPlace))
  /\ sftAt' = IF save' = "none" THEN "fetch" ELSE "save"
  /\ UNCHANGED <<runVars, web, sftDied>>

\* The loader is at its end: the next epoch, or the end of fit. A loader that
\* was restored at its end gives nothing in the epoch it was restored for.
SftNextEpoch ==
  /\ sftAt = "fetch" /\ ~web /\ sftPlace = SftLen
  /\ sftEpoch' = sftEpoch + 1 /\ sftPlace' = 0
  /\ sftAt' = IF sftEpoch' < SftEpochs THEN "fetch" ELSE "done"
  /\ UNCHANGED <<storeVars, sftStep, sftWeights, web, sftDied>>

\* A job that is restarted after its last epoch has no epoch to run.
SftNothingLeft ==
  /\ sftAt = "fetch" /\ sftEpoch >= SftEpochs
  /\ sftAt' = "done"
  /\ UNCHANGED <<storeVars, runVars, web, sftDied>>

SftCrash ==
  /\ sftAt \in {"fetch", "check", "save"} /\ sftDied < SftMaxDied
  /\ sftDied' = sftDied + 1 /\ StoreCrash
  /\ sftAt' = "load" /\ sftStep' = 0 /\ sftEpoch' = 0 /\ sftPlace' = 0
  /\ sftWeights' = <<0, 0>> /\ UNCHANGED web

SftNext ==
  \/ SftConfigure \/ SftLoad \/ SftTrain \/ SftCheckSave \/ SftSave
  \/ SftNextEpoch \/ SftNothingLeft \/ SftCrash

\* fit has returned, or the stream is looked at no further.
SftEnded == sftAt = "done" \/ (sftAt = "fetch" /\ web /\ sftStep = SftHorizon)

SftSpec == SftInit /\ [][SftNext]_sftVars

------------------------------------------------------------------------------
\* Whenever the process dies there is a checkpoint to go on from once there
\* was one: the tracker, replaced atomically, names a complete folder. (With
\* max_ckpt_to_keep = 1 it does not: the folder it names is removed before
\* the next one is written.)
AlwaysResumable == sftAt # "config" /\ MaxKeep # 1 /\ tracker # 0 => Loadable

\* The loader stands where the steps made say, across restarts: no batch of an
\* epoch is trained on twice or left out. (For max_ckpt_to_keep other than 1:
\* with 1, a kill in a save leaves a folder without data.pt for the tracker to
\* name.)
PlaceFollowsStep == ~web /\ sftAt \in {"fetch", "check"} => (sftPlace - sftStep) % SftLen = 0

\* A restart costs at most one epoch: the one that a loader restored at its end
\* spends on nothing.
EpochPerRestart == sftAt = "done" => sftStep + SftLen * sftDied >= SftLen * SftEpochs

\* A killed job goes on: from a complete checkpoint, at the place in the data
\* of its step, at the cost of at most one epoch for each restart, unless
\* max_ckpt_to_keep is 1.
SftResumes == AlwaysResumable /\ PlaceFollowsStep /\ EpochPerRestart
=============================================================================
