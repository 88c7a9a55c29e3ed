---------------------------- MODULE AsyncResume ----------------------------
(***************************************************************************)
(* The checkpoints of the fully asynchronous job: the trainer's            *)
(* _check_save_checkpoint and _save_checkpoint, the rollouter's            *)
(* save_checkpoint, both load_checkpoint methods, and restarts of the job. *)
(*                                                                         *)
(* The queues and the generation between the feeder and the trainer are    *)
(* the set `flying' of at most FlyMax samples (Rollouter and FullyAsync    *)
(* model them, and InFlightBound bounds them); samples are numbered in the *)
(* order of the data, of which there is one epoch.  The weights are the    *)
(* set of the samples they have been trained on.                           *)
(***************************************************************************)
EXTENDS CheckpointStore, FiniteSets, FiniteSetsExt

CONSTANTS
  JobSamples,   \* len(train_dataloader), also total_rollout_steps
  JobRequired,  \* required_samples of a training step
  JobTrigger,   \* trigger_parameter_sync_step
  JobSaveFreq,  \* trainer.save_freq
  JobTestFreq,  \* rollout.test_freq
  FlyMax,       \* bound on the samples between the loader and the trainer
  JobMaxCrash   \* bound: how often the job may die

ASSUME JobAssumption ==
  /\ JobSamples \in Nat /\ JobRequired \in Nat \ {0} /\ JobTrigger \in Nat \ {0}
  /\ JobSaveFreq \in Nat /\ JobTestFreq \in Nat \ {0}
  /\ FlyMax \in Nat /\ FlyMax >= JobRequired /\ JobMaxCrash \in Nat
  /\ MaxStep * JobRequired * JobTrigger >= JobSamples

VARIABLES
  job,        \* where the trainer's fit is
  version,    \* current_param_version
  local,      \* local_trigger_step
  last_ckpt_version,
  trained,    \* the weights of the trainer
  feeding,    \* whether _feed_samples is still running
  fed,        \* global_steps of the rollouter
  reader,     \* position of the rollouter's data loader
  flying,     \* samples between the loader and the trainer
  esi,        \* the instance announces its expiry at some time
  restarts

trainerVars == <<version, local, last_ckpt_version, trained>>
feederVars == <<feeding, fed, reader>>
jobVars == <<storeVars, trainerVars, feederVars, job, flying, esi, restarts>>

Window == JobRequired * JobTrigger
JobEnded == job \in {"done", "loadFailed"}

JobInit ==
  /\ StoreInit
  /\ job = "load" /\ version = 0 /\ local = 1 /\ last_ckpt_version = 0
  /\ trained = {} /\ flying = {}
  /\ feeding = TRUE /\ fed = 1 /\ reader = 0
  /\ esi \in BOOLEAN /\ restarts = 0

------------------------------------------------------------------------------
\* Mutant: the position of the data loader is not restored.
SavedReaderLost == 0

SavedReader == IF disk[tracker].data = "complete" THEN disk[tracker].pos ELSE 0

FedAt(v) == v * Window + 1

\* load_checkpoint of the trainer, then of the rollouter
JobLoad ==
  /\ job = "load" /\ (NothingSaved \/ Loadable)
  /\ IF NothingSaved
       THEN UNCHANGED <<trainerVars, fed, reader>>
       ELSE /\ version' = tracker /\ last_ckpt_version' = tracker
            /\ trained' = disk[tracker].weights
            /\ fed' = FedAt(tracker) /\ reader' = SavedReader
            /\ UNCHANGED local
  /\ job' = "collect"
  /\ UNCHANGED <<storeVars, feeding, flying, esi, restarts>>

JobLoadFails ==
  /\ job = "load" /\ ~ NothingSaved /\ ~ Loadable
  /\ job' = "loadFailed"
  /\ UNCHANGED <<storeVars, trainerVars, feederVars, flying, esi, restarts>>

------------------------------------------------------------------------------
(* The rollouter: it goes on while the trainer saves                         *)

FeedSample ==
  /\ job \notin {"load", "loadFailed"} /\ feeding
  /\ reader < JobSamples /\ Cardinality(flying) < FlyMax
  /\ reader' = reader + 1
  /\ flying' = flying \cup {reader + 1}
  /\ IF fed >= JobSamples
       THEN feeding' = FALSE /\ UNCHANGED fed
       ELSE fed' = fed + 1 /\ UNCHANGED feeding
  /\ UNCHANGED <<storeVars, trainerVars, job, esi, restarts>>

FeedExhausted ==
  /\ job \notin {"load", "loadFailed"} /\ feeding
  /\ reader >= JobSamples
  /\ feeding' = FALSE
  /\ UNCHANGED <<storeVars, trainerVars, fed, reader, job, flying, esi, restarts>>

------------------------------------------------------------------------------
(* The trainer                                                               *)

NewVersion == version' = version + 1 /\ local' = 1

StillFlying(samples) == flying \ samples

\* A training step, and the synchronization after it when it is due.
TrainStep(samples) ==
  /\ job = "collect"
  /\ trained' = trained \cup samples
  /\ flying' = StillFlying(samples)
  /\ IF local < JobTrigger
       THEN local' = local + 1 /\ UNCHANGED version
       ELSE NewVersion
  /\ job' = "check"
  /\ UNCHANGED <<storeVars, feederVars, last_ckpt_version, esi, restarts>>

\* The queue's end marker comes before enough samples: the final parameter
\* synchronization, when validation or the weights are behind.
LastSync ==
  /\ job = "collect" /\ ~ feeding /\ Cardinality(flying) < JobRequired
  /\ version < MaxStep
  /\ IF version % JobTestFreq # 0 \/ local > 1
       THEN NewVersion
       ELSE UNCHANGED <<version, local>>
  /\ job' = "lastCheck"
  /\ UNCHANGED <<storeVars, feederVars, last_ckpt_version, trained, flying, esi,
                 restarts>>

\* _check_save_checkpoint, in the loop and once more at the end
CheckSave ==
  /\ job \in {"check", "lastCheck"}
  /\ \E expires \in {FALSE, esi} :
       IF /\ version # last_ckpt_version
          /\ JobSaveFreq > 0 /\ (version % JobSaveFreq = 0 \/ expires)
         THEN /\ job' = IF job = "check" THEN "save" ELSE "lastSave"
              /\ SaveBegin /\ UNCHANGED <<tracker, disk, saved_paths>>
         ELSE /\ job' = IF job = "check" THEN "collect" ELSE "done"
              /\ UNCHANGED storeVars
  /\ UNCHANGED <<trainerVars, feederVars, flying, esi, restarts>>

\* _save_checkpoint; data.pt is written by the rollouter's save_checkpoint.
JobSave ==
  /\ job \in {"save", "lastSave"}
  /\ SaveStep(version, trained, reader)
  /\ IF save' # "none"
       THEN UNCHANGED <<job, last_ckpt_version>>
       ELSE /\ job' = IF job = "save" THEN "collect" ELSE "done"
            /\ last_ckpt_version' = version
  /\ UNCHANGED <<version, local, trained, feederVars, flying, esi, restarts>>

\* The job is killed and started again.
JobCrash ==
  /\ ~ JobEnded /\ restarts < JobMaxCrash
  /\ restarts' = restarts + 1
  /\ StoreCrash
  /\ job' = "load" /\ version' = 0 /\ local' = 1 /\ last_ckpt_version' = 0
  /\ trained' = {} /\ flying' = {}
  /\ feeding' = TRUE /\ fed' = 1 /\ reader' = 0
  /\ UNCHANGED esi

JobNext ==
  \/ JobLoad \/ JobLoadFails \/ FeedSample \/ FeedExhausted
  \/ \E samples \in kSubset(JobRequired, flying) : TrainStep(samples)
  \/ LastSync \/ CheckSave \/ JobSave \/ JobCrash

JobSpec == JobInit /\ [][JobNext]_jobVars

------------------------------------------------------------------------------
(* Properties                                                                *)

\* No sample is trained on twice, whatever is killed and resumed: what the
\* loader still has to give, and what is on its way, is not in the weights.
\* The position in data.pt is never behind the weights next to it, although
\* the rollouter goes on between the two.
TrainedOnce == trained \cap flying = {} /\ \A s \in trained : s <= reader

\* "Directly saving the state of the dataloader will result in losing these
\* samples when resuming training": what is lost is at most what was on its way
\* between the loader and the trainer, once per restart.
LostAreInFlight ==
  Cardinality((1 .. reader) \ (trained \cup flying)) <= restarts * FlyMax

\* load_checkpoint derives the rollouter's global_steps from the version; it
\* counts the samples of the weights and those on their way, unless a save
\* forced before the next synchronization had trained on more than its version
\* says: by less than the samples of one synchronization, for each restart.
FedCountsSamples ==
  job # "load" /\ feeding /\ reader < JobSamples =>
    Cardinality(trained) + Cardinality(flying) - (fed - 1) \in
      0 .. IF esi THEN restarts * (JobTrigger - 1) * JobRequired ELSE 0

\* Killed and resumed wherever it may be, the job trains on no sample twice,
\* loses none but those on their way, and numbers the next ones accordingly.
SamplesAccounted == TrainedOnce /\ LostAreInFlight /\ FedCountsSamples
=============================================================================
