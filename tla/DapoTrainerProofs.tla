------------------------- MODULE DapoTrainerProofs -------------------------
(***************************************************************************)
(* Proofs about the synchronous trainer, for every value of the constants  *)
(* but MaxKeep = 1, for which LatestComplete does not hold.                *)
(***************************************************************************)
EXTENDS DapoTrainer, FiniteSetTheorems, TLAPS

Training == pc \in {"fetch", "check", "update"}
Saving == pc \in {"save", "finalSave"}
Writing == save \in {"rotate", "mkdir", "actor"}
Written == save \in {"dataOpen", "data", "truncate", "track"}

\* The step counter is ahead of the tracker while a step is under way.
StepInv ==
  /\ Saving <=> save # "none"
  /\ pc \notin {"load", "failed"} => global_steps \in 1 .. TotalSteps + crashes
  /\ Training \/ Saving => tracker < global_steps
  /\ pc \in {"finish", "done"} => tracker <= global_steps
  /\ pc = "load" => tracker < TotalSteps + crashes

\* The names in saved_paths: the step being saved is the last, if present, and
\* the step the tracker names is not among the others.
PathInv ==
  /\ pc \in {"load", "failed"} => saved_paths = <<>>
  /\ \A i \in 1 .. Len(saved_paths) : saved_paths[i] <= global_steps
  /\ Training \/ Writing =>
       \A i \in 1 .. Len(saved_paths) : saved_paths[i] < global_steps
  /\ \A i \in 1 .. Len(saved_paths) - 1 : saved_paths[i] < global_steps
  /\ ~ Written => \A i \in 1 .. Len(saved_paths) - 1 : saved_paths[i] # tracker

\* What the save under way has written, and the checkpoint of the tracker.
DiskInv ==
  /\ LatestComplete
  /\ Written => /\ disk[global_steps].actor = "complete"
                /\ disk[global_steps].weights = weights
  /\ save \in {"truncate", "track"} => /\ disk[global_steps].data = "complete"
                                       /\ disk[global_steps].pos = pos

At(p) == IF p = DataLen THEN 0 ELSE p

\* The loader position saved with the weights is the place they have reached.
DataInv ==
  /\ DataInStep
  /\ tracker \in Steps =>
       /\ disk[tracker].pos \in 0 .. DataLen
       /\ Reached(disk[tracker].weights) = At(disk[tracker].pos)
  /\ pc = "load" => Reached(weights) = 0 /\ pos = 0

\* The accumulated batch is on policy, and num_prompt_in_batch is its length.
BatchInv ==
  /\ pc \in {"load", "fetch", "check", "update"} =>
       \A i \in 1 .. Len(batch) : batch[i] = Updates(weights)
  /\ Filter /\ pc \in {"load", "fetch", "check"} => num_prompt_in_batch = Len(batch)
  /\ pc = "load" => batch = <<>>
  /\ Filter /\ pc = "update" => Len(batch) = BatchSize

Inv == TypeOK /\ StepInv /\ PathInv /\ DiskInv /\ DataInv /\ BatchInv

USE TrainerAssumption, MaxStepAssumption, MaxKeepAssumption, MaxStepIsEnough

\* _load_checkpoint, training from scratch.
LEMMA LoadScratchInv == Inv /\ LoadScratch => Inv'
<1> SUFFICES ASSUME Inv, LoadScratch PROVE Inv'
  OBVIOUS
<1>a. tracker = 0
  BY DEF Inv, LoadScratch, NothingSaved, DirExists, DiskInv, LatestComplete,
     TypeOK, StoreTypeOK, Steps, Torn
<1>b. saved_paths = <<>> /\ Len(saved_paths) = 0 /\ save = "none"
  BY DEF Inv, LoadScratch, PathInv, StepInv, Saving
<1>1. TypeOK'
  BY DEF Inv, LoadScratch, storeVars, TypeOK, StoreTypeOK, FileState, Steps, Torn
<1>2. StepInv'
  BY <1>a, <1>b DEF Inv, LoadScratch, storeVars, StepInv, Training, Saving,
     TypeOK, StoreTypeOK, Steps, Torn
<1>3. PathInv'
  BY <1>a, <1>b DEF Inv, LoadScratch, storeVars, PathInv, StepInv, Training,
     Saving, Writing, Written, TypeOK, StoreTypeOK, Steps, Torn
<1>4. DiskInv'
  BY DEF Inv, LoadScratch, storeVars, DiskInv, LatestComplete, Written,
     StepInv, Training, Saving, TypeOK, StoreTypeOK, Steps, Torn
<1>5. DataInv'
  BY DEF Inv, LoadScratch, storeVars, DataInv, DataInStep, At, Reached,
     TypeOK, StoreTypeOK, Steps, Torn
<1>6. BatchInv'
  BY DEF Inv, LoadScratch, storeVars, BatchInv, Updates, TypeOK
<1>7. QED
  BY <1>1, <1>2, <1>3, <1>4, <1>5, <1>6 DEF Inv

\* _load_checkpoint from the folder the tracker names.
LEMMA LoadCheckpointInv == Inv /\ LoadCheckpoint => Inv'
<1> SUFFICES ASSUME Inv, LoadCheckpoint PROVE Inv'
  OBVIOUS
<1>a. tracker \in Steps
  BY DEF LoadCheckpoint, Resume, Loadable
<1>b. /\ disk[tracker].data = "complete"
      /\ disk[tracker].pos \in 0 .. DataLen
      /\ disk[tracker].weights[2] = At(disk[tracker].pos)
  BY <1>a DEF Inv, DiskInv, LatestComplete, DataInv, Reached
<1>c. /\ pc' = "fetch" /\ global_steps' = tracker + 1
      /\ weights' = disk[tracker].weights /\ pos' = disk[tracker].pos
      /\ UNCHANGED <<tracker, disk, saved_paths, save, epoch, batch,
                     num_prompt_in_batch, num_gen_batches, crashes, spent>>
  BY <1>b DEF LoadCheckpoint, Resume, SavedPos, storeVars
<1>d. disk[tracker].weights \in Nat \X Nat
  BY <1>a DEF Inv, TypeOK, StoreTypeOK
<1>e. tracker + 1 \in 1 .. MaxStep
  BY <1>a DEF Inv, StepInv, TypeOK, LoadCheckpoint, Resume, Steps
<1>1. TypeOK'
  BY <1>b, <1>c, <1>d, <1>e, SMTT(30) DEF Inv, TypeOK, StoreTypeOK, FileState, Steps, Torn
<1>2. StepInv'
  BY DEF Inv, LoadCheckpoint, Resume, SavedPos, Loadable, storeVars, StepInv,
     Training, Saving, TypeOK, StoreTypeOK, Steps, Torn
<1>3. PathInv'
  BY DEF Inv, LoadCheckpoint, Resume, SavedPos, Loadable, storeVars, PathInv,
     StepInv, Training, Saving, Writing, Written, TypeOK, StoreTypeOK, Steps,
     Torn
<1>4. DiskInv'
  BY DEF Inv, LoadCheckpoint, Resume, SavedPos, Loadable, storeVars, DiskInv,
     LatestComplete, Written, StepInv, Training, Saving, TypeOK, StoreTypeOK,
     Steps, Torn
<1>5. DataInv'
  BY <1>b, <1>c DEF Inv, DataInv, DataInStep, At, Reached, TypeOK, StoreTypeOK
<1>6. BatchInv'
  BY DEF Inv, LoadCheckpoint, Resume, SavedPos, Loadable, storeVars, BatchInv,
     Updates, TypeOK
<1>7. QED
  BY <1>1, <1>2, <1>3, <1>4, <1>5, <1>6 DEF Inv

\* _load_checkpoint raising.
LEMMA LoadFailsInv == Inv /\ LoadFails => Inv'
<1> SUFFICES ASSUME Inv, LoadFails PROVE Inv'
  OBVIOUS
<1>1. TypeOK'
  BY DEF Inv, LoadFails, storeVars, runVars, TypeOK, StoreTypeOK, FileState,
     Steps, Torn
<1>2. StepInv'
  BY DEF Inv, LoadFails, storeVars, runVars, StepInv, Training, Saving,
     TypeOK, StoreTypeOK, Steps, Torn
<1>3. PathInv'
  BY DEF Inv, LoadFails, storeVars, runVars, PathInv, StepInv, Training,
     Saving, Writing, Written, TypeOK, StoreTypeOK, Steps, Torn
<1>4. DiskInv'
  BY DEF Inv, LoadFails, storeVars, runVars, DiskInv, LatestComplete, Written,
     StepInv, Training, Saving, TypeOK, StoreTypeOK, Steps, Torn
<1>5. DataInv'
  BY DEF Inv, LoadFails, storeVars, runVars, DataInv, DataInStep, At, Reached,
     TypeOK, StoreTypeOK, Steps, Torn
<1>6. BatchInv'
  BY DEF Inv, LoadFails, storeVars, runVars, BatchInv, Updates, TypeOK
<1>7. QED
  BY <1>1, <1>2, <1>3, <1>4, <1>5, <1>6 DEF Inv

\* A batch generated and filtered.
LEMMA GenerateInv ==
  ASSUME NEW kept \in Nat, Inv, Generate(kept) PROVE Inv'
<1> DEFINE new == [i \in 1 .. kept |-> Updates(weights)]
<1>a. Updates(weights) \in Nat /\ Reached(weights) \in Nat
  BY DEF Inv, TypeOK, Updates, Reached
<1>b. new \in Seq(Nat) /\ Len(new) = kept /\ \A i \in 1 .. kept : new[i] = Updates(weights)
  BY <1>a
<1> HIDE DEF new
<1>c. /\ weights' = <<Updates(weights), NextPlace(Reached(weights))>>
      /\ Filter => /\ batch' = batch \o new
                   /\ num_prompt_in_batch' = num_prompt_in_batch + kept
      /\ ~ Filter => batch' = new /\ UNCHANGED num_prompt_in_batch
  BY DEF Generate, new
<1>d. NextPlace(Reached(weights)) \in Nat
  BY <1>a DEF NextPlace
<1>e. Updates(weights') = Updates(weights)
  BY <1>c DEF Updates
<1>f. /\ pc = "fetch" /\ pc' = "check" /\ pos < DataLen /\ pos' = pos + 1
      /\ num_gen_batches' = num_gen_batches + 1
      /\ UNCHANGED <<tracker, disk, saved_paths, save, global_steps, epoch, crashes, spent>>
  BY DEF Generate, storeVars
<1>g. batch \in Seq(Nat) /\ num_prompt_in_batch \in Nat
  BY DEF Inv, TypeOK
<1>h. /\ batch \o new \in Seq(Nat) /\ Len(batch \o new) = Len(batch) + kept
      /\ \A i \in 1 .. Len(batch) + kept :
           (batch \o new)[i] = IF i <= Len(batch) THEN batch[i] ELSE new[i - Len(batch)]
  BY <1>b, <1>g
<1>1. TypeOK'
  <2>1. batch' \in Seq(Nat) /\ num_prompt_in_batch' \in Nat
    <3>1. CASE Filter
      <4>1. batch' = batch \o new /\ num_prompt_in_batch' = num_prompt_in_batch + kept
        BY <1>c, <3>1
      <4>2. QED
        BY <1>g, <1>h, <4>1
    <3>2. CASE ~ Filter
      BY <1>b, <1>c, <1>g, <3>2
    <3>3. QED
      BY <3>1, <3>2
  <2>2. weights' \in Nat \X Nat
    BY <1>a, <1>c, <1>d
  <2>3. QED
    BY <1>f, <2>1, <2>2, SMTT(30) DEF Inv, TypeOK, StoreTypeOK, FileState, Steps, Torn
<1>2. StepInv'
  BY <1>f DEF Inv, StepInv, Training, Saving, TypeOK, StoreTypeOK, Steps, Torn
<1>3. PathInv'
  BY <1>f DEF Inv, PathInv, StepInv, Training, Saving, Writing, Written,
     TypeOK, StoreTypeOK, Steps, Torn
<1>4. DiskInv'
  BY <1>f DEF Inv, DiskInv, LatestComplete, Written, StepInv, Training,
     Saving, TypeOK, StoreTypeOK, Steps, Torn
<1>5. DataInv'
  <2>1. Reached(weights) = At(pos) /\ Reached(weights') = NextPlace(Reached(weights))
    BY <1>c, <1>f DEF Inv, DataInv, DataInStep, At, Reached
  <2>2. Reached(weights') = At(pos')
    BY <1>f, <2>1 DEF Inv, TypeOK, At, NextPlace
  <2>3. QED
    BY <1>f, <2>2 DEF Inv, DataInv, DataInStep, At
<1>6. BatchInv'
  <2>1. \A i \in 1 .. Len(batch) : batch[i] = Updates(weights)
    BY <1>f DEF Inv, BatchInv
  <2>2. \A i \in 1 .. Len(batch') : batch'[i] = Updates(weights)
    <3>1. CASE Filter
      <4>1. batch' = batch \o new
        BY <1>c, <3>1
      <4>2. QED
        BY <1>b, <1>g, <1>h, <2>1, <4>1
    <3>2. CASE ~ Filter
      BY <1>b, <1>c, <3>2
    <3>3. QED
      BY <3>1, <3>2
  <2>3. Filter => num_prompt_in_batch' = Len(batch')
    BY <1>b, <1>c, <1>f, <1>g, <1>h DEF Inv, BatchInv
  <2>4. QED
    BY <1>e, <1>f, <2>2, <2>3 DEF BatchInv
<1>7. QED
  BY <1>1, <1>2, <1>3, <1>4, <1>5, <1>6 DEF Inv

\* Too few prompts kept, and the limit not reached.
LEMMA KeepGeneratingInv == Inv /\ KeepGenerating => Inv'
<1> SUFFICES ASSUME Inv, KeepGenerating PROVE Inv'
  OBVIOUS
<1>1. TypeOK'
  BY DEF Inv, KeepGenerating, storeVars, runVars, TypeOK, StoreTypeOK,
     FileState, Steps, Torn
<1>2. StepInv'
  BY DEF Inv, KeepGenerating, storeVars, runVars, StepInv, Training, Saving,
     TypeOK, StoreTypeOK, Steps, Torn
<1>3. PathInv'
  BY DEF Inv, KeepGenerating, storeVars, runVars, PathInv, StepInv, Training,
     Saving, Writing, Written, TypeOK, StoreTypeOK, Steps, Torn
<1>4. DiskInv'
  BY DEF Inv, KeepGenerating, storeVars, runVars, DiskInv, LatestComplete,
     Written, StepInv, Training, Saving, TypeOK, StoreTypeOK, Steps, Torn
<1>5. DataInv'
  BY DEF Inv, KeepGenerating, storeVars, runVars, DataInv, DataInStep, At,
     Reached, TypeOK, StoreTypeOK, Steps, Torn
<1>6. BatchInv'
  BY DEF Inv, KeepGenerating, storeVars, runVars, BatchInv, Updates, TypeOK
<1>7. QED
  BY <1>1, <1>2, <1>3, <1>4, <1>5, <1>6 DEF Inv

\* Too few prompts kept, and the limit reached.
LEMMA GeneratedTooManyInv == Inv /\ GeneratedTooMany => Inv'
<1> SUFFICES ASSUME Inv, GeneratedTooMany PROVE Inv'
  OBVIOUS
<1>1. TypeOK'
  BY DEF Inv, GeneratedTooMany, storeVars, runVars, TypeOK, StoreTypeOK,
     FileState, Steps, Torn
<1>2. StepInv'
  BY DEF Inv, GeneratedTooMany, storeVars, runVars, StepInv, Training, Saving,
     TypeOK, StoreTypeOK, Steps, Torn
<1>3. PathInv'
  BY DEF Inv, GeneratedTooMany, storeVars, runVars, PathInv, StepInv,
     Training, Saving, Writing, Written, TypeOK, StoreTypeOK, Steps, Torn
<1>4. DiskInv'
  BY DEF Inv, GeneratedTooMany, storeVars, runVars, DiskInv, LatestComplete,
     Written, StepInv, Training, Saving, TypeOK, StoreTypeOK, Steps, Torn
<1>5. DataInv'
  BY DEF Inv, GeneratedTooMany, storeVars, runVars, DataInv, DataInStep, At,
     Reached, TypeOK, StoreTypeOK, Steps, Torn
<1>6. BatchInv'
  BY DEF Inv, GeneratedTooMany, storeVars, runVars, BatchInv, Updates, TypeOK
<1>7. QED
  BY <1>1, <1>2, <1>3, <1>4, <1>5, <1>6 DEF Inv

\* The batch is cut to train_batch_size prompts.
LEMMA AlignInv == Inv /\ Align => Inv'
<1> SUFFICES ASSUME Inv, Align PROVE Inv'
  OBVIOUS
<1>a. batch \in Seq(Nat) /\ (Filter => Len(batch) >= BatchSize)
  BY DEF Inv, Align, Enough, BatchInv, TypeOK
<1>b. /\ batch' \in Seq(Nat) /\ (Filter => Len(batch') = BatchSize)
      /\ \A i \in 1 .. Len(batch') : i \in 1 .. Len(batch) /\ batch'[i] = batch[i]
  BY <1>a DEF Align
<1>1. TypeOK'
  BY <1>b DEF Inv, Align, Enough, storeVars, TypeOK, StoreTypeOK, FileState,
     Steps, Torn
<1>2. StepInv'
  BY DEF Inv, Align, Enough, storeVars, StepInv, Training, Saving, TypeOK,
     StoreTypeOK, Steps, Torn
<1>3. PathInv'
  BY DEF Inv, Align, Enough, storeVars, PathInv, StepInv, Training, Saving,
     Writing, Written, TypeOK, StoreTypeOK, Steps, Torn
<1>4. DiskInv'
  BY DEF Inv, Align, Enough, storeVars, DiskInv, LatestComplete, Written,
     StepInv, Training, Saving, TypeOK, StoreTypeOK, Steps, Torn
<1>5. DataInv'
  BY DEF Inv, Align, Enough, storeVars, DataInv, DataInStep, At, Reached,
     TypeOK, StoreTypeOK, Steps, Torn
<1>6. BatchInv'
  BY <1>b DEF Inv, Align, Enough, storeVars, BatchInv, Updates, TypeOK
<1>7. QED
  BY <1>1, <1>2, <1>3, <1>4, <1>5, <1>6 DEF Inv

\* One update of the actor.
LEMMA UpdateInv == Inv /\ Update => Inv'
<1> SUFFICES ASSUME Inv, Update PROVE Inv'
  OBVIOUS
<1>a. Updates(weights) \in Nat /\ Reached(weights) \in Nat
  BY DEF Inv, TypeOK, Updates, Reached
<1>b. weights' \in Nat \X Nat /\ Reached(weights') = Reached(weights)
  BY <1>a DEF Update, Reached
<1>c. /\ pc = "update" /\ save = "none"
      /\ \/ pc' = "save" /\ save' = "rotate"
         \/ pc' = "finish" /\ save' = "none"
      /\ UNCHANGED <<tracker, disk, saved_paths, global_steps, epoch, pos, batch,
                     num_prompt_in_batch, num_gen_batches, crashes, spent>>
  BY DEF Inv, StepInv, Saving, Update, SaveBegin, storeVars
<1>1. TypeOK'
  BY <1>b, <1>c DEF Inv, TypeOK, StoreTypeOK, FileState, Steps, Torn
<1>2. StepInv'
  BY <1>c, SMTT(30) DEF Inv, StepInv, Training, Saving, TypeOK, StoreTypeOK, Steps, Torn
<1>3. PathInv'
  BY <1>c DEF Inv, PathInv, StepInv, Training, Saving, Writing, Written,
     TypeOK, StoreTypeOK, Steps, Torn
<1>4. DiskInv'
  BY <1>c DEF Inv, DiskInv, LatestComplete, Written, StepInv, Training,
     Saving, TypeOK, StoreTypeOK, Steps, Torn
<1>5. DataInv'
  BY <1>b, <1>c DEF Inv, DataInv, DataInStep, At, TypeOK
<1>6. BatchInv'
  BY <1>c DEF BatchInv
<1>7. QED
  BY <1>1, <1>2, <1>3, <1>4, <1>5, <1>6 DEF Inv

\* The end of a step.
LEMMA FinishInv == Inv /\ Finish => Inv'
<1> SUFFICES ASSUME Inv, Finish PROVE Inv'
  OBVIOUS
<1>a. global_steps \in 1 .. TotalSteps + crashes /\ save = "none"
  BY DEF Inv, StepInv, Saving, Finish, EndStep
<1>b. /\ pc = "finish" /\ batch' = <<>> /\ num_prompt_in_batch' = 0 /\ num_gen_batches' = 0
      /\ \/ pc' = "done" /\ global_steps' = global_steps
         \/ pc' = "fetch" /\ global_steps' = global_steps + 1 /\ global_steps < TotalSteps
      /\ UNCHANGED <<tracker, disk, saved_paths, save, epoch, pos, weights, crashes, spent>>
  BY <1>a DEF Inv, TypeOK, Finish, EndStep, IsLastStep, storeVars
<1>c. batch' \in Seq(Nat) /\ Len(batch') = 0
  BY <1>b
<1>d. /\ global_steps' \in 1 .. TotalSteps + crashes /\ global_steps' \in 0 .. MaxStep
      /\ global_steps \in Nat /\ crashes' = crashes
      /\ \/ pc' = "done" /\ global_steps' = global_steps
         \/ pc' = "fetch" /\ global_steps' = global_steps + 1
  BY <1>a, <1>b DEF Inv, TypeOK
<1>e. /\ pc = "finish" /\ save = "none" /\ num_prompt_in_batch' = 0 /\ num_gen_batches' = 0
      /\ UNCHANGED <<tracker, disk, saved_paths, save, epoch, pos, weights, crashes, spent>>
  BY <1>a, <1>b
<1>1. TypeOK'
  BY <1>c, <1>d, <1>e DEF Inv, TypeOK, StoreTypeOK, FileState, Steps, Torn
<1>2. StepInv'
  <2>1. tracker <= global_steps /\ tracker \in Int
    BY <1>e DEF Inv, StepInv, TypeOK, StoreTypeOK, Steps, Torn
  <2>2. QED
    BY <1>d, <1>e, <2>1 DEF StepInv, Training, Saving
<1>3. PathInv'
  <2>1. /\ \A i \in 1 .. Len(saved_paths) : saved_paths[i] <= global_steps
        /\ \A i \in 1 .. Len(saved_paths) - 1 : saved_paths[i] < global_steps
        /\ \A i \in 1 .. Len(saved_paths) - 1 : saved_paths[i] # tracker
    BY <1>e DEF Inv, PathInv, Written
  <2>a. \A i \in 1 .. Len(saved_paths) : saved_paths[i] \in Nat /\ Len(saved_paths) \in Nat
    <3>1. saved_paths \in Seq(Steps) /\ \A k \in Steps : k \in Nat
      BY DEF Inv, TypeOK, StoreTypeOK, Steps
    <3>2. QED
      BY <3>1
  <2>2. CASE pc' = "done"
    BY <1>d, <1>e, <2>1, <2>a, <2>2 DEF PathInv, Training, Writing, Written
  <2>3. CASE pc' = "fetch"
    BY <1>d, <1>e, <2>1, <2>a, <2>3 DEF PathInv, Training, Writing, Written
  <2>4. QED
    BY <1>d, <2>2, <2>3
<1>4. DiskInv'
  BY <1>c, <1>d, <1>e DEF Inv, DiskInv, LatestComplete, Written, StepInv,
     Training, Saving, TypeOK, StoreTypeOK, Steps, Torn
<1>5. DataInv'
  BY <1>c, <1>d, <1>e DEF Inv, DataInv, DataInStep, At, Reached, TypeOK,
     StoreTypeOK, Steps, Torn
<1>6. BatchInv'
  BY <1>b, <1>c DEF BatchInv
<1>7. QED
  BY <1>1, <1>2, <1>3, <1>4, <1>5, <1>6 DEF Inv

\* The next epoch.
LEMMA NextEpochInv == Inv /\ NextEpoch => Inv'
<1> SUFFICES ASSUME Inv, NextEpoch PROVE Inv'
  OBVIOUS
<1>1. TypeOK'
  BY DEF Inv, NextEpoch, storeVars, TypeOK, StoreTypeOK, FileState, Steps, Torn
<1>2. StepInv'
  BY DEF Inv, NextEpoch, storeVars, StepInv, Training, Saving, TypeOK,
     StoreTypeOK, Steps, Torn
<1>3. PathInv'
  BY DEF Inv, NextEpoch, storeVars, PathInv, StepInv, Training, Saving,
     Writing, Written, TypeOK, StoreTypeOK, Steps, Torn
<1>4. DiskInv'
  BY DEF Inv, NextEpoch, storeVars, DiskInv, LatestComplete, Written, StepInv,
     Training, Saving, TypeOK, StoreTypeOK, Steps, Torn
<1>5. DataInv'
  BY DEF Inv, NextEpoch, storeVars, DataInv, DataInStep, At, Reached, TypeOK,
     StoreTypeOK, Steps, Torn
<1>6. BatchInv'
  BY DEF Inv, NextEpoch, storeVars, BatchInv, Updates, TypeOK
<1>7. QED
  BY <1>1, <1>2, <1>3, <1>4, <1>5, <1>6 DEF Inv

\* The data is used up.
LEMMA EndOfDataInv == Inv /\ EndOfData => Inv'
<1> SUFFICES ASSUME Inv, EndOfData PROVE Inv'
  OBVIOUS
<1>a. /\ pc = "fetch" /\ save = "none"
      /\ \/ pc' = "finalSave" /\ save' = "rotate"
         \/ pc' = "done" /\ save' = "none"
      /\ UNCHANGED <<tracker, disk, saved_paths, global_steps, epoch, pos, batch,
                     num_prompt_in_batch, num_gen_batches, weights, crashes>>
      /\ spent' = TRUE
  BY DEF Inv, StepInv, Saving, EndOfData, SaveBegin, storeVars, runVars
<1>1. TypeOK'
  BY <1>a DEF Inv, TypeOK, StoreTypeOK, FileState, Steps, Torn
<1>2. StepInv'
  <2>1. tracker < global_steps /\ global_steps \in 1 .. TotalSteps + crashes
    BY <1>a DEF Inv, StepInv, Training
  <2>2. tracker \in Int /\ global_steps \in Int
    BY DEF Inv, TypeOK, StoreTypeOK, Steps, Torn
  <2>3. tracker <= global_steps
    BY <2>1, <2>2
  <2> QED
    BY <1>a, <2>1, <2>3 DEF StepInv, Training, Saving
<1>3. PathInv'
  BY <1>a DEF Inv, PathInv, StepInv, Training, Saving, Writing, Written,
     TypeOK, StoreTypeOK, Steps, Torn
<1>4. DiskInv'
  BY <1>a DEF Inv, DiskInv, LatestComplete, Written, StepInv, Training,
     Saving, TypeOK, StoreTypeOK, Steps, Torn
<1>5. DataInv'
  BY <1>a DEF Inv, DataInv, DataInStep, At, Reached, TypeOK, StoreTypeOK,
     Steps, Torn
<1>6. BatchInv'
  BY <1>a DEF Inv, BatchInv, Updates, TypeOK
<1>7. QED
  BY <1>1, <1>2, <1>3, <1>4, <1>5, <1>6 DEF Inv

\* The process dies.
LEMMA CrashInv == Inv /\ Crash => Inv'
<1> SUFFICES ASSUME Inv, Crash PROVE Inv'
  OBVIOUS
<1>1. TypeOK'
  BY SMTT(30) DEF Inv, Crash, StoreCrash, Reached, Ended, TypeOK, StoreTypeOK,
     FileState, Steps, Torn
<1>2. StepInv'
  BY DEF Inv, Crash, StoreCrash, Reached, Ended, StepInv, Training, Saving,
     TypeOK, StoreTypeOK, Steps, Torn
<1>3. PathInv'
  BY DEF Inv, Crash, StoreCrash, Reached, Ended, PathInv, StepInv, Training,
     Saving, Writing, Written, TypeOK, StoreTypeOK, Steps, Torn
<1>4. DiskInv'
  BY DEF Inv, Crash, StoreCrash, Reached, Ended, DiskInv, LatestComplete,
     Written, StepInv, Training, Saving, TypeOK, StoreTypeOK, Steps, Torn
<1>5. DataInv'
  BY DEF Inv, Crash, StoreCrash, Reached, Ended, DataInv, DataInStep, At,
     Reached, TypeOK, StoreTypeOK, Steps, Torn
<1>6. BatchInv'
  BY DEF Inv, Crash, StoreCrash, Reached, Ended, BatchInv, Updates, TypeOK
<1>7. QED
  BY <1>1, <1>2, <1>3, <1>4, <1>5, <1>6 DEF Inv

\* The job has ended.
LEMMA StopInv == Inv /\ Stop => Inv'
<1> SUFFICES ASSUME Inv, Stop PROVE Inv'
  OBVIOUS
<1>1. TypeOK'
  BY DEF Inv, Stop, vars, storeVars, runVars, TypeOK, StoreTypeOK, FileState,
     Steps, Torn
<1>2. StepInv'
  BY DEF Inv, Stop, vars, storeVars, runVars, StepInv, Training, Saving,
     TypeOK, StoreTypeOK, Steps, Torn
<1>3. PathInv'
  BY DEF Inv, Stop, vars, storeVars, runVars, PathInv, StepInv, Training,
     Saving, Writing, Written, TypeOK, StoreTypeOK, Steps, Torn
<1>4. DiskInv'
  BY DEF Inv, Stop, vars, storeVars, runVars, DiskInv, LatestComplete,
     Written, StepInv, Training, Saving, TypeOK, StoreTypeOK, Steps, Torn
<1>5. DataInv'
  BY DEF Inv, Stop, vars, storeVars, runVars, DataInv, DataInStep, At,
     Reached, TypeOK, StoreTypeOK, Steps, Torn
<1>6. BatchInv'
  BY DEF Inv, Stop, vars, storeVars, runVars, BatchInv, Updates, TypeOK
<1>7. QED
  BY <1>1, <1>2, <1>3, <1>4, <1>5, <1>6 DEF Inv

\* What is left of a sequence when its first n elements are removed.
LEMMA Suffix ==
  ASSUME NEW S, NEW s \in Seq(S), NEW n \in 0 .. Len(s)
  PROVE  LET t == SubSeq(s, n + 1, Len(s)) IN
           /\ t \in Seq(S) /\ Len(t) = Len(s) - n
           /\ \A i \in 1 .. Len(s) - n : t[i] = s[i + n]
  OBVIOUS

DiskType == [actor : FileState, weights : Nat \X Nat, data : FileState, pos : Nat]

\* What every step of _save_checkpoint finds and leaves alone.
LEMMA SaveFacts ==
  ASSUME Inv, Save
  PROVE  /\ Saving /\ save # "none" /\ global_steps \in Steps
         /\ global_steps \in 1 .. TotalSteps + crashes
         /\ tracker < global_steps /\ tracker \in Int
         /\ disk \in [Steps -> DiskType] /\ saved_paths \in Seq(Steps)
         /\ \A k \in Steps : k \in Nat
         /\ UNCHANGED <<runVars, crashes, spent>>
         /\ save' # "none" => pc' = pc
         /\ save' = "none" => pc' \in {"finish", "done"}
<1>1. global_steps \in 1 .. TotalSteps + crashes
  BY DEF Inv, StepInv, Save
<1>2. global_steps \in Steps /\ \A k \in Steps : k \in Nat
  BY <1>1 DEF Inv, TypeOK, Steps
<1>3. tracker < global_steps /\ save # "none" /\ Saving
  BY DEF Inv, StepInv, Save, Saving
<1>4. tracker \in Int
  BY DEF Inv, TypeOK, StoreTypeOK, Steps, Torn
<1>5. disk \in [Steps -> DiskType] /\ saved_paths \in Seq(Steps)
  BY DEF Inv, TypeOK, StoreTypeOK, DiskType
<1>6. QED
  BY <1>1, <1>2, <1>3, <1>4, <1>5 DEF Save

\* A step that writes into the folder of the step being saved, and nothing else.
LEMMA WriteInv ==
  ASSUME Inv, Save, UNCHANGED <<tracker, saved_paths>>,
         \/ save = "mkdir" /\ save' = "actor"
         \/ save = "dataOpen" /\ save' = "data"
         \/ save = "data" /\ save' = "truncate",
         disk' \in [Steps -> DiskType],
         \A k \in Steps : k # global_steps => disk'[k] = disk[k],
         Written => /\ disk'[global_steps].actor = "complete"
                    /\ disk'[global_steps].weights = weights,
         save = "data" => /\ disk'[global_steps].data = "complete"
                          /\ disk'[global_steps].pos = pos
  PROVE  Inv'
<1>a. /\ Saving /\ pc' = pc /\ global_steps \in Steps
      /\ tracker < global_steps /\ tracker \in Int
      /\ UNCHANGED <<global_steps, epoch, pos, batch, num_prompt_in_batch,
                     num_gen_batches, weights, crashes, spent>>
  BY SaveFacts DEF runVars
<1>b. tracker \in Steps => disk'[tracker] = disk[tracker]
  BY <1>a DEF Steps
<1>c. Written' = Written /\ Writing' = Writing
  BY DEF Written, Writing
<1>1. TypeOK'
  BY <1>a DEF Inv, TypeOK, StoreTypeOK, DiskType
<1>2. StepInv'
  BY <1>a DEF Inv, StepInv, Saving, Training
<1>3. PathInv'
  <2>1. Training' = Training /\ (pc' \in {"load", "failed"} <=> pc \in {"load", "failed"})
    BY <1>a DEF Training
  <2>2. QED
    BY <1>a, <1>c, <2>1 DEF Inv, PathInv
<1>4. DiskInv'
  BY <1>a, <1>b, <1>c DEF Inv, DiskInv, LatestComplete, Steps
<1>5. DataInv'
  BY <1>a, <1>b DEF Inv, DataInv, DataInStep, Saving
<1>6. BatchInv'
  BY <1>a DEF Inv, BatchInv, Saving
<1>7. QED
  BY <1>1, <1>2, <1>3, <1>4, <1>5, <1>6 DEF Inv

\* The whole of _save_checkpoint, the rotation keeping at least one checkpoint.
LEMMA SaveInv ==
  ASSUME Inv, Save, MaxKeep # 1
  PROVE  Inv'
<1>a. /\ Saving /\ global_steps \in Steps
      /\ global_steps \in 1 .. TotalSteps + crashes
      /\ tracker < global_steps /\ tracker \in Int
      /\ disk \in [Steps -> DiskType] /\ saved_paths \in Seq(Steps)
      /\ \A k \in Steps : k \in Nat
      /\ UNCHANGED <<global_steps, epoch, pos, batch, num_prompt_in_batch,
                     num_gen_batches, weights, crashes, spent>>
      /\ save' # "none" => pc' = pc
      /\ save' = "none" => pc' \in {"finish", "done"}
  BY SaveFacts DEF runVars
<1>b. weights \in Nat \X Nat /\ pos \in Nat
  BY DEF Inv, TypeOK
<1>1. CASE SaveRotate
  <2> DEFINE n == keep_start
  <2>1. n \in 0 .. Len(saved_paths) /\ (n = 0 \/ n <= Len(saved_paths) - 1)
    BY <1>a DEF keep_start
  <2> HIDE DEF n
  <2>2. /\ save = "rotate" /\ save' = "mkdir" /\ tracker' = tracker
        /\ disk' = [k \in Steps |->
                      IF \E i \in 1 .. n : saved_paths[i] = k
                        THEN [disk[k] EXCEPT !.actor = "absent"]
                        ELSE disk[k]]
        /\ saved_paths' = SubSeq(saved_paths, n + 1, Len(saved_paths))
    BY <1>1 DEF SaveRotate, RemoveOldest, n
  <2>3. /\ saved_paths' \in Seq(Steps) /\ Len(saved_paths') = Len(saved_paths) - n
        /\ \A i \in 1 .. Len(saved_paths) - n : saved_paths'[i] = saved_paths[i + n]
    BY <1>a, <2>1, <2>2, Suffix
  <2>4. disk' \in [Steps -> DiskType]
    <3>1. ASSUME NEW k \in Steps PROVE [disk[k] EXCEPT !.actor = "absent"] \in DiskType
      <4>1. disk[k] \in DiskType
        BY <1>a
      <4>2. QED
        BY <4>1 DEF DiskType, FileState
    <3>2. QED
      BY <1>a, <2>2, <3>1
  <2>5. /\ Writing /\ ~ Written /\ Writing' /\ ~ Written'
        /\ save' \notin {"none", "truncate", "track"} /\ pc' = pc /\ Saving
    BY <1>a, <2>2 DEF Writing, Written
  <2>6. /\ \A i \in 1 .. Len(saved_paths) : saved_paths[i] < global_steps
        /\ \A i \in 1 .. Len(saved_paths) - 1 : saved_paths[i] # tracker
    BY <2>5 DEF Inv, PathInv
  <2>7. tracker \in Steps => disk'[tracker] = disk[tracker]
    <3>1. \A i \in 1 .. n : i \in 1 .. Len(saved_paths) - 1
      BY <1>a, <2>1
    <3>2. ~ \E i \in 1 .. n : saved_paths[i] = tracker
      BY <2>6, <3>1
    <3>3. QED
      BY <2>2, <3>2
  <2>8. TypeOK'
    BY <1>a, <2>2, <2>3, <2>4, <2>5 DEF Inv, TypeOK, StoreTypeOK, DiskType
  <2>9. StepInv'
    BY <1>a, <2>2, <2>5 DEF Inv, StepInv, Saving, Training
  <2>10. PathInv'
    <3>a. Len(saved_paths) \in Nat /\ n \in Nat
      BY <1>a, <2>1
    <3>b. ASSUME NEW i \in 1 .. Len(saved_paths')
          PROVE  /\ saved_paths'[i] < global_steps /\ saved_paths'[i] \in Nat
                 /\ i <= Len(saved_paths') - 1 => saved_paths'[i] # tracker
      <4>1. /\ i + n \in 1 .. Len(saved_paths) /\ saved_paths'[i] = saved_paths[i + n]
            /\ i <= Len(saved_paths') - 1 => i + n \in 1 .. Len(saved_paths) - 1
        BY <2>3, <3>a
      <4>2. saved_paths[i + n] \in Nat
        <5>1. saved_paths \in Seq(Steps)
          BY <1>a
        <5>2. saved_paths[i + n] \in Steps
          BY <4>1, <5>1
        <5>3. QED
          BY <1>a, <5>2
      <4>3. QED
        BY <2>6, <4>1, <4>2
    <3>1. /\ \A i \in 1 .. Len(saved_paths') :
               saved_paths'[i] < global_steps /\ saved_paths'[i] <= global_steps
          /\ \A i \in 1 .. Len(saved_paths') - 1 :
               saved_paths'[i] < global_steps /\ saved_paths'[i] # tracker
      <4>1. global_steps \in Nat /\ Len(saved_paths') \in Nat
        BY <1>a, <2>1, <2>3
      <4>2. QED
        BY <3>b, <4>1
    <3>2. pc' \notin {"load", "failed"}
      BY <2>5 DEF Saving
    <3>3. QED
      BY <1>a, <2>2, <2>5, <3>1, <3>2 DEF PathInv
  <2>11. DiskInv'
    BY <1>a, <2>2, <2>5, <2>7 DEF Inv, DiskInv, LatestComplete
  <2>12. DataInv'
    BY <1>a, <2>2, <2>5, <2>7 DEF Inv, DataInv, DataInStep, Saving
  <2>13. BatchInv'
    BY <1>a, <2>5 DEF BatchInv, Saving
  <2>14. QED
    BY <2>8, <2>9, <2>10, <2>11, <2>12, <2>13 DEF Inv
<1>2. CASE SaveMkdir(global_steps)
  <2>1. /\ save = "mkdir" /\ save' = "actor" /\ UNCHANGED <<tracker, saved_paths>>
        /\ disk' = [disk EXCEPT ![global_steps].actor = "partial"]
    BY <1>2 DEF SaveMkdir
  <2>2. /\ disk' \in [Steps -> DiskType]
        /\ \A k \in Steps : k # global_steps => disk'[k] = disk[k]
    BY <1>a, <2>1 DEF DiskType, FileState
  <2>3. QED
    BY <2>1, <2>2, WriteInv DEF Written
<1>3. CASE SaveActor(global_steps, weights)
  <2>1. /\ save = "actor" /\ save' = "dataOpen" /\ tracker' = tracker
        /\ saved_paths' = Append(saved_paths, global_steps)
        /\ disk' = [disk EXCEPT ![global_steps].actor = "complete",
                                ![global_steps].weights = weights]
    BY <1>3 DEF SaveActor
  <2>2. /\ disk' \in [Steps -> DiskType]
        /\ \A k \in Steps : k # global_steps => disk'[k] = disk[k]
        /\ disk'[global_steps].actor = "complete"
        /\ disk'[global_steps].weights = weights
    BY <1>a, <1>b, <2>1 DEF DiskType, FileState
  <2>3. /\ saved_paths' \in Seq(Steps) /\ Len(saved_paths') = Len(saved_paths) + 1
        /\ saved_paths'[Len(saved_paths) + 1] = global_steps
        /\ \A i \in 1 .. Len(saved_paths) : saved_paths'[i] = saved_paths[i]
    BY <1>a, <2>1
  <2>4. /\ Writing /\ ~ Written /\ ~ Writing' /\ Written'
        /\ save' \notin {"none", "truncate", "track"} /\ pc' = pc /\ Saving
    BY <1>a, <2>1 DEF Writing, Written
  <2>5. tracker \in Steps => disk'[tracker] = disk[tracker]
    BY <1>a, <2>2
  <2>6. TypeOK'
    BY <1>a, <2>1, <2>2, <2>3, <2>4 DEF Inv, TypeOK, StoreTypeOK, DiskType
  <2>7. StepInv'
    BY <1>a, <2>1, <2>4 DEF Inv, StepInv, Saving, Training
  <2>8. PathInv'
    <3>1. \A i \in 1 .. Len(saved_paths) : saved_paths[i] < global_steps
      BY <2>4 DEF Inv, PathInv
    <3>a. /\ Len(saved_paths) \in Nat /\ global_steps \in Nat
          /\ \A i \in 1 .. Len(saved_paths) : saved_paths[i] \in Nat
      <4>1. \A i \in 1 .. Len(saved_paths) : saved_paths[i] \in Steps
        BY <1>a
      <4>2. Len(saved_paths) \in Nat
        BY <1>a
      <4> QED
        BY <1>a, <4>1, <4>2, Zenon
    <3>2. /\ \A i \in 1 .. Len(saved_paths') : saved_paths'[i] <= global_steps
          /\ \A i \in 1 .. Len(saved_paths') - 1 : saved_paths'[i] < global_steps
      BY <2>3, <3>1, <3>a
    <3>3. ~ Training' /\ pc' \notin {"load", "failed"}
      BY <2>4 DEF Training, Saving
    <3>4. QED
      BY <1>a, <2>4, <3>2, <3>3 DEF PathInv
  <2>9. DiskInv'
    BY <1>a, <2>1, <2>2, <2>4, <2>5 DEF Inv, DiskInv, LatestComplete
  <2>10. DataInv'
    BY <1>a, <2>1, <2>4, <2>5 DEF Inv, DataInv, DataInStep, Saving
  <2>11. BatchInv'
    BY <1>a, <2>4 DEF BatchInv, Saving
  <2>12. QED
    BY <2>6, <2>7, <2>8, <2>9, <2>10, <2>11 DEF Inv
<1>4. CASE SaveDataOpen(global_steps)
  <2>1. /\ save = "dataOpen" /\ save' = "data" /\ UNCHANGED <<tracker, saved_paths>>
        /\ disk' = [disk EXCEPT ![global_steps].data = "partial"]
    BY <1>4 DEF SaveDataOpen
  <2>2. /\ disk' \in [Steps -> DiskType]
        /\ \A k \in Steps : k # global_steps => disk'[k] = disk[k]
        /\ disk'[global_steps].actor = disk[global_steps].actor
        /\ disk'[global_steps].weights = disk[global_steps].weights
    BY <1>a, <2>1 DEF DiskType, FileState
  <2>3. QED
    BY <2>1, <2>2, WriteInv DEF Inv, DiskInv
<1>5. CASE SaveData(global_steps, pos)
  <2>1. /\ save = "data" /\ save' = "truncate" /\ UNCHANGED <<tracker, saved_paths>>
        /\ disk' = [disk EXCEPT ![global_steps].data = "complete",
                                ![global_steps].pos = pos]
    BY <1>5 DEF SaveData
  <2>2. /\ disk' \in [Steps -> DiskType]
        /\ \A k \in Steps : k # global_steps => disk'[k] = disk[k]
        /\ disk'[global_steps].actor = disk[global_steps].actor
        /\ disk'[global_steps].weights = disk[global_steps].weights
        /\ disk'[global_steps].data = "complete"
        /\ disk'[global_steps].pos = pos
    BY <1>a, <1>b, <2>1 DEF DiskType, FileState
  <2>3. QED
    BY <2>1, <2>2, WriteInv DEF Inv, DiskInv
<1>6. CASE SaveTruncate
  <2>1. /\ save = "truncate" /\ save' = "track" /\ tracker' = Torn
        /\ pc' = pc /\ UNCHANGED <<disk, saved_paths>>
    BY <1>6, <1>a DEF SaveTruncate
  <2>2. /\ Torn < global_steps /\ Torn \notin Steps /\ Written /\ Written'
        /\ ~ Writing' /\ ~ Training' /\ pc' \notin {"load", "failed", "finish", "done"}
    BY <1>a, <2>1 DEF Torn, Steps, Written, Writing, Training, Saving
  <2>3. TypeOK'
    BY <1>a, <2>1 DEF Inv, TypeOK, StoreTypeOK
  <2>4. StepInv'
    BY <1>a, <2>1, <2>2 DEF Inv, StepInv, Saving
  <2>5. PathInv'
    BY <1>a, <2>1, <2>2 DEF Inv, PathInv
  <2>6. DiskInv'
    BY <1>a, <2>1, <2>2 DEF Inv, DiskInv, LatestComplete
  <2>7. DataInv'
    BY <1>a, <2>1, <2>2 DEF Inv, DataInv, DataInStep
  <2>8. BatchInv'
    BY <1>a, <2>1 DEF BatchInv, Saving
  <2>9. QED
    BY <2>3, <2>4, <2>5, <2>6, <2>7, <2>8 DEF Inv
<1>7. CASE SaveTracker(global_steps)
  <2>1. /\ save = "track" /\ save' = "none" /\ tracker' = global_steps
        /\ pc' \in {"finish", "done"} /\ UNCHANGED <<disk, saved_paths>>
    BY <1>7, <1>a DEF SaveTracker
  <2>2. /\ Written /\ ~ Written' /\ ~ Writing' /\ ~ Training' /\ ~ Saving'
        /\ pc' \notin {"load", "failed"}
    BY <2>1 DEF Written, Writing, Training, Saving
  <2>3. TypeOK'
    BY <1>a, <2>1 DEF Inv, TypeOK, StoreTypeOK
  <2>4. StepInv'
    BY <1>a, <2>1, <2>2 DEF StepInv
  <2>5. PathInv'
    <3>1. /\ \A i \in 1 .. Len(saved_paths) : saved_paths[i] <= global_steps
          /\ \A i \in 1 .. Len(saved_paths) - 1 : saved_paths[i] < global_steps
      BY DEF Inv, PathInv
    <3>2. QED
      BY <1>a, <2>1, <2>2, <3>1 DEF PathInv
  <2>6. DiskInv'
    BY <1>a, <2>1, <2>2 DEF Inv, DiskInv, LatestComplete
  <2>7. DataInv'
    <3>1. /\ disk[global_steps].weights = weights /\ disk[global_steps].pos = pos
          /\ pos \in 0 .. DataLen
      BY <2>1, <2>2 DEF Inv, DiskInv, TypeOK
    <3>2. Reached(weights) = At(pos)
      BY <1>a DEF Inv, DataInv, DataInStep, Saving, At
    <3>3. QED
      BY <1>a, <2>1, <2>2, <3>1, <3>2 DEF DataInv, DataInStep, At
  <2>8. BatchInv'
    BY <2>1 DEF BatchInv
  <2>9. QED
    BY <2>3, <2>4, <2>5, <2>6, <2>7, <2>8 DEF Inv
<1>8. QED
  BY <1>1, <1>2, <1>3, <1>4, <1>5, <1>6, <1>7 DEF Save, SaveStep

\* Nothing is saved and the process is about to load.
LEMMA InitInv == Init => Inv
<1> SUFFICES ASSUME Init PROVE Inv
  OBVIOUS
<1>a. /\ saved_paths = <<>> /\ saved_paths \in Seq(Steps) /\ Len(saved_paths) = 0
      /\ batch = <<>> /\ batch \in Seq(Nat) /\ Len(batch) = 0
  BY DEF Init, StoreInit
<1>b. disk \in [Steps -> [actor : FileState, weights : Nat \X Nat,
                          data : FileState, pos : Nat]]
  BY DEF Init, StoreInit, NoCheckpoint, FileState
<1>c. /\ pc = "load" /\ save = "none" /\ tracker = 0 /\ global_steps = 0 /\ epoch = 0
      /\ pos = 0 /\ num_prompt_in_batch = 0 /\ num_gen_batches = 0
      /\ weights = <<0, 0>> /\ crashes = 0 /\ spent = FALSE
  BY DEF Init, StoreInit
<1>1. TypeOK
  <2>1. StoreTypeOK
    BY <1>a, <1>b, <1>c DEF StoreTypeOK
  <2>2. /\ weights \in Nat \X Nat /\ global_steps \in 0 .. MaxStep
        /\ epoch \in 0 .. Epochs - 1 /\ pos \in 0 .. DataLen /\ crashes \in 0 .. MaxCrash
    BY <1>c
  <2>3. spent \in BOOLEAN
    BY <1>c
  <2>4. QED
    BY <1>a, <1>c, <2>1, <2>2, <2>3 DEF TypeOK
<1>2. StepInv
  BY <1>c DEF StepInv, Saving, Training
<1>3. PathInv
  BY <1>a, <1>c DEF PathInv, Training, Writing, Written
<1>4. DiskInv
  BY <1>c DEF DiskInv, LatestComplete, Written, Steps
<1>5. DataInv
  BY <1>c DEF DataInv, DataInStep, Reached, Steps
<1>6. BatchInv
  BY <1>a, <1>c DEF BatchInv
<1>7. QED
  BY <1>1, <1>2, <1>3, <1>4, <1>5, <1>6 DEF Inv

\* The inductive invariant holds of the trainer, unless it keeps one checkpoint.
THEOREM InvHolds == MaxKeep # 1 /\ Spec => []Inv
<1> SUFFICES ASSUME MaxKeep # 1 PROVE Spec => []Inv
  OBVIOUS
<1>1. ASSUME Inv, [Next]_vars PROVE Inv'
  <2>1. ASSUME NEW kept \in IF Filter THEN 0 .. GenSize ELSE {GenSize}, Generate(kept)
        PROVE  Inv'
    <3>1. kept \in Nat
      OBVIOUS
    <3>2. QED
      BY <1>1, <2>1, <3>1, GenerateInv
  <2>2. CASE UNCHANGED vars
    BY <1>1, <2>2 DEF vars, storeVars, runVars, Inv, TypeOK, StoreTypeOK, StepInv,
       PathInv, DiskInv, DataInv, BatchInv, LatestComplete, DataInStep, Training,
       Saving, Writing, Written
  <2>3. QED
    BY <1>1, <2>1, <2>2, LoadScratchInv, LoadCheckpointInv, LoadFailsInv,
       KeepGeneratingInv, GeneratedTooManyInv, AlignInv, UpdateInv, SaveInv, FinishInv,
       NextEpochInv, EndOfDataInv, CrashInv, StopInv DEF Next, Step
<1>2. QED
  BY <1>1, InitInv, PTL DEF Spec

\* The variables of fit and of the checkpoint folder keep their types.
THEOREM TypeCorrect == MaxKeep # 1 /\ Spec => []TypeOK
<1>1. Inv => TypeOK
  BY DEF Inv
<1>2. QED
  BY <1>1, InvHolds, PTL

\* Wherever the process dies in _save_checkpoint, the tracker names a whole
\* checkpoint: for any number of steps, crashes and checkpoints kept but one.
THEOREM LatestIsComplete == MaxKeep # 1 /\ Spec => []LatestComplete
<1>1. Inv => LatestComplete
  BY DEF Inv, DiskInv
<1>2. QED
  BY <1>1, InvHolds, PTL

\* The data loader is where the weights have got to, across any restart.
THEOREM DataStaysInStep == MaxKeep # 1 /\ Spec => []DataInStep
<1>1. Inv => DataInStep
  BY DEF Inv, DataInv
<1>2. QED
  BY <1>1, InvHolds, PTL

\* Every update is made on a whole batch its own weights have generated.
THEOREM BatchIsOnPolicy == MaxKeep # 1 /\ Spec => []BatchOnPolicy
<1>1. Inv => BatchOnPolicy
  BY DEF Inv, BatchInv, BatchOnPolicy, TypeOK
<1>2. QED
  BY <1>1, InvHolds, PTL

------------------------------------------------------------------------------
(* How many checkpoints are left behind                                      *)

\* The folders this run of the process has made and has not removed.
Mine == {saved_paths[i] : i \in 1 .. Len(saved_paths)}
          \cup IF save = "actor" THEN {global_steps} ELSE {}

\* What is on disk was left by the runs that died, or is this run's own.
LeftBy(E) == Cardinality(E) <= MaxKeep * crashes /\ Kept \subseteq E \cup Mine

KeepInv ==
  /\ Len(saved_paths) <= MaxKeep
  /\ save \in {"mkdir", "actor"} => Len(saved_paths) < MaxKeep
  /\ \E E \in SUBSET Steps : LeftBy(E)

\* A sequence has no more values than places.
LEMMA ValuesBound ==
  ASSUME NEW S, NEW s \in Seq(S)
  PROVE  LET T == {s[i] : i \in 1 .. Len(s)} IN
           IsFiniteSet(T) /\ Cardinality(T) <= Len(s)
<1> DEFINE T == {s[i] : i \in 1 .. Len(s)}
           f == [i \in 1 .. Len(s) |-> s[i]]
<1>1. Len(s) \in Nat
  OBVIOUS
<1>2. IsFiniteSet(1 .. Len(s)) /\ Cardinality(1 .. Len(s)) = Len(s)
  <2>1. /\ IsFiniteSet(1 .. Len(s))
        /\ Cardinality(1 .. Len(s)) = IF 1 > Len(s) THEN 0 ELSE Len(s) - 1 + 1
    BY <1>1, FS_Interval, SMTT(30)
  <2>2. QED
    BY <1>1, <2>1
<1>3. f \in Surjection(1 .. Len(s), T)
  BY DEF Surjection
<1> HIDE DEF T, f
<1>4. IsFiniteSet(T) /\ Cardinality(T) <= Cardinality(1 .. Len(s))
  BY <1>2, <1>3, FS_Surjection
<1>5. QED
  BY <1>2, <1>4 DEF T

\* The bound is what the invariant says of the two kinds of folder.
LEMMA KeepBound ==
  ASSUME Inv, KeepInv
  PROVE  Cardinality(Kept) <= MaxKeep * (crashes + 1)
<1> DEFINE R == {saved_paths[i] : i \in 1 .. Len(saved_paths)}
<1>1. PICK E \in SUBSET Steps : LeftBy(E)
  BY DEF KeepInv
<1>2. IsFiniteSet(Steps)
  BY FS_Interval DEF Steps
<1>3. IsFiniteSet(E)
  BY <1>2, FS_Subset
<1>4. saved_paths \in Seq(Steps) /\ Len(saved_paths) \in Nat
  BY DEF Inv, TypeOK, StoreTypeOK
<1>5. IsFiniteSet(R) /\ Cardinality(R) <= Len(saved_paths)
  BY <1>4, ValuesBound
<1>6. Cardinality(R) \in Nat
  BY <1>5, FS_CardinalityType
<1>7. IsFiniteSet(Mine) /\ Cardinality(Mine) <= MaxKeep
  <2>1. CASE save = "actor"
    <3>1. Mine = R \cup {global_steps}
      BY <2>1 DEF Mine
    <3>a. IsFiniteSet(R)
      BY <1>5
    <3>b. Cardinality(R) \in Nat /\ Cardinality(R) <= Len(saved_paths)
      BY <1>5, <1>6
    <3> HIDE DEF R
    <3>c. /\ IsFiniteSet(R \cup {global_steps})
          /\ Cardinality(R \cup {global_steps}) =
               IF global_steps \in R THEN Cardinality(R) ELSE Cardinality(R) + 1
      BY ONLY <3>a, FS_AddElement
    <3>2. /\ IsFiniteSet(R \cup {global_steps})
          /\ Cardinality(R \cup {global_steps}) <= Cardinality(R) + 1
      BY <3>b, <3>c
    <3>3. Len(saved_paths) < MaxKeep
      BY <2>1 DEF KeepInv
    <3>4. Cardinality(R) + 1 <= MaxKeep
      BY <1>4, <3>b, <3>3
    <3>5. Cardinality(R \cup {global_steps}) \in Nat
      BY <3>2, FS_CardinalityType
    <3>6. Cardinality(R \cup {global_steps}) <= MaxKeep
      BY <3>b, <3>2, <3>4, <3>5
    <3>7. QED
      BY <3>1, <3>2, <3>6
  <2>2. CASE save # "actor"
    <3>1. Mine = R
      BY <2>2 DEF Mine
    <3>2. Len(saved_paths) <= MaxKeep
      BY DEF KeepInv
    <3>3. Cardinality(R) <= MaxKeep
      BY <1>4, <1>5, <1>6, <3>2
    <3>4. QED
      BY <1>5, <3>1, <3>3
  <2>3. QED
    BY <2>1, <2>2
<1> HIDE DEF R
<1>8. /\ Cardinality(E) \in Nat /\ Cardinality(Mine) \in Nat
      /\ Cardinality(E \cap Mine) \in Nat
  <2>1. IsFiniteSet(E \cap Mine)
    BY <1>3, FS_Subset
  <2>2. QED
    BY <1>3, <1>7, <2>1, FS_CardinalityType
<1>9. /\ IsFiniteSet(E \cup Mine)
      /\ Cardinality(E \cup Mine) =
           Cardinality(E) + Cardinality(Mine) - Cardinality(E \cap Mine)
  BY <1>3, <1>7, FS_Union
<1>10. Cardinality(Kept) <= Cardinality(E \cup Mine) /\ IsFiniteSet(Kept)
  BY <1>1, <1>9, FS_Subset DEF LeftBy
<1>11. Cardinality(Kept) \in Nat /\ Cardinality(E \cup Mine) \in Nat
  BY <1>9, <1>10, FS_CardinalityType
<1>12. crashes \in Nat /\ MaxKeep * crashes \in Nat
       /\ MaxKeep * (crashes + 1) = MaxKeep * crashes + MaxKeep
  BY DEF Inv, TypeOK
<1>13. Cardinality(E) <= MaxKeep * crashes
  BY <1>1 DEF LeftBy
<1>14. QED
  BY <1>7, <1>8, <1>9, <1>10, <1>11, <1>12, <1>13

\* A step that leaves the actor folders and saved_paths as they are.
LEMMA KeepUnchanged ==
  ASSUME KeepInv, Kept' = Kept, UNCHANGED <<saved_paths, crashes>>,
         save' \in {"mkdir", "actor"} => save' = save,
         save = "actor" => save' = "actor" /\ global_steps' = global_steps
  PROVE  KeepInv'
<1>1. PICK E \in SUBSET Steps : LeftBy(E)
  BY DEF KeepInv
<1>2. Mine \subseteq Mine'
  BY DEF Mine
<1>3. LeftBy(E)'
  BY <1>1, <1>2 DEF LeftBy
<1>4. QED
  BY <1>3 DEF KeepInv

\* The steps of _save_checkpoint: the rotation makes room for one folder.
LEMMA SaveKeep ==
  ASSUME Inv, KeepInv, Save, MaxKeep > 0
  PROVE  KeepInv'
<1>a. /\ global_steps \in Steps /\ disk \in [Steps -> DiskType]
      /\ saved_paths \in Seq(Steps) /\ Len(saved_paths) \in Nat
      /\ global_steps' = global_steps /\ crashes' = crashes
  <2>1. saved_paths \in Seq(Steps)
    BY SaveFacts
  <2>2. QED
    BY <2>1, SaveFacts DEF runVars
<1>b. PICK E \in SUBSET Steps : LeftBy(E)
  BY DEF KeepInv
<1>1. CASE SaveRotate
  <2> DEFINE n == keep_start
  <2>1. n \in 0 .. Len(saved_paths) /\ Len(saved_paths) - n < MaxKeep
    BY <1>a DEF keep_start
  <2> HIDE DEF n
  <2>2. /\ save = "rotate" /\ save' = "mkdir"
        /\ disk' = [k \in Steps |->
                      IF \E i \in 1 .. n : saved_paths[i] = k
                        THEN [disk[k] EXCEPT !.actor = "absent"]
                        ELSE disk[k]]
        /\ saved_paths' = SubSeq(saved_paths, n + 1, Len(saved_paths))
    BY <1>1 DEF SaveRotate, RemoveOldest, n
  <2>3. /\ Len(saved_paths') = Len(saved_paths) - n
        /\ \A i \in 1 .. Len(saved_paths) - n : saved_paths'[i] = saved_paths[i + n]
    BY <1>a, <2>1, <2>2, Suffix
  <2>4. ASSUME NEW k \in Kept' PROVE k \in E \cup Mine'
    <3>1. k \in Steps /\ disk'[k].actor # "absent"
      BY DEF Kept
    <3>2. ~ \E i \in 1 .. n : saved_paths[i] = k
      <4>1. SUFFICES ASSUME \E i \in 1 .. n : saved_paths[i] = k PROVE FALSE
        OBVIOUS
      <4>2. disk'[k] = [disk[k] EXCEPT !.actor = "absent"] /\ disk[k] \in DiskType
        BY <1>a, <2>2, <3>1, <4>1
      <4>3. QED
        BY <3>1, <4>2 DEF DiskType
    <3>3. k \in Kept
      BY <2>2, <3>1, <3>2 DEF Kept
    <3>4. k \in E \/ \E i \in 1 .. Len(saved_paths) : saved_paths[i] = k
      BY <1>b, <2>2, <3>3 DEF LeftBy, Mine
    <3>5. ASSUME NEW i \in 1 .. Len(saved_paths), saved_paths[i] = k PROVE k \in Mine'
      <4>1. i \notin 1 .. n
        BY <3>2, <3>5
      <4>2. i - n \in 1 .. Len(saved_paths') /\ (i - n) + n = i
        BY <1>a, <2>1, <2>3, <4>1
      <4>3. saved_paths'[i - n] = k
        BY <2>3, <3>5, <4>2
      <4>4. QED
        BY <4>2, <4>3 DEF Mine
    <3>6. QED
      BY <3>4, <3>5
  <2>5. LeftBy(E)'
    BY <1>a, <1>b, <2>4 DEF LeftBy
  <2>6. Len(saved_paths') < MaxKeep /\ Len(saved_paths') <= MaxKeep
    BY <1>a, <2>1, <2>3
  <2>7. QED
    BY <2>5, <2>6 DEF KeepInv
<1>2. CASE SaveMkdir(global_steps)
  <2>1. /\ save = "mkdir" /\ save' = "actor" /\ saved_paths' = saved_paths
        /\ disk' = [disk EXCEPT ![global_steps].actor = "partial"]
    BY <1>2 DEF SaveMkdir
  <2>2. Kept' \subseteq Kept \cup {global_steps}
    BY <1>a, <2>1 DEF Kept
  <2>3. Mine' = Mine \cup {global_steps}
    BY <1>a, <2>1 DEF Mine
  <2>4. LeftBy(E)'
    BY <1>a, <1>b, <2>2, <2>3 DEF LeftBy
  <2>5. QED
    BY <2>1, <2>4 DEF KeepInv
<1>3. CASE SaveActor(global_steps, weights)
  <2>1. /\ save = "actor" /\ save' = "dataOpen"
        /\ saved_paths' = Append(saved_paths, global_steps)
        /\ disk' = [disk EXCEPT ![global_steps].actor = "complete",
                                ![global_steps].weights = weights]
    BY <1>3 DEF SaveActor
  <2>2. Kept' \subseteq Kept \cup {global_steps}
    BY <1>a, <2>1 DEF Kept
  <2>3. /\ Len(saved_paths') = Len(saved_paths) + 1
        /\ saved_paths'[Len(saved_paths) + 1] = global_steps
        /\ \A i \in 1 .. Len(saved_paths) : saved_paths'[i] = saved_paths[i]
    BY <1>a, <2>1
  <2>4. Mine \subseteq Mine' /\ global_steps \in Mine'
    <3>1. \A i \in 1 .. Len(saved_paths) : i \in 1 .. Len(saved_paths')
      BY <1>a, <2>3
    <3>2. Len(saved_paths) + 1 \in 1 .. Len(saved_paths')
      BY <1>a, <2>3
    <3>3. global_steps \in Mine'
      BY <2>3, <3>2 DEF Mine
    <3>4. ASSUME NEW i \in 1 .. Len(saved_paths) PROVE saved_paths[i] \in Mine'
      BY <2>3, <3>1 DEF Mine
    <3>5. QED
      BY <2>1, <3>3, <3>4 DEF Mine
  <2>5. LeftBy(E)'
    BY <1>a, <1>b, <2>2, <2>4 DEF LeftBy
  <2>6. Len(saved_paths) < MaxKeep
    BY <2>1 DEF KeepInv
  <2>7. Len(saved_paths') <= MaxKeep
    BY <1>a, <2>3, <2>6
  <2>8. QED
    BY <2>1, <2>5, <2>7 DEF KeepInv
<1>4. CASE SaveDataOpen(global_steps) \/ SaveData(global_steps, pos)
  <2>1. \A k \in Steps : disk'[k].actor = disk[k].actor
    <3>1. CASE SaveDataOpen(global_steps)
      <4>1. disk' = [disk EXCEPT ![global_steps].data = "partial"]
        BY <3>1 DEF SaveDataOpen
      <4>2. QED
        BY <1>a, <4>1 DEF DiskType
    <3>2. CASE SaveData(global_steps, pos)
      <4>1. disk' = [disk EXCEPT ![global_steps].data = "complete",
                                 ![global_steps].pos = pos]
        BY <3>2 DEF SaveData
      <4>2. QED
        BY <1>a, <4>1 DEF DiskType
    <3>3. QED
      BY <1>4, <3>1, <3>2
  <2>2. Kept' = Kept
    BY <2>1 DEF Kept
  <2>3. /\ saved_paths' = saved_paths /\ save # "actor"
        /\ save' \notin {"mkdir", "actor"}
    BY <1>4 DEF SaveDataOpen, SaveData
  <2>4. QED
    BY <1>a, <2>2, <2>3, KeepUnchanged
<1>5. CASE SaveTruncate \/ SaveTracker(global_steps)
  <2>1. /\ UNCHANGED <<disk, saved_paths>> /\ save # "actor"
        /\ save' \notin {"mkdir", "actor"}
    BY <1>5 DEF SaveTruncate, SaveTracker
  <2>2. Kept' = Kept
    BY <2>1 DEF Kept
  <2>3. QED
    BY <1>a, <2>1, <2>2, KeepUnchanged
<1>6. QED
  BY <1>1, <1>2, <1>3, <1>4, <1>5 DEF Save, SaveStep

\* The process dies: all it has left behind is now left by a run that died.
LEMMA CrashKeep ==
  ASSUME Inv, KeepInv, Crash
  PROVE  KeepInv'
<1>1. /\ crashes' = crashes + 1 /\ saved_paths' = <<>> /\ save' = "none"
      /\ disk' = disk
  BY DEF Crash, StoreCrash
<1>2. Kept' = Kept /\ Kept \in SUBSET Steps
  BY <1>1 DEF Kept
<1>3. LeftBy(Kept)'
  BY <1>1, <1>2, KeepBound DEF LeftBy
<1>4. Len(saved_paths') = 0 /\ 0 <= MaxKeep
  BY <1>1
<1>5. QED
  BY <1>1, <1>2, <1>3, <1>4 DEF KeepInv

\* Each run of the process leaves at most max_actor_ckpt_to_keep checkpoints of
\* the actor behind, however many steps it makes and wherever it dies.
THEOREM KeptAtMostPerRun == MaxKeep # 1 /\ Spec => []KeepAtMostPerRun
<1> SUFFICES ASSUME MaxKeep # 1 PROVE Spec => []KeepAtMostPerRun
  OBVIOUS
<1>1. CASE MaxKeep > 0
  <2>1. Init => KeepInv
    <3> SUFFICES ASSUME Init PROVE KeepInv
      OBVIOUS
    <3>1. /\ saved_paths = <<>> /\ save = "none" /\ crashes = 0
          /\ \A k \in Steps : disk[k].actor = "absent"
      BY DEF Init, StoreInit, NoCheckpoint
    <3>2. Kept = {} /\ Len(saved_paths) = 0
      BY <3>1 DEF Kept
    <3>3. LeftBy({})
      BY <3>1, <3>2, FS_EmptySet DEF LeftBy
    <3>4. QED
      BY <1>1, <3>1, <3>2, <3>3 DEF KeepInv
  <2>2. ASSUME Inv, KeepInv, [Next]_vars PROVE KeepInv'
    <3>1. CASE Save
      BY <1>1, <2>2, <3>1, SaveKeep
    <3>2. CASE Crash
      BY <2>2, <3>2, CrashKeep
    <3>3. CASE /\ UNCHANGED <<disk, saved_paths, crashes>> /\ save # "actor"
               /\ save' \notin {"mkdir", "actor"}
      <4>1. Kept' = Kept
        BY <3>3 DEF Kept
      <4>2. QED
        BY <2>2, <3>3, <4>1, KeepUnchanged
    <3>4. CASE UNCHANGED vars
      <4>1. /\ UNCHANGED <<disk, saved_paths, crashes, save, global_steps>>
        BY <3>4 DEF vars, storeVars, runVars
      <4>2. Kept' = Kept
        BY <4>1 DEF Kept
      <4>3. QED
        BY <2>2, <4>1, <4>2, KeepUnchanged
    <3>5. ASSUME NEW kept, Generate(kept) PROVE KeepInv'
      BY <2>2, <3>3, <3>5 DEF Generate, storeVars, Inv, StepInv, Saving
    <3>6. CASE LoadScratch \/ LoadCheckpoint \/ LoadFails
      BY <2>2, <3>3, <3>6 DEF LoadScratch, LoadCheckpoint, Resume, LoadFails,
         storeVars, runVars, Inv, StepInv, Saving
    <3>7. CASE KeepGenerating \/ GeneratedTooMany \/ Align
      BY <2>2, <3>3, <3>7 DEF KeepGenerating, GeneratedTooMany, Align,
         storeVars, runVars, Inv, StepInv, Saving
    <3>8. CASE Update \/ EndOfData
      BY <2>2, <3>3, <3>8 DEF Update, EndOfData, SaveBegin, storeVars, runVars, Inv,
         StepInv, Saving
    <3>9. CASE Finish \/ NextEpoch
      BY <2>2, <3>3, <3>9 DEF Finish, EndStep, NextEpoch, storeVars, runVars, Inv,
         StepInv, Saving
    <3>10. QED
      BY <2>2, <3>1, <3>2, <3>4, <3>5, <3>6, <3>7, <3>8, <3>9
         DEF Next, Step, Stop
  <2>3. Inv /\ KeepInv => KeepAtMostPerRun
    BY KeepBound DEF KeepAtMostPerRun
  <2>4. Spec => []Inv
    BY InvHolds
  <2>5. QED
    BY <2>1, <2>2, <2>3, <2>4, PTL DEF Spec
<1>2. CASE ~ (MaxKeep > 0)
  <2>1. KeepAtMostPerRun
    BY <1>2 DEF KeepAtMostPerRun
  <2>2. QED
    BY <2>1, PTL
<1>3. QED
  BY <1>1, <1>2

------------------------------------------------------------------------------
(* Steps, updates and checkpoints, for as long as the data lasts             *)

\* The step counter and the updates made.
CounterInv ==
  /\ Training => Updates(weights) = global_steps - 1
  /\ pc \in {"save", "finish", "done"} => Updates(weights) = global_steps
  /\ pc = "load" => Updates(weights) = 0
  /\ pc # "finalSave"

\* What the folders hold, and the folder of the last step.
NamesInv ==
  /\ \A k \in Steps : disk[k].actor = "complete" => Updates(disk[k].weights) = k
  /\ pc = "done" => IsLastStep
  /\ pc \in {"finish", "done"} /\ IsLastStep /\ SaveFreq > 0 =>
       tracker = global_steps /\ disk[global_steps].weights = weights

CountInv == CounterInv /\ NamesInv

\* The batches behind the loader, in the epochs this run has counted.
Fetched == epoch * DataLen + pos

\* What the proofs below use of the types.
LEMMA CountTypes ==
  ASSUME Inv
  PROVE  /\ epoch \in Nat /\ pos \in 0 .. DataLen /\ epoch < Epochs
         /\ epoch * DataLen \in Nat /\ Fetched \in Nat /\ Fetched >= pos
         /\ global_steps \in Nat /\ Updates(weights) \in Nat
         /\ tracker \in Int /\ \A k \in Steps : k \in Nat
<1>1. /\ epoch \in Nat /\ pos \in 0 .. DataLen /\ epoch < Epochs
      /\ global_steps \in Nat /\ \A k \in Steps : k \in Nat
  BY DEF Inv, TypeOK, Steps
<1>2. epoch * DataLen \in Nat
  BY <1>1
<1>3. Updates(weights) \in Nat /\ tracker \in Int
  BY DEF Inv, TypeOK, StoreTypeOK, Updates, Steps, Torn
<1>4. QED
  BY <1>1, <1>2, <1>3 DEF Fetched

\* A step that leaves the checkpoint folder alone.
LEMMA NamesUnchanged ==
  ASSUME NamesInv, UNCHANGED <<disk, tracker>>, pc' \notin {"finish", "done"}
  PROVE  NamesInv'
  BY DEF NamesInv

\* _load_checkpoint in any of its outcomes.
LEMMA LoadCount ==
  ASSUME Inv, CountInv, LoadScratch \/ LoadCheckpoint \/ LoadFails
  PROVE  CountInv'
<1>a. UNCHANGED <<disk, tracker>> /\ pc = "load" /\ Updates(weights) = 0
  BY DEF LoadScratch, LoadCheckpoint, Resume, LoadFails, storeVars, runVars, CountInv,
     CounterInv
<1>1. CASE LoadScratch
  <2>1. pc' = "fetch" /\ global_steps' = 1 /\ weights' = weights
    BY <1>1 DEF LoadScratch
  <2>2. CounterInv'
    BY <1>a, <2>1 DEF CounterInv, Training
  <2>3. QED
    BY <1>a, <2>1, <2>2, NamesUnchanged DEF CountInv
<1>2. CASE LoadCheckpoint
  <2>1. tracker \in Steps /\ disk[tracker].actor = "complete"
    BY <1>2 DEF LoadCheckpoint, Resume, Loadable, Inv, DiskInv, LatestComplete
  <2>2. /\ pc' = "fetch" /\ global_steps' = tracker + 1
        /\ weights' = disk[tracker].weights
    BY <1>2 DEF LoadCheckpoint, Resume
  <2>3. Updates(weights') = tracker /\ tracker \in Nat
    BY <2>1, <2>2, CountTypes DEF CountInv, NamesInv
  <2>4. CounterInv'
    BY <2>2, <2>3 DEF CounterInv, Training
  <2>5. QED
    BY <1>a, <2>2, <2>4, NamesUnchanged DEF CountInv
<1>3. CASE LoadFails
  <2>1. pc' = "failed"
    BY <1>3 DEF LoadFails
  <2>2. CounterInv'
    BY <2>1 DEF CounterInv, Training
  <2>3. QED
    BY <1>a, <2>1, <2>2, NamesUnchanged DEF CountInv
<1>4. QED
  BY <1>1, <1>2, <1>3

\* A batch fetched, and what becomes of it before the update.
LEMMA GenerateCount ==
  ASSUME CountInv,
         \/ \E kept \in Nat : Generate(kept)
         \/ KeepGenerating \/ GeneratedTooMany \/ Align \/ NextEpoch
  PROVE  CountInv'
<1>1. /\ pc \in {"fetch", "check"} /\ pc' \in {"fetch", "check", "update", "raised"}
      /\ Updates(weights') = Updates(weights)
      /\ UNCHANGED <<disk, tracker, global_steps>>
  <2>1. CASE \E kept \in Nat : Generate(kept)
    BY <2>1 DEF Generate, storeVars, Updates
  <2>2. CASE KeepGenerating \/ GeneratedTooMany
    BY <2>2 DEF KeepGenerating, GeneratedTooMany, storeVars, runVars
  <2>3. CASE Align \/ NextEpoch
    BY <2>3 DEF Align, NextEpoch, storeVars
  <2>4. QED
    BY <2>1, <2>2, <2>3
<1>2. CounterInv'
  BY <1>1 DEF CountInv, CounterInv, Training
<1>3. QED
  BY <1>1, <1>2, NamesUnchanged DEF CountInv

\* One update: it is saved when it is the last.
LEMMA UpdateCount ==
  ASSUME Inv, CountInv, Update
  PROVE  CountInv'
<1>1. /\ pc = "update"
      /\ UNCHANGED <<disk, tracker, global_steps>>
      /\ \/ pc' = "save"
         \/ pc' = "finish" /\ ~ ShouldSave
      /\ weights' = <<Updates(weights) + 1, Reached(weights)>>
  BY DEF Update, storeVars
<1>2. Updates(weights') = global_steps
  BY <1>1, CountTypes DEF CountInv, CounterInv, Updates, Training
<1>3. CounterInv'
  BY <1>1, <1>2 DEF CountInv, CounterInv, Training
<1>4. CASE pc' = "save"
  BY <1>1, <1>3, <1>4, NamesUnchanged DEF CountInv
<1>5. CASE pc' = "finish" /\ ~ ShouldSave
  <2>1. ~ (IsLastStep' /\ SaveFreq > 0)
    BY <1>1, <1>5 DEF ShouldSave, IsLastStep
  <2>2. NamesInv'
    BY <1>1, <1>5, <2>1 DEF CountInv, NamesInv
  <2>3. QED
    BY <1>3, <2>2 DEF CountInv
<1>6. QED
  BY <1>1, <1>4, <1>5

\* The steps of _save_checkpoint.
LEMMA SaveCount ==
  ASSUME Inv, CountInv, Save
  PROVE  CountInv'
<1>a. /\ global_steps \in Steps /\ disk \in [Steps -> DiskType]
      /\ tracker < global_steps /\ tracker \in Int
      /\ UNCHANGED <<global_steps, epoch, pos, weights>>
      /\ save' # "none" => pc' = pc
  BY SaveFacts DEF runVars
<1>b. pc = "save" /\ Updates(weights) = global_steps
  BY DEF Save, CountInv, CounterInv
<1>c. pc' \in {"save", "finish"} /\ (save' = "none" <=> pc' = "finish")
  BY <1>b DEF Save
<1>d. CounterInv'
  BY <1>a, <1>b, <1>c DEF CounterInv, Training
<1>1. \A k \in Steps : disk'[k].actor = "complete" => Updates(disk'[k].weights) = k
  <2>a. \A k \in Steps : disk[k].actor = "complete" => Updates(disk[k].weights) = k
    BY DEF CountInv, NamesInv
  <2>1. CASE SaveRotate
    <3>1. \A k \in Steps : \/ disk'[k] = disk[k]
                           \/ disk'[k] = [disk[k] EXCEPT !.actor = "absent"]
      BY <2>1 DEF SaveRotate, RemoveOldest
    <3>2. ASSUME NEW k \in Steps
          PROVE  /\ disk'[k].weights = disk[k].weights
                 /\ disk'[k].actor = "complete" => disk[k].actor = "complete"
      <4>1. disk[k] \in DiskType
        BY <1>a
      <4>2. QED
        BY <3>1, <4>1 DEF DiskType
    <3>3. QED
      BY <2>a, <3>2
  <2>2. CASE SaveMkdir(global_steps)
    <3>1. disk' = [disk EXCEPT ![global_steps].actor = "partial"]
      BY <2>2 DEF SaveMkdir
    <3>2. /\ disk'[global_steps].actor = "partial"
          /\ \A k \in Steps : k # global_steps => disk'[k] = disk[k]
      BY <1>a, <3>1 DEF DiskType
    <3>3. QED
      BY <2>a, <3>2
  <2>3. CASE SaveActor(global_steps, weights)
    <3>1. disk' = [disk EXCEPT ![global_steps].actor = "complete",
                               ![global_steps].weights = weights]
      BY <2>3 DEF SaveActor
    <3>2. /\ disk'[global_steps].weights = weights
          /\ \A k \in Steps : k # global_steps => disk'[k] = disk[k]
      BY <1>a, <3>1 DEF DiskType
    <3>3. QED
      BY <1>b, <2>a, <3>2
  <2>4. CASE SaveDataOpen(global_steps) \/ SaveData(global_steps, pos)
    <3>1. \/ disk' = [disk EXCEPT ![global_steps].data = "partial"]
          \/ disk' = [disk EXCEPT ![global_steps].data = "complete",
                                  ![global_steps].pos = pos]
      BY <2>4 DEF SaveDataOpen, SaveData
    <3>2. /\ disk'[global_steps].weights = disk[global_steps].weights
          /\ disk'[global_steps].actor = disk[global_steps].actor
          /\ \A k \in Steps : k # global_steps => disk'[k] = disk[k]
      BY <1>a, <3>1 DEF DiskType
    <3>3. QED
      BY <2>a, <3>2
  <2>5. CASE SaveTruncate \/ SaveTracker(global_steps)
    <3>1. disk' = disk
      BY <2>5 DEF SaveTruncate, SaveTracker
    <3>2. QED
      BY <2>a, <3>1
  <2>6. QED
    BY <2>1, <2>2, <2>3, <2>4, <2>5 DEF Save, SaveStep
<1>2. CASE SaveTracker(global_steps)
  <2>1. save = "track" /\ tracker' = global_steps /\ disk' = disk
    BY <1>2 DEF SaveTracker
  <2>2. disk[global_steps].weights = weights
    BY <2>1 DEF Inv, DiskInv, Written
  <2>3. NamesInv'
    BY <1>1, <1>a, <1>c, <2>1, <2>2 DEF NamesInv
  <2>4. QED
    BY <1>d, <2>3 DEF CountInv
<1>3. CASE ~ SaveTracker(global_steps)
  <2>1. save' # "none"
    BY <1>3 DEF Save, SaveStep, SaveRotate, RemoveOldest, SaveMkdir, SaveActor,
       SaveDataOpen, SaveData, SaveTruncate
  <2>2. pc' = "save"
    BY <1>c, <2>1
  <2>3. NamesInv'
    BY <1>1, <2>2 DEF NamesInv
  <2>4. QED
    BY <1>d, <2>3 DEF CountInv
<1>4. QED
  BY <1>2, <1>3

\* The end of a step.
LEMMA FinishCount ==
  ASSUME Inv, CountInv, Finish
  PROVE  CountInv'
<1>1. /\ pc = "finish" /\ UNCHANGED <<disk, tracker, weights>>
      /\ \/ pc' = "done" /\ IsLastStep /\ global_steps' = global_steps
         \/ pc' = "fetch" /\ global_steps' = global_steps + 1
  BY DEF Finish, EndStep, storeVars
<1>2. Updates(weights') = global_steps
  BY <1>1 DEF CountInv, CounterInv
<1>3. CASE pc' = "done"
  <2>1. CounterInv'
    BY <1>1, <1>2, <1>3 DEF CounterInv, Training
  <2>2. NamesInv'
    BY <1>1, <1>3 DEF CountInv, NamesInv, IsLastStep
  <2>3. QED
    BY <2>1, <2>2 DEF CountInv
<1>4. CASE pc' = "fetch"
  <2>1. CounterInv'
    BY <1>1, <1>2, <1>4, CountTypes DEF CounterInv, Training
  <2>2. QED
    BY <1>1, <1>4, <2>1, NamesUnchanged DEF CountInv
<1>5. QED
  BY <1>1, <1>3, <1>4

\* The process dies.
LEMMA CrashCount ==
  ASSUME CountInv, Crash
  PROVE  CountInv'
<1>1. pc' = "load" /\ weights' = <<0, 0>> /\ UNCHANGED <<disk, tracker>>
  BY DEF Crash, StoreCrash
<1>2. CounterInv'
  BY <1>1 DEF CounterInv, Training, Updates
<1>3. QED
  BY <1>1, <1>2, NamesUnchanged DEF CountInv

\* For as long as the data lasts, updates, steps and checkpoints stay in step.
THEOREM CountHolds == MaxKeep # 1 /\ Spec => [](spent \/ CountInv)
<1> SUFFICES ASSUME MaxKeep # 1 PROVE Spec => [](spent \/ CountInv)
  OBVIOUS
<1>1. Init => CountInv
  <2> SUFFICES ASSUME Init PROVE CountInv
    OBVIOUS
  <2>1. /\ pc = "load" /\ weights = <<0, 0>>
        /\ \A k \in Steps : disk[k].actor = "absent"
    BY DEF Init, StoreInit, NoCheckpoint
  <2>2. QED
    BY <2>1 DEF CountInv, CounterInv, NamesInv, Training, Updates
<1>2. ASSUME Inv, spent \/ CountInv, [Next]_vars PROVE spent' \/ CountInv'
  <2>1. CASE spent
    BY <1>2, <2>1 DEF Next, Step, Stop, vars, LoadScratch, LoadCheckpoint, Resume,
       LoadFails, Generate, KeepGenerating, GeneratedTooMany, Align, Update, Save, Finish,
       EndStep, NextEpoch, EndOfData, Crash
  <2>2. CASE CountInv
    <3>1. CASE UNCHANGED vars
      <4>1. UNCHANGED <<disk, tracker, pc, global_steps, weights>>
        BY <3>1 DEF vars, storeVars, runVars
      <4>2. QED
        BY <2>2, <4>1 DEF CountInv, CounterInv, NamesInv, Training, IsLastStep
    <3>2. ASSUME NEW kept \in IF Filter THEN 0 .. GenSize ELSE {GenSize}, Generate(kept)
          PROVE  CountInv'
      <4>1. kept \in Nat
        OBVIOUS
      <4>2. QED
        BY <2>2, <3>2, <4>1, GenerateCount
    <3>3. CASE EndOfData
      BY <3>3 DEF EndOfData
    <3>4. QED
      BY <1>2, <2>2, <3>1, <3>2, <3>3, LoadCount, GenerateCount, UpdateCount, SaveCount,
         FinishCount, CrashCount DEF Next, Step, Stop
  <2>3. QED
    BY <1>2, <2>1, <2>2
<1>3. Spec => []Inv
  BY InvHolds
<1>4. QED
  BY <1>1, <1>2, <1>3, PTL DEF Spec

\* Checkpoint global_step_k holds the weights after k updates, wherever the
\* process dies and however often, for as long as the data lasts.
THEOREM StepsNameUpdates == MaxKeep # 1 /\ Spec => []StepNamesUpdates
<1>1. spent \/ CountInv => StepNamesUpdates
  BY DEF CountInv, CounterInv, NamesInv, StepNamesUpdates, Training
<1>2. QED
  BY <1>1, CountHolds, PTL

\* When fit returns and the data has lasted, the latest checkpoint is that of
\* its last step and holds the weights it has trained.
THEOREM FinalCheckpointIsSaved == MaxKeep # 1 /\ Spec => []FinalCheckpointSaved
<1>1. spent \/ CountInv => FinalCheckpointSaved
  BY DEF CountInv, NamesInv, FinalCheckpointSaved
<1>2. QED
  BY <1>1, CountHolds, PTL

------------------------------------------------------------------------------
(* A job whose data suffices for its steps                                   *)

\* Every step takes one batch, and the epochs hold the batches of all steps.  A
\* second epoch is what a job that resumes at the end of the first goes on with.
EnoughData == ~ Filter /\ Epochs > 1 /\ TotalSteps <= Epochs * DataLen

\* A run fetches no more than it has steps, and one that resumes after the last
\* step is still in its first epoch.
FetchInv ==
  /\ pc = "load" => epoch = 0
  /\ pc = "fetch" => Fetched < global_steps
  /\ pc \in {"check", "update", "save", "finish"} => Fetched <= global_steps
  /\ pc = "fetch" => global_steps <= TotalSteps \/ Fetched <= DataLen

\* The data has lasted, and the latest checkpoint is no further in it.
LastsInv ==
  /\ FetchInv
  /\ ~ spent /\ pc # "finalSave"
  /\ tracker \in Steps => disk[tracker].pos <= tracker

\* _load_checkpoint in any of its outcomes, and the kill of the process.
LEMMA LoadLasts ==
  ASSUME Inv, LastsInv, LoadScratch \/ LoadCheckpoint \/ LoadFails \/ Crash
  PROVE  LastsInv'
<1>a. UNCHANGED <<disk, tracker, spent>>
  BY DEF LoadScratch, LoadCheckpoint, Resume, LoadFails, Crash, storeVars, StoreCrash
<1>1. CASE LoadScratch
  <2>1. pc' = "fetch" /\ global_steps' = 1 /\ epoch' = 0 /\ pos' = 0
    BY <1>1 DEF LoadScratch, LastsInv, FetchInv, Inv, DataInv
  <2>2. Fetched' = 0
    BY <2>1 DEF Fetched
  <2>3. QED
    BY <1>a, <2>1, <2>2 DEF LastsInv, FetchInv
<1>2. CASE LoadCheckpoint
  <2>1. /\ tracker \in Steps /\ disk[tracker].data = "complete"
        /\ disk[tracker].pos \in 0 .. DataLen /\ tracker \in Nat
    BY <1>2, CountTypes DEF LoadCheckpoint, Resume, Loadable, Inv, DiskInv, DataInv,
       LatestComplete
  <2>2. /\ pc' = "fetch" /\ global_steps' = tracker + 1 /\ epoch' = 0
        /\ pos' = disk[tracker].pos
    BY <1>2, <2>1 DEF LoadCheckpoint, Resume, SavedPos, LastsInv, FetchInv
  <2>3. Fetched' = pos'
    <3>1. \A p \in Nat : 0 * DataLen + p = p
      OBVIOUS
    <3>2. QED
      BY <2>1, <2>2, <3>1 DEF Fetched
  <2>4. QED
    BY <1>a, <2>1, <2>2, <2>3 DEF LastsInv, FetchInv
<1>3. CASE LoadFails \/ Crash
  <2>1. pc' \in {"failed", "load"} /\ (pc' = "load" => epoch' = 0)
    BY <1>3 DEF LoadFails, Crash
  <2>2. FetchInv' /\ pc' # "finalSave"
    BY <2>1 DEF FetchInv
  <2>3. QED
    BY <1>a, <2>2 DEF LastsInv
<1>4. QED
  BY <1>1, <1>2, <1>3

\* A batch fetched.
LEMMA GenerateLasts ==
  ASSUME NEW kept, Inv, LastsInv, Generate(kept)
  PROVE  LastsInv'
<1>1. /\ pc = "fetch" /\ pc' = "check" /\ pos' = pos + 1
      /\ UNCHANGED <<disk, tracker, epoch, global_steps, spent>>
  BY DEF Generate, storeVars
<1>2. Fetched' = Fetched + 1
  BY <1>1, CountTypes DEF Fetched
<1>3. FetchInv'
  BY <1>1, <1>2, CountTypes DEF LastsInv, FetchInv
<1>4. QED
  BY <1>1, <1>3 DEF LastsInv

\* Without the filter the batch is complete, and goes to the update.
LEMMA CheckLasts ==
  ASSUME LastsInv, EnoughData, KeepGenerating \/ GeneratedTooMany \/ Align \/ Update
  PROVE  LastsInv'
<1>1. /\ \/ pc = "check" /\ pc' = "update"
         \/ pc = "update" /\ pc' \in {"save", "finish"}
      /\ UNCHANGED <<disk, tracker, epoch, pos, global_steps, spent>>
  BY DEF KeepGenerating, GeneratedTooMany, Align, Update, EnoughData, Enough, storeVars
<1>2. Fetched' = Fetched
  BY <1>1 DEF Fetched
<1>3. QED
  BY <1>1, <1>2 DEF LastsInv, FetchInv

\* The steps of _save_checkpoint.
LEMMA SaveLasts ==
  ASSUME Inv, LastsInv, Save
  PROVE  LastsInv'
<1>a. /\ global_steps \in Steps /\ disk \in [Steps -> DiskType]
      /\ tracker < global_steps /\ tracker \in Int
      /\ UNCHANGED <<global_steps, epoch, pos, spent>>
  BY SaveFacts DEF runVars, Save
<1>b. pc = "save" /\ Fetched <= global_steps /\ pc' \in {"save", "finish"}
  BY DEF Save, LastsInv, FetchInv
<1>c. Fetched' = Fetched
  BY <1>a DEF Fetched
<1>d. FetchInv' /\ ~ spent' /\ pc' # "finalSave"
  BY <1>a, <1>b, <1>c DEF LastsInv, FetchInv
<1>1. CASE SaveTracker(global_steps)
  <2>1. tracker' = global_steps /\ disk' = disk /\ disk[global_steps].pos = pos
    BY <1>1 DEF SaveTracker, Inv, DiskInv
  <2>2. pos <= global_steps
    BY <1>b, CountTypes
  <2>3. QED
    BY <1>d, <2>1, <2>2 DEF LastsInv
<1>2. CASE ~ SaveTracker(global_steps)
  <2>1. /\ tracker' \in {tracker, Torn}
        /\ \A k \in Steps : k # global_steps => disk'[k].pos = disk[k].pos
    <3>1. CASE SaveRotate
      <4>1. \A k \in Steps : \/ disk'[k] = disk[k]
                             \/ disk'[k] = [disk[k] EXCEPT !.actor = "absent"]
        BY <3>1 DEF SaveRotate, RemoveOldest
      <4>2. ASSUME NEW k \in Steps PROVE disk'[k].pos = disk[k].pos
        <5>1. disk[k] \in DiskType
          BY <1>a
        <5>2. QED
          BY <4>1, <5>1 DEF DiskType
      <4>3. QED
        BY <3>1, <4>2 DEF SaveRotate, RemoveOldest
    <3>2. CASE ~ SaveRotate
      BY <1>2, <1>a, <3>2 DEF Save, SaveStep, SaveMkdir, SaveActor, SaveDataOpen, SaveData,
         SaveTruncate, DiskType
    <3>3. QED
      BY <3>1, <3>2
  <2>2. tracker' \in Steps => tracker' = tracker /\ tracker # global_steps
    BY <1>a, <2>1 DEF Torn, Steps
  <2>3. QED
    BY <1>d, <2>1, <2>2 DEF LastsInv
<1>3. QED
  BY <1>1, <1>2

\* The end of a step.
LEMMA FinishLasts ==
  ASSUME Inv, LastsInv, Finish
  PROVE  LastsInv'
<1>1. /\ pc = "finish" /\ UNCHANGED <<disk, tracker, epoch, pos, spent>>
      /\ \/ pc' = "done"
         \/ pc' = "fetch" /\ ~ IsLastStep /\ global_steps' = global_steps + 1
  BY DEF Finish, EndStep, storeVars
<1>2. Fetched' = Fetched /\ Fetched <= global_steps
  BY <1>1 DEF Fetched, LastsInv, FetchInv
<1>3. FetchInv'
  BY <1>1, <1>2, CountTypes DEF FetchInv, IsLastStep
<1>4. QED
  BY <1>1, <1>3 DEF LastsInv

\* The next epoch goes on counting where the last one ended.
LEMMA NextEpochLasts ==
  ASSUME Inv, LastsInv, NextEpoch
  PROVE  LastsInv'
<1>1. /\ pc = "fetch" /\ pos >= DataLen /\ epoch' = epoch + 1 /\ pos' = 0
      /\ UNCHANGED <<disk, tracker, global_steps, pc, spent>>
  BY DEF NextEpoch, storeVars
<1>2. pos = DataLen /\ epoch \in Nat
  BY <1>1, CountTypes
<1>3. (epoch + 1) * DataLen = epoch * DataLen + DataLen
  BY <1>2
<1>4. Fetched' = Fetched
  <2>1. Fetched' = (epoch + 1) * DataLen + 0 /\ Fetched = epoch * DataLen + DataLen
    BY <1>1, <1>2 DEF Fetched
  <2>2. QED
    BY <1>2, <1>3, <2>1, CountTypes
<1>5. QED
  BY <1>1, <1>4 DEF LastsInv, FetchInv

\* The data is not used up before the last step.
LEMMA EndOfDataLasts ==
  ASSUME Inv, LastsInv, EnoughData, EndOfData
  PROVE  FALSE
<1>1. pc = "fetch" /\ pos >= DataLen /\ epoch + 1 >= Epochs
  BY DEF EndOfData
<1>2. pos = DataLen /\ epoch + 1 = Epochs /\ epoch \in Nat /\ Epochs > 1
  BY <1>1, CountTypes DEF EnoughData
<1>3. /\ Fetched = epoch * DataLen + DataLen
      /\ Epochs * DataLen = epoch * DataLen + DataLen
  <2>1. (epoch + 1) * DataLen = epoch * DataLen + DataLen
    BY <1>2
  <2>2. QED
    BY <1>2, <2>1 DEF Fetched
<1>4. epoch * DataLen >= DataLen
  BY <1>2
<1>5. Fetched < global_steps /\ (global_steps <= TotalSteps \/ Fetched <= DataLen)
  BY <1>1 DEF LastsInv, FetchInv
<1>6. TotalSteps <= Epochs * DataLen
  BY DEF EnoughData
<1>7. epoch * DataLen \in Nat /\ global_steps \in Nat
  BY CountTypes
<1>8. QED
  BY <1>3, <1>4, <1>5, <1>6, <1>7

\* Without dynamic sampling, epochs that hold the batches of all steps are
\* enough, wherever the process dies and however often: no run uses up its data.
THEOREM DataSuffices == MaxKeep # 1 /\ EnoughData /\ Spec => [](~ spent)
<1> SUFFICES ASSUME MaxKeep # 1, EnoughData PROVE Spec => [](~ spent)
  OBVIOUS
<1>1. Init => LastsInv
  BY DEF Init, StoreInit, LastsInv, FetchInv, Steps
<1>2. ASSUME Inv, LastsInv, [Next]_vars PROVE LastsInv'
  <2>1. CASE UNCHANGED vars
    <3>1. UNCHANGED <<disk, tracker, pc, epoch, pos, global_steps, spent>>
      BY <2>1 DEF vars, storeVars, runVars
    <3>2. QED
      BY <1>2, <3>1 DEF LastsInv, FetchInv, Fetched
  <2>2. ASSUME NEW kept, Generate(kept) PROVE LastsInv'
    BY <1>2, <2>2, GenerateLasts
  <2>3. QED
    BY <1>2, <2>1, <2>2, LoadLasts, CheckLasts, SaveLasts, FinishLasts, NextEpochLasts,
       EndOfDataLasts DEF Next, Step, Stop
<1>3. LastsInv => ~ spent
  BY DEF LastsInv
<1>4. Spec => []Inv
  BY InvHolds
<1>5. QED
  BY <1>1, <1>2, <1>3, <1>4, PTL DEF Spec

=============================================================================
