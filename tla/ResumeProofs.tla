---------------------------- MODULE ResumeProofs ----------------------------
(***************************************************************************)
(* Proofs about the restarts of three trainers.  The                       *)
(* one-step-off trainer: for every length of the data, number of steps,    *)
(* save frequency and number of restarts, a batch is one update old and    *)
(* the batches come in the order of the data.  The fully asynchronous job: *)
(* for every size of the data, of a round and of what is in flight, no     *)
(* sample is trained on twice or lost unaccounted for.  The supervised     *)
(* trainer, at the end: for every data length, number of epochs, save      *)
(* frequency and number of restarts, and every max_ckpt_to_keep but 1,     *)
(* with which a job may lose its checkpoint, start over and be resumed     *)
(* from a folder without data.pt.                                          *)
(***************************************************************************)
EXTENDS OneStepOff, AsyncResume, SftTrainer, FiniteSetTheorems, TLAPS

Looping == at \in {"start", "await", "sync", "update", "validate", "check", "save"}
Trained == at \in {"validate", "check", "save", "finish"}
OnItsWay == future.state \in {"generating", "ready"}
Lag == IF fresh THEN 0 ELSE 1

Batches == [state : {"none", "None", "generating", "ready"},
            place : 0 .. OffDataLen, made : Nat]

Folders == [actor : FileState, weights : Nat \X (0 .. OffDataLen),
            data : FileState, pos : 0 .. OffDataLen]

\* The ranges of the variables; saved_paths is whatever it is.
OffTypeOK ==
  /\ tracker \in Steps \cup {0, Torn}
  /\ disk \in [Steps -> Folders]
  /\ save \in {"none", "rotate", "mkdir", "actor", "dataOpen", "data",
               "truncate", "track"}
  /\ at \in {"load", "start", "await", "sync", "update", "validate", "check",
             "save", "finish", "done", "unpackNone", "loadFailed"}
  /\ step \in Nat /\ next \in 0 .. OffDataLen
  /\ future \in Batches /\ current \in Batches
  /\ actor \in Nat \X (0 .. OffDataLen)
  /\ rollout \in Nat /\ fresh \in BOOLEAN /\ died \in Nat

\* The step being made is beyond the one of the tracker, so that a save never
\* writes into the folder of the latest checkpoint.
StepInv ==
  /\ at = "save" <=> save # "none"
  /\ Looping \/ at = "finish" => step \in 1 .. OffSteps + died
  /\ Looping => tracker < step
  /\ at = "finish" => tracker <= step
  /\ at = "load" => tracker < OffSteps + died
  /\ died <= OffMaxCrash

\* How old a batch is, wherever it is.
AgeInv ==
  /\ at \in {"load", "start"} => fresh
  /\ at = "load" => actor[2] = 0 /\ next = 0
  /\ at = "start" => rollout = actor[1]
  /\ at \in {"await", "sync"} /\ OnItsWay => future.made = actor[1] - Lag
  /\ at = "sync" => future.state = "ready" /\ current = future
  /\ at = "update" => /\ current.made = actor[1] - Lag
                      /\ OnItsWay => future.made = actor[1]
  /\ Trained => ~ fresh /\ (OnItsWay => future.made = actor[1] - 1)

\* The place of weights whose loader stands at p: the loader is ahead of the
\* weights by the batch on its way, if there is one.
Ahead(p, w) == p = w \/ p = PlaceAfter(w)

\* Where the loader stands, compared with the weights and the batches.
PlaceInv ==
  /\ at = "start" => Ahead(next, actor[2])
  /\ at \in {"await", "sync"} /\ OnItsWay =>
       /\ future.place = next
       /\ \/ next = PlaceAfter(actor[2])
          \/ fresh /\ next = PlaceAfter(PlaceAfter(actor[2]))
  /\ at = "update" => /\ BatchesInOrder
                      /\ next = IF OnItsWay THEN PlaceAfter(current.place)
                                            ELSE current.place
                      /\ OnItsWay => future.place = next
  /\ Trained => /\ next = IF OnItsWay THEN PlaceAfter(actor[2]) ELSE actor[2]
                /\ OnItsWay => future.place = next

\* What the save under way has written, and the checkpoint of the tracker.
DiskInv ==
  /\ tracker \in Steps => /\ disk[tracker].data = "complete"
                          /\ Ahead(disk[tracker].pos, disk[tracker].weights[2])
  /\ save \in {"dataOpen", "data", "truncate", "track"} => disk[step].weights = actor
  /\ save \in {"truncate", "track"} => /\ disk[step].data = "complete"
                                       /\ disk[step].pos = next

Inv == OffTypeOK /\ StepInv /\ AgeInv /\ PlaceInv /\ DiskInv

USE OffAssumption, MaxStepAssumption, MaxKeepAssumption

\* The next place of the data: the one after p, or the first one.
LEMMA PlaceStep ==
  /\ \A p \in 0 .. OffDataLen : PlaceAfter(p) \in 1 .. OffDataLen
  /\ \A p \in 0 .. OffDataLen : p < OffDataLen => PlaceAfter(p) = p + 1
  /\ PlaceAfter(OffDataLen) = 1
<1>1. \A p \in 0 .. OffDataLen : p < OffDataLen => p % OffDataLen = p
  OBVIOUS
<1>2. OffDataLen % OffDataLen = 0
  OBVIOUS
<1>3. QED
  BY <1>1, <1>2 DEF PlaceAfter

\* _async_gen_next_batch: the batch handed to the servers is the one after the
\* loader's place, and of the servers' weights; without one the loader stays.
LEMMA NextBatchPlace ==
  ASSUME next \in 0 .. OffDataLen, rollout' \in Nat, NextBatch
  PROVE  /\ future' \in Batches /\ next' \in 0 .. OffDataLen
         /\ future'.state \in {"generating", "None"}
         /\ future'.state = "generating" => /\ next' = PlaceAfter(next)
                                            /\ future'.place = next'
                                            /\ future'.made = rollout'
         /\ future'.state = "None" => next' = next
<1>1. CASE next < OffDataLen
  BY <1>1, PlaceStep DEF NextBatch, Batches, NoBatch
<1>2. CASE ~ (next < OffDataLen)
  BY <1>2, PlaceStep DEF NextBatch, Batches, NoBatch
<1>3. QED
  BY <1>1, <1>2

\* _load_checkpoint and the transfer of its weights to the servers.
LEMMA OffLoadInv == Inv /\ OffLoad => Inv'
<1> SUFFICES ASSUME Inv, OffLoad PROVE Inv'
  OBVIOUS
<1>a. NothingSaved => tracker = 0
  BY DEF Inv, NothingSaved, DirExists, DiskInv, OffTypeOK, Steps, Torn
<1>b. ~ NothingSaved => /\ tracker \in Steps
                        /\ disk[tracker].weights \in Nat \X (0 .. OffDataLen)
                        /\ disk[tracker].pos \in 0 .. OffDataLen
                        /\ Ahead(disk[tracker].pos, disk[tracker].weights[2])
                        /\ SavedPlace = disk[tracker].pos
  BY DEF Inv, OffLoad, Loadable, SavedPlace, DiskInv, OffTypeOK, Folders
<1>c. /\ at' = "start" /\ rollout' = actor'[1]
      /\ UNCHANGED <<tracker, disk, saved_paths, save, future, current, fresh, died>>
  BY DEF OffLoad, SyncRolloutWeights, storeVars
<1>d. /\ NothingSaved => step' = 1 /\ actor' = actor /\ next' = next
      /\ ~ NothingSaved => /\ step' = tracker + 1 /\ next' = disk[tracker].pos
                           /\ actor' = disk[tracker].weights
  BY <1>b DEF OffLoad
<1>e. step' \in 1 .. OffSteps + died /\ tracker < step'
  <2>1. CASE NothingSaved
    BY <2>1, <1>a, <1>d DEF Inv, OffTypeOK
  <2>2. CASE ~ NothingSaved
    <3>1. tracker \in Nat \ {0} /\ died \in Nat /\ step' = tracker + 1
      BY <2>2, <1>b, <1>d DEF Inv, OffTypeOK, Steps
    <3>2. tracker < OffSteps + died
      BY DEF Inv, OffLoad, StepInv
    <3>3. QED
      BY <3>1, <3>2
  <2>3. QED
    BY <2>1, <2>2
<1>f. actor' \in Nat \X (0 .. OffDataLen) /\ next' \in 0 .. OffDataLen
  BY <1>b, <1>d DEF Inv, OffTypeOK
<1>1. OffTypeOK'
  BY <1>c, <1>e, <1>f DEF Inv, OffTypeOK
<1>2. StepInv'
  BY <1>c, <1>e DEF Inv, OffLoad, StepInv, Looping, OffTypeOK
<1>3. AgeInv'
  BY <1>c DEF Inv, OffLoad, AgeInv, Trained
<1>4. PlaceInv'
  BY <1>b, <1>c, <1>d DEF Inv, OffLoad, AgeInv, PlaceInv, Ahead, Trained
<1>5. DiskInv'
  BY <1>c DEF Inv, OffLoad, DiskInv, Ahead, StepInv
<1>6. QED
  BY <1>1, <1>2, <1>3, <1>4, <1>5 DEF Inv

\* _load_checkpoint raising.
LEMMA OffLoadFailsInv == Inv /\ OffLoadFails => Inv'
<1> SUFFICES ASSUME Inv, OffLoadFails PROVE Inv'
  OBVIOUS
<1>1. OffTypeOK'
  BY DEF Inv, OffLoadFails, loopVars, storeVars, OffTypeOK, Batches,
     FileState, Steps, Torn
<1>2. StepInv'
  BY DEF Inv, OffLoadFails, loopVars, storeVars, StepInv, Looping, OffTypeOK,
     Steps, Torn
<1>3. AgeInv'
  BY DEF Inv, OffLoadFails, loopVars, storeVars, AgeInv, OnItsWay, Lag,
     Trained, OffTypeOK, Batches
<1>4. PlaceInv'
  BY DEF Inv, OffLoadFails, loopVars, storeVars, PlaceInv, OnItsWay, Trained,
     Ahead, BatchesInOrder, OffTypeOK, Batches
<1>5. DiskInv'
  BY DEF Inv, OffLoadFails, loopVars, storeVars, DiskInv, Ahead, StepInv,
     Looping, OffTypeOK, Steps, Torn
<1>6. QED
  BY <1>1, <1>2, <1>3, <1>4, <1>5 DEF Inv

\* The first task of a process.
LEMMA FirstTaskInv == Inv /\ FirstTask => Inv'
<1> SUFFICES ASSUME Inv, FirstTask PROVE Inv'
  OBVIOUS
<1>a. /\ future' \in Batches /\ next' \in 0 .. OffDataLen
      /\ future'.state \in {"generating", "None"}
      /\ future'.state = "generating" => /\ next' = PlaceAfter(next)
                                         /\ future'.place = next'
                                         /\ future'.made = rollout'
      /\ future'.state = "None" => next' = next
  BY NextBatchPlace DEF Inv, FirstTask, OffTypeOK
<1>1. OffTypeOK'
  BY <1>a DEF Inv, FirstTask, storeVars, OffTypeOK, Batches, FileState, Steps,
     Torn
<1>2. StepInv'
  BY <1>a DEF Inv, FirstTask, storeVars, StepInv, Looping, OffTypeOK, Steps,
     Torn
<1>3. AgeInv'
  BY <1>a DEF Inv, FirstTask, storeVars, AgeInv, OnItsWay, Lag, Trained,
     OffTypeOK, Batches
<1>4. PlaceInv'
  BY <1>a DEF Inv, FirstTask, storeVars, PlaceInv, OnItsWay, Trained, Ahead,
     BatchesInOrder, OffTypeOK, Batches, AgeInv
<1>5. DiskInv'
  BY <1>a DEF Inv, FirstTask, storeVars, DiskInv, Ahead, StepInv, Looping,
     OffTypeOK, Steps, Torn
<1>6. QED
  BY <1>1, <1>2, <1>3, <1>4, <1>5 DEF Inv

\* A generation ends on the servers.
LEMMA ServersDoneInv == Inv /\ ServersDone => Inv'
<1> SUFFICES ASSUME Inv, ServersDone PROVE Inv'
  OBVIOUS
<1>a. future' \in Batches
  BY DEF Inv, ServersDone, OffTypeOK, Batches
<1>1. OffTypeOK'
  BY <1>a DEF Inv, ServersDone, storeVars, OffTypeOK
<1>2. StepInv'
  BY DEF Inv, ServersDone, storeVars, StepInv, Looping, OffTypeOK, Steps, Torn
<1>3. AgeInv'
  BY DEF Inv, ServersDone, storeVars, AgeInv, OnItsWay, Lag, Trained,
     OffTypeOK, Batches, StepInv
<1>4. PlaceInv'
  BY DEF Inv, ServersDone, storeVars, PlaceInv, OnItsWay, Trained, Ahead,
     BatchesInOrder, OffTypeOK, Batches
<1>5. DiskInv'
  BY DEF Inv, ServersDone, storeVars, DiskInv, Ahead, StepInv, Looping,
     OffTypeOK, Steps, Torn
<1>6. QED
  BY <1>1, <1>2, <1>3, <1>4, <1>5 DEF Inv

\* fit gets the batch it awaited.
LEMMA TakeBatchInv == Inv /\ TakeBatch => Inv'
<1> SUFFICES ASSUME Inv, TakeBatch PROVE Inv'
  OBVIOUS
<1>1. OffTypeOK'
  BY DEF Inv, TakeBatch, Awaited, storeVars, OffTypeOK, Batches, FileState,
     Steps, Torn
<1>2. StepInv'
  BY DEF Inv, TakeBatch, Awaited, storeVars, StepInv, Looping, OffTypeOK,
     Steps, Torn
<1>3. AgeInv'
  BY DEF Inv, TakeBatch, Awaited, storeVars, AgeInv, OnItsWay, Lag, Trained,
     OffTypeOK, Batches
<1>4. PlaceInv'
  BY DEF Inv, TakeBatch, Awaited, storeVars, PlaceInv, OnItsWay, Trained,
     Ahead, BatchesInOrder, OffTypeOK, Batches
<1>5. DiskInv'
  BY DEF Inv, TakeBatch, Awaited, storeVars, DiskInv, Ahead, StepInv, Looping,
     OffTypeOK, Steps, Torn
<1>6. QED
  BY <1>1, <1>2, <1>3, <1>4, <1>5 DEF Inv

\* fit gets None.
LEMMA UnpackNoneInv == Inv /\ UnpackNone => Inv'
<1> SUFFICES ASSUME Inv, UnpackNone PROVE Inv'
  OBVIOUS
<1>1. OffTypeOK'
  BY DEF Inv, UnpackNone, loopVars, storeVars, OffTypeOK, Batches, FileState,
     Steps, Torn
<1>2. StepInv'
  BY DEF Inv, UnpackNone, loopVars, storeVars, StepInv, Looping, OffTypeOK,
     Steps, Torn
<1>3. AgeInv'
  BY DEF Inv, UnpackNone, loopVars, storeVars, AgeInv, OnItsWay, Lag, Trained,
     OffTypeOK, Batches
<1>4. PlaceInv'
  BY DEF Inv, UnpackNone, loopVars, storeVars, PlaceInv, OnItsWay, Trained,
     Ahead, BatchesInOrder, OffTypeOK, Batches
<1>5. DiskInv'
  BY DEF Inv, UnpackNone, loopVars, storeVars, DiskInv, Ahead, StepInv,
     Looping, OffTypeOK, Steps, Torn
<1>6. QED
  BY <1>1, <1>2, <1>3, <1>4, <1>5 DEF Inv

\* The servers get the present weights and the next batch.
LEMMA TransferInv == Inv /\ Transfer => Inv'
<1> SUFFICES ASSUME Inv, Transfer PROVE Inv'
  OBVIOUS
<1>a. ~ OffLast =>
        /\ future' \in Batches /\ next' \in 0 .. OffDataLen
        /\ future'.state \in {"generating", "None"}
        /\ future'.state = "generating" => /\ next' = PlaceAfter(next)
                                           /\ future'.place = next'
                                           /\ future'.made = rollout'
        /\ future'.state = "None" => next' = next
  BY NextBatchPlace DEF Inv, Transfer, SyncRolloutWeights, OffTypeOK
<1>b. OffLast => future' = NoBatch /\ next' = next
  BY DEF Transfer
<1>c. rollout' = actor[1] /\ actor[1] \in Nat /\ actor' = actor
  BY DEF Inv, Transfer, SyncRolloutWeights, OffTypeOK
<1>d. future' \in Batches /\ next' \in 0 .. OffDataLen
  BY <1>a, <1>b DEF Inv, NoBatch, Batches, OffTypeOK
<1>1. OffTypeOK'
  BY <1>c, <1>d DEF Inv, Transfer, storeVars, OffTypeOK
<1>2. StepInv'
  BY DEF Inv, Transfer, storeVars, StepInv, Looping, OffTypeOK, Steps, Torn
<1>3. AgeInv'
  BY <1>a, <1>b DEF Inv, Transfer, storeVars, AgeInv, OnItsWay, Lag, Trained,
     OffTypeOK, Batches, NoBatch, SyncRolloutWeights
<1>4. PlaceInv'
  BY <1>a, <1>b DEF Inv, Transfer, storeVars, PlaceInv, OnItsWay, Trained,
     Ahead, BatchesInOrder, OffTypeOK, Batches, AgeInv, NoBatch
<1>5. DiskInv'
  BY DEF Inv, Transfer, storeVars, DiskInv, Ahead, StepInv, Looping,
     OffTypeOK, Steps, Torn
<1>6. QED
  BY <1>1, <1>2, <1>3, <1>4, <1>5 DEF Inv

\* update_actor.
LEMMA UpdateActorInv == Inv /\ UpdateActor => Inv'
<1> SUFFICES ASSUME Inv, UpdateActor PROVE Inv'
  OBVIOUS
<1>a. actor' \in Nat \X (0 .. OffDataLen)
  <2>1. actor[1] \in Nat /\ current.place \in 0 .. OffDataLen
    BY DEF Inv, OffTypeOK, Batches
  <2>2. QED
    BY <2>1 DEF UpdateActor
<1>1. OffTypeOK'
  BY <1>a DEF Inv, UpdateActor, storeVars, OffTypeOK
<1>2. StepInv'
  BY DEF Inv, UpdateActor, storeVars, StepInv, Looping, OffTypeOK, Steps, Torn
<1>3. AgeInv'
  BY DEF Inv, UpdateActor, storeVars, AgeInv, OnItsWay, Lag, Trained,
     OffTypeOK, Batches
<1>4. PlaceInv'
  BY DEF Inv, UpdateActor, storeVars, PlaceInv, OnItsWay, Trained, Ahead,
     BatchesInOrder, OffTypeOK, Batches, AgeInv
<1>5. DiskInv'
  BY DEF Inv, UpdateActor, storeVars, DiskInv, Ahead, StepInv, Looping,
     OffTypeOK, Steps, Torn
<1>6. QED
  BY <1>1, <1>2, <1>3, <1>4, <1>5 DEF Inv

\* _validate.
LEMMA ValidateInv == Inv /\ Validate => Inv'
<1> SUFFICES ASSUME Inv, Validate PROVE Inv'
  OBVIOUS
<1>1. OffTypeOK'
  BY DEF Inv, Validate, loopVars, storeVars, OffTypeOK, Batches, FileState,
     Steps, Torn
<1>2. StepInv'
  BY DEF Inv, Validate, loopVars, storeVars, StepInv, Looping, OffTypeOK,
     Steps, Torn
<1>3. AgeInv'
  BY DEF Inv, Validate, loopVars, storeVars, AgeInv, OnItsWay, Lag, Trained,
     OffTypeOK, Batches
<1>4. PlaceInv'
  BY DEF Inv, Validate, loopVars, storeVars, PlaceInv, OnItsWay, Trained,
     Ahead, BatchesInOrder, OffTypeOK, Batches
<1>5. DiskInv'
  BY DEF Inv, Validate, loopVars, storeVars, DiskInv, Ahead, StepInv, Looping,
     OffTypeOK, Steps, Torn
<1>6. QED
  BY <1>1, <1>2, <1>3, <1>4, <1>5 DEF Inv

\* The decision to save.
LEMMA OffCheckSaveInv == Inv /\ OffCheckSave => Inv'
<1> SUFFICES ASSUME Inv, OffCheckSave PROVE Inv'
  OBVIOUS
<1>1. OffTypeOK'
  BY DEF Inv, OffCheckSave, SaveBegin, loopVars, storeVars, OffTypeOK,
     Batches, FileState, Steps, Torn
<1>2. StepInv'
  BY DEF Inv, OffCheckSave, SaveBegin, loopVars, storeVars, StepInv, Looping,
     OffTypeOK, Steps, Torn
<1>3. AgeInv'
  BY DEF Inv, OffCheckSave, SaveBegin, loopVars, storeVars, AgeInv, OnItsWay,
     Lag, Trained, OffTypeOK, Batches
<1>4. PlaceInv'
  BY DEF Inv, OffCheckSave, SaveBegin, loopVars, storeVars, PlaceInv,
     OnItsWay, Trained, Ahead, BatchesInOrder, OffTypeOK, Batches
<1>5. DiskInv'
  BY DEF Inv, OffCheckSave, SaveBegin, loopVars, storeVars, DiskInv, Ahead,
     StepInv, Looping, OffTypeOK, Steps, Torn
<1>6. QED
  BY <1>1, <1>2, <1>3, <1>4, <1>5 DEF Inv

\* The end of a step.
LEMMA OffFinishInv == Inv /\ OffFinish => Inv'
<1> SUFFICES ASSUME Inv, OffFinish PROVE Inv'
  OBVIOUS
<1>1. OffTypeOK'
  BY DEF Inv, OffFinish, OffLast, NoBatch, storeVars, OffTypeOK, Batches,
     FileState, Steps, Torn
<1>2. StepInv'
  BY DEF Inv, OffFinish, OffLast, NoBatch, storeVars, StepInv, Looping,
     OffTypeOK, Steps, Torn
<1>3. AgeInv'
  BY DEF Inv, OffFinish, OffLast, NoBatch, storeVars, AgeInv, OnItsWay, Lag,
     Trained, OffTypeOK, Batches
<1>4. PlaceInv'
  BY DEF Inv, OffFinish, OffLast, NoBatch, storeVars, PlaceInv, OnItsWay,
     Trained, Ahead, BatchesInOrder, OffTypeOK, Batches, AgeInv, PlaceAfter
<1>5. DiskInv'
  BY DEF Inv, OffFinish, OffLast, NoBatch, storeVars, DiskInv, Ahead, StepInv,
     Looping, OffTypeOK, Steps, Torn
<1>6. QED
  BY <1>1, <1>2, <1>3, <1>4, <1>5 DEF Inv

\* A crash and the restart after it.
LEMMA OffCrashInv == Inv /\ OffCrash => Inv'
<1> SUFFICES ASSUME Inv, OffCrash PROVE Inv'
  OBVIOUS
<1>1. OffTypeOK'
  BY DEF Inv, OffCrash, OffEnded, StoreCrash, NoBatch, OffTypeOK, Batches,
     FileState, Steps, Torn
<1>2. StepInv'
  BY DEF Inv, OffCrash, OffEnded, StoreCrash, NoBatch, StepInv, Looping,
     OffTypeOK, Steps, Torn
<1>3. AgeInv'
  BY DEF Inv, OffCrash, OffEnded, StoreCrash, NoBatch, AgeInv, OnItsWay, Lag,
     Trained, OffTypeOK, Batches
<1>4. PlaceInv'
  BY DEF Inv, OffCrash, OffEnded, StoreCrash, NoBatch, PlaceInv, OnItsWay,
     Trained, Ahead, BatchesInOrder, OffTypeOK, Batches
<1>5. DiskInv'
  BY DEF Inv, OffCrash, OffEnded, StoreCrash, NoBatch, DiskInv, Ahead,
     StepInv, Looping, OffTypeOK, Steps, Torn
<1>6. QED
  BY <1>1, <1>2, <1>3, <1>4, <1>5 DEF Inv

\* A step of the save: every one but the last leaves the tracker's folder alone.
LEMMA OffSaveInv == Inv /\ OffSave => Inv'
<1> SUFFICES ASSUME Inv, OffSave PROVE Inv'
  OBVIOUS
<1>a. /\ at = "save" /\ step \in 1 .. OffSteps + died /\ tracker < step
      /\ step \in Steps
  BY DEF Inv, OffSave, StepInv, Looping, OffTypeOK, Steps
<1>b. /\ UNCHANGED <<step, round, next, future, current, actor, rollout, fresh, died>>
      /\ at' = IF save' = "none" THEN "finish" ELSE "save"
  BY DEF OffSave, loopVars
<1>c. Ahead(next, actor[2])
  BY <1>a DEF Inv, PlaceInv, Trained, Ahead
<1>d. /\ disk \in [Steps -> Folders]
      /\ actor \in Nat \X (0 .. OffDataLen) /\ next \in 0 .. OffDataLen
  BY DEF Inv, OffTypeOK
<1>1. AgeInv'
  BY <1>a, <1>b DEF Inv, AgeInv, OnItsWay, Lag, Trained
<1>2. PlaceInv'
  BY <1>a, <1>b DEF Inv, PlaceInv, OnItsWay, Trained
<1>3. CASE SaveRotate
  <2>1. OffTypeOK'
    <3>1. disk' \in [Steps -> Folders]
      <4>1. \A k \in Steps : disk[k] \in Folders
        BY <1>d
      <4>2. \A k \in Steps : [disk[k] EXCEPT !.actor = "absent"] \in Folders
        BY <4>1 DEF Folders, FileState
      <4>3. QED
        BY <1>3, <4>1, <4>2 DEF SaveRotate, RemoveOldest
    <3>2. QED
      BY <1>3, <1>b, <3>1 DEF Inv, SaveRotate, RemoveOldest, OffTypeOK
  <2>2. StepInv'
    BY <1>3, <1>a, <1>b DEF Inv, SaveRotate, RemoveOldest, StepInv, Looping
  <2>3. DiskInv'
    BY <1>3, <1>b DEF Inv, SaveRotate, RemoveOldest, DiskInv, Ahead, OffTypeOK
  <2>4. QED
    BY <2>1, <2>2, <2>3, <1>1, <1>2 DEF Inv
<1>4. CASE SaveMkdir(step)
  <2>1. OffTypeOK'
    <3>1. disk' \in [Steps -> Folders]
      <4>1. disk[step] \in Folders
        BY <1>a, <1>d
      <4>2. [disk[step] EXCEPT !.actor = "partial"] \in Folders
        BY <4>1, <1>d DEF Folders, FileState
      <4>3. disk' = [disk EXCEPT ![step] = [disk[step] EXCEPT !.actor = "partial"]]
        BY <1>4, <4>1, <1>d DEF SaveMkdir, Folders
      <4>4. QED
        BY <4>2, <4>3, <1>d
    <3>2. QED
      BY <1>4, <1>b, <3>1 DEF Inv, SaveMkdir, OffTypeOK
  <2>2. StepInv'
    BY <1>4, <1>a, <1>b DEF Inv, SaveMkdir, StepInv, Looping
  <2>3. DiskInv'
    BY <1>4, <1>a, <1>b DEF Inv, SaveMkdir, DiskInv, Ahead, OffTypeOK
  <2>4. QED
    BY <2>1, <2>2, <2>3, <1>1, <1>2 DEF Inv
<1>5. CASE SaveActor(step, actor)
  <2>1. OffTypeOK'
    <3>1. disk' \in [Steps -> Folders]
      <4>1. disk[step] \in Folders
        BY <1>a, <1>d
      <4>2. [disk[step] EXCEPT !.actor = "complete", !.weights = actor] \in Folders
        BY <4>1, <1>d DEF Folders, FileState
      <4>3. disk' = [disk EXCEPT ![step] = [disk[step] EXCEPT !.actor = "complete", !.weights = actor]]
        BY <1>5, <4>1, <1>d DEF SaveActor, Folders
      <4>4. QED
        BY <4>2, <4>3, <1>d
    <3>2. QED
      BY <1>5, <1>b, <3>1 DEF Inv, SaveActor, OffTypeOK
  <2>2. StepInv'
    BY <1>5, <1>a, <1>b DEF Inv, SaveActor, StepInv, Looping
  <2>3. DiskInv'
    <3>1. disk'[step].weights = actor /\ tracker' = tracker /\ save' = "dataOpen"
      BY <1>5, <1>a DEF Inv, SaveActor, OffTypeOK
    <3>2. tracker \in Steps => disk'[tracker] = disk[tracker]
      <4>1. tracker # step
        BY <1>a DEF Inv, OffTypeOK, Steps, Torn
      <4>2. DOMAIN disk = Steps
        BY DEF Inv, OffTypeOK
      <4>3. QED
        BY <1>5, <4>1, <4>2 DEF SaveActor
    <3>3. QED
      BY <3>1, <3>2, <1>b DEF Inv, DiskInv, Ahead
  <2>4. QED
    BY <2>1, <2>2, <2>3, <1>1, <1>2 DEF Inv
<1>6. CASE SaveDataOpen(step)
  <2>1. OffTypeOK'
    <3>1. disk' \in [Steps -> Folders]
      <4>1. disk[step] \in Folders
        BY <1>a, <1>d
      <4>2. [disk[step] EXCEPT !.data = "partial"] \in Folders
        BY <4>1, <1>d DEF Folders, FileState
      <4>3. disk' = [disk EXCEPT ![step] = [disk[step] EXCEPT !.data = "partial"]]
        BY <1>6, <4>1, <1>d DEF SaveDataOpen, Folders
      <4>4. QED
        BY <4>2, <4>3, <1>d
    <3>2. QED
      BY <1>6, <1>b, <3>1 DEF Inv, SaveDataOpen, OffTypeOK
  <2>2. StepInv'
    BY <1>6, <1>a, <1>b DEF Inv, SaveDataOpen, StepInv, Looping
  <2>3. DiskInv'
    BY <1>6, <1>a, <1>b DEF Inv, SaveDataOpen, DiskInv, Ahead, OffTypeOK
  <2>4. QED
    BY <2>1, <2>2, <2>3, <1>1, <1>2 DEF Inv
<1>7. CASE SaveData(step, next)
  <2>1. OffTypeOK'
    <3>1. disk' \in [Steps -> Folders]
      <4>1. disk[step] \in Folders
        BY <1>a, <1>d
      <4>2. [disk[step] EXCEPT !.data = "complete", !.pos = next] \in Folders
        BY <4>1, <1>d DEF Folders, FileState
      <4>3. disk' = [disk EXCEPT ![step] = [disk[step] EXCEPT !.data = "complete", !.pos = next]]
        BY <1>7, <4>1, <1>d DEF SaveData, Folders
      <4>4. QED
        BY <4>2, <4>3, <1>d
    <3>2. QED
      BY <1>7, <1>b, <3>1 DEF Inv, SaveData, OffTypeOK
  <2>2. StepInv'
    BY <1>7, <1>a, <1>b DEF Inv, SaveData, StepInv, Looping
  <2>3. DiskInv'
    BY <1>7, <1>a, <1>b DEF Inv, SaveData, DiskInv, Ahead, OffTypeOK
  <2>4. QED
    BY <2>1, <2>2, <2>3, <1>1, <1>2 DEF Inv
<1>8. CASE SaveTruncate
  <2>1. OffTypeOK'
    BY <1>8, <1>b DEF Inv, SaveTruncate, OffTypeOK
  <2>2. StepInv'
    BY <1>8, <1>a, <1>b DEF Inv, SaveTruncate, StepInv, Looping, Torn
  <2>3. DiskInv'
    BY <1>8, <1>b DEF Inv, SaveTruncate, DiskInv, Steps, Torn
  <2>4. QED
    BY <2>1, <2>2, <2>3, <1>1, <1>2 DEF Inv
<1>9. CASE SaveTracker(step)
  <2>1. OffTypeOK'
    BY <1>9, <1>a, <1>b DEF Inv, SaveTracker, OffTypeOK
  <2>2. StepInv'
    BY <1>9, <1>a, <1>b DEF Inv, SaveTracker, StepInv, Looping
  <2>3. DiskInv'
    BY <1>9, <1>b, <1>c DEF Inv, SaveTracker, DiskInv, Ahead
  <2>4. QED
    BY <2>1, <2>2, <2>3, <1>1, <1>2 DEF Inv
<1>10. QED
  BY <1>3, <1>4, <1>5, <1>6, <1>7, <1>8, <1>9 DEF OffSave, SaveStep

\* Inv is inductive.
LEMMA InvHolds == OffSpec => []Inv
<1>1. OffInit => Inv
  <2> SUFFICES ASSUME OffInit PROVE Inv
    OBVIOUS
  <2>1. OffTypeOK
    BY DEF OffInit, StoreInit, NoCheckpoint, NoBatch, OffTypeOK, Batches,
       Folders, FileState, Steps, Torn
  <2>2. StepInv /\ AgeInv /\ PlaceInv /\ DiskInv
    BY DEF OffInit, StoreInit, StepInv, AgeInv, PlaceInv, DiskInv, Looping,
       Trained, Steps
  <2>3. QED
    BY <2>1, <2>2 DEF Inv
<1>2. Inv /\ UNCHANGED offVars => Inv'
  <2> SUFFICES ASSUME Inv, UNCHANGED offVars PROVE Inv'
    OBVIOUS
  <2>1. OffTypeOK' /\ StepInv' /\ AgeInv'
    BY DEF Inv, offVars, loopVars, storeVars, OffTypeOK, StepInv, AgeInv,
       Looping, Trained, OnItsWay, Lag
  <2>2. PlaceInv' /\ DiskInv'
    BY DEF Inv, offVars, loopVars, storeVars, PlaceInv, DiskInv, BatchesInOrder,
       Trained, OnItsWay, Ahead
  <2>3. QED
    BY <2>1, <2>2 DEF Inv
<1>3. Inv /\ [OffNext \/ OffStop]_offVars => Inv'
  BY <1>2, OffLoadInv, OffLoadFailsInv, FirstTaskInv, ServersDoneInv,
     TakeBatchInv, UnpackNoneInv, TransferInv, UpdateActorInv, ValidateInv,
     OffCheckSaveInv, OffSaveInv, OffFinishInv, OffCrashInv
     DEF OffNext, OffStep, OffStop
<1>4. QED
  BY <1>1, <1>3, PTL DEF OffSpec

\* fit of the one-step-off trainer: every batch trained on was generated by the
\* weights one update before the present ones (by the present ones, for the
\* first of a process), and never by two versions.
THEOREM PipelineHolds == OffSpec => []OneStepPipeline
<1>1. Inv => OneStepPipeline
  BY DEF Inv, AgeInv, Lag, OneStepPipeline, OneStepBehind, NoTornBatch
<1>2. QED
  BY <1>1, InvHolds, PTL

\* The batches are trained on in the order of the data across any number of
\* restarts; a restart skips at most the batch that was in generation.
THEOREM OrderHolds == OffSpec => []BatchesInOrder
<1>1. Inv => BatchesInOrder
  BY DEF Inv, PlaceInv, BatchesInOrder
<1>2. QED
  BY <1>1, InvHolds, PTL

------------------------------------------------------------------------------
(* The restarts of the asynchronous job                                      *)

Loading == job \in {"load", "loadFailed"}
InLoop == job \in {"collect", "check", "save"}
Ending == job \in {"lastCheck", "lastSave", "done"}

\* The samples a save may be ahead of its version: less than a round.
RestOfRound == (JobTrigger - 1) * JobRequired

\* How many runs have left samples behind in the checkpoints on disk.
Runs == IF Loading THEN restarts ELSE restarts + 1
Excess(n) == IF esi THEN n * RestOfRound ELSE 0

ResumeType ==
  /\ tracker \in Steps \cup {0, Torn}
  /\ DOMAIN disk = Steps
  /\ \A k \in Steps : DOMAIN disk[k] = {"actor", "weights", "data", "pos"}
  /\ save \in {"none", "rotate", "mkdir", "actor", "dataOpen", "data", "truncate", "track"}
  /\ Loading \/ InLoop \/ Ending
  /\ version \in Nat /\ local \in 1 .. JobTrigger /\ last_ckpt_version \in Nat
  /\ feeding \in BOOLEAN /\ fed \in Nat /\ reader \in 0 .. JobSamples
  /\ esi \in BOOLEAN /\ restarts \in Nat

\* The samples given out are trained on, on their way, or were on their way
\* when the job died.
SampleInv ==
  /\ trained \in SUBSET (1 .. reader) /\ flying \in SUBSET (1 .. reader)
  /\ trained \cap flying = {}
  /\ Cardinality(flying) <= FlyMax
  /\ reader - Cardinality(trained) - Cardinality(flying) <= restarts * FlyMax

\* A version is a round of samples, and local_trigger_step the batches since;
\* the weights a run starts from may hold a part of a round more.
RoundInv ==
  /\ InLoop => Cardinality(trained) - (version * Window + (local - 1) * JobRequired)
                 \in 0 .. Excess(restarts)
  /\ Loading => version = 0 /\ trained = {} /\ flying = {} /\ reader = 0 /\ local = 1
                /\ last_ckpt_version = 0 /\ fed = 1
  /\ InLoop /\ feeding =>
       Cardinality(trained) + Cardinality(flying) - (fed - 1) \in 0 .. Excess(restarts)
  /\ Ending => ~ feeding /\ version <= MaxStep

\* The version under way is beyond the one of the tracker until it is saved.
SaveInv ==
  /\ save # "none" <=> job \in {"save", "lastSave"}
  /\ ~ Loading /\ save = "none" => tracker = last_ckpt_version /\ tracker <= version
  /\ save # "none" => tracker < version /\ version \in Steps

\* Without an announced expiry only whole rounds are saved.
Settled == version = last_ckpt_version \/ JobSaveFreq = 0 \/ version % JobSaveFreq # 0
WholeInv ==
  ~ esi => /\ job = "collect" \/ (job = "check" /\ local > 1) => Settled
           /\ job = "save" => local = 1

\* Weights w of version k next to a loader at p.
Resumable(k, w, p) ==
  /\ p \in 0 .. JobSamples /\ w \in SUBSET (1 .. p)
  /\ p - Cardinality(w) <= Runs * FlyMax
  /\ Cardinality(w) - k * Window \in 0 .. Excess(Runs)

\* What the tracker names can be resumed from; what is being saved will be.
CkptInv ==
  /\ tracker \in Steps => disk[tracker].data = "complete"
  /\ tracker \in Steps /\ job # "done" =>
       Resumable(tracker, disk[tracker].weights, disk[tracker].pos)
  /\ save \in {"dataOpen", "data", "truncate", "track"} => disk[version].weights = trained
  /\ save \in {"truncate", "track"} => disk[version].data = "complete"
  /\ save \in {"truncate", "track"} /\ job = "save" =>
       Resumable(version, trained, disk[version].pos)

ResumeInv == ResumeType /\ SampleInv /\ RoundInv /\ SaveInv /\ WholeInv /\ CkptInv

HIDE OffAssumption
USE JobAssumption

\* The arithmetic of rounds, of what may be in flight and of excesses.
LEMMA RoundSizes ==
  /\ Window \in Nat \ {0} /\ RestOfRound \in Nat /\ RestOfRound + JobRequired = Window
  /\ \A v \in Nat : v * Window \in Nat /\ (v + 1) * Window = v * Window + Window
  /\ \A v \in Nat : v * Window <= JobSamples => v <= MaxStep
  /\ \A n \in Nat : n * FlyMax \in Nat /\ (n + 1) * FlyMax = n * FlyMax + FlyMax
  /\ \A n \in Nat : n * RestOfRound \in Nat /\ (n + 1) * RestOfRound = n * RestOfRound + RestOfRound
  /\ \A n \in Nat : n * (JobTrigger - 1) * JobRequired = n * RestOfRound
  /\ \A l \in 1 .. JobTrigger : /\ (l - 1) * JobRequired \in 0 .. RestOfRound
                                /\ ((l + 1) - 1) * JobRequired = (l - 1) * JobRequired + JobRequired
  /\ (JobTrigger - 1) * JobRequired = RestOfRound /\ (1 - 1) * JobRequired = 0
<1>1. /\ JobRequired \in Nat \ {0} /\ JobTrigger \in Nat \ {0} /\ FlyMax \in Nat
      /\ JobSamples \in Nat /\ MaxStep \in Nat
  BY Zenon
<1> DEFINE t == JobTrigger - 1
<1>2. t \in Nat /\ JobTrigger = t + 1
  BY <1>1
<1>3. RestOfRound \in Nat /\ RestOfRound = t * JobRequired
  BY <1>1, <1>2, Z3 DEF RestOfRound
<1>4. Window \in Nat \ {0} /\ RestOfRound + JobRequired = Window
  BY <1>1, <1>2, <1>3, Z3 DEF Window
<1>5. \A v \in Nat : v * Window \in Nat /\ (v + 1) * Window = v * Window + Window
  BY <1>4, Z3
<1>6. \A v \in Nat : v * Window <= JobSamples => v <= MaxStep
  <2> SUFFICES ASSUME NEW v \in Nat, v * Window <= JobSamples, v > MaxStep
               PROVE  FALSE
    BY <1>1
  <2>1. MaxStep * JobRequired * JobTrigger = MaxStep * Window
    BY <1>1, Z3 DEF Window
  <2>2. JobSamples <= MaxStep * Window
    BY <1>1, <2>1
  <2>3. v >= MaxStep + 1
    BY <1>1
  <2>4. v * Window >= MaxStep * Window + Window
    BY <1>1, <1>4, <2>3, Z3
  <2> QED
    BY <1>1, <1>4, <1>5, <2>2, <2>4
<1>7. \A n \in Nat : n * FlyMax \in Nat /\ (n + 1) * FlyMax = n * FlyMax + FlyMax
  BY <1>1, Z3
<1>8. \A n \in Nat : n * RestOfRound \in Nat /\ (n + 1) * RestOfRound = n * RestOfRound + RestOfRound
  BY <1>3, Z3
<1>9. \A n \in Nat : n * (JobTrigger - 1) * JobRequired = n * RestOfRound
  <2> SUFFICES ASSUME NEW n \in Nat PROVE (n * t) * JobRequired = n * (t * JobRequired)
    BY <1>3
  <2> HIDE DEF t
  <2> QED
    BY <1>1, <1>2, Z3
<1>10. \A l \in 1 .. JobTrigger :
         /\ (l - 1) * JobRequired \in 0 .. RestOfRound
         /\ ((l + 1) - 1) * JobRequired = (l - 1) * JobRequired + JobRequired
  <2> SUFFICES ASSUME NEW l \in 1 .. JobTrigger
               PROVE  /\ (l - 1) * JobRequired \in 0 .. RestOfRound
                      /\ ((l + 1) - 1) * JobRequired = (l - 1) * JobRequired + JobRequired
    OBVIOUS
  <2> DEFINE m == l - 1
  <2>1. m \in Nat /\ m <= t /\ (l + 1) - 1 = m + 1 /\ t - m \in Nat
    BY <1>1, <1>2
  <2> HIDE DEF t
  <2>2. m * JobRequired \in Nat /\ (m + 1) * JobRequired = m * JobRequired + JobRequired
    <3> HIDE DEF m
    <3> QED BY <1>1, <2>1, Z3
  <2>3. m * JobRequired <= t * JobRequired
    <3> HIDE DEF m
    <3> QED BY <1>1, <1>2, <2>1, Z3
  <2> QED
    BY <1>3, <2>1, <2>2, <2>3
<1> QED
  BY <1>1, <1>3, <1>4, <1>5, <1>6, <1>7, <1>8, <1>9, <1>10 DEF RestOfRound

\* Two disjoint sets of the samples given out so far.
LEMMA SampleSets ==
  ASSUME NEW n \in Nat, NEW A \in SUBSET (1 .. n), NEW B \in SUBSET (1 .. n), A \cap B = {}
  PROVE  /\ IsFiniteSet(A) /\ IsFiniteSet(B) /\ Cardinality(A) \in Nat /\ Cardinality(B) \in Nat
         /\ IsFiniteSet(A \cup B) /\ Cardinality(A \cup B) = Cardinality(A) + Cardinality(B)
         /\ Cardinality(A) + Cardinality(B) <= n
<1>1. IsFiniteSet(1 .. n) /\ Cardinality(1 .. n) = n
  BY FS_Interval
<1>2. IsFiniteSet(A) /\ IsFiniteSet(B) /\ IsFiniteSet(A \cup B)
  BY <1>1, FS_Subset, FS_Union
<1>3. Cardinality(A) \in Nat /\ Cardinality(B) \in Nat /\ Cardinality(A \cup B) \in Nat
  BY <1>2, FS_CardinalityType
<1>4. Cardinality(A \cup B) = Cardinality(A) + Cardinality(B)
  <2>1. Cardinality(A \cup B) = Cardinality(A) + Cardinality(B) - Cardinality(A \cap B)
    BY <1>2, FS_Union
  <2>2. Cardinality(A \cap B) = 0
    BY FS_EmptySet
  <2> QED
    BY <1>3, <2>1, <2>2
<1>5. Cardinality(A \cup B) <= n
  <2>1. (A \cup B) \in SUBSET (1 .. n)
    OBVIOUS
  <2>2. Cardinality(A \cup B) <= Cardinality(1 .. n)
    BY <1>1, <2>1, FS_Subset
  <2> QED
    BY <1>1, <2>2
<1> QED
  BY <1>2, <1>3, <1>4, <1>5

\* The samples given out that are neither trained on nor on their way.
LEMMA LeftOver ==
  ASSUME NEW n \in Nat, NEW A \in SUBSET (1 .. n), NEW B \in SUBSET (1 .. n), A \cap B = {}
  PROVE  Cardinality((1 .. n) \ (A \cup B)) = n - Cardinality(A) - Cardinality(B)
<1>1. /\ Cardinality(A \cup B) = Cardinality(A) + Cardinality(B)
      /\ Cardinality(A) \in Nat /\ Cardinality(B) \in Nat /\ IsFiniteSet(A \cup B)
  <2>1. Cardinality(A \cup B) = Cardinality(A) + Cardinality(B)
    BY SampleSets, ZenonT(30)
  <2>2. Cardinality(A) \in Nat /\ Cardinality(B) \in Nat
    BY SampleSets, ZenonT(30)
  <2>3. IsFiniteSet(A \cup B)
    BY SampleSets, ZenonT(30)
  <2> QED
    BY <2>1, <2>2, <2>3
<1>2. IsFiniteSet(1 .. n) /\ Cardinality(1 .. n) = n
  BY FS_Interval
<1>3. (1 .. n) \cap (A \cup B) = A \cup B
  OBVIOUS
<1>4. Cardinality((1 .. n) \ (A \cup B)) = n - Cardinality(A \cup B)
  BY <1>1, <1>2, <1>3, FS_Difference
<1> QED
  BY <1>1, <1>4

\* A set of samples has a size.
LEMMA PartSize ==
  ASSUME NEW n \in Nat, NEW A \in SUBSET (1 .. n)
  PROVE  Cardinality(A) \in Nat
<1>1. IsFiniteSet(1 .. n)
  BY FS_Interval
<1>2. IsFiniteSet(A)
  BY <1>1, FS_Subset
<1> QED
  BY <1>2, FS_CardinalityType

\* The invariant of the restarts says what SamplesAccounted says, and more.
LEMMA ResumeAccounts == ResumeInv => SamplesAccounted
<1> SUFFICES ASSUME ResumeInv PROVE SamplesAccounted
  OBVIOUS
<1> USE DEF ResumeInv
<1>1. /\ reader \in Nat /\ trained \in SUBSET (1 .. reader) /\ flying \in SUBSET (1 .. reader)
      /\ trained \cap flying = {} /\ restarts \in Nat
  BY DEF ResumeType, SampleInv
<1>2. /\ Cardinality(trained) \in Nat /\ Cardinality(flying) \in Nat
      /\ Cardinality((1 .. reader) \ (trained \cup flying))
           = reader - Cardinality(trained) - Cardinality(flying)
  <2>1. Cardinality((1 .. reader) \ (trained \cup flying))
          = reader - Cardinality(trained) - Cardinality(flying)
    BY <1>1, LeftOver
  <2>2. Cardinality(trained) \in Nat /\ Cardinality(flying) \in Nat
    BY <1>1, PartSize, Zenon
  <2> QED
    BY <2>1, <2>2
<1>3. TrainedOnce
  BY <1>1 DEF TrainedOnce
<1>4. LostAreInFlight
  BY <1>2 DEF LostAreInFlight, SampleInv
<1>5. FedCountsSamples
  <2> SUFFICES ASSUME job # "load", feeding
               PROVE  Cardinality(trained) + Cardinality(flying) - (fed - 1) \in 0 .. Excess(restarts)
    <3>1. Excess(restarts) = IF esi THEN restarts * (JobTrigger - 1) * JobRequired ELSE 0
      BY <1>1, RoundSizes DEF Excess
    <3> QED
      BY <3>1 DEF FedCountsSamples
  <2>1. Excess(restarts) \in Nat
    BY <1>1, RoundSizes DEF Excess
  <2>2. CASE InLoop
    BY <2>2 DEF RoundInv
  <2>3. CASE job = "loadFailed"
    <3>1. trained = {} /\ flying = {} /\ fed = 1
      BY <2>3 DEF RoundInv, Loading
    <3>2. Cardinality(trained) = 0 /\ Cardinality(flying) = 0
      BY <3>1, FS_EmptySet
    <3> QED
      BY <2>1, <3>1, <3>2
  <2>4. CASE Ending
    BY <2>4 DEF RoundInv
  <2> QED
    BY <2>2, <2>3, <2>4 DEF ResumeType, Loading
<1> QED
  BY <1>3, <1>4, <1>5 DEF SamplesAccounted

LEMMA ResumeInit == JobInit => ResumeInv
<1> SUFFICES ASSUME JobInit PROVE ResumeInv
  OBVIOUS
<1> USE DEF JobInit, StoreInit
<1>0. Cardinality({}) = 0 /\ 0 * FlyMax = 0 /\ 0 * RestOfRound = 0
  BY FS_EmptySet, RoundSizes
<1>1. ResumeType
  BY DEF ResumeType, Loading, NoCheckpoint
<1>2. SampleInv
  BY <1>0 DEF SampleInv
<1>3. RoundInv
  BY DEF RoundInv, Loading, InLoop, Ending
<1>4. SaveInv
  BY DEF SaveInv, Loading
<1>5. WholeInv
  BY DEF WholeInv
<1>6. CkptInv
  BY DEF CkptInv, Steps
<1> QED
  BY <1>1, <1>2, <1>3, <1>4, <1>5, <1>6 DEF ResumeInv

\* What every proof about a step needs of the state it starts from.
LEMMA ResumeFacts ==
  ASSUME ResumeInv
  PROVE  /\ reader \in Nat /\ reader <= JobSamples /\ restarts \in Nat /\ version \in Nat
         /\ IsFiniteSet(trained) /\ IsFiniteSet(flying)
         /\ Cardinality(trained) \in Nat /\ Cardinality(flying) \in Nat
         /\ Cardinality(trained) + Cardinality(flying) <= reader
         /\ Excess(restarts) \in Nat /\ restarts * FlyMax \in Nat
         /\ tracker \in Int /\ Torn = -1
<1>1. /\ reader \in Nat /\ reader <= JobSamples /\ restarts \in Nat /\ version \in Nat
      /\ trained \in SUBSET (1 .. reader) /\ flying \in SUBSET (1 .. reader)
      /\ trained \cap flying = {}
  BY DEF ResumeInv, ResumeType, SampleInv
<1>2. /\ IsFiniteSet(trained) /\ IsFiniteSet(flying)
      /\ Cardinality(trained) \in Nat /\ Cardinality(flying) \in Nat
      /\ Cardinality(trained) + Cardinality(flying) <= reader
  BY <1>1, SampleSets, Zenon
<1>3. Excess(restarts) \in Nat /\ restarts * FlyMax \in Nat
  BY <1>1, RoundSizes DEF Excess
<1>4. tracker \in Int /\ Torn = -1
  BY DEF ResumeInv, ResumeType, Steps, Torn
<1> QED
  BY <1>1, <1>2, <1>3, <1>4

\* Runs and what is on disk are the same for a step that is not a crash.
LEMMA CkptKept ==
  ASSUME ResumeInv, UNCHANGED <<tracker, disk, save, esi, restarts, version, trained>>,
         Loading' = Loading, job' # "done" => job # "done",
         save # "none" => job' = job
  PROVE  CkptInv'
<1>1. Runs' = Runs
  BY DEF Runs
<1>2. \A k, w, p : Resumable(k, w, p)' = Resumable(k, w, p)
  BY <1>1, Zenon DEF Resumable, Excess
<1> QED
  BY <1>2 DEF ResumeInv, CkptInv, Resumable, Excess, Runs

\* What could be resumed from stays so when a run more counts.
LEMMA ResumableKept ==
  ASSUME restarts \in Nat, Runs \in {restarts, restarts + 1}, Runs' = restarts + 1, esi' = esi
  PROVE  \A k, w, p : Resumable(k, w, p) => Resumable(k, w, p)'
<1> DEFINE n == Runs
<1>0. n \in Nat /\ n + 1 \in Nat /\ Runs' \in {n, n + 1}
  OBVIOUS
<1> SUFFICES ASSUME NEW k, NEW w, NEW p, Resumable(k, w, p) PROVE Resumable(k, w, p)'
  OBVIOUS
<1>1. p \in Nat /\ w \in SUBSET (1 .. p) /\ p - Cardinality(w) <= n * FlyMax
      /\ Cardinality(w) - k * Window \in 0 .. Excess(n)
  BY DEF Resumable
<1>2. Cardinality(w) \in Nat
  BY <1>1, PartSize
<1> HIDE DEF n
<1>3. (n + 1) * FlyMax = n * FlyMax + FlyMax /\ FlyMax \in Nat /\ n * FlyMax \in Nat
  BY <1>0, RoundSizes
<1>4. Excess(n) <= Excess(n + 1) /\ Excess(n + 1) \in Nat /\ Excess(n) \in Nat
  BY <1>0, RoundSizes DEF Excess
<1>5. p - Cardinality(w) <= Runs' * FlyMax
  BY <1>0, <1>1, <1>2, <1>3
<1>6. Cardinality(w) - k * Window \in 0 .. Excess(n + 1)
  BY <1>1, <1>4
<1>7. Cardinality(w) - k * Window \in 0 .. Excess(Runs')
  BY <1>0, <1>1, <1>6
<1>8. p \in 0 .. JobSamples
  BY DEF Resumable
<1> QED
  BY <1>1, <1>5, <1>7, <1>8 DEF Resumable, Excess

LEMMA JobLoadInv == ResumeInv /\ JobLoad => ResumeInv'
<1> SUFFICES ASSUME ResumeInv, JobLoad PROVE ResumeInv'
  OBVIOUS
<1>0. /\ job = "load" /\ job' = "collect" /\ Loading /\ ~ Loading' /\ InLoop' /\ ~ Ending'
      /\ UNCHANGED <<tracker, disk, saved_paths, save, feeding, flying, esi, restarts, local>>
      /\ save = "none" /\ local = 1 /\ flying = {}
      /\ version = 0 /\ trained = {} /\ reader = 0 /\ last_ckpt_version = 0 /\ fed = 1
  BY DEF JobLoad, ResumeInv, SaveInv, RoundInv, Loading, InLoop, Ending, storeVars, trainerVars
<1>1. /\ Cardinality({}) = 0 /\ IsFiniteSet({}) /\ 0 * Window = 0
      /\ restarts \in Nat /\ Excess(restarts) \in Nat /\ restarts * FlyMax \in Nat
      /\ (1 - 1) * JobRequired = 0
  BY FS_EmptySet, RoundSizes, ResumeFacts
<1>2. Runs = restarts /\ Runs' = restarts + 1 /\ Excess(restarts)' = Excess(restarts)
  BY <1>0 DEF Runs, Excess
<1>3. \A k, w, p : Resumable(k, w, p) => Resumable(k, w, p)'
  BY <1>0, <1>1, <1>2, ResumableKept
<1>4. CkptInv'
  BY <1>0, <1>3 DEF ResumeInv, CkptInv, Resumable, Runs, Excess
<1>5. CASE NothingSaved
  <2>1. UNCHANGED <<trainerVars, fed, reader>>
    BY <1>5 DEF JobLoad
  <2>2. UNCHANGED <<version, trained, reader, last_ckpt_version, fed>>
    BY <2>1 DEF trainerVars
  <2>3. tracker = 0
    BY <1>5 DEF NothingSaved, DirExists, ResumeInv, CkptInv, ResumeType, Torn
  <2>4. ResumeType'
    BY <1>0, <2>2 DEF ResumeInv, ResumeType
  <2>5. SampleInv'
    BY <1>0, <2>2 DEF ResumeInv, SampleInv
  <2>6. RoundInv'
    BY <1>0, <1>1, <1>2, <2>2 DEF RoundInv
  <2>7. SaveInv'
    BY <1>0, <2>2, <2>3 DEF SaveInv
  <2>8. WholeInv'
    BY <1>0, <2>2 DEF WholeInv, Settled
  <2> QED
    BY <1>4, <2>4, <2>5, <2>6, <2>7, <2>8 DEF ResumeInv
<1>6. CASE ~ NothingSaved
  <2> DEFINE w == disk[tracker].weights
             p == disk[tracker].pos
  <2>1. Loadable /\ tracker \in Steps
    BY <1>6 DEF JobLoad, Loadable
  <2>2. disk[tracker].data = "complete" /\ Resumable(tracker, w, p)
    BY <1>0, <2>1 DEF ResumeInv, CkptInv
  <2>3. /\ version' = tracker /\ last_ckpt_version' = tracker /\ trained' = w
        /\ fed' = tracker * Window + 1 /\ reader' = p
    BY <1>6, <2>2 DEF JobLoad, FedAt, SavedReader
  <2> HIDE DEF w, p
  <2>4. /\ p \in 0 .. JobSamples /\ w \in SUBSET (1 .. p)
        /\ p - Cardinality(w) <= restarts * FlyMax
        /\ Cardinality(w) - tracker * Window \in 0 .. Excess(restarts)
    BY <1>2, <2>2 DEF Resumable
  <2>5. tracker \in Nat /\ tracker * Window \in Nat /\ p \in Nat
    BY <2>1, <2>4, RoundSizes DEF Steps
  <2>6. Cardinality(w) \in Nat
    BY <2>4, <2>5, PartSize
  <2>7. ResumeType'
    BY <1>0, <2>3, <2>4, <2>5 DEF ResumeInv, ResumeType
  <2>8. SampleInv'
    BY <1>0, <1>1, <2>3, <2>4, <2>5, <2>6 DEF SampleInv
  <2>9. RoundInv'
    BY <1>0, <1>1, <1>2, <2>3, <2>4, <2>5, <2>6 DEF RoundInv
  <2>10. SaveInv'
    BY <1>0, <2>3, <2>5 DEF SaveInv
  <2>11. WholeInv'
    BY <1>0, <2>3 DEF WholeInv, Settled
  <2> QED
    BY <1>4, <2>7, <2>8, <2>9, <2>10, <2>11 DEF ResumeInv
<1> QED
  BY <1>5, <1>6

LEMMA JobLoadFailsInv == ResumeInv /\ JobLoadFails => ResumeInv'
<1> SUFFICES ASSUME ResumeInv, JobLoadFails PROVE ResumeInv'
  OBVIOUS
<1>0. /\ job = "load" /\ job' = "loadFailed" /\ Loading /\ Loading' /\ ~ InLoop' /\ ~ Ending'
      /\ UNCHANGED <<tracker, disk, save, version, local, last_ckpt_version, trained, feeding, fed,
                     reader, flying, esi, restarts>>
  BY DEF JobLoadFails, Loading, InLoop, Ending, storeVars, trainerVars, feederVars
<1>1. ResumeType'
  BY <1>0 DEF ResumeInv, ResumeType
<1>2. SampleInv'
  BY <1>0 DEF ResumeInv, SampleInv
<1>3. RoundInv'
  BY <1>0 DEF ResumeInv, RoundInv
<1>4. SaveInv'
  BY <1>0 DEF ResumeInv, SaveInv
<1>5. WholeInv'
  BY <1>0 DEF ResumeInv, WholeInv
<1>6. CkptInv'
  BY <1>0, CkptKept DEF ResumeInv, SaveInv
<1> QED
  BY <1>1, <1>2, <1>3, <1>4, <1>5, <1>6 DEF ResumeInv

LEMMA FeedSampleInv == ResumeInv /\ FeedSample => ResumeInv'
<1> SUFFICES ASSUME ResumeInv, FeedSample PROVE ResumeInv'
  OBVIOUS
<1>0. /\ feeding /\ reader < JobSamples /\ Cardinality(flying) < FlyMax
      /\ reader' = reader + 1 /\ flying' = flying \cup {reader + 1}
      /\ UNCHANGED <<tracker, disk, save, version, local, last_ckpt_version, trained, job, esi, restarts>>
      /\ Loading' = Loading /\ InLoop' = InLoop /\ Ending' = Ending
      /\ ~ Loading /\ ~ Ending
  BY DEF FeedSample, Loading, InLoop, Ending, storeVars, trainerVars, ResumeInv, RoundInv
<1>1. \/ fed' = fed + 1 /\ feeding' = feeding
      \/ fed' = fed /\ feeding' = FALSE
  BY DEF FeedSample
<1>2. /\ reader \in Nat /\ restarts \in Nat /\ IsFiniteSet(flying)
      /\ Cardinality(trained) \in Nat /\ Cardinality(flying) \in Nat
      /\ Excess(restarts) \in Nat /\ restarts * FlyMax \in Nat
  BY ResumeFacts
<1>3. /\ trained \in SUBSET (1 .. reader) /\ flying \in SUBSET (1 .. reader)
      /\ trained \cap flying = {}
      /\ reader - Cardinality(trained) - Cardinality(flying) <= restarts * FlyMax
  BY DEF ResumeInv, SampleInv
<1>4. reader + 1 \notin flying /\ reader + 1 \notin trained
  BY <1>2, <1>3
<1>5. Cardinality(flying') = Cardinality(flying) + 1
  BY <1>0, <1>2, <1>4, FS_AddElement
<1>6. ResumeType'
  <2>1. fed' \in Nat /\ feeding' \in BOOLEAN
    <3>1. fed \in Nat /\ feeding \in BOOLEAN
      BY DEF ResumeInv, ResumeType
    <3>2. fed + 1 \in Nat
      BY <3>1
    <3> QED
      BY <1>1, <3>1, <3>2, Zenon
  <2>2. reader' \in 0 .. JobSamples
    BY <1>0, <1>2
  <2> QED
    BY <1>0, <2>1, <2>2 DEF ResumeInv, ResumeType
<1>7. SampleInv'
  <2>1. trained' \in SUBSET (1 .. reader') /\ flying' \in SUBSET (1 .. reader') /\ trained' \cap flying' = {}
    <3>1. (1 .. reader) \subseteq (1 .. reader + 1) /\ reader + 1 \in 1 .. reader + 1
      BY <1>2
    <3> QED
      BY <1>0, <1>3, <1>4, <3>1
  <2>2. Cardinality(flying') <= FlyMax
    BY <1>0, <1>2, <1>5
  <2>3. reader' - Cardinality(trained') - Cardinality(flying') <= restarts' * FlyMax
    BY <1>0, <1>2, <1>3, <1>5
  <2> QED
    BY <2>1, <2>2, <2>3 DEF SampleInv
<1>8. RoundInv'
  <2>1. InLoop => Cardinality(trained') - (version' * Window + (local' - 1) * JobRequired)
                    \in 0 .. Excess(restarts)'
    BY <1>0 DEF ResumeInv, RoundInv, Excess
  <2>2. InLoop /\ feeding' =>
          Cardinality(trained') + Cardinality(flying') - (fed' - 1) \in 0 .. Excess(restarts)'
    <3> SUFFICES ASSUME InLoop, feeding'
                 PROVE  Cardinality(trained') + Cardinality(flying') - (fed' - 1) \in 0 .. Excess(restarts)'
      OBVIOUS
    <3>1. Cardinality(trained) + Cardinality(flying) - (fed - 1) \in 0 .. Excess(restarts)
      BY <1>0 DEF ResumeInv, RoundInv
    <3>2. fed' = fed + 1 /\ fed \in Nat
      BY <1>1 DEF ResumeInv, ResumeType
    <3>3. Excess(restarts)' = Excess(restarts) /\ trained' = trained
      BY <1>0 DEF Excess
    <3>4. Cardinality(trained) + (Cardinality(flying) + 1) - ((fed + 1) - 1)
            = Cardinality(trained) + Cardinality(flying) - (fed - 1)
      BY <1>2, <3>2
    <3> QED
      BY <1>5, <3>1, <3>2, <3>3, <3>4, Zenon
  <2> QED
    BY <1>0, <2>1, <2>2 DEF RoundInv
<1>9. SaveInv'
  BY <1>0 DEF ResumeInv, SaveInv
<1>10. WholeInv'
  BY <1>0 DEF ResumeInv, WholeInv, Settled
<1>11. CkptInv'
  BY <1>0, CkptKept
<1> QED
  BY <1>6, <1>7, <1>8, <1>9, <1>10, <1>11 DEF ResumeInv

LEMMA FeedExhaustedInv == ResumeInv /\ FeedExhausted => ResumeInv'
<1> SUFFICES ASSUME ResumeInv, FeedExhausted PROVE ResumeInv'
  OBVIOUS
<1>0. /\ ~ feeding'
      /\ UNCHANGED <<tracker, disk, save, version, local, last_ckpt_version, trained, fed,
                     reader, job, flying, esi, restarts>>
      /\ Loading' = Loading /\ InLoop' = InLoop /\ Ending' = Ending
      /\ ~ Loading /\ feeding' \in BOOLEAN
  BY DEF FeedExhausted, Loading, InLoop, Ending, storeVars, trainerVars
<1>1. ResumeType'
  BY <1>0 DEF ResumeInv, ResumeType
<1>2. SampleInv'
  BY <1>0 DEF ResumeInv, SampleInv
<1>3. RoundInv'
  BY <1>0 DEF ResumeInv, RoundInv, Excess
<1>4. SaveInv'
  BY <1>0 DEF ResumeInv, SaveInv
<1>5. WholeInv'
  BY <1>0 DEF ResumeInv, WholeInv, Settled
<1>6. CkptInv'
  BY <1>0, CkptKept
<1> QED
  BY <1>1, <1>2, <1>3, <1>4, <1>5, <1>6 DEF ResumeInv

\* A step that writes no checkpoint, wherever it moves the job.
LEMMA CkptIdle ==
  ASSUME ResumeInv, UNCHANGED <<tracker, disk, esi, restarts>>,
         save' \in {"none", "rotate", "mkdir", "actor"},
         Loading' = Loading, job # "done"
  PROVE  CkptInv'
<1>1. Runs' = Runs
  BY DEF Runs
<1>2. \A k, w, p : Resumable(k, w, p)' = Resumable(k, w, p)
  BY <1>1, Zenon DEF Resumable, Excess
<1> QED
  BY <1>2 DEF ResumeInv, CkptInv, Resumable, Excess, Runs

LEMMA TrainStepInv ==
  ASSUME ResumeInv, NEW samples \in kSubset(JobRequired, flying), TrainStep(samples)
  PROVE  ResumeInv'
<1>0. /\ job = "collect" /\ job' = "check" /\ trained' = trained \cup samples
      /\ flying' = flying \ samples
      /\ UNCHANGED <<tracker, disk, save, feeding, fed, reader, last_ckpt_version, esi, restarts>>
      /\ ~ Loading /\ ~ Loading' /\ InLoop /\ InLoop' /\ ~ Ending /\ ~ Ending'
  BY DEF TrainStep, StillFlying, Loading, InLoop, Ending, storeVars, feederVars
<1>1. /\ samples \subseteq flying /\ Cardinality(samples) = JobRequired
  BY DEF kSubset
<1>2. \/ local < JobTrigger /\ local' = local + 1 /\ version' = version
      \/ ~ (local < JobTrigger) /\ local' = 1 /\ version' = version + 1
  BY DEF TrainStep, NewVersion
<1>3. /\ reader \in Nat /\ restarts \in Nat /\ version \in Nat /\ IsFiniteSet(trained) /\ IsFiniteSet(flying)
      /\ Cardinality(trained) \in Nat /\ Cardinality(flying) \in Nat
      /\ Excess(restarts) \in Nat /\ restarts * FlyMax \in Nat
  BY ResumeFacts
<1>4. /\ trained \in SUBSET (1 .. reader) /\ flying \in SUBSET (1 .. reader)
      /\ trained \cap flying = {} /\ Cardinality(flying) <= FlyMax
      /\ reader - Cardinality(trained) - Cardinality(flying) <= restarts * FlyMax
  BY DEF ResumeInv, SampleInv
<1>5. Cardinality(trained') = Cardinality(trained) + JobRequired
  <2>1. IsFiniteSet(samples) /\ trained \cap samples = {}
    BY <1>1, <1>3, <1>4, FS_Subset
  <2>2. Cardinality(trained \cup samples) = Cardinality(trained) + Cardinality(samples)
                                              - Cardinality(trained \cap samples)
    BY <1>3, <2>1, FS_Union
  <2>3. Cardinality(trained \cap samples) = 0
    BY <2>1, FS_EmptySet
  <2> QED
    BY <1>0, <1>1, <1>3, <2>2, <2>3
<1>6. Cardinality(flying') = Cardinality(flying) - JobRequired
  <2>1. flying \cap samples = samples
    BY <1>1
  <2>2. Cardinality(flying \ samples) = Cardinality(flying) - Cardinality(flying \cap samples)
    BY <1>3, FS_Difference
  <2> QED
    BY <1>0, <1>1, <2>1, <2>2
<1>7. JobRequired \in Nat /\ JobRequired > 0 /\ JobTrigger \in Nat /\ local \in 1 .. JobTrigger
  BY DEF ResumeInv, ResumeType
<1>8. ResumeType'
  <2>1. version' \in Nat /\ local' \in 1 .. JobTrigger
    BY <1>2, <1>3, <1>7
  <2> QED
    BY <1>0, <2>1 DEF ResumeInv, ResumeType, InLoop, Loading, Ending
<1>9. SampleInv'
  <2>1. trained' \in SUBSET (1 .. reader') /\ flying' \in SUBSET (1 .. reader') /\ trained' \cap flying' = {}
    BY <1>0, <1>1, <1>4
  <2>2. Cardinality(flying') <= FlyMax
    BY <1>3, <1>4, <1>6, <1>7
  <2>3. reader' - Cardinality(trained') - Cardinality(flying') <= restarts' * FlyMax
    BY <1>0, <1>3, <1>4, <1>5, <1>6, <1>7
  <2> QED
    BY <2>1, <2>2, <2>3 DEF SampleInv
<1>10. RoundInv'
  <2> DEFINE done == version * Window + (local - 1) * JobRequired
  <2>1. version' * Window + (local' - 1) * JobRequired = done + JobRequired /\ done \in Nat
    <3>1. /\ version * Window \in Nat /\ (version + 1) * Window = version * Window + Window
          /\ (1 - 1) * JobRequired = 0 /\ (JobTrigger - 1) * JobRequired = RestOfRound
          /\ RestOfRound + JobRequired = Window /\ RestOfRound \in Nat /\ Window \in Nat
      BY <1>3, RoundSizes
    <3>2. /\ (local - 1) * JobRequired \in Nat
          /\ ((local + 1) - 1) * JobRequired = (local - 1) * JobRequired + JobRequired
      BY <1>7, RoundSizes
    <3>3. CASE local < JobTrigger
      BY <1>2, <1>7, <3>1, <3>2, <3>3
    <3>4. CASE ~ (local < JobTrigger)
      <4>1. local = JobTrigger
        BY <1>7, <3>4
      <4>2. done = version * Window + RestOfRound
        BY <3>1, <4>1
      <4> HIDE DEF done
      <4>3. version' * Window + (local' - 1) * JobRequired = version * Window + Window
        BY <1>2, <3>1, <3>4
      <4> QED
        BY <1>7, <3>1, <4>2, <4>3
    <3> QED
      BY <3>3, <3>4
  <2>2. Cardinality(trained) - done \in 0 .. Excess(restarts)
    BY <1>0 DEF ResumeInv, RoundInv
  <2>3. Excess(restarts)' = Excess(restarts)
    BY <1>0 DEF Excess
  <2> HIDE DEF done
  <2>4. Cardinality(trained') - (version' * Window + (local' - 1) * JobRequired) = Cardinality(trained) - done
    BY <1>3, <1>5, <1>7, <2>1
  <2>5. feeding' => Cardinality(trained') + Cardinality(flying') - (fed' - 1) \in 0 .. Excess(restarts)'
    <3>1. feeding => Cardinality(trained) + Cardinality(flying) - (fed - 1) \in 0 .. Excess(restarts)
      BY <1>0 DEF ResumeInv, RoundInv
    <3>2. Cardinality(trained') + Cardinality(flying') = Cardinality(trained) + Cardinality(flying)
      BY <1>3, <1>5, <1>6, <1>7
    <3>3. feeding' = feeding /\ fed' = fed
      BY <1>0
    <3>4. CASE feeding
      <4>1. Cardinality(trained) + Cardinality(flying) - (fed - 1) \in 0 .. Excess(restarts)
        BY <3>1, <3>4, Zenon
      <4>2. fed \in Nat
        BY DEF ResumeInv, ResumeType
      <4>3. Cardinality(trained') + Cardinality(flying') - (fed' - 1)
              = Cardinality(trained) + Cardinality(flying) - (fed - 1)
        BY <1>3, <1>5, <1>6, <1>7, <3>3, <4>2
      <4> QED
        BY <2>3, <4>1, <4>3
    <3>5. CASE ~ feeding
      BY <3>3, <3>5
    <3> QED
      BY <3>4, <3>5
  <2> QED
    BY <1>0, <2>2, <2>3, <2>4, <2>5 DEF RoundInv
<1>11. SaveInv'
  <2>1. save = "none" /\ tracker = last_ckpt_version /\ tracker <= version
    BY <1>0 DEF ResumeInv, SaveInv
  <2>2. tracker \in Int
    BY ResumeFacts
  <2> QED
    BY <1>0, <1>2, <1>3, <2>1, <2>2 DEF SaveInv
<1>12. WholeInv'
  BY <1>0, <1>2 DEF ResumeInv, WholeInv, Settled
<1>13. CkptInv'
  <2>1. Loading' = Loading
    BY <1>0 DEF Loading
  <2>2. save = "none"
    BY <1>0 DEF ResumeInv, SaveInv
  <2> QED
    BY <1>0, <2>1, <2>2, CkptIdle
<1> QED
  BY <1>8, <1>9, <1>10, <1>11, <1>12, <1>13 DEF ResumeInv

LEMMA LastSyncInv == ResumeInv /\ LastSync => ResumeInv'
<1> SUFFICES ASSUME ResumeInv, LastSync PROVE ResumeInv'
  OBVIOUS
<1>0. /\ job = "collect" /\ job' = "lastCheck" /\ ~ feeding /\ version < MaxStep
      /\ UNCHANGED <<tracker, disk, save, feeding, fed, reader, last_ckpt_version, trained,
                     flying, esi, restarts>>
      /\ ~ Loading /\ ~ Loading' /\ ~ InLoop' /\ Ending'
  BY DEF LastSync, Loading, InLoop, Ending, storeVars, feederVars
<1>1. \/ version' = version + 1 /\ local' = 1
      \/ version' = version /\ local' = local
  BY DEF LastSync, NewVersion
<1>2. version \in Nat /\ tracker \in Int /\ JobTrigger \in Nat \ {0} /\ MaxStep \in Nat
  BY ResumeFacts
<1>3. version' \in Nat /\ local' \in 1 .. JobTrigger /\ version' <= MaxStep /\ version <= version'
  BY <1>0, <1>1, <1>2 DEF ResumeInv, ResumeType
<1>4. ResumeType'
  BY <1>0, <1>3 DEF ResumeInv, ResumeType
<1>5. SampleInv'
  BY <1>0 DEF ResumeInv, SampleInv
<1>6. RoundInv'
  BY <1>0, <1>3 DEF RoundInv
<1>7. SaveInv'
  <2>1. save = "none" /\ tracker = last_ckpt_version /\ tracker <= version
    BY <1>0 DEF ResumeInv, SaveInv
  <2> QED
    BY <1>0, <1>2, <1>3, <2>1 DEF SaveInv
<1>8. WholeInv'
  BY <1>0 DEF WholeInv
<1>9. CkptInv'
  <2>1. Loading' = Loading
    BY <1>0 DEF Loading
  <2>2. save = "none"
    BY <1>0 DEF ResumeInv, SaveInv
  <2> QED
    BY <1>0, <2>1, <2>2, CkptIdle
<1> QED
  BY <1>4, <1>5, <1>6, <1>7, <1>8, <1>9 DEF ResumeInv

\* A version the loop has reached is one a checkpoint can be named after.
LEMMA VersionInRange ==
  ASSUME ResumeInv, InLoop
  PROVE  version <= MaxStep
<1>1. /\ version \in Nat /\ reader \in Nat /\ reader <= JobSamples
      /\ Cardinality(trained) \in Nat /\ Cardinality(flying) \in Nat
      /\ Cardinality(trained) + Cardinality(flying) <= reader
      /\ Excess(restarts) \in Nat
  BY ResumeFacts
<1> DEFINE part == (local - 1) * JobRequired
           whole == version * Window
<1>2. Cardinality(trained) - (whole + part) \in 0 .. Excess(restarts)
  BY DEF ResumeInv, RoundInv
<1>3. part \in Nat /\ whole \in Nat
  BY <1>1, RoundSizes DEF ResumeInv, ResumeType
<1>4. JobSamples \in Nat
  BY Zenon
<1>5. whole <= JobSamples
  <2> HIDE DEF part, whole
  <2> QED
    BY <1>1, <1>2, <1>3, <1>4
<1> QED
  BY <1>1, <1>5, RoundSizes

LEMMA CheckSaveInv == ResumeInv /\ CheckSave => ResumeInv'
<1> SUFFICES ASSUME ResumeInv, CheckSave PROVE ResumeInv'
  OBVIOUS
<1>0. /\ job \in {"check", "lastCheck"} /\ ~ Loading /\ save = "none"
      /\ UNCHANGED <<tracker, disk, version, local, last_ckpt_version, trained, feeding, fed,
                     reader, flying, esi, restarts>>
  BY DEF CheckSave, Loading, storeVars, trainerVars, feederVars, ResumeInv, SaveInv
<1>1. PICK expires \in {FALSE, esi} :
        IF /\ version # last_ckpt_version
           /\ JobSaveFreq > 0 /\ (version % JobSaveFreq = 0 \/ expires)
          THEN job' = (IF job = "check" THEN "save" ELSE "lastSave") /\ save' = "rotate"
          ELSE job' = (IF job = "check" THEN "collect" ELSE "done") /\ save' = save
  BY DEF CheckSave, SaveBegin, storeVars
<1>2. \/ job = "check" /\ job' \in {"save", "collect"} /\ InLoop /\ InLoop' /\ ~ Ending' /\ ~ Loading'
      \/ job = "lastCheck" /\ job' \in {"lastSave", "done"} /\ Ending /\ Ending' /\ ~ InLoop' /\ ~ Loading'
  BY <1>0, <1>1 DEF InLoop, Ending, Loading
<1>3. save' \in {"none", "rotate"} /\ (save' # "none" <=> job' \in {"save", "lastSave"})
  BY <1>0, <1>1
<1>4. version <= MaxStep /\ version \in Nat /\ MaxStep \in Nat /\ tracker \in Int
  <2>1. InLoop \/ Ending
    BY <1>2
  <2> QED
    BY <2>1, VersionInRange, ResumeFacts DEF ResumeInv, RoundInv
<1>5. ResumeType'
  BY <1>0, <1>2, <1>3 DEF ResumeInv, ResumeType
<1>6. SampleInv'
  BY <1>0 DEF ResumeInv, SampleInv
<1>7. RoundInv'
  BY <1>0, <1>2 DEF ResumeInv, RoundInv, Excess
<1>8. SaveInv'
  <2>1. tracker = last_ckpt_version /\ tracker <= version
    BY <1>0 DEF ResumeInv, SaveInv
  <2>2. tracker \in Nat \/ tracker = -1
    BY DEF ResumeInv, ResumeType, Torn, Steps
  <2>3. last_ckpt_version \in Nat
    BY DEF ResumeInv, ResumeType
  <2>4. save' # "none" => version # last_ckpt_version
    BY <1>0, <1>1
  <2>5. save' # "none" => tracker < version /\ version \in Steps
    BY <1>4, <2>1, <2>3, <2>4 DEF Steps
  <2> QED
    BY <1>0, <1>2, <1>3, <2>1, <2>5 DEF SaveInv
<1>9. WholeInv'
  <2> SUFFICES ASSUME ~ esi
               PROVE  /\ job' = "collect" => Settled
                      /\ job' = "save" => local = 1
    BY <1>0, <1>2 DEF WholeInv, Settled
  <2>1. ~ expires
    OBVIOUS
  <2>2. job' = "collect" => Settled
    BY <1>0, <1>1, <2>1 DEF Settled
  <2>3. job' = "save" => job = "check" /\ ~ Settled
    BY <1>0, <1>1, <2>1 DEF Settled
  <2>4. local \in Nat /\ local >= 1
    BY DEF ResumeInv, ResumeType
  <2> QED
    BY <2>2, <2>3, <2>4 DEF ResumeInv, WholeInv
<1>10. CkptInv'
  <2>1. Loading' = Loading
    BY <1>0, <1>2 DEF Loading
  <2> QED
    BY <1>0, <1>3, <2>1, CkptIdle
<1> QED
  BY <1>5, <1>6, <1>7, <1>8, <1>9, <1>10 DEF ResumeInv

LEMMA JobCrashInv == ResumeInv /\ JobCrash => ResumeInv'
<1> SUFFICES ASSUME ResumeInv, JobCrash PROVE ResumeInv'
  OBVIOUS
<1>0. /\ job # "done" /\ job' = "load" /\ restarts' = restarts + 1
      /\ version' = 0 /\ local' = 1 /\ last_ckpt_version' = 0 /\ trained' = {} /\ flying' = {}
      /\ feeding' = TRUE /\ fed' = 1 /\ reader' = 0 /\ save' = "none"
      /\ UNCHANGED <<tracker, disk, esi>>
      /\ Loading' /\ ~ InLoop' /\ ~ Ending'
  BY DEF JobCrash, JobEnded, StoreCrash, Loading, InLoop, Ending
<1>1. restarts \in Nat /\ Cardinality({}) = 0 /\ (restarts + 1) * FlyMax \in Nat
      /\ JobTrigger \in Nat \ {0} /\ JobSamples \in Nat /\ FlyMax \in Nat
  BY ResumeFacts, RoundSizes, FS_EmptySet
<1>2. ResumeType'
  BY <1>0, <1>1 DEF ResumeInv, ResumeType
<1>3. SampleInv'
  <2>1. restarts' * FlyMax >= 0
    BY <1>0, <1>1
  <2> QED
    BY <1>0, <1>1, <2>1 DEF SampleInv
<1>4. RoundInv'
  BY <1>0 DEF RoundInv
<1>5. SaveInv'
  BY <1>0 DEF SaveInv
<1>6. WholeInv'
  BY <1>0 DEF WholeInv
<1>7. CkptInv'
  <2>1. Runs' = restarts + 1 /\ Runs \in {restarts, restarts + 1}
    BY <1>0 DEF Runs
  <2>2. \A k, w, p : Resumable(k, w, p) => Resumable(k, w, p)'
    BY <1>0, <1>1, <2>1, ResumableKept
  <2> QED
    BY <1>0, <2>2 DEF ResumeInv, CkptInv, Resumable, Runs, Excess
<1> QED
  BY <1>2, <1>3, <1>4, <1>5, <1>6, <1>7 DEF ResumeInv

\* What a save writes next to the weights can be resumed from.
LEMMA SavedResumable ==
  ASSUME ResumeInv, job = "save"
  PROVE  Resumable(version, trained, reader)
<1>1. /\ version \in Nat /\ reader \in Nat /\ reader <= JobSamples /\ restarts \in Nat
      /\ Cardinality(trained) \in Nat /\ Cardinality(flying) \in Nat
      /\ Excess(restarts) \in Nat /\ restarts * FlyMax \in Nat
  BY ResumeFacts
<1>2. /\ trained \in SUBSET (1 .. reader) /\ Cardinality(flying) <= FlyMax
      /\ reader - Cardinality(trained) - Cardinality(flying) <= restarts * FlyMax
  BY DEF ResumeInv, SampleInv
<1>3. Runs = restarts + 1
  BY DEF Runs, Loading
<1>4. (restarts + 1) * FlyMax = restarts * FlyMax + FlyMax /\ FlyMax \in Nat /\ JobSamples \in Nat
  BY <1>1, RoundSizes
<1>5. reader - Cardinality(trained) <= Runs * FlyMax
  BY <1>1, <1>2, <1>3, <1>4
<1> DEFINE part == (local - 1) * JobRequired
           whole == version * Window
<1>6. Cardinality(trained) - (whole + part) \in 0 .. Excess(restarts)
  BY DEF ResumeInv, RoundInv, InLoop
<1>7. part \in 0 .. RestOfRound /\ whole \in Nat /\ RestOfRound \in Nat
  BY <1>1, RoundSizes DEF ResumeInv, ResumeType
<1>8. ~ esi => part = 0
  <2>1. ~ esi => local = 1
    BY DEF ResumeInv, WholeInv
  <2>2. (1 - 1) * JobRequired = 0
    BY RoundSizes
  <2> QED
    BY <2>1, <2>2
<1>9. esi => Excess(Runs) = Excess(restarts) + RestOfRound
  BY <1>1, <1>3, RoundSizes DEF Excess
<1>10. ~ esi => Excess(Runs) = Excess(restarts)
  BY DEF Excess
<1>11. Cardinality(trained) - whole \in 0 .. Excess(Runs)
  <2> HIDE DEF part, whole
  <2>1. CASE esi
    BY <1>1, <1>6, <1>7, <1>9, <2>1
  <2>2. CASE ~ esi
    BY <1>1, <1>6, <1>7, <1>8, <1>10, <2>2
  <2> QED
    BY <2>1, <2>2
<1> QED
  BY <1>1, <1>2, <1>4, <1>5, <1>11 DEF Resumable

\* A step of the save but the last two leaves what the tracker names alone.
LEMMA SaveWrites ==
  ASSUME ResumeInv, job \in {"save", "lastSave"}, SaveStep(version, trained, reader)
  PROVE  /\ save' \in {"none", "mkdir", "actor", "dataOpen", "data", "truncate", "track"}
         /\ save' = "none" => tracker' = version /\ save = "track"
         /\ save' = "track" => tracker' = Torn /\ save = "truncate"
         /\ save' \notin {"none", "track"} => tracker' = tracker
         /\ DOMAIN disk' = Steps
         /\ \A k \in Steps : DOMAIN disk'[k] = {"actor", "weights", "data", "pos"}
         /\ \A k \in Steps : k # version => /\ disk'[k].weights = disk[k].weights
                                            /\ disk'[k].data = disk[k].data
                                            /\ disk'[k].pos = disk[k].pos
         /\ save' \in {"dataOpen", "data", "truncate", "track"} => disk'[version].weights = trained
         /\ save' \in {"truncate", "track", "none"} => disk'[version].data = "complete"
         /\ save' = "truncate" => disk'[version].pos = reader
         /\ save' \in {"track", "none"} => disk' = disk
<1>1. DOMAIN disk = Steps /\ version \in Steps
      /\ \A k \in Steps : DOMAIN disk[k] = {"actor", "weights", "data", "pos"}
  BY DEF ResumeInv, ResumeType, SaveInv
<1>2. /\ save \in {"dataOpen", "data", "truncate", "track"} => disk[version].weights = trained
      /\ save \in {"truncate", "track"} => disk[version].data = "complete"
  BY DEF ResumeInv, CkptInv
<1>3. CASE SaveRotate
  <2>1. save' = "mkdir" /\ tracker' = tracker
    BY <1>3 DEF SaveRotate, RemoveOldest
  <2> DEFINE gone(k) == \E i \in 1 .. keep_start : saved_paths[i] = k
  <2>2. disk' = [k \in Steps |-> IF gone(k) THEN [disk[k] EXCEPT !.actor = "absent"] ELSE disk[k]]
    BY <1>3 DEF SaveRotate, RemoveOldest
  <2> HIDE DEF gone
  <2>3. DOMAIN disk' = Steps
        /\ \A k \in Steps : /\ DOMAIN disk'[k] = {"actor", "weights", "data", "pos"}
                            /\ disk'[k].weights = disk[k].weights
                            /\ disk'[k].data = disk[k].data
                            /\ disk'[k].pos = disk[k].pos
    BY <1>1, <2>2
  <2> QED
    BY <2>1, <2>3
<1>4. CASE SaveMkdir(version)
  BY <1>1, <1>4 DEF SaveMkdir
<1>5. CASE SaveActor(version, trained)
  BY <1>1, <1>5 DEF SaveActor
<1>6. CASE SaveDataOpen(version)
  BY <1>1, <1>2, <1>6 DEF SaveDataOpen
<1>7. CASE SaveData(version, reader)
  BY <1>1, <1>2, <1>7 DEF SaveData
<1>8. CASE SaveTruncate
  BY <1>1, <1>2, <1>8 DEF SaveTruncate
<1>9. CASE SaveTracker(version)
  BY <1>1, <1>2, <1>9 DEF SaveTracker
<1> QED
  BY <1>3, <1>4, <1>5, <1>6, <1>7, <1>8, <1>9 DEF SaveStep

LEMMA JobSaveInv == ResumeInv /\ JobSave => ResumeInv'
<1> SUFFICES ASSUME ResumeInv, JobSave PROVE ResumeInv'
  OBVIOUS
<1>0. /\ job \in {"save", "lastSave"} /\ SaveStep(version, trained, reader)
      /\ UNCHANGED <<version, local, trained, feeding, fed, reader, flying, esi, restarts>>
      /\ IF save' # "none" THEN job' = job /\ last_ckpt_version' = last_ckpt_version
                           ELSE /\ job' = IF job = "save" THEN "collect" ELSE "done"
                                /\ last_ckpt_version' = version
  BY DEF JobSave, feederVars
<1>1. /\ save' \in {"none", "mkdir", "actor", "dataOpen", "data", "truncate", "track"}
      /\ save' = "none" => tracker' = version /\ save = "track"
      /\ save' = "track" => tracker' = Torn /\ save = "truncate"
      /\ save' \notin {"none", "track"} => tracker' = tracker
      /\ DOMAIN disk' = Steps
      /\ \A k \in Steps : DOMAIN disk'[k] = {"actor", "weights", "data", "pos"}
      /\ \A k \in Steps : k # version => /\ disk'[k].weights = disk[k].weights
                                         /\ disk'[k].data = disk[k].data
                                         /\ disk'[k].pos = disk[k].pos
      /\ save' \in {"dataOpen", "data", "truncate", "track"} => disk'[version].weights = trained
      /\ save' \in {"truncate", "track", "none"} => disk'[version].data = "complete"
      /\ save' = "truncate" => disk'[version].pos = reader
      /\ save' \in {"track", "none"} => disk' = disk
  BY <1>0, SaveWrites
<1>2. /\ ~ Loading /\ ~ Loading' /\ Loading' = Loading /\ InLoop' = InLoop /\ Ending' = Ending
  BY <1>0 DEF Loading, InLoop, Ending
<1>3. tracker < version /\ version \in Steps /\ version \in Nat /\ tracker \in Int /\ Torn = -1
  BY <1>0, ResumeFacts DEF ResumeInv, SaveInv
<1>4. ResumeType'
  <2>1. tracker' \in Steps \cup {0, Torn}
    BY <1>1, <1>3 DEF ResumeInv, ResumeType
  <2>2. last_ckpt_version' \in Nat
    BY <1>0, <1>3 DEF ResumeInv, ResumeType
  <2> QED
    BY <1>0, <1>1, <1>2, <2>1, <2>2 DEF ResumeInv, ResumeType
<1>5. SampleInv'
  BY <1>0 DEF ResumeInv, SampleInv
<1>6. RoundInv'
  BY <1>0, <1>2 DEF ResumeInv, RoundInv, Excess
<1>7. SaveInv'
  <2>1. save' # "none" => tracker' < version
    BY <1>1, <1>3
  <2>2. save' # "none" <=> job' \in {"save", "lastSave"}
    BY <1>0
  <2>3. save' = "none" => tracker' = last_ckpt_version' /\ tracker' <= version
    BY <1>0, <1>1, <1>3
  <2> QED
    BY <1>0, <1>3, <2>1, <2>2, <2>3 DEF SaveInv
<1>8. WholeInv'
  BY <1>0 DEF ResumeInv, WholeInv, Settled
<1>9. CkptInv'
  <2>1. \A k, w, p : Resumable(k, w, p)' = Resumable(k, w, p)
    <3>1. Runs' = Runs
      BY <1>0, <1>2 DEF Runs
    <3> QED
      BY <1>0, <3>1, Zenon DEF Resumable, Excess
  <2>2. tracker' \in Steps => disk'[tracker'].data = "complete"
    <3> SUFFICES ASSUME tracker' \in Steps PROVE disk'[tracker'].data = "complete"
      OBVIOUS
    <3>1. CASE save' = "none"
      BY <1>1, <3>1
    <3>2. CASE save' # "none"
      <4>1. tracker' = tracker
        BY <1>1, <1>3, <3>2 DEF Steps
      <4> QED
        BY <1>1, <1>3, <4>1 DEF ResumeInv, CkptInv
    <3> QED
      BY <3>1, <3>2
  <2>3. tracker' \in Steps /\ job' # "done" =>
          Resumable(tracker', disk'[tracker'].weights, disk'[tracker'].pos)
    <3> SUFFICES ASSUME tracker' \in Steps, job' # "done"
                 PROVE  Resumable(tracker', disk'[tracker'].weights, disk'[tracker'].pos)
      OBVIOUS
    <3>1. CASE save' = "none"
      <4>1. /\ save = "track" /\ job = "save" /\ tracker' = version /\ disk' = disk
        BY <1>0, <1>1, <3>1
      <4>2. disk[version].weights = trained /\ Resumable(version, trained, disk[version].pos)
        BY <4>1 DEF ResumeInv, CkptInv
      <4> QED
        BY <4>1, <4>2
    <3>2. CASE save' # "none"
      <4>1. tracker' = tracker /\ tracker \in Steps /\ tracker # version
        BY <1>1, <1>3, <3>2 DEF Steps
      <4>2. Resumable(tracker, disk[tracker].weights, disk[tracker].pos)
        BY <1>0, <4>1 DEF ResumeInv, CkptInv
      <4>3. disk'[tracker].weights = disk[tracker].weights /\ disk'[tracker].pos = disk[tracker].pos
        BY <1>1, <4>1
      <4> QED
        BY <4>1, <4>2, <4>3
    <3> QED
      BY <3>1, <3>2
  <2>4. save' \in {"truncate", "track"} /\ job' = "save" =>
          Resumable(version, trained, disk'[version].pos)
    <3> SUFFICES ASSUME save' \in {"truncate", "track"}, job' = "save"
                 PROVE  Resumable(version, trained, disk'[version].pos)
      OBVIOUS
    <3>1. job = "save"
      BY <1>0
    <3>2. CASE save' = "truncate"
      BY <1>1, <3>1, <3>2, SavedResumable
    <3>3. CASE save' = "track"
      BY <1>1, <3>1, <3>3 DEF ResumeInv, CkptInv
    <3> QED
      BY <3>2, <3>3
  <2>5. /\ save' \in {"dataOpen", "data", "truncate", "track"} => disk'[version'].weights = trained'
        /\ save' \in {"truncate", "track"} => disk'[version'].data = "complete"
    BY <1>0, <1>1
  <2> QED
    BY <1>0, <2>1, <2>2, <2>3, <2>4, <2>5 DEF CkptInv, Resumable, Runs, Excess
<1> QED
  BY <1>4, <1>5, <1>6, <1>7, <1>8, <1>9 DEF ResumeInv

(* Killed and resumed wherever it may be, for every size of the data, of a   *)
(* round and of what is in flight, the asynchronous job trains on no sample  *)
(* twice, loses none but those on their way and numbers the next ones right. *)
THEOREM SamplesStayAccounted == JobSpec => []SamplesAccounted
<1>1. JobInit => ResumeInv
  BY ResumeInit
<1>2. ResumeInv /\ [JobNext]_jobVars => ResumeInv'
  <2> SUFFICES ASSUME ResumeInv, [JobNext]_jobVars PROVE ResumeInv'
    OBVIOUS
  <2>1. CASE \E samples \in kSubset(JobRequired, flying) : TrainStep(samples)
    BY <2>1, TrainStepInv
  <2>2. CASE UNCHANGED jobVars
    BY <2>2 DEF jobVars, storeVars, trainerVars, feederVars, ResumeInv, ResumeType, SampleInv,
                RoundInv, SaveInv, WholeInv, Settled, CkptInv, Resumable, Runs, Excess, Loading,
                InLoop, Ending
  <2> QED
    BY <2>1, <2>2, JobLoadInv, JobLoadFailsInv, FeedSampleInv, FeedExhaustedInv, LastSyncInv,
       CheckSaveInv, JobSaveInv, JobCrashInv DEF JobNext
<1>3. ResumeInv => SamplesAccounted
  BY ResumeAccounts
<1> QED
  BY <1>1, <1>2, <1>3, PTL DEF JobSpec

------------------------------------------------------------------------------
\* The supervised trainer.
Folder == [actor : FileState, weights : Nat \X Nat, data : FileState, pos : Nat]
Going == sftAt \in {"fetch", "check", "save"}
Stepped == sftAt \in {"check", "save"}
Unwritten == save \in {"rotate", "mkdir", "actor"}
Written == save \in {"dataOpen", "data", "truncate"}

\* The batches of n epochs.
SftBatches(n) == SftLen * n

\* Place p of the loader fits step k.
Fits(p, k) == (p - k) % SftLen = 0

SftType ==
  /\ tracker \in 0 .. MaxStep
  /\ disk \in [Steps -> Folder]
  /\ saved_paths \in Seq(Steps)
  /\ save \in {"none", "rotate", "mkdir", "actor", "dataOpen", "data", "truncate"}
  /\ sftAt \in {"config", "load", "fetch", "check", "save", "done"}
  /\ web \in BOOLEAN
  /\ {sftStep, sftEpoch, sftPlace, sftDied} \subseteq Nat
  /\ sftWeights \in Nat \X Nat

\* The step counter is ahead of the tracker once a step has been made.
CounterInv ==
  /\ sftAt = "save" <=> save # "none"
  /\ sftAt \in {"config", "load"} =>
       sftStep = 0 /\ sftEpoch = 0 /\ sftPlace = 0 /\ saved_paths = <<>>
  /\ sftAt \in {"config", "load"} /\ sftDied = 0 => tracker = 0
  /\ sftAt = "config" => sftDied = 0
  /\ Stepped => sftStep \in Steps /\ tracker < sftStep
  /\ sftAt = "fetch" => tracker <= sftStep

\* The folders the manager remembers: the one being saved is the last, if it
\* is there, and the one the tracker names is not among the others.
PathInv ==
  /\ sftAt = "fetch" => \A i \in 1 .. Len(saved_paths) : saved_paths[i] <= sftStep
  /\ sftAt = "check" \/ Unwritten => \A i \in 1 .. Len(saved_paths) : saved_paths[i] < sftStep
  /\ Written => /\ saved_paths = <<>> \/ saved_paths[Len(saved_paths)] = sftStep
                /\ \A i \in 1 .. Len(saved_paths) - 1 : saved_paths[i] < sftStep
  /\ Going /\ ~Written => \A i \in 1 .. Len(saved_paths) - 1 : saved_paths[i] # tracker

\* The folder the tracker names is complete, and so far as it has been
\* written the one being saved is.
FolderInv ==
  /\ sftAt = "config" => \A k \in Steps : disk[k].data = "absent"
  /\ web => save # "data" /\ \A k \in Steps : disk[k].data = "absent"
  /\ tracker # 0 =>
       /\ disk[tracker].actor = "complete"
       /\ ~web => /\ disk[tracker].data = "complete" /\ disk[tracker].pos \in 1 .. SftLen
                  /\ Fits(disk[tracker].pos, tracker)
  /\ Written => disk[sftStep].actor = "complete"
  /\ save = "truncate" /\ ~web => disk[sftStep].data = "complete" /\ disk[sftStep].pos = sftPlace

\* The loader against the step counter: in place, and at most an epoch ahead
\* for every restart.
SftPlaceInv ==
  /\ web /\ Going => sftEpoch = 0
  /\ ~web /\ Going => /\ sftPlace \in 0 .. SftLen
                      /\ Fits(sftPlace, sftStep)
                      /\ sftStep <= SftBatches(sftEpoch) + sftPlace
                      /\ SftBatches(sftEpoch) + sftPlace <= sftStep + SftBatches(sftDied)
  /\ ~web /\ Stepped => sftPlace >= 1
  /\ EpochPerRestart

SftInv == SftType /\ CounterInv /\ PathInv /\ FolderInv /\ SftPlaceInv

USE SftAssumption, MaxStepAssumption, MaxKeepAssumption

-----------------------------------------------------------------------------
(* Arithmetic of steps, epochs and places                                    *)

LEMMA BatchesType == \A n \in Nat : SftBatches(n) \in Nat
BY DEF SftBatches

LEMMA BatchesNext == \A n \in Nat : SftBatches(n + 1) = SftBatches(n) + SftLen
<1> SUFFICES ASSUME NEW n \in Nat, NEW l \in Nat PROVE l * (n + 1) = l * n + l
  BY DEF SftBatches
<1> QED
  OBVIOUS

LEMMA BatchesMonotone == \A m, n \in Nat : m <= n => SftBatches(m) <= SftBatches(n)
<1> SUFFICES ASSUME NEW m \in Nat, NEW n \in Nat, NEW l \in Nat, m <= n PROVE l * m <= l * n
  BY DEF SftBatches
<1> QED
  OBVIOUS

LEMMA FitsNext == \A p, k \in Nat : Fits(p, k) => Fits(p + 1, k + 1)
<1> SUFFICES ASSUME NEW p \in Nat, NEW k \in Nat PROVE (p + 1) - (k + 1) = p - k
  BY DEF Fits
<1> QED
  OBVIOUS

\* What % and \div mean, in terms of multiples.
LEMMA Divided ==
  \A k \in Int : \A l \in Nat \ {0} :
    \E q \in Int : \E r \in 0 .. l - 1 : q = k \div l /\ r = k % l /\ k = l * q + r
<1> SUFFICES ASSUME NEW k \in Int, NEW l \in Nat \ {0}
             PROVE  \E q \in Int : \E r \in 0 .. l - 1 : q = k \div l /\ r = k % l /\ k = l * q + r
  OBVIOUS
<1>1. ASSUME NEW q \in Int, NEW r \in Int, q = k \div l, r = k % l PROVE k = l * q + r
  BY <1>1
<1>2. k \div l \in Int /\ k % l \in 0 .. l - 1
  OBVIOUS
<1> QED
  BY <1>1, <1>2

LEMMA Multiple ==
  ASSUME NEW k \in Int, NEW l \in Nat \ {0}
  PROVE  k % l = 0 <=> \E q \in Int : k = l * q
<1>1. ASSUME k % l = 0 PROVE \E q \in Int : k = l * q
  <2>1. PICK q \in Int, r \in 0 .. l - 1 : q = k \div l /\ r = k % l /\ k = l * q + r
    BY Divided
  <2>2. r = 0
    BY <1>1, <2>1
  <2>3. k = l * q
    BY <2>1, <2>2
  <2> QED
    BY <2>3
<1>2. ASSUME NEW q \in Int, k = l * q PROVE k % l = 0
  BY <1>2
<1> QED
  BY <1>1, <1>2

\* A multiple of l between -l and 2l.
LEMMA SmallMultiple ==
  ASSUME NEW l \in Nat \ {0}, NEW q \in Int, -l < l * q, l * q < 2 * l
  PROVE  q \in {0, 1}
<1>1. ~(q <= -1)
  <2> SUFFICES ASSUME q <= -1 PROVE l * q <= -l
    OBVIOUS
  <2> QED
    OBVIOUS
<1>2. ~(q >= 2)
  <2> SUFFICES ASSUME q >= 2 PROVE l * q >= 2 * l
    OBVIOUS
  <2> QED
    OBVIOUS
<1> QED
  BY <1>1, <1>2

\* The end of an epoch is the beginning of the next.
LEMMA FitsWrap == \A k \in Nat : Fits(SftLen, k) => Fits(0, k)
<1> SUFFICES ASSUME NEW k \in Nat, NEW l \in Nat \ {0}, (l - k) % l = 0 PROVE (0 - k) % l = 0
  BY DEF Fits
<1>0. l - k \in Int /\ 0 - k \in Int
  OBVIOUS
<1>1. PICK q \in Int : l - k = l * q
  BY <1>0, Multiple
<1>2. 0 - k = l * (q - 1)
  BY <1>1
<1> QED
  BY <1>0, <1>2, Multiple

\* The epoch that load_checkpoint computes from the step, and the place.
LEMMA EpochOfStep ==
  ASSUME NEW k \in Nat, NEW p \in 1 .. SftLen, Fits(p, k)
  PROVE  /\ k \div SftLen \in Nat
         /\ p < SftLen => k = SftBatches(k \div SftLen) + p
         /\ p = SftLen => k = SftBatches(k \div SftLen)
<1> SUFFICES ASSUME NEW l \in Nat \ {0}, p \in 1 .. l, (p - k) % l = 0
             PROVE  /\ k \div l \in Nat
                    /\ p < l => k = l * (k \div l) + p
                    /\ p = l => k = l * (k \div l)
  BY DEF Fits, SftBatches
<1>1. PICK q \in Int, r \in 0 .. l - 1 : q = k \div l /\ r = k % l /\ k = l * q + r
  <2>1. k \in Int
    OBVIOUS
  <2> HIDE SftAssumption, MaxStepAssumption, MaxKeepAssumption
  <2> QED
    BY <2>1, Divided, Zenon
<1>2. k \div l \in Nat /\ p - k \in Int
  OBVIOUS
<1>3. PICK d \in Int : p - k = l * d
  BY <1>2, Multiple
<1>4. p - r = l * (q + d)
  BY <1>1, <1>3
<1>5. q + d \in {0, 1}
  BY <1>1, <1>4, SmallMultiple
<1>6. p - r = 0 \/ p - r = l
  BY <1>1, <1>4, <1>5
<1>7. (p < l => r = p) /\ (p = l => r = 0)
  BY <1>1, <1>6
<1>8. l * q \in Int
  BY <1>1
<1>9. (p < l => k = l * q + p) /\ (p = l => k = l * q)
  BY <1>1, <1>7, <1>8
<1> QED
  BY <1>1, <1>2, <1>9

-----------------------------------------------------------------------------
(* One lemma per action                                                      *)

LEMMA ElementType ==
  ASSUME NEW S, NEW s \in Seq(S), NEW i \in 1 .. Len(s)
  PROVE  s[i] \in S
OBVIOUS

LEMMA PathType ==
  ASSUME SftInv
  PROVE  /\ \A k \in Steps : k \in Nat
         /\ \A i \in 1 .. Len(saved_paths) : saved_paths[i] \in Steps /\ saved_paths[i] \in Nat
<1>1. \A k \in Steps : k \in Nat
  BY DEF Steps
<1>2. \A i \in 1 .. Len(saved_paths) : saved_paths[i] \in Steps
  BY ElementType DEF SftInv, SftType
<1> QED
  BY <1>1, <1>2

LEMMA SftInitInv == SftInit => SftInv
<1> SUFFICES ASSUME SftInit PROVE SftInv
  OBVIOUS
<1>1. SftType
  <2>1. disk \in [Steps -> Folder]
    BY DEF SftInit, StoreInit, Folder, NoCheckpoint, FileState
  <2>2. saved_paths \in Seq(Steps) /\ tracker \in 0 .. MaxStep
    BY DEF SftInit, StoreInit
  <2>3. sftWeights \in Nat \X Nat
    BY DEF SftInit
  <2>4. web \in BOOLEAN
    BY DEF SftInit
  <2> QED
    BY <2>1, <2>2, <2>3, <2>4 DEF SftInit, StoreInit, SftType
<1>2. CounterInv
  BY DEF SftInit, StoreInit, CounterInv, Stepped
<1>3. PathInv
  BY DEF SftInit, StoreInit, PathInv, Unwritten, Written, Going
<1>4. FolderInv
  BY DEF SftInit, StoreInit, FolderInv, Written, NoCheckpoint
<1>5. SftPlaceInv
  BY DEF SftInit, SftPlaceInv, Going, Stepped, EpochPerRestart
<1> QED
  BY <1>1, <1>2, <1>3, <1>4, <1>5 DEF SftInv

LEMMA SftConfigureInv == SftInv /\ SftConfigure => SftInv'
<1> SUFFICES ASSUME SftInv, SftConfigure PROVE SftInv'
  OBVIOUS
<1>1. SftType'
  BY DEF SftInv, SftType, SftConfigure, storeVars, runVars
<1>2. CounterInv'
  BY DEF SftInv, CounterInv, SftConfigure, storeVars, runVars, Stepped
<1>3. PathInv'
  BY DEF SftInv, PathInv, CounterInv, SftConfigure, storeVars, runVars, Unwritten, Written, Going
<1>4. FolderInv'
  BY DEF SftInv, FolderInv, CounterInv, SftConfigure, storeVars, runVars, Written
<1>5. SftPlaceInv'
  BY DEF SftConfigure, SftPlaceInv, Going, Stepped, EpochPerRestart
<1> QED
  BY <1>1, <1>2, <1>3, <1>4, <1>5 DEF SftInv

\* A tracker always has its folder, so that nothing saved means no tracker.
LEMMA TrackerFolder ==
  ASSUME SftInv
  PROVE  (NothingSaved <=> tracker = 0) /\ (tracker # 0 => tracker \in Steps /\ Loadable)
<1>1. tracker \in Nat /\ (tracker # 0 => tracker \in Steps)
  BY DEF SftInv, SftType, Steps
<1>2. tracker # 0 => disk[tracker].actor = "complete" /\ disk[tracker].data # "partial"
  BY <1>1 DEF SftInv, FolderInv, SftType
<1> QED
  BY <1>1, <1>2 DEF NothingSaved, Loadable, DirExists, Torn

LEMMA SftLoadInv == SftInv /\ SftLoad => SftInv'
<1> SUFFICES ASSUME SftInv, SftLoad PROVE SftInv'
  OBVIOUS
<1>1. /\ sftAt = "load" /\ sftAt' = "fetch" /\ save = "none" /\ saved_paths = <<>> /\ Len(saved_paths) = 0
      /\ sftStep = 0 /\ sftEpoch = 0 /\ sftPlace = 0
      /\ UNCHANGED <<tracker, disk, saved_paths, save, web, sftDied>>
  BY DEF SftInv, CounterInv, SftLoad, storeVars
<1>2. {sftStep, sftEpoch, sftPlace, sftDied} \subseteq Nat /\ SftLen \in Nat \ {0}
  BY DEF SftInv, SftType
<1>3. PathInv'
  BY <1>1 DEF PathInv, Unwritten, Written
<1>4. FolderInv'
  BY <1>1 DEF SftInv, FolderInv, Written
<1>5. CASE tracker = 0
  <2>1. UNCHANGED <<sftStep, sftEpoch, sftPlace, sftWeights>>
    BY <1>5, TrackerFolder DEF SftLoad
  <2>2. SftType'
    BY <1>1, <2>1 DEF SftInv, SftType
  <2>3. CounterInv'
    BY <1>1, <1>5, <2>1 DEF CounterInv, Stepped
  <2>4. Fits(0, 0)
    BY DEF Fits
  <2>5. SftBatches(0) = 0 /\ SftBatches(sftDied) \in Nat
    BY <1>2, BatchesType DEF SftBatches
  <2>6. SftPlaceInv'
    BY <1>1, <1>2, <2>1, <2>4, <2>5 DEF SftPlaceInv, Going, Stepped, EpochPerRestart
  <2> QED
    BY <1>3, <1>4, <2>2, <2>3, <2>6 DEF SftInv
<1>6. CASE tracker # 0
  <2>1. /\ tracker \in Steps /\ tracker \in Nat /\ sftDied >= 1
        /\ sftStep' = tracker /\ sftWeights' = disk[tracker].weights
        /\ sftEpoch' = StartEpoch /\ sftPlace' = RestoredPlace
    BY <1>1, <1>2, <1>6, TrackerFolder DEF SftLoad, SftInv, CounterInv, SftType
  <2>2. disk[tracker] \in Folder
    BY <2>1 DEF SftInv, SftType
  <2>3. CounterInv'
    BY <1>1, <2>1 DEF CounterInv, Stepped
  <2>4. CASE web
    <3>1. sftEpoch' = 0 /\ sftPlace' = 0
      BY <2>1, <2>4 DEF StartEpoch, RestoredPlace
    <3>2. SftType'
      BY <1>1, <2>1, <2>2, <3>1 DEF SftInv, SftType, Folder
    <3>3. SftPlaceInv'
      BY <1>1, <2>4, <3>1 DEF SftPlaceInv, EpochPerRestart
    <3> QED
      BY <1>3, <1>4, <2>3, <3>2, <3>3 DEF SftInv
  <2>5. CASE ~web
    <3>1. PICK p \in 1 .. SftLen : p = disk[tracker].pos /\ Fits(p, tracker)
      BY <1>6, <2>5 DEF SftInv, FolderInv
    <3>2. sftEpoch' = tracker \div SftLen /\ sftPlace' = p
      BY <1>6, <2>1, <2>5, <3>1 DEF StartEpoch, RestoredPlace, SftInv, FolderInv
    <3>3. /\ sftEpoch' \in Nat
          /\ p < SftLen => tracker = SftBatches(sftEpoch') + p
          /\ p = SftLen => tracker = SftBatches(sftEpoch')
      BY <2>1, <3>1, <3>2, EpochOfStep
    <3>4. SftType'
      BY <1>1, <2>1, <2>2, <3>1, <3>2, <3>3 DEF SftInv, SftType, Folder
    <3>5. SftBatches(1) = SftLen /\ SftBatches(sftDied) \in Nat /\ SftBatches(1) <= SftBatches(sftDied)
      BY <1>2, <2>1, BatchesType, BatchesMonotone DEF SftBatches
    <3>6. SftBatches(sftEpoch') \in Nat
      BY <3>3, BatchesType
    <3>7. tracker <= SftBatches(sftEpoch') + p /\ SftBatches(sftEpoch') + p <= tracker + SftBatches(sftDied)
      BY <1>2, <2>1, <3>3, <3>5, <3>6
    <3>8. SftPlaceInv'
      BY <1>1, <1>2, <2>1, <2>5, <3>1, <3>2, <3>7 DEF SftPlaceInv, Going, Stepped, EpochPerRestart, SftBatches
    <3> QED
      BY <1>3, <1>4, <2>3, <3>4, <3>8 DEF SftInv
  <2> QED
    BY <2>4, <2>5
<1> QED
  BY <1>5, <1>6

\* The step counter stays within the names that checkpoints can have.
LEMMA StepWithin ==
  ASSUME SftInv, SftTrain
  PROVE  sftStep + 1 \in Steps /\ sftStep \in Nat /\ sftPlace \in Nat /\ (~web => sftPlace < SftLen)
<1>1. /\ {sftStep, sftEpoch, sftPlace, sftDied} \subseteq Nat /\ SftLen \in Nat \ {0}
      /\ SftHorizon \in Nat /\ MaxStep >= SftHorizon /\ SftEpochs \in Nat
      /\ Going /\ sftEpoch < SftEpochs /\ (IF web THEN sftStep < SftHorizon ELSE sftPlace < SftLen)
  BY DEF SftInv, SftType, SftTrain, Going
<1>2. CASE web
  BY <1>1, <1>2 DEF Steps
<1>3. CASE ~web
  <2>1. sftStep <= SftBatches(sftEpoch) + sftPlace
    BY <1>1, <1>3 DEF SftInv, SftPlaceInv
  <2>2. SftBatches(sftEpoch + 1) = SftBatches(sftEpoch) + SftLen /\ SftBatches(sftEpoch) \in Nat
    BY <1>1, BatchesNext, BatchesType
  <2>3. sftEpoch + 1 \in Nat /\ sftEpoch + 1 <= SftEpochs
    BY <1>1
  <2>4. SftBatches(sftEpoch + 1) <= SftBatches(SftEpochs) /\ SftBatches(SftEpochs) \in Nat
    BY <1>1, <2>3, BatchesMonotone, BatchesType
  <2>5. MaxStep >= SftBatches(SftEpochs)
    BY DEF SftBatches
  <2> QED
    BY <1>1, <1>3, <2>1, <2>2, <2>4, <2>5 DEF Steps
<1> QED
  BY <1>2, <1>3, <1>1

LEMMA SftTrainInv == SftInv /\ SftTrain => SftInv'
<1> SUFFICES ASSUME SftInv, SftTrain PROVE SftInv'
  OBVIOUS
<1>1. /\ sftAt = "fetch" /\ sftAt' = "check" /\ save = "none" /\ Going
      /\ sftStep' = sftStep + 1 /\ sftPlace' = sftPlace + 1
      /\ sftWeights' = <<sftWeights[1] + 1, sftPlace'>>
      /\ UNCHANGED <<tracker, disk, saved_paths, save, web, sftEpoch, sftDied>>
  BY DEF SftInv, CounterInv, SftTrain, storeVars, Going
<1>2. sftStep + 1 \in Steps /\ sftStep \in Nat /\ sftPlace \in Nat /\ (~web => sftPlace < SftLen)
  BY StepWithin
<1>3. SftType'
  <2>1. sftWeights' \in Nat \X Nat
    BY <1>1, <1>2 DEF SftInv, SftType
  <2> QED
    BY <1>1, <1>2, <2>1 DEF SftInv, SftType
<1>4. tracker <= sftStep /\ tracker \in Nat
  BY <1>1 DEF SftInv, CounterInv, SftType
<1>5. CounterInv'
  BY <1>1, <1>2, <1>4 DEF CounterInv, Stepped
<1>6. PathInv'
  <2>1. \A i \in 1 .. Len(saved_paths) : saved_paths[i] <= sftStep /\ saved_paths[i] \in Nat
    BY <1>1, PathType DEF SftInv, PathInv
  <2>2. \A i \in 1 .. Len(saved_paths) : saved_paths[i] < sftStep + 1
    BY <1>2, <2>1
  <2>3. \A i \in 1 .. Len(saved_paths) - 1 : saved_paths[i] # tracker
    BY <1>1 DEF SftInv, PathInv, Written
  <2> QED
    BY <1>1, <2>2, <2>3 DEF PathInv, Unwritten, Written
<1>7. FolderInv'
  BY <1>1 DEF SftInv, FolderInv, Written
<1>8. SftPlaceInv'
  <2>1. ASSUME ~web
        PROVE  /\ sftPlace' \in 1 .. SftLen /\ Fits(sftPlace', sftStep')
               /\ sftStep' <= SftBatches(sftEpoch) + sftPlace'
               /\ SftBatches(sftEpoch) + sftPlace' <= sftStep' + SftBatches(sftDied)
    <3>1. /\ Fits(sftPlace, sftStep) /\ sftStep <= SftBatches(sftEpoch) + sftPlace
          /\ SftBatches(sftEpoch) + sftPlace <= sftStep + SftBatches(sftDied)
      BY <1>1, <2>1 DEF SftInv, SftPlaceInv
    <3>2. SftBatches(sftEpoch) \in Nat /\ SftBatches(sftDied) \in Nat
      BY BatchesType DEF SftInv, SftType
    <3>3. Fits(sftPlace', sftStep')
      BY <1>1, <1>2, <3>1, FitsNext
    <3> QED
      BY <1>1, <1>2, <2>1, <3>1, <3>2, <3>3
  <2>2. web => sftEpoch = 0
    BY <1>1 DEF SftInv, SftPlaceInv
  <2> QED
    BY <1>1, <1>2, <2>1, <2>2 DEF SftPlaceInv, EpochPerRestart, SftBatches
<1> QED
  BY <1>3, <1>5, <1>6, <1>7, <1>8 DEF SftInv

LEMMA SftCheckSaveInv == SftInv /\ SftCheckSave => SftInv'
<1> SUFFICES ASSUME SftInv, SftCheckSave PROVE SftInv'
  OBVIOUS
<1>1. /\ sftAt = "check" /\ Going /\ Stepped /\ save = "none"
      /\ UNCHANGED <<tracker, disk, saved_paths, web, sftStep, sftEpoch, sftPlace, sftWeights, sftDied>>
      /\ \/ sftAt' = "save" /\ save' = "rotate"
         \/ sftAt' = "fetch" /\ save' = "none"
  BY DEF SftInv, CounterInv, SftCheckSave, SaveBegin, storeVars, runVars, Going, Stepped
<1>2. Going' /\ ~Written' /\ ~Written
  BY <1>1 DEF Going, Written
<1>3. SftType'
  BY <1>1 DEF SftInv, SftType
<1>4. tracker < sftStep /\ tracker \in Nat /\ sftStep \in Nat /\ sftStep \in Steps
  BY <1>1 DEF SftInv, CounterInv, SftType
<1>5. CounterInv'
  BY <1>1, <1>4 DEF CounterInv, Stepped
<1>6. PathInv'
  <2>1. \A i \in 1 .. Len(saved_paths) : saved_paths[i] < sftStep /\ saved_paths[i] \in Nat
    BY <1>1, PathType DEF SftInv, PathInv
  <2>2. \A i \in 1 .. Len(saved_paths) : saved_paths[i] <= sftStep
    BY <1>4, <2>1
  <2>3. \A i \in 1 .. Len(saved_paths) - 1 : saved_paths[i] # tracker
    BY <1>1, <1>2 DEF SftInv, PathInv
  <2> QED
    BY <1>1, <1>2, <2>1, <2>2, <2>3 DEF PathInv
<1>7. FolderInv'
  BY <1>1, <1>2 DEF SftInv, FolderInv
<1>8. SftPlaceInv'
  BY <1>1, <1>2 DEF SftInv, SftPlaceInv, EpochPerRestart, Stepped, SftBatches
<1> QED
  BY <1>3, <1>5, <1>6, <1>7, <1>8 DEF SftInv

\* What every step of save_checkpoint finds and leaves alone.
LEMMA SaveFacts ==
  ASSUME SftInv, SftSave
  PROVE  /\ sftAt = "save" /\ save # "none" /\ Going /\ Stepped
         /\ sftStep \in Steps /\ sftStep \in Nat /\ tracker \in Nat /\ tracker < sftStep
         /\ tracker # 0 => tracker \in Steps
         /\ disk \in [Steps -> Folder] /\ saved_paths \in Seq(Steps) /\ sftWeights \in Nat \X Nat
         /\ UNCHANGED <<web, sftStep, sftEpoch, sftPlace, sftWeights, sftDied>>
         /\ sftAt' = IF save' = "none" THEN "fetch" ELSE "save"
<1>1. sftAt = "save" /\ UNCHANGED <<web, sftStep, sftEpoch, sftPlace, sftWeights, sftDied>>
      /\ sftAt' = IF save' = "none" THEN "fetch" ELSE "save"
  BY DEF SftSave, runVars
<1>2. save # "none" /\ Going /\ Stepped /\ sftStep \in Steps /\ tracker < sftStep
  BY <1>1 DEF SftInv, CounterInv, Going, Stepped
<1>3. sftStep \in Nat /\ tracker \in Nat /\ (tracker # 0 => tracker \in Steps)
  BY DEF SftInv, SftType, Steps
<1>4. disk \in [Steps -> Folder] /\ saved_paths \in Seq(Steps) /\ sftWeights \in Nat \X Nat
  BY DEF SftInv, SftType
<1> QED
  BY <1>1, <1>2, <1>3, <1>4

\* All but the last step leave the tracker and where the run is.
LEMMA SaveKeeps ==
  ASSUME SftInv, SftSave, tracker' = tracker,
         save' \in {"rotate", "mkdir", "actor", "dataOpen", "data", "truncate"},
         disk' \in [Steps -> Folder], saved_paths' \in Seq(Steps)
  PROVE  SftType' /\ CounterInv' /\ SftPlaceInv' /\ sftAt' = "save" /\ Going'
<1>1. sftAt' = "save" /\ Going' /\ Stepped'
  BY SaveFacts DEF Going, Stepped
<1>2. SftType'
  BY <1>1, SaveFacts DEF SftInv, SftType
<1>3. CounterInv'
  BY <1>1, SaveFacts DEF CounterInv
<1>4. SftPlaceInv'
  BY <1>1, SaveFacts DEF SftInv, SftPlaceInv, EpochPerRestart, SftBatches
<1> QED
  BY <1>1, <1>2, <1>3, <1>4

\* A step that writes into the folder of the step being saved.
LEMMA SftWriteInv ==
  ASSUME SftInv, SftSave, UNCHANGED <<tracker, saved_paths>>,
         \/ save = "mkdir" /\ save' = "actor"
         \/ save = "dataOpen" /\ save' \in {"data", "truncate"}
         \/ save = "data" /\ save' = "truncate",
         disk' \in [Steps -> Folder],
         \A k \in Steps : k # sftStep => disk'[k] = disk[k],
         Written => disk'[sftStep].actor = "complete",
         web => save' # "data" /\ disk'[sftStep].data = "absent",
         save' = "truncate" /\ ~web => disk'[sftStep].data = "complete" /\ disk'[sftStep].pos = sftPlace
  PROVE  SftInv'
<1>1. /\ sftAt = "save" /\ sftStep \in Steps /\ tracker < sftStep /\ tracker \in Nat /\ sftStep \in Nat
      /\ UNCHANGED <<web, sftStep, sftPlace>> /\ (tracker # 0 => tracker \in Steps) /\ Going
  BY SaveFacts
<1>2. SftType' /\ CounterInv' /\ SftPlaceInv' /\ sftAt' = "save" /\ Going'
  <2>1. saved_paths' \in Seq(Steps)
    BY DEF SftInv, SftType
  <2> QED
    BY <2>1, SaveKeeps
<1>3. Written' = Written /\ Unwritten' = Unwritten
  BY DEF Written, Unwritten
<1>4. PathInv'
  BY <1>1, <1>2, <1>3 DEF SftInv, PathInv
<1>5. FolderInv'
  <2>1. tracker # 0 => disk'[tracker] = disk[tracker]
    BY <1>1
  <2>2. web => \A k \in Steps : disk'[k].data = "absent"
    BY DEF SftInv, FolderInv
  <2> QED
    BY <1>1, <1>2, <1>3, <2>1, <2>2 DEF SftInv, FolderInv
<1> QED
  BY <1>2, <1>4, <1>5 DEF SftInv

\* What is left of a sequence when its first n elements are removed.
LEMMA Suffix ==
  ASSUME NEW S, NEW s \in Seq(S), NEW n \in 0 .. Len(s)
  PROVE  LET t == SubSeq(s, n + 1, Len(s)) IN
           /\ t \in Seq(S) /\ Len(t) = Len(s) - n
           /\ \A i \in 1 .. Len(s) - n : t[i] = s[i + n]
OBVIOUS

\* Rotation keeps the folder of the tracker: it is the last, or not known to
\* the manager, and with max_ckpt_to_keep above 1 the last is not removed.
LEMMA SftRotateInv ==
  ASSUME SftInv, SftSave, SftRotate, MaxKeep # 1
  PROVE  SftInv'
<1> DEFINE n == keep_start
<1>1. /\ save = "rotate" /\ save' = "mkdir" /\ tracker' = tracker
      /\ disk' = [k \in Steps |-> IF \E i \in 1 .. n : saved_paths[i] = k THEN NoCheckpoint ELSE disk[k]]
      /\ saved_paths' = SubSeq(saved_paths, n + 1, Len(saved_paths))
  BY DEF SftRotate, SftRemove
<1>2. saved_paths \in Seq(Steps) /\ Len(saved_paths) \in Nat /\ Going /\ Unwritten /\ ~Written
  BY <1>1, SaveFacts DEF Unwritten, Written
<1>3. n \in 0 .. Len(saved_paths) /\ (n > 0 => n <= Len(saved_paths) - 1)
  BY <1>2 DEF keep_start
<1> HIDE DEF n
<1>4. /\ saved_paths' \in Seq(Steps) /\ Len(saved_paths') = Len(saved_paths) - n
      /\ \A i \in 1 .. Len(saved_paths) - n : saved_paths'[i] = saved_paths[i + n]
  BY <1>1, <1>2, <1>3, Suffix
<1>5. disk' \in [Steps -> Folder] /\ \A k \in Steps : disk'[k] \in {NoCheckpoint, disk[k]}
  <2>1. NoCheckpoint \in Folder
    BY DEF NoCheckpoint, Folder, FileState
  <2> QED
    BY <1>1, <2>1, SaveFacts
<1>6. SftType' /\ CounterInv' /\ SftPlaceInv' /\ sftAt' = "save" /\ Going'
  BY <1>1, <1>4, <1>5, SaveKeeps
<1>7. \A i \in 1 .. Len(saved_paths) : saved_paths[i] < sftStep
  BY <1>2 DEF SftInv, PathInv
<1>8. \A i \in 1 .. Len(saved_paths) - 1 : saved_paths[i] # tracker
  BY <1>2 DEF SftInv, PathInv
<1>9. PathInv'
  <2>1. ASSUME NEW i \in 1 .. Len(saved_paths') PROVE saved_paths'[i] < sftStep
    <3>1. i \in 1 .. Len(saved_paths) - n /\ i + n \in 1 .. Len(saved_paths)
      BY <1>2, <1>3, <1>4
    <3> QED
      BY <1>4, <1>7, <3>1
  <2>2. ASSUME NEW i \in 1 .. Len(saved_paths') - 1 PROVE saved_paths'[i] # tracker
    <3>1. i \in 1 .. Len(saved_paths) - n /\ i + n \in 1 .. Len(saved_paths) - 1
      BY <1>2, <1>3, <1>4
    <3> QED
      BY <1>4, <1>8, <3>1
  <2>3. sftStep' = sftStep /\ ~Written'
    BY <1>1, SaveFacts DEF Written
  <2> QED
    BY <1>1, <1>6, <2>1, <2>2, <2>3 DEF PathInv
<1>10. FolderInv'
  <2>1. tracker # 0 => disk'[tracker] = disk[tracker]
    <3>1. \A i \in 1 .. n : saved_paths[i] # tracker
      BY <1>2, <1>3, <1>8
    <3> QED
      BY <1>1, <3>1, SaveFacts
  <2>2. web => \A k \in Steps : disk'[k].data = "absent"
    BY <1>5 DEF SftInv, FolderInv, NoCheckpoint
  <2> QED
    BY <1>1, <1>6, <2>1, <2>2, SaveFacts DEF SftInv, FolderInv, Written
<1> QED
  BY <1>6, <1>9, <1>10 DEF SftInv

LEMMA SftActorInv ==
  ASSUME SftInv, SftSave, SaveActor(sftStep, sftWeights)
  PROVE  SftInv'
<1>1. /\ save = "actor" /\ save' = "dataOpen" /\ tracker' = tracker
      /\ disk' = [disk EXCEPT ![sftStep].actor = "complete", ![sftStep].weights = sftWeights]
      /\ saved_paths' = Append(saved_paths, sftStep)
  BY DEF SaveActor
<1>2. /\ sftStep \in Steps /\ sftStep' = sftStep /\ web' = web /\ saved_paths \in Seq(Steps)
      /\ disk \in [Steps -> Folder] /\ sftWeights \in Nat \X Nat
      /\ tracker < sftStep /\ tracker \in Nat /\ sftStep \in Nat /\ (tracker # 0 => tracker \in Steps)
  BY SaveFacts
<1>3. /\ \A k \in Steps : k # sftStep => disk'[k] = disk[k]
      /\ disk'[sftStep] = [disk[sftStep] EXCEPT !.actor = "complete", !.weights = sftWeights]
      /\ DOMAIN disk' = Steps
  BY <1>1, <1>2
<1>4. disk[sftStep] \in Folder
  BY <1>2
<1>5. /\ disk'[sftStep] \in Folder /\ disk'[sftStep].actor = "complete"
      /\ disk'[sftStep].data = disk[sftStep].data
  BY <1>2, <1>3, <1>4 DEF Folder, FileState
<1>6. disk' \in [Steps -> Folder]
  <2>1. disk' = [k \in Steps |-> disk'[k]]
    BY <1>1, <1>2
  <2>2. \A k \in Steps : disk'[k] \in Folder
    BY <1>2, <1>3, <1>5
  <2> QED
    BY <2>1, <2>2
<1>7. /\ saved_paths' \in Seq(Steps) /\ Len(saved_paths') = Len(saved_paths) + 1 /\ Len(saved_paths) \in Nat
      /\ \A i \in 1 .. Len(saved_paths) : saved_paths'[i] = saved_paths[i]
  BY <1>1, <1>2
<1>8. SftType' /\ CounterInv' /\ SftPlaceInv' /\ sftAt' = "save" /\ Going'
  BY <1>1, <1>6, <1>7, SaveKeeps
<1>9. PathInv'
  <2>1. \A i \in 1 .. Len(saved_paths) : saved_paths[i] < sftStep
    BY <1>1 DEF SftInv, PathInv, Unwritten
  <2>2. \A i \in 1 .. Len(saved_paths') - 1 : saved_paths'[i] < sftStep
    BY <1>7, <2>1
  <2> QED
    BY <1>1, <1>2, <1>8, <2>2 DEF PathInv, Unwritten, Written
<1>10. FolderInv'
  <2>1. tracker # 0 => disk'[tracker] = disk[tracker]
    BY <1>2, <1>3
  <2>2. web => \A k \in Steps : disk'[k].data = "absent"
    BY <1>2, <1>3, <1>5 DEF SftInv, FolderInv
  <2> QED
    BY <1>1, <1>2, <1>5, <1>8, <2>1, <2>2 DEF SftInv, FolderInv
<1> QED
  BY <1>8, <1>9, <1>10 DEF SftInv

\* os.rename: from here on a restart goes on from this step.
LEMMA SftRenameInv ==
  ASSUME SftInv, SftSave, SftRename
  PROVE  SftInv'
<1>1. save = "truncate" /\ save' = "none" /\ tracker' = sftStep /\ UNCHANGED <<disk, saved_paths>>
  BY DEF SftRename
<1>2. /\ sftStep \in Steps /\ sftStep \in Nat /\ Going /\ Stepped /\ sftAt' = "fetch" /\ saved_paths \in Seq(Steps)
      /\ UNCHANGED <<web, sftStep, sftEpoch, sftPlace, sftWeights, sftDied>>
  BY <1>1, SaveFacts
<1>3. Written /\ ~Written' /\ Going' /\ ~Unwritten'
  BY <1>1, <1>2 DEF Written, Unwritten, Going
<1>4. SftType'
  BY <1>1, <1>2 DEF SftInv, SftType, Steps
<1>5. CounterInv'
  BY <1>1, <1>2 DEF CounterInv, Stepped
<1>6. PathInv'
  <2>1. \A i \in 1 .. Len(saved_paths) - 1 : saved_paths[i] < sftStep
    BY <1>3 DEF SftInv, PathInv
  <2>2. \A i \in 1 .. Len(saved_paths) : saved_paths[i] <= sftStep
    <3>1. Len(saved_paths) \in Nat
      BY <1>2
    <3>2. saved_paths = <<>> \/ saved_paths[Len(saved_paths)] = sftStep
      BY <1>3 DEF SftInv, PathInv
    <3> QED
      BY <1>2, <2>1, <3>1, <3>2, PathType
  <2>3. \A i \in 1 .. Len(saved_paths) - 1 : saved_paths[i] # sftStep
    BY <1>2, <2>1
  <2> QED
    BY <1>1, <1>2, <1>3, <2>2, <2>3 DEF PathInv
<1>7. FolderInv'
  <2>1. ~web => /\ sftPlace \in 1 .. SftLen /\ Fits(sftPlace, sftStep)
    BY <1>2 DEF SftInv, SftPlaceInv
  <2> QED
    BY <1>1, <1>2, <1>3, <2>1 DEF SftInv, FolderInv, Fits
<1>8. SftPlaceInv'
  BY <1>2, <1>3 DEF SftInv, SftPlaceInv, EpochPerRestart, SftBatches, Stepped
<1> QED
  BY <1>4, <1>5, <1>6, <1>7, <1>8 DEF SftInv

LEMMA SftSaveInv ==
  ASSUME SftInv, SftSave, MaxKeep # 1
  PROVE  SftInv'
<1>1. /\ sftStep \in Steps /\ disk \in [Steps -> Folder] /\ disk[sftStep] \in Folder
      /\ UNCHANGED <<web, sftStep, sftPlace>>
  BY SaveFacts
<1>2. sftPlace \in Nat
  BY DEF SftInv, SftType
<1>3. CASE SaveMkdir(sftStep)
  <2>1. /\ save = "mkdir" /\ save' = "actor" /\ UNCHANGED <<tracker, saved_paths>>
        /\ disk' = [disk EXCEPT ![sftStep] = [disk[sftStep] EXCEPT !.actor = "partial"]]
    BY <1>3 DEF SaveMkdir
  <2>2. [disk[sftStep] EXCEPT !.actor = "partial"] \in Folder
    BY <1>1 DEF Folder, FileState
  <2>3. /\ disk' \in [Steps -> Folder] /\ \A k \in Steps : k # sftStep => disk'[k] = disk[k]
        /\ disk'[sftStep] = [disk[sftStep] EXCEPT !.actor = "partial"]
    BY <1>1, <2>1, <2>2
  <2>4. web => disk'[sftStep].data = "absent"
    BY <1>1, <2>3 DEF SftInv, FolderInv, Folder
  <2>5. ~Written
    BY <2>1 DEF Written
  <2> QED
    BY <2>1, <2>3, <2>4, <2>5, SftWriteInv
<1>4. CASE ~web /\ SaveDataOpen(sftStep)
  <2>1. /\ save = "dataOpen" /\ save' = "data" /\ UNCHANGED <<tracker, saved_paths>>
        /\ disk' = [disk EXCEPT ![sftStep] = [disk[sftStep] EXCEPT !.data = "partial"]]
    BY <1>4 DEF SaveDataOpen
  <2>2. [disk[sftStep] EXCEPT !.data = "partial"] \in Folder
    BY <1>1 DEF Folder, FileState
  <2>3. /\ disk' \in [Steps -> Folder] /\ \A k \in Steps : k # sftStep => disk'[k] = disk[k]
        /\ disk'[sftStep] = [disk[sftStep] EXCEPT !.data = "partial"]
    BY <1>1, <2>1, <2>2
  <2>4. disk'[sftStep].actor = "complete"
    <3>1. disk[sftStep].actor = "complete"
      BY <2>1 DEF SftInv, FolderInv, Written
    <3> QED
      BY <1>1, <2>3, <3>1 DEF Folder
  <2> QED
    BY <1>4, <2>1, <2>3, <2>4, SftWriteInv
<1>5. CASE ~web /\ SaveData(sftStep, sftPlace)
  <2> DEFINE f == [disk[sftStep] EXCEPT !.data = "complete", !.pos = sftPlace]
  <2>1. /\ save = "data" /\ save' = "truncate" /\ UNCHANGED <<tracker, saved_paths>>
        /\ disk' = [disk EXCEPT ![sftStep].data = "complete", ![sftStep].pos = sftPlace]
    BY <1>5 DEF SaveData
  <2>2. f \in Folder /\ f.data = "complete" /\ f.pos = sftPlace /\ f.actor = disk[sftStep].actor
    BY <1>1, <1>2 DEF Folder, FileState
  <2>3. disk' = [disk EXCEPT ![sftStep] = f]
    BY <1>1, <2>1
  <2> HIDE DEF f
  <2>4. /\ disk' \in [Steps -> Folder] /\ \A k \in Steps : k # sftStep => disk'[k] = disk[k]
        /\ disk'[sftStep] = f
    BY <1>1, <2>2, <2>3
  <2>5. disk[sftStep].actor = "complete"
    BY <2>1 DEF SftInv, FolderInv, Written
  <2> QED
    BY <1>5, <2>1, <2>2, <2>4, <2>5, SftWriteInv
<1>6. CASE SftNoData
  <2>1. web /\ save = "dataOpen" /\ save' = "truncate" /\ UNCHANGED <<tracker, disk, saved_paths>>
    BY <1>6 DEF SftNoData
  <2>2. disk[sftStep].data = "absent" /\ disk[sftStep].actor = "complete"
    BY <1>1, <2>1 DEF SftInv, FolderInv, Written
  <2> QED
    BY <1>1, <2>1, <2>2, SftWriteInv
<1> QED
  BY <1>3, <1>4, <1>5, <1>6, SftRotateInv, SftActorInv, SftRenameInv DEF SftSave

LEMMA SftNextEpochInv == SftInv /\ SftNextEpoch => SftInv'
<1> SUFFICES ASSUME SftInv, SftNextEpoch PROVE SftInv'
  OBVIOUS
<1>1. /\ sftAt = "fetch" /\ ~web /\ sftPlace = SftLen /\ sftEpoch' = sftEpoch + 1 /\ sftPlace' = 0
      /\ sftAt' = IF sftEpoch' < SftEpochs THEN "fetch" ELSE "done"
      /\ UNCHANGED <<tracker, disk, saved_paths, save, sftStep, sftWeights, web, sftDied>>
      /\ save = "none" /\ Going
  BY DEF SftNextEpoch, storeVars, SftInv, CounterInv, Going
<1>2. {sftStep, sftEpoch, sftPlace, sftDied, SftEpochs} \subseteq Nat /\ SftLen \in Nat \ {0}
  BY DEF SftInv, SftType
<1>3. SftType'
  BY <1>1, <1>2 DEF SftInv, SftType
<1>4. CounterInv'
  BY <1>1 DEF SftInv, CounterInv, Stepped
<1>5. PathInv'
  BY <1>1 DEF SftInv, PathInv, Going, Unwritten, Written
<1>6. FolderInv'
  BY <1>1 DEF SftInv, FolderInv, Written
<1>7. SftPlaceInv'
  <2>1. /\ Fits(0, sftStep) /\ sftStep <= SftBatches(sftEpoch) + SftLen
        /\ SftBatches(sftEpoch) + SftLen <= sftStep + SftBatches(sftDied)
    BY <1>1, <1>2, FitsWrap DEF SftInv, SftPlaceInv
  <2>2. SftBatches(sftEpoch') = SftBatches(sftEpoch) + SftLen /\ SftBatches(sftEpoch') \in Nat
        /\ SftBatches(sftDied) \in Nat /\ SftBatches(sftEpoch) \in Nat /\ SftBatches(SftEpochs) \in Nat
    BY <1>1, <1>2, BatchesNext, BatchesType
  <2>3. ASSUME sftAt' = "done" PROVE sftStep + SftBatches(sftDied) >= SftBatches(SftEpochs)
    <3>1. SftEpochs <= sftEpoch' /\ sftEpoch' \in Nat
      BY <1>1, <1>2, <2>3
    <3>2. SftBatches(SftEpochs) <= SftBatches(sftEpoch')
      BY <1>2, <3>1, BatchesMonotone
    <3> QED
      BY <1>2, <2>1, <2>2, <3>2
  <2>4. EpochPerRestart'
    BY <1>1, <2>3 DEF EpochPerRestart, SftBatches
  <2>5. sftStep <= SftBatches(sftEpoch') + 0 /\ SftBatches(sftEpoch') + 0 <= sftStep + SftBatches(sftDied)
    BY <1>2, <2>1, <2>2
  <2>6. sftAt' \in {"fetch", "done"} /\ 0 \in 0 .. SftLen
    BY <1>1, <1>2
  <2> QED
    BY <1>1, <2>1, <2>4, <2>5, <2>6 DEF SftPlaceInv, Stepped, SftBatches
<1> QED
  BY <1>3, <1>4, <1>5, <1>6, <1>7 DEF SftInv

LEMMA SftNothingLeftInv == SftInv /\ SftNothingLeft => SftInv'
<1> SUFFICES ASSUME SftInv, SftNothingLeft PROVE SftInv'
  OBVIOUS
<1>1. /\ sftAt = "fetch" /\ sftEpoch >= SftEpochs /\ sftAt' = "done" /\ save = "none" /\ Going
      /\ UNCHANGED <<tracker, disk, saved_paths, save, sftStep, sftEpoch, sftPlace, sftWeights, web, sftDied>>
  BY DEF SftNothingLeft, storeVars, runVars, SftInv, CounterInv, Going
<1>2. {sftStep, sftEpoch, sftPlace, sftDied} \subseteq Nat /\ SftEpochs \in Nat \ {0}
  BY DEF SftInv, SftType
<1>3. SftType'
  BY <1>1 DEF SftInv, SftType
<1>4. CounterInv'
  BY <1>1 DEF SftInv, CounterInv, Stepped
<1>5. PathInv'
  BY <1>1 DEF PathInv, Going, Unwritten, Written
<1>6. FolderInv'
  BY <1>1 DEF SftInv, FolderInv, Written
<1>7. SftPlaceInv'
  <2>1. ~web
    BY <1>1, <1>2 DEF SftInv, SftPlaceInv
  <2>2. SftBatches(sftEpoch) + sftPlace <= sftStep + SftBatches(sftDied)
    BY <1>1, <2>1 DEF SftInv, SftPlaceInv
  <2>3. /\ SftBatches(SftEpochs) <= SftBatches(sftEpoch) /\ SftBatches(SftEpochs) \in Nat
        /\ SftBatches(sftEpoch) \in Nat /\ SftBatches(sftDied) \in Nat
    BY <1>1, <1>2, BatchesMonotone, BatchesType
  <2>4. sftStep + SftBatches(sftDied) >= SftBatches(SftEpochs)
    BY <1>2, <2>2, <2>3
  <2>5. EpochPerRestart'
    BY <1>1, <2>4 DEF EpochPerRestart, SftBatches
  <2> QED
    BY <1>1, <2>5 DEF SftPlaceInv, Going, Stepped
<1> QED
  BY <1>3, <1>4, <1>5, <1>6, <1>7 DEF SftInv

LEMMA SftCrashInv == SftInv /\ SftCrash => SftInv'
<1> SUFFICES ASSUME SftInv, SftCrash PROVE SftInv'
  OBVIOUS
<1>1. /\ Going /\ sftDied' = sftDied + 1 /\ sftAt' = "load"
      /\ sftStep' = 0 /\ sftEpoch' = 0 /\ sftPlace' = 0 /\ sftWeights' = <<0, 0>>
      /\ saved_paths' = <<>> /\ save' = "none" /\ UNCHANGED <<tracker, disk, web>> /\ sftDied \in Nat
  BY DEF SftCrash, StoreCrash, Going, SftInv, SftType
<1>2. SftType'
  <2>1. sftWeights' \in Nat \X Nat /\ saved_paths' \in Seq(Steps) /\ sftDied' \in Nat
    BY <1>1
  <2> QED
    BY <1>1, <2>1 DEF SftInv, SftType
<1>3. CounterInv'
  BY <1>1 DEF CounterInv, Stepped
<1>4. PathInv'
  BY <1>1 DEF PathInv, Going, Unwritten, Written
<1>5. FolderInv'
  BY <1>1 DEF SftInv, FolderInv, Written
<1>6. SftPlaceInv'
  BY <1>1 DEF SftPlaceInv, Going, Stepped, EpochPerRestart
<1> QED
  BY <1>2, <1>3, <1>4, <1>5, <1>6 DEF SftInv

LEMMA SftKeptInv == SftInv /\ UNCHANGED sftVars => SftInv'
<1> SUFFICES ASSUME SftInv, UNCHANGED sftVars PROVE SftInv'
  OBVIOUS
<1>1. UNCHANGED <<tracker, disk, saved_paths, save, sftStep, sftEpoch, sftPlace, sftWeights, sftAt, web, sftDied>>
  BY DEF sftVars, storeVars, runVars
<1>2. SftType' /\ CounterInv'
  BY <1>1 DEF SftInv, SftType, CounterInv, Stepped
<1>3. PathInv' /\ FolderInv'
  BY <1>1 DEF SftInv, PathInv, FolderInv, Going, Unwritten, Written
<1>4. SftPlaceInv'
  BY <1>1 DEF SftInv, SftPlaceInv, Going, Stepped, EpochPerRestart, SftBatches
<1> QED
  BY <1>2, <1>3, <1>4 DEF SftInv

-----------------------------------------------------------------------------
(* Results                                                                   *)

(* SftInv is an invariant: the counters, the remembered folders, the files   *)
(* and the loader's place stay in step through every save, crash and load.   *)
THEOREM SftInvHolds == MaxKeep # 1 /\ SftSpec => []SftInv
<1> SUFFICES ASSUME MaxKeep # 1 PROVE SftSpec => []SftInv
  OBVIOUS
<1>1. SftInit => SftInv
  BY SftInitInv
<1>2. SftInv /\ [SftNext]_sftVars => SftInv'
  BY SftConfigureInv, SftLoadInv, SftTrainInv, SftCheckSaveInv, SftSaveInv, SftNextEpochInv,
     SftNothingLeftInv, SftCrashInv, SftKeptInv DEF SftNext
<1> QED
  BY <1>1, <1>2, PTL DEF SftSpec

(* SftResumes for every data length, save frequency and number of restarts:  *)
(* whenever the process dies, also in the middle of save_checkpoint, the     *)
(* tracker names a complete folder, the loader goes on at the place of the   *)
(* step, and a restart costs at most one epoch. max_ckpt_to_keep = 1 is the  *)
(* exception: its rotation removes the only complete folder first.           *)
THEOREM SftAlwaysResumes == MaxKeep # 1 /\ SftSpec => []SftResumes
<1>1. SftInv => SftResumes
  <2> SUFFICES ASSUME SftInv PROVE SftResumes
    OBVIOUS
  <2>1. AlwaysResumable
    BY TrackerFolder DEF AlwaysResumable
  <2>2. PlaceFollowsStep
    BY DEF SftInv, SftPlaceInv, Fits, Going, PlaceFollowsStep
  <2>3. EpochPerRestart
    BY DEF SftInv, SftPlaceInv
  <2> QED
    BY <2>1, <2>2, <2>3 DEF SftResumes
<1> QED
  BY <1>1, SftInvHolds, PTL
=============================================================================
