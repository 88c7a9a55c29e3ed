-------------------------- MODULE CheckpointStore --------------------------
(***************************************************************************)
(* The checkpoint directory of the synchronous trainer and the steps of    *)
(* _save_checkpoint (ray_trainer_for_tar.py) through the FSDP checkpoint   *)
(* manager (fsdp_checkpoint_manager.py).                                   *)
(*                                                                         *)
(* Each step between which the files on disk differ is an action of its    *)
(* own, so that the process can stop between any two of them: rotating the *)
(* old checkpoints, creating global_step_k/actor, writing it, opening and  *)
(* writing data.pt, and opening (which truncates) and writing the tracker  *)
(* file latest_checkpointed_iteration.txt.                                 *)
(***************************************************************************)
EXTENDS Integers, Sequences

CONSTANTS
  MaxStep,   \* the largest step a checkpoint can be named after
  MaxKeep    \* max_actor_ckpt_to_keep, 0 for None

ASSUME MaxStepAssumption == MaxStep \in Nat
ASSUME MaxKeepAssumption == MaxKeep \in Nat

VARIABLES
  tracker,      \* step in the tracker file, 0: there is no file, Torn: empty
  disk,         \* what global_step_k holds
  saved_paths,  \* previous_saved_paths of the manager: in memory only
  save          \* next step of the save under way, or "none"

storeVars == <<tracker, disk, saved_paths, save>>

Steps == 1 .. MaxStep
Torn == -1
FileState == {"absent", "partial", "complete"}

\* actor/ and its weights; data.pt and the loader position in it.
NoCheckpoint == [actor |-> "absent", weights |-> <<0, 0>>,
                 data |-> "absent", pos |-> 0]

StoreInit ==
  /\ tracker = 0
  /\ disk = [k \in Steps |-> NoCheckpoint]
  /\ saved_paths = <<>>
  /\ save = "none"

\* Rotation removes global_step_k/actor only: the folder stays with data.pt.
DirExists(k) ==
  k \in Steps /\ (disk[k].actor # "absent" \/ disk[k].data # "absent")

------------------------------------------------------------------------------
SaveBegin == save = "none" /\ save' = "rotate"

\* The checkpoints to remove: keep_start is how many of the oldest.
keep_start ==
  IF MaxKeep > 0 /\ Len(saved_paths) >= MaxKeep
    THEN Len(saved_paths) - MaxKeep + 1
    ELSE 0

RemoveOldest(n) ==
  /\ save = "rotate" /\ save' = "mkdir"
  /\ disk' = [k \in Steps |->
                IF \E i \in 1 .. n : saved_paths[i] = k
                  THEN [disk[k] EXCEPT !.actor = "absent"]
                  ELSE disk[k]]
  /\ saved_paths' = SubSeq(saved_paths, n + 1, Len(saved_paths))
  /\ UNCHANGED tracker

\* Mutant: the new checkpoint is not counted among those to keep.
SaveRotateLate == RemoveOldest(IF keep_start > 0 THEN keep_start - 1 ELSE 0)

\* Mutant: one checkpoint too many is removed.
SaveRotateAll == RemoveOldest(IF keep_start > 0 THEN Len(saved_paths) ELSE 0)

\* Rotation comes before the new checkpoint is written.
SaveRotate == RemoveOldest(keep_start)

SaveMkdir(k) ==
  /\ save = "mkdir" /\ save' = "actor"
  /\ disk' = [disk EXCEPT ![k].actor = "partial"]
  /\ UNCHANGED <<tracker, saved_paths>>

\* Every rank has written its shards and passed the barriers.
SaveActor(k, w) ==
  /\ save = "actor" /\ save' = "dataOpen"
  /\ disk' = [disk EXCEPT ![k].actor = "complete", ![k].weights = w]
  /\ saved_paths' = Append(saved_paths, k)
  /\ UNCHANGED tracker

SaveDataOpen(k) ==
  /\ save = "dataOpen" /\ save' = "data"
  /\ disk' = [disk EXCEPT ![k].data = "partial"]
  /\ UNCHANGED <<tracker, saved_paths>>

SaveData(k, p) ==
  /\ save = "data" /\ save' = "truncate"
  /\ disk' = [disk EXCEPT ![k].data = "complete", ![k].pos = p]
  /\ UNCHANGED <<tracker, saved_paths>>

SaveTruncate ==
  /\ save = "truncate" /\ save' = "track"
  /\ tracker' = Torn
  /\ UNCHANGED <<disk, saved_paths>>

SaveTracker(k) ==
  /\ save = "track" /\ save' = "none"
  /\ tracker' = k
  /\ UNCHANGED <<disk, saved_paths>>

\* One step of _save_checkpoint for step k, weights w and loader position p.
SaveStep(k, w, p) ==
  \/ SaveRotate
  \/ SaveMkdir(k)
  \/ SaveActor(k, w)
  \/ SaveDataOpen(k)
  \/ SaveData(k, p)
  \/ SaveTruncate
  \/ SaveTracker(k)

\* The process dies: what it holds in memory is lost.
StoreCrash ==
  /\ saved_paths' = <<>> /\ save' = "none"
  /\ UNCHANGED <<tracker, disk>>

------------------------------------------------------------------------------
\* find_latest_ckpt_path is None: no tracker, or a tracker with no folder.
NothingSaved == tracker = 0 \/ (tracker # Torn /\ ~ DirExists(tracker))

\* The checkpoint the tracker names can be loaded; data.pt may be missing.
Loadable ==
  /\ tracker \in Steps /\ DirExists(tracker)
  /\ disk[tracker].actor = "complete"
  /\ disk[tracker].data # "partial"

StoreTypeOK ==
  /\ tracker \in Steps \cup {0, Torn}
  /\ disk \in [Steps -> [actor : FileState, weights : Nat \X Nat,
                         data : FileState, pos : Nat]]
  /\ saved_paths \in Seq(Steps)
  /\ save \in {"none", "rotate", "mkdir", "actor", "dataOpen", "data",
               "truncate", "track"}
=============================================================================
