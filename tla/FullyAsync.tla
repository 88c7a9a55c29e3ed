----------------------------- MODULE FullyAsync -----------------------------
(***************************************************************************)
(* The fully asynchronous training job: the rollouter, the message queue,  *)
(* the trainer (fully_async_trainer.py, fit) and the synchronizer          *)
(* (param_sync.py) that carries the trainer's weights to the rollouter.    *)
(*                                                                         *)
(* The trainer is one sequential process: its calls to the message queue   *)
(* and to the synchronizer are blocking.  sync_weights returns once        *)
(* update_param_version and resume have been submitted, so the trainer     *)
(* goes on while the rollouter executes them; wait_last_valid waits for    *)
(* both.                                                                   *)
(***************************************************************************)
EXTENDS Rollouter

CONSTANT TestFreq   \* rollout.test_freq

ASSUME TestFreqAssumption == TestFreq \in Nat \ {0}

VARIABLES
  tr,                  \* label of the trainer
  batch,               \* queue_samples, the samples collected so far
  tr_version,          \* current_param_version of the trainer
  local_trigger_step,
  weights,             \* version of the weights the rollout servers hold
  final,               \* the sync after the termination signal is under way
  trained,             \* history: ids of the samples trained on, in order
  logged               \* history: versions of the validation records logged

trVars == <<tr, batch, tr_version, local_trigger_step, weights, final, trained,
            logged>>
vars == <<msgVars, rollVars, trVars>>

\* The initial synchronization has put one validation record.
Init ==
  /\ RollInit
  /\ queue = <<>> /\ val_queue = <<0>> /\ mq_version = 0 /\ mq_running = TRUE
  /\ total_produced = 0 /\ total_consumed = 0 /\ dropped_samples = 0
  /\ tr = "log" /\ batch = <<>> /\ tr_version = 0 /\ local_trigger_step = 1
  /\ weights = 0 /\ final = FALSE /\ trained = <<>> /\ logged = <<>>

------------------------------------------------------------------------------
(* _get_samples_from_queue                                                   *)

Collect ==
  /\ tr = "collect"
  /\ get_sample
  /\ IF Head(queue) = None
       THEN tr' = "finalWait" /\ batch' = <<>>
       ELSE /\ batch' = Append(batch, Head(queue))
            /\ tr' = IF Len(batch') = Required THEN "train" ELSE "collect"
  /\ UNCHANGED <<rollVars, tr_version, local_trigger_step, weights, final, trained,
                 logged>>

\* One PPO update; _trigger_parameter_sync_after_step up to the waiting.
Train ==
  /\ tr = "train"
  /\ trained' = trained \o [i \in 1 .. Len(batch) |-> batch[i].id]
  /\ batch' = <<>>
  /\ IF local_trigger_step < Trigger
       THEN /\ local_trigger_step' = local_trigger_step + 1
            /\ tr' = "log"
            /\ UNCHANGED tr_version
       ELSE /\ local_trigger_step' = 1
            /\ tr_version' = tr_version + 1
            /\ tr' = "wait"
  /\ UNCHANGED <<msgVars, rollVars, weights, final, logged>>

------------------------------------------------------------------------------
(* ParameterSynchronizer.wait_last_valid and sync_weights                    *)

\* The last update and resume are over: pause the rollouter.
SyncStart ==
  /\ tr = "wait" /\ rpc = "none"
  /\ tr' = "sync" /\ rpc' = "pause"
  /\ UNCHANGED <<msgVars, coreVars, proc, why, bound, mon, main, cnt, lock, cpu,
                 ctlVars, batch, tr_version, local_trigger_step, weights, final,
                 trained, logged>>

\* The rollouter is paused: the queue learns the version, then the weights
\* are transferred.
SyncVersion ==
  /\ tr = "sync" /\ rpc = "paused"
  /\ update_param_version(tr_version)
  /\ rpc' = "sync"
  /\ UNCHANGED <<coreVars, proc, why, bound, mon, main, cnt, lock, cpu, ctlVars,
                 trVars>>

\* The transfer is over; update_param_version and resume are submitted.
SyncWeights ==
  /\ tr = "sync" /\ rpc = "sync"
  /\ weights' = tr_version
  /\ rpc' = "update"
  /\ tr' = IF final THEN "lastWait" ELSE "log"
  /\ UNCHANGED <<msgVars, coreVars, proc, why, bound, mon, main, cnt, lock, cpu,
                 ctlVars, batch, tr_version, local_trigger_step, final, trained,
                 logged>>

\* Mutant: the handler reads the trainer's version when it runs.
RollUpdateLate == UpdateLocked(tr_version) /\ UNCHANGED trVars

\* The call was submitted with the version just transferred; by the time it
\* runs the trainer may have moved on.
RollUpdate == UpdateLocked(weights) /\ UNCHANGED trVars

------------------------------------------------------------------------------
(* _log_validation_data and the end of fit                                   *)

Log(next) ==
  /\ get_validate
  /\ logged' = IF val_queue = <<>> THEN logged ELSE Append(logged, Head(val_queue))
  /\ tr' = next
  /\ UNCHANGED <<rollVars, batch, weights, trained>>

LogStep ==
  /\ tr = "log" /\ Log("collect")
  /\ UNCHANGED <<tr_version, local_trigger_step, final>>

\* Mutant: the last validation is not waited for.
FinalLogNoWait ==
  /\ tr = "finalWait"
  /\ IF tr_version % TestFreq # 0 \/ local_trigger_step > 1
       THEN /\ Log("wait")
            /\ tr_version' = tr_version + 1
            /\ local_trigger_step' = 1
            /\ final' = TRUE
       ELSE /\ Log("end")
            /\ UNCHANGED <<tr_version, local_trigger_step, final>>

\* After the termination signal: log what is left, and synchronize once more
\* when the trainer has weights that were never validated.
FinalLog ==
  /\ tr = "finalWait" /\ rpc = "none"
  /\ IF tr_version % TestFreq # 0 \/ local_trigger_step > 1
       THEN /\ Log("wait")
            /\ tr_version' = tr_version + 1
            /\ local_trigger_step' = 1
            /\ final' = TRUE
       ELSE /\ Log("end")
            /\ UNCHANGED <<tr_version, local_trigger_step, final>>

LastLog ==
  /\ tr = "lastWait" /\ rpc = "none"
  /\ Log("end")
  /\ UNCHANGED <<tr_version, local_trigger_step, final>>

TrainerNext == \/ Collect \/ Train \/ SyncStart \/ SyncVersion \/ SyncWeights
               \/ LogStep \/ FinalLog \/ LastLog

\* Both fits have returned and the last calls are over: the job has ended.
Ended == tr = "end" /\ main = "end" /\ mon = "end" /\ Active = Finished
JobEnd == Ended /\ UNCHANGED vars

Next == \/ (RollNext /\ UNCHANGED trVars) \/ RollUpdate \/ TrainerNext \/ JobEnd

Spec == Init /\ [][Next]_vars

\* What the synchronizer's calls do in the rollouter.
RpcNext == \/ PauseCall \/ PauseLocked \/ PauseCancel \/ PauseGather \/ PauseDone
           \/ UpdateCall \/ UpdateSize \/ UpdateReply \/ UpdatePutVal
           \/ ResumeCall \/ ResumeServers \/ ResumeDone

\* Every generation ends, one way or another.
TaskSteps(s) == Generated(s) \/ PutSample(s) \/ CutShort(s) \/ Interrupted(s)

\* asyncio runs ready callbacks first come first served, so a coroutine that
\* can run again and again does run: strong fairness.  The trainer is a
\* process of its own: weak fairness.
Fairness ==
  /\ SF_vars(Feed /\ UNCHANGED trVars)
  /\ SF_vars(ProcNext /\ UNCHANGED trVars)
  /\ SF_vars(MonNext /\ UNCHANGED trVars)
  /\ SF_vars(MainNext /\ UNCHANGED trVars)
  /\ SF_vars((RpcNext \/ UpdateLocked(weights)) /\ UNCHANGED trVars)
  /\ \A s \in Samples : SF_vars(TaskSteps(s) /\ UNCHANGED trVars)
  /\ WF_vars(TrainerNext)

FairSpec == Spec /\ Fairness

------------------------------------------------------------------------------
(* Properties                                                                *)

Ids(seq) == [i \in 1 .. Len(seq) |-> seq[i].id]
Times(s, seq) == Cardinality({i \in 1 .. Len(seq) : seq[i] = s})

\* In how many places of the system sample s is.
Places(s) ==
    (IF s > taken THEN 1 ELSE 0)
  + (IF s = hand THEN 1 ELSE 0)
  + (IF task[s] \in {"gen", "cut", "put"} THEN 1 ELSE 0)
  + Times(s, cancel_queue) + Times(s, Ids(queue)) + Times(s, Ids(batch))
  + Times(s, trained)

(* Every variable of the job keeps its type, and the deque its bound.        *)
TypeOK ==
  /\ RollTypeOK
  /\ MQTypeOK
  /\ tr \in {"log", "collect", "train", "wait", "sync", "finalWait", "lastWait",
             "end"}
  /\ batch \in Seq([id : Samples, ver : Nat]) /\ Len(batch) <= Required
  /\ tr_version \in Nat /\ weights \in Nat
  /\ local_trigger_step \in 1 .. Trigger
  /\ final \in BOOLEAN
  /\ trained \in Seq(Samples) /\ logged \in Seq(Nat)

(* Whatever is paused, interrupted and resumed, no sample is ever in two     *)
(* places (so none is trained on twice), and a sample is nowhere only when   *)
(* its generation failed, the full queue dropped it, or the trainer gave up  *)
(* an incomplete batch at the end.                                           *)
SampleConservation ==
  LET lost == Cardinality({s \in Samples : Places(s) = 0})
  IN /\ \A s \in Samples : Places(s) <= 1
     /\ lost <= fails + dropped_samples
               + (IF tr \in {"log", "collect", "train"} THEN 0 ELSE Required - 1)

(* set_max_required_samples / _should_pause_generation: with                 *)
(* staleness_threshold 0 the training is on-policy, however the feeder, the  *)
(* monitor and the synchronizer interleave: every sample of a batch was      *)
(* generated with the weights the trainer has when it trains on it.          *)
FreshEnough ==
  tr = "train" /\ StaleNum = 0 => \A i \in 1 .. Len(batch) : batch[i].ver = tr_version

(* README.md 131: staleness_threshold is "the maximum proportion of stale    *)
(* samples allowed to be used"; stale as fully_async_trainer.py 509 counts   *)
(* it.  Stated for one batch per synchronization, where a batch is a round.  *)
StaleShare ==
  tr = "train" /\ Trigger = 1 =>
    StaleDen * Cardinality({i \in 1 .. Len(batch) : tr_version - batch[i].ver >= 1})
      <= StaleNum * Required

InFlight == Cardinality({s \in Samples :
              \/ s = hand
              \/ task[s] \in {"gen", "cut", "put"}
              \/ Times(s, cancel_queue) + Times(s, Ids(queue)) > 0})

(* staleness_samples: the samples taken and not yet consumed exceed          *)
(* max_required_samples by at most the one in the processor's hand, which    *)
(* update_param_version does not count; never with staleness_threshold 0.    *)
InFlightBound == InFlight <= MaxRequired + (IF StaleNum = 0 THEN 0 ELSE 1)

(* param_sync.py sync_weights: the four copies of the version number follow  *)
(* each other in the order trainer, queue, weights, rollouter, never more    *)
(* than one apart (two while the trainer waits for the last update), and     *)
(* agree when no synchronization is under way: a sample                      *)
(* is never stamped with a version newer than the weights that made it.      *)
VersionsInStep ==
  /\ version <= weights /\ weights <= mq_version /\ mq_version <= tr_version
  /\ tr_version <= version + (IF tr = "wait" THEN 2 ELSE 1)
  /\ tr_version <= weights + 1
  /\ (rpc = "none" /\ tr # "wait") => version = tr_version

(* pause / sync_weights: no sample is being generated while the weights of   *)
(* the rollout servers are replaced.                                         *)
QuietSync == rpc = "sync" => \A s \in Samples : task[s] # "gen"

(* update_param_version / _log_validation_data: validation records are       *)
(* logged in version order, without gaps, and all of them by the end.        *)
ValidationLogged ==
  /\ \A i \in 1 .. Len(logged) : logged[i] = i - 1
  /\ tr = "end" => val_queue = <<>> /\ Len(logged) = tr_version + 1

(* _streaming_generation_main: the finish signal the trainer is waiting for  *)
(* is never pushed out of the queue by samples that arrive after it.         *)
MarkerSurvives ==
  (main # "wait" /\ tr \in {"log", "collect", "train", "wait", "sync"} /\ ~ final)
    => \E i \in 1 .. Len(queue) : queue[i] = None

(* With staleness_threshold 0 nothing is lost: by the end of a job without   *)
(* failures every sample of a complete batch has been trained on.            *)
AllTrained == Ended /\ fails = 0 => Len(trained) = Total - (Total % Required)

(* fit of both actors: the job always ends, and the monitor with it.         *)
Termination == <>Ended
=============================================================================
