------------------------------ MODULE Rollouter ------------------------------
(***************************************************************************)
(* FullyAsyncRollouter (fully_async_rollouter.py): the Ray actor that      *)
(* streams samples through the rollout servers into the message queue.     *)
(*                                                                         *)
(* One asyncio loop runs these coroutines: the feeder, the processor, one  *)
(* task per sample being generated, the monitor, the main coroutine that   *)
(* waits for the processor, and the handlers of the synchronizer's calls   *)
(* pause / update_param_version / resume (never two at a time).  A         *)
(* coroutine gives the loop up only at an await that blocks, so cpu names  *)
(* the coroutine that is between two such awaits; the message queue, the   *)
(* rollout servers and the trainer are other processes and may act at any  *)
(* time.  lock is the FIFO asyncio.Lock: its head holds it.                *)
(***************************************************************************)
EXTENDS Integers, Sequences, FiniteSets

CONSTANTS
  Total,        \* total_rollout_steps: samples to generate
  Required,     \* required_samples = ppo_mini_batch_size * require_batches
  Trigger,      \* trigger_parameter_sync_step
  StaleNum, StaleDen,  \* staleness_threshold = StaleNum / StaleDen
  ServerSlots,  \* len(server_handles) * 16
  PendingMax,   \* maxsize of pending_queue (128 in the code)
  Partial,      \* async_training.partial_rollout
  MaxFail       \* bound: how many generations may raise an exception

ASSUME ConstantsAssumption ==
  /\ {Total, Required, Trigger, StaleDen, ServerSlots, PendingMax} \subseteq Nat \ {0}
  /\ {StaleNum, MaxFail} \subseteq Nat
  /\ Partial \in BOOLEAN

Samples == 1 .. Total
DONE == Total + 1            \* the feeder's end signal
None == [id |-> 0, ver |-> 0]  \* the finish signal put after the last sample
Msg == [id : Samples, ver : Nat] \cup {None}

\* set_max_required_samples
MaxRequired == (Required * (StaleNum + StaleDen) * Trigger) \div StaleDen
MaxConcurrent == IF ServerSlots < MaxRequired THEN ServerSlots ELSE MaxRequired

VARIABLES queue, val_queue, mq_version, mq_running,
          total_produced, total_consumed, dropped_samples

INSTANCE MessageQueue WITH Messages <- Msg, MaxQueueSize <- MaxRequired

msgVars == <<queue, val_queue, mq_version, mq_running,
             total_produced, total_consumed, dropped_samples>>

VARIABLES
  fed, taken,          \* samples put into / taken from pending_queue
  cancel_queue,        \* interrupted samples waiting to be resumed
  task,                \* task[s]: where sample s's task stands; active_tasks
  stamp,               \* rollout_sample.param_version, set when generated
  hand,                \* the processor's local rollout_sample (0: none)
  proc, why, bound,    \* processor: label, which drain loop, done_tasks bound?
  mon, main,           \* labels of the monitor and the main coroutine
  rpc, cnt,            \* synchronizer call in progress; its partial count
  lock, cpu,
  paused, running, monitor_trigger,
  staleness_samples,
  version,             \* current_param_version of the rollouter
  server_paused,       \* vLLMHttpServerForPartial.paused
  fails

coreVars == <<fed, taken, cancel_queue, task, stamp, hand, fails>>
ctlVars == <<paused, running, monitor_trigger, staleness_samples, version,
             server_paused>>
rollVars == <<coreVars, proc, why, bound, mon, main, rpc, cnt, lock, cpu, ctlVars>>

Active == {s \in Samples : task[s] # "none"}
Finished == {s \in Samples : task[s] \in {"done", "err"}}

\* The state in which fit() starts: the initial synchronization (version 0,
\* one validation record) is over.
RollInit ==
  /\ fed = 0 /\ taken = 0 /\ cancel_queue = <<>> /\ hand = 0 /\ fails = 0
  /\ task = [s \in Samples |-> "none"]
  /\ stamp = [s \in Samples |-> 0]
  /\ proc = "top" /\ why = "pause" /\ bound = FALSE
  /\ mon = "sleep" /\ main = "wait" /\ rpc = "none" /\ cnt = 0
  /\ lock = <<>> /\ cpu = "none"
  /\ paused = FALSE /\ running = TRUE /\ monitor_trigger = TRUE
  /\ staleness_samples = 0 /\ version = 0 /\ server_paused = FALSE

------------------------------------------------------------------------------
(* The event loop and its lock.                                              *)

MayRun(c) == cpu \in {"none", c}
Holds(c) == lock # <<>> /\ Head(lock) = c

\* await lock.acquire(): without contention the coroutine keeps the loop.
Request(c, l) ==
  /\ lock' = Append(l, c)
  /\ cpu' = IF l = <<>> THEN c ELSE "none"

Keep(c) == cpu' = c      \* goes on without giving up the loop
Yield == cpu' = "none"   \* blocks, sleeps or ends
Release == lock' = Tail(lock)

\* condition.notify_all(): only the processor ever waits on the condition.
Notify == proc' = CASE proc = "idle"    -> "idleWoken"
                    [] proc = "subWait" -> "subWoken"
                    [] OTHER            -> proc

\* Mutant: one sample too many before the pause (> for >=).
ShouldPauseLate == Len(queue) >= MaxRequired \/ staleness_samples > MaxRequired

\* Mutant: only the queue's size counts, the samples on their way do not.
ShouldPauseQueue == Len(queue) >= MaxRequired

\* _should_pause_generation: a blocking call, so it does not yield the loop.
ShouldPause == Len(queue) >= MaxRequired \/ staleness_samples >= MaxRequired

------------------------------------------------------------------------------
(* _feed_samples                                                             *)

Feed ==
  /\ cpu = "none"
  /\ fed < DONE /\ fed - taken < PendingMax
  /\ fed' = IF taken + PendingMax < DONE THEN taken + PendingMax ELSE DONE
  /\ UNCHANGED <<msgVars, taken, cancel_queue, task, stamp, hand, fails, proc, why,
                 bound, mon, main, rpc, cnt, lock, cpu, ctlVars>>

------------------------------------------------------------------------------
(* _processor_worker                                                         *)

procOther == <<msgVars, fed, stamp, fails, mon, main, rpc, cnt, running,
               monitor_trigger, version, server_paused>>

\* Line 439: pause, or go on to take a sample.
ProcTop ==
  /\ proc = "top" /\ MayRun("proc")
  /\ IF paused \/ ShouldPause
       THEN proc' = "setPaused" /\ Request("proc", lock)
       ELSE proc' = "take" /\ Keep("proc") /\ UNCHANGED lock
  /\ UNCHANGED <<procOther, taken, cancel_queue, task, hand, why, bound, paused,
                 staleness_samples>>

ProcSetPaused ==
  /\ proc = "setPaused" /\ MayRun("proc") /\ Holds("proc")
  /\ paused' = TRUE
  /\ Release
  /\ proc' = "drain" /\ why' = "pause" /\ Keep("proc")
  /\ UNCHANGED <<procOther, taken, cancel_queue, task, hand, bound,
                 staleness_samples>>

\* Interrupted samples first; they were counted when they were first taken.
ProcTakeCancelled ==
  /\ proc = "take" /\ MayRun("proc")
  /\ cancel_queue # <<>>
  /\ hand' = Head(cancel_queue)
  /\ cancel_queue' = Tail(cancel_queue)
  /\ proc' = "drain" /\ why' = "cap" /\ Keep("proc")
  /\ UNCHANGED <<procOther, taken, task, bound, lock, paused, staleness_samples>>

\* pending_queue.get() blocks while the queue is empty ("get"); by the time
\* it returns, the pause check above may be long out of date.
ProcTakePending ==
  /\ proc \in {"take", "get"} /\ MayRun("proc")
  /\ proc = "take" => cancel_queue = <<>>
  /\ IF fed > taken
       THEN /\ taken' = taken + 1
            /\ hand' = taken + 1
            /\ staleness_samples' = staleness_samples + 1
            /\ why' = IF hand' = DONE THEN "done" ELSE "cap"
            /\ proc' = "drain" /\ Keep("proc")
       ELSE /\ proc = "take"
            /\ proc' = "get" /\ Yield
            /\ UNCHANGED <<taken, hand, staleness_samples, why>>
  /\ UNCHANGED <<procOther, cancel_queue, task, bound, lock, paused>>

\* Mutant: the end signal does not wait for the tasks still running.
DrainMoreNoEnd == /\ why # "done"
                  /\ IF why = "cap" THEN Cardinality(Active) >= MaxConcurrent
                                     ELSE Active # {}

\* The three loops that wait for tasks (lines 445, 473 and 484).
DrainMore == IF why = "cap" THEN Cardinality(Active) >= MaxConcurrent
                            ELSE Active # {}

ProcDrain ==
  /\ proc = "drain" /\ MayRun("proc")
  /\ IF DrainMore
       THEN proc' = "drainLock" /\ Request("proc", lock)
       ELSE \/ why = "pause" /\ proc' = "idleLock" /\ Request("proc", lock)
            \/ why = "cap" /\ proc' = "submitLock" /\ Request("proc", lock)
            \/ why = "done" /\ proc' = "end" /\ Yield /\ UNCHANGED lock
  /\ UNCHANGED <<procOther, taken, cancel_queue, task, hand, why, bound, paused,
                 staleness_samples>>

\* With the lock: wait for the first task to finish, unless pause() has
\* emptied active_tasks meanwhile.  Then done_tasks is what an earlier round
\* left there, and reading it raises UnboundLocalError if there was none.
ProcDrainLocked ==
  /\ proc = "drainLock" /\ MayRun("proc") /\ Holds("proc")
  /\ \/ /\ Active # {}
        /\ proc' = "wait" /\ Yield
        /\ UNCHANGED lock
     \/ /\ Active = {} /\ bound
        /\ proc' = "drain" /\ Keep("proc") /\ Release
     \/ /\ Active = {} /\ ~ bound
        /\ proc' = "crashed" /\ Yield /\ Release
  /\ UNCHANGED <<procOther, taken, cancel_queue, task, hand, why, bound, paused,
                 staleness_samples>>

\* asyncio.wait(FIRST_COMPLETED) under the lock; awaiting a failed task
\* raises its exception out of the processor.
ProcCollect ==
  /\ proc = "wait" /\ MayRun("proc")
  /\ Finished # {}
  /\ task' = [s \in Samples |-> IF s \in Finished THEN "none" ELSE task[s]]
  /\ bound' = TRUE
  /\ IF \E s \in Samples : task[s] = "err"
       THEN proc' = "crashed" /\ Yield
       ELSE proc' = "drain" /\ Keep("proc")
  /\ Release
  /\ UNCHANGED <<procOther, taken, cancel_queue, hand, why, paused,
                 staleness_samples>>

\* Lines 455-459: with the lock, wait on the condition while paused.
ProcIdle ==
  /\ proc = "idleLock" /\ MayRun("proc") /\ Holds("proc")
  /\ Release
  /\ IF paused THEN proc' = "idle" /\ Yield ELSE proc' = "top" /\ Keep("proc")
  /\ UNCHANGED <<procOther, taken, cancel_queue, task, hand, why, bound, paused,
                 staleness_samples>>

\* Lines 494-503: submit the sample in hand unless paused.
ProcSubmit ==
  /\ proc = "submitLock" /\ MayRun("proc") /\ Holds("proc")
  /\ Release
  /\ IF paused
       THEN proc' = "subWait" /\ Yield /\ UNCHANGED <<task, hand>>
       ELSE /\ task' = [task EXCEPT ![hand] = "gen"]
            /\ hand' = 0
            /\ proc' = "top" /\ Keep("proc")
  /\ UNCHANGED <<procOther, taken, cancel_queue, why, bound, paused,
                 staleness_samples>>

\* A notified waiter queues for the lock again.
ProcWoken ==
  /\ MayRun("proc")
  /\ \/ proc = "idleWoken" /\ proc' = "idleLock"
     \/ proc = "subWoken" /\ proc' = "submitLock"
  /\ Request("proc", lock)
  /\ UNCHANGED <<procOther, taken, cancel_queue, task, hand, why, bound, paused,
                 staleness_samples>>

ProcNext == \/ ProcTop \/ ProcSetPaused \/ ProcTakeCancelled \/ ProcTakePending
            \/ ProcDrain \/ ProcDrainLocked \/ ProcCollect \/ ProcIdle
            \/ ProcSubmit \/ ProcWoken

------------------------------------------------------------------------------
(* _process_single_sample_streaming, one task per sample                     *)

taskOther == <<fed, taken, hand, proc, why, bound, mon, main, rpc, cnt, lock, cpu,
               ctlVars>>

\* The servers return the whole sample: stamp it and send it off.
Generated(s) ==
  /\ cpu = "none" /\ task[s] = "gen"
  /\ task' = [task EXCEPT ![s] = "put"]
  /\ stamp' = [stamp EXCEPT ![s] = version]
  /\ UNCHANGED <<msgVars, cancel_queue, fails, taskOther>>

\* The message queue takes the sample; its answer ends the task.
PutSample(s) ==
  /\ task[s] = "put"
  /\ put_sample([id |-> s, ver |-> stamp[s]])
  /\ task' = [task EXCEPT ![s] = "done"]
  /\ stamp' = [stamp EXCEPT ![s] = 0]
  /\ UNCHANGED <<cancel_queue, fails, taskOther>>

\* Paused servers refuse a request and interrupt the ones they work on.
CutShort(s) ==
  /\ server_paused /\ task[s] = "gen"
  /\ task' = [task EXCEPT ![s] = "cut"]
  /\ UNCHANGED <<msgVars, stamp, cancel_queue, fails, taskOther>>

\* Mutant: the partial result is kept but the sample is not queued again.
InterruptedLost(s) ==
  /\ cpu = "none" /\ task[s] = "cut"
  /\ task' = [task EXCEPT ![s] = "done"]
  /\ UNCHANGED <<msgVars, cancel_queue, stamp, fails, taskOther>>

\* The sample goes, with what it has so far, to the cancel queue.
Interrupted(s) ==
  /\ cpu = "none" /\ task[s] = "cut"
  /\ task' = [task EXCEPT ![s] = "done"]
  /\ cancel_queue' = Append(cancel_queue, s)
  /\ UNCHANGED <<msgVars, stamp, fails, taskOther>>

Fails(s) ==
  /\ cpu = "none" /\ task[s] = "gen" /\ fails < MaxFail
  /\ task' = [task EXCEPT ![s] = "err"]
  /\ fails' = fails + 1
  /\ UNCHANGED <<msgVars, stamp, cancel_queue, taskOther>>

TaskNext == \E s \in Samples : \/ Generated(s) \/ PutSample(s) \/ CutShort(s)
                               \/ Interrupted(s) \/ Fails(s)

------------------------------------------------------------------------------
(* _async_monitor_loop                                                       *)

monOther == <<msgVars, coreVars, why, bound, main, rpc, cnt, running,
              monitor_trigger, staleness_samples, version, server_paused>>

\* The 10 s sleep ends; the trigger is read before the lock is asked for.
MonWake ==
  /\ mon = "sleep" /\ MayRun("mon")
  /\ mon' = IF monitor_trigger /\ ~ ShouldPause THEN "setLock" ELSE "loopLock"
  /\ Request("mon", lock)
  /\ UNCHANGED <<monOther, proc, paused>>

MonSet ==
  /\ mon = "setLock" /\ MayRun("mon") /\ Holds("mon")
  /\ paused' = FALSE
  /\ Notify
  /\ mon' = "loopLock"
  /\ Request("mon", Tail(lock))
  /\ UNCHANGED monOther

MonLoop ==
  /\ mon = "loopLock" /\ MayRun("mon") /\ Holds("mon")
  /\ mon' = IF running THEN "sleep" ELSE "end"
  /\ Release /\ Yield
  /\ UNCHANGED <<monOther, proc, paused>>

MonNext == MonWake \/ MonSet \/ MonLoop

------------------------------------------------------------------------------
(* _streaming_generation_main                                                *)

mainOther == <<coreVars, proc, why, bound, mon, rpc, cnt, paused, monitor_trigger,
               staleness_samples, version, server_paused>>

\* However the processor ended, the trainer is told that no more will come.
MainPut ==
  /\ main = "wait" /\ cpu = "none"
  /\ proc \in {"end", "crashed"}
  /\ put_sample(None)
  /\ main' = "put"
  /\ UNCHANGED <<mainOther, running, lock, cpu>>

\* Mutant: running is never reset.
MainStopRunning ==
  /\ MayRun("main")
  /\ \/ main = "put" /\ main' = "putLock" /\ Request("main", lock)
     \/ main = "putLock" /\ Holds("main") /\ main' = "end" /\ Release /\ Yield
  /\ UNCHANGED <<mainOther, msgVars, running>>

\* running = False under the lock ends the monitor.
MainStop ==
  /\ MayRun("main")
  /\ \/ /\ main = "put"
        /\ main' = "putLock" /\ Request("main", lock)
        /\ UNCHANGED running
     \/ /\ main = "putLock" /\ Holds("main")
        /\ running' = FALSE
        /\ main' = "end" /\ Release /\ Yield
  /\ UNCHANGED <<mainOther, msgVars>>

MainNext == MainPut \/ MainStop

------------------------------------------------------------------------------
(* pause                                                                     *)

rpcOther == <<fed, taken, cancel_queue, stamp, hand, fails, why, bound, mon, main,
              running>>

PauseCall ==
  /\ rpc = "pause" /\ MayRun("rpc")
  /\ rpc' = "pauseLock" /\ Request("rpc", lock)
  /\ UNCHANGED <<rpcOther, msgVars, task, proc, cnt, paused, monitor_trigger,
                 staleness_samples, version, server_paused>>

PauseLocked ==
  /\ rpc = "pauseLock" /\ MayRun("rpc") /\ Holds("rpc")
  /\ paused' = TRUE
  /\ rpc' = IF Partial THEN "cancel" ELSE "gather"
  /\ Yield
  /\ UNCHANGED <<rpcOther, msgVars, task, proc, cnt, lock, monitor_trigger,
                 staleness_samples, version, server_paused>>

\* async_rollout_manager.cancel() on every server
PauseCancel ==
  /\ rpc = "cancel"
  /\ server_paused' = TRUE
  /\ rpc' = "gather"
  /\ UNCHANGED <<rpcOther, msgVars, task, proc, cnt, lock, cpu, paused,
                 monitor_trigger, staleness_samples, version>>

\* gather(return_exceptions=True): failed tasks are forgotten, not raised.
PauseGather ==
  /\ rpc = "gather" /\ MayRun("rpc")
  /\ Active = Finished
  /\ task' = [s \in Samples |-> "none"]
  /\ rpc' = "kv" /\ Yield
  /\ UNCHANGED <<rpcOther, msgVars, proc, cnt, lock, paused, monitor_trigger,
                 staleness_samples, version, server_paused>>

\* clear_kv_cache has answered: pause() is over.
PauseDone ==
  /\ rpc = "kv" /\ MayRun("rpc")
  /\ monitor_trigger' = FALSE
  /\ rpc' = "paused"
  /\ Release /\ Yield
  /\ UNCHANGED <<rpcOther, msgVars, task, proc, cnt, paused, staleness_samples,
                 version, server_paused>>

(* update_param_version                                                      *)

UpdateCall ==
  /\ rpc = "update" /\ MayRun("rpc")
  /\ rpc' = "updateLock" /\ Request("rpc", lock)
  /\ UNCHANGED <<rpcOther, msgVars, task, proc, cnt, paused, monitor_trigger,
                 staleness_samples, version, server_paused>>

\* v is the call's argument.  active_tasks and cancel_queue are counted
\* before the queue's size is asked for.
UpdateLocked(v) ==
  /\ rpc = "updateLock" /\ MayRun("rpc") /\ Holds("rpc")
  /\ version' = v
  /\ cnt' = Cardinality(Active) + Len(cancel_queue)
  /\ rpc' = "size" /\ Yield
  /\ UNCHANGED <<rpcOther, msgVars, task, proc, lock, paused, monitor_trigger,
                 staleness_samples, server_paused>>

\* get_queue_size, answered by the message queue
UpdateSize ==
  /\ rpc = "size"
  /\ cnt' = cnt + Len(queue)
  /\ rpc' = "reply"
  /\ UNCHANGED <<rpcOther, msgVars, task, proc, lock, cpu, paused, monitor_trigger,
                 staleness_samples, version, server_paused>>

\* staleness_samples is overwritten; then _validate blocks the loop.
UpdateReply ==
  /\ rpc = "reply" /\ MayRun("rpc")
  /\ staleness_samples' = cnt
  /\ cnt' = 0
  /\ rpc' = "putVal" /\ Yield
  /\ UNCHANGED <<rpcOther, msgVars, task, proc, lock, paused, monitor_trigger,
                 version, server_paused>>

\* The validation record is in the queue; the call returns.
UpdatePutVal ==
  /\ rpc = "putVal" /\ cpu = "none"
  /\ put_validate(version)
  /\ rpc' = "resume"
  /\ Release
  /\ UNCHANGED <<rpcOther, task, proc, cnt, cpu, paused, monitor_trigger,
                 staleness_samples, version, server_paused>>

(* resume, which Ray starts when update_param_version has returned           *)

ResumeCall ==
  /\ rpc = "resume" /\ MayRun("rpc")
  /\ rpc' = "resumeLock" /\ Request("rpc", lock)
  /\ UNCHANGED <<rpcOther, msgVars, task, proc, cnt, paused, monitor_trigger,
                 staleness_samples, version, server_paused>>

\* With partial rollout the servers' resume is awaited under the lock.
ResumeServers ==
  /\ Partial
  /\ rpc = "resumeLock" /\ cpu \in {"none", "rpc"} /\ Holds("rpc")
  /\ server_paused' = FALSE
  /\ rpc' = "resumed" /\ Yield
  /\ UNCHANGED <<rpcOther, msgVars, task, proc, cnt, lock, paused, monitor_trigger,
                 staleness_samples, version>>

ResumeDone ==
  /\ rpc = (IF Partial THEN "resumed" ELSE "resumeLock")
  /\ MayRun("rpc") /\ Holds("rpc")
  /\ paused' = FALSE
  /\ monitor_trigger' = TRUE
  /\ Notify
  /\ rpc' = "none"
  /\ Release /\ Yield
  /\ UNCHANGED <<rpcOther, msgVars, task, cnt, staleness_samples, version,
                 server_paused>>

RollNext == \/ Feed \/ ProcNext \/ TaskNext \/ MonNext \/ MainNext
            \/ PauseCall \/ PauseLocked \/ PauseCancel \/ PauseGather \/ PauseDone
            \/ UpdateCall \/ UpdateSize \/ UpdateReply \/ UpdatePutVal
            \/ ResumeCall \/ ResumeServers \/ ResumeDone

RollTypeOK ==
  /\ fed \in 0 .. DONE /\ taken \in 0 .. DONE /\ hand \in 0 .. DONE
  /\ cancel_queue \in Seq(Samples)
  /\ task \in [Samples -> {"none", "gen", "cut", "put", "done", "err"}]
  /\ stamp \in [Samples -> Nat]
  /\ proc \in {"top", "setPaused", "take", "get", "drain", "drainLock", "wait",
               "idleLock", "idle", "idleWoken", "submitLock", "subWait",
               "subWoken", "end", "crashed"}
  /\ why \in {"pause", "done", "cap"} /\ bound \in BOOLEAN
  /\ mon \in {"sleep", "setLock", "loopLock", "end"}
  /\ main \in {"wait", "put", "putLock", "end"}
  /\ rpc \in {"none", "pause", "pauseLock", "cancel", "gather", "kv", "paused",
              "sync", "update", "updateLock", "size", "reply", "putVal",
              "resume", "resumeLock", "resumed"}
  /\ cnt \in Nat /\ fails \in 0 .. MaxFail
  /\ lock \in Seq({"proc", "mon", "main", "rpc"})
  /\ cpu \in {"none", "proc", "mon", "main", "rpc"}
  /\ {paused, running, monitor_trigger, server_paused} \subseteq BOOLEAN
  /\ staleness_samples \in Nat /\ version \in Nat
=============================================================================
