---------------------------- MODULE MessageQueue ----------------------------
(***************************************************************************)
(* The Ray actor that carries samples from the rollouter to the trainer    *)
(* (verl/experimental/fully_async_policy/message_queue.py).                *)
(*                                                                         *)
(* Every method of the actor runs under one asyncio lock, so a method is   *)
(* one action.  The only await inside a method is get_sample's wait on     *)
(* _consumer_condition; a consumer that waits there is a consumer whose    *)
(* get_sample is not enabled.                                              *)
(***************************************************************************)
EXTENDS Naturals, Sequences

CONSTANTS Messages,      \* what put_sample may be given (the None marker too)
          MaxQueueSize   \* max_queue_size, the maxlen of the deque

ASSUME MaxQueueSizeAssumption == MaxQueueSize \in Nat \ {0}

VARIABLES queue,                  \* self.queue, oldest sample first
          val_queue,              \* self.val_queue (unbounded)
          mq_version,             \* self.current_param_version
          mq_running,             \* self.running
          total_produced, total_consumed, dropped_samples

mqVars == <<queue, val_queue, mq_version, mq_running,
            total_produced, total_consumed, dropped_samples>>

MQInit ==
  /\ queue = <<>>
  /\ val_queue = <<>>
  /\ mq_version = 0
  /\ mq_running = TRUE
  /\ total_produced = 0
  /\ total_consumed = 0
  /\ dropped_samples = 0

Full == Len(queue) >= MaxQueueSize

\* Mutant: the deque's maxlen drops the oldest sample and nobody counts it.
put_sample_uncounted(m) ==
  /\ queue' = Append(IF Full THEN Tail(queue) ELSE queue, m)
  /\ total_produced' = total_produced + 1
  /\ UNCHANGED <<val_queue, mq_version, mq_running, total_consumed,
                 dropped_samples>>

\* Mutant: room is made at the wrong end of the deque (pop for popleft).
put_sample_newest(m) ==
  /\ queue' = Append(IF Full THEN SubSeq(queue, 1, Len(queue) - 1) ELSE queue, m)
  /\ dropped_samples' = IF Full THEN dropped_samples + 1 ELSE dropped_samples
  /\ total_produced' = total_produced + 1
  /\ UNCHANGED <<val_queue, mq_version, mq_running, total_consumed>>

\* A full queue makes room by dropping its oldest sample, never the new one.
put_sample(m) ==
  /\ queue' = Append(IF Full THEN Tail(queue) ELSE queue, m)
  /\ dropped_samples' = IF Full THEN dropped_samples + 1 ELSE dropped_samples
  /\ total_produced' = total_produced + 1
  /\ UNCHANGED <<val_queue, mq_version, mq_running, total_consumed>>

\* The sample returned is Head(queue).
get_sample ==
  /\ queue # <<>>
  /\ queue' = Tail(queue)
  /\ total_consumed' = total_consumed + 1
  /\ UNCHANGED <<val_queue, mq_version, mq_running,
                 total_produced, dropped_samples>>

\* A closed and empty queue answers None and changes nothing.
get_sample_closed ==
  /\ queue = <<>>
  /\ ~ mq_running
  /\ UNCHANGED mqVars

update_param_version(v) ==
  /\ mq_version' = v
  /\ UNCHANGED <<queue, val_queue, mq_running,
                 total_produced, total_consumed, dropped_samples>>

clear_queue ==
  /\ queue' = <<>>
  /\ UNCHANGED <<val_queue, mq_version, mq_running,
                 total_produced, total_consumed, dropped_samples>>

shutdown ==
  /\ mq_running' = FALSE
  /\ UNCHANGED <<queue, val_queue, mq_version,
                 total_produced, total_consumed, dropped_samples>>

put_validate(d) ==
  /\ val_queue' = Append(val_queue, d)
  /\ UNCHANGED <<queue, mq_version, mq_running,
                 total_produced, total_consumed, dropped_samples>>

\* An empty val_queue answers None: the caller goes on without data.
get_validate ==
  /\ val_queue' = IF val_queue = <<>> THEN val_queue ELSE Tail(val_queue)
  /\ UNCHANGED <<queue, mq_version, mq_running,
                 total_produced, total_consumed, dropped_samples>>

MQTypeOK ==
  /\ queue \in Seq(Messages)
  /\ Len(queue) <= MaxQueueSize
  /\ val_queue \in Seq(Nat)
  /\ mq_version \in Nat
  /\ mq_running \in BOOLEAN
  /\ total_produced \in Nat
  /\ total_consumed \in Nat
  /\ dropped_samples \in Nat
=============================================================================
