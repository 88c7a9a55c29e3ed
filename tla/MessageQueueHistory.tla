------------------------ MODULE MessageQueueHistory ------------------------
(***************************************************************************)
(* The message queue on its own, with the callers the training job has:    *)
(* any number of put_sample calls, one consumer, the clear_queue of the    *)
(* task runner's finally block, and the shutdown method.  History          *)
(* variables record what was ever put and where the queue stands in it.    *)
(***************************************************************************)
EXTENDS MessageQueue

VARIABLES history,   \* every sample ever put, in order
          gone,      \* how many of them have left the queue
          received,  \* what get_sample has returned, in order
          cleared    \* how many clear_queue has thrown away

historyVars == <<mqVars, history, gone, received, cleared>>

HistoryInit == MQInit /\ history = <<>> /\ gone = 0 /\ received = <<>> /\ cleared = 0

Put(m) ==
  /\ put_sample(m)
  /\ history' = Append(history, m)
  /\ gone' = IF Full THEN gone + 1 ELSE gone
  /\ UNCHANGED <<received, cleared>>

Get ==
  /\ get_sample
  /\ gone' = gone + 1
  /\ received' = Append(received, Head(queue))
  /\ UNCHANGED <<history, cleared>>

Clear ==
  /\ clear_queue
  /\ gone' = Len(history)
  /\ cleared' = cleared + Len(queue)
  /\ UNCHANGED <<history, received>>

OtherMethods ==
  /\ \/ get_sample_closed
     \/ shutdown
     \/ \E v \in {mq_version + 1} : update_param_version(v) \/ put_validate(v)
     \/ get_validate
  /\ UNCHANGED <<history, gone, received, cleared>>

HistoryNext == (\E m \in Messages : Put(m)) \/ Get \/ Clear \/ OtherMethods

HistorySpec == HistoryInit /\ [][HistoryNext]_historyVars

HistoryTypeOK ==
  /\ MQTypeOK
  /\ history \in Seq(Messages)
  /\ gone \in Nat
  /\ received \in Seq(Messages)
  /\ cleared \in Nat

(* message_queue.py put_sample / get_sample: whatever was dropped, cleared  *)
(* or consumed, the queue holds exactly the most recent samples put, in     *)
(* the order they were put.                                                 *)
QueueIsRecentPast ==
  /\ total_produced = Len(history)
  /\ Len(history) = gone + Len(queue)
  /\ \A i \in 1 .. Len(queue) : queue[i] = history[gone + i]

(* message_queue.py statistics: every sample that left the queue was        *)
(* consumed, counted as dropped, or thrown away by clear_queue; none is     *)
(* counted twice and none leaves uncounted.                                 *)
DroppedAreCounted ==
  /\ Len(received) = total_consumed
  /\ gone = total_consumed + dropped_samples + cleared

Log == INSTANCE LossyLog WITH Entries <- Messages, Window <- MaxQueueSize,
                              log <- history, pos <- gone

(* The queue implements the lossy log: the consumer sees each sample at     *)
(* most once, in the order of put_sample, and misses only what overflow or  *)
(* clear_queue discarded.                                                   *)
ImplementsLossyLog == Log!LogSpec
=============================================================================
