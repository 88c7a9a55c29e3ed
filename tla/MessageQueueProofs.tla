------------------------- MODULE MessageQueueProofs -------------------------
(***************************************************************************)
(* Proofs about the message queue, for every set of messages and every     *)
(* max_queue_size: the type invariant, the two safety invariants and the   *)
(* refinement of the lossy log.                                            *)
(***************************************************************************)
EXTENDS MessageQueueHistory, TLAPS

\* The inductive invariant: the three invariants together.
Inv == HistoryTypeOK /\ QueueIsRecentPast /\ DroppedAreCounted

(* What put_sample leaves in the deque: the old entries, shifted by one     *)
(* when the queue was full, then the new one; never more than maxlen.       *)
LEMMA PutShape ==
  ASSUME NEW m \in Messages, HistoryTypeOK, put_sample(m)
  PROVE  LET k == IF Full THEN 1 ELSE 0
         IN /\ queue' \in Seq(Messages)
            /\ Len(queue') = Len(queue) - k + 1
            /\ Len(queue') <= MaxQueueSize
            /\ queue'[Len(queue')] = m
            /\ \A i \in 1 .. Len(queue') - 1 : queue'[i] = queue[i + k]
<1>1. CASE Full
  <2>1. queue # <<>> /\ queue' = Append(Tail(queue), m)
    BY <1>1, MaxQueueSizeAssumption DEF Full, put_sample, HistoryTypeOK, MQTypeOK
  <2>2. Tail(queue) \in Seq(Messages) /\ Len(Tail(queue)) = Len(queue) - 1
    BY <2>1 DEF HistoryTypeOK, MQTypeOK
  <2>3. \A i \in 1 .. Len(queue) - 1 : Tail(queue)[i] = queue[i + 1]
    BY <2>1 DEF HistoryTypeOK, MQTypeOK
  <2>q. QED
    BY <1>1, <2>1, <2>2, <2>3, MaxQueueSizeAssumption DEF HistoryTypeOK, MQTypeOK
<1>2. CASE ~ Full
  BY <1>2, MaxQueueSizeAssumption DEF Full, put_sample, HistoryTypeOK, MQTypeOK
<1>q. QED BY <1>1, <1>2

(* The queue starts in a state that satisfies the inductive invariant.      *)
LEMMA InitInv == HistoryInit => Inv
BY MaxQueueSizeAssumption
   DEF HistoryInit, MQInit, Inv, HistoryTypeOK, MQTypeOK, QueueIsRecentPast, DroppedAreCounted

(* put_sample preserves the inductive invariant, full queue or not.         *)
LEMMA PutInv == ASSUME NEW m \in Messages, Inv, Put(m) PROVE Inv'
<1> DEFINE k == IF Full THEN 1 ELSE 0
<1>0. HistoryTypeOK /\ QueueIsRecentPast /\ DroppedAreCounted BY DEF Inv
<1>1. /\ queue' \in Seq(Messages)
      /\ Len(queue') = Len(queue) - k + 1
      /\ Len(queue') <= MaxQueueSize
      /\ queue'[Len(queue')] = m
      /\ \A i \in 1 .. Len(queue') - 1 : queue'[i] = queue[i + k]
  BY <1>0, PutShape DEF Put
<1>2. history' \in Seq(Messages) /\ Len(history') = Len(history) + 1
  BY <1>0 DEF Put, HistoryTypeOK
<1>3. /\ history'[Len(history) + 1] = m
      /\ \A i \in 1 .. Len(history) : history'[i] = history[i]
  BY <1>0 DEF Put, HistoryTypeOK
<1>4. gone' = gone + k /\ dropped_samples' = dropped_samples + k
      /\ gone' \in Nat /\ dropped_samples' \in Nat
  BY <1>0 DEF Put, put_sample, HistoryTypeOK, MQTypeOK
<1>5. HistoryTypeOK'
  BY <1>0, <1>1, <1>2, <1>4 DEF Put, put_sample, HistoryTypeOK, MQTypeOK
<1>6. QueueIsRecentPast'
  <2>1. total_produced' = Len(history') /\ Len(history') = gone' + Len(queue')
    <3>1. total_produced' = total_produced + 1 BY DEF Put, put_sample
    <3>2. Len(queue) \in Nat /\ Len(history) \in Nat /\ gone \in Nat /\ k \in {0, 1}
      BY <1>0 DEF HistoryTypeOK, MQTypeOK
    <3>3. total_produced = Len(history) /\ Len(history) = gone + Len(queue)
      BY <1>0 DEF QueueIsRecentPast
    <3> HIDE DEF k
    <3>q. QED BY <3>1, <3>2, <3>3, <1>1, <1>2, <1>4
  <2>2. ASSUME NEW i \in 1 .. Len(queue')
        PROVE  queue'[i] = history'[gone' + i]
    <3>1. CASE i = Len(queue')
      BY <3>1, <2>1, <1>1, <1>2, <1>3
    <3>2. CASE i # Len(queue')
      <4>1. i \in 1 .. Len(queue') - 1 /\ i + k \in 1 .. Len(queue')
        BY <3>2, <1>1, <1>0 DEF HistoryTypeOK, MQTypeOK
      <4>1a. i + k \in 1 .. Len(queue)
        BY <3>2, <1>1, <1>0 DEF HistoryTypeOK, MQTypeOK
      <4>2. queue'[i] = queue[i + k]
        BY <4>1, <1>1
      <4>3. queue[i + k] = history[gone + (i + k)]
        BY <4>1a, <1>0 DEF QueueIsRecentPast
      <4>4. gone + (i + k) \in 1 .. Len(history) /\ gone + (i + k) = gone' + i
        BY <4>1a, <1>0, <1>4 DEF QueueIsRecentPast, HistoryTypeOK, MQTypeOK
      <4>q. QED BY <4>2, <4>3, <4>4, <1>3
    <3>q. QED BY <3>1, <3>2
  <2>q. QED BY <2>1, <2>2 DEF QueueIsRecentPast
<1>7. DroppedAreCounted'
  BY <1>0, <1>4 DEF Put, put_sample, HistoryTypeOK, MQTypeOK, DroppedAreCounted
<1>q. QED BY <1>5, <1>6, <1>7 DEF Inv

(* get_sample preserves the inductive invariant.                            *)
LEMMA GetInv == ASSUME Inv, Get PROVE Inv'
<1>0. HistoryTypeOK /\ QueueIsRecentPast /\ DroppedAreCounted BY DEF Inv
<1>1. queue # <<>> /\ queue' = Tail(queue) BY DEF Get, get_sample
<1>2. queue' \in Seq(Messages) /\ Len(queue') = Len(queue) - 1
  BY <1>0, <1>1 DEF HistoryTypeOK, MQTypeOK
<1>3. \A i \in 1 .. Len(queue') : queue'[i] = queue[i + 1]
  BY <1>0, <1>1, <1>2 DEF HistoryTypeOK, MQTypeOK
<1>4. HistoryTypeOK'
  BY <1>0, <1>2, MaxQueueSizeAssumption
     DEF Get, get_sample, HistoryTypeOK, MQTypeOK
<1>5. QueueIsRecentPast'
  <2>1. total_produced' = Len(history') /\ Len(history') = gone' + Len(queue')
    BY <1>0, <1>2 DEF Get, get_sample, HistoryTypeOK, MQTypeOK, QueueIsRecentPast
  <2>2. ASSUME NEW i \in 1 .. Len(queue')
        PROVE  queue'[i] = history'[gone' + i]
    <3>1. i + 1 \in 1 .. Len(queue) /\ gone + (i + 1) = gone' + i
      BY <1>0, <1>2 DEF Get, HistoryTypeOK, MQTypeOK
    <3>2. queue[i + 1] = history[gone + (i + 1)]
      BY <3>1, <1>0 DEF QueueIsRecentPast
    <3>q. QED BY <3>1, <3>2, <1>3 DEF Get
  <2>q. QED BY <2>1, <2>2 DEF QueueIsRecentPast
<1>6. DroppedAreCounted'
  BY <1>0 DEF Get, get_sample, HistoryTypeOK, MQTypeOK, DroppedAreCounted
<1>q. QED BY <1>4, <1>5, <1>6 DEF Inv

(* clear_queue and the methods that leave the samples alone preserve it.    *)
LEMMA RestInv == ASSUME Inv, Clear \/ OtherMethods \/ UNCHANGED historyVars PROVE Inv'
<1>0. HistoryTypeOK /\ QueueIsRecentPast /\ DroppedAreCounted BY DEF Inv
<1>1. CASE Clear
  BY <1>0, <1>1, MaxQueueSizeAssumption
     DEF Clear, clear_queue, Inv, HistoryTypeOK, MQTypeOK, QueueIsRecentPast,
         DroppedAreCounted
<1>2. CASE OtherMethods
  <2>1. UNCHANGED <<queue, total_produced, total_consumed, dropped_samples,
                    history, gone, received, cleared>>
    BY <1>2 DEF OtherMethods, get_sample_closed, shutdown, update_param_version,
                put_validate, get_validate, mqVars
  <2>2. /\ val_queue' \in Seq(Nat)
        /\ mq_version' \in Nat
        /\ mq_running' \in BOOLEAN
    <3>0. val_queue \in Seq(Nat) /\ mq_version \in Nat /\ mq_running \in BOOLEAN
      BY <1>0 DEF HistoryTypeOK, MQTypeOK
    <3>1. CASE get_sample_closed
      BY <3>0, <3>1 DEF get_sample_closed, mqVars
    <3>2. CASE shutdown
      BY <3>0, <3>2 DEF shutdown
    <3>3. CASE \E v \in {mq_version + 1} : update_param_version(v) \/ put_validate(v)
      <4>1. CASE update_param_version(mq_version + 1)
        BY <3>0, <4>1 DEF update_param_version
      <4>2. CASE put_validate(mq_version + 1)
        BY <3>0, <4>2 DEF put_validate
      <4>q. QED BY <3>3, <4>1, <4>2
    <3>4. CASE get_validate
      BY <3>0, <3>4 DEF get_validate
    <3>q. QED BY <1>2, <3>1, <3>2, <3>3, <3>4 DEF OtherMethods
  <2>q. QED
    BY <1>0, <2>1, <2>2
       DEF Inv, HistoryTypeOK, MQTypeOK, QueueIsRecentPast, DroppedAreCounted
<1>3. CASE UNCHANGED historyVars
  BY <1>0, <1>3 DEF historyVars, mqVars, Inv, HistoryTypeOK, MQTypeOK, QueueIsRecentPast,
                    DroppedAreCounted
<1>q. QED BY <1>1, <1>2, <1>3

(* The three invariants together are inductive.                             *)
THEOREM InvHolds == HistorySpec => []Inv
<1>1. HistoryInit => Inv BY InitInv
<1>2. Inv /\ [HistoryNext]_historyVars => Inv'
  BY PutInv, GetInv, RestInv DEF HistoryNext
<1>q. QED BY <1>1, <1>2, PTL DEF HistorySpec

(* The deque never exceeds max_queue_size and every field keeps its type.   *)
THEOREM TypeCorrect == HistorySpec => []HistoryTypeOK
<1>1. Inv => HistoryTypeOK BY DEF Inv
<1>q. QED BY InvHolds, <1>1, PTL

(* The queue always holds exactly the most recent samples put, in order.    *)
THEOREM RecentPast == HistorySpec => []QueueIsRecentPast
<1>1. Inv => QueueIsRecentPast BY DEF Inv
<1>q. QED BY InvHolds, <1>1, PTL

(* The queue's statistics account for every sample that left it.            *)
THEOREM Accounted == HistorySpec => []DroppedAreCounted
<1>1. Inv => DroppedAreCounted BY DEF Inv
<1>q. QED BY InvHolds, <1>1, PTL

(* The bounded, dropping deque implements the lossy log: samples are        *)
(* received at most once and in the order of put_sample.                    *)
THEOREM Refinement == HistorySpec => ImplementsLossyLog
<1>1. HistoryInit => Log!LogInit
  BY DEF HistoryInit, Log!LogInit
<1>2. Inv /\ [HistoryNext]_historyVars => [Log!LogNext]_(Log!logVars)
  <2> SUFFICES ASSUME Inv, [HistoryNext]_historyVars PROVE [Log!LogNext]_(Log!logVars)
    OBVIOUS
  <2>0. HistoryTypeOK /\ QueueIsRecentPast BY DEF Inv
  <2>1. ASSUME NEW m \in Messages, Put(m) PROVE Log!Write(m)
    <3>1. Len(history) - gone = Len(queue)
      BY <2>0 DEF QueueIsRecentPast, HistoryTypeOK, MQTypeOK
    <3>q. QED BY <2>1, <3>1 DEF Put, Full, Log!Write
  <2>2. CASE Get
    <3>1. Len(queue) > 0
      BY <2>2, <2>0 DEF Get, get_sample, HistoryTypeOK, MQTypeOK
    <3>2. gone < Len(history)
      BY <3>1, <2>0 DEF QueueIsRecentPast, HistoryTypeOK, MQTypeOK
    <3>3. Head(queue) = history[gone + 1]
      BY <3>1, <2>0 DEF QueueIsRecentPast, HistoryTypeOK, MQTypeOK
    <3>q. QED BY <2>2, <3>2, <3>3 DEF Get, Log!LogNext, Log!Read
  <2>3. CASE Clear
    BY <2>3 DEF Clear, Log!LogNext, Log!Forget
  <2>4. CASE OtherMethods
    BY <2>4 DEF OtherMethods, Log!logVars
  <2>5. CASE UNCHANGED historyVars
    BY <2>5 DEF historyVars, Log!logVars
  <2>q. QED BY <2>1, <2>2, <2>3, <2>4, <2>5 DEF HistoryNext, Log!LogNext
<1>q. QED BY <1>1, <1>2, InvHolds, PTL DEF HistorySpec, ImplementsLossyLog, Log!LogSpec
=============================================================================
