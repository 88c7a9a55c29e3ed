-------------------------- MODULE FullyAsyncProofs --------------------------
(***************************************************************************)
(* What holds of the asynchronous job for every number of samples, every   *)
(* staleness threshold, trigger step and partial-rollout mode.             *)
(*                                                                         *)
(* SyncInv says where each copy of the version stands in every phase of    *)
(* the synchronizer's call, LogInv how many validation records are on      *)
(* their way to the trainer. LockInv ties the FIFO of the asyncio lock to  *)
(* the places of the coroutines; CapInv, from it, bounds the samples in    *)
(* generation; MarkerInv, from that, keeps the finish signal in the        *)
(* bounded queue; ConsInv accounts for every sample; FlyInv bounds the     *)
(* samples in flight.                                                      *)
(*                                                                         *)
(* With staleness_threshold 0 more is known. FeedInv: until the finish     *)
(* signal nothing ends early. RoundInv: max_required_samples are taken and *)
(* trained on for each version, so that between the last batch of a round  *)
(* and the next version nothing is in flight. FreshInv: every sample on    *)
(* its way to the trainer is of the present version.                       *)
(*                                                                         *)
(* Nothing is then lost either. BootInv: before it has waited for a task   *)
(* the processor is not interrupted, so that it never fails. EndInv: it    *)
(* ends with the end signal in hand and no task left. PauseInv: the        *)
(* monitor does not undo a pause, so that paused servers have nothing to   *)
(* interrupt (CancelInv). LastInv: the queue has room for every sample,    *)
(* and the finish signal is the last message in it.                        *)
(***************************************************************************)
EXTENDS FullyAsync, FiniteSetTheorems, TLAPS

USE ConstantsAssumption, TestFreqAssumption

------------------------------------------------------------------------------
(* The bounds computed from the configuration                                *)

LEMMA MaxRequiredType == MaxRequired \in Nat \ {0}
<1> DEFINE x == Required * (StaleNum + StaleDen) * Trigger
<1>1. /\ Required \in Nat /\ Required >= 1 /\ Trigger \in Nat /\ Trigger >= 1
      /\ StaleDen \in Nat /\ StaleDen >= 1 /\ StaleNum \in Nat
  OBVIOUS
<1>2. Required * (StaleNum + StaleDen) \in Nat
      /\ Required * (StaleNum + StaleDen) >= StaleDen
  BY <1>1, Z3
<1>3. x \in Nat /\ x >= StaleDen
  <2> DEFINE y == Required * (StaleNum + StaleDen)
  <2>1. y \in Nat /\ y >= StaleDen
    BY <1>2
  <2> HIDE DEF y
  <2>2. y * Trigger \in Nat /\ y * Trigger >= y
    BY <1>1, <2>1, Z3
  <2> QED
    BY <1>1, <2>1, <2>2 DEF y
<1> HIDE DEF x
<1>4. x \div StaleDen \in Nat /\ x \div StaleDen >= 1
  BY <1>1, <1>3, Z3
<1> QED
  BY <1>4 DEF MaxRequired, x

LEMMA MaxConcurrentType == MaxConcurrent \in Nat \ {0} /\ MaxConcurrent <= MaxRequired
  BY MaxRequiredType DEF MaxConcurrent

LEMMA SamplesFinite == IsFiniteSet(Samples) /\ Samples \subseteq Nat \ {0}
<1>1. IsFiniteSet(1 .. Total)
  <2>1. Total \in Int /\ 1 \in Int
    OBVIOUS
  <2> QED
    BY <2>1, FS_Interval
<1>2. 1 .. Total \subseteq Nat \ {0}
  OBVIOUS
<1> QED
  BY <1>1, <1>2 DEF Samples

LEMMA ActiveFinite == IsFiniteSet(Active) /\ Cardinality(Active) \in Nat
  BY SamplesFinite, FS_Subset, FS_CardinalityType DEF Active

------------------------------------------------------------------------------
(* The synchronization                                                       *)

\* The phases of the synchronizer's call in the rollouter: before the
\* transfer, between the transfer and the rollouter's new version, between
\* that and the validation record, after it.
Before == {"pause", "pauseLock", "cancel", "gather", "kv", "paused"}
Transferred == {"update", "updateLock"}
Versioned == {"size", "reply", "putVal"}
Resuming == {"resume", "resumeLock", "resumed", "none"}

\* Where each copy of the version stands in each phase.
SyncInv ==
  /\ {version, weights, mq_version, tr_version} \subseteq Nat
  /\ rpc \in Before \cup {"sync"} \cup Transferred \cup Versioned \cup Resuming
  /\ tr \in {"log", "collect", "train", "wait", "sync", "finalWait", "lastWait",
             "end"}
  /\ tr = "sync" <=> rpc \in Before \cup {"sync"}
  /\ tr_version = weights + (IF tr \in {"wait", "sync"} THEN 1 ELSE 0)
  /\ weights = version + (IF rpc \in Transferred THEN 1 ELSE 0)
  /\ mq_version = weights + (IF rpc = "sync" THEN 1 ELSE 0)

\* The validation records put so far are numbered 0, 1, ... through the
\* trainer's log and on through the queue; the trainer is at most one behind
\* (two when it is about to log), and not at all after its last log.
Put == weights + (IF rpc \in Transferred \cup Versioned THEN 0 ELSE 1)

Numbered ==
  /\ logged \in Seq(Nat) /\ val_queue \in Seq(Nat)
  /\ \A i \in 1 .. Len(logged) : logged[i] + 1 = i
  /\ \A i \in 1 .. Len(val_queue) : val_queue[i] + 1 = Len(logged) + i

LogInv ==
  /\ final \in BOOLEAN
  /\ Numbered
  /\ Len(logged) + Len(val_queue) = Put
  /\ weights <= Len(logged) + (IF tr = "log" THEN 1 ELSE 0)
  /\ final => tr \in {"wait", "sync", "lastWait", "end"}
  /\ final /\ tr \in {"wait", "sync"} => weights + 1 = Len(logged)
  /\ tr = "end" => rpc = "none" /\ weights + 1 = Len(logged)

\* The rest of the rollouter never touches the versions or the records.
syncVars == <<rpc, version, mq_version, val_queue>>

LEMMA LocalSteps ==
  Feed \/ ProcNext \/ TaskNext \/ MonNext \/ MainNext => UNCHANGED syncVars
<1> USE DEF syncVars, msgVars, ctlVars, procOther, taskOther, monOther, mainOther
<1>1. Feed => UNCHANGED syncVars
  BY DEF Feed
<1>2. ProcNext => UNCHANGED syncVars
  BY DEF ProcNext, ProcTop, ProcSetPaused, ProcTakeCancelled, ProcTakePending,
         ProcDrain, ProcDrainLocked, ProcCollect, ProcIdle, ProcSubmit, ProcWoken
<1>3. TaskNext => UNCHANGED syncVars
  BY DEF TaskNext, Generated, PutSample, CutShort, Interrupted, Fails, put_sample
<1>4. MonNext => UNCHANGED syncVars
  BY DEF MonNext, MonWake, MonSet, MonLoop
<1>5. MainNext => UNCHANGED syncVars
  BY DEF MainNext, MainPut, MainStop, put_sample
<1> QED
  BY <1>1, <1>2, <1>3, <1>4, <1>5

\* The steps of the synchronizer's call that only move it on.
RpcMoves == \/ PauseCall \/ PauseLocked \/ PauseCancel \/ PauseGather \/ PauseDone
            \/ UpdateCall \/ UpdateSize \/ UpdateReply
            \/ ResumeCall \/ ResumeServers \/ ResumeDone

LEMMA RpcMovesOn ==
  ASSUME RpcMoves
  PROVE  /\ UNCHANGED <<version, mq_version, val_queue>>
         /\ \/ rpc \in Before /\ rpc' \in Before
            \/ rpc \in Transferred /\ rpc' \in Transferred
            \/ rpc \in Versioned /\ rpc' \in Versioned
            \/ rpc \in Resuming \ {"none"} /\ rpc' \in Resuming
<1> USE DEF msgVars, Before, Transferred, Versioned, Resuming
<1>1. CASE PauseCall \/ PauseLocked \/ PauseCancel \/ PauseGather \/ PauseDone
  BY <1>1 DEF PauseCall, PauseLocked, PauseCancel, PauseGather, PauseDone
<1>2. CASE UpdateCall \/ UpdateSize \/ UpdateReply
  BY <1>2 DEF UpdateCall, UpdateSize, UpdateReply
<1>3. CASE ResumeCall \/ ResumeServers \/ ResumeDone
  BY <1>3 DEF ResumeCall, ResumeServers, ResumeDone
<1> QED
  BY <1>1, <1>2, <1>3 DEF RpcMoves

LEMMA SyncStep == SyncInv /\ [Next]_vars => SyncInv'
<1> SUFFICES ASSUME SyncInv, [Next]_vars
             PROVE  SyncInv'
  OBVIOUS
<1> USE DEF SyncInv, Before, Transferred, Versioned, Resuming
<1>1. CASE (Feed \/ ProcNext \/ TaskNext \/ MonNext \/ MainNext) /\ UNCHANGED trVars
  BY <1>1, LocalSteps DEF syncVars, trVars
<1>2. CASE RpcMoves /\ UNCHANGED trVars
  BY <1>2, RpcMovesOn DEF trVars
<1>3. CASE UpdatePutVal /\ UNCHANGED trVars
  BY <1>3 DEF UpdatePutVal, put_validate, trVars
<1>4. CASE RollUpdate
  BY <1>4 DEF RollUpdate, UpdateLocked, msgVars, trVars
<1>5. CASE Collect
  BY <1>5 DEF Collect, get_sample, rollVars, ctlVars
<1>6. CASE Train
  BY SMTT(30), <1>6 DEF Train, rollVars, ctlVars, msgVars
<1>7. CASE SyncStart
  BY <1>7 DEF SyncStart, ctlVars, msgVars
<1>8. CASE SyncVersion
  BY <1>8 DEF SyncVersion, update_param_version, ctlVars, trVars
<1>9. CASE SyncWeights
  BY <1>9 DEF SyncWeights, ctlVars, msgVars
<1>10. CASE LogStep \/ FinalLog \/ LastLog
  <2>1. UNCHANGED <<rpc, version, weights, mq_version>>
    BY <1>10 DEF LogStep, FinalLog, LastLog, Log, get_validate, rollVars, ctlVars
  <2>2. \/ /\ tr \in {"log", "finalWait", "lastWait"} /\ tr' \in {"collect", "end"}
           /\ tr_version' = tr_version
        \/ tr = "finalWait" /\ tr' = "wait" /\ tr_version' = tr_version + 1
    BY <1>10 DEF LogStep, FinalLog, LastLog, Log
  <2> QED
    BY <2>1, <2>2
<1>11. CASE UNCHANGED vars
  BY <1>11 DEF vars, rollVars, ctlVars, msgVars, trVars
<1> QED
  BY <1>1, <1>2, <1>3, <1>4, <1>5, <1>6, <1>7, <1>8, <1>9, <1>10, <1>11
  DEF Next, RollNext, RpcMoves, TrainerNext, JobEnd

LEMMA SyncHolds == Spec => []SyncInv
<1>1. Init => SyncInv
  BY DEF Init, RollInit, SyncInv, Before, Transferred, Versioned, Resuming
<1> QED
  BY <1>1, SyncStep, PTL DEF Spec

(* param_sync.py sync_weights, for every configuration: the trainer's        *)
(* version, the queue's, the servers' weights and the rollouter's version    *)
(* follow each other in that order, and agree between synchronizations.      *)
THEOREM VersionsStayInStep == Spec => []VersionsInStep
<1>1. SyncInv => VersionsInStep
  BY DEF SyncInv, VersionsInStep, Before, Transferred, Versioned, Resuming
<1> QED
  BY <1>1, SyncHolds, PTL

------------------------------------------------------------------------------
(* The validation records                                                    *)

LEMMA NumberedKept == Numbered /\ UNCHANGED <<logged, val_queue>> => Numbered'
  BY DEF Numbered

LEMMA NumberedLens ==
  Numbered => /\ Len(logged) \in Nat /\ Len(val_queue) \in Nat
              /\ val_queue = <<>> <=> Len(val_queue) = 0
  BY DEF Numbered

\* _log_validation_data takes the oldest record there is, if any.
LEMMA LogTakes ==
  ASSUME Numbered, NEW next, Log(next)
  PROVE  /\ Numbered'
         /\ Len(logged') + Len(val_queue') = Len(logged) + Len(val_queue)
         /\ Len(logged') = Len(logged) + (IF Len(val_queue) = 0 THEN 0 ELSE 1)
         /\ UNCHANGED <<rpc, weights>> /\ tr' = next
<1>1. UNCHANGED <<rpc, weights>> /\ tr' = next
  BY DEF Log, rollVars
<1>2. CASE val_queue = <<>>
  <2>1. UNCHANGED <<logged, val_queue>>
    BY <1>2 DEF Log, get_validate
  <2>2. /\ Numbered' /\ Len(val_queue) = 0 /\ Len(logged) \in Nat
        /\ Len(logged') = Len(logged) /\ Len(val_queue') = Len(val_queue)
    BY <1>2, <2>1, NumberedKept, NumberedLens, Zenon
  <2> QED
    BY <1>1, <2>2
<1>3. CASE val_queue # <<>>
  <2>1. logged' = Append(logged, Head(val_queue)) /\ val_queue' = Tail(val_queue)
    BY <1>3 DEF Log, get_validate
  <2>2. /\ Len(val_queue) \in Nat /\ Len(val_queue) >= 1 /\ Len(logged) \in Nat
        /\ Head(val_queue) = val_queue[1]
    BY <1>3 DEF Numbered
  <2>3. Head(val_queue) \in Nat /\ Head(val_queue) = Len(logged)
    BY SMTT(30), <1>3, <2>2 DEF Numbered
  <2>4. logged' \in Seq(Nat) /\ val_queue' \in Seq(Nat)
    BY <1>3, <2>1, <2>3 DEF Numbered
  <2>5. Len(logged') = Len(logged) + 1 /\ Len(val_queue') = Len(val_queue) - 1
    BY <1>3, <2>1, <2>2 DEF Numbered
  <2>6. ASSUME NEW i \in 1 .. Len(logged') PROVE logged'[i] + 1 = i
    <3>1. CASE i = Len(logged) + 1
      BY <2>1, <2>2, <2>3, <3>1 DEF Numbered
    <3>2. CASE i \in 1 .. Len(logged)
      BY <2>1, <2>2, <3>2 DEF Numbered
    <3> QED
      BY <2>2, <2>5, <3>1, <3>2
  <2>7. ASSUME NEW i \in 1 .. Len(val_queue')
        PROVE  val_queue'[i] + 1 = Len(logged') + i
    <3>1. i + 1 \in 1 .. Len(val_queue)
      BY <2>2, <2>5
    <3>2. val_queue'[i] = val_queue[i + 1]
      BY <1>3, <2>1, <2>5 DEF Numbered
    <3>3. val_queue[i + 1] + 1 = Len(logged) + (i + 1)
      BY <3>1 DEF Numbered
    <3> QED
      BY <2>2, <2>5, <3>2, <3>3
  <2>8. Numbered'
    BY <2>4, <2>6, <2>7 DEF Numbered
  <2> QED
    BY <1>1, <2>2, <2>5, <2>8
<1> QED
  BY <1>2, <1>3

LEMMA PutValAppends ==
  ASSUME Numbered, UpdatePutVal, version = Len(logged) + Len(val_queue),
         UNCHANGED logged
  PROVE  Numbered' /\ Len(val_queue') = Len(val_queue) + 1
<1>1. val_queue' = Append(val_queue, version)
  BY DEF UpdatePutVal, put_validate
<1>2. Len(logged) \in Nat /\ Len(val_queue) \in Nat /\ version \in Nat
  BY DEF Numbered
<1>3. val_queue' \in Seq(Nat) /\ Len(val_queue') = Len(val_queue) + 1
  BY <1>1, <1>2 DEF Numbered
<1>4. ASSUME NEW i \in 1 .. Len(val_queue')
      PROVE  val_queue'[i] + 1 = Len(logged) + i
  <2>1. CASE i = Len(val_queue) + 1
    BY <1>1, <1>2, <2>1 DEF Numbered
  <2>2. CASE i \in 1 .. Len(val_queue)
    <3>1. val_queue'[i] = val_queue[i]
      BY <1>1, <1>2, <2>2 DEF Numbered
    <3> QED
      BY <2>2, <3>1 DEF Numbered
  <2> QED
    BY <1>2, <1>3, <2>1, <2>2
<1> QED
  BY <1>3, <1>4 DEF Numbered

LEMMA LogStepInv == SyncInv /\ LogInv /\ [Next]_vars => LogInv'
<1> SUFFICES ASSUME SyncInv, LogInv, [Next]_vars
             PROVE  LogInv'
  OBVIOUS
<1> USE DEF Put, Before, Transferred, Versioned, Resuming
<1>0. Numbered /\ Len(logged) \in Nat /\ Len(val_queue) \in Nat /\ weights \in Nat
  BY NumberedLens DEF LogInv, SyncInv
<1>1. CASE (Feed \/ ProcNext \/ TaskNext \/ MonNext \/ MainNext) /\ UNCHANGED trVars
  BY <1>1, LocalSteps, NumberedKept DEF syncVars, trVars, LogInv
<1>2. CASE RpcMoves /\ UNCHANGED trVars
  <2>1. Numbered' /\ UNCHANGED <<val_queue, trVars>>
    BY <1>2, RpcMovesOn, NumberedKept DEF trVars, LogInv
  <2>2. Put' = Put /\ (rpc = "none" => FALSE)
    BY <1>2, RpcMovesOn DEF trVars
  <2> QED
    BY <2>1, <2>2 DEF trVars, LogInv
<1>3. CASE UpdatePutVal /\ UNCHANGED trVars
  <2>1. rpc = "putVal" /\ rpc' = "resume"
    BY <1>3 DEF UpdatePutVal
  <2>2. version = Len(logged) + Len(val_queue) /\ version = weights
    BY <2>1 DEF SyncInv, LogInv
  <2>3. Numbered' /\ Len(val_queue') = Len(val_queue) + 1
    BY <1>0, <1>3, <2>2, PutValAppends DEF trVars
  <2> QED
    BY <1>0, <1>3, <2>1, <2>2, <2>3, SMTT(30) DEF trVars, LogInv
<1>4. CASE RollUpdate
  BY <1>4, NumberedKept DEF RollUpdate, UpdateLocked, msgVars, trVars, LogInv
<1>5. CASE Collect
  BY <1>5, NumberedKept DEF Collect, get_sample, rollVars, ctlVars, LogInv
<1>6. CASE Train
  <2>1. tr = "train" /\ tr' \in {"log", "wait"}
    BY <1>6 DEF Train
  <2>2. UNCHANGED <<logged, val_queue, weights, rpc, final>> /\ ~ final
    BY <1>6, <2>1 DEF Train, rollVars, msgVars, LogInv
  <2> QED
    BY <1>0, <2>1, <2>2, NumberedKept DEF LogInv
<1>7. CASE SyncStart
  BY <1>7, NumberedKept DEF SyncStart, ctlVars, msgVars, LogInv
<1>8. CASE SyncVersion
  BY <1>8, NumberedKept DEF SyncVersion, update_param_version, ctlVars, trVars, LogInv
<1>9. CASE SyncWeights
  <2>1. weights' = weights + 1 /\ UNCHANGED <<logged, val_queue, final>>
    BY <1>9 DEF SyncWeights, SyncInv, msgVars
  <2> QED
    BY <1>0, <1>9, <2>1, NumberedKept DEF SyncWeights, LogInv, SyncInv
<1>10. CASE LogStep
  <2>1. Log("collect") /\ tr = "log" /\ UNCHANGED final
    BY <1>10 DEF LogStep
  <2>2. ~ final
    BY <2>1 DEF LogInv
  <2>3. /\ Numbered' /\ tr' = "collect" /\ UNCHANGED <<rpc, weights>>
        /\ Len(logged') + Len(val_queue') = Len(logged) + Len(val_queue)
        /\ Len(logged') = Len(logged) + (IF Len(val_queue) = 0 THEN 0 ELSE 1)
    BY <1>0, <2>1, LogTakes
  <2>4. weights <= Len(logged')
    BY <1>0, <2>1, <2>3 DEF LogInv
  <2> QED
    BY <2>1, <2>2, <2>3, <2>4 DEF LogInv
<1>11. CASE FinalLog \/ LastLog
  <2>1. PICK next \in {"wait", "end"} : Log(next)
    BY <1>11 DEF FinalLog, LastLog
  <2>2. rpc = "none" /\ tr \in {"finalWait", "lastWait"} /\ final' \in BOOLEAN
    BY <1>11 DEF FinalLog, LastLog, LogInv
  <2>3. /\ Numbered' /\ tr' = next /\ UNCHANGED <<rpc, weights>>
        /\ Len(logged') + Len(val_queue') = Len(logged) + Len(val_queue)
        /\ Len(logged') = Len(logged) + (IF Len(val_queue) = 0 THEN 0 ELSE 1)
    BY <1>0, <2>1, LogTakes
  <2>4. weights + 1 = Len(logged')
    BY <1>0, <2>2, <2>3, SMTT(30) DEF LogInv
  <2>5. Put' = Put /\ Len(logged') \in Nat /\ Len(val_queue') \in Nat
    BY <2>3, NumberedLens DEF Numbered
  <2>6. Len(logged') + Len(val_queue') = Put'
    BY <2>3, <2>5 DEF LogInv
  <2>7. /\ tr' \in {"wait", "end"} /\ weights' + 1 = Len(logged') /\ rpc' = "none"
        /\ weights' \in Nat
    BY <1>0, <2>1, <2>2, <2>3, <2>4
  <2>8. weights' <= Len(logged') + (IF tr' = "log" THEN 1 ELSE 0)
    BY <2>5, <2>7
  <2> HIDE DEF Put
  <2> QED
    BY <2>2, <2>3, <2>6, <2>7, <2>8, Zenon DEF LogInv
<1>12. CASE UNCHANGED vars
  BY <1>12, NumberedKept DEF vars, rollVars, ctlVars, msgVars, trVars, LogInv
<1> QED
  BY <1>1, <1>2, <1>3, <1>4, <1>5, <1>6, <1>7, <1>8, <1>9, <1>10, <1>11, <1>12
  DEF Next, RollNext, RpcMoves, TrainerNext, JobEnd

LEMMA LogHolds == Spec => []LogInv
<1>1. Init => LogInv
  <2> SUFFICES ASSUME Init PROVE LogInv
    OBVIOUS
  <2>1. logged = <<>> /\ val_queue = <<0>> /\ weights = 0 /\ rpc = "none"
        /\ tr = "log" /\ final = FALSE
    BY DEF Init, RollInit
  <2>2. Numbered
    BY <2>1 DEF Numbered
  <2>3. Len(logged) = 0 /\ Len(val_queue) = 1
    BY <2>1
  <2> QED
    <3>1. Put = 1
      BY <2>1 DEF Put, Transferred, Versioned
    <3>2. Len(logged) + Len(val_queue) = Put /\ weights <= Len(logged) + 1
      BY <2>1, <2>3, <3>1
    <3> QED
      BY <2>1, <2>2, <3>2 DEF LogInv
<1> QED
  BY <1>1, LogStepInv, SyncHolds, PTL DEF Spec

(* update_param_version and _log_validation_data: whatever the rollouter is  *)
(* doing when a record is put, records are logged in order and without gaps, *)
(* and none is left when fit returns.                                        *)
THEOREM ValidationIsLogged == Spec => []ValidationLogged
<1>1. SyncInv /\ LogInv => ValidationLogged
  <2> SUFFICES ASSUME SyncInv, LogInv PROVE ValidationLogged
    OBVIOUS
  <2>1. ASSUME NEW i \in 1 .. Len(logged) PROVE logged[i] = i - 1
    <3>1. logged \in Seq(Nat) /\ logged[i] + 1 = i
      BY DEF LogInv, Numbered
    <3>2. logged[i] \in Nat /\ i \in Nat
      BY <3>1
    <3> QED
      BY SMTT(30), <3>1, <3>2
  <2>2. ASSUME tr = "end" PROVE val_queue = <<>> /\ Len(logged) = tr_version + 1
    BY <2>2, NumberedLens DEF SyncInv, LogInv, Put, Transferred, Versioned
  <2> QED
    BY <2>1, <2>2 DEF ValidationLogged
<1> QED
  BY <1>1, LogHolds, SyncHolds, PTL

------------------------------------------------------------------------------
(* The lock of the rollouter                                                 *)

Coroutines == {"proc", "mon", "main", "rpc"}

\* l is a FIFO of the coroutines in S, each once.
Fifo(l, S) ==
  /\ l \in Seq(Coroutines)
  /\ \A i, j \in 1 .. Len(l) : l[i] = l[j] => i = j
  /\ \A i \in 1 .. Len(l) : l[i] \in S
  /\ \A c \in S : \E i \in 1 .. Len(l) : l[i] = c

LEMMA FifoAppend ==
  ASSUME NEW l, NEW S, Fifo(l, S), NEW c \in Coroutines, c \notin S
  PROVE  /\ Fifo(Append(l, c), S \cup {c}) /\ Append(l, c) # <<>>
         /\ l # <<>> => Head(Append(l, c)) = Head(l)
         /\ l = <<>> => Head(Append(l, c)) = c
<1> DEFINE m == Append(l, c)
<1>1. l \in Seq(Coroutines) /\ Len(l) \in Nat
  BY DEF Fifo
<1>2. /\ m \in Seq(Coroutines) /\ Len(m) = Len(l) + 1
      /\ m[Len(l) + 1] = c
      /\ \A i \in 1 .. Len(l) : m[i] = l[i]
  BY <1>1
<1> HIDE DEF m
<1>3. \A i, j \in 1 .. Len(m) : m[i] = m[j] => i = j
  <2> SUFFICES ASSUME NEW i \in 1 .. Len(m), NEW j \in 1 .. Len(m), m[i] = m[j]
               PROVE  i = j
    OBVIOUS
  <2>1. \A k \in 1 .. Len(l) : m[k] # c /\ m[k] = l[k]
    BY <1>2 DEF Fifo
  <2>2. CASE i \in 1 .. Len(l) /\ j \in 1 .. Len(l)
    BY <2>1, <2>2 DEF Fifo
  <2>3. i = Len(l) + 1 \/ i \in 1 .. Len(l)
    BY <1>1, <1>2
  <2>4. j = Len(l) + 1 \/ j \in 1 .. Len(l)
    BY <1>1, <1>2
  <2> QED
    BY <1>2, <2>1, <2>2, <2>3, <2>4
<1>4. \A i \in 1 .. Len(m) : m[i] \in S \cup {c}
  BY SMTT(30), <1>1, <1>2 DEF Fifo
<1>5. ASSUME NEW d \in S \cup {c} PROVE \E i \in 1 .. Len(m) : m[i] = d
  <2>1. CASE d = c
    BY <1>1, <1>2, <2>1
  <2>2. CASE d \in S
    <3>1. PICK i \in 1 .. Len(l) : l[i] = d
      BY <2>2 DEF Fifo
    <3> QED
      BY <1>1, <1>2, <3>1
  <2> QED
    BY <2>1, <2>2
<1>6. Fifo(m, S \cup {c})
  BY <1>2, <1>3, <1>4, <1>5 DEF Fifo
<1>7. m # <<>> /\ Head(m) = m[1]
  BY <1>1, <1>2
<1>8. (l # <<>> => Head(m) = Head(l)) /\ (l = <<>> => Head(m) = c)
  BY <1>1, <1>2, <1>7
<1> QED
  BY <1>6, <1>7, <1>8 DEF m

LEMMA FifoTail ==
  ASSUME NEW l, NEW S, Fifo(l, S), l # <<>>
  PROVE  Head(l) \in S /\ Fifo(Tail(l), S \ {Head(l)})
<1> DEFINE m == Tail(l)
<1>1. /\ l \in Seq(Coroutines) /\ Len(l) \in Nat /\ Len(l) >= 1 /\ Head(l) = l[1]
  BY DEF Fifo
<1>2. /\ m \in Seq(Coroutines) /\ Len(m) = Len(l) - 1
      /\ \A i \in 1 .. Len(m) : m[i] = l[i + 1]
  BY <1>1
<1> HIDE DEF m
<1>3. \A i, j \in 1 .. Len(m) : m[i] = m[j] => i = j
  <2> SUFFICES ASSUME NEW i \in 1 .. Len(m), NEW j \in 1 .. Len(m), m[i] = m[j]
               PROVE  i = j
    OBVIOUS
  <2>1. i + 1 \in 1 .. Len(l) /\ j + 1 \in 1 .. Len(l) /\ l[i + 1] = l[j + 1]
    BY <1>1, <1>2, SMTT(30)
  <2>2. i + 1 = j + 1
    BY <2>1 DEF Fifo
  <2> QED
    BY <2>2
<1>4. ASSUME NEW i \in 1 .. Len(m) PROVE m[i] \in S \ {Head(l)}
  <2>1. i + 1 \in 1 .. Len(l) /\ 1 \in 1 .. Len(l) /\ i + 1 # 1 /\ m[i] = l[i + 1]
    BY <1>1, <1>2
  <2> QED
    BY <1>1, <2>1 DEF Fifo
<1>5. ASSUME NEW d \in S \ {Head(l)} PROVE \E i \in 1 .. Len(m) : m[i] = d
  <2>1. PICK k \in 1 .. Len(l) : l[k] = d
    BY DEF Fifo
  <2>2. k - 1 \in 1 .. Len(m) /\ (k - 1) + 1 = k
    BY <1>1, <1>2, <2>1
  <2> QED
    BY <1>2, <2>1, <2>2
<1>6. Fifo(m, S \ {Head(l)})
  BY <1>2, <1>3, <1>4, <1>5 DEF Fifo
<1>7. Head(l) \in S
  BY <1>1 DEF Fifo
<1> QED
  BY <1>6, <1>7 DEF m

LEMMA FifoNonEmpty == ASSUME NEW l, NEW S, NEW c \in S, Fifo(l, S) PROVE l # <<>>
  BY DEF Fifo

\* The labels at which a coroutine is in the lock's FIFO, and those at which
\* it is inside a section that an await interrupts.
ProcIn == {"setPaused", "drainLock", "wait", "idleLock", "submitLock"}
MonIn == {"setLock", "loopLock"}
RpcOwns == {"cancel", "gather", "kv", "size", "reply", "putVal", "resumed"}
RpcIn == {"pauseLock", "updateLock", "resumeLock"} \cup RpcOwns

Waiters == {c \in Coroutines : \/ c = "proc" /\ proc \in ProcIn
                               \/ c = "mon" /\ mon \in MonIn
                               \/ c = "main" /\ main = "putLock"
                               \/ c = "rpc" /\ rpc \in RpcIn}

Labels ==
  /\ proc \in ProcIn \cup {"top", "take", "get", "drain", "idle", "idleWoken",
                           "subWait", "subWoken", "end", "crashed"}
  /\ mon \in MonIn \cup {"sleep", "end"}
  /\ main \in {"wait", "put", "putLock", "end"}
  /\ rpc \in RpcIn \cup {"none", "pause", "paused", "sync", "update", "resume"}

LockInv ==
  /\ Labels
  /\ Fifo(lock, Waiters)
  /\ proc = "wait" => Head(lock) = "proc"
  /\ rpc \in RpcOwns => Head(lock) = "rpc"

\* What a step may do to the lock: nothing, one more in the queue, its head
\* out, or its head back at the end (the monitor's two sections in a row).
LockMove ==
  \/ lock' = lock /\ Waiters' = Waiters
  \/ \E c \in Coroutines \ Waiters :
        lock' = Append(lock, c) /\ Waiters' = Waiters \cup {c}
  \/ lock # <<>> /\ lock' = Tail(lock) /\ Waiters' = Waiters \ {Head(lock)}
  \/ /\ Holds("mon") /\ lock' = Append(Tail(lock), "mon")
     /\ Waiters' = Waiters

LockStep ==
  /\ Labels'
  /\ LockMove
  /\ proc' = "wait" => proc = "wait" \/ Holds("proc")
  /\ rpc' \in RpcOwns => rpc \in RpcOwns \/ Holds("rpc")

LEMMA LockKept == LockInv /\ LockStep => LockInv'
<1> SUFFICES ASSUME LockInv, LockStep PROVE LockInv'
  OBVIOUS
<1> USE DEF LockInv, LockStep
<1>0. /\ (proc' = "wait" => "proc" \in Waiters') /\ (rpc' \in RpcOwns => "rpc" \in Waiters')
      /\ (proc = "wait" => "proc" \in Waiters) /\ (rpc \in RpcOwns => "rpc" \in Waiters)
  BY DEF Waiters, Coroutines, ProcIn, RpcIn
<1>1. /\ proc' = "wait" => lock # <<>> /\ Head(lock) = "proc"
      /\ rpc' \in RpcOwns => lock # <<>> /\ Head(lock) = "rpc"
  BY <1>0, FifoNonEmpty DEF Holds
<1>2. CASE lock' = lock /\ Waiters' = Waiters
  BY <1>1, <1>2
<1>3. CASE \E c \in Coroutines \ Waiters :
             lock' = Append(lock, c) /\ Waiters' = Waiters \cup {c}
  <2>1. PICK c \in Coroutines \ Waiters :
             lock' = Append(lock, c) /\ Waiters' = Waiters \cup {c}
    BY <1>3
  <2>2. Fifo(lock', Waiters') /\ (lock # <<>> => Head(lock') = Head(lock))
    BY <2>1, FifoAppend
  <2> QED
    BY <1>1, <2>2
<1>4. CASE lock # <<>> /\ lock' = Tail(lock) /\ Waiters' = Waiters \ {Head(lock)}
  <2>1. Fifo(lock', Waiters')
    BY <1>4, FifoTail
  <2> QED
    BY <1>0, <1>1, <1>4, <2>1
<1>5. CASE /\ Holds("mon") /\ lock' = Append(Tail(lock), "mon")
           /\ Waiters' = Waiters
  <2>1. lock # <<>> /\ Head(lock) = "mon"
    BY <1>5 DEF Holds
  <2>2. "mon" \in Waiters /\ Fifo(Tail(lock), Waiters \ {"mon"})
    BY <2>1, FifoTail
  <2>3. Fifo(lock', (Waiters \ {"mon"}) \cup {"mon"})
    BY <1>5, <2>2, FifoAppend DEF Coroutines
  <2>4. (Waiters \ {"mon"}) \cup {"mon"} = Waiters'
    BY <1>5, <2>2
  <2>5. Fifo(lock', Waiters')
    BY <2>3, <2>4
  <2> QED
    BY <1>1, <2>1, <2>5
<1> QED
  BY <1>2, <1>3, <1>4, <1>5 DEF LockMove

LEMMA LockSteps == LockInv /\ [Next]_vars => LockStep
<1> SUFFICES ASSUME LockInv, [Next]_vars PROVE LockStep
  OBVIOUS
<1>a. lock \in Seq(Coroutines)
  BY DEF LockInv, Fifo
<1>b. \A c \in Waiters : lock # <<>>
  BY FifoNonEmpty DEF LockInv
<1> USE DEF LockInv, LockStep, LockMove, Labels, Waiters, Coroutines, Holds, Request,
            Release, ProcIn, MonIn, RpcIn, RpcOwns
<1>0. lock \in Seq(Coroutines) /\ (\A c \in Waiters : lock # <<>>)
  BY <1>a, <1>b
<1>1. CASE Feed
  BY <1>0, <1>1 DEF Feed, ctlVars
<1>2. CASE ProcTop
  <2>1. proc = "top" /\ UNCHANGED <<mon, main, rpc>>
    BY <1>2 DEF ProcTop, procOther
  <2>2. \/ proc' = "setPaused" /\ lock' = Append(lock, "proc")
        \/ proc' = "take" /\ lock' = lock
    BY <1>2 DEF ProcTop
  <2>3. CASE proc' = "setPaused" /\ lock' = Append(lock, "proc")
    <3>1. "proc" \in Coroutines \ Waiters /\ Waiters' = Waiters \cup {"proc"}
      BY <2>1, <2>3
    <3> QED
      BY <2>1, <2>3, <3>1
  <2>4. CASE proc' = "take" /\ lock' = lock
    <3>1. Waiters' = Waiters
      BY <2>1, <2>4
    <3> QED
      BY <2>1, <2>4, <3>1
  <2> QED
    BY <2>2, <2>3, <2>4
<1>3. CASE ProcSetPaused
  BY <1>0, <1>3 DEF ProcSetPaused, procOther
<1>4. CASE ProcTakeCancelled
  BY <1>0, <1>4 DEF ProcTakeCancelled, procOther
<1>5. CASE ProcTakePending
  BY <1>0, <1>5 DEF ProcTakePending, procOther
<1>6. CASE ProcDrain
  <2>1. proc = "drain" /\ UNCHANGED <<mon, main, rpc>>
    BY <1>6 DEF ProcDrain, procOther
  <2>2. \/ proc' \in {"drainLock", "idleLock", "submitLock"} /\ lock' = Append(lock, "proc")
        \/ proc' = "end" /\ lock' = lock
    BY <1>6 DEF ProcDrain
  <2>3. CASE proc' \in {"drainLock", "idleLock", "submitLock"} /\ lock' = Append(lock, "proc")
    <3>1. "proc" \in Coroutines \ Waiters /\ Waiters' = Waiters \cup {"proc"}
      BY <2>1, <2>3
    <3> QED
      BY <2>1, <2>3, <3>1
  <2>4. CASE proc' = "end" /\ lock' = lock
    <3>1. Waiters' = Waiters
      BY <2>1, <2>4
    <3> QED
      BY <2>1, <2>4, <3>1
  <2> QED
    BY <2>2, <2>3, <2>4
<1>7. CASE ProcDrainLocked
  BY <1>0, <1>7 DEF ProcDrainLocked, procOther
<1>8. CASE ProcCollect
  <2>1. proc = "wait" /\ proc' \in {"crashed", "drain"} /\ UNCHANGED <<mon, main, rpc>> /\ lock' = Tail(lock)
    BY <1>8 DEF ProcCollect, procOther
  <2>2. lock # <<>> /\ Head(lock) = "proc"
    BY <1>0, <2>1
  <2>3. Waiters' = Waiters \ {Head(lock)}
    BY <2>1, <2>2
  <2> QED
    BY <2>1, <2>2, <2>3
<1>9. CASE ProcIdle
  BY <1>0, <1>9 DEF ProcIdle, procOther
<1>10. CASE ProcSubmit
  BY <1>0, <1>10 DEF ProcSubmit, procOther
<1>11. CASE ProcWoken
  BY <1>0, <1>11 DEF ProcWoken, procOther
<1>12. CASE TaskNext
  BY <1>0, <1>12 DEF TaskNext, Generated, PutSample, CutShort, Interrupted, Fails, taskOther
<1>13. CASE MonWake
  <2>1. /\ mon = "sleep" /\ mon' \in {"setLock", "loopLock"} /\ lock' = Append(lock, "mon")
        /\ UNCHANGED <<proc, main, rpc>>
    BY <1>13 DEF MonWake, monOther
  <2>2. "mon" \in Coroutines \ Waiters /\ Waiters' = Waiters \cup {"mon"}
    BY <2>1
  <2> QED
    BY <2>1, <2>2
<1>14. CASE MonSet
  <2>1. /\ mon = "setLock" /\ mon' = "loopLock" /\ UNCHANGED <<main, rpc>>
        /\ Holds("mon") /\ lock' = Append(Tail(lock), "mon")
    BY <1>14 DEF MonSet, monOther
  <2>2. \/ proc' = proc
        \/ proc = "idle" /\ proc' = "idleWoken"
        \/ proc = "subWait" /\ proc' = "subWoken"
    BY <1>14 DEF MonSet, Notify
  <2>3. Waiters' = Waiters /\ Labels'
    BY <2>1, <2>2
  <2> QED
    BY <2>1, <2>2, <2>3
<1>15. CASE MonLoop
  BY <1>0, <1>15 DEF MonLoop, monOther
<1>16. CASE MainPut
  BY <1>0, <1>16 DEF MainPut, mainOther
<1>17. CASE MainStop
  <2>1. UNCHANGED <<proc, mon, rpc>>
    BY <1>17 DEF MainStop, mainOther
  <2>2. \/ main = "put" /\ main' = "putLock" /\ lock' = Append(lock, "main")
        \/ main = "putLock" /\ Holds("main") /\ main' = "end" /\ lock' = Tail(lock)
    BY <1>17 DEF MainStop
  <2>3. CASE main = "put" /\ main' = "putLock" /\ lock' = Append(lock, "main")
    <3>1. "main" \in Coroutines \ Waiters /\ Waiters' = Waiters \cup {"main"}
      BY <2>1, <2>3
    <3> QED
      BY <2>1, <2>3, <3>1
  <2>4. CASE main = "putLock" /\ Holds("main") /\ main' = "end" /\ lock' = Tail(lock)
    <3>1. lock # <<>> /\ Head(lock) = "main"
      BY <2>4
    <3>2. Waiters' = Waiters \ {Head(lock)}
      BY <2>1, <2>4, <3>1
    <3> QED
      BY <2>1, <2>4, <3>1, <3>2
  <2> QED
    BY <2>2, <2>3, <2>4
<1>18. CASE PauseCall
  BY <1>0, <1>18 DEF PauseCall, rpcOther
<1>19. CASE PauseLocked
  BY <1>0, <1>19 DEF PauseLocked, rpcOther
<1>20. CASE PauseCancel
  BY <1>0, <1>20 DEF PauseCancel, rpcOther
<1>21. CASE PauseGather
  BY <1>0, <1>21 DEF PauseGather, rpcOther
<1>22. CASE PauseDone
  <2>1. rpc = "kv" /\ rpc' = "paused" /\ UNCHANGED <<proc, mon, main>> /\ lock' = Tail(lock)
    BY <1>22 DEF PauseDone, rpcOther
  <2>2. lock # <<>> /\ Head(lock) = "rpc"
    BY <1>0, <2>1
  <2>3. Waiters' = Waiters \ {Head(lock)}
    BY <2>1, <2>2
  <2> QED
    BY <2>1, <2>2, <2>3
<1>23. CASE UpdateCall
  BY <1>0, <1>23 DEF UpdateCall, rpcOther
<1>24. CASE UpdateSize
  BY <1>0, <1>24 DEF UpdateSize, rpcOther
<1>25. CASE UpdateReply
  BY <1>0, <1>25 DEF UpdateReply, rpcOther
<1>26. CASE UpdatePutVal
  <2>1. rpc = "putVal" /\ rpc' = "resume" /\ UNCHANGED <<proc, mon, main>> /\ lock' = Tail(lock)
    BY <1>26 DEF UpdatePutVal, rpcOther
  <2>2. lock # <<>> /\ Head(lock) = "rpc"
    BY <1>0, <2>1
  <2>3. Waiters' = Waiters \ {Head(lock)}
    BY <2>1, <2>2
  <2> QED
    BY <2>1, <2>2, <2>3
<1>27. CASE ResumeCall
  BY <1>0, <1>27 DEF ResumeCall, rpcOther
<1>28. CASE ResumeServers
  BY <1>0, <1>28 DEF ResumeServers, rpcOther
<1>29. CASE ResumeDone
  BY <1>0, <1>29 DEF ResumeDone, rpcOther, Notify
<1>30. CASE RollUpdate
  BY <1>30 DEF RollUpdate, UpdateLocked, rpcOther
<1>31. CASE SyncStart \/ SyncVersion \/ SyncWeights
  BY <1>31 DEF SyncStart, SyncVersion, SyncWeights
<1>32. CASE Collect \/ Train \/ LogStep \/ FinalLog \/ LastLog
  <2>1. UNCHANGED rollVars
    BY <1>32 DEF Collect, Train, LogStep, FinalLog, LastLog, Log
  <2> QED
    BY <2>1 DEF rollVars
<1>33. CASE UNCHANGED vars
  BY <1>33 DEF vars, rollVars
<1> QED
  BY <1>1, <1>2, <1>3, <1>4, <1>5, <1>6, <1>7, <1>8, <1>9, <1>10, <1>11, <1>12,
     <1>13, <1>14, <1>15, <1>16, <1>17, <1>18, <1>19, <1>20, <1>21, <1>22,
     <1>23, <1>24, <1>25, <1>26, <1>27, <1>28, <1>29, <1>30, <1>31, <1>32,
     <1>33
  DEF Next, RollNext, ProcNext, MonNext, MainNext, TrainerNext, JobEnd

LEMMA LockHolds == Spec => []LockInv
<1>1. Init => LockInv
  <2> SUFFICES ASSUME Init PROVE LockInv
    OBVIOUS
  <2>1. proc = "top" /\ mon = "sleep" /\ main = "wait" /\ rpc = "none" /\ lock = <<>>
    BY DEF Init, RollInit
  <2>2. Waiters = {}
    BY <2>1 DEF Waiters, ProcIn, MonIn, RpcIn, RpcOwns
  <2>3. Fifo(lock, Waiters)
    BY <2>1, <2>2 DEF Fifo
  <2> QED
    BY <2>1, <2>3 DEF LockInv, Labels, ProcIn, MonIn, RpcIn, RpcOwns
<1>2. LockInv /\ [Next]_vars => LockInv'
  BY LockSteps, LockKept
<1> QED
  BY <1>1, <1>2, PTL DEF Spec

------------------------------------------------------------------------------
(* Types                                                                     *)

CoreType ==
  /\ fed \in 0 .. DONE /\ taken \in 0 .. DONE /\ hand \in 0 .. DONE
  /\ cancel_queue \in Seq(Samples)
  /\ task \in [Samples -> {"none", "gen", "cut", "put", "done", "err"}]
  /\ stamp \in [Samples -> Nat]
  /\ fails \in 0 .. MaxFail

LEMMA CoreTypeStep == CoreType /\ SyncInv /\ [Next]_vars => CoreType'
<1> SUFFICES ASSUME CoreType, SyncInv, [Next]_vars PROVE CoreType'
  OBVIOUS
<1> USE DEF CoreType
<1>0. DONE = Total + 1 /\ Total \in Nat /\ Samples \subseteq 0 .. DONE
  BY SMTT(30) DEF DONE, Samples
<1>1. CASE Feed
  BY SMTT(30), <1>0, <1>1 DEF Feed
<1>2. CASE ProcTop \/ ProcSetPaused \/ ProcDrain \/ ProcDrainLocked \/ ProcIdle
           \/ ProcWoken
  BY <1>2 DEF ProcTop, ProcSetPaused, ProcDrain, ProcDrainLocked, ProcIdle, ProcWoken,
              procOther
<1>3. CASE ProcTakeCancelled
  <2>1. /\ cancel_queue # <<>> /\ hand' = Head(cancel_queue)
        /\ cancel_queue' = Tail(cancel_queue)
        /\ UNCHANGED <<fed, taken, task, stamp, fails>>
    BY <1>3 DEF ProcTakeCancelled, procOther
  <2>2. Head(cancel_queue) \in Samples /\ Tail(cancel_queue) \in Seq(Samples)
    BY <2>1
  <2> QED
    BY <1>0, <2>1, <2>2
<1>4. CASE ProcTakePending
  BY SMTT(30), <1>0, <1>4 DEF ProcTakePending, procOther
<1>5. CASE ProcCollect
  BY <1>5 DEF ProcCollect, procOther
<1>6. CASE ProcSubmit
  BY SMTT(30), <1>0, <1>6 DEF ProcSubmit, procOther
<1>7. CASE TaskNext
  <2>1. PICK s \in Samples : \/ Generated(s) \/ PutSample(s) \/ CutShort(s)
                             \/ Interrupted(s) \/ Fails(s)
    BY <1>7 DEF TaskNext
  <2>2. CASE Generated(s)
    BY <2>2 DEF Generated, taskOther, SyncInv
  <2>3. CASE PutSample(s)
    BY <2>3 DEF PutSample, taskOther
  <2>4. CASE CutShort(s)
    BY <2>4 DEF CutShort, taskOther
  <2>5. CASE Interrupted(s)
    BY <2>5 DEF Interrupted, taskOther
  <2>6. CASE Fails(s)
    BY <2>6 DEF Fails, taskOther
  <2> QED
    BY <2>1, <2>2, <2>3, <2>4, <2>5, <2>6
<1>8. CASE MonNext \/ MainNext
  BY <1>8 DEF MonNext, MainNext, MonWake, MonSet, MonLoop, MainPut, MainStop, monOther,
              mainOther, coreVars
<1>9. CASE PauseGather
  BY <1>9 DEF PauseGather, rpcOther
<1>10. CASE PauseCall \/ PauseLocked \/ PauseCancel \/ PauseDone \/ UpdateCall
            \/ UpdateSize \/ UpdateReply \/ UpdatePutVal \/ ResumeCall
            \/ ResumeServers \/ ResumeDone \/ RollUpdate
  BY <1>10 DEF PauseCall, PauseLocked, PauseCancel, PauseDone, UpdateCall, UpdateSize,
               UpdateReply, UpdatePutVal, ResumeCall, ResumeServers, ResumeDone,
               RollUpdate, UpdateLocked, rpcOther
<1>11. CASE TrainerNext \/ UNCHANGED vars
  <2>1. UNCHANGED coreVars
    BY <1>11 DEF TrainerNext, Collect, Train, SyncStart, SyncVersion, SyncWeights,
                 LogStep, FinalLog, LastLog, Log, vars, rollVars
  <2> QED
    BY <2>1 DEF coreVars
<1> QED
  BY <1>1, <1>2, <1>3, <1>4, <1>5, <1>6, <1>7, <1>8, <1>9, <1>10, <1>11
  DEF Next, RollNext, ProcNext, JobEnd

CtlType ==
  /\ why \in {"pause", "done", "cap"} /\ cpu \in {"none"} \cup Coroutines
  /\ bound \in BOOLEAN /\ paused \in BOOLEAN /\ running \in BOOLEAN
  /\ monitor_trigger \in BOOLEAN /\ server_paused \in BOOLEAN
  /\ cnt \in Nat /\ staleness_samples \in Nat

LEMMA CtlTypeStep == CtlType /\ CoreType /\ MQTypeOK /\ [Next]_vars => CtlType'
<1> SUFFICES ASSUME CtlType, CoreType, MQTypeOK, [Next]_vars PROVE CtlType'
  OBVIOUS
<1> USE DEF CtlType, Coroutines, Request, Keep, Yield
<1>1. CASE Feed \/ TaskNext
  <2>1. UNCHANGED <<why, bound, cnt, cpu, ctlVars>>
    BY <1>1 DEF Feed, TaskNext, Generated, PutSample, CutShort, Interrupted, Fails,
                taskOther
  <2> QED
    BY <2>1 DEF ctlVars
<1>2. CASE ProcTop
  BY <1>2 DEF ProcTop, procOther
<1>3. CASE ProcSetPaused \/ ProcTakeCancelled \/ ProcCollect \/ ProcIdle \/ ProcSubmit
  BY <1>3 DEF ProcSetPaused, ProcTakeCancelled, ProcCollect, ProcIdle, ProcSubmit,
              procOther
<1>4. CASE ProcTakePending
  BY <1>4 DEF ProcTakePending, procOther
<1>5. CASE ProcDrain \/ ProcDrainLocked \/ ProcWoken
  BY <1>5 DEF ProcDrain, ProcDrainLocked, ProcWoken, procOther
<1>6. CASE MonWake \/ MonSet \/ MonLoop
  BY <1>6 DEF MonWake, MonSet, MonLoop, monOther
<1>7. CASE MainPut \/ MainStop
  BY <1>7 DEF MainPut, MainStop, mainOther
<1>8. CASE PauseCall \/ PauseLocked \/ PauseCancel \/ PauseGather \/ PauseDone
  BY <1>8 DEF PauseCall, PauseLocked, PauseCancel, PauseGather, PauseDone, rpcOther
<1>9. CASE UpdateCall \/ UpdatePutVal \/ UpdateReply
  BY <1>9 DEF UpdateCall, UpdatePutVal, UpdateReply, rpcOther
<1>10. CASE UpdateSize
  <2>1. Len(queue) \in Nat
    BY DEF MQTypeOK
  <2> QED
    BY <1>10, <2>1 DEF UpdateSize, rpcOther
<1>11. CASE ResumeCall \/ ResumeServers \/ ResumeDone
  BY <1>11 DEF ResumeCall, ResumeServers, ResumeDone, rpcOther
<1>12. CASE RollUpdate
  <2>1. Cardinality(Active) \in Nat /\ Len(cancel_queue) \in Nat
    BY ActiveFinite DEF CoreType
  <2> QED
    BY <1>12, <2>1 DEF RollUpdate, UpdateLocked, rpcOther
<1>13. CASE TrainerNext \/ UNCHANGED vars
  <2>1. UNCHANGED <<why, bound, cnt, cpu, ctlVars>>
    BY <1>13 DEF TrainerNext, Collect, Train, SyncStart, SyncVersion, SyncWeights,
                 LogStep, FinalLog, LastLog, Log, vars, rollVars
  <2> QED
    BY <2>1 DEF ctlVars
<1> QED
  BY <1>1, <1>2, <1>3, <1>4, <1>5, <1>6, <1>7, <1>8, <1>9, <1>10, <1>11, <1>12, <1>13
  DEF Next, RollNext, ProcNext, MonNext, MainNext, JobEnd

\* Every message in the queue is a sample or the finish signal.
LEMMA MQTypeStep == MQTypeOK /\ CoreType /\ SyncInv /\ [Next]_vars => MQTypeOK'
<1> SUFFICES ASSUME MQTypeOK, CoreType, SyncInv, [Next]_vars PROVE MQTypeOK'
  OBVIOUS
<1>1. ASSUME NEW m \in Msg, put_sample(m) PROVE MQTypeOK'
  <2>1. (IF Full THEN Tail(queue) ELSE queue) \in Seq(Msg)
    BY MaxRequiredType DEF MQTypeOK, Full
  <2>2. Len(IF Full THEN Tail(queue) ELSE queue) < MaxRequired
    BY MaxRequiredType DEF MQTypeOK, Full
  <2>3. queue' \in Seq(Msg) /\ Len(queue') <= MaxRequired
    BY <1>1, <2>1, <2>2, MaxRequiredType DEF put_sample
  <2> QED
    BY <1>1, <2>3 DEF put_sample, MQTypeOK
<1>2. CASE TaskNext
  <2>1. PICK s \in Samples : \/ Generated(s) \/ PutSample(s) \/ CutShort(s)
                             \/ Interrupted(s) \/ Fails(s)
    BY <1>2 DEF TaskNext
  <2>2. CASE PutSample(s)
    <3>1. [id |-> s, ver |-> stamp[s]] \in Msg
      BY DEF Msg, CoreType
    <3> QED
      BY <1>1, <2>2, <3>1 DEF PutSample
  <2>3. CASE Generated(s) \/ CutShort(s) \/ Interrupted(s) \/ Fails(s)
    BY <2>3 DEF Generated, CutShort, Interrupted, Fails, msgVars, MQTypeOK
  <2> QED
    BY <2>1, <2>2, <2>3
<1>3. CASE MainPut
  BY <1>1, <1>3 DEF MainPut, Msg
<1>4. CASE UpdatePutVal
  BY <1>4 DEF UpdatePutVal, put_validate, MQTypeOK, SyncInv
<1>5. CASE Feed \/ ProcNext \/ MonNext \/ MainStop
  BY <1>5 DEF Feed, ProcNext, ProcTop, ProcSetPaused, ProcTakeCancelled, ProcTakePending,
              ProcDrain, ProcDrainLocked, ProcCollect, ProcIdle, ProcSubmit, ProcWoken,
              MonNext, MonWake, MonSet, MonLoop, MainStop, procOther, monOther, msgVars,
              MQTypeOK
<1>6. CASE RpcMoves \/ RollUpdate
  BY <1>6 DEF RpcMoves, PauseCall, PauseLocked, PauseCancel, PauseGather, PauseDone,
              UpdateCall, UpdateSize, UpdateReply, ResumeCall, ResumeServers, ResumeDone,
              RollUpdate, UpdateLocked, msgVars, MQTypeOK
<1>7. CASE Collect
  <2>1. queue # <<>> /\ queue' = Tail(queue)
    BY <1>7 DEF Collect, get_sample
  <2>2. queue' \in Seq(Msg) /\ Len(queue') <= MaxRequired
    BY <2>1, MaxRequiredType DEF MQTypeOK
  <2> QED
    BY <1>7, <2>2 DEF Collect, get_sample, MQTypeOK
<1>8. CASE Train \/ SyncStart \/ SyncWeights \/ UNCHANGED vars
  BY <1>8 DEF Train, SyncStart, SyncWeights, vars, msgVars, MQTypeOK
<1>9. CASE SyncVersion
  BY <1>9 DEF SyncVersion, update_param_version, MQTypeOK, SyncInv
<1>10. CASE LogStep \/ FinalLog \/ LastLog
  <2>1. get_validate
    BY <1>10 DEF LogStep, FinalLog, LastLog, Log
  <2>2. val_queue' \in Seq(Nat)
    BY <2>1 DEF get_validate, MQTypeOK
  <2> QED
    BY <2>1, <2>2 DEF get_validate, MQTypeOK
<1> QED
  BY <1>2, <1>3, <1>4, <1>5, <1>6, <1>7, <1>8, <1>9, <1>10
  DEF Next, RollNext, RpcMoves, MainNext, TrainerNext, JobEnd

TrType ==
  /\ batch \in Seq([id : Samples, ver : Nat]) /\ Len(batch) <= Required
  /\ local_trigger_step \in 1 .. Trigger
  /\ trained \in Seq(Samples)
  /\ tr = "collect" => Len(batch) < Required
  /\ tr \notin {"collect", "train"} => batch = <<>>

LEMMA AppendType ==
  ASSUME NEW S, NEW s \in Seq(S), NEW e \in S
  PROVE  Append(s, e) \in Seq(S) /\ Len(Append(s, e)) = Len(s) + 1
  OBVIOUS

LEMMA ElementType ==
  ASSUME NEW S, NEW s \in Seq(S), NEW i \in 1 .. Len(s)
  PROVE  s[i] \in S
  OBVIOUS

LEMMA SeqSubset ==
  ASSUME NEW S, NEW T, S \subseteq T, NEW s \in Seq(S)
  PROVE  s \in Seq(T)
  OBVIOUS

LEMMA IdsType ==
  ASSUME NEW s \in Seq([id : Samples, ver : Nat])
  PROVE  /\ Ids(s) \in Seq(Samples) /\ Len(Ids(s)) = Len(s)
         /\ \A i \in 1 .. Len(s) : Ids(s)[i] = s[i].id
<1>1. Len(s) \in Nat
  OBVIOUS
<1>2. \A i \in 1 .. Len(s) : s[i] \in [id : Samples, ver : Nat]
  BY ElementType
<1>3. \A i \in 1 .. Len(s) : s[i].id \in Samples
  BY <1>2
<1> QED
  BY <1>1, <1>3 DEF Ids

LEMMA TrTypeStep == TrType /\ MQTypeOK /\ SyncInv /\ [Next]_vars => TrType'
<1> SUFFICES ASSUME TrType, MQTypeOK, SyncInv, [Next]_vars PROVE TrType'
  OBVIOUS
<1>0. Required \in Nat /\ Required >= 1 /\ Trigger \in Nat /\ Trigger >= 1
  OBVIOUS
<1>1. CASE UNCHANGED trVars
  BY <1>1 DEF trVars, TrType
<1>2. CASE Collect
  <2>1. CASE Head(queue) = None
    BY <1>0, <1>2, <2>1 DEF Collect, TrType
  <2>2. CASE Head(queue) # None
    <3>1. Head(queue) \in [id : Samples, ver : Nat]
      BY <1>2, <2>2 DEF Collect, get_sample, MQTypeOK, Msg
    <3>2. /\ batch' = Append(batch, Head(queue)) /\ tr = "collect"
          /\ tr' = IF Len(batch') = Required THEN "train" ELSE "collect"
          /\ UNCHANGED <<local_trigger_step, trained>>
      BY <1>2, <2>2 DEF Collect
    <3>3. batch' \in Seq([id : Samples, ver : Nat]) /\ Len(batch') = Len(batch) + 1
      BY <3>1, <3>2, AppendType DEF TrType
    <3>4. Len(batch') <= Required /\ Len(batch) \in Nat
      BY <1>0, <3>2, <3>3 DEF TrType
    <3> QED
      BY SMTT(30), <1>0, <3>2, <3>3, <3>4 DEF TrType
  <2> QED
    BY <2>1, <2>2
<1>3. CASE Train
  <2>1. [i \in 1 .. Len(batch) |-> batch[i].id] \in Seq(Samples)
    BY IdsType DEF TrType, Ids
  <2>2. trained' \in Seq(Samples)
    BY SMTT(30), <1>3, <2>1 DEF Train, TrType
  <2>3. batch' = <<>> /\ local_trigger_step' \in 1 .. Trigger /\ tr' # "collect"
    BY <1>0, <1>3 DEF Train, TrType
  <2> QED
    BY <1>0, <2>2, <2>3 DEF TrType
<1>4. CASE SyncStart \/ SyncWeights
  <2>1. /\ UNCHANGED <<batch, local_trigger_step, trained>>
        /\ tr \in {"wait", "sync"} /\ tr' # "collect"
    BY <1>4 DEF SyncStart, SyncWeights
  <2> QED
    BY <2>1 DEF TrType
<1>5. CASE LogStep \/ FinalLog \/ LastLog
  BY SMTT(30), <1>0, <1>5 DEF LogStep, FinalLog, LastLog, Log, TrType
<1> QED
  BY <1>1, <1>2, <1>3, <1>4, <1>5
  DEF Next, RollUpdate, SyncVersion, TrainerNext, JobEnd, vars

Types == CoreType /\ CtlType /\ MQTypeOK /\ TrType

LEMMA TypesHold == Spec => []Types
<1>1. Init => Types
  <2> SUFFICES ASSUME Init PROVE Types
    OBVIOUS
  <2>1. CoreType
    BY DEF Init, RollInit, CoreType, DONE
  <2>2. CtlType
    BY DEF Init, RollInit, CtlType
  <2>3. MQTypeOK
    BY MaxRequiredType DEF Init, MQTypeOK
  <2>4. TrType
    BY DEF Init, TrType
  <2> QED
    BY <2>1, <2>2, <2>3, <2>4 DEF Types
<1>2. SyncInv /\ Types /\ [Next]_vars => Types'
  BY CoreTypeStep, CtlTypeStep, MQTypeStep, TrTypeStep DEF Types
<1> QED
  BY <1>1, <1>2, SyncHolds, PTL DEF Spec

(* Every variable of the job keeps its type and the deque its bound: the     *)
(* batch never outgrows required_samples, whatever the trainer is sent, and  *)
(* a coroutine that releases the lock is in it.                              *)
THEOREM TypeCorrect == Spec => []TypeOK
<1>1. SyncInv /\ LogInv /\ LockInv /\ Types => TypeOK
  <2> SUFFICES ASSUME SyncInv, LogInv, LockInv, Types PROVE TypeOK
    OBVIOUS
  <2>1. /\ proc \in {"top", "setPaused", "take", "get", "drain", "drainLock", "wait",
                     "idleLock", "idle", "idleWoken", "submitLock", "subWait",
                     "subWoken", "end", "crashed"}
        /\ mon \in {"sleep", "setLock", "loopLock", "end"}
        /\ main \in {"wait", "put", "putLock", "end"}
        /\ rpc \in {"none", "pause", "pauseLock", "cancel", "gather", "kv", "paused",
                    "sync", "update", "updateLock", "size", "reply", "putVal",
                    "resume", "resumeLock", "resumed"}
    BY DEF LockInv, Labels, ProcIn, MonIn, RpcIn, RpcOwns
  <2>2. lock \in Seq({"proc", "mon", "main", "rpc"})
    BY DEF LockInv, Fifo, Coroutines
  <2>3. cpu \in {"none", "proc", "mon", "main", "rpc"}
    BY DEF Types, CtlType, Coroutines
  <2>4. version \in Nat
    BY DEF SyncInv
  <2>5. {paused, running, monitor_trigger, server_paused} \subseteq BOOLEAN
    BY Zenon DEF Types, CtlType
  <2>6. RollTypeOK
    BY <2>1, <2>2, <2>3, <2>4, <2>5, Zenon DEF Types, CoreType, CtlType, RollTypeOK
  <2>7. tr_version \in Nat /\ weights \in Nat
    BY DEF SyncInv
  <2> QED
    BY <2>6, <2>7, Zenon DEF TypeOK, Types, TrType, SyncInv, LogInv, Numbered
<1> QED
  BY <1>1, SyncHolds, LogHolds, LockHolds, TypesHold, PTL

------------------------------------------------------------------------------
(* The tasks and the finish signal                                           *)

\* The tasks that may still put a sample.
Live == {s \in Samples : task[s] \in {"gen", "cut", "put"}}

\* Never more tasks than max_concurrent_samples, one less while a sample
\* waits to be submitted and once the processor has ended; none between the
\* gather of pause() and its end.
CapInv ==
  /\ Cardinality(Active) <= MaxConcurrent
  /\ proc \in {"submitLock", "subWait", "subWoken"} => Cardinality(Active) < MaxConcurrent
  /\ proc \in {"end", "crashed"} => Cardinality(Live) < MaxConcurrent
  /\ main # "wait" => proc \in {"end", "crashed"}
  /\ rpc = "kv" => Active = {}

LEMMA LiveFinite ==
  IsFiniteSet(Live) /\ Cardinality(Live) \in Nat /\ Cardinality(Live) <= Cardinality(Active)
<1>1. Live \in SUBSET Active
  BY DEF Live, Active
<1> QED
  BY <1>1, ActiveFinite, FS_Subset, FS_CardinalityType

LEMMA CapKept ==
  ASSUME CapInv, Active' \subseteq Active, Live' \subseteq Live,
         proc' = proc \/ proc' \notin {"submitLock", "subWait", "subWoken", "end", "crashed"}
           \/ (proc = "subWait" /\ proc' = "subWoken"),
         main' = main, proc \in {"end", "crashed"} => proc' = proc,
         rpc' = "kv" => rpc = "kv"
  PROVE  CapInv'
<1>1. Cardinality(Active') <= Cardinality(Active) /\ Cardinality(Active') \in Nat
  BY ActiveFinite, FS_Subset, FS_CardinalityType
<1>2. Cardinality(Live') <= Cardinality(Live) /\ Cardinality(Live') \in Nat
  BY LiveFinite, FS_Subset, FS_CardinalityType
<1>3. rpc' = "kv" => Active' = {}
  BY DEF CapInv
<1> HIDE DEF Active, Live
<1> QED
  BY <1>1, <1>2, <1>3, ActiveFinite, LiveFinite, MaxConcurrentType DEF CapInv

LEMMA CapStep == CapInv /\ LockInv /\ CoreType /\ [Next]_vars => CapInv'
<1> SUFFICES ASSUME CapInv, LockInv, CoreType, [Next]_vars PROVE CapInv'
  OBVIOUS
<1>a. ASSUME UNCHANGED task PROVE Active' = Active /\ Live' = Live
  BY <1>a DEF Active, Live
<1>b. /\ Cardinality(Active) \in Nat /\ Cardinality(Live) \in Nat /\ MaxConcurrent \in Nat
      /\ MaxConcurrent >= 1 /\ Cardinality(Live) <= Cardinality(Active)
  BY ActiveFinite, LiveFinite, MaxConcurrentType
<1>1. CASE Feed
  BY <1>1, <1>a, CapKept DEF Feed
<1>2. CASE ProcTop \/ ProcSetPaused \/ ProcTakeCancelled \/ ProcTakePending \/ ProcIdle
  BY <1>2, <1>a, CapKept DEF ProcTop, ProcSetPaused, ProcTakeCancelled, ProcTakePending,
                             ProcIdle, procOther
<1>3. CASE ProcDrain
  <2>1. UNCHANGED <<task, main, rpc, why>> /\ proc = "drain"
    BY <1>3 DEF ProcDrain, procOther
  <2>2. Active' = Active /\ Live' = Live
    BY <2>1, <1>a
  <2>3. \/ proc' \in {"drainLock", "idleLock"}
        \/ proc' = "submitLock" /\ ~ (Cardinality(Active) >= MaxConcurrent)
        \/ proc' = "end" /\ Active = {}
    BY <1>3 DEF ProcDrain, DrainMore
  <2>4. Active = {} => Cardinality(Live) = 0
    BY FS_EmptySet DEF Active, Live
  <2> QED
    BY <1>b, <2>1, <2>2, <2>3, <2>4 DEF CapInv
<1>4. CASE ProcDrainLocked
  <2>1. UNCHANGED <<task, main, rpc>> /\ proc = "drainLock"
    BY <1>4 DEF ProcDrainLocked, procOther
  <2>2. Active' = Active /\ Live' = Live
    BY <2>1, <1>a
  <2>3. proc' \in {"wait", "drain"} \/ (proc' = "crashed" /\ Active = {})
    BY <1>4 DEF ProcDrainLocked
  <2>4. Active = {} => Cardinality(Live) = 0
    BY FS_EmptySet DEF Active, Live
  <2> QED
    BY <1>b, <2>1, <2>2, <2>3, <2>4 DEF CapInv
<1>5. CASE ProcCollect
  <2>1. /\ task' = [s \in Samples |-> IF s \in Finished THEN "none" ELSE task[s]]
        /\ UNCHANGED <<main, rpc>> /\ proc = "wait"
        /\ IF \E s \in Samples : task[s] = "err" THEN proc' = "crashed" ELSE proc' = "drain"
    BY <1>5 DEF ProcCollect, procOther
  <2>2. Active' \subseteq Active /\ Live' = Live
    BY <2>1 DEF Active, Live, Finished
  <2>3. CASE \E s \in Samples : task[s] = "err"
    <3>1. PICK s \in Samples : task[s] = "err"
      BY <2>3
    <3>2. Live \in SUBSET (Active \ {s}) /\ s \in Active
      BY <3>1 DEF Live, Active
    <3>3. Cardinality(Live) <= Cardinality(Active \ {s})
          /\ Cardinality(Active \ {s}) = Cardinality(Active) - 1
      BY <3>2, ActiveFinite, FS_RemoveElement, FS_Subset
    <3>4. Cardinality(Live') < MaxConcurrent
      BY <1>b, <2>2, <3>3 DEF CapInv
    <3>5. Cardinality(Active') <= MaxConcurrent
      <4>1. Cardinality(Active') <= Cardinality(Active) /\ Cardinality(Active') \in Nat
        BY <2>2, ActiveFinite, FS_Subset, FS_CardinalityType
      <4> QED
        BY <1>b, <4>1 DEF CapInv
    <3>6. rpc' = "kv" => Active' = {}
      BY <2>1, <2>2 DEF CapInv
    <3> QED
      BY <2>1, <2>3, <3>4, <3>5, <3>6 DEF CapInv
  <2>4. CASE ~ \E s \in Samples : task[s] = "err"
    BY <2>1, <2>2, <2>4, CapKept
  <2> QED
    BY <2>3, <2>4
<1>6. CASE ProcSubmit
  <2>1. UNCHANGED <<main, rpc>> /\ proc = "submitLock" /\ Holds("proc")
    BY <1>6 DEF ProcSubmit, procOther
  <2>2. CASE paused
    <3>1. proc' = "subWait" /\ UNCHANGED task
      BY <1>6, <2>2 DEF ProcSubmit
    <3> QED
      BY <1>a, <1>b, <2>1, <3>1 DEF CapInv
  <2>3. CASE ~ paused
    <3>1. proc' = "top" /\ task' = [task EXCEPT ![hand] = "gen"]
      BY <1>6, <2>3 DEF ProcSubmit
    <3>2. Active' \in SUBSET (Active \cup {hand})
      BY <3>1 DEF Active, CoreType
    <3>3. /\ Cardinality(Active') <= Cardinality(Active \cup {hand})
          /\ Cardinality(Active \cup {hand}) <= Cardinality(Active) + 1
          /\ Cardinality(Active \cup {hand}) \in Nat /\ Cardinality(Active') \in Nat
      BY SMTT(30), <1>b, <3>2, ActiveFinite, FS_AddElement, FS_Subset, FS_CardinalityType
    <3>4. rpc # "kv"
      BY <2>1 DEF LockInv, Holds, RpcOwns
    <3> QED
      BY <1>b, <2>1, <3>1, <3>3, <3>4 DEF CapInv
  <2> QED
    BY <2>2, <2>3
<1>7. CASE ProcWoken
  BY <1>7, <1>a DEF ProcWoken, procOther, CapInv
<1>8. CASE TaskNext
  <2>1. Active' \subseteq Active /\ Live' \subseteq Live
    BY <1>8 DEF TaskNext, Generated, PutSample, CutShort, Interrupted, Fails, Active, Live,
                CoreType
  <2>2. UNCHANGED <<proc, main, rpc>>
    BY <1>8 DEF TaskNext, Generated, PutSample, CutShort, Interrupted, Fails, taskOther
  <2> QED
    BY <2>1, <2>2, CapKept
<1>9. CASE MonNext
  <2>1. UNCHANGED <<task, main, rpc>>
    BY <1>9 DEF MonNext, MonWake, MonSet, MonLoop, monOther, coreVars
  <2>2. proc' = proc \/ (proc = "idle" /\ proc' = "idleWoken")
        \/ (proc = "subWait" /\ proc' = "subWoken")
    BY <1>9 DEF MonNext, MonWake, MonSet, MonLoop, Notify
  <2> QED
    BY <1>a, <2>1, <2>2, CapKept
<1>10. CASE MainNext
  <2>1. UNCHANGED <<task, proc, rpc>> /\ (main = "wait" => proc \in {"end", "crashed"})
    BY <1>10 DEF MainNext, MainPut, MainStop, mainOther, coreVars
  <2> QED
    BY <1>a, <2>1 DEF CapInv
<1>11. CASE PauseGather
  <2>1. /\ task' = [s \in Samples |-> "none"] /\ UNCHANGED <<proc, main>>
    BY <1>11 DEF PauseGather, rpcOther
  <2>2. Active' = {} /\ Live' = {}
    BY <2>1 DEF Active, Live
  <2>3. Cardinality(Active') = 0 /\ Cardinality(Live') = 0
    BY <2>2, FS_EmptySet
  <2> QED
    BY <1>b, <2>1, <2>2, <2>3 DEF CapInv
<1>12. CASE PauseCall \/ PauseLocked \/ PauseCancel \/ PauseDone \/ UpdateCall
            \/ UpdateSize \/ UpdateReply \/ UpdatePutVal \/ ResumeCall
            \/ ResumeServers \/ RollUpdate
  <2>1. UNCHANGED <<task, proc, main>> /\ rpc' # "kv"
    BY <1>12 DEF PauseCall, PauseLocked, PauseCancel, PauseDone, UpdateCall, UpdateSize,
                 UpdateReply, UpdatePutVal, ResumeCall, ResumeServers, RollUpdate,
                 UpdateLocked, rpcOther
  <2> QED
    BY <1>a, <2>1, CapKept
<1>13. CASE ResumeDone
  <2>1. UNCHANGED <<task, main>> /\ rpc' = "none"
    BY <1>13 DEF ResumeDone, rpcOther
  <2>2. proc' = proc \/ (proc = "idle" /\ proc' = "idleWoken")
        \/ (proc = "subWait" /\ proc' = "subWoken")
    BY <1>13 DEF ResumeDone, Notify
  <2> QED
    BY <1>a, <2>1, <2>2, CapKept
<1>14. CASE TrainerNext \/ UNCHANGED vars
  <2>1. UNCHANGED <<task, proc, main>> /\ (rpc' = "kv" => rpc = "kv")
    BY <1>14 DEF TrainerNext, Collect, Train, SyncStart, SyncVersion, SyncWeights,
                 LogStep, FinalLog, LastLog, Log, vars, rollVars, coreVars
  <2> QED
    BY <1>a, <2>1, CapKept
<1> QED
  BY <1>1, <1>2, <1>3, <1>4, <1>5, <1>6, <1>7, <1>8, <1>9, <1>10, <1>11, <1>12, <1>13,
     <1>14
  DEF Next, RollNext, ProcNext, JobEnd

LEMMA CapHolds == Spec => []CapInv
<1>1. Init => CapInv
  <2> SUFFICES ASSUME Init PROVE CapInv
    OBVIOUS
  <2>1. proc = "top" /\ main = "wait" /\ rpc = "none" /\ Active = {}
    BY DEF Init, RollInit, Active
  <2>2. Cardinality(Active) = 0
    BY <2>1, FS_EmptySet
  <2> QED
    BY <2>1, <2>2, MaxConcurrentType DEF CapInv
<1>2. CapInv /\ LockInv /\ Types /\ [Next]_vars => CapInv'
  BY CapStep DEF Types
<1> QED
  BY <1>1, <1>2, LockHolds, TypesHold, PTL DEF Spec

\* While the trainer still waits for it, the finish signal is in the queue,
\* and the samples behind it together with those that may still come are too
\* few to push it out.
Wanted == main # "wait" /\ tr \in {"log", "collect", "train", "wait", "sync"} /\ ~ final

SignalAt(p) == /\ p \in 1 .. Len(queue) /\ queue[p] = None
               /\ (Len(queue) - p) + Cardinality(Live) < MaxConcurrent

MarkerInv == Wanted => \E p \in 1 .. Len(queue) : SignalAt(p)

LEMMA MarkerKept ==
  ASSUME MarkerInv, UNCHANGED queue, Live' \subseteq Live, Wanted' => Wanted,
         MQTypeOK
  PROVE  MarkerInv'
<1> SUFFICES ASSUME Wanted' PROVE \E p \in 1 .. Len(queue') : SignalAt(p)'
  BY DEF MarkerInv
<1>1. PICK p \in 1 .. Len(queue) : SignalAt(p)
  BY DEF MarkerInv
<1>2. Cardinality(Live') <= Cardinality(Live) /\ Cardinality(Live') \in Nat
  BY LiveFinite, FS_Subset, FS_CardinalityType
<1>3. Len(queue) \in Nat /\ p \in Nat
  BY DEF MQTypeOK
<1>4. (Len(queue') - p) + Cardinality(Live') < MaxConcurrent
  BY <1>1, <1>2, <1>3, LiveFinite, MaxConcurrentType DEF SignalAt
<1> QED
  BY <1>1, <1>4 DEF SignalAt

LEMMA TailAt ==
  ASSUME NEW S, NEW s \in Seq(S), s # <<>>
  PROVE  /\ Tail(s) \in Seq(S) /\ Len(s) \in Nat \ {0} /\ Len(Tail(s)) = Len(s) - 1
         /\ Head(s) = s[1] /\ Head(s) \in S
         /\ \A p \in 2 .. Len(s) : p - 1 \in 1 .. Len(Tail(s)) /\ Tail(s)[p - 1] = s[p]
<1>1. /\ Tail(s) \in Seq(S) /\ Len(s) \in Nat \ {0} /\ Len(Tail(s)) = Len(s) - 1
      /\ Head(s) = s[1] /\ Head(s) \in S
  OBVIOUS
<1>2. \A k \in 1 .. Len(Tail(s)) : Tail(s)[k] = s[k + 1]
  OBVIOUS
<1>3. ASSUME NEW p \in 2 .. Len(s)
      PROVE  p - 1 \in 1 .. Len(Tail(s)) /\ Tail(s)[p - 1] = s[p]
  <2>1. p - 1 \in 1 .. Len(Tail(s)) /\ (p - 1) + 1 = p
    BY <1>1
  <2> QED
    BY <1>2, <2>1
<1> QED
  BY <1>1, <1>3

LEMMA MarkerStep == MarkerInv /\ CapInv /\ Types /\ [Next]_vars => MarkerInv'
<1> SUFFICES ASSUME MarkerInv, CapInv, Types, [Next]_vars PROVE MarkerInv'
  OBVIOUS
<1>a. ASSUME UNCHANGED task PROVE Live' = Live
  BY <1>a DEF Live
<1>b. /\ queue \in Seq(Msg) /\ Len(queue) \in Nat /\ Len(queue) <= MaxRequired
      /\ MaxRequired \in Nat \ {0} /\ MaxConcurrent \in Nat /\ MaxConcurrent <= MaxRequired
      /\ MQTypeOK /\ Cardinality(Live) \in Nat
  BY MaxRequiredType, MaxConcurrentType, LiveFinite DEF Types, MQTypeOK
<1>1. ASSUME NEW s \in Samples, PutSample(s), UNCHANGED trVars PROVE MarkerInv'
  <2> SUFFICES ASSUME Wanted' PROVE \E p \in 1 .. Len(queue') : SignalAt(p)'
    BY DEF MarkerInv
  <2> DEFINE m == [id |-> s, ver |-> stamp[s]]
  <2>1. /\ queue' = Append(IF Full THEN Tail(queue) ELSE queue, m)
        /\ task[s] = "put" /\ task' = [task EXCEPT ![s] = "done"]
        /\ UNCHANGED main
    BY <1>1 DEF PutSample, taskOther, put_sample
  <2>2. PICK p \in 1 .. Len(queue) : SignalAt(p)
    BY <1>1, <2>1 DEF MarkerInv, Wanted, trVars
  <2>3. m \in Msg
    BY DEF Msg, Types, CoreType
  <2> HIDE DEF m
  <2>4. Live' = Live \ {s} /\ s \in Live
    BY <2>1 DEF Live, Types, CoreType
  <2>5. Cardinality(Live') = Cardinality(Live) - 1 /\ Cardinality(Live) >= 1
    <3>1. Cardinality(Live') = Cardinality(Live) - 1 /\ Cardinality(Live') \in Nat
      BY <2>4, LiveFinite, FS_RemoveElement, FS_CardinalityType
    <3> QED
      BY <1>b, <3>1
  <2>6. CASE Full
    <3>1. p \in 2 .. Len(queue) /\ queue # <<>>
      BY <1>b, <2>2, <2>5, <2>6 DEF SignalAt, Full
    <3> DEFINE t == Tail(queue)
    <3>2. /\ t \in Seq(Msg) /\ Len(t) = Len(queue) - 1
          /\ p - 1 \in 1 .. Len(t) /\ t[p - 1] = queue[p]
      BY <1>b, <3>1, TailAt
    <3>3. queue' = Append(t, m)
      BY <2>1, <2>6
    <3> HIDE DEF t
    <3>4. /\ Len(queue') = Len(queue) /\ p - 1 \in 1 .. Len(queue')
          /\ queue'[p - 1] = None
      BY SMTT(30), <1>b, <2>2, <2>3, <3>2, <3>3 DEF SignalAt
    <3>5. SignalAt(p - 1)'
      BY SMTT(30), <1>b, <2>2, <2>5, <3>4 DEF SignalAt
    <3> QED
      BY <3>4, <3>5
  <2>7. CASE ~ Full
    <3>1. queue' = Append(queue, m)
      BY <2>1, <2>7
    <3>2. /\ Len(queue') = Len(queue) + 1 /\ p \in 1 .. Len(queue')
          /\ queue'[p] = None
      BY <1>b, <2>2, <2>3, <3>1 DEF SignalAt
    <3>3. SignalAt(p)'
      BY <1>b, <2>2, <2>5, <3>2 DEF SignalAt
    <3> QED
      BY <3>2, <3>3
  <2> QED
    BY <2>6, <2>7
<1>2. CASE MainPut
  <2>1. /\ queue' = Append(IF Full THEN Tail(queue) ELSE queue, None)
        /\ proc \in {"end", "crashed"} /\ UNCHANGED task
    BY <1>2 DEF MainPut, put_sample, mainOther, coreVars
  <2>2. (IF Full THEN Tail(queue) ELSE queue) \in Seq(Msg)
    BY <1>b DEF Full
  <2>3. /\ Len(queue') \in Nat \ {0} /\ queue'[Len(queue')] = None
    BY <2>1, <2>2, AppendType DEF Msg
  <2>4. Cardinality(Live') < MaxConcurrent
    BY <1>a, <2>1 DEF CapInv
  <2>5. SignalAt(Len(queue))'
    BY <1>b, <2>3, <2>4, <1>a, <2>1 DEF SignalAt
  <2> QED
    BY <2>3, <2>5 DEF MarkerInv
<1>3. CASE Collect
  <2>1. /\ queue # <<>> /\ queue' = Tail(queue) /\ tr = "collect"
        /\ UNCHANGED <<main, final, task>>
        /\ Head(queue) = None => tr' = "finalWait"
    BY <1>3 DEF Collect, get_sample, rollVars, coreVars
  <2> SUFFICES ASSUME Wanted' PROVE \E p \in 1 .. Len(queue') : SignalAt(p)'
    BY DEF MarkerInv
  <2>2. Head(queue) # None /\ Wanted
    BY <2>1 DEF Wanted
  <2>3. PICK p \in 1 .. Len(queue) : SignalAt(p)
    BY <2>2 DEF MarkerInv
  <2>4. p \in 2 .. Len(queue)
    BY <1>b, <2>1, <2>2, <2>3, TailAt DEF SignalAt
  <2>5. Len(queue') = Len(queue) - 1 /\ p - 1 \in 1 .. Len(queue') /\ queue'[p - 1] = queue[p]
    BY <1>b, <2>1, <2>4, TailAt
  <2>6. SignalAt(p - 1)'
    BY <1>a, <1>b, <2>1, <2>3, <2>5 DEF SignalAt
  <2> QED
    BY <2>5, <2>6
<1>4. CASE UNCHANGED vars
  BY <1>4, <1>a, <1>b, MarkerKept DEF vars, msgVars, rollVars, coreVars, trVars, Wanted
<1>5. CASE /\ UNCHANGED trVars
           /\ \E s \in Samples : Generated(s) \/ CutShort(s) \/ Interrupted(s) \/ Fails(s)
  <2>1. Live' \subseteq Live /\ UNCHANGED <<queue, main>>
    BY <1>5 DEF Generated, CutShort, Interrupted, Fails, Live, Types, CoreType, msgVars,
                taskOther
  <2> QED
    BY <1>5, <1>b, <2>1, MarkerKept DEF trVars, Wanted
<1>6. CASE UNCHANGED trVars /\ (Feed \/ MonNext \/ MainStop)
  <2>1. UNCHANGED <<queue, task>> /\ (main' = main \/ main # "wait")
    BY <1>6 DEF Feed, MonNext, MonWake, MonSet, MonLoop, MainStop, monOther, mainOther,
                coreVars, msgVars
  <2> QED
    BY <1>6, <1>a, <1>b, <2>1, MarkerKept DEF trVars, Wanted
<1>7. CASE UNCHANGED trVars /\ ProcNext
  <2>1. UNCHANGED <<queue, main>>
    BY <1>7 DEF ProcNext, ProcTop, ProcSetPaused, ProcTakeCancelled, ProcTakePending,
                ProcDrain, ProcDrainLocked, ProcCollect, ProcIdle, ProcSubmit, ProcWoken,
                procOther, msgVars
  <2>2. main = "wait" \/ Live' \subseteq Live
    <3>1. CASE ProcCollect
      BY <3>1 DEF ProcCollect, Live, Finished
    <3>2. CASE ProcSubmit
      BY <3>2 DEF ProcSubmit, CapInv
    <3>3. CASE ~ ProcCollect /\ ~ ProcSubmit
      BY <1>7, <1>a, <3>3 DEF ProcNext, ProcTop, ProcSetPaused, ProcTakeCancelled,
                 ProcTakePending, ProcDrain, ProcDrainLocked, ProcIdle, ProcWoken
    <3> QED
      BY <3>1, <3>2, <3>3
  <2> QED
    BY <1>7, <1>b, <2>1, <2>2, MarkerKept DEF trVars, Wanted, MarkerInv
<1>8. CASE UNCHANGED trVars /\ (RpcMoves \/ UpdatePutVal \/ UpdateLocked(weights))
  <2>1. UNCHANGED <<queue, main>>
    BY <1>8 DEF RpcMoves, PauseCall, PauseLocked, PauseCancel, PauseGather, PauseDone,
                UpdateCall, UpdateSize, UpdateReply, ResumeCall, ResumeServers, ResumeDone,
                UpdatePutVal, put_validate, UpdateLocked, rpcOther, msgVars
  <2>2. Live' \subseteq Live
    <3>1. CASE PauseGather
      BY <3>1 DEF PauseGather, Live
    <3>2. CASE ~ PauseGather
      BY <1>8, <1>a, <3>2 DEF RpcMoves, PauseCall, PauseLocked, PauseCancel, PauseDone,
                UpdateCall, UpdateSize, UpdateReply, ResumeCall, ResumeServers, ResumeDone,
                UpdatePutVal, UpdateLocked
    <3> QED
      BY <3>1, <3>2
  <2> QED
    BY <1>8, <1>b, <2>1, <2>2, MarkerKept DEF trVars, Wanted
<1>9. CASE Train \/ SyncStart \/ SyncVersion \/ SyncWeights \/ LogStep \/ FinalLog \/ LastLog
  <2>1. UNCHANGED <<queue, main, task>>
    BY <1>9 DEF Train, SyncStart, SyncVersion, SyncWeights, LogStep, FinalLog, LastLog, Log,
                update_param_version, get_validate, msgVars, rollVars, coreVars
  <2>2. Wanted' => Wanted
    BY <1>9, <2>1 DEF Train, SyncStart, SyncVersion, SyncWeights, LogStep, FinalLog,
                      LastLog, Log, trVars, Wanted
  <2> QED
    BY <1>a, <1>b, <2>1, <2>2, MarkerKept
<1> QED
  BY <1>1, <1>2, <1>3, <1>4, <1>5, <1>6, <1>7, <1>8, <1>9
  DEF Next, RollNext, RpcMoves, TaskNext, MainNext, TrainerNext, RollUpdate, JobEnd

(* _streaming_generation_main, for every size of queue, batch and pool: the  *)
(* finish signal stays in the bounded queue until the trainer takes it, also *)
(* when the processor crashed and left its tasks running, because they are   *)
(* fewer than the queue has places.                                          *)
THEOREM MarkerReachesTrainer == Spec => []MarkerSurvives
<1>1. Init => MarkerInv
  BY DEF Init, RollInit, MarkerInv, Wanted
<1>2. MarkerInv => MarkerSurvives
  BY DEF MarkerInv, Wanted, SignalAt, MarkerSurvives
<1> QED
  BY <1>1, <1>2, MarkerStep, CapHolds, TypesHold, PTL DEF Spec

------------------------------------------------------------------------------
(* Counting a sample in a sequence                                           *)

LEMMA ShiftCard ==
  ASSUME NEW S \in SUBSET Nat, IsFiniteSet(S), NEW n \in Nat
  PROVE  IsFiniteSet({i + n : i \in S}) /\ Cardinality({i + n : i \in S}) = Cardinality(S)
<1> DEFINE T == {i + n : i \in S}
           f == [i \in S |-> i + n]
<1>1. f \in Bijection(S, T)
  <2>1. f \in [S -> T]
    OBVIOUS
  <2>2. \A a, b \in S : f[a] = f[b] => a = b
    OBVIOUS
  <2>3. \A t \in T : \E a \in S : f[a] = t
    OBVIOUS
  <2> QED
    BY <2>1, <2>2, <2>3 DEF Bijection, Injection, Surjection, IsInjective
<1>2. ExistsBijection(S, T)
  BY <1>1 DEF ExistsBijection
<1> QED
  BY <1>2, FS_Bijection

LEMMA TimesType ==
  ASSUME NEW S, NEW q \in Seq(S), NEW s
  PROVE  /\ IsFiniteSet({i \in 1 .. Len(q) : q[i] = s})
         /\ Times(s, q) \in Nat
         /\ Times(s, q) = 0 <=> \A i \in 1 .. Len(q) : q[i] # s
<1>1. IsFiniteSet(1 .. Len(q))
  <2>1. Len(q) \in Int /\ 1 \in Int
    OBVIOUS
  <2> QED
    BY <2>1, FS_Interval
<1>2. IsFiniteSet({i \in 1 .. Len(q) : q[i] = s})
  BY <1>1, FS_Subset
<1>3. Cardinality({i \in 1 .. Len(q) : q[i] = s}) = 0
        <=> {i \in 1 .. Len(q) : q[i] = s} = {}
  BY <1>2, FS_EmptySet
<1> QED
  BY <1>2, <1>3, FS_CardinalityType DEF Times

LEMMA TimesEmpty == ASSUME NEW s PROVE Times(s, <<>>) = 0
<1>1. {i \in 1 .. Len(<<>>) : <<>>[i] = s} = {}
  OBVIOUS
<1> QED
  BY <1>1, FS_EmptySet DEF Times

LEMMA TimesAppend ==
  ASSUME NEW S, NEW q \in Seq(S), NEW e \in S, NEW s
  PROVE  Times(s, Append(q, e)) = Times(s, q) + (IF e = s THEN 1 ELSE 0)
<1> DEFINE A == {i \in 1 .. Len(q) : q[i] = s}
           m == Append(q, e)
           B == {i \in 1 .. Len(m) : m[i] = s}
           n == Len(q)
<1>1. /\ n \in Nat /\ Len(m) = n + 1 /\ m[n + 1] = e
      /\ \A i \in 1 .. n : m[i] = q[i]
  OBVIOUS
<1>2. IsFiniteSet(A) /\ Cardinality(A) = Times(s, q) /\ Times(s, q) \in Nat
  BY TimesType DEF Times
<1> HIDE DEF m
<1>3. B = IF e = s THEN A \cup {n + 1} ELSE A
  BY <1>1
<1>4. n + 1 \notin A
  BY <1>1
<1>5. Cardinality(A \cup {n + 1}) = Cardinality(A) + 1
  BY <1>2, <1>4, FS_AddElement
<1>6. Times(s, m) = Cardinality(B)
  BY DEF Times
<1> HIDE DEF A, B
<1>7. Cardinality(B) = Times(s, q) + (IF e = s THEN 1 ELSE 0)
  BY <1>2, <1>3, <1>5
<1> QED
  BY <1>6, <1>7 DEF m

LEMMA TimesTail ==
  ASSUME NEW S, NEW q \in Seq(S), q # <<>>, NEW s
  PROVE  Times(s, q) = Times(s, Tail(q)) + (IF Head(q) = s THEN 1 ELSE 0)
<1> DEFINE t == Tail(q)
           A == {i \in 1 .. Len(t) : t[i] = s}
           C == {i + 1 : i \in A}
           B == {i \in 1 .. Len(q) : q[i] = s}
<1>1. /\ t \in Seq(S) /\ Len(q) \in Nat \ {0} /\ Len(t) = Len(q) - 1 /\ Head(q) = q[1]
      /\ \A k \in 1 .. Len(t) : t[k] = q[k + 1]
  OBVIOUS
<1> HIDE DEF t
<1>2. IsFiniteSet(A) /\ Cardinality(A) = Times(s, t) /\ Times(s, t) \in Nat
  <2>1. t \in Seq(S)
    BY <1>1
  <2>2. IsFiniteSet(A) /\ Times(s, t) \in Nat
    BY <2>1, TimesType
  <2>3. Cardinality(A) = Times(s, t)
    BY DEF Times
  <2> QED
    BY <2>2, <2>3
<1>3. IsFiniteSet(C) /\ Cardinality(C) = Cardinality(A)
  <2>1. A \in SUBSET Nat /\ 1 \in Nat
    OBVIOUS
  <2> QED
    BY <1>2, <2>1, ShiftCard
<1>4. B = IF Head(q) = s THEN C \cup {1} ELSE C
  <2>1. \A i \in 2 .. Len(q) : i - 1 \in 1 .. Len(t) /\ t[i - 1] = q[i] /\ i = (i - 1) + 1
    BY <1>1
  <2>2. \A i \in 2 .. Len(q) : i \in C <=> q[i] = s
    BY <2>1, <1>1
  <2>3. C \subseteq 2 .. Len(q)
    BY SMTT(30), <1>1
  <2>4. 1 \in B <=> Head(q) = s
    BY <1>1
  <2> QED
    BY SMTT(30), <1>1, <2>2, <2>3, <2>4
<1>5. 1 \notin C
  BY <1>1
<1>6. Cardinality(C \cup {1}) = Cardinality(C) + 1
  BY <1>3, <1>5, FS_AddElement
<1>7. Times(s, q) = Cardinality(B)
  BY DEF Times
<1> HIDE DEF A, B, C
<1>8. Cardinality(B) = Times(s, t) + (IF Head(q) = s THEN 1 ELSE 0)
  BY <1>2, <1>3, <1>4, <1>6
<1> QED
  BY <1>7, <1>8 DEF t

LEMMA TimesConcat ==
  ASSUME NEW S, NEW p \in Seq(S), NEW q \in Seq(S), NEW s
  PROVE  Times(s, p \o q) = Times(s, p) + Times(s, q)
<1> DEFINE r == p \o q
           n == Len(p)
           A == {i \in 1 .. Len(p) : p[i] = s}
           B == {i \in 1 .. Len(q) : q[i] = s}
           C == {i + n : i \in B}
           R == {i \in 1 .. Len(r) : r[i] = s}
<1>1. /\ n \in Nat /\ Len(q) \in Nat /\ Len(r) = n + Len(q)
      /\ \A i \in 1 .. n : r[i] = p[i]
      /\ \A i \in n + 1 .. n + Len(q) : r[i] = q[i - n]
  OBVIOUS
<1>2. /\ IsFiniteSet(A) /\ Cardinality(A) = Times(s, p) /\ Times(s, p) \in Nat
      /\ IsFiniteSet(B) /\ Cardinality(B) = Times(s, q) /\ Times(s, q) \in Nat
  BY TimesType DEF Times
<1> HIDE DEF r
<1>3. IsFiniteSet(C) /\ Cardinality(C) = Cardinality(B)
  <2>1. B \in SUBSET Nat
    OBVIOUS
  <2> QED
    BY <1>1, <1>2, <2>1, ShiftCard
<1>4. R = A \cup C
  <2>1. \A i \in n + 1 .. n + Len(q) : i - n \in 1 .. Len(q) /\ i = (i - n) + n
    BY <1>1
  <2>2. \A i \in n + 1 .. n + Len(q) : i \in C <=> r[i] = s
    BY SMTT(30), <1>1, <2>1
  <2>3. C \subseteq n + 1 .. n + Len(q)
    BY <1>1
  <2>4. \A i \in 1 .. n : i \in R <=> i \in A
    BY <1>1
  <2>5. \A i \in n + 1 .. n + Len(q) : i \in R <=> i \in C
    BY <1>1, <2>2, SMTT(30)
  <2>6. R \subseteq (1 .. n) \cup (n + 1 .. n + Len(q)) /\ A \subseteq 1 .. n
    BY <1>1
  <2>7. A \cap (n + 1 .. n + Len(q)) = {} /\ C \cap (1 .. n) = {}
    BY SMTT(30), <1>1, <2>3
  <2> HIDE DEF A, C, R, n
  <2> QED
    BY <2>3, <2>4, <2>5, <2>6, <2>7
<1>5. A \cap C = {}
  BY <1>1
<1>6. Times(s, r) = Cardinality(R)
  BY DEF Times
<1> HIDE DEF A, B, C, R
<1>7. Cardinality(A \cup C) = Cardinality(A) + Cardinality(C)
  <2>1. Cardinality(A \cup C) = Cardinality(A) + Cardinality(C) - Cardinality(A \cap C)
    BY <1>2, <1>3, FS_Union
  <2>2. Cardinality(A \cap C) = 0
    BY <1>5, FS_EmptySet
  <2> QED
    BY <1>2, <1>3, <2>1, <2>2
<1> QED
  BY <1>2, <1>3, <1>4, <1>6, <1>7 DEF r

------------------------------------------------------------------------------
(* Conservation of the samples                                               *)

Lost == {s \in Samples : Places(s) = 0}

\* The processor has a sample in hand only between taking and submitting it.
HandInv ==
  /\ proc \in {"top", "setPaused", "take", "get", "idleLock", "idle", "idleWoken"}
       => hand = 0
  /\ proc \in {"drain", "drainLock", "wait"} /\ why = "pause" => hand = 0

\* The trainer gives a batch up only once.
GaveUp == IF final \/ tr \in {"finalWait", "lastWait", "end"} THEN Required - 1 ELSE 0

ConsInv ==
  /\ \A s \in Samples : Places(s) <= 1
  /\ Cardinality(Lost) <= fails + dropped_samples + GaveUp

LEMMA HandStep == HandInv /\ [Next]_vars => HandInv'
<1> SUFFICES ASSUME HandInv, [Next]_vars PROVE HandInv'
  OBVIOUS
<1> USE DEF HandInv
<1>1. CASE ProcTop \/ ProcSetPaused \/ ProcTakeCancelled
  BY <1>1 DEF ProcTop, ProcSetPaused, ProcTakeCancelled
<1>2. CASE ProcTakePending
  BY <1>2 DEF ProcTakePending
<1>3. CASE ProcDrain
  BY <1>3 DEF ProcDrain
<1>4. CASE ProcDrainLocked \/ ProcCollect
  BY <1>4 DEF ProcDrainLocked, ProcCollect
<1>5. CASE ProcIdle \/ ProcSubmit \/ ProcWoken
  BY <1>5 DEF ProcIdle, ProcSubmit, ProcWoken
<1>6. CASE Feed \/ TaskNext \/ MonNext \/ MainNext
  BY <1>6 DEF Feed, TaskNext, Generated, PutSample, CutShort, Interrupted, Fails, taskOther,
              MonNext, MonWake, MonSet, MonLoop, MainNext, MainPut, MainStop, Notify,
              monOther, mainOther, coreVars
<1>7. CASE RpcMoves \/ UpdatePutVal \/ RollUpdate
  BY <1>7 DEF RpcMoves, PauseCall, PauseLocked, PauseCancel, PauseGather, PauseDone,
              UpdateCall, UpdateSize, UpdateReply, ResumeCall, ResumeServers, ResumeDone,
              UpdatePutVal, RollUpdate, UpdateLocked, rpcOther, Notify
<1>8. CASE TrainerNext \/ UNCHANGED vars
  <2>1. UNCHANGED <<proc, why, hand>>
    BY <1>8 DEF TrainerNext, Collect, Train, SyncStart, SyncVersion, SyncWeights,
                LogStep, FinalLog, LastLog, Log, vars, rollVars, coreVars
  <2> QED
    BY <2>1
<1> QED
  BY <1>1, <1>2, <1>3, <1>4, <1>5, <1>6, <1>7, <1>8
  DEF Next, RollNext, ProcNext, RpcMoves, JobEnd

LEMMA TailFcn ==
  ASSUME NEW S, NEW s \in Seq(S), s # <<>>
  PROVE  Tail(s) = [i \in 1 .. Len(s) - 1 |-> s[i + 1]]
<1> DEFINE t == Tail(s)
<1>1. t \in Seq(S) /\ Len(t) = Len(s) - 1 /\ \A i \in 1 .. Len(t) : t[i] = s[i + 1]
  OBVIOUS
<1> HIDE DEF t
<1>2. t = [i \in 1 .. Len(t) |-> t[i]]
  BY <1>1
<1> QED
  BY <1>1, <1>2 DEF t

LEMMA IdsOfQueue ==
  ASSUME NEW q \in Seq(Msg)
  PROVE  /\ Ids(q) \in Seq(Nat) /\ Len(Ids(q)) = Len(q)
         /\ \A m \in Msg : Ids(Append(q, m)) = Append(Ids(q), m.id) /\ m.id \in Nat
         /\ q # <<>> => /\ Ids(q) # <<>> /\ Ids(Tail(q)) = Tail(Ids(q))
                        /\ Head(Ids(q)) = Head(q).id
<1>1. \A m \in Msg : m.id \in Nat
  BY SamplesFinite DEF Msg, None
<1>2. Len(q) \in Nat /\ \A i \in 1 .. Len(q) : q[i].id \in Nat
  BY <1>1, ElementType
<1>3. Ids(q) \in Seq(Nat) /\ Len(Ids(q)) = Len(q)
  BY <1>2 DEF Ids
<1>4. ASSUME NEW m \in Msg PROVE Ids(Append(q, m)) = Append(Ids(q), m.id)
  <2> DEFINE a == Append(q, m)
  <2>1. /\ Len(a) = Len(q) + 1 /\ a[Len(q) + 1] = m /\ \A i \in 1 .. Len(q) : a[i] = q[i]
    OBVIOUS
  <2> HIDE DEF a
  <2>2. Ids(a) = [i \in 1 .. Len(q) + 1 |-> a[i].id]
    BY <2>1 DEF Ids
  <2>3. Append(Ids(q), m.id) = [i \in 1 .. Len(q) + 1 |-> IF i <= Len(q) THEN q[i].id ELSE m.id]
    BY <1>1, <1>2, <1>3 DEF Ids
  <2>4. \A i \in 1 .. Len(q) + 1 : a[i].id = IF i <= Len(q) THEN q[i].id ELSE m.id
    BY <1>2, <2>1
  <2> QED
    BY <2>2, <2>3, <2>4 DEF a
<1>5. ASSUME q # <<>>
      PROVE  /\ Ids(q) # <<>> /\ Ids(Tail(q)) = Tail(Ids(q)) /\ Head(Ids(q)) = Head(q).id
  <2> DEFINE t == Tail(q)
  <2>1. /\ Len(q) \in Nat \ {0} /\ Len(t) = Len(q) - 1 /\ Head(q) = q[1]
        /\ \A i \in 1 .. Len(t) : t[i] = q[i + 1]
    BY <1>5
  <2> HIDE DEF t
  <2>2. Ids(t) = [i \in 1 .. Len(q) - 1 |-> q[i + 1].id]
    BY <2>1 DEF Ids
  <2>3. Ids(q) # <<>> /\ Head(Ids(q)) = Ids(q)[1] /\ Ids(q)[1] = q[1].id
    BY <1>2, <1>3, <2>1 DEF Ids
  <2>4. Tail(Ids(q)) = [i \in 1 .. Len(q) - 1 |-> Ids(q)[i + 1]]
    BY <1>3, <2>3, TailFcn
  <2>5. \A i \in 1 .. Len(q) - 1 : Ids(q)[i + 1] = q[i + 1].id
    BY <2>1 DEF Ids
  <2> QED
    BY <2>1, <2>2, <2>3, <2>4, <2>5 DEF t
<1> QED
  BY <1>1, <1>3, <1>4, <1>5

\* Places(s) as a sum of natural numbers.
PlacesTerms(s) ==
  /\ Places(s) = (IF s > taken THEN 1 ELSE 0) + (IF s = hand THEN 1 ELSE 0)
                 + (IF s \in Live THEN 1 ELSE 0)
                 + Times(s, cancel_queue) + Times(s, Ids(queue))
                 + Times(s, Ids(batch)) + Times(s, trained)
  /\ Times(s, cancel_queue) \in Nat /\ Times(s, Ids(queue)) \in Nat
  /\ Times(s, Ids(batch)) \in Nat /\ Times(s, trained) \in Nat
  /\ Places(s) \in Nat
  /\ s \in Nat \ {0} /\ taken \in Nat

LEMMA TimesTypes ==
  ASSUME NEW s, NEW c \in Seq(Samples), NEW q \in Seq(Msg),
         NEW b \in Seq([id : Samples, ver : Nat])
  PROVE  Times(s, c) \in Nat /\ Times(s, Ids(q)) \in Nat /\ Times(s, Ids(b)) \in Nat
  BY TimesType, IdsOfQueue, IdsType

LEMMA PlacesNow == ASSUME Types, NEW s \in Samples PROVE PlacesTerms(s)
<1>1. /\ Times(s, cancel_queue) \in Nat /\ Times(s, Ids(queue)) \in Nat
      /\ Times(s, Ids(batch)) \in Nat /\ Times(s, trained) \in Nat
  BY TimesTypes DEF Types, CoreType, MQTypeOK, TrType
<1>2. task[s] \in {"gen", "cut", "put"} <=> s \in Live
  BY DEF Live
<1>3. s \in Nat \ {0} /\ taken \in Nat
  BY SamplesFinite DEF Types, CoreType
<1> HIDE DEF Live
<1> QED
  BY <1>1, <1>2, <1>3 DEF Places, PlacesTerms

LEMMA PlacesNext == ASSUME Types', NEW s \in Samples PROVE PlacesTerms(s)'
<1>1. /\ Times(s, cancel_queue') \in Nat /\ Times(s, Ids(queue')) \in Nat
      /\ Times(s, Ids(batch')) \in Nat /\ Times(s, trained') \in Nat
  BY TimesTypes DEF Types, CoreType, MQTypeOK, TrType
<1>2. task'[s] \in {"gen", "cut", "put"} <=> s \in Live'
  BY DEF Live
<1>3. s \in Nat \ {0} /\ taken' \in Nat
  BY SamplesFinite DEF Types, CoreType
<1> HIDE DEF Live
<1> QED
  BY <1>1, <1>2, <1>3 DEF Places, PlacesTerms

LEMMA LostFinite == IsFiniteSet(Lost) /\ Cardinality(Lost) \in Nat
  BY SamplesFinite, FS_Subset, FS_CardinalityType DEF Lost

\* A step that loses no sample but those of X.
LEMMA LostGrows ==
  ASSUME NEW X, IsFiniteSet(X),
         \A s \in Samples : Places(s)' = 0 => Places(s) = 0 \/ s \in X
  PROVE  /\ Cardinality(Lost') \in Nat
         /\ Cardinality(Lost') <= Cardinality(Lost) + Cardinality(X)
<1>1. Lost' \in SUBSET (Lost \cup X)
  BY DEF Lost
<1>2. /\ Cardinality(Lost \cup X) = Cardinality(Lost) + Cardinality(X) - Cardinality(Lost \cap X)
      /\ IsFiniteSet(Lost \cup X)
  BY LostFinite, FS_Union
<1>3. Cardinality(Lost \cap X) \in Nat /\ Cardinality(X) \in Nat /\ Cardinality(Lost \cup X) \in Nat
  BY <1>2, LostFinite, FS_Intersection, FS_CardinalityType
<1>4. Cardinality(Lost') <= Cardinality(Lost \cup X) /\ Cardinality(Lost') \in Nat
  BY <1>1, <1>2, FS_Subset, FS_CardinalityType
<1> QED
  BY <1>2, <1>3, <1>4, LostFinite

\* A step that moves the samples about.
LEMMA ConsKept ==
  ASSUME ConsInv, Types, Types', \A s \in Samples : Places(s)' = Places(s),
         fails' = fails, dropped_samples' >= dropped_samples,
         final' \in BOOLEAN, GaveUp' >= GaveUp
  PROVE  ConsInv'
<1>1. Cardinality(Lost') \in Nat /\ Cardinality(Lost') <= Cardinality(Lost)
  <2>1. IsFiniteSet({}) /\ Cardinality({}) = 0
    BY FS_EmptySet
  <2>2. \A s \in Samples : Places(s)' = 0 => Places(s) = 0 \/ s \in {}
    OBVIOUS
  <2>3. Cardinality(Lost') \in Nat /\ Cardinality(Lost') <= Cardinality(Lost) + Cardinality({})
    BY <2>1, <2>2, LostGrows
  <2> QED
    BY <2>1, <2>3, LostFinite
<1>2. /\ fails \in Nat /\ dropped_samples \in Nat /\ dropped_samples' \in Nat
      /\ GaveUp \in Nat /\ GaveUp' \in Nat
  <2>1. Required \in Nat /\ Required >= 1 /\ MaxFail \in Nat
    OBVIOUS
  <2>2. GaveUp \in Nat /\ GaveUp' \in Nat
    BY <2>1 DEF GaveUp
  <2> QED
    BY <2>1, <2>2 DEF Types, CoreType, MQTypeOK
<1>3. Cardinality(Lost') <= fails' + dropped_samples' + GaveUp'
  BY <1>1, <1>2, LostFinite DEF ConsInv
<1> QED
  BY <1>3 DEF ConsInv

LEMMA ConsUnmoved ==
  ASSUME ConsInv, Types, Types', Live' = Live,
         UNCHANGED <<taken, hand, cancel_queue, queue, batch, trained, fails,
                     dropped_samples>>,
         final' \in BOOLEAN, GaveUp' >= GaveUp
  PROVE  ConsInv'
<1>1. ASSUME NEW s \in Samples PROVE Places(s)' = Places(s)
  <2>1. task'[s] \in {"gen", "cut", "put"} <=> task[s] \in {"gen", "cut", "put"}
    BY DEF Live
  <2> QED
    BY <2>1 DEF Places
<1>2. dropped_samples' >= dropped_samples
  BY DEF Types, MQTypeOK
<1> QED
  BY <1>1, <1>2, ConsKept

\* The steps of the processor.
LEMMA ConsProc ==
  ASSUME ConsInv, HandInv, Types, Types', ProcNext, UNCHANGED trVars, final \in BOOLEAN
  PROVE  ConsInv'
<1>1. /\ UNCHANGED <<queue, batch, trained, fails, dropped_samples, final, tr>>
      /\ dropped_samples' >= dropped_samples /\ GaveUp' >= GaveUp /\ final' \in BOOLEAN
  <2>1. UNCHANGED <<queue, batch, trained, fails, dropped_samples, final, tr>>
    BY DEF ProcNext, ProcTop, ProcSetPaused, ProcTakeCancelled, ProcTakePending,
           ProcDrain, ProcDrainLocked, ProcCollect, ProcIdle, ProcSubmit, ProcWoken,
           procOther, msgVars, trVars
  <2>2. Required \in Nat /\ Required >= 1
    OBVIOUS
  <2>3. GaveUp' >= GaveUp
    BY <2>1, <2>2 DEF GaveUp
  <2> QED
    BY <2>1, <2>3 DEF Types, MQTypeOK
<1>2. CASE ProcTop \/ ProcSetPaused \/ ProcDrain \/ ProcDrainLocked \/ ProcIdle
           \/ ProcWoken \/ ProcCollect \/ (ProcSubmit /\ paused)
  <2>1. UNCHANGED <<taken, hand, cancel_queue>>
    BY <1>2 DEF ProcTop, ProcSetPaused, ProcDrain, ProcDrainLocked, ProcIdle, ProcWoken,
                ProcCollect, ProcSubmit
  <2>2. Live' = Live
    BY <1>2 DEF ProcTop, ProcSetPaused, ProcDrain, ProcDrainLocked, ProcIdle, ProcWoken,
                ProcCollect, ProcSubmit, Live, Finished
  <2> QED
    BY <1>1, <2>1, <2>2, ConsUnmoved
<1>3. CASE ProcTakeCancelled
  <2>1. /\ cancel_queue # <<>> /\ hand' = Head(cancel_queue) /\ hand = 0
        /\ cancel_queue' = Tail(cancel_queue) /\ UNCHANGED <<taken, task>>
    BY <1>3 DEF ProcTakeCancelled, HandInv
  <2>2. ASSUME NEW s \in Samples PROVE Places(s)' = Places(s)
    <3>1. Times(s, cancel_queue) = Times(s, cancel_queue') + (IF hand' = s THEN 1 ELSE 0)
      BY <2>1, TimesTail DEF Types, CoreType
    <3>2. s \in Live' <=> s \in Live
      BY <2>1 DEF Live
    <3>3. Times(s, cancel_queue') \in Nat
      BY TimesType DEF Types, CoreType
    <3>4. PlacesTerms(s) /\ PlacesTerms(s)'
      BY PlacesNow, PlacesNext
    <3>5. /\ Times(s, Ids(queue')) = Times(s, Ids(queue)) /\ hand = 0 /\ taken' = taken
          /\ Times(s, Ids(batch')) = Times(s, Ids(batch)) /\ Times(s, trained') = Times(s, trained)
      BY <1>1, <2>1
    <3> HIDE DEF Live
    <3> QED
      BY <3>1, <3>2, <3>3, <3>4, <3>5 DEF PlacesTerms
  <2> QED
    BY <1>1, <2>2, ConsKept
<1>4. CASE ProcTakePending
  <2>1. hand = 0 /\ UNCHANGED <<cancel_queue, task>>
    BY <1>4 DEF ProcTakePending, HandInv
  <2>2. \/ taken' = taken + 1 /\ hand' = taken + 1
        \/ UNCHANGED <<taken, hand>>
    BY <1>4 DEF ProcTakePending
  <2>3. ASSUME NEW s \in Samples PROVE Places(s)' = Places(s)
    <3>1. s \in Live' <=> s \in Live
      BY <2>1 DEF Live
    <3>2. PlacesTerms(s) /\ PlacesTerms(s)'
      BY PlacesNow, PlacesNext
    <3> HIDE DEF Live
    <3> QED
      BY <1>1, <2>1, <2>2, <3>1, <3>2 DEF PlacesTerms
  <2> QED
    BY <1>1, <2>3, ConsKept
<1>5. CASE ProcSubmit /\ ~ paused
  <2>1. /\ task' = [task EXCEPT ![hand] = "gen"] /\ hand' = 0
        /\ UNCHANGED <<taken, cancel_queue>>
    BY <1>5 DEF ProcSubmit
  <2>2. ASSUME NEW s \in Samples PROVE Places(s)' = Places(s)
    <3>1. s \in Live' <=> s \in Live \/ s = hand
      BY <2>1 DEF Live, Types, CoreType
    <3>2. s = hand => s \notin Live
      <4> HIDE DEF Live
      <4> QED
        BY PlacesNow DEF ConsInv, PlacesTerms
    <3>3. PlacesTerms(s) /\ PlacesTerms(s)'
      BY PlacesNow, PlacesNext
    <3> HIDE DEF Live
    <3> QED
      BY <1>1, <2>1, <3>1, <3>2, <3>3 DEF PlacesTerms
  <2> QED
    BY <1>1, <2>2, ConsKept
<1> QED
  BY <1>2, <1>3, <1>4, <1>5 DEF ProcNext

\* The steps of a task.  Only a failed one and the sample the full queue drops
\* for a new one are lost.
LEMMA ConsTask ==
  ASSUME ConsInv, Types, Types', TaskNext, UNCHANGED trVars, final \in BOOLEAN
  PROVE  ConsInv'
<1>1. /\ UNCHANGED <<taken, hand, batch, trained, final, tr>>
      /\ GaveUp' = GaveUp /\ GaveUp \in Nat /\ final' \in BOOLEAN
  <2>1. UNCHANGED <<taken, hand, batch, trained, final, tr>>
    BY DEF TaskNext, Generated, PutSample, CutShort, Interrupted, Fails, taskOther, trVars
  <2>2. Required \in Nat /\ Required >= 1
    OBVIOUS
  <2>3. GaveUp' = GaveUp /\ GaveUp \in Nat
    BY <2>1, <2>2 DEF GaveUp
  <2> QED
    BY <2>1, <2>3
<1>2. /\ fails \in Nat /\ dropped_samples \in Nat
      /\ Cardinality(Lost) \in Nat
      /\ Cardinality(Lost) <= fails + dropped_samples + GaveUp
  BY LostFinite DEF Types, CoreType, MQTypeOK, ConsInv
<1>3. PICK x \in Samples : \/ Generated(x) \/ PutSample(x) \/ CutShort(x)
                           \/ Interrupted(x) \/ Fails(x)
  BY DEF TaskNext
<1>4. CASE Generated(x) \/ CutShort(x)
  <2>1. UNCHANGED <<cancel_queue, queue, fails, dropped_samples>>
    BY <1>4 DEF Generated, CutShort, msgVars
  <2>2. Live' = Live
    BY <1>4 DEF Generated, CutShort, Live, Types, CoreType
  <2>3. GaveUp' >= GaveUp
    BY <1>1
  <2> QED
    BY <1>1, <2>1, <2>2, <2>3, ConsUnmoved
<1>5. CASE Interrupted(x)
  <2>1. /\ cancel_queue' = Append(cancel_queue, x) /\ UNCHANGED <<queue, fails, dropped_samples>>
        /\ task[x] = "cut" /\ task' = [task EXCEPT ![x] = "done"]
    BY <1>5 DEF Interrupted, msgVars
  <2>2. ASSUME NEW s \in Samples PROVE Places(s)' = Places(s)
    <3>1. Times(s, cancel_queue') = Times(s, cancel_queue) + (IF x = s THEN 1 ELSE 0)
      BY <2>1, TimesAppend DEF Types, CoreType
    <3>2. /\ s \in Live' <=> s \in Live /\ s # x
          /\ s = x => s \in Live
      BY <2>1 DEF Live, Types, CoreType
    <3>3. PlacesTerms(s) /\ PlacesTerms(s)'
      BY PlacesNow, PlacesNext
    <3>4. /\ Times(s, Ids(queue')) = Times(s, Ids(queue)) /\ UNCHANGED <<taken, hand>>
          /\ Times(s, Ids(batch')) = Times(s, Ids(batch)) /\ Times(s, trained') = Times(s, trained)
      BY <1>1, <2>1
    <3> HIDE DEF Live
    <3> QED
      BY <3>1, <3>2, <3>3, <3>4 DEF PlacesTerms
  <2>3. GaveUp' >= GaveUp /\ dropped_samples' >= dropped_samples
    BY <1>1, <1>2, <2>1
  <2> QED
    BY <1>1, <2>1, <2>2, <2>3, ConsKept
<1>6. CASE Fails(x)
  <2>1. /\ UNCHANGED <<cancel_queue, queue, dropped_samples>> /\ fails' = fails + 1
        /\ task[x] = "gen" /\ task' = [task EXCEPT ![x] = "err"]
    BY <1>6 DEF Fails, msgVars
  <2>2. ASSUME NEW s \in Samples
        PROVE  Places(s)' = (IF s = x THEN Places(s) - 1 ELSE Places(s)) /\ Places(s) \in Nat
    <3>1. /\ s \in Live' <=> s \in Live /\ s # x
          /\ s = x => s \in Live
      BY <2>1 DEF Live, Types, CoreType
    <3>2. PlacesTerms(s) /\ PlacesTerms(s)'
      BY PlacesNow, PlacesNext
    <3> HIDE DEF Live
    <3> QED
      BY <1>1, <2>1, <3>1, <3>2 DEF PlacesTerms
  <2>3. IsFiniteSet({x}) /\ Cardinality({x}) = 1
    BY FS_Singleton
  <2>4. Cardinality(Lost') \in Nat /\ Cardinality(Lost') <= Cardinality(Lost) + Cardinality({x})
    <3>1. \A s \in Samples : Places(s)' = 0 => Places(s) = 0 \/ s \in {x}
      BY <2>2
    <3> QED
      BY <2>3, <3>1, LostGrows
  <2>5. \A s \in Samples : Places(s)' <= 1
    BY <2>2 DEF ConsInv
  <2>6. Cardinality(Lost') <= fails' + dropped_samples' + GaveUp'
    BY <1>1, <1>2, <2>1, <2>3, <2>4
  <2> QED
    BY <2>5, <2>6 DEF ConsInv
<1>7. CASE PutSample(x)
  <2> DEFINE m == [id |-> x, ver |-> stamp[x]]
  <2>1. /\ UNCHANGED <<cancel_queue, fails>>
        /\ task[x] = "put" /\ task' = [task EXCEPT ![x] = "done"]
        /\ queue' = Append(IF Full THEN Tail(queue) ELSE queue, m)
        /\ dropped_samples' = IF Full THEN dropped_samples + 1 ELSE dropped_samples
    BY <1>7 DEF PutSample, put_sample
  <2>2. m \in Msg /\ m.id = x
    BY DEF Msg, Types, CoreType
  <2> HIDE DEF m
  <2>3. queue \in Seq(Msg) /\ (Full => queue # <<>>)
    BY MaxRequiredType DEF Types, MQTypeOK, Full
  <2>4. ASSUME NEW s \in Samples PROVE s \in Live' <=> s \in Live /\ s # x
    BY <2>1 DEF Live, Types, CoreType
  <2>5. x \in Live
    BY <2>1 DEF Live
  <2>6. CASE ~ Full
    <3>1. ASSUME NEW s \in Samples PROVE Places(s)' = Places(s)
      <4>1. Ids(queue') = Append(Ids(queue), x) /\ Ids(queue) \in Seq(Nat) /\ x \in Nat
        BY <2>1, <2>2, <2>3, <2>6, IdsOfQueue
      <4>2. Times(s, Ids(queue')) = Times(s, Ids(queue)) + (IF x = s THEN 1 ELSE 0)
        <5>1. Times(s, Append(Ids(queue), x)) = Times(s, Ids(queue)) + (IF x = s THEN 1 ELSE 0)
          BY <4>1, TimesAppend, Zenon
        <5> QED
          BY <4>1, <5>1, Zenon
      <4>3. PlacesTerms(s) /\ PlacesTerms(s)'
        BY PlacesNow, PlacesNext
      <4>4. /\ Times(s, cancel_queue') = Times(s, cancel_queue) /\ UNCHANGED <<taken, hand>>
            /\ Times(s, Ids(batch')) = Times(s, Ids(batch)) /\ Times(s, trained') = Times(s, trained)
        BY <1>1, <2>1
      <4> HIDE DEF Live
      <4> QED
        BY <2>4, <2>5, <4>2, <4>3, <4>4 DEF PlacesTerms
    <3>2. GaveUp' >= GaveUp /\ dropped_samples' >= dropped_samples
      BY <1>1, <1>2, <2>1
    <3> QED
      BY <1>1, <2>1, <3>1, <3>2, ConsKept
  <2>7. CASE Full
    <3> DEFINE h == Head(queue).id
    <3>1. ASSUME NEW s \in Samples
          PROVE  Places(s)' = (IF s = h THEN Places(s) - 1 ELSE Places(s)) /\ Places(s) \in Nat
      <4>1. /\ Ids(queue) \in Seq(Nat) /\ Ids(queue) # <<>>
            /\ Ids(Tail(queue)) = Tail(Ids(queue)) /\ Head(Ids(queue)) = h
        BY <2>3, <2>7, IdsOfQueue
      <4>2. Tail(queue) \in Seq(Msg) /\ queue' = Append(Tail(queue), m)
        BY <2>1, <2>3, <2>7
      <4>3. /\ Ids(queue') = Append(Ids(Tail(queue)), x) /\ Ids(Tail(queue)) \in Seq(Nat)
            /\ x \in Nat
        BY <2>2, <4>2, IdsOfQueue
      <4>4. Times(s, Ids(queue')) = Times(s, Ids(Tail(queue))) + (IF x = s THEN 1 ELSE 0)
        <5>1. Times(s, Append(Ids(Tail(queue)), x))
                = Times(s, Ids(Tail(queue))) + (IF x = s THEN 1 ELSE 0)
          BY <4>3, TimesAppend, Zenon
        <5> QED
          BY <4>3, <5>1, Zenon
      <4>5. Times(s, Ids(queue)) = Times(s, Ids(Tail(queue))) + (IF h = s THEN 1 ELSE 0)
        BY <4>1, TimesTail
      <4>6. Times(s, Ids(Tail(queue))) \in Nat
        BY <4>3, TimesType
      <4>7. PlacesTerms(s) /\ PlacesTerms(s)'
        BY PlacesNow, PlacesNext
      <4>8. /\ Times(s, cancel_queue') = Times(s, cancel_queue) /\ UNCHANGED <<taken, hand>>
            /\ Times(s, Ids(batch')) = Times(s, Ids(batch)) /\ Times(s, trained') = Times(s, trained)
        BY <1>1, <2>1
      <4> HIDE DEF Live, h
      <4> QED
        BY <2>4, <2>5, <4>4, <4>5, <4>6, <4>7, <4>8 DEF PlacesTerms
    <3> HIDE DEF h
    <3>2. IsFiniteSet({h}) /\ Cardinality({h}) = 1
      BY FS_Singleton
    <3>3. Cardinality(Lost') \in Nat /\ Cardinality(Lost') <= Cardinality(Lost) + Cardinality({h})
      <4>1. \A s \in Samples : Places(s)' = 0 => Places(s) = 0 \/ s \in {h}
        BY <3>1
      <4> QED
        BY <3>2, <4>1, LostGrows
    <3>4. \A s \in Samples : Places(s)' <= 1
      BY <3>1 DEF ConsInv
    <3>5. Cardinality(Lost') <= fails' + dropped_samples' + GaveUp'
      BY <1>1, <1>2, <2>1, <2>7, <3>2, <3>3
    <3> QED
      BY <3>4, <3>5 DEF ConsInv
  <2> QED
    BY <2>6, <2>7
<1> QED
  BY <1>3, <1>4, <1>5, <1>6, <1>7

\* The finish signal is no sample, but the full queue drops one for it.
LEMMA ConsMainPut ==
  ASSUME ConsInv, Types, Types', MainPut, UNCHANGED trVars, final \in BOOLEAN
  PROVE  ConsInv'
<1>1. /\ UNCHANGED <<taken, hand, cancel_queue, batch, trained, final, tr, fails, task>>
      /\ queue' = Append(IF Full THEN Tail(queue) ELSE queue, None)
      /\ dropped_samples' = IF Full THEN dropped_samples + 1 ELSE dropped_samples
  BY DEF MainPut, mainOther, coreVars, trVars, put_sample
<1>2. /\ fails \in Nat /\ dropped_samples \in Nat /\ GaveUp' = GaveUp /\ GaveUp \in Nat
      /\ Cardinality(Lost) \in Nat
      /\ Cardinality(Lost) <= fails + dropped_samples + GaveUp
  <2>1. Required \in Nat /\ Required >= 1
    OBVIOUS
  <2>2. GaveUp' = GaveUp /\ GaveUp \in Nat
    BY <1>1, <2>1 DEF GaveUp
  <2> QED
    BY <2>2, LostFinite DEF Types, CoreType, MQTypeOK, ConsInv
<1>3. queue \in Seq(Msg) /\ (Full => queue # <<>>) /\ None \in Msg /\ None.id = 0
  BY MaxRequiredType DEF Types, MQTypeOK, Full, Msg, None
<1> DEFINE rest == IF Full THEN Tail(queue) ELSE queue
           h == IF Full THEN Head(queue).id ELSE 0
<1>4. ASSUME NEW s \in Samples
      PROVE  Places(s)' = (IF s = h THEN Places(s) - 1 ELSE Places(s)) /\ Places(s) \in Nat
  <2>1. rest \in Seq(Msg) /\ queue' = Append(rest, None)
    BY <1>1, <1>3
  <2>2. Times(s, Ids(queue)) = Times(s, Ids(rest)) + (IF h = s THEN 1 ELSE 0)
    <3>1. s # 0
      BY SamplesFinite
    <3>2. CASE Full
      <4>1. /\ Ids(queue) \in Seq(Nat) /\ Ids(queue) # <<>>
            /\ Ids(Tail(queue)) = Tail(Ids(queue)) /\ Head(Ids(queue)) = Head(queue).id
        BY <1>3, <3>2, IdsOfQueue
      <4>2. Times(s, Ids(queue))
              = Times(s, Tail(Ids(queue))) + (IF Head(Ids(queue)) = s THEN 1 ELSE 0)
        BY <4>1, TimesTail, Zenon
      <4> QED
        BY <3>2, <4>1, <4>2
    <3>3. CASE ~ Full
      <4>1. Times(s, Ids(queue)) \in Nat
        BY <1>3, TimesType, IdsOfQueue
      <4> QED
        BY <3>1, <3>3, <4>1
    <3> QED
      BY <3>2, <3>3
  <2> HIDE DEF rest, h
  <2>3. Ids(queue') = Append(Ids(rest), 0) /\ Ids(rest) \in Seq(Nat)
    BY <1>3, <2>1, IdsOfQueue
  <2>4. Times(s, Ids(queue')) = Times(s, Ids(rest))
    <3>1. Times(s, Append(Ids(rest), 0)) = Times(s, Ids(rest)) + (IF 0 = s THEN 1 ELSE 0)
      BY <2>3, 0 \in Nat, TimesAppend, Zenon
    <3>2. Times(s, Ids(rest)) \in Nat /\ s # 0
      BY <2>3, TimesType, SamplesFinite
    <3> QED
      BY <2>3, <3>1, <3>2
  <2>5. PlacesTerms(s) /\ PlacesTerms(s)' /\ Times(s, Ids(rest)) \in Nat
    BY <2>3, PlacesNow, PlacesNext, TimesType
  <2>6. /\ Times(s, cancel_queue') = Times(s, cancel_queue) /\ UNCHANGED <<taken, hand>>
        /\ Times(s, Ids(batch')) = Times(s, Ids(batch)) /\ Times(s, trained') = Times(s, trained)
        /\ s \in Live' <=> s \in Live
    BY <1>1 DEF Live
  <2> HIDE DEF Live
  <2> QED
    BY <2>2, <2>4, <2>5, <2>6 DEF PlacesTerms
<1> HIDE DEF h
<1>5. IsFiniteSet({h}) /\ Cardinality({h}) = 1
  BY FS_Singleton
<1>6. \A s \in Samples : Places(s)' <= 1
  BY <1>4 DEF ConsInv
<1>7. CASE Full
  <2>1. Cardinality(Lost') \in Nat /\ Cardinality(Lost') <= Cardinality(Lost) + Cardinality({h})
    <3>1. \A s \in Samples : Places(s)' = 0 => Places(s) = 0 \/ s \in {h}
      BY <1>4
    <3> QED
      BY <1>5, <3>1, LostGrows
  <2>2. Cardinality(Lost') <= fails' + dropped_samples' + GaveUp'
    BY <1>1, <1>2, <1>5, <1>7, <2>1
  <2> QED
    BY <1>6, <2>2 DEF ConsInv
<1>8. CASE ~ Full
  <2>1. \A s \in Samples : Places(s)' = Places(s)
    BY <1>4, <1>8, SamplesFinite DEF h
  <2>2. dropped_samples' >= dropped_samples /\ GaveUp' >= GaveUp
    BY <1>1, <1>2
  <2> QED
    BY <1>1, <2>1, <2>2, ConsKept
<1> QED
  BY <1>7, <1>8

\* A sample goes from the queue to the batch; after the finish signal the
\* trainer drops what it has collected, fewer than a batch.
LEMMA ConsCollect ==
  ASSUME ConsInv, Types, Types', Collect, final = FALSE
  PROVE  ConsInv'
<1>1. /\ UNCHANGED <<taken, hand, cancel_queue, trained, final, fails, task, dropped_samples>>
      /\ queue # <<>> /\ queue' = Tail(queue) /\ tr = "collect"
  BY DEF Collect, get_sample, rollVars, coreVars
<1>2. /\ queue \in Seq(Msg) /\ batch \in Seq([id : Samples, ver : Nat])
      /\ Len(batch) \in Nat /\ Len(batch) <= Required - 1 /\ Required \in Nat
      /\ fails \in Nat /\ dropped_samples \in Nat /\ Head(queue) \in Msg
  <2>1. Required \in Nat
    OBVIOUS
  <2>2. queue \in Seq(Msg) /\ batch \in Seq([id : Samples, ver : Nat])
        /\ Len(batch) < Required /\ dropped_samples \in Nat /\ fails \in Nat
    BY <1>1 DEF Types, MQTypeOK, TrType, CoreType
  <2>3. Len(batch) \in Nat /\ Head(queue) \in Msg
    BY <1>1, <2>2, TailAt
  <2> QED
    BY <2>1, <2>2, <2>3
<1>3. /\ Ids(queue) \in Seq(Nat) /\ Ids(queue) # <<>>
      /\ Ids(queue') = Tail(Ids(queue)) /\ Head(Ids(queue)) = Head(queue).id
  BY <1>1, <1>2, IdsOfQueue
<1>4. ASSUME NEW s \in Samples
      PROVE  /\ Times(s, Ids(queue)) = Times(s, Ids(queue')) + (IF Head(queue).id = s THEN 1 ELSE 0)
             /\ Times(s, cancel_queue') = Times(s, cancel_queue) /\ UNCHANGED <<taken, hand>>
             /\ Times(s, trained') = Times(s, trained)
             /\ s \in Live' <=> s \in Live
             /\ PlacesTerms(s) /\ PlacesTerms(s)'
  <2>1. Times(s, Ids(queue)) = Times(s, Tail(Ids(queue))) + (IF Head(Ids(queue)) = s THEN 1 ELSE 0)
    BY <1>3, TimesTail, Zenon
  <2>2. Times(s, Ids(queue)) = Times(s, Ids(queue')) + (IF Head(queue).id = s THEN 1 ELSE 0)
    BY <1>3, <2>1
  <2>3. s \in Live' <=> s \in Live
    BY <1>1 DEF Live
  <2> QED
    BY <1>1, <2>2, <2>3, PlacesNow, PlacesNext
<1>5. CASE Head(queue) # None
  <2>1. batch' = Append(batch, Head(queue)) /\ tr' \in {"train", "collect"}
    BY <1>5 DEF Collect
  <2>2. ASSUME NEW s \in Samples PROVE Places(s)' = Places(s)
    <3>1. Head(queue) \in [id : Samples, ver : Nat]
      BY <1>2, <1>5 DEF Msg
    <3>2. [id : Samples, ver : Nat] \subseteq Msg
      BY DEF Msg
    <3>3. batch \in Seq(Msg)
      BY <1>2, <3>2, SeqSubset
    <3>4. Ids(batch') = Append(Ids(batch), Head(queue).id) /\ Ids(batch) \in Seq(Nat)
          /\ Head(queue).id \in Nat
      BY <1>2, <2>1, <3>3, IdsOfQueue
    <3>5. Times(s, Append(Ids(batch), Head(queue).id))
            = Times(s, Ids(batch)) + (IF Head(queue).id = s THEN 1 ELSE 0)
      BY <3>4, TimesAppend, Zenon
    <3>6. Times(s, Ids(batch')) = Times(s, Ids(batch)) + (IF Head(queue).id = s THEN 1 ELSE 0)
      BY <3>4, <3>5
    <3> HIDE DEF Live
    <3> QED
      BY <1>4, <3>6 DEF PlacesTerms
  <2>3. GaveUp' = 0 /\ GaveUp = 0
    BY <1>1, <2>1 DEF GaveUp
  <2>4. GaveUp' >= GaveUp /\ dropped_samples' >= dropped_samples
    BY <1>1, <1>2, <2>3
  <2>5. final' \in BOOLEAN
    BY <1>1
  <2> QED
    BY <1>1, <2>2, <2>4, <2>5, ConsKept
<1>6. CASE Head(queue) = None
  <2>1. batch' = <<>> /\ tr' = "finalWait"
    BY <1>6 DEF Collect
  <2> DEFINE X == {Ids(batch)[i] : i \in 1 .. Len(batch)}
             f == [i \in 1 .. Len(batch) |-> Ids(batch)[i]]
  <2>2. IsFiniteSet(X) /\ Cardinality(X) \in Nat /\ Cardinality(X) <= Required - 1
    <3>1. IsFiniteSet(1 .. Len(batch)) /\ Cardinality(1 .. Len(batch)) = Len(batch)
      <4>1. Len(batch) \in Int /\ 1 \in Int
        BY <1>2
      <4>2. /\ IsFiniteSet(1 .. Len(batch))
            /\ Cardinality(1 .. Len(batch)) = IF 1 > Len(batch) THEN 0 ELSE Len(batch) - 1 + 1
        BY <4>1, FS_Interval
      <4> QED
        BY <1>2, <4>2
    <3>2. f \in Surjection(1 .. Len(batch), X)
      BY DEF Surjection
    <3>3. IsFiniteSet(X) /\ Cardinality(X) <= Cardinality(1 .. Len(batch))
      BY <3>1, <3>2, FS_Surjection
    <3>4. Cardinality(X) \in Nat
      BY <3>3, FS_CardinalityType
    <3> HIDE DEF X
    <3> QED
      BY <1>2, <3>1, <3>3, <3>4
  <2>3. ASSUME NEW s \in Samples
        PROVE  /\ Places(s)' <= Places(s) /\ Places(s) \in Nat /\ Places(s)' \in Nat
               /\ Places(s)' = 0 => Places(s) = 0 \/ s \in X
    <3>1. None.id # s
      BY SamplesFinite DEF None
    <3>2. Times(s, Ids(batch')) = 0
      <4>1. Ids(<<>>) = <<>>
        BY DEF Ids
      <4> QED
        BY <2>1, <4>1, TimesEmpty
    <3>3. Times(s, Ids(batch)) = 0 \/ s \in X
      BY <1>2, IdsType, TimesType
    <3> HIDE DEF Live, X
    <3> QED
      BY <1>4, <1>6, <3>1, <3>2, <3>3 DEF PlacesTerms
  <2> HIDE DEF X
  <2>4. Cardinality(Lost') \in Nat /\ Cardinality(Lost') <= Cardinality(Lost) + Cardinality(X)
    BY <2>2, <2>3, LostGrows
  <2>5. \A s \in Samples : Places(s)' <= 1
    BY <2>3 DEF ConsInv
  <2>6. Cardinality(Lost) <= fails + dropped_samples
    <3>1. GaveUp = 0
      BY <1>1 DEF GaveUp
    <3> QED
      BY <1>2, <3>1 DEF ConsInv
  <2>7. GaveUp' = Required - 1
    BY <2>1 DEF GaveUp
  <2>8. Cardinality(Lost') <= fails' + dropped_samples' + GaveUp'
    BY SMTT(30), <1>1, <1>2, <2>2, <2>4, <2>6, <2>7, LostFinite
  <2> QED
    BY <2>5, <2>8 DEF ConsInv
<1> QED
  BY <1>5, <1>6

LEMMA ConsStep ==
  ASSUME ConsInv, HandInv, LogInv, Types, Types', [Next]_vars
  PROVE  ConsInv'
<1>0. final \in BOOLEAN /\ (final => tr \in {"wait", "sync", "lastWait", "end"})
  BY DEF LogInv
<1>1. CASE ProcNext /\ UNCHANGED trVars
  BY <1>0, <1>1, ConsProc
<1>2. CASE TaskNext /\ UNCHANGED trVars
  BY <1>0, <1>2, ConsTask
<1>3. CASE MainPut /\ UNCHANGED trVars
  BY <1>0, <1>3, ConsMainPut
<1>4. CASE Collect
  <2>1. final = FALSE
    BY <1>0, <1>4 DEF Collect
  <2> QED
    BY <1>4, <2>1, ConsCollect
<1>5. CASE Train
  <2>1. /\ UNCHANGED <<taken, hand, cancel_queue, queue, final, fails, task, dropped_samples>>
        /\ trained' = trained \o Ids(batch) /\ batch' = <<>>
        /\ tr = "train" /\ tr' \in {"log", "wait"}
    BY <1>5 DEF Train, rollVars, coreVars, msgVars, Ids
  <2>2. ASSUME NEW s \in Samples PROVE Places(s)' = Places(s)
    <3>1. Times(s, trained') = Times(s, trained) + Times(s, Ids(batch))
      BY <2>1, IdsType, TimesConcat DEF Types, TrType
    <3>2. Times(s, Ids(batch')) = 0
      <4>1. Ids(<<>>) = <<>>
        BY DEF Ids
      <4> QED
        BY <2>1, <4>1, TimesEmpty
    <3>3. /\ Times(s, cancel_queue') = Times(s, cancel_queue) /\ UNCHANGED <<taken, hand>>
          /\ Times(s, Ids(queue')) = Times(s, Ids(queue))
          /\ s \in Live' <=> s \in Live
          /\ PlacesTerms(s) /\ PlacesTerms(s)'
      BY <2>1, PlacesNow, PlacesNext DEF Live
    <3> HIDE DEF Live
    <3> QED
      BY <3>1, <3>2, <3>3 DEF PlacesTerms
  <2>3. GaveUp' = 0 /\ GaveUp = 0 /\ final' \in BOOLEAN
    BY <1>0, <2>1 DEF GaveUp
  <2>4. GaveUp' >= GaveUp /\ dropped_samples' >= dropped_samples
    BY <2>1, <2>3 DEF Types, MQTypeOK
  <2> QED
    BY <2>1, <2>2, <2>3, <2>4, ConsKept
<1>6. CASE /\ UNCHANGED trVars
           /\ \/ Feed \/ MonNext \/ MainStop \/ RpcMoves \/ UpdatePutVal
              \/ UpdateLocked(weights)
  <2>1. UNCHANGED <<taken, hand, cancel_queue, queue, fails, dropped_samples>>
    BY <1>6 DEF Feed, MonNext, MonWake, MonSet, MonLoop, MainStop, RpcMoves, PauseCall,
                PauseLocked, PauseCancel, PauseGather, PauseDone, UpdateCall, UpdateSize,
                UpdateReply, ResumeCall, ResumeServers, ResumeDone, UpdatePutVal,
                put_validate, UpdateLocked, rpcOther, monOther, mainOther, coreVars, msgVars
  <2>2. Live' = Live
    <3>1. CASE PauseGather
      BY <3>1 DEF PauseGather, Live, Active, Finished
    <3>2. CASE ~ PauseGather
      <4>1. UNCHANGED task
        BY <1>6, <3>2 DEF Feed, MonNext, MonWake, MonSet, MonLoop, MainStop, RpcMoves,
                PauseCall, PauseLocked, PauseCancel, PauseDone, UpdateCall, UpdateSize,
                UpdateReply, ResumeCall, ResumeServers, ResumeDone, UpdatePutVal,
                UpdateLocked, monOther, mainOther, coreVars
      <4> QED
        BY <4>1 DEF Live
    <3> QED
      BY <3>1, <3>2
  <2>3. UNCHANGED <<batch, trained, final, tr>>
    BY <1>6 DEF trVars
  <2>4. GaveUp' >= GaveUp
    BY <2>3 DEF GaveUp
  <2> QED
    BY <1>0, <2>1, <2>2, <2>3, <2>4, ConsUnmoved
<1>7. CASE SyncStart \/ SyncVersion \/ SyncWeights \/ LogStep \/ FinalLog \/ LastLog
           \/ UNCHANGED vars
  <2>1. UNCHANGED <<taken, hand, cancel_queue, queue, batch, trained, fails,
                    dropped_samples, task>>
    BY <1>7 DEF SyncStart, SyncVersion, SyncWeights, LogStep, FinalLog, LastLog, Log,
                update_param_version, get_validate, vars, trVars, rollVars, coreVars, msgVars
  <2>2. /\ final' \in BOOLEAN
        /\ final \/ tr \in {"finalWait", "lastWait", "end"}
             => final' \/ tr' \in {"finalWait", "lastWait", "end"}
    BY <1>0, <1>7 DEF SyncStart, SyncVersion, SyncWeights, LogStep, FinalLog, LastLog, Log,
                      vars, trVars
  <2>3. GaveUp' >= GaveUp
    BY <2>2 DEF GaveUp
  <2>4. Live' = Live
    BY <2>1 DEF Live
  <2> QED
    BY <2>1, <2>2, <2>3, <2>4, ConsUnmoved
<1> QED
  BY <1>1, <1>2, <1>3, <1>4, <1>5, <1>6, <1>7
  DEF Next, RollNext, RpcMoves, MainNext, TrainerNext, RollUpdate, JobEnd

LEMMA ConsHolds == Spec => [](ConsInv /\ HandInv)
<1>1. Init => ConsInv /\ HandInv
  <2> SUFFICES ASSUME Init PROVE ConsInv /\ HandInv
    OBVIOUS
  <2>1. /\ taken = 0 /\ hand = 0 /\ cancel_queue = <<>> /\ queue = <<>> /\ batch = <<>>
        /\ trained = <<>> /\ fails = 0 /\ dropped_samples = 0 /\ final = FALSE
        /\ task = [s \in Samples |-> "none"] /\ tr = "log"
    BY DEF Init, RollInit
  <2>2. ASSUME NEW s \in Samples PROVE Places(s) = 1
    <3>1. Ids(<<>>) = <<>> /\ Times(s, <<>>) = 0
      BY TimesEmpty DEF Ids
    <3>2. s \in Nat /\ s > 0
      BY SamplesFinite
    <3> QED
      BY <2>1, <3>1, <3>2 DEF Places
  <2>3. Lost = {}
    BY <2>2 DEF Lost
  <2>4. Cardinality(Lost) = 0 /\ GaveUp = 0
    BY <2>1, <2>3, FS_EmptySet DEF GaveUp
  <2>5. ConsInv
    BY <2>1, <2>2, <2>4 DEF ConsInv
  <2> QED
    BY <2>1, <2>5 DEF HandInv
<1>2. ConsInv /\ HandInv /\ LogInv /\ Types /\ Types' /\ [Next]_vars => ConsInv' /\ HandInv'
  BY ConsStep, HandStep
<1> QED
  BY <1>1, <1>2, LogHolds, TypesHold, PTL DEF Spec

(* However the job is paused, interrupted and resumed, for every             *)
(* configuration: no sample is in two places, hence none is trained on       *)
(* twice, and every sample that is nowhere is accounted for by a failed      *)
(* generation, the queue's dropped_samples or the batch given up at the end. *)
THEOREM SamplesConserved == Spec => []SampleConservation
<1>1. ConsInv /\ LogInv /\ Types => SampleConservation
  <2> SUFFICES ASSUME ConsInv, LogInv, Types PROVE SampleConservation
    OBVIOUS
  <2>1. Required \in Nat /\ Required >= 1
    OBVIOUS
  <2>2. GaveUp \in Nat /\ GaveUp <= IF tr \in {"log", "collect", "train"} THEN 0 ELSE Required - 1
    BY <2>1 DEF GaveUp, LogInv
  <2>3. fails \in Nat /\ dropped_samples \in Nat /\ Cardinality(Lost) \in Nat
    BY LostFinite DEF Types, CoreType, MQTypeOK
  <2>4. Cardinality(Lost) <= fails + dropped_samples
                    + (IF tr \in {"log", "collect", "train"} THEN 0 ELSE Required - 1)
    BY <2>1, <2>2, <2>3 DEF ConsInv
  <2> QED
    BY <2>4 DEF ConsInv, SampleConservation, Lost
<1> QED
  BY <1>1, ConsHolds, LogHolds, TypesHold, PTL

------------------------------------------------------------------------------
(* The samples in flight                                                     *)

SetOf(q) == {q[i] : i \in 1 .. Len(q)}

LEMMA SetAppend ==
  ASSUME NEW S, NEW q \in Seq(S), NEW e \in S
  PROVE  SetOf(Append(q, e)) = SetOf(q) \cup {e}
<1> DEFINE a == Append(q, e)
<1>1. /\ Len(q) \in Nat /\ Len(a) = Len(q) + 1 /\ a[Len(q) + 1] = e
      /\ \A i \in 1 .. Len(q) : a[i] = q[i]
  OBVIOUS
<1> HIDE DEF a
<1>2. SetOf(a) = SetOf(q) \cup {e}
  BY <1>1, SMTT(30) DEF SetOf
<1> QED
  BY <1>2 DEF a

LEMMA SetTail ==
  ASSUME NEW S, NEW q \in Seq(S), q # <<>>
  PROVE  SetOf(Tail(q)) \subseteq SetOf(q) /\ Head(q) \in SetOf(q)
<1>1. /\ Len(q) \in Nat \ {0} /\ Len(Tail(q)) = Len(q) - 1 /\ Head(q) = q[1]
      /\ \A i \in 1 .. Len(Tail(q)) : Tail(q)[i] = q[i + 1]
  OBVIOUS
<1>2. \A i \in 1 .. Len(Tail(q)) : i + 1 \in 1 .. Len(q)
  BY <1>1
<1> QED
  BY <1>1, <1>2 DEF SetOf

LEMMA SetCard ==
  ASSUME NEW S, NEW q \in Seq(S)
  PROVE  /\ IsFiniteSet(SetOf(q)) /\ Cardinality(SetOf(q)) \in Nat
         /\ Cardinality(SetOf(q)) <= Len(q)
<1> DEFINE f == [i \in 1 .. Len(q) |-> q[i]]
<1>1. Len(q) \in Nat /\ Len(q) \in Int /\ 1 \in Int
  OBVIOUS
<1>2. /\ IsFiniteSet(1 .. Len(q))
      /\ Cardinality(1 .. Len(q)) = IF 1 > Len(q) THEN 0 ELSE Len(q) - 1 + 1
  BY <1>1, FS_Interval
<1>3. f \in Surjection(1 .. Len(q), SetOf(q))
  BY DEF Surjection, SetOf
<1>4. IsFiniteSet(SetOf(q)) /\ Cardinality(SetOf(q)) <= Cardinality(1 .. Len(q))
  BY <1>2, <1>3, FS_Surjection
<1>5. Cardinality(SetOf(q)) \in Nat
  BY <1>4, FS_CardinalityType
<1> QED
  BY <1>1, <1>2, <1>4, <1>5

\* The samples in the processor's hand, in a task, interrupted or queued.
Queued == {m.id : m \in SetOf(queue)}
Flying == Samples \cap ({hand} \cup Live \cup SetOf(cancel_queue) \cup Queued)

LEMMA FlyingFinite ==
  ASSUME NEW X, X \subseteq Flying
  PROVE  /\ IsFiniteSet(Flying) /\ Cardinality(Flying) \in Nat
         /\ IsFiniteSet(X) /\ Cardinality(X) \in Nat /\ Cardinality(X) <= Cardinality(Flying)
<1>1. Flying \in SUBSET Samples
  BY DEF Flying
<1>2. IsFiniteSet(Flying)
  BY <1>1, SamplesFinite, FS_Subset
<1>3. IsFiniteSet(X) /\ Cardinality(X) <= Cardinality(Flying)
  BY <1>2, FS_Subset
<1> QED
  BY <1>2, <1>3, FS_CardinalityType

LEMMA QueuedTimes ==
  ASSUME Types, NEW s \in Samples
  PROVE  /\ Times(s, cancel_queue) \in Nat /\ Times(s, Ids(queue)) \in Nat
         /\ Times(s, cancel_queue) + Times(s, Ids(queue)) > 0
              <=> s \in SetOf(cancel_queue) \/ s \in Queued
<1>1. /\ cancel_queue \in Seq(Samples) /\ queue \in Seq(Msg)
      /\ Ids(queue) \in Seq(Nat) /\ Len(Ids(queue)) = Len(queue)
  BY IdsOfQueue DEF Types, CoreType, MQTypeOK
<1>2. /\ Times(s, cancel_queue) \in Nat /\ Times(s, Ids(queue)) \in Nat
      /\ Times(s, cancel_queue) = 0 <=> s \notin SetOf(cancel_queue)
      /\ Times(s, Ids(queue)) = 0 <=> \A i \in 1 .. Len(queue) : Ids(queue)[i] # s
  BY <1>1, TimesType DEF SetOf
<1>3. s \in Queued <=> \E i \in 1 .. Len(queue) : Ids(queue)[i] = s
  BY DEF Queued, SetOf, Ids
<1> QED
  BY <1>2, <1>3

LEMMA InFlightIsFlying == ASSUME Types PROVE InFlight = Cardinality(Flying)
<1>1. {s \in Samples : \/ s = hand
                       \/ task[s] \in {"gen", "cut", "put"}
                       \/ Times(s, cancel_queue) + Times(s, Ids(queue)) > 0} = Flying
  BY QueuedTimes DEF Flying, Live
<1> QED
  BY <1>1 DEF InFlight

\* What put_sample of message m leaves in the queue.
LEMMA QueuedPut ==
  ASSUME MQTypeOK, NEW m \in Msg, put_sample(m)
  PROVE  SetOf(queue') \subseteq SetOf(queue) \cup {m}
<1> DEFINE rest == IF Full THEN Tail(queue) ELSE queue
<1>1. queue \in Seq(Msg) /\ (Full => queue # <<>>)
  BY MaxRequiredType DEF MQTypeOK, Full
<1>2. rest \in Seq(Msg) /\ SetOf(rest) \subseteq SetOf(queue)
  <2>1. CASE Full
    BY <1>1, <2>1, TailAt, SetTail
  <2>2. CASE ~ Full
    BY <1>1, <2>2
  <2> QED
    BY <2>1, <2>2
<1>3. queue' = Append(rest, m)
  BY DEF put_sample
<1> HIDE DEF rest
<1> QED
  BY <1>2, <1>3, SetAppend

\* Only the processor's take from pending_queue adds a sample.
FlyMove ==
  \/ Flying' \subseteq Flying /\ Flying' \ {hand'} \subseteq Flying \ {hand}
  \/ ProcSubmit /\ ~ paused /\ Flying' \subseteq Flying
  \/ /\ ProcTakePending /\ taken' = taken + 1 /\ staleness_samples' = staleness_samples + 1
     /\ hand = 0 /\ hand' = taken + 1 /\ Flying' \subseteq Flying \cup {taken + 1}

LEMMA FlyMoves == ASSUME Types, HandInv, [Next]_vars PROVE FlyMove
<1>0. /\ cancel_queue \in Seq(Samples) /\ queue \in Seq(Msg) /\ MQTypeOK
      /\ task \in [Samples -> {"none", "gen", "cut", "put", "done", "err"}]
      /\ 0 \notin Samples
  BY SamplesFinite DEF Types, CoreType, MQTypeOK
<1>1. ASSUME UNCHANGED <<hand, cancel_queue>>, Live' \subseteq Live,
             SetOf(queue') \subseteq SetOf(queue)
      PROVE  FlyMove
  BY <1>1 DEF FlyMove, Flying, Queued
<1>2. CASE ProcTakeCancelled
  <2>1. /\ hand = 0 /\ hand' = Head(cancel_queue) /\ cancel_queue' = Tail(cancel_queue)
        /\ cancel_queue # <<>> /\ UNCHANGED <<task, queue>>
    BY <1>2 DEF ProcTakeCancelled, HandInv, procOther, msgVars
  <2>2. SetOf(cancel_queue') \subseteq SetOf(cancel_queue) /\ hand' \in SetOf(cancel_queue)
    BY <1>0, <2>1, SetTail
  <2>3. Live' = Live /\ Queued' = Queued
    BY <2>1 DEF Live, Queued
  <2> QED
    BY <1>0, <2>1, <2>2, <2>3 DEF FlyMove, Flying
<1>3. CASE ProcTakePending
  <2>1. /\ UNCHANGED <<task, queue, cancel_queue>> /\ hand = 0
        /\ \/ hand' = hand
           \/ taken' = taken + 1 /\ staleness_samples' = staleness_samples + 1 /\ hand' = taken + 1
    BY <1>3 DEF ProcTakePending, HandInv, procOther, msgVars
  <2>2. Live' = Live /\ Queued' = Queued
    BY <2>1 DEF Live, Queued
  <2> QED
    BY <1>3, <2>1, <2>2 DEF FlyMove, Flying
<1>4. CASE ProcSubmit
  <2>1. UNCHANGED <<queue, cancel_queue>>
    BY <1>4 DEF ProcSubmit, procOther, msgVars
  <2>2. CASE paused
    <3>1. UNCHANGED <<hand, task>>
      BY <1>4, <2>2 DEF ProcSubmit
    <3> QED
      BY <1>1, <2>1, <3>1 DEF Live
  <2>3. CASE ~ paused
    <3>1. task' = [task EXCEPT ![hand] = "gen"] /\ hand' = 0
      BY <1>4, <2>3 DEF ProcSubmit
    <3>2. Live' \subseteq Live \cup {hand} /\ Queued' = Queued
      BY <1>0, <2>1, <3>1 DEF Live, Queued
    <3>3. Flying' \subseteq Flying
      BY <1>0, <2>1, <3>1, <3>2 DEF Flying
    <3> QED
      BY <1>4, <2>3, <3>3 DEF FlyMove
  <2> QED
    BY <2>2, <2>3
<1>5. CASE ProcTop \/ ProcSetPaused \/ ProcDrain \/ ProcDrainLocked \/ ProcCollect \/ ProcIdle
           \/ ProcWoken
  <2>1. UNCHANGED <<hand, cancel_queue, queue>>
    BY <1>5 DEF ProcTop, ProcSetPaused, ProcDrain, ProcDrainLocked, ProcCollect, ProcIdle,
                ProcWoken, procOther, msgVars
  <2>2. Live' \subseteq Live
    <3>1. CASE ProcCollect
      BY <3>1 DEF ProcCollect, Live, Finished
    <3>2. CASE ~ ProcCollect
      BY <1>5, <3>2 DEF ProcTop, ProcSetPaused, ProcDrain, ProcDrainLocked, ProcIdle,
                        ProcWoken, Live
    <3> QED
      BY <3>1, <3>2
  <2> QED
    BY <1>1, <2>1, <2>2
<1>6. ASSUME NEW s \in Samples, Generated(s) \/ CutShort(s) \/ Fails(s) PROVE FlyMove
  <2>1. UNCHANGED <<hand, cancel_queue, queue>> /\ s \in Live
    BY <1>6 DEF Generated, CutShort, Fails, taskOther, msgVars, Live
  <2>2. Live' \subseteq Live
    BY <1>0, <1>6, <2>1 DEF Generated, CutShort, Fails, Live
  <2> QED
    BY <1>1, <2>1, <2>2
<1>7. ASSUME NEW s \in Samples, Interrupted(s) PROVE FlyMove
  <2>1. /\ UNCHANGED <<hand, queue>> /\ s \in Live /\ cancel_queue' = Append(cancel_queue, s)
        /\ task' = [task EXCEPT ![s] = "done"]
    BY <1>7 DEF Interrupted, taskOther, msgVars, Live
  <2>2. SetOf(cancel_queue') = SetOf(cancel_queue) \cup {s} /\ Live' \subseteq Live
        /\ Queued' = Queued
    BY <1>0, <2>1, SetAppend DEF Live, Queued
  <2> QED
    BY <2>1, <2>2 DEF FlyMove, Flying
<1>8. ASSUME NEW s \in Samples, PutSample(s) PROVE FlyMove
  <2> DEFINE m == [id |-> s, ver |-> stamp[s]]
  <2>1. /\ UNCHANGED <<hand, cancel_queue>> /\ s \in Live
        /\ task' = [task EXCEPT ![s] = "done"] /\ put_sample(m)
    BY <1>8 DEF PutSample, taskOther, Live
  <2>2. m \in Msg /\ m.id = s
    BY DEF Msg, Types, CoreType
  <2>3. SetOf(queue') \subseteq SetOf(queue) \cup {m} /\ Live' \subseteq Live
    BY <1>0, <2>1, <2>2, QueuedPut DEF Live
  <2> HIDE DEF m
  <2>4. Queued' \subseteq Queued \cup {s}
    BY <2>2, <2>3 DEF Queued
  <2> QED
    BY <2>1, <2>3, <2>4 DEF FlyMove, Flying
<1>9. CASE MainPut
  <2>1. UNCHANGED <<hand, cancel_queue, task>> /\ put_sample(None)
    BY <1>9 DEF MainPut, mainOther, coreVars
  <2>2. None \in Msg /\ None.id = 0
    BY DEF Msg, None
  <2>3. SetOf(queue') \subseteq SetOf(queue) \cup {None}
    BY <1>0, <2>1, <2>2, QueuedPut
  <2>4. Queued' \subseteq Queued \cup {0} /\ Live' = Live
    BY <2>1, <2>2, <2>3 DEF Queued, Live
  <2> QED
    BY <1>0, <2>1, <2>4 DEF FlyMove, Flying
<1>10. CASE Collect
  <2>1. UNCHANGED <<hand, cancel_queue, task>> /\ queue # <<>> /\ queue' = Tail(queue)
    BY <1>10 DEF Collect, get_sample, rollVars, coreVars
  <2>2. SetOf(queue') \subseteq SetOf(queue) /\ Live' = Live
    BY <1>0, <2>1, SetTail DEF Live
  <2> QED
    BY <1>1, <2>1, <2>2
<1>11. CASE \/ Feed \/ MonNext \/ MainStop \/ RpcMoves \/ UpdatePutVal \/ UpdateLocked(weights)
  <2>1. UNCHANGED <<hand, cancel_queue, queue>>
    BY <1>11 DEF Feed, MonNext, MonWake, MonSet, MonLoop, MainStop, RpcMoves, PauseCall,
                PauseLocked, PauseCancel, PauseGather, PauseDone, UpdateCall, UpdateSize,
                UpdateReply, ResumeCall, ResumeServers, ResumeDone, UpdatePutVal,
                put_validate, UpdateLocked, rpcOther, monOther, mainOther, coreVars, msgVars
  <2>2. Live' \subseteq Live
    <3>1. CASE PauseGather
      BY <3>1 DEF PauseGather, Live
    <3>2. CASE ~ PauseGather
      <4>1. UNCHANGED task
        BY <1>11, <3>2 DEF Feed, MonNext, MonWake, MonSet, MonLoop, MainStop, RpcMoves,
                PauseCall, PauseLocked, PauseCancel, PauseDone, UpdateCall, UpdateSize,
                UpdateReply, ResumeCall, ResumeServers, ResumeDone, UpdatePutVal,
                UpdateLocked, monOther, mainOther, coreVars
      <4> QED
        BY <4>1 DEF Live
    <3> QED
      BY <3>1, <3>2
  <2> QED
    BY <1>1, <2>1, <2>2
<1>12. CASE \/ Train \/ SyncStart \/ SyncVersion \/ SyncWeights \/ LogStep \/ FinalLog \/ LastLog
            \/ UNCHANGED vars
  <2>1. UNCHANGED <<hand, cancel_queue, queue, task>>
    BY <1>12 DEF Train, SyncStart, SyncVersion, SyncWeights, LogStep, FinalLog, LastLog, Log,
                update_param_version, get_validate, vars, trVars, rollVars, coreVars, msgVars
  <2> QED
    BY <1>1, <2>1 DEF Live
<1> QED
  BY <1>2, <1>3, <1>4, <1>5, <1>6, <1>7, <1>8, <1>9, <1>10, <1>11, <1>12
  DEF Next, RollNext, ProcNext, TaskNext, RpcMoves, MainNext, TrainerNext, RollUpdate, JobEnd

\* The tasks and the interrupted samples grow only with a submission, which
\* waits while a call of the synchronizer holds the lock.
LEMMA TasksKept ==
  ASSUME Types, [Next]_vars, ~ ProcSubmit
  PROVE  Cardinality(Live') + Len(cancel_queue') <= Cardinality(Live) + Len(cancel_queue)
<1>0. /\ cancel_queue \in Seq(Samples) /\ Len(cancel_queue) \in Nat
      /\ task \in [Samples -> {"none", "gen", "cut", "put", "done", "err"}]
      /\ IsFiniteSet(Live) /\ Cardinality(Live) \in Nat
  BY LiveFinite DEF Types, CoreType
<1>1. ASSUME Live' \subseteq Live, Len(cancel_queue') \in Nat,
             Len(cancel_queue') <= Len(cancel_queue)
      PROVE  Cardinality(Live') + Len(cancel_queue') <= Cardinality(Live) + Len(cancel_queue)
  <2>1. Cardinality(Live') <= Cardinality(Live) /\ Cardinality(Live') \in Nat
    BY <1>0, <1>1, FS_Subset, FS_CardinalityType
  <2> QED
    BY <1>0, <1>1, <2>1
<1>2. CASE ProcTakeCancelled
  <2>1. UNCHANGED task /\ cancel_queue # <<>> /\ cancel_queue' = Tail(cancel_queue)
    BY <1>2 DEF ProcTakeCancelled
  <2>2. Len(cancel_queue') \in Nat /\ Len(cancel_queue') <= Len(cancel_queue) /\ Live' = Live
    BY <1>0, <2>1 DEF Live
  <2> QED
    BY <1>1, <2>2
<1>3. CASE ProcTakePending \/ ProcTop \/ ProcSetPaused \/ ProcDrain \/ ProcDrainLocked
           \/ ProcCollect \/ ProcIdle \/ ProcWoken
  <2>1. UNCHANGED cancel_queue
    BY <1>3 DEF ProcTakePending, ProcTop, ProcSetPaused, ProcDrain, ProcDrainLocked,
                ProcCollect, ProcIdle, ProcWoken
  <2>2. Live' \subseteq Live
    <3>1. CASE ProcCollect
      BY <3>1 DEF ProcCollect, Live, Finished
    <3>2. CASE ~ ProcCollect
      BY <1>3, <3>2 DEF ProcTakePending, ProcTop, ProcSetPaused, ProcDrain, ProcDrainLocked,
                        ProcIdle, ProcWoken, Live
    <3> QED
      BY <3>1, <3>2
  <2> QED
    BY <1>0, <1>1, <2>1, <2>2
<1>4. ASSUME NEW s \in Samples, Generated(s) \/ CutShort(s) \/ Fails(s) \/ PutSample(s)
      PROVE  Cardinality(Live') + Len(cancel_queue') <= Cardinality(Live) + Len(cancel_queue)
  <2>1. UNCHANGED cancel_queue /\ s \in Live
    BY <1>4 DEF Generated, CutShort, Fails, PutSample, Live
  <2>2. Live' \subseteq Live
    BY <1>0, <1>4, <2>1 DEF Generated, CutShort, Fails, PutSample, Live
  <2> QED
    BY <1>0, <1>1, <2>1, <2>2
<1>5. ASSUME NEW s \in Samples, Interrupted(s)
      PROVE  Cardinality(Live') + Len(cancel_queue') <= Cardinality(Live) + Len(cancel_queue)
  <2>1. /\ s \in Live /\ cancel_queue' = Append(cancel_queue, s)
        /\ task' = [task EXCEPT ![s] = "done"]
    BY <1>5 DEF Interrupted, Live
  <2>2. Live' = Live \ {s}
    BY <1>0, <2>1 DEF Live
  <2>3. Cardinality(Live') = Cardinality(Live) - 1
    BY <1>0, <2>1, <2>2, FS_RemoveElement
  <2>4. Len(cancel_queue') = Len(cancel_queue) + 1
    BY <1>0, <2>1
  <2> QED
    BY <1>0, <2>3, <2>4
<1>6. CASE \/ Feed \/ MonNext \/ MainNext \/ RpcMoves \/ UpdatePutVal \/ UpdateLocked(weights)
  <2>1. UNCHANGED cancel_queue
    BY <1>6 DEF Feed, MonNext, MonWake, MonSet, MonLoop, MainNext, MainPut, MainStop, RpcMoves,
                PauseCall, PauseLocked, PauseCancel, PauseGather, PauseDone, UpdateCall,
                UpdateSize, UpdateReply, ResumeCall, ResumeServers, ResumeDone, UpdatePutVal,
                UpdateLocked, rpcOther, monOther, mainOther, coreVars
  <2>2. Live' \subseteq Live
    <3>1. CASE PauseGather
      BY <3>1 DEF PauseGather, Live
    <3>2. CASE ~ PauseGather
      <4>1. UNCHANGED task
        BY <1>6, <3>2 DEF Feed, MonNext, MonWake, MonSet, MonLoop, MainNext, MainPut, MainStop,
                RpcMoves, PauseCall, PauseLocked, PauseCancel, PauseDone, UpdateCall,
                UpdateSize, UpdateReply, ResumeCall, ResumeServers, ResumeDone, UpdatePutVal,
                UpdateLocked, monOther, mainOther, coreVars
      <4> QED
        BY <4>1 DEF Live
    <3> QED
      BY <3>1, <3>2
  <2> QED
    BY <1>0, <1>1, <2>1, <2>2
<1>7. CASE TrainerNext \/ UNCHANGED vars
  <2>1. UNCHANGED <<cancel_queue, task>>
    BY <1>7 DEF TrainerNext, Collect, Train, SyncStart, SyncVersion, SyncWeights, LogStep,
                FinalLog, LastLog, Log, vars, rollVars, coreVars
  <2> QED
    BY <1>0, <1>1, <2>1 DEF Live
<1> QED
  BY <1>2, <1>3, <1>4, <1>5, <1>6, <1>7
  DEF Next, RollNext, ProcNext, TaskNext, RpcMoves, RollUpdate, JobEnd

\* What may happen to the counters of update_param_version.
CountMove ==
  /\ \/ staleness_samples' = staleness_samples
     \/ ProcTakePending /\ staleness_samples' = staleness_samples + 1
     \/ UpdateReply
  /\ rpc' = "size" => \/ rpc = "size" /\ cnt' = cnt
                      \/ UpdateLocked(weights)
  /\ rpc' = "reply" => \/ rpc = "reply" /\ cnt' = cnt
                       \/ UpdateSize
  /\ proc' \in {"take", "get"} => \/ proc \in {"take", "get"}
                                  \/ ProcTop /\ ~ ShouldPause

LEMMA CountMoves == ASSUME [Next]_vars PROVE CountMove
<1> USE DEF CountMove
<1>1. CASE ProcNext
  BY <1>1 DEF ProcNext, ProcTop, ProcSetPaused, ProcTakeCancelled, ProcTakePending, ProcDrain,
              ProcDrainLocked, ProcCollect, ProcIdle, ProcSubmit, ProcWoken, procOther
<1>2. CASE Feed \/ TaskNext \/ MonNext \/ MainNext
  BY <1>2 DEF Feed, TaskNext, Generated, PutSample, CutShort, Interrupted, Fails, taskOther,
              MonNext, MonWake, MonSet, MonLoop, MainNext, MainPut, MainStop, Notify,
              monOther, mainOther, ctlVars
<1>3. CASE RpcMoves \/ UpdatePutVal \/ RollUpdate
  BY <1>3 DEF RpcMoves, PauseCall, PauseLocked, PauseCancel, PauseGather, PauseDone,
              UpdateCall, UpdateSize, UpdateReply, ResumeCall, ResumeServers, ResumeDone,
              UpdatePutVal, RollUpdate, UpdateLocked, Notify
<1>4. CASE TrainerNext \/ UNCHANGED vars
  BY <1>4 DEF TrainerNext, Collect, Train, SyncStart, SyncVersion, SyncWeights, LogStep,
              FinalLog, LastLog, Log, vars, rollVars, ctlVars
<1> QED
  BY <1>1, <1>2, <1>3, <1>4 DEF Next, RollNext, RpcMoves, JobEnd

\* staleness_samples counts the samples in flight but for the one in the
\* processor's hand while update_param_version was counting; that call counts
\* all others, although they go from task to queue while it does.
FlyInv ==
  /\ Cardinality(Flying) <= staleness_samples + 1
  /\ rpc = "size" => Cardinality(Live) + Len(cancel_queue) <= cnt
  /\ rpc = "reply" => Cardinality(Flying \ {hand}) <= cnt
  /\ proc \in {"take", "get"} => Cardinality(Flying) <= MaxRequired
  /\ Cardinality(Flying) <= MaxRequired + 1

LEMMA FlyingCard ==
  ASSUME NEW F, F \subseteq Samples, NEW x
  PROVE  /\ IsFiniteSet(F) /\ Cardinality(F) \in Nat
         /\ \A G \in SUBSET F : Cardinality(G) \in Nat /\ Cardinality(G) <= Cardinality(F)
         /\ Cardinality(F) <= Cardinality(F \ {x}) + 1
         /\ Cardinality(F \cup {x}) \in Nat /\ Cardinality(F \cup {x}) <= Cardinality(F) + 1
<1>1. IsFiniteSet(F) /\ Cardinality(F) \in Nat
  BY SamplesFinite, FS_Subset, FS_CardinalityType
<1>2. \A G \in SUBSET F : Cardinality(G) \in Nat /\ Cardinality(G) <= Cardinality(F)
  BY <1>1, FS_Subset, FS_CardinalityType
<1>3. Cardinality(F \ {x}) = IF x \in F THEN Cardinality(F) - 1 ELSE Cardinality(F)
  BY <1>1, FS_RemoveElement
<1>4. Cardinality(F \cup {x}) = IF x \in F THEN Cardinality(F) ELSE Cardinality(F) + 1
  BY <1>1, FS_AddElement
<1> QED
  BY <1>1, <1>2, <1>3, <1>4

LEMMA CountedAll ==
  ASSUME Types
  PROVE  Cardinality(Flying \ {hand}) <= Cardinality(Live) + Len(cancel_queue) + Len(queue)
<1>1. /\ IsFiniteSet(Live) /\ Cardinality(Live) \in Nat
      /\ cancel_queue \in Seq(Samples) /\ queue \in Seq(Msg)
      /\ Len(cancel_queue) \in Nat /\ Len(queue) \in Nat
  <2>1. cancel_queue \in Seq(Samples) /\ queue \in Seq(Msg)
    BY Zenon DEF Types, CoreType, MQTypeOK
  <2> QED
    BY <2>1, LiveFinite
<1>2. /\ IsFiniteSet(SetOf(cancel_queue)) /\ Cardinality(SetOf(cancel_queue)) \in Nat
      /\ Cardinality(SetOf(cancel_queue)) <= Len(cancel_queue)
  BY <1>1, SetCard
<1>3. /\ IsFiniteSet(Queued) /\ Cardinality(Queued) \in Nat /\ Cardinality(Queued) <= Len(queue)
  <2>1. Ids(queue) \in Seq(Nat) /\ Len(Ids(queue)) = Len(queue)
    BY <1>1, IdsOfQueue
  <2>2. SetOf(Ids(queue)) = Queued
    <3>1. \A i \in 1 .. Len(queue) : Ids(queue)[i] = queue[i].id
      BY DEF Ids
    <3> QED
      BY <2>1, <3>1, Zenon DEF SetOf, Queued
  <2> QED
    BY <2>1, <2>2, SetCard
<1> DEFINE A == Live
           B == SetOf(cancel_queue)
           C == Queued
<1>4. ASSUME NEW U, NEW V, IsFiniteSet(U), IsFiniteSet(V)
      PROVE  /\ IsFiniteSet(U \cup V) /\ Cardinality(U \cup V) \in Nat
             /\ Cardinality(U \cup V) <= Cardinality(U) + Cardinality(V)
  <2>1. /\ IsFiniteSet(U \cup V)
        /\ Cardinality(U \cup V) = Cardinality(U) + Cardinality(V) - Cardinality(U \cap V)
    BY <1>4, FS_Union
  <2>2. U \cap V \subseteq U
    OBVIOUS
  <2>3. IsFiniteSet(U \cap V)
    BY <1>4, <2>2, FS_Subset
  <2>4. Cardinality(U) \in Nat /\ Cardinality(V) \in Nat /\ Cardinality(U \cap V) \in Nat
        /\ Cardinality(U \cup V) \in Nat
    BY <1>4, <2>1, <2>3, FS_CardinalityType
  <2> QED
    BY <2>1, <2>4
<1> HIDE DEF A, B, C
<1>5. /\ IsFiniteSet(A \cup B) /\ Cardinality(A \cup B) \in Nat
      /\ Cardinality(A \cup B) <= Cardinality(A) + Cardinality(B)
  BY <1>1, <1>2, <1>4 DEF A, B
<1>6. /\ IsFiniteSet((A \cup B) \cup C) /\ Cardinality((A \cup B) \cup C) \in Nat
      /\ Cardinality((A \cup B) \cup C) <= Cardinality(A \cup B) + Cardinality(C)
  BY <1>3, <1>4, <1>5 DEF C
<1>7. Flying \ {hand} \subseteq (A \cup B) \cup C
  BY DEF Flying, A, B, C
<1>8. /\ Cardinality(Flying \ {hand}) \in Nat
      /\ Cardinality(Flying \ {hand}) <= Cardinality((A \cup B) \cup C)
  BY <1>6, <1>7, FS_Subset, FS_CardinalityType
<1>9. Cardinality(A) = Cardinality(Live) /\ Cardinality(B) <= Len(cancel_queue)
      /\ Cardinality(C) <= Len(queue) /\ Cardinality(B) \in Nat /\ Cardinality(C) \in Nat
  BY <1>2, <1>3 DEF A, B, C
<1>10. \A f, abc, ab, a, b, c, l, m \in Nat :
          f <= abc /\ abc <= ab + c /\ ab <= a + b /\ b <= l /\ c <= m => f <= a + l + m
  OBVIOUS
<1>11. /\ Cardinality(Live) \in Nat /\ Cardinality(A \cup B) \in Nat
       /\ Cardinality((A \cup B) \cup C) \in Nat
       /\ Cardinality(A \cup B) <= Cardinality(Live) + Cardinality(B)
       /\ Cardinality((A \cup B) \cup C) <= Cardinality(A \cup B) + Cardinality(C)
  BY <1>1, <1>5, <1>6, <1>9, Zenon
<1> QED
  BY <1>1, <1>8, <1>9, <1>10, <1>11, Zenon

LEMMA FlyStep ==
  ASSUME FlyInv, Types, Types', HandInv, LockInv, [Next]_vars
  PROVE  FlyInv'
<1>1. FlyMove /\ CountMove
  BY FlyMoves, CountMoves
<1>2. /\ Flying \subseteq Samples /\ Flying' \subseteq Samples
      /\ staleness_samples \in Nat /\ staleness_samples' \in Nat /\ cnt \in Nat
      /\ MaxRequired \in Nat
  BY MaxRequiredType DEF Flying, Types, CtlType
<1>3. rpc \in RpcOwns => ~ ProcSubmit
  BY DEF LockInv, ProcSubmit, Holds
<1>4. /\ Cardinality(Flying) \in Nat /\ Cardinality(Flying') \in Nat
      /\ Cardinality(Flying' \ {hand'}) \in Nat /\ Cardinality(Flying \ {hand}) \in Nat
      /\ Cardinality(Flying) <= Cardinality(Flying \ {hand}) + 1
      /\ Flying' \subseteq Flying => Cardinality(Flying') <= Cardinality(Flying)
  BY <1>2, FlyingCard
<1>5. ProcTakePending /\ Flying' \subseteq Flying \cup {taken + 1}
        => Cardinality(Flying') <= Cardinality(Flying) + 1
  <2>1. Cardinality(Flying \cup {taken + 1}) \in Nat
        /\ Cardinality(Flying \cup {taken + 1}) <= Cardinality(Flying) + 1
    BY <1>2, FlyingCard
  <2>2. IsFiniteSet(Flying \cup {taken + 1})
    BY <1>2, FlyingCard, FS_AddElement
  <2> QED
    BY <1>4, <2>1, <2>2, FS_Subset
<1>6. Cardinality(Flying') <= staleness_samples' + 1
  <2>1. CASE UpdateReply
    <3>1. rpc = "reply" /\ staleness_samples' = cnt /\ ~ ProcSubmit /\ ~ ProcTakePending
      BY <1>3, <2>1 DEF UpdateReply, RpcOwns, ProcTakePending, procOther
    <3>2. Flying' \subseteq Flying
      BY <1>1, <3>1 DEF FlyMove
    <3> QED
      BY <1>2, <1>4, <3>1, <3>2 DEF FlyInv
  <2>2. CASE ~ UpdateReply
    <3>1. CASE Flying' \subseteq Flying
      <4>1. staleness_samples' >= staleness_samples
        BY <1>1, <1>2, <2>2 DEF CountMove
      <4>2. Cardinality(Flying') <= Cardinality(Flying)
            /\ Cardinality(Flying) <= staleness_samples + 1
        BY <1>4, <3>1, Zenon DEF FlyInv
      <4> QED
        BY <1>2, <1>4, <4>1, <4>2
    <3>2. CASE ~ (Flying' \subseteq Flying)
      <4>1. /\ staleness_samples' = staleness_samples + 1
            /\ Cardinality(Flying') <= Cardinality(Flying) + 1
        BY <1>1, <1>5, <3>2 DEF FlyMove
      <4>2. Cardinality(Flying) <= staleness_samples + 1
        BY Zenon DEF FlyInv
      <4> QED
        BY <1>2, <1>4, <4>1, <4>2
    <3> QED
      BY <3>1, <3>2
  <2> QED
    BY <2>1, <2>2
<1>7. rpc' = "size" => Cardinality(Live') + Len(cancel_queue') <= cnt'
  <2> SUFFICES ASSUME rpc' = "size"
               PROVE  Cardinality(Live') + Len(cancel_queue') <= cnt'
    OBVIOUS
  <2>0. /\ Cardinality(Live) \in Nat /\ Cardinality(Live) <= Cardinality(Active)
        /\ Cardinality(Live') \in Nat /\ Cardinality(Active) \in Nat
        /\ Len(cancel_queue) \in Nat /\ Len(cancel_queue') \in Nat
    <3>1. Live' \subseteq Samples
      BY DEF Live
    <3>2. Cardinality(Live') \in Nat
      BY <3>1, FlyingCard
    <3>3. Len(cancel_queue) \in Nat /\ Len(cancel_queue') \in Nat
      <4>1. cancel_queue \in Seq(Samples) /\ cancel_queue' \in Seq(Samples)
        BY Zenon DEF Types, CoreType
      <4> QED
        BY <4>1
    <3> QED
      BY <3>2, <3>3, LiveFinite, ActiveFinite
  <2>1. CASE rpc = "size" /\ cnt' = cnt
    <3>1. ~ ProcSubmit
      BY <1>3, <2>1 DEF RpcOwns
    <3>2. /\ Cardinality(Live) + Len(cancel_queue) <= cnt
          /\ Cardinality(Live') + Len(cancel_queue') <= Cardinality(Live) + Len(cancel_queue)
      BY <2>1, <3>1, TasksKept, Zenon DEF FlyInv
    <3> QED
      BY <1>2, <2>0, <2>1, <3>2
  <2>2. CASE UpdateLocked(weights)
    <3>1. UNCHANGED <<task, cancel_queue>> /\ cnt' = Cardinality(Active) + Len(cancel_queue)
      BY <2>2 DEF UpdateLocked, rpcOther
    <3>2. Live' = Live
      BY <3>1 DEF Live
    <3> QED
      BY <2>0, <3>1, <3>2
  <2> QED
    BY <1>1, <2>1, <2>2 DEF CountMove
<1>8. rpc' = "reply" => Cardinality(Flying' \ {hand'}) <= cnt'
  <2> SUFFICES ASSUME rpc' = "reply" PROVE Cardinality(Flying' \ {hand'}) <= cnt'
    OBVIOUS
  <2>1. CASE rpc = "reply" /\ cnt' = cnt
    <3>1. ~ ProcSubmit
      BY <1>3, <2>1 DEF RpcOwns
    <3>2. Flying' \ {hand'} \subseteq Flying \ {hand}
      BY <1>1, <1>2, <3>1, SamplesFinite DEF FlyMove
    <3>3. Cardinality(Flying' \ {hand'}) <= Cardinality(Flying \ {hand})
      <4>1. Flying \ {hand} \subseteq Samples
        BY <1>2
      <4> QED
        BY <3>2, <4>1, FlyingCard
    <3> QED
      BY <1>2, <1>4, <2>1, <3>3 DEF FlyInv
  <2>2. CASE UpdateSize
    <3>1. /\ rpc = "size" /\ cnt' = cnt + Len(queue)
          /\ UNCHANGED <<hand, task, cancel_queue, queue>>
      BY <2>2 DEF UpdateSize, rpcOther, msgVars
    <3>2. Flying' = Flying
      BY <3>1 DEF Flying, Live, Queued
    <3>3. Cardinality(Flying \ {hand}) <= Cardinality(Live) + Len(cancel_queue) + Len(queue)
      BY CountedAll
    <3>4. /\ Cardinality(Live) \in Nat /\ Len(cancel_queue) \in Nat /\ Len(queue) \in Nat
          /\ Cardinality(Live) + Len(cancel_queue) <= cnt
      <4>1. cancel_queue \in Seq(Samples) /\ queue \in Seq(Msg)
        BY Zenon DEF Types, CoreType, MQTypeOK
      <4>2. Len(cancel_queue) \in Nat /\ Len(queue) \in Nat
        BY <4>1
      <4> QED
        BY <3>1, <4>2, LiveFinite DEF FlyInv
    <3>5. Flying' \ {hand'} = Flying \ {hand} /\ cnt \in Nat
      BY <1>2, <3>1, <3>2, Zenon
    <3>6. Cardinality(Flying \ {hand}) \in Nat
      BY <1>2, FlyingCard, FS_Subset, FS_CardinalityType
    <3>7. \A f, a, l, m, c \in Nat : f <= a + l + m /\ a + l <= c => f <= c + m
      OBVIOUS
    <3>8. Cardinality(Flying \ {hand}) <= cnt + Len(queue)
      BY <3>3, <3>4, <3>5, <3>6, <3>7, Zenon
    <3> QED
      BY <3>1, <3>5, <3>8, Zenon
  <2> QED
    BY <1>1, <2>1, <2>2 DEF CountMove
<1>9. proc' \in {"take", "get"} => Cardinality(Flying') <= MaxRequired
  <2> SUFFICES ASSUME proc' \in {"take", "get"} PROVE Cardinality(Flying') <= MaxRequired
    OBVIOUS
  <2>1. Flying' \subseteq Flying
    <3>1. ~ (ProcTakePending /\ taken' = taken + 1)
      <4>1. ASSUME ProcTakePending, taken' = taken + 1 PROVE FALSE
        <5>1. taken \in Nat
          BY DEF Types, CoreType
        <5> QED
          BY <4>1, <5>1 DEF ProcTakePending
      <4> QED
        BY <4>1
    <3> QED
      BY <1>1, <3>1 DEF FlyMove
  <2>2. CASE proc \in {"take", "get"}
    <3>1. Cardinality(Flying') <= Cardinality(Flying) /\ Cardinality(Flying) <= MaxRequired
      BY <1>4, <2>1, <2>2, Zenon DEF FlyInv
    <3> QED
      BY <1>2, <1>4, <3>1
  <2>3. CASE ProcTop /\ ~ ShouldPause
    <3>1. staleness_samples < MaxRequired
      BY <1>2, <2>3 DEF ShouldPause
    <3>2. Cardinality(Flying') <= Cardinality(Flying)
          /\ Cardinality(Flying) <= staleness_samples + 1
      BY <1>4, <2>1, Zenon DEF FlyInv
    <3> QED
      BY <1>2, <1>4, <3>1, <3>2
  <2> QED
    BY <1>1, <2>2, <2>3 DEF CountMove
<1>10. Cardinality(Flying') <= MaxRequired + 1
  <2>1. CASE Flying' \subseteq Flying
    <3>1. Cardinality(Flying') <= Cardinality(Flying) /\ Cardinality(Flying) <= MaxRequired + 1
      BY <1>4, <2>1, Zenon DEF FlyInv
    <3> QED
      BY <1>2, <1>4, <3>1
  <2>2. CASE ~ (Flying' \subseteq Flying)
    <3>1. ProcTakePending /\ Cardinality(Flying') <= Cardinality(Flying) + 1
      BY <1>1, <1>5, <2>2 DEF FlyMove
    <3>2. proc \in {"take", "get"}
      BY <3>1 DEF ProcTakePending
    <3>3. Cardinality(Flying) <= MaxRequired
      BY <3>2, Zenon DEF FlyInv
    <3> QED
      BY <1>2, <1>4, <3>1, <3>3
  <2> QED
    BY <2>1, <2>2
<1> QED
  BY <1>6, <1>7, <1>8, <1>9, <1>10 DEF FlyInv

------------------------------------------------------------------------------
(* Training on policy: staleness_threshold = 0                               *)

\* The trainer has not been told yet that no more samples will come.
Early == ~ final /\ tr \in {"log", "collect", "train", "wait", "sync"}

\* The processor has a sample whenever it is about to submit one; until it
\* has ended, the finish signal is not in the queue.
FeedInv ==
  /\ proc \in {"submitLock", "subWait", "subWoken"} => hand \in Samples
  /\ proc \in {"drain", "drainLock", "wait"} /\ why = "cap" => hand \in Samples
  /\ main = "wait" => Early /\ \A m \in SetOf(queue) : m # None

LEMMA HandFed ==
  ASSUME FeedInv, Types, [Next]_vars
  PROVE  /\ proc' \in {"submitLock", "subWait", "subWoken"} => hand' \in Samples
         /\ proc' \in {"drain", "drainLock", "wait"} /\ why' = "cap" => hand' \in Samples
<1> USE DEF FeedInv
<1>1. CASE ProcTop \/ ProcSetPaused
  BY <1>1 DEF ProcTop, ProcSetPaused
<1>2. CASE ProcTakeCancelled
  <2>1. Head(cancel_queue) \in Samples
    BY <1>2 DEF ProcTakeCancelled, Types, CoreType
  <2> QED
    BY <1>2, <2>1 DEF ProcTakeCancelled
<1>3. CASE ProcTakePending
  <2>1. fed > taken /\ taken + 1 # DONE => taken + 1 \in Samples
    BY DEF Types, CoreType, DONE, Samples
  <2> QED
    BY <1>3, <2>1 DEF ProcTakePending
<1>4. CASE ProcDrain
  BY <1>4 DEF ProcDrain
<1>5. CASE ProcDrainLocked \/ ProcCollect
  BY <1>5 DEF ProcDrainLocked, ProcCollect
<1>6. CASE ProcIdle \/ ProcSubmit \/ ProcWoken
  BY <1>6 DEF ProcIdle, ProcSubmit, ProcWoken
<1>7. CASE Feed \/ TaskNext \/ MonNext \/ MainNext
  BY <1>7 DEF Feed, TaskNext, Generated, PutSample, CutShort, Interrupted, Fails, taskOther,
              MonNext, MonWake, MonSet, MonLoop, MainNext, MainPut, MainStop, Notify,
              monOther, mainOther, coreVars
<1>8. CASE RpcMoves \/ UpdatePutVal \/ RollUpdate
  BY <1>8 DEF RpcMoves, PauseCall, PauseLocked, PauseCancel, PauseGather, PauseDone,
              UpdateCall, UpdateSize, UpdateReply, ResumeCall, ResumeServers, ResumeDone,
              UpdatePutVal, RollUpdate, UpdateLocked, rpcOther, Notify
<1>9. CASE TrainerNext \/ UNCHANGED vars
  <2>1. UNCHANGED <<proc, why, hand>>
    BY <1>9 DEF TrainerNext, Collect, Train, SyncStart, SyncVersion, SyncWeights,
                LogStep, FinalLog, LastLog, Log, vars, rollVars, coreVars
  <2> QED
    BY <2>1
<1> QED
  BY <1>1, <1>2, <1>3, <1>4, <1>5, <1>6, <1>7, <1>8, <1>9
  DEF Next, RollNext, ProcNext, RpcMoves, JobEnd

\* What a step does to the queue.
LEMMA QueueMoves ==
  ASSUME Types, [Next]_vars
  PROVE  \/ UNCHANGED queue
         \/ /\ Collect /\ Head(queue) \in SetOf(queue) /\ Head(queue) \in Msg
            /\ SetOf(queue') \subseteq SetOf(queue)
         \/ MainPut
         \/ \E s \in Samples : /\ PutSample(s) /\ [id |-> s, ver |-> stamp[s]] # None
                               /\ SetOf(queue') \subseteq
                                     SetOf(queue) \cup {[id |-> s, ver |-> stamp[s]]}
<1>0. queue \in Seq(Msg) /\ MQTypeOK /\ stamp \in [Samples -> Nat]
  BY DEF Types, CoreType, MQTypeOK
<1>1. ASSUME NEW s \in Samples, PutSample(s)
      PROVE  /\ [id |-> s, ver |-> stamp[s]] # None
             /\ SetOf(queue') \subseteq
                                     SetOf(queue) \cup {[id |-> s, ver |-> stamp[s]]}
  <2>1. [id |-> s, ver |-> stamp[s]] \in Msg
    BY <1>0 DEF Msg
  <2>2. [id |-> s, ver |-> stamp[s]] # None
    BY SamplesFinite DEF None
  <2> QED
    BY <1>0, <1>1, <2>1, <2>2, QueuedPut DEF PutSample
<1>2. CASE Collect
  <2>1. queue # <<>> /\ queue' = Tail(queue)
    BY <1>2 DEF Collect, get_sample
  <2> QED
    BY <1>0, <1>2, <2>1, SetTail, TailAt
<1>3. CASE ProcNext \/ Feed \/ MonNext \/ MainStop
  BY <1>3 DEF ProcNext, ProcTop, ProcSetPaused, ProcTakeCancelled, ProcTakePending, ProcDrain,
              ProcDrainLocked, ProcCollect, ProcIdle, ProcSubmit, ProcWoken, procOther,
              Feed, MonNext, MonWake, MonSet, MonLoop, monOther, MainStop, msgVars
<1>4. CASE TaskNext
  <2>1. PICK s \in Samples :
          Generated(s) \/ PutSample(s) \/ CutShort(s) \/ Interrupted(s) \/ Fails(s)
    BY <1>4 DEF TaskNext
  <2> QED
    BY <1>1, <2>1 DEF Generated, CutShort, Interrupted, Fails, msgVars
<1>5. CASE RpcMoves \/ UpdatePutVal \/ RollUpdate
  BY <1>5 DEF RpcMoves, PauseCall, PauseLocked, PauseCancel, PauseGather, PauseDone,
              UpdateCall, UpdateSize, UpdateReply, ResumeCall, ResumeServers, ResumeDone,
              UpdatePutVal, put_validate, RollUpdate, UpdateLocked, msgVars
<1>6. CASE (TrainerNext /\ ~ Collect) \/ UNCHANGED vars
  BY <1>6 DEF TrainerNext, Train, SyncStart, SyncVersion, SyncWeights, update_param_version,
              LogStep, FinalLog, LastLog, Log, get_validate, vars, msgVars
<1> QED
  BY <1>2, <1>3, <1>4, <1>5, <1>6 DEF Next, RollNext, MainNext, RpcMoves, JobEnd

LEMMA FeedStep == FeedInv /\ Types /\ [Next]_vars => FeedInv'
<1> SUFFICES ASSUME FeedInv, Types, [Next]_vars PROVE FeedInv'
  OBVIOUS
<1>1. ASSUME main' = "wait" PROVE main = "wait" /\ ~ MainPut
  BY <1>1 DEF Next, RollNext, Feed, ProcNext, ProcTop, ProcSetPaused, ProcTakeCancelled,
              ProcTakePending, ProcDrain, ProcDrainLocked, ProcCollect, ProcIdle, ProcSubmit,
              ProcWoken, procOther, TaskNext, Generated, PutSample, CutShort, Interrupted,
              Fails, taskOther, MonNext, MonWake, MonSet, MonLoop, monOther, MainNext, MainPut,
              MainStop, PauseCall, PauseLocked, PauseCancel, PauseGather, PauseDone,
              UpdateCall, UpdateSize, UpdateReply, UpdatePutVal, ResumeCall, ResumeServers,
              ResumeDone, rpcOther, RollUpdate, UpdateLocked, TrainerNext, Collect, Train,
              SyncStart, SyncVersion, SyncWeights, LogStep, FinalLog, LastLog, Log, JobEnd,
              vars, rollVars
<1>2. ASSUME main' = "wait" PROVE \A m \in SetOf(queue') : m # None
  BY <1>1, <1>2, QueueMoves DEF FeedInv
<1>3. ASSUME main' = "wait" PROVE Early'
  <2>1. Early /\ \A m \in SetOf(queue) : m # None
    BY <1>1, <1>3 DEF FeedInv
  <2>2. CASE Collect
    <3>1. Head(queue) \in SetOf(queue)
      BY <2>2, SetTail DEF Types, MQTypeOK, Collect, get_sample
    <3> QED
      BY <2>1, <2>2, <3>1 DEF Collect, Early
  <2>3. CASE Train \/ SyncStart \/ SyncVersion \/ SyncWeights \/ LogStep
    BY <2>1, <2>3 DEF Train, SyncStart, SyncVersion, SyncWeights, LogStep, Log, Early, trVars
  <2>4. CASE UNCHANGED trVars
    BY <2>1, <2>4 DEF trVars, Early
  <2>5. ~ FinalLog /\ ~ LastLog
    BY <2>1 DEF FinalLog, LastLog, Early
  <2> QED
    BY <2>2, <2>3, <2>4, <2>5 DEF Next, RollUpdate, TrainerNext, JobEnd, vars
<1> QED
  BY <1>1, <1>2, <1>3, HandFed DEF FeedInv

LEMMA FeedHolds == Spec => []FeedInv
<1>1. Init => FeedInv
  BY DEF Init, RollInit, FeedInv, Early, SetOf
<1> QED
  BY <1>1, FeedStep, TypesHold, PTL DEF Spec

LEMMA IntervalCard == ASSUME NEW n \in Nat PROVE IsFiniteSet(1 .. n) /\ Cardinality(1 .. n) = n
<1>1. n \in Int /\ 1 \in Int
  OBVIOUS
<1>2. IsFiniteSet(1 .. n) /\ Cardinality(1 .. n) = IF 1 > n THEN 0 ELSE n - 1 + 1
  BY <1>1, FS_Interval
<1> QED
  BY <1>2

LEMMA PairCard ==
  ASSUME NEW S, IsFiniteSet(S), NEW i \in S, NEW j \in S, i # j
  PROVE  Cardinality(S) \in Nat /\ Cardinality(S) > 1
<1>1. IsFiniteSet(S \ {i}) /\ Cardinality(S \ {i}) = Cardinality(S) - 1
  BY FS_RemoveElement
<1>2. Cardinality(S \ {i}) # 0
  BY <1>1, FS_EmptySet
<1>3. Cardinality(S) \in Nat /\ Cardinality(S \ {i}) \in Nat
  BY <1>1, FS_CardinalityType
<1> QED
  BY <1>1, <1>2, <1>3

LEMMA OnceCard ==
  ASSUME NEW S, NEW q \in Seq(S), \A i \in 1 .. Len(q) : Times(q[i], q) <= 1
  PROVE  IsFiniteSet(SetOf(q)) /\ Cardinality(SetOf(q)) = Len(q)
<1>1. Len(q) \in Nat /\ IsFiniteSet(1 .. Len(q)) /\ Cardinality(1 .. Len(q)) = Len(q)
  BY IntervalCard
<1>2. ASSUME NEW i \in 1 .. Len(q), NEW j \in 1 .. Len(q), q[i] = q[j] PROVE i = j
  <2> DEFINE K == {k \in 1 .. Len(q) : q[k] = q[i]}
  <2>1. IsFiniteSet(K) /\ i \in K /\ j \in K
    BY <1>2, TimesType
  <2>2. Cardinality(K) <= 1
    BY DEF Times
  <2> HIDE DEF K
  <2> QED
    BY <2>1, <2>2, PairCard
<1> DEFINE f == [i \in 1 .. Len(q) |-> q[i]]
<1>3. f \in Surjection(1 .. Len(q), SetOf(q))
  BY DEF Surjection, SetOf
<1>4. f \in Injection(1 .. Len(q), SetOf(q))
  BY <1>2 DEF Injection, IsInjective, SetOf
<1>5. ExistsBijection(1 .. Len(q), SetOf(q))
  BY <1>3, <1>4 DEF Bijection, ExistsBijection
<1> QED
  BY <1>1, <1>5, FS_Bijection

\* Every sample trained on was taken, once, and is no longer in flight.
LEMMA TrainedOnce ==
  ASSUME Types, ConsInv
  PROVE  /\ IsFiniteSet(SetOf(trained)) /\ Len(trained) \in Nat
         /\ Cardinality(SetOf(trained)) = Len(trained)
         /\ \A s \in SetOf(trained) : s \in Samples /\ Times(s, trained) >= 1
<1>1. /\ trained \in Seq(Samples) /\ Len(trained) \in Nat
      /\ \A i \in 1 .. Len(trained) : trained[i] \in Samples
  BY DEF Types, TrType
<1>2. ASSUME NEW s \in Samples
      PROVE  Times(s, trained) \in Nat /\ Times(s, trained) <= 1
  <2>1. PlacesTerms(s) /\ Places(s) <= 1
    BY PlacesNow DEF ConsInv
  <2> QED
    BY <2>1 DEF PlacesTerms
<1>3. \A i \in 1 .. Len(trained) : Times(trained[i], trained) <= 1
  BY <1>1, <1>2
<1>4. IsFiniteSet(SetOf(trained)) /\ Cardinality(SetOf(trained)) = Len(trained)
  BY <1>1, <1>3, OnceCard
<1>5. ASSUME NEW s \in SetOf(trained) PROVE s \in Samples /\ Times(s, trained) >= 1
  <2>1. s \in Samples /\ \E i \in 1 .. Len(trained) : trained[i] = s
    BY <1>1 DEF SetOf
  <2>2. Times(s, trained) # 0
    BY <1>1, <2>1, TimesType
  <2> QED
    BY <1>2, <2>1, <2>2
<1> QED
  BY <1>1, <1>4, <1>5

LEMMA TakenCovers ==
  Types /\ ConsInv => /\ Cardinality(Flying) + Len(trained) <= taken
                      /\ Cardinality(Flying) + Len(trained) <= Total
<1> SUFFICES ASSUME Types, ConsInv
             PROVE  /\ Cardinality(Flying) + Len(trained) <= taken
                    /\ Cardinality(Flying) + Len(trained) <= Total
  OBVIOUS
<1> DEFINE F == Flying
           D == SetOf(trained)
<1>1. taken \in Nat /\ IsFiniteSet(1 .. taken) /\ Cardinality(1 .. taken) = taken
  <2>1. taken \in Nat
    BY DEF Types, CoreType
  <2> QED
    BY <2>1, IntervalCard
<1>2. IsFiniteSet(F) /\ Cardinality(F) \in Nat
  BY FlyingFinite
<1>3. /\ IsFiniteSet(D) /\ Cardinality(D) = Len(trained) /\ Len(trained) \in Nat
      /\ \A s \in D : s \in Samples /\ Times(s, trained) >= 1
  BY TrainedOnce
<1>4. ASSUME NEW s \in Samples
      PROVE  /\ s \in F \/ s \in D => s \in 1 .. taken
             /\ ~ (s \in F /\ s \in D)
  <2>1. PlacesTerms(s) /\ Places(s) <= 1
    BY PlacesNow DEF ConsInv
  <2>2. s \in F => s = hand \/ s \in Live \/ Times(s, cancel_queue) + Times(s, Ids(queue)) > 0
    BY QueuedTimes DEF Flying
  <2>3. s \in D => Times(s, trained) >= 1
    BY <1>3
  <2> HIDE DEF F, D, Live
  <2> QED
    BY <2>1, <2>2, <2>3 DEF PlacesTerms
<1>5. F \cap D = {} /\ F \cup D \subseteq 1 .. taken /\ F \cup D \subseteq Samples
  <2>1. F \subseteq Samples /\ D \subseteq Samples
    BY <1>3 DEF Flying
  <2> HIDE DEF F, D
  <2> QED
    BY <1>4, <2>1
<1>6. Cardinality(F \cup D) = Cardinality(F) + Cardinality(D)
  <2>1. Cardinality(F \cup D) = Cardinality(F) + Cardinality(D) - Cardinality(F \cap D)
    BY <1>2, <1>3, FS_Union
  <2>2. Cardinality(F \cap D) = 0
    BY <1>5, FS_EmptySet
  <2> QED
    BY <1>2, <1>3, <2>1, <2>2
<1>7. Cardinality(F \cup D) <= taken
  BY <1>1, <1>5, FS_Subset
<1>8. Cardinality(F \cup D) <= Total
  <2>1. IsFiniteSet(Samples) /\ Cardinality(Samples) = Total
    BY IntervalCard DEF Samples
  <2> QED
    BY <1>5, <2>1, FS_Subset
<1> QED
  BY <1>3, <1>6, <1>7, <1>8

\* update_param_version up to the overwriting of staleness_samples.
Updating == {"update", "updateLock", "size", "reply"}

\* From the end of pause()'s gather to the count of active_tasks.
Quieted == {"kv", "paused", "sync", "update", "updateLock"}

\* A round is over: all its samples are trained on, the next ones wait for
\* the new weights and for update_param_version to count.
Closed == tr \in {"wait", "sync"} \/ rpc \in Updating

Drained ==
  /\ Flying = {} /\ batch = <<>>
  /\ taken <= MaxRequired * tr_version
  /\ staleness_samples >= MaxRequired

Counted ==
  /\ staleness_samples <= MaxRequired
  /\ rpc = "size" => cnt = 0
  /\ rpc = "reply" => cnt <= MaxRequired
  /\ tr = "wait" => rpc \notin Updating
  /\ ~ Closed => taken <= MaxRequired * weights + staleness_samples
  /\ Closed => Drained

\* max_required_samples are taken, and trained on, per version.
RoundInv ==
  /\ tr = "train" => Len(batch) = Required
  /\ ~ final => Len(trained) = MaxRequired * tr_version + Required * (local_trigger_step - 1)
  /\ Early => Counted
  /\ proc \in {"take", "get"} => ~ Closed /\ staleness_samples < MaxRequired
  /\ rpc \in Quieted => Active = {}

LEMMA RoundSize ==
  ASSUME StaleNum = 0
  PROVE  /\ MaxRequired = Required * Trigger
         /\ \A v \in Nat : /\ MaxRequired * v \in Nat
                           /\ MaxRequired * (v + 1) = MaxRequired * v + MaxRequired
         /\ \A k \in Nat : Required * k \in Nat /\ Required * (k + 1) = Required * k + Required
<1>1. Required \in Nat /\ Trigger \in Nat /\ StaleDen \in Nat /\ StaleDen >= 1
  OBVIOUS
<1>2. Required * (StaleNum + StaleDen) * Trigger = (Required * Trigger) * StaleDen
  BY <1>1, Z3
<1>3. \A x \in Nat : (x * StaleDen) \div StaleDen = x
  BY <1>1, Z3
<1>4. Required * Trigger \in Nat
  BY <1>1, Z3
<1>5. MaxRequired = Required * Trigger
  BY <1>2, <1>3, <1>4 DEF MaxRequired
<1>6. ASSUME NEW a \in Nat, NEW v \in Nat PROVE a * v \in Nat /\ a * (v + 1) = a * v + a
  BY Z3
<1> QED
  BY <1>1, <1>5, <1>6, MaxRequiredType

\* The steps that leave the round alone.
LEMMA RoundKept ==
  ASSUME RoundInv, UNCHANGED <<batch, tr_version, local_trigger_step, weights, final,
                               trained, cnt, taken, staleness_samples>>,
         \/ tr' = tr
         \/ tr = "wait" /\ tr' = "sync"
         \/ tr = "log" /\ tr' = "collect",
         \/ rpc' = rpc
         \/ rpc' \notin {"size", "reply"} /\ (rpc' \in Updating <=> rpc \in Updating),
         Flying' \subseteq Flying, rpc' \in Quieted => Active' = {},
         proc' \in {"take", "get"} => proc \in {"take", "get"}
  PROVE  RoundInv'
<1>1. Early' = Early /\ Closed' = Closed
  BY DEF Early, Closed
<1>2. Counted => Counted'
  BY <1>1 DEF Counted, Drained
<1>3. tr' = "train" => tr = "train"
  OBVIOUS
<1> HIDE DEF Counted, Early, Closed, Active
<1> QED
  BY <1>1, <1>2, <1>3 DEF RoundInv

\* The steps of the rollouter that touch no count: only a submission adds a
\* task, only ProcTop lets the processor take a sample.
LEMMA LocalKeep ==
  ASSUME \/ ProcSetPaused \/ ProcTakeCancelled \/ ProcDrain \/ ProcDrainLocked \/ ProcCollect
         \/ ProcIdle \/ ProcWoken \/ Feed \/ TaskNext \/ MonNext \/ MainNext
  PROVE  /\ UNCHANGED <<rpc, cnt, taken, staleness_samples>>
         /\ Active = {} => Active' = {}
         /\ proc' \in {"take", "get"} => proc \in {"take", "get"}
<1>1. CASE ProcSetPaused \/ ProcTakeCancelled \/ ProcDrain \/ ProcDrainLocked \/ ProcIdle
           \/ ProcWoken
  BY <1>1 DEF ProcSetPaused, ProcTakeCancelled, ProcDrain, ProcDrainLocked, ProcIdle,
              ProcWoken, procOther, Active
<1>2. CASE ProcCollect
  BY <1>2 DEF ProcCollect, procOther, Active
<1>3. CASE Feed \/ MonNext \/ MainNext
  BY <1>3 DEF Feed, MonNext, MonWake, MonSet, MonLoop, MainNext, MainPut, MainStop, Notify,
              monOther, mainOther, ctlVars, coreVars, Active
<1>4. CASE TaskNext
  <2>1. PICK s \in Samples :
          Generated(s) \/ PutSample(s) \/ CutShort(s) \/ Interrupted(s) \/ Fails(s)
    BY <1>4 DEF TaskNext
  <2>2. s \in Active
    BY <2>1 DEF Generated, PutSample, CutShort, Interrupted, Fails, Active
  <2> QED
    BY <2>1, <2>2 DEF Generated, PutSample, CutShort, Interrupted, Fails, taskOther, ctlVars
<1> QED
  BY <1>1, <1>2, <1>3, <1>4

LEMMA RoundLocal ==
  ASSUME RoundInv, FeedInv, CapInv, SyncInv, HandInv, Types, [Next]_vars, UNCHANGED trVars,
         Feed \/ ProcNext \/ TaskNext \/ MonNext \/ MainNext
  PROVE  RoundInv'
<1>0. /\ UNCHANGED <<tr, batch, tr_version, local_trigger_step, weights, final, trained>>
      /\ MaxRequired \in Nat /\ staleness_samples \in Nat /\ taken \in Nat
      /\ FlyMove
  BY MaxRequiredType, FlyMoves DEF trVars, Types, CtlType, CoreType
<1>1. proc \notin {"end", "crashed"} => Early
  BY DEF CapInv, FeedInv
<1>2. CASE \/ ProcSetPaused \/ ProcTakeCancelled \/ ProcDrain \/ ProcDrainLocked \/ ProcCollect
           \/ ProcIdle \/ ProcWoken \/ Feed \/ TaskNext \/ MonNext \/ MainNext
  <2>1. /\ UNCHANGED <<rpc, cnt, taken, staleness_samples>>
        /\ Active = {} => Active' = {}
        /\ proc' \in {"take", "get"} => proc \in {"take", "get"}
    BY <1>2, LocalKeep
  <2>2. Flying' \subseteq Flying
    BY <1>0, <2>1 DEF FlyMove
  <2>3. rpc' \in Quieted => Active' = {}
    BY <2>1 DEF RoundInv
  <2> QED
    BY <1>0, <2>1, <2>2, <2>3, RoundKept
<1>3. CASE ProcTakePending
  <2>1. /\ proc \in {"take", "get"} /\ UNCHANGED <<rpc, cnt, task>> /\ Active' = Active
        /\ \/ /\ taken' = taken + 1 /\ staleness_samples' = staleness_samples + 1
              /\ proc' = "drain"
           \/ UNCHANGED <<taken, staleness_samples, hand, cancel_queue, queue>>
    BY <1>3 DEF ProcTakePending, procOther, msgVars, Active
  <2>2. ~ Closed /\ staleness_samples < MaxRequired /\ Early /\ Counted
    BY <1>1, <2>1 DEF RoundInv
  <2>3. Early' = Early /\ Closed' = Closed
    BY <1>0, <2>1 DEF Early, Closed
  <2>4. CASE UNCHANGED <<taken, staleness_samples, hand, cancel_queue, queue>>
    <3>1. Flying' = Flying
      BY <2>1, <2>4 DEF Flying, Live, Queued
    <3>2. rpc' \in Quieted => Active' = {}
      BY <2>1 DEF RoundInv
    <3> QED
      BY <1>0, <2>1, <2>4, <3>1, <3>2, RoundKept
  <2>5. CASE /\ taken' = taken + 1 /\ staleness_samples' = staleness_samples + 1
             /\ proc' = "drain"
    <3>1. taken' <= MaxRequired * weights' + staleness_samples'
      <4>1. taken <= MaxRequired * weights + staleness_samples /\ weights \in Nat
        BY <2>2 DEF Counted, SyncInv
      <4>2. MaxRequired * weights \in Nat
        BY <1>0, <4>1, Z3
      <4> QED
        BY <1>0, <2>5, <4>1, <4>2
    <3>2. Counted'
      BY <1>0, <2>1, <2>2, <2>3, <2>5, <3>1 DEF Counted
    <3> HIDE DEF Counted, Early, Closed, Active
    <3> QED
      BY <1>0, <2>1, <2>2, <2>3, <2>5, <3>2 DEF RoundInv
  <2> QED
    BY <2>1, <2>4, <2>5
<1>4. CASE ProcTop
  <2>1. /\ proc = "top" /\ UNCHANGED <<rpc, cnt, taken, staleness_samples, task, hand,
                                       cancel_queue, queue>>
        /\ Active' = Active /\ Flying' = Flying
        /\ proc' \in {"take", "get"} => staleness_samples < MaxRequired
    BY <1>0, <1>4 DEF ProcTop, procOther, msgVars, Active, Flying, Live, Queued, ShouldPause
  <2>2. Early' = Early /\ Closed' = Closed /\ Early
    BY <1>0, <1>1, <2>1 DEF Early, Closed
  <2>3. Counted /\ (Counted => Counted')
    BY <1>0, <2>1, <2>2 DEF Counted, Drained, RoundInv
  <2>4. proc' \in {"take", "get"} => ~ Closed
    BY <1>0, <2>1, <2>3 DEF Counted, Drained
  <2> HIDE DEF Counted, Early, Closed, Active
  <2> QED
    BY <1>0, <2>1, <2>2, <2>3, <2>4 DEF RoundInv
<1>5. CASE ProcSubmit
  <2>1. /\ proc = "submitLock" /\ proc' \in {"subWait", "top"}
        /\ UNCHANGED <<rpc, cnt, taken, staleness_samples>>
    BY <1>5 DEF ProcSubmit, procOther
  <2>2. hand \in Flying /\ Early
    BY <1>1, <2>1 DEF FeedInv, Flying
  <2>3. ~ Closed
    BY <2>2 DEF RoundInv, Counted, Drained
  <2>4. rpc \notin Quieted
    BY <2>3 DEF Closed, Updating, Quieted, SyncInv, Before
  <2>5. Flying' \subseteq Flying
    BY <1>0, <2>1 DEF FlyMove
  <2> QED
    BY <1>0, <2>1, <2>4, <2>5, RoundKept
<1> QED
  BY <1>2, <1>3, <1>4, <1>5 DEF ProcNext

LEMMA RoundRpc ==
  ASSUME StaleNum = 0, RoundInv, SyncInv, HandInv, Types, Types', [Next]_vars, UNCHANGED trVars,
         RpcMoves \/ UpdatePutVal \/ UpdateLocked(weights)
  PROVE  RoundInv'
<1>0. /\ UNCHANGED <<tr, batch, tr_version, local_trigger_step, weights, final, trained>>
      /\ MaxRequired \in Nat /\ staleness_samples \in Nat /\ taken \in Nat /\ cnt \in Nat
      /\ FlyMove
  <2>1. UNCHANGED <<tr, batch, tr_version, local_trigger_step, weights, final, trained>>
    BY Zenon DEF trVars
  <2>2. staleness_samples \in Nat /\ taken \in Nat /\ cnt \in Nat
    BY DEF Types, CtlType, CoreType
  <2> QED
    BY <2>1, <2>2, MaxRequiredType, FlyMoves, Zenon
<1>1. /\ UNCHANGED <<taken, hand, cancel_queue, queue>>
      /\ proc' \in {"take", "get"} => proc \in {"take", "get"}
  BY DEF RpcMoves, PauseCall, PauseLocked, PauseCancel, PauseGather, PauseDone, UpdateCall,
         UpdateSize, UpdateReply, ResumeCall, ResumeServers, ResumeDone, UpdatePutVal,
         put_validate, UpdateLocked, Notify, rpcOther, msgVars
<1>2. Flying' \subseteq Flying
  BY <1>0, <1>1 DEF FlyMove
<1>3. Early' = Early
  BY <1>0 DEF Early
<1>4. CASE PauseGather
  <2>1. rpc = "gather" /\ rpc' = "kv" /\ UNCHANGED <<cnt, staleness_samples>> /\ Active' = {}
    BY <1>4 DEF PauseGather, Active
  <2> QED
    BY <1>0, <1>1, <1>2, <2>1, RoundKept DEF Updating
<1>5. CASE \/ PauseCall \/ PauseLocked \/ PauseCancel \/ PauseDone \/ UpdateCall
           \/ ResumeCall \/ ResumeServers \/ ResumeDone \/ UpdatePutVal
  <2>1. /\ UNCHANGED <<cnt, staleness_samples, task>>
        /\ rpc' \notin {"size", "reply"} /\ (rpc' \in Updating <=> rpc \in Updating)
        /\ rpc' \in Quieted => rpc \in Quieted
    BY <1>5 DEF PauseCall, PauseLocked, PauseCancel, PauseDone, UpdateCall, ResumeCall,
                ResumeServers, ResumeDone, UpdatePutVal, Updating, Quieted
  <2>2. rpc' \in Quieted => Active' = {}
    BY <2>1 DEF RoundInv, Active
  <2> QED
    BY <1>0, <1>1, <1>2, <2>1, <2>2, RoundKept
<1>6. CASE UpdateLocked(weights)
  <2>1. /\ rpc = "updateLock" /\ rpc' = "size" /\ UNCHANGED staleness_samples
        /\ cnt' = Cardinality(Active) + Len(cancel_queue)
    BY <1>6 DEF UpdateLocked
  <2>2. Closed /\ Closed'
    BY <2>1 DEF Closed, Updating
  <2>3. Early => Drained /\ Drained' /\ cnt' = 0
    <3> SUFFICES ASSUME Early PROVE Drained /\ Drained' /\ cnt' = 0
      OBVIOUS
    <3>1. Drained /\ Drained'
      BY <1>0, <1>1, <1>2, <2>1, <2>2 DEF RoundInv, Counted, Drained
    <3>2. cancel_queue = <<>>
      <4> SUFFICES ASSUME cancel_queue # <<>> PROVE FALSE
        OBVIOUS
      <4>1. Head(cancel_queue) \in SetOf(cancel_queue) /\ Head(cancel_queue) \in Samples
        BY SetTail, TailAt DEF Types, CoreType
      <4> QED
        BY <3>1, <4>1 DEF Drained, Flying
    <3>3. Cardinality(Active) = 0
      BY <2>1, FS_EmptySet DEF RoundInv, Quieted
    <3> QED
      BY <2>1, <3>1, <3>2, <3>3
  <2>4. Early => Counted'
    BY <1>0, <2>1, <2>2, <2>3 DEF RoundInv, Counted, Updating
  <2> HIDE DEF Counted, Early, Closed, Active
  <2> QED
    BY <1>0, <1>1, <1>3, <2>1, <2>2, <2>4 DEF RoundInv, Quieted
<1>7. CASE UpdateSize
  <2>1. /\ rpc = "size" /\ rpc' = "reply" /\ cnt' = cnt + Len(queue)
        /\ UNCHANGED staleness_samples
    BY <1>7 DEF UpdateSize
  <2>2. Closed /\ Closed'
    BY <2>1 DEF Closed, Updating
  <2>3. Len(queue) \in Nat /\ Len(queue) <= MaxRequired
    BY DEF Types, MQTypeOK
  <2>4. Early => Counted'
    BY <1>0, <1>1, <1>2, <2>1, <2>2, <2>3 DEF RoundInv, Counted, Drained, Updating
  <2> HIDE DEF Counted, Early, Closed, Active
  <2> QED
    BY <1>0, <1>1, <1>3, <2>1, <2>2, <2>4 DEF RoundInv, Quieted
<1>8. CASE UpdateReply
  <2>1. rpc = "reply" /\ rpc' = "putVal" /\ staleness_samples' = cnt
    BY <1>8 DEF UpdateReply
  <2>2. Closed
    BY <2>1 DEF Closed, Updating
  <2>3. Early => ~ Closed' /\ tr_version = weights
    BY <1>0, <2>1 DEF RoundInv, Counted, Closed, Updating, SyncInv, Before
  <2>4. Early => Counted'
    <3> SUFFICES ASSUME Early PROVE Counted'
      OBVIOUS
    <3>1. taken <= MaxRequired * weights /\ cnt <= MaxRequired
      BY <2>1, <2>2, <2>3 DEF RoundInv, Counted, Drained
    <3>2. weights \in Nat /\ MaxRequired * weights \in Nat
      BY RoundSize DEF SyncInv
    <3>3. taken' <= MaxRequired * weights' + staleness_samples'
      BY <1>0, <1>1, <2>1, <3>1, <3>2
    <3> QED
      BY <1>0, <2>1, <2>3, <3>1, <3>3 DEF Counted, Updating
  <2> HIDE DEF Counted, Early, Closed, Active
  <2> QED
    BY <1>0, <1>1, <1>3, <2>1, <2>2, <2>4 DEF RoundInv, Quieted
<1> QED
  BY <1>4, <1>5, <1>6, <1>7, <1>8 DEF RpcMoves

LEMMA RoundTrain ==
  ASSUME StaleNum = 0, RoundInv, FeedInv, CapInv, SyncInv, LogInv, HandInv, Types, Types',
         ConsInv', [Next]_vars, Train
  PROVE  RoundInv'
<1>0. /\ tr = "train" /\ batch' = <<>> /\ trained' = trained \o Ids(batch)
      /\ UNCHANGED <<weights, final, rpc, cnt, taken, staleness_samples, proc, task, hand,
                     cancel_queue, queue>>
  BY DEF Train, rollVars, coreVars, ctlVars, msgVars, Ids
<1>1. /\ MaxRequired \in Nat /\ MaxRequired >= 1 /\ staleness_samples \in Nat /\ taken \in Nat
      /\ Required \in Nat /\ Required >= 1 /\ Trigger \in Nat
      /\ tr_version \in Nat /\ weights \in Nat /\ local_trigger_step \in 1 .. Trigger
      /\ trained \in Seq(Samples) /\ batch \in Seq([id : Samples, ver : Nat])
  <2>1. /\ local_trigger_step \in 1 .. Trigger
        /\ trained \in Seq(Samples) /\ batch \in Seq([id : Samples, ver : Nat])
    BY Zenon DEF Types, TrType
  <2>2. staleness_samples \in Nat /\ taken \in Nat
    BY DEF Types, CtlType, CoreType
  <2> QED
    BY <2>1, <2>2, MaxRequiredType DEF SyncInv
<1>2. ~ final /\ Early /\ tr_version = weights
  BY <1>0 DEF LogInv, Early, SyncInv
<1>3. Len(trained') = Len(trained) + Required /\ Len(trained) \in Nat /\ Len(batch) = Required
  <2>1. Ids(batch) \in Seq(Samples) /\ Len(Ids(batch)) = Len(batch) /\ Len(batch) = Required
    BY <1>0, <1>1, IdsType DEF RoundInv
  <2>2. ASSUME NEW a \in Seq(Samples), NEW b \in Seq(Samples)
        PROVE  Len(a \o b) = Len(a) + Len(b) /\ Len(a) \in Nat
    OBVIOUS
  <2>3. Len(trained \o Ids(batch)) = Len(trained) + Len(Ids(batch)) /\ Len(trained) \in Nat
    BY <1>1, <2>1, <2>2
  <2> QED
    BY <1>0, <2>1, <2>3
<1>4. ~ Closed /\ Counted
  <2>1. batch # <<>>
    BY <1>1, <1>3
  <2> QED
    BY <1>2, <2>1 DEF RoundInv, Counted, Drained
<1>5. /\ taken <= MaxRequired * weights + staleness_samples /\ rpc \notin Updating
      /\ staleness_samples <= MaxRequired
  BY <1>4 DEF Counted, Closed
<1>6. Len(trained') = MaxRequired * tr_version + Required * local_trigger_step
  <2>1. Len(trained) = MaxRequired * tr_version + Required * (local_trigger_step - 1)
    BY <1>2 DEF RoundInv
  <2>2. local_trigger_step - 1 \in Nat /\ (local_trigger_step - 1) + 1 = local_trigger_step
    BY <1>1
  <2>3. /\ Required * (local_trigger_step - 1) \in Nat
        /\ Required * ((local_trigger_step - 1) + 1)
             = Required * (local_trigger_step - 1) + Required
    BY <2>2, RoundSize
  <2>4. MaxRequired * tr_version \in Nat
    BY <1>1, RoundSize
  <2> QED
    BY <1>1, <1>3, <2>1, <2>2, <2>3, <2>4
<1>7. Active' = Active /\ Flying' = Flying
  BY <1>0 DEF Active, Flying, Live, Queued
<1>8. rpc' \in Quieted => Active' = {}
  BY <1>0, <1>7 DEF RoundInv
<1>9. CASE local_trigger_step < Trigger
  <2>1. local_trigger_step' = local_trigger_step + 1 /\ tr' = "log" /\ tr_version' = tr_version
    BY <1>9 DEF Train
  <2>2. Len(trained') = MaxRequired * tr_version' + Required * (local_trigger_step' - 1)
    <3>1. local_trigger_step' - 1 = local_trigger_step
      BY <1>1, <2>1
    <3> QED
      BY <1>6, <2>1, <3>1
  <2>3. Early' /\ ~ Closed'
    BY <1>0, <1>2, <1>5, <2>1 DEF Early, Closed
  <2>4. Counted'
    BY <1>0, <1>4, <2>1, <2>3 DEF Counted
  <2> HIDE DEF Counted, Early, Closed, Active
  <2> QED
    BY <1>0, <1>4, <1>8, <2>1, <2>2, <2>3, <2>4 DEF RoundInv
<1>10. CASE ~ (local_trigger_step < Trigger)
  <2>1. local_trigger_step' = 1 /\ tr' = "wait" /\ tr_version' = tr_version + 1
    BY <1>10 DEF Train
  <2>2. local_trigger_step = Trigger
    BY <1>1, <1>10
  <2>3. Len(trained') = MaxRequired * tr_version + MaxRequired
    BY <1>6, <2>2, RoundSize
  <2>4. /\ MaxRequired * tr_version' = MaxRequired * tr_version + MaxRequired
        /\ MaxRequired * tr_version \in Nat /\ Required * 0 = 0
    BY <1>1, <2>1, RoundSize
  <2>5. Len(trained') = MaxRequired * tr_version' + Required * (local_trigger_step' - 1)
    <3>1. local_trigger_step' - 1 = 0
      BY <2>1
    <3> QED
      BY <1>1, <2>3, <2>4, <3>1
  <2>6. Cardinality(Flying') + Len(trained') <= taken'
    <3>1. (Types /\ ConsInv => /\ Cardinality(Flying) + Len(trained) <= taken
                              /\ Cardinality(Flying) + Len(trained) <= Total)'
      BY TakenCovers, PTL
    <3> QED
      BY <3>1
  <2>7. IsFiniteSet(Flying') /\ Cardinality(Flying') \in Nat
    BY <1>7, FlyingFinite
  <2>8. Cardinality(Flying') = 0 /\ staleness_samples >= MaxRequired
        /\ taken' <= MaxRequired * tr_version'
    BY <1>0, <1>1, <1>2, <1>5, <2>3, <2>4, <2>6, <2>7
  <2>9. Flying' = {}
    BY <2>7, <2>8, FS_EmptySet
  <2>10. Early' /\ Closed'
    BY <1>0, <1>2, <2>1 DEF Early, Closed
  <2>11. Counted'
    BY <1>0, <1>5, <2>8, <2>9, <2>10, <2>1 DEF Counted, Drained, Updating
  <2>12. proc' \notin {"take", "get"}
    BY <1>0, <1>1, <2>8 DEF RoundInv
  <2> HIDE DEF Counted, Early, Closed, Active
  <2> QED
    BY <1>8, <2>1, <2>5, <2>11, <2>12 DEF RoundInv
<1> QED
  BY <1>9, <1>10

LEMMA RoundTrainer ==
  ASSUME StaleNum = 0, RoundInv, FeedInv, CapInv, SyncInv, LogInv, HandInv, Types, Types',
         ConsInv', [Next]_vars, TrainerNext
  PROVE  RoundInv'
<1>1. CASE Train
  BY <1>1, RoundTrain
<1>2. CASE Collect
  <2>0. /\ tr = "collect" /\ queue # <<>> /\ tr' \in {"collect", "train", "finalWait"}
        /\ UNCHANGED <<tr_version, local_trigger_step, weights, final, trained, rpc, cnt, taken,
                       staleness_samples, proc, task>>
    BY <1>2 DEF Collect, get_sample, rollVars, coreVars, ctlVars
  <2>1. Flying' \subseteq Flying
    <3>1. taken \in Nat
      BY DEF Types, CoreType
    <3> QED
      BY <2>0, <3>1, FlyMoves DEF FlyMove
  <2>2. Closed' = Closed /\ Active' = Active
    BY <2>0 DEF Closed, Active
  <2>3. tr' = "train" => Len(batch') = Required
    BY <1>2 DEF Collect
  <2>4. ASSUME Early' PROVE Counted'
    <3>1. Head(queue) # None /\ Early
      BY <1>2, <2>0, <2>4 DEF Collect, Early
    <3>2. Counted
      BY <3>1 DEF RoundInv
    <3>3. Flying # {}
      <4>1. queue \in Seq(Msg)
        BY DEF Types, MQTypeOK
      <4>2. Head(queue) \in SetOf(queue) /\ Head(queue) \in Msg
        BY <2>0, <4>1, SetTail, TailAt
      <4>3. Head(queue).id \in Samples
        BY <3>1, <4>2 DEF Msg
      <4> QED
        BY <4>2, <4>3 DEF Flying, Queued
    <3>4. ~ Closed
      BY <3>2, <3>3 DEF Counted, Drained
    <3> QED
      BY <2>0, <2>2, <3>2, <3>4 DEF Counted
  <2> HIDE DEF Counted, Early, Closed, Active
  <2> QED
    BY <2>0, <2>2, <2>3, <2>4 DEF RoundInv
<1>3. CASE SyncStart \/ SyncVersion \/ LogStep
  <2>1. /\ UNCHANGED <<batch, tr_version, local_trigger_step, weights, final, trained, cnt, taken,
                       staleness_samples, proc, task, hand, cancel_queue, queue>>
        /\ tr' = tr \/ (tr = "wait" /\ tr' = "sync") \/ (tr = "log" /\ tr' = "collect")
        /\ \/ rpc' = rpc
           \/ rpc' \notin {"size", "reply"} /\ (rpc' \in Updating <=> rpc \in Updating)
        /\ rpc' \in Quieted => rpc \in Quieted
    BY <1>3 DEF SyncStart, SyncVersion, update_param_version, LogStep, Log, get_validate,
                trVars, rollVars, coreVars, ctlVars, msgVars, Updating, Quieted
  <2>2. Flying' = Flying /\ Active' = Active
    BY <2>1 DEF Flying, Live, Queued, Active
  <2>3. rpc' \in Quieted => Active' = {}
    BY <2>1, <2>2 DEF RoundInv
  <2> QED
    BY <2>1, <2>2, <2>3, RoundKept
<1>4. CASE SyncWeights
  <2>1. /\ UNCHANGED <<batch, tr_version, local_trigger_step, final, trained, cnt, taken,
                       staleness_samples, proc, task, hand, cancel_queue, queue>>
        /\ tr = "sync" /\ rpc = "sync" /\ rpc' = "update" /\ tr' \in {"lastWait", "log"}
    BY <1>4 DEF SyncWeights, coreVars, ctlVars, msgVars
  <2>2. Flying' = Flying /\ Active' = Active /\ Closed /\ Closed' /\ (Early' => Early)
    BY <2>1 DEF Flying, Live, Queued, Active, Closed, Updating, Early
  <2>3. Early' => Counted'
    BY <2>1, <2>2 DEF RoundInv, Counted, Drained
  <2> HIDE DEF Counted, Early, Closed, Active
  <2> QED
    BY <2>1, <2>2, <2>3 DEF RoundInv, Quieted
<1>5. CASE FinalLog \/ LastLog
  <2>1. /\ UNCHANGED <<trained, rpc, proc, task, main>>
        /\ tr \in {"finalWait", "lastWait"} /\ tr' \in {"wait", "end"}
        /\ (tr' = "wait" => final')
        /\ ~ final' => ~ final /\ UNCHANGED <<tr_version, local_trigger_step>>
    BY <1>5 DEF FinalLog, LastLog, Log, rollVars, coreVars, LogInv
  <2>2. ~ Early' /\ proc \in {"end", "crashed"} /\ Active' = Active
    BY <2>1 DEF Early, Active, CapInv, FeedInv
  <2> HIDE DEF Counted, Early, Closed, Active
  <2> QED
    BY <2>1, <2>2 DEF RoundInv
<1> QED
  BY <1>1, <1>2, <1>3, <1>4, <1>5 DEF TrainerNext

LEMMA RoundStep ==
  ASSUME StaleNum = 0, RoundInv, FeedInv, CapInv, SyncInv, LogInv, HandInv, Types, Types',
         ConsInv', [Next]_vars
  PROVE  RoundInv'
<1>1. CASE UNCHANGED vars
  <2>1. /\ UNCHANGED <<batch, tr_version, local_trigger_step, weights, final, trained, cnt, taken,
                       staleness_samples, proc, task, hand, cancel_queue, queue, tr, rpc>>
    BY <1>1 DEF vars, trVars, rollVars, coreVars, ctlVars, msgVars
  <2>2. Flying' = Flying /\ Active' = Active
    BY <2>1 DEF Flying, Live, Queued, Active
  <2>3. rpc' \in Quieted => Active' = {}
    BY <2>1, <2>2 DEF RoundInv
  <2> QED
    BY <2>1, <2>2, <2>3, RoundKept
<1> QED
  BY <1>1, RoundLocal, RoundRpc, RoundTrainer DEF Next, RollNext, RpcMoves, RollUpdate, JobEnd

LEMMA RoundInit == ASSUME StaleNum = 0, Init PROVE RoundInv
<1>1. /\ tr = "log" /\ rpc = "none" /\ final = FALSE /\ proc = "top" /\ trained = <<>>
      /\ tr_version = 0 /\ weights = 0 /\ local_trigger_step = 1 /\ taken = 0
      /\ staleness_samples = 0
  BY DEF Init, RollInit
<1>2. /\ MaxRequired * 0 = 0 /\ Required * 0 = 0 /\ MaxRequired \in Nat /\ Len(<<>>) = 0
  BY MaxRequiredType
<1>3. Len(trained) = MaxRequired * tr_version + Required * (local_trigger_step - 1)
  BY <1>1, <1>2
<1>4. Counted
  BY <1>1, <1>2 DEF Counted, Closed, Updating
<1> HIDE DEF Counted, Closed, Early, Active
<1> QED
  BY <1>1, <1>3, <1>4 DEF RoundInv, Quieted

LEMMA RoundHolds == ASSUME StaleNum = 0 PROVE Spec => []RoundInv
<1>1. Init => RoundInv
  BY RoundInit
<1>2. RoundInv /\ FeedInv /\ CapInv /\ SyncInv /\ LogInv /\ Types /\ Types'
      /\ ConsInv /\ HandInv /\ ConsInv' /\ HandInv' /\ [Next]_vars => RoundInv'
  BY RoundStep
<1> QED
  BY <1>1, <1>2, FeedHolds, CapHolds, SyncHolds, LogHolds, TypesHold, ConsHolds, PTL DEF Spec

(* pause / sync_weights: with staleness_threshold 0 no sample is being       *)
(* generated while the weights of the rollout servers are replaced, although *)
(* the monitor may undo a pause.                                             *)
THEOREM SyncIsQuiet == ASSUME StaleNum = 0 PROVE Spec => []QuietSync
<1>1. RoundInv => QuietSync
  BY DEF RoundInv, Quieted, QuietSync, Active
<1> QED
  BY <1>1, RoundHolds, PTL

------------------------------------------------------------------------------
(* The bound on the samples in flight                                        *)

LEMMA FlyHolds == Spec => []FlyInv
<1>1. Init => FlyInv
  <2> SUFFICES ASSUME Init PROVE FlyInv
    OBVIOUS
  <2>1. /\ hand = 0 /\ cancel_queue = <<>> /\ queue = <<>> /\ staleness_samples = 0
        /\ task = [s \in Samples |-> "none"] /\ rpc = "none" /\ proc = "top"
    BY DEF Init, RollInit
  <2>2. Flying = {}
    BY <2>1, SamplesFinite DEF Flying, Live, Queued, SetOf
  <2>3. Cardinality(Flying) = 0
    BY <2>2, FS_EmptySet
  <2> QED
    BY <2>1, <2>3, MaxRequiredType DEF FlyInv
<1>2. FlyInv /\ Types /\ Types' /\ ConsInv /\ HandInv /\ LockInv /\ [Next]_vars => FlyInv'
  BY FlyStep
<1> QED
  BY <1>1, <1>2, TypesHold, ConsHolds, LockHolds, PTL DEF Spec

\* With staleness_threshold 0 the samples in flight are those of the round
\* that are not trained on yet.
LEMMA RoundBound ==
  ASSUME StaleNum = 0, RoundInv, Early, SyncInv, ConsInv, Types
  PROVE  Cardinality(Flying) <= MaxRequired
<1>0. Cardinality(Flying) \in Nat /\ MaxRequired \in Nat
  BY FlyingFinite, MaxRequiredType
<1>1. CASE Closed
  <2>1. Cardinality(Flying) = 0
    BY <1>1, FS_EmptySet DEF RoundInv, Counted, Drained
  <2> QED
    BY <1>0, <2>1
<1>2. CASE ~ Closed
  <2>1. tr_version = weights /\ weights \in Nat
    BY <1>2 DEF SyncInv, Closed
  <2>2. /\ taken <= MaxRequired * weights + staleness_samples
        /\ staleness_samples <= MaxRequired
    BY <1>2 DEF RoundInv, Counted
  <2>3. local_trigger_step - 1 \in Nat /\ staleness_samples \in Nat /\ taken \in Nat
    BY DEF Types, TrType, CtlType, CoreType
  <2>4. MaxRequired * weights \in Nat /\ Required * (local_trigger_step - 1) \in Nat
    BY <2>1, <2>3, RoundSize
  <2>5. Len(trained) = MaxRequired * weights + Required * (local_trigger_step - 1)
    BY <2>1 DEF RoundInv, Early
  <2>6. Cardinality(Flying) + Len(trained) <= taken
    BY TakenCovers
  <2> DEFINE done == MaxRequired * weights
             more == Required * (local_trigger_step - 1)
  <2>7. /\ taken <= done + staleness_samples /\ done \in Nat /\ more \in Nat
        /\ Cardinality(Flying) + (done + more) <= taken
    BY <2>2, <2>4, <2>5, <2>6
  <2> HIDE DEF done, more
  <2> QED
    BY <1>0, <2>2, <2>3, <2>7
<1> QED
  BY <1>1, <1>2

\* Once the trainer knows the end, nothing is taken any more.
LEMMA EarlyTakes ==
  ASSUME StaleNum = 0, FeedInv, FeedInv', CapInv, CapInv', HandInv, Types, [Next]_vars, ~ Early'
  PROVE  Flying' \subseteq Flying
<1>1. ~ (ProcTakePending /\ hand' = taken + 1)
  <2> SUFFICES ASSUME ProcTakePending, hand' = taken + 1 PROVE FALSE
    OBVIOUS
  <2>1. hand = 0 /\ taken \in Nat
    BY DEF ProcTakePending, HandInv, Types, CoreType
  <2>2. proc' = "drain"
    BY <2>1 DEF ProcTakePending
  <2> QED
    BY <2>2 DEF CapInv, FeedInv
<1> QED
  BY <1>1, FlyMoves DEF FlyMove

LEMMA RoundBoundHolds == ASSUME StaleNum = 0 PROVE Spec => [](Cardinality(Flying) <= MaxRequired)
<1> DEFINE Bound == Cardinality(Flying) <= MaxRequired
<1>1. RoundInv /\ Early /\ SyncInv /\ ConsInv /\ HandInv /\ Types => Bound
  BY RoundBound
<1>2. Init => Early
  BY DEF Init, Early
<1>3. Bound /\ FeedInv /\ FeedInv' /\ CapInv /\ CapInv' /\ ConsInv /\ HandInv /\ Types
      /\ [Next]_vars /\ ~ Early' => Bound'
  <2> SUFFICES ASSUME Bound, FeedInv, FeedInv', CapInv, CapInv', HandInv, Types, [Next]_vars,
                      ~ Early'
               PROVE  Bound'
    OBVIOUS
  <2>1. Flying' \subseteq Flying
    BY EarlyTakes
  <2>2. /\ Cardinality(Flying') \in Nat /\ Cardinality(Flying) \in Nat
        /\ Cardinality(Flying') <= Cardinality(Flying)
    BY <2>1, FlyingFinite
  <2> QED
    BY <2>2, MaxRequiredType
<1> HIDE DEF Bound
<1>4. Spec => []Bound
  BY <1>1, <1>2, <1>3, RoundHolds, FeedHolds, CapHolds, SyncHolds, ConsHolds, TypesHold,
     PTL DEF Spec
<1> QED
  BY <1>4 DEF Bound

(* staleness_samples, for every configuration: the samples taken and not yet *)
(* consumed exceed max_required_samples by at most the one in the            *)
(* processor's hand, and never with staleness_threshold 0.                   *)
THEOREM InFlightIsBounded == Spec => []InFlightBound
<1>1. CASE StaleNum = 0
  <2>1. Cardinality(Flying) <= MaxRequired /\ Types => InFlightBound
    <3> SUFFICES ASSUME Cardinality(Flying) <= MaxRequired, Types PROVE InFlightBound
      OBVIOUS
    <3>1. InFlight = Cardinality(Flying)
      BY InFlightIsFlying
    <3> QED
      BY <1>1, <3>1, MaxRequiredType DEF InFlightBound
  <2> QED
    BY <1>1, <2>1, RoundBoundHolds, TypesHold, PTL
<1>2. CASE StaleNum # 0
  <2>1. FlyInv /\ Types => InFlightBound
    <3> SUFFICES ASSUME FlyInv, Types PROVE InFlightBound
      OBVIOUS
    <3>1. InFlight = Cardinality(Flying)
      BY InFlightIsFlying
    <3> QED
      BY <1>2, <3>1 DEF InFlightBound, FlyInv
  <2> QED
    BY <2>1, FlyHolds, TypesHold, PTL
<1> QED
  BY <1>1, <1>2

------------------------------------------------------------------------------
(* The versions of the samples                                               *)

\* With staleness_threshold 0 every sample sent off, queued or collected
\* bears the rollouter's version.
FreshInv ==
  Early => /\ \A s \in Samples : task[s] = "put" => stamp[s] = version
           /\ \A m \in SetOf(queue) : m # None => m.ver = version
           /\ \A m \in SetOf(batch) : m.ver = version

LEMMA EarlyBefore == [Next]_vars /\ Early' => Early
<1> SUFFICES ASSUME [Next]_vars, Early' PROVE Early
  OBVIOUS
<1>1. CASE TrainerNext
  BY <1>1 DEF TrainerNext, Collect, Train, SyncStart, SyncVersion, SyncWeights, LogStep,
              FinalLog, LastLog, Log, trVars, Early
<1>2. CASE UNCHANGED trVars
  BY <1>2 DEF trVars, Early
<1> QED
  BY <1>1, <1>2 DEF Next, RollUpdate, JobEnd, vars

\* Between two rounds there is no sample that could bear the old version.
LEMMA NoneLeft ==
  ASSUME RoundInv, Early, Closed, Types
  PROVE  /\ \A s \in Samples : task[s] # "put"
         /\ \A m \in SetOf(queue) : m = None
         /\ SetOf(batch) = {}
<1>1. Flying = {} /\ batch = <<>>
  BY DEF RoundInv, Counted, Drained
<1>2. \A m \in SetOf(queue) : m \in Msg
  BY DEF Types, MQTypeOK, SetOf
<1>3. \A m \in SetOf(queue) : m # None => m.id \in Samples
  BY <1>2 DEF Msg
<1>4. \A m \in SetOf(queue) : m # None => m.id \in Flying
  BY <1>3 DEF Flying, Queued
<1>5. \A s \in Samples : task[s] = "put" => s \in Flying
  BY DEF Flying, Live
<1>6. SetOf(batch) = {}
  BY <1>1 DEF SetOf
<1> QED
  BY <1>1, <1>4, <1>5, <1>6

LEMMA FreshStep ==
  ASSUME StaleNum = 0, FreshInv, RoundInv, SyncInv, Types, [Next]_vars
  PROVE  FreshInv'
<1> SUFFICES ASSUME Early'
             PROVE  /\ \A s \in Samples : task'[s] = "put" => stamp'[s] = version'
                    /\ \A m \in SetOf(queue') : m # None => m.ver = version'
                    /\ \A m \in SetOf(batch') : m.ver = version'
  BY DEF FreshInv
<1>0. /\ Early
      /\ \A s \in Samples : task[s] = "put" => stamp[s] = version
      /\ \A m \in SetOf(queue) : m # None => m.ver = version
      /\ \A m \in SetOf(batch) : m.ver = version
  BY EarlyBefore DEF FreshInv
<1>1. /\ task \in [Samples -> {"none", "gen", "cut", "put", "done", "err"}]
      /\ stamp \in [Samples -> Nat] /\ queue \in Seq(Msg)
      /\ batch \in Seq([id : Samples, ver : Nat]) /\ MQTypeOK
  BY DEF Types, CoreType, MQTypeOK, TrType
<1>2. CASE /\ UNCHANGED trVars
           /\ ProcNext \/ Feed \/ MonNext \/ MainStop \/ RpcMoves \/ UpdatePutVal
  <2>1. UNCHANGED <<version, queue, stamp>>
    BY <1>2 DEF ProcNext, ProcTop, ProcSetPaused, ProcTakeCancelled, ProcTakePending, ProcDrain,
              ProcDrainLocked, ProcCollect, ProcIdle, ProcSubmit, ProcWoken, procOther,
              Feed, MonNext, MonWake, MonSet, MonLoop, monOther, MainStop, mainOther,
              RpcMoves, PauseCall, PauseLocked, PauseCancel, PauseGather, PauseDone,
              UpdateCall, UpdateSize, UpdateReply, ResumeCall, ResumeServers, ResumeDone,
              UpdatePutVal, put_validate, rpcOther, coreVars, ctlVars, msgVars
  <2>2. UNCHANGED batch
    BY <1>2 DEF trVars
  <2>3. ASSUME NEW s \in Samples, task'[s] = "put" PROVE task[s] = "put"
    <3>1. CASE ProcCollect \/ PauseGather
      BY <2>3, <3>1 DEF ProcCollect, PauseGather
    <3>2. CASE ProcSubmit
      BY <1>1, <2>3, <3>2 DEF ProcSubmit
    <3>3. CASE ~ (ProcCollect \/ PauseGather \/ ProcSubmit)
      <4>1. UNCHANGED task
        BY <1>2, <3>3 DEF ProcNext, ProcTop, ProcSetPaused, ProcTakeCancelled, ProcTakePending,
              ProcDrain, ProcDrainLocked, ProcIdle, ProcWoken, procOther,
              Feed, MonNext, MonWake, MonSet, MonLoop, monOther, MainStop, mainOther,
              RpcMoves, PauseCall, PauseLocked, PauseCancel, PauseDone,
              UpdateCall, UpdateSize, UpdateReply, ResumeCall, ResumeServers, ResumeDone,
              UpdatePutVal, rpcOther, coreVars
      <4> QED
        BY <2>3, <4>1
    <3> QED
      BY <3>1, <3>2, <3>3
  <2> QED
    BY <1>0, <2>1, <2>2, <2>3
<1>3. ASSUME NEW x \in Samples, UNCHANGED trVars,
             Generated(x) \/ CutShort(x) \/ Interrupted(x) \/ Fails(x)
      PROVE  /\ \A s \in Samples : task'[s] = "put" => stamp'[s] = version'
             /\ \A m \in SetOf(queue') : m # None => m.ver = version'
             /\ \A m \in SetOf(batch') : m.ver = version'
  <2>1. UNCHANGED <<version, queue, batch>>
    BY <1>3 DEF Generated, CutShort, Interrupted, Fails, taskOther, ctlVars, msgVars, trVars
  <2>2. \A s \in Samples : task'[s] = "put" => stamp'[s] = version'
    BY <1>0, <1>1, <1>3, <2>1 DEF Generated, CutShort, Interrupted, Fails
  <2> QED
    BY <1>0, <2>1, <2>2
<1>4. ASSUME NEW x \in Samples, UNCHANGED trVars, PutSample(x)
      PROVE  /\ \A s \in Samples : task'[s] = "put" => stamp'[s] = version'
             /\ \A m \in SetOf(queue') : m # None => m.ver = version'
             /\ \A m \in SetOf(batch') : m.ver = version'
  <2> DEFINE e == [id |-> x, ver |-> stamp[x]]
  <2>1. UNCHANGED <<version, batch>> /\ put_sample(e) /\ task[x] = "put"
    BY <1>4 DEF PutSample, taskOther, ctlVars, trVars
  <2>2. e \in Msg /\ e.ver = version
    BY <1>0, <1>1, <2>1 DEF Msg
  <2> HIDE DEF e
  <2>3. SetOf(queue') \subseteq SetOf(queue) \cup {e}
    BY <1>1, <2>1, <2>2, QueuedPut
  <2>4. \A s \in Samples : task'[s] = "put" => stamp'[s] = version'
    BY <1>0, <1>1, <1>4, <2>1 DEF PutSample
  <2>5. \A m \in SetOf(queue') : m # None => m.ver = version'
    BY <1>0, <2>1, <2>2, <2>3
  <2> QED
    BY <1>0, <2>1, <2>4, <2>5
<1>5. CASE MainPut /\ UNCHANGED trVars
  <2>1. UNCHANGED <<version, batch, task, stamp>> /\ put_sample(None)
    BY <1>5 DEF MainPut, mainOther, coreVars, trVars
  <2>2. SetOf(queue') \subseteq SetOf(queue) \cup {None}
    BY <1>1, <2>1, QueuedPut DEF Msg
  <2> QED
    BY <1>0, <2>1, <2>2
<1>6. CASE RollUpdate
  <2>1. rpc = "updateLock" /\ UNCHANGED <<queue, batch, task, stamp>>
    BY <1>6 DEF RollUpdate, UpdateLocked, rpcOther, msgVars, trVars
  <2>2. Closed
    BY <2>1 DEF Closed, Updating
  <2> QED
    BY <1>0, <2>1, <2>2, NoneLeft
<1>7. CASE Collect
  <2>1. /\ UNCHANGED <<version, task, stamp>> /\ queue # <<>> /\ queue' = Tail(queue)
        /\ Head(queue) # None /\ batch' = Append(batch, Head(queue))
    BY <1>7 DEF Collect, get_sample, rollVars, coreVars, ctlVars, Early
  <2>2. SetOf(queue') \subseteq SetOf(queue) /\ Head(queue) \in SetOf(queue)
        /\ Head(queue) \in [id : Samples, ver : Nat]
    BY <1>1, <2>1, SetTail, TailAt DEF Msg
  <2>3. SetOf(batch') = SetOf(batch) \cup {Head(queue)}
    <3> DEFINE M == [id : Samples, ver : Nat]
    <3>1. batch \in Seq(M) /\ Head(queue) \in M
      BY <1>1, <2>2
    <3> HIDE DEF M
    <3> QED
      BY <2>1, <3>1, SetAppend
  <2> QED
    BY <1>0, <2>1, <2>2, <2>3
<1>8. CASE (TrainerNext /\ ~ Collect) \/ UNCHANGED vars
  <2>1. UNCHANGED <<version, task, stamp, queue>> /\ (batch' = batch \/ batch' = <<>>)
    BY <1>8 DEF TrainerNext, Train, SyncStart, SyncVersion, SyncWeights, update_param_version,
                LogStep, FinalLog, LastLog, Log, get_validate, vars, trVars, rollVars, coreVars,
                ctlVars, msgVars
  <2>2. SetOf(batch') \subseteq SetOf(batch)
    BY <2>1 DEF SetOf
  <2> QED
    BY <1>0, <2>1, <2>2
<1>9. CASE TaskNext /\ UNCHANGED trVars
  BY <1>3, <1>4, <1>9 DEF TaskNext
<1> QED
  BY <1>2, <1>5, <1>6, <1>7, <1>8, <1>9 DEF Next, RollNext, RpcMoves, MainNext, JobEnd

(* set_max_required_samples / _should_pause_generation: for every size of a  *)
(* round, with staleness_threshold 0 the training is on-policy, however the  *)
(* processor, the monitor, the synchronizer and the trainer interleave.      *)
THEOREM TrainingIsOnPolicy == Spec => []FreshEnough
<1>1. CASE StaleNum = 0
  <2>1. Init => FreshInv
    BY DEF Init, RollInit, FreshInv, SetOf
  <2>2. FreshInv /\ RoundInv /\ SyncInv /\ Types /\ [Next]_vars => FreshInv'
    BY <1>1, FreshStep
  <2>3. FreshInv /\ RoundInv /\ SyncInv /\ LogInv /\ Types => FreshEnough
    <3> SUFFICES ASSUME FreshInv, RoundInv, SyncInv, LogInv, Types, tr = "train",
                        NEW i \in 1 .. Len(batch)
                 PROVE  batch[i].ver = tr_version
      BY DEF FreshEnough
    <3>1. Early /\ batch[i] \in SetOf(batch)
      BY DEF LogInv, Early, SetOf
    <3>2. ~ Closed
      BY <3>1, NoneLeft
    <3>3. version = tr_version
      BY <3>2 DEF SyncInv, Closed, Updating, Transferred
    <3> QED
      BY <3>1, <3>3 DEF FreshInv
  <2> QED
    BY <1>1, <2>1, <2>2, <2>3, RoundHolds, SyncHolds, LogHolds, TypesHold, PTL DEF Spec
<1>2. CASE StaleNum # 0
  <2>1. FreshEnough
    BY <1>2 DEF FreshEnough
  <2> QED
    BY <2>1, PTL
<1> QED
  BY <1>1, <1>2

------------------------------------------------------------------------------
(* Nothing is lost: staleness_threshold = 0                                  *)

\* Until it has waited for a task once, the processor has the lock for the
\* asking: no pause() can come in between, and active_tasks keeps every task.
Fresh == ~ bound /\ proc \notin {"wait", "end", "crashed"}

\* Without failed generations the processor does not fail, and ends with the
\* end signal in hand and no task left.
EndInv ==
  /\ fails = 0 => proc # "crashed" /\ \A s \in Samples : task[s] # "err"
  /\ proc \in {"drain", "drainLock", "wait"} /\ why = "done" => hand = DONE /\ taken = DONE
  /\ proc = "end" => hand = DONE /\ taken = DONE /\ Active = {}

\* From the pause on until the rollouter resumes.
Held == {"cancel", "gather", "kv", "paused", "sync", "update", "updateLock", "size", "reply",
         "putVal", "resume", "resumeLock", "resumed"}

\* The monitor cannot undo a pause: whatever it found before the round was
\* over, its turn at the lock comes before the one of pause().
Stopped ==
  /\ paused /\ mon # "setLock" /\ Flying = {} /\ proc \notin {"take", "get"}
  /\ rpc \notin {"cancel", "gather", "kv"} => ~ monitor_trigger

MonFirst(l) == \A i, j \in 1 .. Len(l) : l[i] = "mon" /\ l[j] = "rpc" => i < j

PauseInv ==
  /\ Early /\ rpc = "pauseLock" /\ mon = "setLock" => MonFirst(lock)
  /\ Early /\ rpc \in Held => Stopped

\* Only servers that are paused interrupt a sample, and then there is none.
ServerInv ==
  /\ rpc = "cancel" => Partial
  /\ server_paused => Partial /\ rpc \in Held \ {"cancel", "resumed"}

CancelInv ==
  /\ Early => cancel_queue = <<>> /\ \A s \in Samples : task[s] # "cut"
  /\ proc = "end" => cancel_queue = <<>>

\* The finish signal comes last, and nothing is dropped.
LastInv ==
  fails = 0 =>
    /\ dropped_samples = 0
    /\ main # "wait" /\ Early =>
         /\ queue # <<>> /\ queue[Len(queue)] = None
         /\ \A i \in 1 .. Len(queue) - 1 : queue[i] # None
    /\ ~ Early => queue = <<>>

WholeBatches == \E k \in 0 .. Len(trained) : Len(trained) = Required * k

\* What Fresh promises.
Boot ==
  /\ rpc = "none" \/ (rpc = "pause" /\ cpu = "proc")
  /\ cpu # "proc" => proc = "get" \/ (proc = "top" /\ staleness_samples = 0)
  /\ lock = (IF cpu = "proc" /\ proc \in ProcIn THEN <<"proc">>
             ELSE IF cpu = "mon" THEN <<"mon">> ELSE <<>>)
  /\ mon \in MonIn <=> cpu = "mon"
  /\ proc \notin {"idleLock", "idle", "idleWoken", "subWait", "subWoken"}
  /\ paused => proc \in {"drain", "drainLock"} /\ why = "pause"
  /\ staleness_samples <= taken
  /\ \A s \in Samples : s <= taken /\ s # hand => task[s] # "none"
  /\ proc = "setPaused" \/ (proc = "drain" /\ why = "pause") \/ proc = "drainLock" => Active # {}

BootInv == Fresh => Boot

LEMMA FreshBefore == [Next]_vars /\ Fresh' => Fresh /\ UNCHANGED bound
<1> SUFFICES ASSUME [Next]_vars, Fresh' PROVE Fresh /\ UNCHANGED bound
  OBVIOUS
<1> USE DEF Fresh
<1>1. CASE ProcNext
  BY <1>1 DEF ProcNext, ProcTop, ProcSetPaused, ProcTakeCancelled, ProcTakePending, ProcDrain,
              ProcDrainLocked, ProcCollect, ProcIdle, ProcSubmit, ProcWoken, procOther
<1>2. CASE Feed \/ TaskNext \/ MonNext \/ MainNext
  <2>1. UNCHANGED bound
    BY <1>2 DEF Feed, TaskNext, Generated, PutSample, CutShort, Interrupted, Fails, taskOther,
                MonNext, MonWake, MonSet, MonLoop, MainNext, MainPut, MainStop, monOther, mainOther
  <2>2. proc' = proc \/ proc \in {"idle", "subWait"}
    BY <1>2 DEF Feed, TaskNext, Generated, PutSample, CutShort, Interrupted, Fails, taskOther,
                MonNext, MonWake, MonSet, MonLoop, MainNext, MainPut, MainStop, mainOther, Notify
  <2> QED
    BY <2>1, <2>2
<1>3. CASE RpcMoves \/ UpdatePutVal \/ RollUpdate
  BY <1>3 DEF RpcMoves, PauseCall, PauseLocked, PauseCancel, PauseGather, PauseDone,
              UpdateCall, UpdateSize, UpdateReply, ResumeCall, ResumeServers, ResumeDone,
              UpdatePutVal, RollUpdate, UpdateLocked, rpcOther, Notify
<1>4. CASE TrainerNext \/ UNCHANGED vars
  BY <1>4 DEF TrainerNext, Collect, Train, SyncStart, SyncVersion, SyncWeights, LogStep,
              FinalLog, LastLog, Log, vars, rollVars
<1> QED
  BY <1>1, <1>2, <1>3, <1>4 DEF Next, RollNext, RpcMoves, JobEnd

\* The steps of the processor before it has waited for a task.
LEMMA BootProc ==
  ASSUME Boot, Fresh, Fresh', RoundInv, HandInv, ConsInv, FeedInv, CapInv, SyncInv, Types, ProcNext
  PROVE  Boot'
<1>0. /\ UNCHANGED <<mon, main, rpc>> /\ ~ bound /\ ~ bound'
      /\ task \in [Samples -> {"none", "gen", "cut", "put", "done", "err"}]
      /\ taken \in Nat /\ staleness_samples \in Nat /\ hand \in Nat
      /\ MaxRequired \in Nat /\ MaxRequired >= 1 /\ MaxConcurrent \in Nat /\ MaxConcurrent >= 1
      /\ 0 \notin Samples /\ 1 \in Samples
  <2>1. UNCHANGED <<mon, main, rpc>>
    BY DEF ProcNext, ProcTop, ProcSetPaused, ProcTakeCancelled, ProcTakePending, ProcDrain,
           ProcDrainLocked, ProcCollect, ProcIdle, ProcSubmit, ProcWoken, procOther
  <2>2. 0 \notin Samples /\ 1 \in Samples
    BY DEF Samples
  <2> QED
    BY <2>1, <2>2, MaxRequiredType, MaxConcurrentType DEF Fresh, Types, CoreType, CtlType, DONE
<1>1. Tail(<<"proc">>) = <<>> /\ Append(<<>>, "proc") = <<"proc">> /\ <<"proc">> # <<>>
  OBVIOUS
<1>2. CASE ProcTop
  <2>1. proc = "top" /\ cpu \in {"none", "proc"} /\ lock = <<>> /\ hand = 0 /\ ~ paused
    BY <1>2 DEF ProcTop, MayRun, Boot, ProcIn, HandInv
  <2>2. UNCHANGED <<taken, task, hand, paused, staleness_samples>> /\ Active' = Active
    BY <1>2 DEF ProcTop, Active
  <2>3. CASE ShouldPause
    <3>1. proc' = "setPaused" /\ lock' = <<"proc">> /\ cpu' = "proc"
      BY <1>1, <1>2, <2>1, <2>3 DEF ProcTop, Request
    <3>2. taken >= 1
      <4>1. CASE staleness_samples >= MaxRequired
        BY <1>0, <4>1 DEF Boot
      <4>2. CASE Len(queue) >= MaxRequired
        <5>1. Len(queue) >= 1 /\ queue \in Seq(Msg)
          BY <1>0, <4>2 DEF Types, MQTypeOK
        <5>2. queue[1] \in SetOf(queue) /\ queue[1] \in Msg /\ main = "wait"
          BY <5>1 DEF SetOf, CapInv, Fresh
        <5>3. queue[1] # None /\ queue[1].id \in Samples
          BY <5>2 DEF FeedInv, Msg
        <5>4. queue[1].id \in Flying
          BY <5>2, <5>3 DEF Flying, Queued
        <5>5. Cardinality(Flying) # 0 /\ Cardinality(Flying) \in Nat
          BY <5>4, FlyingFinite, FS_EmptySet
        <5>6. Cardinality(Flying) + Len(trained) <= taken /\ Len(trained) \in Nat
          BY TakenCovers DEF Types, TrType
        <5> QED
          BY <1>0, <5>5, <5>6
      <4> QED
        BY <2>3, <4>1, <4>2 DEF ShouldPause
    <3>3. 1 \in Active
      BY <1>0, <2>1, <3>2 DEF Boot, Active
    <3> QED
      BY <1>0, <2>1, <2>2, <3>1, <3>3 DEF Boot, ProcIn
  <2>4. CASE ~ ShouldPause
    <3>1. proc' = "take" /\ lock' = <<>> /\ cpu' = "proc"
      BY <1>2, <2>1, <2>4 DEF ProcTop, Keep
    <3> QED
      BY <1>0, <2>1, <2>2, <3>1 DEF Boot, ProcIn
  <2> QED
    BY <2>3, <2>4
<1>3. CASE ProcSetPaused
  <2>1. /\ proc = "setPaused" /\ cpu = "proc" /\ lock = <<"proc">> /\ Active # {}
        /\ proc' = "drain" /\ why' = "pause" /\ cpu' = "proc" /\ lock' = <<>>
        /\ UNCHANGED <<taken, task, hand, staleness_samples>> /\ Active' = Active
    BY <1>1, <1>3 DEF ProcSetPaused, Boot, ProcIn, Release, Keep, Active
  <2> QED
    BY <1>0, <2>1 DEF Boot, ProcIn
<1>4. CASE ProcTakeCancelled
  <2>1. /\ proc = "take" /\ cpu = "proc" /\ lock = <<>> /\ hand = 0 /\ ~ paused
        /\ proc' = "drain" /\ why' = "cap" /\ cpu' = "proc" /\ lock' = <<>>
        /\ UNCHANGED <<taken, task, paused, staleness_samples>>
    BY <1>4 DEF ProcTakeCancelled, Boot, ProcIn, Keep, HandInv
  <2> QED
    BY <1>0, <2>1 DEF Boot, ProcIn
<1>5. CASE ProcTakePending
  <2>1. /\ proc \in {"take", "get"} /\ cpu \in {"none", "proc"} /\ lock = <<>> /\ lock' = lock
        /\ hand = 0 /\ ~ paused /\ UNCHANGED <<task, paused>>
    BY <1>5 DEF ProcTakePending, MayRun, Boot, ProcIn, HandInv
  <2>2. rpc = "none"
    BY <2>1 DEF RoundInv, Closed, Boot, SyncInv, Before
  <2>3. CASE fed > taken
    <3>1. /\ taken' = taken + 1 /\ hand' = taken + 1 /\ why' \in {"done", "cap"}
          /\ staleness_samples' = staleness_samples + 1 /\ proc' = "drain" /\ cpu' = "proc"
      BY <1>5, <2>3 DEF ProcTakePending, Keep
    <3>2. staleness_samples' <= taken'
      BY <1>0, <3>1 DEF Boot
    <3>3. \A s \in Samples : s <= taken' /\ s # hand' => task'[s] # "none"
      <4> SUFFICES ASSUME NEW s \in Samples, s <= taken + 1, s # taken + 1 PROVE task[s] # "none"
        BY <2>1, <3>1
      <4>1. s \in Nat /\ s <= taken /\ s # 0
        BY <1>0 DEF Samples
      <4> QED
        BY <2>1, <4>1 DEF Boot
    <3> QED
      BY <1>0, <2>1, <2>2, <3>1, <3>2, <3>3 DEF Boot, ProcIn
  <2>4. CASE ~ (fed > taken)
    <3>1. /\ proc = "take" /\ proc' = "get" /\ cpu' = "none"
          /\ UNCHANGED <<taken, hand, staleness_samples, why>>
      BY <1>5, <2>4 DEF ProcTakePending, Yield
    <3> QED
      BY <1>0, <2>1, <2>2, <3>1 DEF Boot, ProcIn
  <2> QED
    BY <2>3, <2>4
<1>6. CASE ProcDrain
  <2>1. /\ proc = "drain" /\ cpu = "proc" /\ lock = <<>>
        /\ UNCHANGED <<taken, task, hand, why, paused, staleness_samples>> /\ Active' = Active
    BY <1>6 DEF ProcDrain, Boot, ProcIn, Active
  <2>2. CASE DrainMore
    <3>1. Active # {}
      <4>1. CASE why = "cap"
        BY <1>0, <2>2, <4>1, FS_EmptySet DEF DrainMore
      <4>2. CASE why # "cap"
        BY <2>2, <4>2 DEF DrainMore
      <4> QED
        BY <4>1, <4>2
    <3>2. proc' = "drainLock" /\ lock' = <<"proc">> /\ cpu' = "proc"
      BY <1>1, <1>6, <2>1, <2>2 DEF ProcDrain, Request
    <3> QED
      BY <1>0, <2>1, <3>1, <3>2 DEF Boot, ProcIn
  <2>3. CASE ~ DrainMore
    <3>1. why # "pause"
      BY <2>1, <2>3 DEF DrainMore, Boot
    <3>2. why = "cap" /\ proc' = "submitLock" /\ lock' = <<"proc">> /\ cpu' = "proc"
      BY <1>1, <1>6, <2>1, <2>3, <3>1 DEF ProcDrain, Request, Fresh
    <3> QED
      BY <1>0, <2>1, <3>1, <3>2 DEF Boot, ProcIn
  <2> QED
    BY <2>2, <2>3
<1>7. CASE ProcDrainLocked
  BY <1>7 DEF ProcDrainLocked, Fresh, Boot
<1>8. CASE ProcCollect
  BY <1>0, <1>8 DEF ProcCollect
<1>9. CASE ProcSubmit
  <2>1. /\ proc = "submitLock" /\ cpu = "proc" /\ lock = <<"proc">> /\ ~ paused
        /\ task' = [task EXCEPT ![hand] = "gen"] /\ hand' = 0
        /\ proc' = "top" /\ cpu' = "proc" /\ lock' = <<>>
        /\ UNCHANGED <<taken, why, paused, staleness_samples>>
    BY <1>1, <1>9 DEF ProcSubmit, Boot, ProcIn, Release, Keep
  <2>2. \A s \in Samples : s <= taken' /\ s # hand' => task'[s] # "none"
    BY <1>0, <2>1 DEF Boot
  <2> QED
    BY <1>0, <2>1, <2>2 DEF Boot, ProcIn
<1>10. CASE ProcIdle \/ ProcWoken
  BY <1>10 DEF ProcIdle, ProcWoken, Boot
<1> QED
  BY <1>2, <1>3, <1>4, <1>5, <1>6, <1>7, <1>8, <1>9, <1>10 DEF ProcNext

LEMMA BootStep ==
  ASSUME BootInv, RoundInv, HandInv, ConsInv, FeedInv, CapInv, SyncInv, Types, [Next]_vars
  PROVE  BootInv'
<1> SUFFICES ASSUME Fresh' PROVE Boot'
  BY DEF BootInv
<1>0. Fresh /\ Boot /\ ~ bound
  BY FreshBefore DEF BootInv, Fresh
<1>1. main = "wait" /\ Early /\ proc \notin {"end", "crashed"}
  BY <1>0 DEF Fresh, CapInv, FeedInv
<1>2. CASE ProcNext
  BY <1>0, <1>2, BootProc
<1>3. CASE Feed
  <2>1. UNCHANGED <<proc, why, rpc, cpu, mon, lock, paused, staleness_samples, taken, task, hand>>
    BY <1>3 DEF Feed, ctlVars
  <2> QED
    BY <1>0, <2>1 DEF Boot, Active
<1>4. CASE TaskNext
  <2>1. UNCHANGED <<proc, why, rpc, cpu, mon, lock, paused, staleness_samples, taken, hand>>
    BY <1>4 DEF TaskNext, Generated, PutSample, CutShort, Interrupted, Fails, taskOther, ctlVars
  <2>2. PICK s \in Samples :
          Generated(s) \/ PutSample(s) \/ CutShort(s) \/ Interrupted(s) \/ Fails(s)
    BY <1>4 DEF TaskNext
  <2>3. task \in [Samples -> {"none", "gen", "cut", "put", "done", "err"}]
    BY DEF Types, CoreType
  <2>4. \A x \in Samples : task[x] # "none" => task'[x] # "none"
    BY <2>2, <2>3 DEF Generated, PutSample, CutShort, Interrupted, Fails
  <2>5. Active \subseteq Active'
    BY <2>4 DEF Active
  <2> QED
    BY <1>0, <2>1, <2>4, <2>5 DEF Boot
<1>5. CASE MonNext
  <2>0. /\ UNCHANGED <<why, rpc, staleness_samples, taken, task, hand>> /\ Active' = Active
    BY <1>5 DEF MonNext, MonWake, MonSet, MonLoop, monOther, coreVars, Active
  <2>1. CASE MonWake
    <3>1. mon = "sleep" /\ cpu = "none" /\ lock = <<>> /\ proc' = proc /\ paused' = paused
      BY <1>0, <2>1 DEF MonWake, MayRun, Boot, MonIn
    <3>2. mon' \in MonIn /\ cpu' = "mon" /\ lock' = <<"mon">>
      BY <2>1, <3>1 DEF MonWake, Request, MonIn
    <3> QED
      BY <1>0, <2>0, <3>1, <3>2 DEF Boot
  <2>2. CASE MonSet
    <3>1. mon = "setLock" /\ cpu = "mon" /\ lock = <<"mon">>
      BY <1>0, <2>2 DEF MonSet, Boot, MonIn
    <3>2. proc' = proc /\ paused' = FALSE
      BY <1>0, <2>2 DEF MonSet, Notify, Boot
    <3>3. mon' \in MonIn /\ cpu' = "mon" /\ lock' = <<"mon">>
      BY <2>2, <3>1 DEF MonSet, Request, MonIn
    <3> QED
      BY <1>0, <2>0, <3>1, <3>2, <3>3 DEF Boot
  <2>3. CASE MonLoop
    <3>1. mon = "loopLock" /\ cpu = "mon" /\ lock = <<"mon">> /\ proc' = proc /\ paused' = paused
      BY <1>0, <2>3 DEF MonLoop, Boot, MonIn
    <3>2. mon' \notin MonIn /\ cpu' = "none" /\ lock' = <<>>
      BY <2>3, <3>1 DEF MonLoop, Release, Yield, MonIn
    <3> QED
      BY <1>0, <2>0, <3>1, <3>2 DEF Boot
  <2> QED
    BY <1>5, <2>1, <2>2, <2>3 DEF MonNext
<1>6. CASE MainNext
  BY <1>1, <1>6 DEF MainNext, MainPut, MainStop
<1>7. CASE RpcMoves \/ UpdatePutVal \/ RollUpdate
  BY <1>0, <1>7 DEF RpcMoves, PauseCall, PauseLocked, PauseCancel, PauseGather, PauseDone,
              UpdateCall, UpdateSize, UpdateReply, ResumeCall, ResumeServers, ResumeDone,
              UpdatePutVal, RollUpdate, UpdateLocked, Boot, MayRun
<1>8. CASE SyncStart
  <2>1. tr = "wait" /\ Closed
    BY <1>8 DEF SyncStart, Closed
  <2>2. staleness_samples >= MaxRequired /\ proc \notin {"take", "get"}
    BY <1>1, <2>1 DEF RoundInv, Counted, Drained
  <2>3. cpu = "proc"
    BY <1>0, <2>2, MaxRequiredType DEF Boot
  <2>4. /\ rpc' = "pause"
        /\ UNCHANGED <<proc, why, cpu, mon, lock, paused, staleness_samples, taken, task, hand>>
    BY <1>8 DEF SyncStart, coreVars, ctlVars
  <2> QED
    BY <1>0, <2>3, <2>4 DEF Boot, Active
<1>9. CASE SyncVersion \/ SyncWeights
  BY <1>0, <1>9 DEF SyncVersion, SyncWeights, Boot
<1>10. CASE Collect \/ Train \/ LogStep \/ FinalLog \/ LastLog \/ UNCHANGED vars
  <2>1. UNCHANGED <<proc, why, rpc, cpu, mon, lock, paused, staleness_samples, taken, task, hand>>
    BY <1>10 DEF Collect, Train, LogStep, FinalLog, LastLog, Log, vars, rollVars, coreVars, ctlVars
  <2> QED
    BY <1>0, <2>1 DEF Boot, Active
<1> QED
  BY <1>2, <1>3, <1>4, <1>5, <1>6, <1>7, <1>8, <1>9, <1>10
  DEF Next, RollNext, RpcMoves, TrainerNext, JobEnd

LEMMA BootHolds == ASSUME StaleNum = 0 PROVE Spec => []BootInv
<1>1. Init => BootInv
  <2> SUFFICES ASSUME Init PROVE Boot
    BY DEF BootInv
  <2>1. /\ rpc = "none" /\ cpu = "none" /\ proc = "top" /\ staleness_samples = 0 /\ lock = <<>>
        /\ mon = "sleep" /\ paused = FALSE /\ taken = 0
    BY DEF Init, RollInit
  <2> QED
    BY <2>1 DEF Boot, ProcIn, MonIn, Samples
<1>2. BootInv /\ RoundInv /\ HandInv /\ ConsInv /\ FeedInv /\ CapInv /\ SyncInv /\ Types
      /\ [Next]_vars => BootInv'
  BY BootStep
<1> QED
  BY <1>1, <1>2, RoundHolds, ConsHolds, FeedHolds, CapHolds, SyncHolds, TypesHold, PTL DEF Spec

LEMMA EndStep ==
  ASSUME EndInv, BootInv, Types, HandInv, [Next]_vars
  PROVE  EndInv'
<1>0. /\ task \in [Samples -> {"none", "gen", "cut", "put", "done", "err"}]
      /\ fails \in Nat /\ taken \in 0 .. DONE /\ fed \in 0 .. DONE /\ DONE \in Nat
  BY DEF Types, CoreType, DONE
<1> USE DEF EndInv
<1>1. CASE ProcCollect
  <2>1. /\ proc = "wait" /\ UNCHANGED <<fails, why, hand, taken>>
        /\ task' = [s \in Samples |-> IF s \in Finished THEN "none" ELSE task[s]]
        /\ IF \E s \in Samples : task[s] = "err" THEN proc' = "crashed" ELSE proc' = "drain"
    BY <1>1 DEF ProcCollect, procOther
  <2> QED
    BY <2>1
<1>2. CASE ProcDrainLocked
  <2>1. /\ proc = "drainLock" /\ UNCHANGED <<fails, why, hand, taken, task>>
        /\ proc' \in {"wait", "drain", "crashed"}
    BY <1>2 DEF ProcDrainLocked, procOther
  <2>2. proc' # "crashed"
    BY <1>2 DEF ProcDrainLocked, BootInv, Boot, Fresh
  <2> QED
    BY <2>1, <2>2
<1>3. CASE ProcSubmit
  <2>1. /\ proc = "submitLock" /\ UNCHANGED <<fails, why, taken>> /\ proc' \in {"subWait", "top"}
        /\ task' = task \/ task' = [task EXCEPT ![hand] = "gen"]
    BY <1>3 DEF ProcSubmit, procOther
  <2> QED
    BY <1>0, <2>1
<1>4. CASE ProcTakePending
  <2>1. /\ proc \in {"take", "get"} /\ UNCHANGED <<fails, task>> /\ hand = 0
        /\ \/ /\ taken' = taken + 1 /\ hand' = taken + 1 /\ proc' = "drain"
              /\ why' = IF hand' = DONE THEN "done" ELSE "cap"
           \/ proc' = "get" /\ UNCHANGED <<taken, hand>>
    BY <1>4 DEF ProcTakePending, procOther, HandInv
  <2> QED
    BY <1>0, <2>1
<1>5. CASE ProcDrain
  <2>1. /\ proc = "drain" /\ UNCHANGED <<fails, task, why, hand, taken>> /\ Active' = Active
        /\ proc' \in {"drainLock", "idleLock", "submitLock", "end"}
        /\ proc' = "end" => why = "done" /\ Active = {}
    BY <1>5 DEF ProcDrain, procOther, DrainMore, Active
  <2> QED
    BY <2>1
<1>6. CASE ProcTop \/ ProcSetPaused \/ ProcTakeCancelled \/ ProcIdle \/ ProcWoken
  <2>1. /\ UNCHANGED <<fails, task>>
        /\ proc' \notin {"end", "crashed"} /\ (proc' \in {"drain", "drainLock", "wait"} => why' # "done")
    BY <1>6 DEF ProcTop, ProcSetPaused, ProcTakeCancelled, ProcIdle, ProcWoken, procOther
  <2> QED
    BY <2>1
<1>7. CASE TaskNext
  <2>1. PICK s \in Samples :
          Generated(s) \/ PutSample(s) \/ CutShort(s) \/ Interrupted(s) \/ Fails(s)
    BY <1>7 DEF TaskNext
  <2>2. UNCHANGED <<proc, why, hand, taken>> /\ s \in Active
    BY <2>1 DEF Generated, PutSample, CutShort, Interrupted, Fails, taskOther, Active
  <2>3. \/ fails' = fails /\ \A x \in Samples : task'[x] = "err" => task[x] = "err"
        \/ fails' = fails + 1
    BY <1>0, <2>1 DEF Generated, PutSample, CutShort, Interrupted, Fails
  <2> QED
    BY <1>0, <2>2, <2>3
<1>8. CASE PauseGather
  <2>1. UNCHANGED <<proc, why, hand, taken, fails>> /\ task' = [s \in Samples |-> "none"]
    BY <1>8 DEF PauseGather, rpcOther
  <2> QED
    BY <2>1 DEF Active
<1>9. CASE MonSet \/ ResumeDone
  <2>1. UNCHANGED <<why, hand, taken, fails, task>> /\ Active' = Active
    BY <1>9 DEF MonSet, ResumeDone, rpcOther, monOther, coreVars, Active
  <2>2. proc' = proc \/ proc' \in {"idleWoken", "subWoken"}
    BY <1>9 DEF MonSet, ResumeDone, Notify
  <2> QED
    BY <2>1, <2>2
<1>10. CASE \/ Feed \/ MonWake \/ MonLoop \/ MainNext \/ PauseCall \/ PauseLocked \/ PauseCancel
            \/ PauseDone \/ UpdateCall \/ UpdateSize \/ UpdateReply \/ UpdatePutVal \/ RollUpdate
            \/ ResumeCall \/ ResumeServers \/ TrainerNext \/ UNCHANGED vars
  <2>1. UNCHANGED <<proc, why, hand, taken, fails, task>>
    BY <1>10 DEF Feed, MonWake, MonLoop, MainNext, MainPut, MainStop, PauseCall, PauseLocked,
         PauseCancel, PauseDone, UpdateCall, UpdateSize, UpdateReply, UpdatePutVal, RollUpdate,
         UpdateLocked, ResumeCall, ResumeServers, rpcOther, monOther, mainOther, coreVars,
         TrainerNext, Collect, Train, SyncStart, SyncVersion, SyncWeights, LogStep, FinalLog,
         LastLog, Log, vars, rollVars
  <2> QED
    BY <2>1 DEF Active
<1> QED
  BY <1>1, <1>2, <1>3, <1>4, <1>5, <1>6, <1>7, <1>8, <1>9, <1>10
  DEF Next, RollNext, ProcNext, MonNext, JobEnd

LEMMA EndHolds == ASSUME StaleNum = 0 PROVE Spec => []EndInv
<1>1. Init => EndInv
  BY DEF Init, RollInit, EndInv
<1>2. EndInv /\ BootInv /\ Types /\ HandInv /\ ConsInv /\ [Next]_vars => EndInv'
  BY EndStep
<1> QED
  BY <1>1, <1>2, BootHolds, TypesHold, ConsHolds, PTL DEF Spec

\* Apart from the monitor, a step adds one coroutine to the lock's queue,
\* lets the first go or leaves it.
LEMMA LockPlain ==
  ASSUME [Next]_vars, ~ MonNext
  PROVE  /\ mon' = mon
         /\ lock' = lock \/ lock' = Tail(lock) \/ \E c \in {"proc", "main", "rpc"} : lock' = Append(lock, c)
<1>1. CASE ProcNext
  BY <1>1 DEF ProcNext, ProcTop, ProcSetPaused, ProcTakeCancelled, ProcTakePending, ProcDrain,
              ProcDrainLocked, ProcCollect, ProcIdle, ProcSubmit, ProcWoken, procOther, Request,
              Release
<1>2. CASE Feed \/ TaskNext \/ MainNext
  BY <1>2 DEF Feed, TaskNext, Generated, PutSample, CutShort, Interrupted, Fails, taskOther,
              MainNext, MainPut, MainStop, mainOther, Request, Release
<1>3. CASE RpcMoves \/ UpdatePutVal \/ RollUpdate
  BY <1>3 DEF RpcMoves, PauseCall, PauseLocked, PauseCancel, PauseGather, PauseDone,
              UpdateCall, UpdateSize, UpdateReply, ResumeCall, ResumeServers, ResumeDone,
              UpdatePutVal, RollUpdate, UpdateLocked, rpcOther, Request, Release
<1>4. CASE TrainerNext \/ UNCHANGED vars
  BY <1>4 DEF TrainerNext, Collect, Train, SyncStart, SyncVersion, SyncWeights, LogStep,
              FinalLog, LastLog, Log, vars, rollVars
<1> QED
  BY <1>1, <1>2, <1>3, <1>4 DEF Next, RollNext, RpcMoves, JobEnd

\* How a call of the synchronizer comes to hold the rollouter.
LEMMA HeldBefore ==
  ASSUME [Next]_vars
  PROVE  /\ rpc' \in Held => rpc \in Held \/ PauseLocked
         /\ rpc' = "pauseLock" => (rpc = "pauseLock" /\ ~ PauseCall) \/ PauseCall
         /\ rpc' \in Held => /\ monitor_trigger' = monitor_trigger \/ PauseDone
                             /\ paused => paused' \/ MonSet
         /\ rpc' \in Held \ {"cancel", "gather", "kv"} =>
              PauseDone \/ rpc \in Held \ {"cancel", "gather", "kv"}
<1> USE DEF Held
<1>1. CASE ProcNext
  BY <1>1 DEF ProcNext, ProcTop, ProcSetPaused, ProcTakeCancelled, ProcTakePending, ProcDrain,
              ProcDrainLocked, ProcCollect, ProcIdle, ProcSubmit, ProcWoken, procOther, PauseCall
<1>2. CASE Feed \/ TaskNext \/ MainNext \/ MonNext
  <2>1. UNCHANGED <<rpc, monitor_trigger>>
    BY <1>2 DEF Feed, TaskNext, Generated, PutSample, CutShort, Interrupted, Fails, taskOther,
                MainNext, MainPut, MainStop, mainOther, MonNext, MonWake, MonSet, MonLoop,
                monOther, ctlVars
  <2>2. paused' = paused \/ MonSet
    BY <1>2 DEF Feed, TaskNext, Generated, PutSample, CutShort, Interrupted, Fails, taskOther,
                MainNext, MainPut, MainStop, mainOther, MonNext, MonWake, MonLoop, ctlVars
  <2>3. ~ PauseCall
    BY <2>1 DEF PauseCall
  <2> QED
    BY <2>1, <2>2, <2>3
<1>3. CASE RpcMoves \/ UpdatePutVal \/ RollUpdate
  BY <1>3 DEF RpcMoves, PauseCall, PauseLocked, PauseCancel, PauseGather, PauseDone,
              UpdateCall, UpdateSize, UpdateReply, ResumeCall, ResumeServers, ResumeDone,
              UpdatePutVal, RollUpdate, UpdateLocked, rpcOther
<1>4. CASE TrainerNext \/ UNCHANGED vars
  BY <1>4 DEF TrainerNext, Collect, Train, SyncStart, SyncVersion, SyncWeights, LogStep,
              FinalLog, LastLog, Log, vars, rollVars, ctlVars, PauseCall
<1> QED
  BY <1>1, <1>2, <1>3, <1>4 DEF Next, RollNext, RpcMoves, JobEnd

\* While a round is closed and until the monitor is triggered again it does
\* not come to undo a pause.
LEMMA MonStays ==
  ASSUME [Next]_vars, RoundInv, Early, Closed \/ ~ monitor_trigger, mon' = "setLock"
  PROVE  mon = "setLock" /\ ~ MonNext
<1>1. CASE MonWake
  <2>1. monitor_trigger /\ ~ ShouldPause
    BY <1>1 DEF MonWake
  <2>2. staleness_samples >= MaxRequired
    BY <2>1 DEF RoundInv, Counted, Drained
  <2> QED
    BY <2>1, <2>2 DEF ShouldPause
<1>2. CASE MonSet \/ MonLoop
  BY <1>2 DEF MonSet, MonLoop
<1>3. CASE ~ MonNext
  BY <1>3, LockPlain
<1> QED
  BY <1>1, <1>2, <1>3 DEF MonNext

LEMMA MonFirstTail ==
  ASSUME NEW l \in Seq(Coroutines), l # <<>>, MonFirst(l)
  PROVE  MonFirst(Tail(l))
<1>1. /\ Len(l) \in Nat \ {0} /\ Len(Tail(l)) = Len(l) - 1
      /\ \A i \in 1 .. Len(Tail(l)) : Tail(l)[i] = l[i + 1]
  OBVIOUS
<1> SUFFICES ASSUME NEW i \in 1 .. Len(Tail(l)), NEW j \in 1 .. Len(Tail(l)),
                    Tail(l)[i] = "mon", Tail(l)[j] = "rpc"
             PROVE  i < j
  BY DEF MonFirst
<1>2. i + 1 \in 1 .. Len(l) /\ j + 1 \in 1 .. Len(l) /\ l[i + 1] = "mon" /\ l[j + 1] = "rpc"
  BY <1>1
<1>3. i + 1 < j + 1
  BY <1>2 DEF MonFirst
<1> QED
  BY <1>3

LEMMA MonFirstStep ==
  ASSUME PauseInv, RoundInv, SyncInv, LockInv, LockInv', [Next]_vars,
         Early', rpc' = "pauseLock", mon' = "setLock"
  PROVE  MonFirst(lock')
<1>1. Early
  BY EarlyBefore
<1>2. Closed
  <2>1. tr = "sync"
    BY HeldBefore DEF PauseCall, SyncInv, Before
  <2> QED
    BY <2>1 DEF Closed
<1>3. mon = "setLock" /\ ~ MonNext
  BY <1>1, <1>2, MonStays
<1>4. lock \in Seq(Coroutines) /\ Len(lock) \in Nat /\ lock # <<>>
  <2>1. "mon" \in Waiters
    BY <1>3 DEF Waiters, Coroutines, MonIn
  <2> QED
    BY <2>1 DEF LockInv, Fifo
<1>5. CASE PauseCall
  <2>1. lock' = Append(lock, "rpc") /\ rpc = "pause"
    BY <1>5 DEF PauseCall, Request
  <2>2. "rpc" \notin Waiters
    BY <2>1 DEF Waiters, RpcIn, RpcOwns
  <2>3. \A j \in 1 .. Len(lock) : lock[j] # "rpc"
    BY <2>2 DEF LockInv, Fifo
  <2>4. /\ Len(lock') = Len(lock) + 1 /\ lock'[Len(lock) + 1] = "rpc"
        /\ \A i \in 1 .. Len(lock) : lock'[i] = lock[i]
    BY <1>4, <2>1
  <2> QED
    BY <1>4, <2>3, <2>4 DEF MonFirst
<1>6. CASE ~ PauseCall
  <2>1. rpc = "pauseLock" /\ MonFirst(lock)
    BY <1>1, <1>3, <1>6, HeldBefore DEF PauseInv
  <2>2. CASE lock' = lock
    BY <2>1, <2>2
  <2>3. CASE lock' = Tail(lock)
    BY <1>4, <2>1, <2>3, MonFirstTail
  <2>4. ASSUME NEW c \in {"proc", "main", "rpc"}, lock' = Append(lock, c) PROVE MonFirst(lock')
    <3>1. /\ Len(lock') = Len(lock) + 1 /\ lock'[Len(lock) + 1] = c
          /\ \A i \in 1 .. Len(lock) : lock'[i] = lock[i]
      BY <1>4, <2>4
    <3> QED
      BY <1>4, <2>1, <3>1 DEF MonFirst
  <2> QED
    BY <1>3, <2>2, <2>3, <2>4, LockPlain
<1> QED
  BY <1>5, <1>6

LEMMA StoppedStep ==
  ASSUME PauseInv, RoundInv, SyncInv, LockInv, HandInv, Types, [Next]_vars, Early', rpc' \in Held
  PROVE  Stopped'
<1>1. Early
  BY EarlyBefore
<1>2. rpc \in {"pauseLock", "cancel", "gather", "kv"} => Closed
  BY DEF SyncInv, Closed, Before
<1>3. CASE PauseLocked
  <2>1. /\ rpc = "pauseLock" /\ rpc' \in {"cancel", "gather"} /\ paused' = TRUE
        /\ Head(lock) = "rpc" /\ lock # <<>>
        /\ UNCHANGED <<mon, proc, hand, task, cancel_queue, queue>>
    BY <1>3 DEF PauseLocked, Holds, rpcOther, msgVars
  <2>2. Flying = {} /\ proc \notin {"take", "get"}
    BY <1>1, <1>2, <2>1 DEF RoundInv, Counted, Drained
  <2>3. Flying' = Flying
    BY <2>1 DEF Flying, Live, Queued, SetOf
  <2>4. mon # "setLock"
    <3> SUFFICES ASSUME mon = "setLock" PROVE FALSE
      OBVIOUS
    <3>1. MonFirst(lock)
      BY <1>1, <2>1 DEF PauseInv
    <3>2. "mon" \in Waiters
      BY DEF Waiters, Coroutines, MonIn
    <3>3. PICK i \in 1 .. Len(lock) : lock[i] = "mon"
      BY <3>2 DEF LockInv, Fifo
    <3>4. 1 \in 1 .. Len(lock) /\ lock[1] = "rpc"
      BY <2>1 DEF LockInv, Fifo
    <3>5. i < 1
      BY <3>1, <3>3, <3>4 DEF MonFirst
    <3> QED
      BY <3>3, <3>5
  <2> QED
    BY <2>1, <2>2, <2>3, <2>4 DEF Stopped
<1>4. CASE ~ PauseLocked
  <2>1. rpc \in Held /\ Stopped
    BY <1>1, <1>4, HeldBefore DEF PauseInv
  <2>2. Closed \/ ~ monitor_trigger
    BY <1>2, <2>1 DEF Stopped
  <2>3. mon' # "setLock"
    BY <1>1, <2>1, <2>2, MonStays DEF Stopped
  <2>4. paused'
    BY <2>1, HeldBefore DEF Stopped, MonSet
  <2>5. Flying' = {}
    <3>1. ~ ProcTakePending
      BY <2>1 DEF ProcTakePending, Stopped
    <3> QED
      BY <2>1, <3>1, FlyMoves DEF FlyMove, Stopped
  <2>6. proc' \notin {"take", "get"}
    <3>1. ~ (ProcTop /\ proc' \in {"take", "get"})
      BY <2>1 DEF ProcTop, Stopped
    <3> QED
      BY <2>1, <3>1, CountMoves DEF CountMove, Stopped
  <2>7. rpc' \notin {"cancel", "gather", "kv"} => ~ monitor_trigger'
    BY <2>1, HeldBefore DEF Stopped, PauseDone
  <2> QED
    BY <2>3, <2>4, <2>5, <2>6, <2>7 DEF Stopped
<1> QED
  BY <1>3, <1>4

LEMMA PauseHolds == ASSUME StaleNum = 0 PROVE Spec => []PauseInv
<1>1. Init => PauseInv
  BY DEF Init, RollInit, PauseInv, Held
<1>2. PauseInv /\ RoundInv /\ SyncInv /\ LockInv /\ LockInv' /\ HandInv /\ ConsInv /\ Types
      /\ [Next]_vars => PauseInv'
  <2> SUFFICES ASSUME PauseInv, RoundInv, SyncInv, LockInv, LockInv', HandInv, Types, [Next]_vars
               PROVE  PauseInv'
    OBVIOUS
  <2>1. Early' /\ rpc' = "pauseLock" /\ mon' = "setLock" => MonFirst(lock')
    BY MonFirstStep
  <2>2. Early' /\ rpc' \in Held => Stopped'
    BY StoppedStep
  <2> QED
    BY <2>1, <2>2 DEF PauseInv, Held, MonFirst
<1> QED
  BY <1>1, <1>2, RoundHolds, SyncHolds, LockHolds, ConsHolds, TypesHold, PTL DEF Spec

LEMMA ServerHolds == Spec => []ServerInv
<1>1. Init => ServerInv
  BY DEF Init, RollInit, ServerInv
<1>2. ServerInv /\ [Next]_vars => ServerInv'
  <2> SUFFICES ASSUME ServerInv, [Next]_vars PROVE ServerInv'
    OBVIOUS
  <2> USE DEF ServerInv, Held
  <2>1. CASE Feed \/ ProcNext \/ TaskNext \/ MonNext \/ MainNext
    <3>1. UNCHANGED <<rpc, server_paused>>
      <4>1. UNCHANGED rpc
        BY <2>1, LocalSteps DEF syncVars
      <4>2. CASE ProcNext
        BY <4>2 DEF ProcNext, ProcTop, ProcSetPaused, ProcTakeCancelled, ProcTakePending,
                    ProcDrain, ProcDrainLocked, ProcCollect, ProcIdle, ProcSubmit, ProcWoken,
                    procOther
      <4>3. CASE Feed \/ TaskNext \/ MonNext \/ MainNext
        BY <4>3 DEF Feed, TaskNext, Generated, PutSample, CutShort, Interrupted, Fails, taskOther,
                    MonNext, MonWake, MonSet, MonLoop, monOther, MainNext, MainPut, MainStop,
                    mainOther, ctlVars
      <4> QED
        BY <2>1, <4>1, <4>2, <4>3
    <3> QED
      BY <3>1
  <2>2. CASE RpcMoves \/ UpdatePutVal \/ RollUpdate
    BY <2>2 DEF RpcMoves, PauseCall, PauseLocked, PauseCancel, PauseGather, PauseDone,
                UpdateCall, UpdateSize, UpdateReply, ResumeCall, ResumeServers, ResumeDone,
                UpdatePutVal, RollUpdate, UpdateLocked
  <2>3. CASE TrainerNext \/ UNCHANGED vars
    BY <2>3 DEF TrainerNext, Collect, Train, SyncStart, SyncVersion, SyncWeights, LogStep,
                FinalLog, LastLog, Log, vars, rollVars, ctlVars
  <2> QED
    BY <2>1, <2>2, <2>3 DEF Next, RollNext, RpcMoves, JobEnd
<1> QED
  BY <1>1, <1>2, PTL DEF Spec

\* Only a paused server and an interrupted task lengthen cancel_queue.
LEMMA CancelMoves ==
  ASSUME Types, [Next]_vars
  PROVE  \/ Len(cancel_queue) \in Nat /\ Len(cancel_queue') <= Len(cancel_queue)
         \/ \E s \in Samples : Interrupted(s)
<1> DEFINE Shorter == Len(cancel_queue) \in Nat /\ Len(cancel_queue') <= Len(cancel_queue)
<1>0. cancel_queue \in Seq(Samples) /\ Len(cancel_queue) \in Nat
  BY DEF Types, CoreType
<1>1. CASE ProcNext
  <2>1. cancel_queue' = cancel_queue \/ (cancel_queue # <<>> /\ cancel_queue' = Tail(cancel_queue))
    BY <1>1 DEF ProcNext, ProcTop, ProcSetPaused, ProcTakeCancelled, ProcTakePending, ProcDrain,
                ProcDrainLocked, ProcCollect, ProcIdle, ProcSubmit, ProcWoken
  <2> QED
    BY <1>0, <2>1, TailAt
<1>2. CASE Feed \/ MonNext \/ MainNext
  <2>1. cancel_queue' = cancel_queue
    BY <1>2 DEF Feed, MonNext, MonWake, MonSet, MonLoop, monOther, MainNext, MainPut, MainStop,
                mainOther, coreVars
  <2> QED
    BY <1>0, <2>1
<1>3. CASE TaskNext
  <2>1. cancel_queue' = cancel_queue \/ \E s \in Samples : Interrupted(s)
    BY <1>3 DEF TaskNext, Generated, PutSample, CutShort, Fails
  <2> QED
    BY <1>0, <2>1
<1>4. CASE RpcMoves \/ UpdatePutVal \/ RollUpdate
  <2>1. cancel_queue' = cancel_queue
    BY <1>4 DEF RpcMoves, PauseCall, PauseLocked, PauseCancel, PauseGather, PauseDone,
                UpdateCall, UpdateSize, UpdateReply, ResumeCall, ResumeServers, ResumeDone,
                UpdatePutVal, RollUpdate, UpdateLocked, rpcOther
  <2> QED
    BY <1>0, <2>1
<1>5. CASE TrainerNext \/ UNCHANGED vars
  <2>1. cancel_queue' = cancel_queue
    BY <1>5 DEF TrainerNext, Collect, Train, SyncStart, SyncVersion, SyncWeights, LogStep,
                FinalLog, LastLog, Log, vars, rollVars, coreVars
  <2> QED
    BY <1>0, <2>1
<1> QED
  BY <1>1, <1>2, <1>3, <1>4, <1>5 DEF Next, RollNext, RpcMoves, JobEnd

\* Only paused servers cut a sample short.
LEMMA CutMoves ==
  ASSUME Types, [Next]_vars, NEW s \in Samples, task'[s] = "cut", task[s] # "cut"
  PROVE  CutShort(s)
<1>0. task \in [Samples -> {"none", "gen", "cut", "put", "done", "err"}]
  BY DEF Types, CoreType
<1>1. CASE ProcNext
  BY <1>0, <1>1 DEF ProcNext, ProcTop, ProcSetPaused, ProcTakeCancelled, ProcTakePending, ProcDrain,
                    ProcDrainLocked, ProcCollect, ProcIdle, ProcSubmit, ProcWoken
<1>2. CASE Feed \/ MonNext \/ MainNext
  BY <1>2 DEF Feed, MonNext, MonWake, MonSet, MonLoop, monOther, MainNext, MainPut, MainStop,
              mainOther, coreVars
<1>3. CASE TaskNext
  <2>1. PICK t \in Samples : Generated(t) \/ PutSample(t) \/ CutShort(t) \/ Interrupted(t) \/ Fails(t)
    BY <1>3 DEF TaskNext
  <2>2. CASE ~ CutShort(t)
    BY <1>0, <2>1, <2>2 DEF Generated, PutSample, Interrupted, Fails
  <2>3. CASE CutShort(t)
    <3>1. t = s
      BY <1>0, <2>3 DEF CutShort
    <3> QED
      BY <2>3, <3>1
  <2> QED
    BY <2>2, <2>3
<1>4. CASE RpcMoves \/ UpdatePutVal \/ RollUpdate
  BY <1>0, <1>4 DEF RpcMoves, PauseCall, PauseLocked, PauseCancel, PauseGather, PauseDone,
              UpdateCall, UpdateSize, UpdateReply, ResumeCall, ResumeServers, ResumeDone,
              UpdatePutVal, RollUpdate, UpdateLocked, rpcOther
<1>5. CASE TrainerNext \/ UNCHANGED vars
  BY <1>5 DEF TrainerNext, Collect, Train, SyncStart, SyncVersion, SyncWeights, LogStep,
              FinalLog, LastLog, Log, vars, rollVars, coreVars
<1> QED
  BY <1>1, <1>2, <1>3, <1>4, <1>5 DEF Next, RollNext, RpcMoves, JobEnd

\* How the processor comes to its end.
LEMMA EndBefore ==
  ASSUME [Next]_vars, proc' = "end"
  PROVE  proc = "end" \/ (proc = "drain" /\ UNCHANGED <<cancel_queue, main>>)
<1>1. CASE ProcNext
  BY <1>1 DEF ProcNext, ProcTop, ProcSetPaused, ProcTakeCancelled, ProcTakePending, ProcDrain,
              ProcDrainLocked, ProcCollect, ProcIdle, ProcSubmit, ProcWoken, procOther
<1>2. CASE Feed \/ TaskNext \/ MonNext \/ MainNext
  BY <1>2 DEF Feed, TaskNext, Generated, PutSample, CutShort, Interrupted, Fails, taskOther,
              MonNext, MonWake, MonSet, MonLoop, MainNext, MainPut, MainStop, mainOther, Notify
<1>3. CASE RpcMoves \/ UpdatePutVal \/ RollUpdate
  BY <1>3 DEF RpcMoves, PauseCall, PauseLocked, PauseCancel, PauseGather, PauseDone,
              UpdateCall, UpdateSize, UpdateReply, ResumeCall, ResumeServers, ResumeDone,
              UpdatePutVal, RollUpdate, UpdateLocked, Notify
<1>4. CASE TrainerNext \/ UNCHANGED vars
  BY <1>4 DEF TrainerNext, Collect, Train, SyncStart, SyncVersion, SyncWeights, LogStep,
              FinalLog, LastLog, Log, vars, rollVars
<1> QED
  BY <1>1, <1>2, <1>3, <1>4 DEF Next, RollNext, RpcMoves, JobEnd

LEMMA CancelStep ==
  ASSUME CancelInv, ServerInv, PauseInv, EndInv, FeedInv, CapInv, Types, Types', [Next]_vars
  PROVE  CancelInv'
<1>0. /\ cancel_queue' \in Seq(Samples)
      /\ Len(cancel_queue') = 0 => cancel_queue' = <<>>
      /\ Len(cancel_queue') \in Nat
  BY DEF Types, CoreType
<1>1. ASSUME Early, NEW s \in Samples, task'[s] = "cut" PROVE FALSE
  <2>1. CutShort(s)
    BY <1>1, CutMoves DEF CancelInv
  <2>2. rpc \in Held /\ task[s] = "gen"
    BY <2>1 DEF CutShort, ServerInv
  <2>3. s \in Flying
    BY <2>2 DEF Flying, Live
  <2> QED
    BY <1>1, <2>2, <2>3 DEF PauseInv, Stopped
<1>2. ASSUME cancel_queue = <<>>, \A s \in Samples : task[s] # "cut" PROVE cancel_queue' = <<>>
  <2>1. ~ \E s \in Samples : Interrupted(s)
    BY <1>2 DEF Interrupted
  <2>2. Len(cancel_queue) = 0
    BY <1>2
  <2>3. Len(cancel_queue') <= 0
    BY <2>1, <2>2, CancelMoves
  <2> QED
    BY <1>0, <2>3
<1>3. Early' => cancel_queue' = <<>> /\ \A s \in Samples : task'[s] # "cut"
  BY <1>1, <1>2, EarlyBefore DEF CancelInv
<1>4. ASSUME proc' = "end" PROVE cancel_queue' = <<>>
  <2>1. CASE proc = "end"
    <3>1. \A s \in Samples : task[s] # "cut"
      BY <2>1 DEF EndInv, Active
    <3> QED
      BY <1>2, <2>1, <3>1 DEF CancelInv
  <2>2. CASE proc = "drain" /\ UNCHANGED <<cancel_queue, main>>
    <3>1. main = "wait"
      BY <2>2 DEF CapInv
    <3> QED
      BY <2>2, <3>1 DEF CancelInv, FeedInv
  <2> QED
    BY <1>4, <2>1, <2>2, EndBefore
<1> QED
  BY <1>3, <1>4 DEF CancelInv

LEMMA CancelHolds == ASSUME StaleNum = 0 PROVE Spec => []CancelInv
<1>1. Init => CancelInv
  BY DEF Init, RollInit, CancelInv
<1>2. CancelInv /\ ServerInv /\ PauseInv /\ EndInv /\ FeedInv /\ CapInv /\ Types /\ Types'
      /\ [Next]_vars => CancelInv'
  BY CancelStep
<1> QED
  BY <1>1, <1>2, ServerHolds, PauseHolds, EndHolds, FeedHolds, CapHolds, TypesHold, PTL DEF Spec

\* The steps that matter for the queue's end.
LEMMA LastMoves ==
  ASSUME Types, [Next]_vars
  PROVE  /\ fails' = 0 => fails = 0
         /\ \/ \E s \in Samples : PutSample(s) /\ UNCHANGED trVars
            \/ MainPut /\ UNCHANGED trVars
            \/ Collect
            \/ /\ UNCHANGED <<queue, dropped_samples>>
               /\ main' # "wait" => main # "wait"
               /\ Early' = Early
<1> DEFINE Rest == /\ UNCHANGED <<queue, dropped_samples>>
                   /\ main' # "wait" => main # "wait"
                   /\ Early' = Early
<1>0. fails \in Nat
  BY DEF Types, CoreType
<1>1. CASE ProcNext /\ UNCHANGED trVars
  <2>1. UNCHANGED <<fails, queue, dropped_samples, main>>
    BY <1>1 DEF ProcNext, ProcTop, ProcSetPaused, ProcTakeCancelled, ProcTakePending, ProcDrain,
                ProcDrainLocked, ProcCollect, ProcIdle, ProcSubmit, ProcWoken, procOther, msgVars
  <2> QED
    BY <1>1, <2>1 DEF Early, trVars
<1>2. CASE (Feed \/ MonNext \/ MainStop) /\ UNCHANGED trVars
  <2>1. UNCHANGED <<fails, queue, dropped_samples>> /\ (main' # "wait" => main # "wait")
    BY <1>2 DEF Feed, MonNext, MonWake, MonSet, MonLoop, monOther, MainStop, mainOther, coreVars,
                msgVars
  <2> QED
    BY <1>2, <2>1 DEF Early, trVars
<1>3. CASE MainPut /\ UNCHANGED trVars
  BY <1>3 DEF MainPut, mainOther, coreVars
<1>4. CASE TaskNext /\ UNCHANGED trVars
  <2>1. fails' = 0 => fails = 0
    BY <1>0, <1>4 DEF TaskNext, Generated, PutSample, CutShort, Interrupted, Fails
  <2>2. (\E s \in Samples : PutSample(s)) \/ UNCHANGED <<queue, dropped_samples, main>>
    BY <1>4 DEF TaskNext, Generated, CutShort, Interrupted, Fails, taskOther, msgVars
  <2> QED
    BY <1>4, <2>1, <2>2 DEF Early, trVars
<1>5. CASE (RpcMoves \/ UpdatePutVal \/ UpdateLocked(weights)) /\ UNCHANGED trVars
  <2>1. UNCHANGED <<fails, queue, dropped_samples, main>>
    BY <1>5 DEF RpcMoves, PauseCall, PauseLocked, PauseCancel, PauseGather, PauseDone,
                UpdateCall, UpdateSize, UpdateReply, ResumeCall, ResumeServers, ResumeDone,
                UpdatePutVal, put_validate, UpdateLocked, rpcOther, msgVars
  <2> QED
    BY <1>5, <2>1 DEF Early, trVars
<1>6. CASE TrainerNext
  <2>1. UNCHANGED <<fails, main>>
    BY <1>6 DEF TrainerNext, Collect, Train, SyncStart, SyncVersion, SyncWeights, LogStep,
                FinalLog, LastLog, Log, rollVars, coreVars
  <2>2. Collect \/ UNCHANGED <<queue, dropped_samples>>
    BY <1>6 DEF TrainerNext, Train, SyncStart, SyncVersion, SyncWeights, LogStep,
                FinalLog, LastLog, Log, msgVars, get_validate, update_param_version
  <2>3. Collect \/ Early' = Early
    BY <1>6 DEF TrainerNext, Train, SyncStart, SyncVersion, SyncWeights, LogStep,
                FinalLog, LastLog, Log, Early, trVars
  <2> QED
    BY <2>1, <2>2, <2>3
<1>7. CASE UNCHANGED vars
  BY <1>7 DEF vars, msgVars, rollVars, coreVars, trVars, Early
<1> QED
  BY <1>1, <1>2, <1>3, <1>4, <1>5, <1>6, <1>7 DEF Next, RollNext, RpcMoves, MainNext, RollUpdate, JobEnd

\* Without the finish signal the queue holds each of its samples once.
LEMMA QueueCard ==
  ASSUME Types, ConsInv, \A m \in SetOf(queue) : m # None
  PROVE  /\ Queued \subseteq Flying /\ Len(queue) \in Nat
         /\ IsFiniteSet(Queued) /\ Cardinality(Queued) = Len(queue)
<1> DEFINE q == Ids(queue)
<1>1. queue \in Seq(Msg) /\ q \in Seq(Nat) /\ Len(q) = Len(queue) /\ Len(queue) \in Nat
  BY IdsOfQueue DEF Types, MQTypeOK
<1>2. ASSUME NEW i \in 1 .. Len(queue)
      PROVE  q[i] = queue[i].id /\ q[i] \in Samples
  <2>1. queue[i] \in Msg /\ queue[i] \in SetOf(queue)
    BY <1>1, ElementType DEF SetOf
  <2>2. queue[i].id \in Samples
    BY <2>1 DEF Msg
  <2> QED
    BY <2>2 DEF Ids
<1>3. SetOf(q) = Queued /\ Queued \subseteq Samples
  BY <1>1, <1>2 DEF SetOf, Queued
<1>4. ASSUME NEW s \in Samples PROVE Times(s, q) <= 1
  <2>1. PlacesTerms(s) /\ Places(s) <= 1
    BY PlacesNow DEF ConsInv
  <2> QED
    BY <2>1 DEF PlacesTerms
<1>5. IsFiniteSet(SetOf(q)) /\ Cardinality(SetOf(q)) = Len(q)
  <2> HIDE DEF q
  <2>1. \A i \in 1 .. Len(q) : Times(q[i], q) <= 1
    BY <1>1, <1>2, <1>4
  <2> QED
    BY <1>1, <2>1, OnceCard
<1> QED
  BY <1>1, <1>3, <1>5 DEF Flying

\* While the processor runs there is room for the sample of every task.
LEMMA RoomForSample ==
  ASSUME StaleNum = 0, RoundInv, SyncInv, ConsInv, Types, Early,
         \A m \in SetOf(queue) : m # None, NEW s \in Live
  PROVE  Len(queue) < MaxRequired
<1>1. /\ Queued \subseteq Flying /\ Len(queue) \in Nat
      /\ IsFiniteSet(Queued) /\ Cardinality(Queued) = Len(queue)
  BY QueueCard
<1>2. s \notin Queued
  <2>1. s \in Samples
    BY DEF Live
  <2>2. PlacesTerms(s) /\ Places(s) <= 1
    BY <2>1, PlacesNow DEF ConsInv
  <2>3. ~ (Times(s, cancel_queue) + Times(s, Ids(queue)) > 0)
    BY <2>2 DEF PlacesTerms
  <2> QED
    BY <2>1, <2>3, QueuedTimes
<1>3. Cardinality(Queued \cup {s}) = Len(queue) + 1
  BY <1>1, <1>2, FS_AddElement
<1>4. Queued \cup {s} \subseteq Flying
  BY <1>1 DEF Flying, Live
<1>5. /\ Cardinality(Queued \cup {s}) <= Cardinality(Flying) /\ Cardinality(Flying) \in Nat
  BY <1>4, FlyingFinite
<1>6. Cardinality(Flying) <= MaxRequired
  BY RoundBound
<1> QED
  BY <1>1, <1>3, <1>5, <1>6, MaxRequiredType

\* At the end of the samples there is room for the finish signal: it is the
\* one of the last round that has been taken but is no sample.
LEMMA RoomForSignal ==
  ASSUME StaleNum = 0, RoundInv, SyncInv, ConsInv, Types, Early, taken = DONE,
         \A m \in SetOf(queue) : m # None
  PROVE  Len(queue) < MaxRequired
<1>1. /\ Queued \subseteq Flying /\ Len(queue) \in Nat
      /\ IsFiniteSet(Queued) /\ Cardinality(Queued) = Len(queue)
  BY QueueCard
<1>2. Len(queue) <= Cardinality(Flying) /\ Cardinality(Flying) \in Nat
  BY <1>1, FlyingFinite
<1>3. CASE Closed
  <2>1. Cardinality(Flying) = 0
    BY <1>3, FS_EmptySet DEF RoundInv, Counted, Drained
  <2> QED
    BY <1>1, <1>2, <2>1, MaxRequiredType
<1>4. CASE ~ Closed
  <2> DEFINE n == MaxRequired * weights
             m == Required * (local_trigger_step - 1)
  <2>1. tr_version = weights /\ weights \in Nat
    BY <1>4 DEF Closed, SyncInv
  <2>2. local_trigger_step - 1 \in Nat
    BY DEF Types, TrType
  <2>3. n \in Nat /\ m \in Nat
    BY <2>1, <2>2, RoundSize
  <2>4. Len(trained) = n + m
    BY <2>1 DEF RoundInv, Early
  <2>5. Total + 1 <= n + staleness_samples /\ staleness_samples <= MaxRequired
        /\ staleness_samples \in Nat
    BY <1>4 DEF RoundInv, Counted, DONE, Types, CtlType
  <2>6. Cardinality(Flying) + Len(trained) <= Total
    BY TakenCovers
  <2> HIDE DEF n, m
  <2> QED
    BY <1>1, <1>2, <2>3, <2>4, <2>5, <2>6, MaxRequiredType
<1> QED
  BY <1>3, <1>4

LEMMA LastPut ==
  ASSUME StaleNum = 0, LastInv, EndInv, RoundInv, FeedInv, CapInv, SyncInv, ConsInv, Types,
         fails = 0, NEW s \in Samples, PutSample(s), UNCHANGED trVars
  PROVE  LastInv'
<1>1. s \in Live /\ s \in Active
  BY DEF PutSample, Live, Active
<1>2. proc \notin {"end", "crashed"}
  BY <1>1 DEF EndInv
<1>3. main = "wait" /\ Early /\ \A m \in SetOf(queue) : m # None
  BY <1>2 DEF CapInv, FeedInv
<1>4. Len(queue) < MaxRequired
  BY <1>1, <1>3, RoomForSample
<1>5. ~ Full
  BY <1>4, MaxRequiredType DEF Full, Types, MQTypeOK
<1>6. dropped_samples' = 0 /\ main' = "wait" /\ Early'
  BY <1>3, <1>5 DEF PutSample, put_sample, taskOther, Early, trVars, LastInv
<1> QED
  BY <1>6 DEF LastInv

LEMMA LastSignal ==
  ASSUME StaleNum = 0, LastInv, EndInv, RoundInv, FeedInv, SyncInv, ConsInv, Types,
         fails = 0, MainPut, UNCHANGED trVars
  PROVE  LastInv'
<1>1. Early /\ \A m \in SetOf(queue) : m # None
  BY DEF MainPut, FeedInv
<1>2. proc = "end" /\ taken = DONE
  BY DEF MainPut, EndInv
<1>3. queue \in Seq(Msg) /\ Len(queue) \in Nat /\ None \in Msg
  BY DEF Types, MQTypeOK, Msg
<1>4. ~ Full
  <2>1. Len(queue) < MaxRequired
    BY <1>1, <1>2, RoomForSignal
  <2> QED
    BY <1>3, <2>1, MaxRequiredType DEF Full
<1>5. queue' = Append(queue, None) /\ dropped_samples' = 0 /\ Early'
  BY <1>1, <1>4 DEF MainPut, put_sample, Early, trVars, LastInv
<1>6. /\ Len(queue') = Len(queue) + 1 /\ queue'[Len(queue) + 1] = None
      /\ \A i \in 1 .. Len(queue) : queue'[i] = queue[i]
  BY <1>3, <1>5
<1>7. \A i \in 1 .. Len(queue) : queue[i] # None
  BY <1>1 DEF SetOf
<1>8. queue' # <<>>
  BY <1>3, <1>6
<1> QED
  BY <1>3, <1>5, <1>6, <1>7, <1>8 DEF LastInv

LEMMA LastCollect ==
  ASSUME LastInv, FeedInv, LogInv, Types, fails = 0, Collect
  PROVE  LastInv'
<1>1. Early
  BY DEF Collect, LogInv, Early
<1>2. /\ queue \in Seq(Msg) /\ queue # <<>> /\ queue' = Tail(queue) /\ dropped_samples' = 0
      /\ main' = main /\ final' = final
  BY DEF Collect, get_sample, Types, MQTypeOK, rollVars, LastInv
<1>3. /\ Len(queue) \in Nat \ {0} /\ Len(queue') = Len(queue) - 1 /\ Head(queue) = queue[1]
      /\ \A p \in 2 .. Len(queue) : queue'[p - 1] = queue[p]
      /\ queue' \in Seq(Msg)
  BY <1>2, TailAt
<1>4. main # "wait" => /\ queue[Len(queue)] = None
                       /\ \A i \in 1 .. Len(queue) - 1 : queue[i] # None
  BY <1>1 DEF LastInv
<1>5. CASE Head(queue) = None
  <2>1. ~ Early'
    BY <1>5 DEF Collect, Early
  <2>2. main # "wait"
    BY <1>2, <1>3, <1>5 DEF FeedInv, SetOf
  <2>3. Len(queue) = 1
    BY <1>3, <1>4, <1>5, <2>2
  <2>4. queue' = <<>>
    BY <1>3, <2>3
  <2> QED
    BY <1>2, <2>1, <2>4 DEF LastInv
<1>6. CASE Head(queue) # None
  <2>1. Early'
    BY <1>1, <1>2, <1>6 DEF Collect, Early
  <2>2. ASSUME main # "wait"
        PROVE  /\ queue' # <<>> /\ queue'[Len(queue')] = None
               /\ \A i \in 1 .. Len(queue') - 1 : queue'[i] # None
    <3>1. Len(queue) >= 2
      BY <1>3, <1>4, <1>6, <2>2
    <3>2. queue' # <<>>
      BY <1>3, <3>1
    <3>3. queue'[Len(queue')] = None
      BY <1>3, <1>4, <2>2, <3>1
    <3>4. ASSUME NEW i \in 1 .. Len(queue') - 1 PROVE queue'[i] # None
      <4>1. i + 1 \in 2 .. Len(queue) /\ i + 1 \in 1 .. Len(queue) - 1 /\ (i + 1) - 1 = i
        BY <1>3
      <4>2. queue'[i] = queue[i + 1]
        BY <1>3, <4>1
      <4> QED
        BY <1>4, <2>2, <4>1, <4>2
    <3> QED
      BY <3>2, <3>3, <3>4
  <2> QED
    BY <1>2, <2>1, <2>2 DEF LastInv
<1> QED
  BY <1>5, <1>6

LEMMA LastStep ==
  ASSUME StaleNum = 0, LastInv, EndInv, RoundInv, FeedInv, CapInv, SyncInv, LogInv, ConsInv, Types,
         [Next]_vars
  PROVE  LastInv'
<1> SUFFICES ASSUME fails' = 0 PROVE LastInv'
  BY DEF LastInv
<1>1. fails = 0
  BY LastMoves
<1>2. CASE \E s \in Samples : PutSample(s) /\ UNCHANGED trVars
  BY <1>1, <1>2, LastPut
<1>3. CASE MainPut /\ UNCHANGED trVars
  BY <1>1, <1>3, LastSignal
<1>4. CASE Collect
  BY <1>1, <1>4, LastCollect
<1>5. CASE /\ UNCHANGED <<queue, dropped_samples>>
           /\ main' # "wait" => main # "wait"
           /\ Early' = Early
  BY <1>1, <1>5 DEF LastInv
<1> QED
  BY <1>2, <1>3, <1>4, <1>5, LastMoves

LEMMA LastHolds == ASSUME StaleNum = 0 PROVE Spec => []LastInv
<1>1. Init => LastInv
  BY DEF Init, RollInit, LastInv, Early
<1>2. LastInv /\ EndInv /\ RoundInv /\ FeedInv /\ CapInv /\ SyncInv /\ LogInv /\ ConsInv /\ HandInv
      /\ Types /\ [Next]_vars => LastInv'
  BY LastStep
<1> QED
  BY <1>1, <1>2, EndHolds, RoundHolds, FeedHolds, CapHolds, SyncHolds, LogHolds, ConsHolds,
     TypesHold, PTL DEF Spec

LEMMA BatchesHold == ASSUME StaleNum = 0 PROVE Spec => []WholeBatches
<1>1. Init => WholeBatches
  <2> SUFFICES ASSUME Init PROVE WholeBatches
    OBVIOUS
  <2>1. Len(trained) = 0 /\ Required * 0 = 0
    BY DEF Init
  <2> QED
    BY <2>1 DEF WholeBatches
<1>2. WholeBatches /\ RoundInv /\ Types /\ [Next]_vars => WholeBatches'
  <2> SUFFICES ASSUME WholeBatches, RoundInv, Types, [Next]_vars PROVE WholeBatches'
    OBVIOUS
  <2>1. CASE Train
    <3> DEFINE ids == [i \in 1 .. Len(batch) |-> batch[i].id]
    <3>1. trained \in Seq(Samples) /\ batch \in Seq([id : Samples, ver : Nat])
      BY DEF Types, TrType
    <3>2. ids \in Seq(Samples) /\ Len(ids) = Len(batch)
      BY <3>1, IdsType DEF Ids
    <3>3. trained' = trained \o ids /\ Len(batch) = Required
      BY <2>1 DEF Train, RoundInv
    <3> HIDE DEF ids
    <3>4. Len(trained') = Len(trained) + Required /\ Len(trained) \in Nat
      <4>1. ASSUME NEW a \in Seq(Samples), NEW b \in Seq(Samples)
            PROVE  Len(a \o b) = Len(a) + Len(b) /\ Len(a) \in Nat
        OBVIOUS
      <4>2. Len(trained \o ids) = Len(trained) + Len(ids) /\ Len(trained) \in Nat
        BY <3>1, <3>2, <4>1
      <4> QED
        BY <3>2, <3>3, <4>2
    <3>5. PICK k \in 0 .. Len(trained) : Len(trained) = Required * k
      BY DEF WholeBatches
    <3>6. k \in Nat /\ Required * (k + 1) = Required * k + Required
      BY <3>4, <3>5, RoundSize
    <3>7. Required \in Nat /\ Required >= 1
      OBVIOUS
    <3>8. k + 1 \in 0 .. Len(trained') /\ Len(trained') = Required * (k + 1)
      BY <3>4, <3>5, <3>6, <3>7
    <3> QED
      BY <3>8 DEF WholeBatches
  <2>2. CASE ~ Train
    <3>1. UNCHANGED trained
      BY <2>2 DEF Next, RollUpdate, JobEnd, TrainerNext, Collect, SyncStart, SyncVersion,
                  SyncWeights, LogStep, FinalLog, LastLog, Log, vars, trVars
    <3> QED
      BY <3>1 DEF WholeBatches
  <2> QED
    BY <2>1, <2>2
<1> QED
  BY <1>1, <1>2, RoundHolds, TypesHold, PTL DEF Spec

\* What % gives for a multiple and a remainder.
LEMMA Remainder ==
  ASSUME NEW n \in Nat, NEW l \in Nat \ {0}, NEW k \in Nat, NEW d \in 0 .. l - 1, n = l * k + d
  PROVE  n % l = d
<1>1. PICK q \in Int, r \in 0 .. l - 1 : q = n \div l /\ r = n % l /\ n = l * q + r
  <2>1. ASSUME NEW q \in Int, NEW r \in Int, q = n \div l, r = n % l PROVE n = l * q + r
    BY <2>1
  <2>2. n \div l \in Int /\ n % l \in 0 .. l - 1
    OBVIOUS
  <2> QED
    BY <2>1, <2>2
<1>2. l * q \in Int /\ l * k \in Int /\ l * (q - k) = l * q - l * k
  OBVIOUS
<1>3. PICK x \in Int : x = q - k /\ -l < l * x /\ l * x < l
  BY <1>1, <1>2
<1>4. ~ (x <= -1)
  <2> SUFFICES ASSUME x <= -1 PROVE l * x <= -l
    BY <1>3
  <2> QED
    BY <1>3
<1>5. ~ (x >= 1)
  <2> SUFFICES ASSUME x >= 1 PROVE l * x >= l
    BY <1>3
  <2> QED
    BY <1>3
<1>6. q = k
  BY <1>3, <1>4, <1>5
<1> QED
  BY <1>1, <1>2, <1>6

\* At the end of the job a sample is trained on or lost.
LEMMA EndOfJob ==
  ASSUME EndInv, CapInv, CancelInv, LastInv, WholeBatches, ConsInv, Types, Ended, fails = 0
  PROVE  Len(trained) = Total - (Total % Required)
<1>1. /\ proc = "end" /\ hand = Total + 1 /\ taken = Total + 1 /\ Live = {} /\ cancel_queue = <<>>
  BY DEF Ended, CapInv, EndInv, CancelInv, DONE, Live, Active
<1>2. queue = <<>> /\ batch = <<>> /\ dropped_samples = 0
  BY DEF Ended, LastInv, Early, Types, TrType
<1>3. ASSUME NEW s \in Samples, s \notin Lost PROVE s \in SetOf(trained)
  <2>1. PlacesTerms(s)
    BY PlacesNow
  <2>2. Times(s, cancel_queue) = 0 /\ Times(s, Ids(queue)) = 0 /\ Times(s, Ids(batch)) = 0
    <3>1. Ids(<<>>) = <<>>
      BY DEF Ids
    <3> QED
      BY <1>1, <1>2, <3>1, TimesEmpty
  <2>3. s # hand /\ ~ (s > taken) /\ s \notin Live
    BY <1>1 DEF Samples
  <2>4. Places(s) # 0
    BY <1>3 DEF Lost
  <2>5. Times(s, trained) # 0
    BY <2>1, <2>2, <2>3, <2>4 DEF PlacesTerms
  <2>6. trained \in Seq(Samples)
    BY DEF Types, TrType
  <2>7. \E i \in 1 .. Len(trained) : trained[i] = s
    BY <2>5, <2>6, TimesType
  <2> QED
    BY <2>7 DEF SetOf
<1>4. /\ IsFiniteSet(SetOf(trained)) /\ Cardinality(SetOf(trained)) = Len(trained)
      /\ Len(trained) \in Nat /\ SetOf(trained) \subseteq Samples
  BY TrainedOnce
<1>5. IsFiniteSet(Samples) /\ Cardinality(Samples) = Total
  BY IntervalCard DEF Samples
<1>6. Len(trained) <= Total
  BY <1>4, <1>5, FS_Subset
<1>7. Cardinality(Lost) \in Nat /\ IsFiniteSet(Lost) /\ Cardinality(Lost) <= Required - 1
  <2>1. GaveUp = Required - 1
    BY DEF GaveUp, Ended
  <2> QED
    BY <1>2, <2>1, LostFinite DEF ConsInv
<1>8. Total <= Len(trained) + Cardinality(Lost)
  <2>1. Samples \subseteq SetOf(trained) \cup Lost
    BY <1>3
  <2>2. /\ IsFiniteSet(SetOf(trained) \cup Lost)
        /\ Cardinality(SetOf(trained) \cup Lost)
             = Cardinality(SetOf(trained)) + Cardinality(Lost) - Cardinality(SetOf(trained) \cap Lost)
    BY <1>4, <1>7, FS_Union
  <2>3. Cardinality(SetOf(trained) \cap Lost) \in Nat
    BY <1>4, FS_Intersection, FS_CardinalityType
  <2>4. /\ Cardinality(Samples) <= Cardinality(SetOf(trained) \cup Lost)
    BY <2>1, <2>2, FS_Subset
  <2>5. Cardinality(SetOf(trained) \cup Lost) \in Nat
    BY <2>2, FS_CardinalityType
  <2>6. ASSUME NEW u \in Nat, NEW a \in Nat, NEW b \in Nat, NEW c \in Nat, u = a + b - c
        PROVE  u <= a + b
    BY <2>6
  <2>7. Cardinality(SetOf(trained) \cup Lost) <= Cardinality(SetOf(trained)) + Cardinality(Lost)
    BY <1>4, <1>7, <2>2, <2>3, <2>5, <2>6
  <2>8. Cardinality(SetOf(trained)) = Len(trained)
    BY <1>4
  <2> QED
    BY <1>4, <1>5, <1>7, <2>4, <2>5, <2>7, <2>8
<1>9. PICK k \in 0 .. Len(trained) : Len(trained) = Required * k
  BY DEF WholeBatches
<1>10. PICK d \in 0 .. Required - 1 : Total = Required * k + d /\ Total = Len(trained) + d
  <2>1. Total \in Nat /\ Required \in Nat
    OBVIOUS
  <2>2. Total - Len(trained) \in 0 .. Required - 1
    BY <1>4, <1>6, <1>7, <1>8, <2>1
  <2>3. Total = Len(trained) + (Total - Len(trained))
    BY <1>4, <2>1
  <2> QED
    BY <1>9, <2>2, <2>3
<1>11. Total % Required = d
  <2>1. k \in Nat /\ Total \in Nat /\ Required \in Nat \ {0}
    BY <1>4, <1>9
  <2> QED
    BY <1>10, <2>1, Remainder
<1>12. Total - d = Len(trained)
  BY <1>4, <1>10
<1> QED
  BY <1>11, <1>12

(* _streaming_generation_main and fit, for every number of samples, size of  *)
(* batch and trigger step: with staleness_threshold 0 a job whose            *)
(* generations succeed trains on every sample of a complete batch before     *)
(* both fits return; no interrupted, queued or last sample is left behind,   *)
(* and the finish signal overtakes none.                                     *)
THEOREM EverySampleTrained == ASSUME StaleNum = 0 PROVE Spec => []AllTrained
<1>1. EndInv /\ CapInv /\ CancelInv /\ LastInv /\ WholeBatches /\ ConsInv /\ HandInv /\ Types
      => AllTrained
  BY EndOfJob DEF AllTrained
<1> QED
  BY <1>1, EndHolds, CapHolds, CancelHolds, LastHolds, BatchesHold, ConsHolds, TypesHold, PTL
=============================================================================
