--------------------------- MODULE MCComponents ---------------------------
(***************************************************************************)
(* Twelve components that do not share state, each checked on its own      *)
(* within one model: `part' names the component a behaviour is about; the  *)
(* variables of the others keep their initial values.                      *)
(*                                                                         *)
(* The message queue is given two samples, one of them the end marker, and *)
(* MaxPut, MaxVersion and MaxVal bound what it leaves unbounded: the       *)
(* samples ever put, the version number and the validation records.        *)
(***************************************************************************)
EXTENDS BucketBroadcast, NcclEngine, NixlEngine, RateLimiter, OneStepOff, AsyncResume,
        MCBatchFlow, RewardFlow, MCCombinedReward, TarStream, SftTrainer,
        MessageQueueHistory

CONSTANTS i1, i2, i3, r1, r2, MaxPut, MaxVersion, MaxVal

VARIABLE part

Parts == {"broadcast", "nccl", "nixl", "limiter", "oneStepOff", "resume",
          "flow", "reward", "combined", "tar", "sft", "queue"}

MCItems == {i1, i2, i3}
MCReceivers == {r1, r2}
MCSizes == <<2, 1, 1, 2, 1>>
MCWeights == <<2, 1, 2, 1, 1>>
MCSymmetry == Permutations(MCItems) \cup Permutations(MCReceivers)

\* One whose cycle is not compacted, and one with a tie to be rounded.
MCRatios == {<<2, 3>>, <<1, 3>>, <<1, 2>>, <<1, 1>>}

ncclOnly == <<sop, taken, sub, rcv, rop, rbuf, yielded>>
nixlOnly == <<note, open, link, lbuf, handed>>
offOnly == <<loopVars, at, died>>
jobOnly == <<trainerVars, feederVars, job, flying, esi, restarts>>
sftOnly == <<runVars, sftAt, web, sftDied>>
engineVars == <<transferVars, ncclVars, nixlVars>>
trainVars == <<offVars, jobOnly, sftOnly>>
dataVars == <<flowVars, rewardVars, combinedVars, tarVars, historyVars>>
vars == <<engineVars, limiterVars, trainVars, dataVars, part>>

\* The choices other components make initially are not made.
MCInit ==
  /\ part \in Parts
  /\ TransferInit /\ NcclInit /\ NixlInit /\ LimiterInit /\ OffInit /\ JobInit
  /\ FlowInit /\ RewardInit /\ CombinedInit /\ TarInit /\ SftInit
  /\ HistoryInit
  /\ overlap => part = "broadcast"
  /\ is_async => part = "limiter"
  /\ esi => part = "resume"

BroadcastPart ==
  /\ part = "broadcast" /\ TransferNext
  /\ UNCHANGED <<ncclVars, nixlVars, limiterVars, trainVars, dataVars, part>>

NcclPart ==
  /\ part = "nccl" /\ NcclNext
  /\ UNCHANGED <<transferVars, nixlOnly, limiterVars, trainVars, dataVars, part>>

NixlPart ==
  /\ part = "nixl" /\ NixlNext
  /\ UNCHANGED <<transferVars, ncclOnly, limiterVars, trainVars, dataVars, part>>

LimiterPart ==
  /\ part = "limiter" /\ LimiterNext
  /\ UNCHANGED <<engineVars, trainVars, dataVars, part>>

OneStepOffPart ==
  /\ part = "oneStepOff" /\ OffNext
  /\ UNCHANGED <<engineVars, limiterVars, jobOnly, sftOnly, dataVars, part>>

ResumePart ==
  /\ part = "resume" /\ JobNext
  /\ UNCHANGED <<engineVars, limiterVars, offOnly, sftOnly, dataVars, part>>

SftPart ==
  /\ part = "sft" /\ SftNext
  /\ UNCHANGED <<engineVars, limiterVars, offOnly, jobOnly, dataVars, part>>

FlowPart ==
  /\ part = "flow" /\ FlowNext
  /\ UNCHANGED <<engineVars, limiterVars, trainVars, rewardVars, combinedVars, tarVars, historyVars,
                 part>>

RewardPart ==
  /\ part = "reward" /\ RewardNext
  /\ UNCHANGED <<engineVars, limiterVars, trainVars, flowVars, combinedVars, tarVars, historyVars,
                 part>>

CombinedPart ==
  /\ part = "combined" /\ CombinedNext
  /\ UNCHANGED <<engineVars, limiterVars, trainVars, flowVars, rewardVars, tarVars, historyVars,
                 part>>

TarPart ==
  /\ part = "tar" /\ TarNext
  /\ UNCHANGED <<engineVars, limiterVars, trainVars, flowVars, rewardVars, combinedVars, historyVars,
                 part>>

QueueBounded == total_produced <= MaxPut /\ mq_version <= MaxVersion /\ Len(val_queue) <= MaxVal

QueuePart ==
  /\ part = "queue" /\ HistoryNext /\ QueueBounded'
  /\ UNCHANGED <<engineVars, limiterVars, trainVars, flowVars, rewardVars, combinedVars,
                 tarVars, part>>

\* The component has come to its end, and not to a deadlock.
Finished ==
  \/ part = "broadcast" /\ TransferDone
  \/ part = "nccl" /\ NcclDone
  \/ part = "nixl" /\ NixlDone
  \/ part = "limiter" /\ LimiterDone
  \/ part = "oneStepOff" /\ OffEnded
  \/ part = "resume" /\ JobEnded
  \/ part = "sft" /\ SftEnded
  \/ part = "flow" /\ FlowEnded
  \/ part = "reward" /\ RewardEnded
  \/ part = "combined" /\ CombinedEnded
  \/ part = "tar" /\ TarEnded

MCNext ==
  \/ BroadcastPart \/ NcclPart \/ NixlPart \/ LimiterPart
  \/ OneStepOffPart \/ ResumePart \/ SftPart
  \/ FlowPart \/ RewardPart \/ CombinedPart \/ TarPart
  \/ QueuePart
  \/ Finished /\ UNCHANGED vars

MCSpec == MCInit /\ [][MCNext]_vars
=============================================================================
