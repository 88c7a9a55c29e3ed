----------------------------- MODULE RewardFlow -----------------------------
(***************************************************************************)
(* How one generation batch of the DAPO trainer gets its rewards: the      *)
(* forward answers are scored by the agent-loop workers as they come, the  *)
(* rows that need the answer to the inverse prompt are left to the trainer *)
(* (_compute_score), the workers' outputs are put together by              *)
(* DataProto.concat, the inverse answers are generated and stored, and     *)
(* compute_reward takes the scores it finds or computes them itself.       *)
(*                                                                         *)
(* A score is the record of what it was computed from; an answer is the    *)
(* record of the prompt it answers and of its direction.                   *)
(***************************************************************************)
EXTENDS Integers, FiniteSets

CONSTANTS Prompts,       \* prompts of a generation batch
          Copies,        \* rollout.n
          AgentWorkers   \* rollout.agent.num_workers

ASSUME RewardShape ==
  /\ {Prompts, Copies, AgentWorkers} \subseteq Nat \ {0}
  /\ (Prompts * Copies) % AgentWorkers = 0   \* DataProto.chunk asserts it

VARIABLES turn,       \* where RayDAPOTrainer.fit is in this batch
          temporal,   \* the prompts whose extra_info has an inv_ground_truth
          answer,     \* the answers of the generate_sequences call under way
          score,      \* AgentLoopOutput.reward_score of the same call
          responses,  \* new_batch.batch["responses"]
          inverse,    \* new_batch.batch["inverse_responses"]
          rm_scores,  \* new_batch.batch["rm_scores"]
          paid,       \* token_level_scores
          attempt     \* calls of reward_fn that have raised

rewardVars == <<turn, temporal, answer, score, responses, inverse, rm_scores, paid, attempt>>

Lines == 1..Prompts * Copies
NotAnswered == [asked |-> 0, way |-> "none"]
NoScore == [truth |-> 0, of |-> NotAnswered, inverse |-> NotAnswered]
\* The rows of a tensor that DataProto.concat has to make up: zeros.
Placeholder == [NoScore EXCEPT !.truth = -1]
Absent == [l \in Lines |-> NoScore]
Unanswered == [l \in Lines |-> NotAnswered]

\* DataProto.repeat(interleave=True): the copies of a prompt are neighbours.
PromptOf(l) == (l - 1) \div Copies + 1

\* Mutant: the inverse batch is repeated as a whole.
InversePromptOfTiled(l) == 1 + ((l - 1) % Prompts)

\* The inverse batch is repeated the same way.
InversePromptOf(l) == PromptOf(l)

\* DataProto.chunk: worker w gets the w-th share of consecutive rows.
WorkerOf(l) == (l - 1) \div ((Prompts * Copies) \div AgentWorkers) + 1
ChunkOf(w) == {l \in Lines : WorkerOf(l) = w}

\* The reward of row l computed from its answer a and the inverse answer i:
\* only a reward with spatial_t looks at i.
RowScored(l, a, i) ==
  [truth |-> PromptOf(l), of |-> a, inverse |-> IF PromptOf(l) \in temporal THEN i ELSE NotAnswered]

\* _compute_score: inverse answers exist only later, in the trainer.
Deferred(l) == PromptOf(l) \in temporal

\* _postprocess: a worker's output has rm_scores if all of its rows have one.
HasScores(w) == \A l \in ChunkOf(w) : score[l] # NoScore

\* DataProto.concat: a key that only some outputs have is filled with zeros.
Concat ==
  IF \E w \in 1..AgentWorkers : HasScores(w)
    THEN [l \in Lines |-> IF HasScores(WorkerOf(l)) THEN score[l] ELSE Placeholder]
    ELSE Absent
-----------------------------------------------------------------------------
RewardInit ==
  /\ turn = "fetch" /\ temporal = {}
  /\ answer = Unanswered /\ score = Absent
  /\ responses = Unanswered /\ inverse = Unanswered
  /\ rm_scores = Absent /\ paid = Absent /\ attempt = 0

\* The loader's next batch is repeated and handed to the workers.
Fetch ==
  /\ turn = "fetch"
  /\ \E T \in SUBSET (1..Prompts) : temporal' = T
  /\ turn' = "forward"
  /\ UNCHANGED <<answer, score, responses, inverse, rm_scores, paid, attempt>>

\* _run_agent_loop of one row, any order: its answer, and its score unless
\* that is deferred. An inverse row carries the extra_info of its prompt.
RunAgentLoop(l) ==
  /\ turn \in {"forward", "inverse"}
  /\ answer[l] = NotAnswered
  /\ LET a == [asked |-> IF turn = "forward" THEN PromptOf(l) ELSE InversePromptOf(l), way |-> turn]
     IN  /\ answer' = [answer EXCEPT ![l] = a]
         /\ score' = IF Deferred(l) THEN score ELSE [score EXCEPT ![l] = RowScored(l, a, NotAnswered)]
  /\ UNCHANGED <<turn, temporal, responses, inverse, rm_scores, paid, attempt>>

\* A reward function raises in the worker: generate_sequences fails, and fit.
AgentLoopRaises(l) ==
  /\ turn \in {"forward", "inverse"}
  /\ answer[l] = NotAnswered /\ ~Deferred(l)
  /\ turn' = "died"
  /\ UNCHANGED <<temporal, answer, score, responses, inverse, rm_scores, paid, attempt>>

AllAnswered == \A l \in Lines : answer[l] # NotAnswered

\* The forward call returns; the inverse batch follows if a prompt needs it.
ForwardDone ==
  /\ turn = "forward" /\ AllAnswered
  /\ responses' = answer /\ rm_scores' = Concat
  /\ answer' = Unanswered /\ score' = Absent
  /\ turn' = IF temporal = {} THEN "reward" ELSE "inverse"
  /\ UNCHANGED <<temporal, inverse, paid, attempt>>

\* The inverse call returns: _store_inverse_responses keeps the answers, row
\* by row, and drops the scores.
InverseDone ==
  /\ turn = "inverse" /\ AllAnswered
  /\ inverse' = answer
  /\ answer' = Unanswered /\ score' = Absent
  /\ turn' = "reward"
  /\ UNCHANGED <<temporal, responses, rm_scores, paid, attempt>>

\* DAPORewardManager finds rm_scores and returns them as they are.
ExtractReward ==
  /\ turn = "reward" /\ rm_scores # Absent
  /\ paid' = rm_scores /\ turn' = "done"
  /\ UNCHANGED <<temporal, answer, score, responses, inverse, rm_scores, attempt>>

\* DAPORewardManager scores the rows one after the other.
ComputeReward ==
  /\ turn = "reward" /\ rm_scores = Absent
  /\ paid' = [l \in Lines |-> RowScored(l, responses[l], inverse[l])]
  /\ turn' = "done"
  /\ UNCHANGED <<temporal, answer, score, responses, inverse, rm_scores, attempt>>

\* A reward function raises: compute_reward calls the manager once more.
ComputeRaises ==
  /\ turn = "reward" /\ rm_scores = Absent
  /\ attempt' = attempt + 1
  /\ turn' = IF attempt = 0 THEN turn ELSE "died"
  /\ UNCHANGED <<temporal, answer, score, responses, inverse, rm_scores, paid>>

RewardNext ==
  \/ Fetch \/ ForwardDone \/ InverseDone
  \/ ExtractReward \/ ComputeReward \/ ComputeRaises
  \/ \E l \in Lines : RunAgentLoop(l) \/ AgentLoopRaises(l)

RewardEnded == turn \in {"done", "died"}

RewardSpec == RewardInit /\ [][RewardNext]_rewardVars
-----------------------------------------------------------------------------
\* The reward a row ought to have: its own answer against its own ground
\* truth and, for a temporal row, with an inverse answer of its own prompt.
Own(l) ==
  [truth |-> PromptOf(l),
   of |-> [asked |-> PromptOf(l), way |-> "forward"],
   inverse |-> IF PromptOf(l) \in temporal
                 THEN [asked |-> PromptOf(l), way |-> "inverse"]
                 ELSE NotAnswered]

\* _compute_score says of the rows it skips: "Defer reward to main loop so
\* compute_rm_score gets inverse_answer", so every row of the batch ends with
\* the reward of its own answers. DAPORewardManager does not compute what was
\* deferred when another worker's output brought the key rm_scores.
EveryRowScored == turn = "done" => \A l \in Lines : paid[l] = Own(l)

\* What does hold of the batch: no row is paid for another row's answer or
\* without the inverse answer it needs, and a row goes unpaid only if its
\* worker had a temporal row while another worker had none.
OwnOrUnpaid ==
  turn = "done" =>
    \A l \in Lines :
      \/ paid[l] = Own(l)
      \/ /\ paid[l] = Placeholder
         /\ \E k \in ChunkOf(WorkerOf(l)) : PromptOf(k) \in temporal
         /\ \E w \in 1..AgentWorkers : \A k \in ChunkOf(w) : PromptOf(k) \notin temporal
=============================================================================
