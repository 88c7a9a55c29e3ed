--------------------------- MODULE CombinedReward ---------------------------
(***************************************************************************)
(* combined_reward.compute_score: the score of one answer from several     *)
(* reward functions. The format reward is a hard gate, spatial_xy, when it *)
(* is asked for, is computed first and gates accuracy, a reward that       *)
(* raises counts 0, and the others are added up with their weights.        *)
(*                                                                         *)
(* A reward is a number of units, FullScore of them for 1.0. A weight is what   *)
(* extra_info gives; `combined' is the score times the sum of the weights, *)
(* so that it stays an integer.                                            *)
(***************************************************************************)
EXTENDS Integers, Sequences, FiniteSets, FiniteSetsExt, SequencesExt

CONSTANTS RewardLists,   \* the reward_list values, sequences of reward names
          WeightTables,  \* the weights of extra_info, functions on names
          FullScore,          \* units of a reward of 1.0
          Gate           \* spatial_xy_accuracy_gate, in units (0.5 by default)

ASSUME CombinedAssumption ==
  /\ FullScore \in Nat \ {0} /\ Gate \in 0..FullScore
  /\ RewardLists \subseteq Seq(STRING)
  /\ \A w \in WeightTables : IsFiniteSet(DOMAIN w) /\ \A k \in DOMAIN w : w[k] \in Nat

VARIABLES scoring,       \* where compute_score is
          reward_list, given,
          format_value,  \* format_reward_value
          reward_scores, \* what is computed so far
          called,        \* the calls of reward functions, in order
          combined

combinedVars == <<scoring, reward_list, given, format_value, reward_scores, called, combined>>

\* A reward function that raises, and a format that was not asked for.
Raised == -1
NotAsked == -1
Outcomes == (0..FullScore) \cup {Raised}
Wanted == ToSet(reward_list)
Computed == DOMAIN reward_scores

DefaultKeys == {"accuracy", "spatial_xy"}

AddUp(f) == FoldFunction(LAMBDA x, y : x + y, 0, f)

\* sum(weights.values()); weights that are all 0 are not normalised.
Total(w) == IF AddUp(w) > 0 THEN AddUp(w) ELSE 1

\* weights.get(k, 0.0) times the total: the default keys that are not given
\* get 1.0 after the normalisation.
Weight(w, k) ==
  IF k \in DOMAIN w THEN w[k] ELSE IF k \in DefaultKeys THEN Total(w) ELSE 0

\* A reward that raises counts 0.
Units(o) == IF o = Raised THEN 0 ELSE o

With(k, u) == reward_scores' = [x \in Computed \cup {k} |-> IF x = k THEN u ELSE reward_scores[x]]

-----------------------------------------------------------------------------
CombinedInit ==
  /\ scoring = "start" /\ reward_list = <<>> /\ given = <<>>
  /\ format_value = NotAsked /\ reward_scores = <<>>
  /\ called = <<>> /\ combined = 0

Ask ==
  /\ scoring = "start"
  /\ \E r \in RewardLists, w \in WeightTables : reward_list' = r /\ given' = w
  /\ scoring' = IF "format" \in ToSet(reward_list') THEN "format" ELSE "accuracy"
  /\ UNCHANGED <<format_value, reward_scores, called, combined>>

AfterFormat(v) ==
  IF v = 0 THEN "done" ELSE IF "spatial_xy" \in Wanted THEN "xy" ELSE "accuracy"

\* The format is checked first; a wrong one ends the matter.
CheckFormat ==
  /\ scoring = "format"
  /\ \E v \in {0, FullScore} :
       /\ format_value' = v
       /\ With("format", v)
       /\ scoring' = AfterFormat(v)
  /\ called' = Append(called, "format")
  /\ UNCHANGED <<reward_list, given, combined>>

\* spatial_xy, computed ahead of its turn so that it can gate accuracy.
CallXy ==
  /\ scoring = "xy"
  /\ \E o \in Outcomes : With("spatial_xy", Units(o))
  /\ called' = Append(called, "spatial_xy")
  /\ scoring' = IF "accuracy" \in Wanted THEN "gated" ELSE "rest"
  /\ UNCHANGED <<reward_list, given, format_value, combined>>

\* Mutant: the gate is not looked at.
PastGateAlways == TRUE

PastGate == reward_scores["spatial_xy"] > Gate

CallGatedAccuracy ==
  /\ scoring = "gated" /\ PastGate
  /\ \E o \in Outcomes : With("accuracy", Units(o))
  /\ called' = Append(called, "accuracy")
  /\ scoring' = "rest"
  /\ UNCHANGED <<reward_list, given, format_value, combined>>

GateAccuracyOut ==
  /\ scoring = "gated" /\ ~PastGate
  /\ With("accuracy", 0)
  /\ scoring' = "rest"
  /\ UNCHANGED <<reward_list, given, format_value, called, combined>>

\* Without the gate accuracy is computed at once, outside of any try.
CallAccuracy ==
  /\ scoring = "accuracy" /\ "accuracy" \in Wanted
  /\ \E o \in Outcomes :
       IF o = Raised THEN scoring' = "raised" /\ UNCHANGED reward_scores
                     ELSE scoring' = "rest" /\ With("accuracy", o)
  /\ called' = Append(called, "accuracy")
  /\ UNCHANGED <<reward_list, given, format_value, combined>>

NoAccuracy ==
  /\ scoring = "accuracy" /\ "accuracy" \notin Wanted
  /\ scoring' = "rest"
  /\ UNCHANGED <<reward_list, given, format_value, reward_scores, called, combined>>

\* The positions of the rewards that the loop has not skipped or computed.
Left == {i \in DOMAIN reward_list : reward_list[i] \notin Computed \cup {"format"}}

\* One turn of the loop over reward_list; spatial_xy is 0 without a format.
CallRest ==
  /\ scoring = "rest" /\ Left # {}
  /\ LET k == reward_list[Min(Left)] IN
       IF k = "spatial_xy" /\ format_value # FullScore
         THEN With(k, 0) /\ UNCHANGED called
         ELSE (\E o \in Outcomes : With(k, Units(o))) /\ called' = Append(called, k)
  /\ UNCHANGED <<scoring, reward_list, given, format_value, combined>>

\* other_rewards, by their places in the list: a name that is repeated is
\* called once and counts as often as it stands there.
Others == {i \in DOMAIN reward_list : reward_list[i] # "format"}

WeightedSum(places) ==
  AddUp([i \in places |-> Weight(given, reward_list[i]) * reward_scores[reward_list[i]]])

\* The weighted sum times the format reward, or the format reward alone.
Combine ==
  /\ scoring = "rest" /\ Left = {}
  /\ combined' = IF "format" \notin Wanted THEN WeightedSum(Others)
                 ELSE IF Others = {} THEN Total(given) * format_value
                 ELSE (format_value * WeightedSum(Others)) \div FullScore
  /\ scoring' = "done"
  /\ UNCHANGED <<reward_list, given, format_value, reward_scores, called>>

CombinedNext ==
  \/ Ask \/ CheckFormat \/ CallXy \/ CallGatedAccuracy \/ GateAccuracyOut
  \/ CallAccuracy \/ NoAccuracy \/ CallRest \/ Combine

CombinedEnded == scoring \in {"done", "raised"}

CombinedSpec == CombinedInit /\ [][CombinedNext]_combinedVars
-----------------------------------------------------------------------------
\* An answer in the wrong format earns nothing, and one whose spatial_xy is not
\* past the configured gate earns nothing for its accuracy, whatever the order
\* of the rewards in the list (hard gates of compute_score).
GatesHold ==
  scoring = "done" =>
    /\ format_value = 0 => combined = 0
    /\ {"format", "spatial_xy", "accuracy"} \subseteq Wanted /\ "accuracy" \in Computed
         /\ reward_scores["accuracy"] > 0
       => reward_scores["spatial_xy"] > Gate

\* No reward function, some of which call a remote judge, is called twice for
\* an answer, and none but the format check after the format was wrong.
CalledOnce ==
  /\ IsInjective(called)
  /\ format_value = 0 => called = <<"format">>

\* Weights that name the default rewards keep the score of a list without
\* repeated names at 1.0 or below. (Weights that leave one out do not: it gets
\* 1.0 after the normalisation.)
AtMostOne ==
  IsInjective(reward_list) /\ DefaultKeys \subseteq DOMAIN given =>
    combined <= FullScore * Total(given)

\* compute_score: both gates hold, nothing is computed twice or in vain, and
\* the sum over a list of distinct rewards is a score.
ScoreGated == GatesHold /\ CalledOnce /\ AtMostOne

\* What the comments of the gate say: "Only compute (and count) accuracy reward
\* when spatial_xy_score > 0", and of its default: "any nonzero passes".
AnyXyPasses ==
  scoring = "done" /\ {"format", "spatial_xy", "accuracy"} \subseteq Wanted
    /\ "spatial_xy" \in Computed /\ reward_scores["spatial_xy"] > 0
  => \E i \in DOMAIN called : called[i] = "accuracy"
=============================================================================
