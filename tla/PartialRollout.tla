--------------------------- MODULE PartialRollout ---------------------------
(***************************************************************************)
(* One sample of a partial rollout: the agent loops that generate its      *)
(* responses (agent_loop.py, partial_tool_agent_loop.py,                   *)
(* partial_single_turn_agent_loop.py), the servers they call               *)
(* (vllm_async_server.py) and the rollouter, which interrupts them all,    *)
(* replaces the weights and submits the sample again.                      *)
(*                                                                         *)
(* A generated token is a record: v the version of the weights that made   *)
(* it, k its place in the response its prompt was continued with.  The     *)
(* tokens of tools and users are Ext.  The server's lock is never held     *)
(* over an await, so its critical sections are steps.  Cancel and resume   *)
(* reach the servers and the workers one after the other, in any order.    *)
(***************************************************************************)
EXTENDS Integers, Sequences, FiniteSets, SequencesExt

CONSTANTS
  Agents,         \* the rollouts of the sample (rollout.n)
  ToolAgents,     \* those run by AsyncPartialToolAgentLoop
  Servers,        \* numbered from 1: the order of weighted_serveres
  Workers,        \* how many FullyAsyncAgentLoopWorkers
  ResponseLength, \* rollout.response_length
  ModelLen,       \* max_model_len less the prompt
  MaxAssistant, MaxUser,  \* multi_turn.max_assistant_turns, max_user_turns
  MaxCache,       \* size of the LRU cache of sticky sessions
  MaxCancel       \* bound: how many synchronizations happen

ASSUME PartialAssumption ==
  /\ ToolAgents \subseteq Agents /\ IsFiniteSet(Agents)
  /\ IsFiniteSet(Servers) /\ Servers = 1 .. Cardinality(Servers) /\ Servers # {}
  /\ {Workers, ResponseLength, ModelLen, MaxAssistant, MaxUser, MaxCache}
       \subseteq Nat \ {0}
  /\ ModelLen > ResponseLength   \* a user's message is added unchecked
  /\ MaxCancel \in Nat

Ext == [v |-> -1, k |-> -1]

VARIABLES
  phase,     \* of the rollouter: run, cancel, resume
  todo,      \* who has yet to receive the cancel or resume under way
  version,   \* of the weights, and current_param_version
  cancels,
  sample,    \* idle (to be submitted), active, done
  worker,    \* _worker_index: the worker that has, or will get, the sample
  event,     \* event[w]: cancellation_event of worker w
  load,      \* load[w][s]: weighted_serveres of worker w
  cache,     \* cache[w]: request_id_to_server, least recently used first
  paused,    \* paused[s] of server s
  ag,        \* ag[a]: the agent loop of rollout a and its AgentData / output
  req        \* req[a]: the call of generate_for_partial rollout a waits for

rollouterVars == <<phase, todo, version, cancels>>
workerVars == <<event, load, cache>>
partialVars == <<rollouterVars, sample, worker, workerVars, paused, ag, req>>

Everyone == {<<"server", s>> : s \in Servers} \cup {<<"worker", w>> : w \in 1 .. Workers}
NewAgent(a) ==
  [at |-> "rest", state |-> IF a \in ToolAgents THEN "PENDING" ELSE "GENERATING",
   fresh |-> TRUE, is_cancel |-> FALSE, resp |-> <<>>, mask |-> <<>>, lp |-> <<>>,
   turns |-> 0, uturns |-> 0, vstart |-> 0, vend |-> 0, run |-> 0]
NoRequest == [st |-> "none", s |-> 1, base |-> 0, out |-> <<>>, ev |-> "none",
              cut |-> FALSE]

PartialInit ==
  /\ phase = "run" /\ todo = {} /\ version = 0 /\ cancels = 0
  /\ sample = "idle" /\ worker = 1
  /\ event = [w \in 1 .. Workers |-> FALSE]
  /\ load = [w \in 1 .. Workers |-> [s \in Servers |-> 0]]
  /\ cache = [w \in 1 .. Workers |-> <<>>]
  /\ paused = [s \in Servers |-> FALSE]
  /\ ag = [a \in Agents |-> NewAgent(a)]
  /\ req = [a \in Agents |-> NoRequest]

Complete(a) == ~ ag[a].fresh /\ ~ ag[a].is_cancel

------------------------------------------------------------------------------
(* generate_single_sample_async and generate_sequences_no_post               *)

\* Every rollout that has no complete output starts or resumes its loop.
Submit ==
  /\ sample = "idle" /\ phase = "run"
  /\ sample' = "active"
  /\ ag' = [a \in Agents |->
       IF Complete(a) THEN ag[a]
       ELSE [ag[a] EXCEPT !.at = "loop", !.fresh = FALSE,
               !.vstart = IF ag[a].fresh THEN version ELSE @,
               !.vend = version, !.run = IF a \in ToolAgents THEN 1 ELSE @ + 1]]
  /\ UNCHANGED <<rollouterVars, worker, workerVars, paused, req>>

\* The sample is interrupted if one of its rollouts is; the next submission
\* goes to the next worker.
Gathered ==
  /\ sample = "active" /\ \A a \in Agents : ag[a].at = "rest"
  /\ sample' = IF \E a \in Agents : ag[a].is_cancel THEN "idle" ELSE "done"
  /\ worker' = (worker % Workers) + 1
  /\ UNCHANGED <<rollouterVars, workerVars, paused, ag, req>>

------------------------------------------------------------------------------
(* AsyncLLMServerManager._choose_server                                      *)

Id(a) == <<a, ag[a].run>>
Hits(a) == {i \in 1 .. Len(cache[worker]) : cache[worker][i].id = Id(a)}

\* Mutant: the heap is not restored, its first entry stays the first.
LeastLoadedFirst == 1

LeastLoaded == CHOOSE s \in Servers : \A t \in Servers :
  load[worker][s] < load[worker][t] \/ (load[worker][s] = load[worker][t] /\ s <= t)

\* LRUCache: the entry unused for longest makes room.
Remember(c, entry) == Append(IF Len(c) = MaxCache THEN Tail(c) ELSE c, entry)

\* A known request goes to its server; a new one to the least loaded.
ChooseServer(a, s) ==
  LET c == cache[worker]
      entry == [id |-> Id(a), s |-> s]
  IN IF Hits(a) # {}
       THEN LET i == CHOOSE i \in Hits(a) : TRUE IN
            /\ s = c[i].s
            /\ cache' = [cache EXCEPT ![worker] = Append(RemoveAt(c, i), entry)]
            /\ UNCHANGED load
       ELSE /\ s = LeastLoaded
            /\ load' = [load EXCEPT ![worker][s] = @ + 1]
            /\ cache' = [cache EXCEPT ![worker] = Remember(c, entry)]

\* Mutant: the loop does not look at the cancellation event.
InterruptedIgnored(a) == FALSE

\* The state machine looks at the event before every state.
Interrupted(a) == event[worker]

\* Mutant: an interrupted rollout is continued from its prompt alone.
ContextPrompt(a) == 0

\* prompt_ids of a call: the prompt and the response so far
Context(a) == Len(ag[a].resp)

\* generate_for_partial.remote
Call(a) ==
  /\ ag[a].at = "loop" /\ ag[a].state = "GENERATING"
  /\ a \in ToolAgents => ~ Interrupted(a)
  /\ \E s \in Servers :
       /\ ChooseServer(a, s)
       /\ req' = [req EXCEPT ![a].st = "sent", ![a].s = s,
                             ![a].base = Context(a)]
  /\ ag' = [ag EXCEPT ![a].at = "call"]
  /\ UNCHANGED <<rollouterVars, sample, worker, event, paused>>

------------------------------------------------------------------------------
(* vLLMHttpServerForPartial                                                  *)

serverOther == <<rollouterVars, sample, worker, workerVars, paused, ag>>

\* Mutant: the cancel event of an earlier call of the same request is used.
RegisterKeepsEvent(a) ==
  [req[a] EXCEPT !.st = "run", !.out = <<>>,
                 !.ev = IF @ = "none" THEN "clear" ELSE @]

Register(a) == [req[a] EXCEPT !.st = "run", !.out = <<>>, !.ev = "clear"]

\* A paused server answers at once; otherwise the request is registered.
Admit(a) ==
  /\ req[a].st = "sent"
  /\ req' = [req EXCEPT ![a] =
       IF paused[req[a].s] THEN [@ EXCEPT !.st = "answer", !.out = <<>>, !.cut = TRUE]
                           ELSE Register(a)]
  /\ UNCHANGED serverOther

\* The engine yields an output with one more token.
Token(a) ==
  /\ req[a].st = "run" /\ req[a].base + Len(req[a].out) < ModelLen
  /\ req' = [req EXCEPT ![a].out =
       Append(@, [v |-> version, k |-> req[a].base + Len(@) + 1])]
  /\ UNCHANGED serverOther

\* The engine's generator is exhausted: end of sequence or no room left.
Finish(a) ==
  /\ req[a].st = "run" /\ req[a].out # <<>>
  /\ req' = [req EXCEPT ![a].st = "done"]
  /\ UNCHANGED serverOther

\* asyncio.wait returns because the generation or the cancel event is there.
\* Without any output the entries of the request stay in the tables.
Return(a) ==
  /\ req[a].st = "done" \/ (req[a].st = "run" /\ req[a].ev = "set")
  /\ req' = [req EXCEPT ![a] =
       IF @.out = <<>>
         THEN [@ EXCEPT !.st = "answer", !.cut = TRUE]
         ELSE [@ EXCEPT !.st = "answer", !.cut = (req[a].st = "run"), !.ev = "none"]]
  /\ UNCHANGED serverOther

------------------------------------------------------------------------------
(* AsyncPartialToolAgentLoop                                                 *)

agentOther == <<rollouterVars, sample, worker, workerVars, paused, req>>

ToolLoop(a) ==
  /\ a \in ToolAgents /\ ag[a].at = "loop"
  /\ \/ /\ Interrupted(a)
        /\ ag' = [ag EXCEPT ![a].at = "rest", ![a].is_cancel = TRUE]
     \/ /\ ~ Interrupted(a) /\ ag[a].state = "PENDING"
        /\ ag' = [ag EXCEPT ![a].state = "GENERATING"]
     \/ /\ ~ Interrupted(a) /\ ag[a].state \in {"PROCESSING_TOOLS", "INTERACTING"}
        /\ ag' = [ag EXCEPT ![a].at = "ext"]
  /\ UNCHANGED agentOther

\* Tokens are added to response, mask and log-probs together.
Extended(g, new, m) ==
  [g EXCEPT !.resp = @ \o new,
            !.mask = @ \o [i \in 1 .. Len(new) |-> m],
            !.lp = IF m = 0 /\ @ = <<>> THEN @ ELSE @ \o new]

Cut(q) == SubSeq(q, 1, IF Len(q) < ResponseLength THEN Len(q) ELSE ResponseLength)

\* _build_completed_output, or the next turn of the state machine
Enter(g, state) ==
  IF state = "TERMINATED"
    THEN [g EXCEPT !.state = state, !.at = "rest", !.is_cancel = FALSE,
                   !.resp = Cut(@), !.mask = Cut(@), !.lp = Cut(@)]
    ELSE [g EXCEPT !.state = state, !.at = "loop"]

\* is_cancel: what was generated is kept; long enough counts as ended.
ToolCut(a) ==
  LET g == Extended(ag[a], req[a].out, 1) IN
    IF Len(g.mask) >= ResponseLength
      THEN Enter([g EXCEPT !.turns = @ + 1], "TERMINATED")
      ELSE Enter(g, "GENERATING")

\* The turn ended: its limits, then a tool call, a user or the end.
ToolTurn(a) ==
  LET g == [Extended(ag[a], req[a].out, 1) EXCEPT !.turns = @ + 1] IN
    IF Len(g.mask) >= ResponseLength \/ g.turns >= MaxAssistant \/ g.uturns >= MaxUser
      THEN {Enter(g, "TERMINATED")}
      ELSE {Enter(g, next) : next \in {"PROCESSING_TOOLS", "INTERACTING", "TERMINATED"}}

\* What a tool or a user answers is one more turn of theirs.
Answered(g) == [Extended(g, <<Ext>>, 0) EXCEPT !.uturns = @ + 1]

\* _handle_processing_tools_state: a response that fills the rest is dropped.
ToolsDone(a) ==
  /\ ag[a].at = "ext" /\ ag[a].state = "PROCESSING_TOOLS"
  /\ ag' = [ag EXCEPT ![a] =
       IF Len(@.mask) + 1 >= ResponseLength
         THEN Enter(@, "TERMINATED")
         ELSE Enter(Answered(@), "GENERATING")]
  /\ UNCHANGED agentOther

\* _handle_interacting_state: the user may end the conversation.
UserDone(a) ==
  /\ ag[a].at = "ext" /\ ag[a].state = "INTERACTING"
  /\ \E next \in {"TERMINATED", "GENERATING"} :
       ag' = [ag EXCEPT ![a] = Enter(Answered(@), next)]
  /\ UNCHANGED agentOther

------------------------------------------------------------------------------
(* PartialSingleTurnAgentLoop                                                *)

\* The parts are put together; a response that is long enough is complete.
SingleTurn(a) ==
  LET g == Extended(ag[a], req[a].out, 1) IN
    [g EXCEPT !.at = "rest", !.resp = Cut(@), !.mask = Cut(@), !.lp = Cut(@),
              !.is_cancel = req[a].cut /\ Len(g.resp) < ResponseLength]

\* The answer of the server reaches the agent loop.
Receive(a) ==
  /\ req[a].st = "answer"
  /\ req' = [req EXCEPT ![a] = [NoRequest EXCEPT !.s = req[a].s, !.ev = req[a].ev]]
  /\ \E g \in IF a \notin ToolAgents THEN {SingleTurn(a)}
              ELSE IF req[a].cut THEN {ToolCut(a)} ELSE ToolTurn(a) :
       ag' = [ag EXCEPT ![a] = g]
  /\ UNCHANGED <<rollouterVars, sample, worker, workerVars, paused>>

------------------------------------------------------------------------------
(* FullyAsyncAgentLoopManager.cancel / resume, driven by pause / resume      *)

rollOther == <<sample, worker, load, cache, ag>>

StartCancel ==
  /\ phase = "run" /\ cancels < MaxCancel
  /\ phase' = "cancel" /\ todo' = Everyone /\ cancels' = cancels + 1
  /\ UNCHANGED <<version, rollOther, event, paused, req>>

\* vLLMHttpServerForPartial.cancel sets the event of every registered request.
CancelServer(s) ==
  /\ phase = "cancel" /\ <<"server", s>> \in todo
  /\ todo' = todo \ {<<"server", s>>}
  /\ paused' = [paused EXCEPT ![s] = TRUE]
  /\ req' = [a \in Agents |->
       IF req[a].s = s /\ req[a].ev = "clear" THEN [req[a] EXCEPT !.ev = "set"]
                                              ELSE req[a]]
  /\ UNCHANGED <<phase, version, cancels, rollOther, event>>

ResumeServer(s) ==
  /\ phase = "resume" /\ <<"server", s>> \in todo
  /\ todo' = todo \ {<<"server", s>>}
  /\ paused' = [paused EXCEPT ![s] = FALSE]
  /\ UNCHANGED <<phase, version, cancels, rollOther, event, req>>

\* cancel_agent_loops, resume_agent_loops
SignalWorker(w) ==
  /\ phase \in {"cancel", "resume"} /\ <<"worker", w>> \in todo
  /\ todo' = todo \ {<<"worker", w>>}
  /\ event' = [event EXCEPT ![w] = (phase = "cancel")]
  /\ UNCHANGED <<phase, version, cancels, rollOther, paused, req>>

\* Mutant: the weights are replaced as soon as the servers have answered.
QuietNoGather == TRUE

\* pause() gathers the active tasks before it returns.
Quiet == sample # "active"

\* The weights are replaced and the version is updated between the two calls.
Sync ==
  /\ phase = "cancel" /\ todo = {} /\ Quiet
  /\ phase' = "resume" /\ todo' = Everyone /\ version' = version + 1
  /\ UNCHANGED <<cancels, rollOther, event, paused, req>>

ResumeDone ==
  /\ phase = "resume" /\ todo = {}
  /\ phase' = "run"
  /\ UNCHANGED <<todo, version, cancels, rollOther, event, paused, req>>

PartialDone == sample = "done" /\ phase = "run" /\ cancels = MaxCancel
PartialStop == PartialDone /\ UNCHANGED partialVars

Loop(a) == \/ Call(a) \/ Receive(a) \/ ToolLoop(a) \/ ToolsDone(a) \/ UserDone(a)
Server(a) == Admit(a) \/ Finish(a) \/ Return(a)
Signals == \/ \E s \in Servers : CancelServer(s) \/ ResumeServer(s)
           \/ \E w \in 1 .. Workers : SignalWorker(w)

PartialNext ==
  \/ Submit \/ Gathered
  \/ \E a \in Agents : Loop(a) \/ Server(a) \/ Token(a)
  \/ StartCancel \/ Signals \/ Sync \/ ResumeDone
  \/ PartialStop

PartialSpec == PartialInit /\ [][PartialNext]_partialVars

\* Each call is answered, each loop goes on, each signal arrives.  Nothing is
\* assumed of the rollouter's decision to synchronize.
PartialFairSpec ==
  /\ PartialSpec
  /\ WF_partialVars(Submit \/ Gathered \/ Sync \/ ResumeDone)
  /\ WF_partialVars(Signals)
  /\ \A a \in Agents : WF_partialVars(Loop(a)) /\ WF_partialVars(Admit(a) \/ Return(a))
                       /\ WF_partialVars(Token(a)) /\ SF_partialVars(Finish(a))

------------------------------------------------------------------------------
(* Properties                                                                *)

(* The variables keep their types.                                           *)
PartialTypeOK ==
  /\ phase \in {"run", "cancel", "resume"} /\ todo \subseteq Everyone
  /\ sample \in {"idle", "active", "done"} /\ worker \in 1 .. Workers
  /\ event \in [1 .. Workers -> BOOLEAN] /\ paused \in [Servers -> BOOLEAN]
  /\ \A w \in 1 .. Workers : Len(cache[w]) <= MaxCache
  /\ \A a \in Agents :
       /\ ag[a].at \in {"rest", "loop", "call", "ext"}
       /\ ag[a].state \in {"PENDING", "GENERATING", "PROCESSING_TOOLS",
                           "INTERACTING", "TERMINATED"}
       /\ req[a].st \in {"none", "sent", "run", "done", "answer"}
       /\ req[a].ev \in {"none", "clear", "set"}
       /\ (ag[a].at = "call") = (req[a].st # "none")

(* generate_for_partial / _handle_generating_state_partial / run: however    *)
(* often a response is interrupted, every token of it stands where it was    *)
(* generated: it was produced as the continuation of exactly the tokens      *)
(* before it, none lost and none repeated.                                   *)
TokensInContext ==
  \A a \in Agents : \A i \in 1 .. Len(ag[a].resp) :
    ag[a].resp[i] # Ext => ag[a].resp[i].k = i

(* response_mask and response_logprobs: both line up with the response, the  *)
(* mask singles out the model's own tokens, and each of these has the        *)
(* log-prob it was sampled with.                                             *)
MaskAligned ==
  \A a \in Agents : LET g == ag[a] IN
    /\ Len(g.mask) = Len(g.resp)
    /\ \A i \in 1 .. Len(g.resp) : (g.mask[i] = 1) = (g.resp[i] # Ext)
    /\ g.lp = g.resp

(* The output of an agent loop, however often it was interrupted: its tokens *)
(* in context, its mask and its log-probs next to them.                      *)
OutputContinued == PartialTypeOK /\ TokensInContext /\ MaskAligned

(* param_version_start / param_version_end: a complete response was          *)
(* generated by weights of the versions it is recorded with, in order.       *)
VersionsRecorded ==
  \A a \in Agents : LET r == ag[a].resp
                        Made == {i \in 1 .. Len(r) : r[i] # Ext} IN
    Complete(a) =>
      /\ Len(r) <= ResponseLength
      /\ \A i \in Made : r[i].v \in ag[a].vstart .. ag[a].vend
      /\ \A i, j \in Made : i <= j => r[i].v <= r[j].v

(* _choose_server: the sessions of a worker are spread evenly over the       *)
(* servers, whatever the cache forgets, and no session has two servers.      *)
ServersEven ==
  \A w \in 1 .. Workers :
    /\ \A s, t \in Servers : load[w][s] <= load[w][t] + 1
    /\ \A i, j \in 1 .. Len(cache[w]) :
         cache[w][i].id = cache[w][j].id => i = j

(* pause: however the rollouts stand, an interruption comes to its end.      *)
CancelReturns == (phase = "cancel") ~> (phase # "cancel")

(* An interrupted sample is continued until all its rollouts are complete.   *)
SampleCompletes == <>(sample = "done")
=============================================================================
