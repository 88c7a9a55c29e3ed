---------------------------- MODULE RateLimiter ----------------------------
(***************************************************************************)
(* The rate-limited reward manager (limited.py): run_single of several     *)
(* samples on one event loop, with its two token buckets, the semaphore    *)
(* and the timeout of the reward function.                                 *)
(*                                                                         *)
(* Both buckets hold one second's worth of tokens (max_tokens is           *)
(* rate_limit), so tokens are counted by the time it takes to refill them: *)
(* a bucket gains 1 per tick, holds Second, and a request costs Cost[b]    *)
(* (60 / max_rpm and 60 * estimated_tokens / max_tpm seconds).  A sleep    *)
(* may last longer than asked for.  The lock of a bucket is never held     *)
(* over an await.                                                          *)
(***************************************************************************)
EXTENDS Integers, Sequences, FiniteSets

CONSTANTS
  Items,          \* the samples of the batch
  Second,         \* ticks of a second: max_tokens of both buckets
  RpmCost, TpmCost,
  MaxConcurrent,  \* max_concurrent
  Timeout,        \* timeout, in ticks
  MaxTime         \* bound of the clock

ASSUME LimiterAssumption ==
  /\ {Second, RpmCost, TpmCost, MaxConcurrent, Timeout} \subseteq Nat \ {0}
  /\ MaxTime \in Nat /\ IsFiniteSet(Items)

Buckets == {"rpm", "tpm"}
Cost(b) == IF b = "rpm" THEN RpmCost ELSE TpmCost
Stage(pc, b, t) == [pc |-> pc, b |-> b, t |-> t]
After(b) == IF b = "rpm" THEN Stage("acquire", "tpm", 0) ELSE Stage("sem", "tpm", 0)
Never == -1

VARIABLES
  now,
  is_async,   \* is_async_reward_score
  tokens, last_update,   \* of each bucket
  item,       \* item[i]: pc, its bucket b, the end of its sleep or start of its call
  calls,      \* the reward functions that are really running
  grants,     \* history: grants[b], how many acquires of b have returned
  credit      \* history: an ideal bucket, refilled at every tick, paid at every grant

limiterVars == <<now, is_async, tokens, last_update, item, calls, grants, credit>>
bucketVars == <<tokens, last_update, grants, credit>>

\* init_class and __call__
LimiterInit ==
  /\ now = 0 /\ is_async \in BOOLEAN
  /\ tokens = [b \in Buckets |-> Second] /\ last_update = [b \in Buckets |-> Never]
  /\ item = [i \in Items |-> Stage("acquire", "rpm", 0)]
  /\ calls = {} /\ grants = [b \in Buckets |-> 0] /\ credit = [b \in Buckets |-> Second]

\* Mutant: the time that has passed is counted again at every retry.
ElapsedKept(b) == now

\* The time since the bucket was last brought up to date
Elapsed(b) == IF last_update[b] = Never THEN 0 ELSE now - last_update[b]

Refilled(b) == IF tokens[b] + Elapsed(b) < Second THEN tokens[b] + Elapsed(b) ELSE Second

Granted(b) ==
  /\ grants' = [grants EXCEPT ![b] = @ + 1]
  /\ credit' = [credit EXCEPT ![b] = @ - Cost(b)]
NotGranted == UNCHANGED <<grants, credit>>

\* A request larger than the bucket takes its tokens at once, which may leave
\* less than none, and sleeps until they are there.
AcquireLarge(i) ==
  LET b == item[i].b
      missing == Cost(b) - Refilled(b)
  IN /\ item[i].pc = "acquire" /\ Cost(b) > Second
     /\ tokens' = [tokens EXCEPT ![b] = Refilled(b) - Cost(b)]
     /\ last_update' = [last_update EXCEPT ![b] = now]
     /\ item' = [item EXCEPT ![i] = Stage("owed", b, now + missing)]
     /\ NotGranted /\ UNCHANGED <<now, is_async, calls>>

\* Any other takes them if they are there, or sleeps and tries again.
Acquire(i) ==
  LET b == item[i].b
      missing == Cost(b) - Refilled(b)
  IN /\ item[i].pc = "acquire" /\ Cost(b) <= Second
     /\ last_update' = [last_update EXCEPT ![b] = now]
     /\ \/ /\ missing <= 0
           /\ tokens' = [tokens EXCEPT ![b] = Refilled(b) - Cost(b)]
           /\ item' = [item EXCEPT ![i] = After(b)]
           /\ Granted(b)
        \/ /\ missing > 0
           /\ tokens' = [tokens EXCEPT ![b] = Refilled(b)]
           /\ item' = [item EXCEPT ![i] = Stage("retry", b, now + missing)]
           /\ NotGranted
     /\ UNCHANGED <<now, is_async, calls>>

\* asyncio.sleep is over: try again, or the tokens taken before are there.
Wake(i) ==
  LET b == item[i].b
  IN /\ item[i].pc \in {"retry", "owed"} /\ now >= item[i].t
     /\ \/ /\ item[i].pc = "retry" /\ NotGranted
           /\ item' = [item EXCEPT ![i] = Stage("acquire", b, 0)]
        \/ /\ item[i].pc = "owed" /\ Granted(b)
           /\ item' = [item EXCEPT ![i] = After(b)]
     /\ UNCHANGED <<now, is_async, tokens, last_update, calls>>

Holding == {i \in Items : item[i].pc = "run"}

\* The semaphore is not exhausted.
FreeSlot == Cardinality(Holding) < MaxConcurrent

Enter(i) ==
  /\ item[i].pc = "sem" /\ FreeSlot
  /\ item' = [item EXCEPT ![i] = Stage("run", "tpm", now)]
  /\ calls' = calls \cup {i}
  /\ UNCHANGED <<now, is_async, bucketVars>>

\* The reward function returns, or raises (and the reward is 0).
Scored(i) ==
  /\ item[i].pc = "run" /\ i \in calls
  /\ item' = [item EXCEPT ![i] = Stage("done", "tpm", 0)]
  /\ calls' = calls \ {i}
  /\ UNCHANGED <<now, is_async, bucketVars>>

\* wait_for gives up.  A coroutine is cancelled, a thread of the executor is not.
TimedOut(i) ==
  /\ item[i].pc = "run" /\ now >= item[i].t + Timeout
  /\ item' = [item EXCEPT ![i] = Stage("done", "tpm", 0)]
  /\ calls' = IF is_async THEN calls \ {i} ELSE calls
  /\ UNCHANGED <<now, is_async, bucketVars>>

ThreadEnds(i) ==
  /\ item[i].pc = "done" /\ i \in calls
  /\ calls' = calls \ {i}
  /\ UNCHANGED <<now, is_async, item, bucketVars>>

Tick ==
  /\ now < MaxTime /\ now' = now + 1
  /\ credit' = [b \in Buckets |-> IF credit[b] < Second THEN credit[b] + 1 ELSE Second]
  /\ UNCHANGED <<is_async, tokens, last_update, item, calls, grants>>

LimiterDone == now = MaxTime /\ calls = {} /\ \A i \in Items : item[i].pc # "acquire"

LimiterNext ==
  \/ \E i \in Items : \/ AcquireLarge(i) \/ Acquire(i) \/ Wake(i)
                      \/ Enter(i) \/ Scored(i) \/ TimedOut(i) \/ ThreadEnds(i)
  \/ Tick

LimiterSpec == LimiterInit /\ [][LimiterNext]_limiterVars

------------------------------------------------------------------------------
(* Properties                                                                *)

(* AsyncTokenBucket: however the requests interleave, however late they are  *)
(* woken, no window of time sees more of them pass than a full bucket and    *)
(* its refill pay for; requests larger than the bucket never pass before the *)
(* tokens of all before them and their own have been refilled.               *)
RateKept ==
  \A b \in Buckets :
    IF Cost(b) <= Second THEN credit[b] >= 0
                         ELSE grants[b] * Cost(b) <= Second + now

(* The bucket's own count of its tokens: tokens that were handed out are     *)
(* never handed out again, and no more than a bucketful is ever saved up.    *)
TokensConserved ==
  \A b \in Buckets :
    /\ tokens[b] <= Second
    /\ tokens[b] + grants[b] * Cost(b) <= Second + now

(* _semaphore: with a coroutine as reward function, at most max_concurrent   *)
(* of them run, timeouts included.                                           *)
CallsBoundedAsync == is_async => Cardinality(calls) <= MaxConcurrent

(* The three layers of the limiter hold together, whatever waits, times out  *)
(* or is woken late.                                                         *)
LimitsKept == RateKept /\ TokensConserved /\ CallsBoundedAsync
=============================================================================
