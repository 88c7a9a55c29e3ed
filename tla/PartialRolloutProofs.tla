------------------------ MODULE PartialRolloutProofs ------------------------
(***************************************************************************)
(* Proofs about interrupted generation: what a rollout has generated stays *)
(* whole and in order, however often it is interrupted, and the sessions   *)
(* of a worker are spread evenly over the servers.  For any rollouts,      *)
(* servers, workers, limits and number of interruptions.                   *)
(***************************************************************************)
EXTENDS PartialRollout, FiniteSetTheorems, TLAPS

States == {"PENDING", "GENERATING", "PROCESSING_TOOLS", "INTERACTING", "TERMINATED"}
TokenType == [v : Int, k : Int]
Bits == {0, 1}
AgentType ==
  [at : {"rest", "loop", "call", "ext"}, state : States, fresh : BOOLEAN,
   is_cancel : BOOLEAN, resp : Seq(TokenType), mask : Seq(Bits),
   lp : Seq(TokenType), turns : Nat, uturns : Nat, vstart : Nat, vend : Nat, run : Nat]
CallType ==
  [st : {"none", "sent", "run", "done", "answer"}, s : Servers, base : Nat,
   out : Seq(TokenType), ev : {"none", "clear", "set"}, cut : BOOLEAN]
EntryType == [id : Agents \X Nat, s : Servers]

TypeInv ==
  /\ phase \in {"run", "cancel", "resume"} /\ todo \subseteq Everyone
  /\ version \in Nat /\ sample \in {"idle", "active", "done"} /\ worker \in 1 .. Workers
  /\ event \in [1 .. Workers -> BOOLEAN] /\ paused \in [Servers -> BOOLEAN]
  /\ load \in [1 .. Workers -> [Servers -> Nat]]
  /\ cache \in [1 .. Workers -> Seq(EntryType)]
  /\ ag \in [Agents -> AgentType] /\ req \in [Agents -> CallType]

\* Tokens, mask and log-probs of an output line up, each token in its context.
Aligned(g) ==
  /\ \A i \in 1 .. Len(g.resp) : g.resp[i] # Ext => g.resp[i].k = i
  /\ Len(g.mask) = Len(g.resp)
  /\ \A i \in 1 .. Len(g.resp) : (g.mask[i] = 1) = (g.resp[i] # Ext)
  /\ g.lp = g.resp

\* The versions that made the tokens are those recorded, in order.
Dated(g) ==
  /\ g.vstart <= g.vend
  /\ \A i \in 1 .. Len(g.resp) : g.resp[i] # Ext => g.resp[i].v \in g.vstart .. g.vend
  /\ \A i, j \in 1 .. Len(g.resp) :
       i <= j /\ g.resp[i] # Ext /\ g.resp[j] # Ext => g.resp[i].v <= g.resp[j].v

\* A tool or a user answers a turn of the model that left room for it.
Spoken(g) == g.state \in {"PROCESSING_TOOLS", "INTERACTING"} =>
               g.resp # <<>> /\ Len(g.resp) < ResponseLength

\* What an agent loop holds, at a version of the weights.
AgentInv(g, ver, smp) ==
  /\ Aligned(g) /\ Dated(g) /\ Spoken(g)
  /\ Len(g.resp) <= ResponseLength
  /\ g.fresh => g.resp = <<>>
  /\ g.vend <= ver
  /\ g.at # "rest" => smp = "active" /\ g.vend = ver /\ ~ g.fresh

\* A call under way continues the response it was made with.
CallInv(g, q, ver) ==
  /\ (g.at = "call") = (q.st # "none")
  /\ q.st # "none" => g.state = "GENERATING" /\ q.base = Len(g.resp)
  /\ q.st \in {"none", "sent"} => q.out = <<>>
  /\ \A i \in 1 .. Len(q.out) :
       q.out[i] # Ext /\ q.out[i].k = q.base + i /\ q.out[i].v = ver
  /\ q.st = "done" \/ (q.st = "answer" /\ ~ q.cut) => q.out # <<>>

\* The sessions of a worker and the load of its servers.
SessionInv ==
  \A w \in 1 .. Workers :
    /\ Len(cache[w]) <= MaxCache
    /\ \A i, j \in 1 .. Len(cache[w]) : cache[w][i].id = cache[w][j].id => i = j
    /\ \A s, t \in Servers : load[w][s] <= load[w][t] + 1

PartialInv ==
  /\ TypeInv /\ SessionInv
  /\ \A a \in Agents : AgentInv(ag[a], version, sample) /\ CallInv(ag[a], req[a], version)

USE PartialAssumption

------------------------------------------------------------------------------
(* The operators                                                             *)

\* Any set of natural numbers that is not empty has a least element.
LEMMA LeastNatural ==
  ASSUME NEW T \in SUBSET Nat, T # {}
  PROVE  \E x \in T : \A y \in T : x <= y
<1>1. PICK x \in T : \A y \in T : ~ (<<y, x>> \in OpToRel(<, Nat))
  BY WFMin, NatLessThanWellFounded
<1>2. \A y \in T : ~ (y < x)
  BY <1>1 DEF OpToRel
<1>3. QED
  BY <1>2

\* Two sequences put together.
LEMMA Joined ==
  ASSUME NEW S, NEW s \in Seq(S), NEW t \in Seq(S)
  PROVE  /\ s \o t \in Seq(S) /\ Len(s \o t) = Len(s) + Len(t)
         /\ \A i \in 1 .. Len(s) : (s \o t)[i] = s[i]
         /\ \A i \in 1 .. Len(t) : (s \o t)[Len(s) + i] = t[i]
         /\ \A i \in 1 .. Len(s \o t) :
              i \in 1 .. Len(s) \/ (i > Len(s) /\ i - Len(s) \in 1 .. Len(t))
  OBVIOUS

\* The tokens of a turn are added to response, mask and log-probs together.
LEMMA ExtendedByModel ==
  ASSUME NEW g \in AgentType, Aligned(g), Dated(g), NEW new \in Seq(TokenType),
         \A i \in 1 .. Len(new) :
           new[i] # Ext /\ new[i].k = Len(g.resp) + i /\ new[i].v = g.vend
  PROVE  LET h == Extended(g, new, 1) IN
           /\ h \in AgentType /\ Aligned(h) /\ Dated(h)
           /\ Len(h.resp) = Len(g.resp) + Len(new)
           /\ h.vend = g.vend /\ h.fresh = g.fresh /\ h.state = g.state
<1> DEFINE h == Extended(g, new, 1)
           ones == [i \in 1 .. Len(new) |-> 1]
           R == g.resp \o new
           M == g.mask \o ones
           n == Len(g.resp)
<1>1. /\ g.resp \in Seq(TokenType) /\ g.mask \in Seq(Bits) /\ g.lp = g.resp
      /\ Len(g.mask) = n /\ n \in Nat /\ Len(new) \in Nat
      /\ g.vstart \in Nat /\ g.vend \in Nat /\ g.vstart <= g.vend
  BY DEF AgentType, Aligned, Dated
<1>2. ones \in Seq(Bits) /\ Len(ones) = Len(new) /\ \A i \in 1 .. Len(new) : ones[i] = 1
  BY <1>1 DEF Bits
<1> HIDE DEF ones
<1>3. /\ R \in Seq(TokenType) /\ Len(R) = n + Len(new)
      /\ \A i \in 1 .. n : R[i] = g.resp[i]
      /\ \A i \in 1 .. Len(new) : R[n + i] = new[i]
      /\ \A i \in 1 .. Len(R) : i \in 1 .. n \/ (i > n /\ i - n \in 1 .. Len(new))
  BY <1>1, Joined
<1>4. /\ M \in Seq(Bits) /\ Len(M) = n + Len(new)
      /\ \A i \in 1 .. n : M[i] = g.mask[i]
      /\ \A i \in 1 .. Len(new) : M[n + i] = 1
  <2>a. g.mask \in Seq(Bits) /\ ones \in Seq(Bits)
    BY <1>1, <1>2
  <2>1. /\ M \in Seq(Bits) /\ Len(M) = Len(g.mask) + Len(ones)
        /\ \A i \in 1 .. Len(g.mask) : M[i] = g.mask[i]
        /\ \A i \in 1 .. Len(ones) : M[Len(g.mask) + i] = ones[i]
    BY ONLY <2>a, Joined
  <2> HIDE DEF M
  <2>2. QED
    BY <1>1, <1>2, <2>1
<1>5. h = [g EXCEPT !.resp = R, !.mask = M, !.lp = R]
  BY <1>1 DEF Extended, ones
<1> HIDE DEF R, M, h
<1>6. /\ h \in AgentType /\ h.resp = R /\ h.mask = M /\ h.lp = R
      /\ h.vstart = g.vstart /\ h.vend = g.vend /\ h.fresh = g.fresh
      /\ h.state = g.state
  BY <1>3, <1>4, <1>5 DEF AgentType
<1>7. ASSUME NEW i \in 1 .. Len(R)
      PROVE  /\ R[i] # Ext => R[i].k = i /\ R[i].v \in g.vstart .. g.vend
             /\ (M[i] = 1) = (R[i] # Ext)
             /\ i > n => R[i].v = g.vend
  <2>1. CASE i \in 1 .. n
    <3>1. R[i] = g.resp[i] /\ M[i] = g.mask[i]
      BY <1>3, <1>4, <2>1
    <3>2. QED
      BY <1>1, <2>1, <3>1 DEF Aligned, Dated
  <2>2. CASE i > n /\ i - n \in 1 .. Len(new)
    <3>1. n + (i - n) = i
      BY <1>1, <1>3
    <3>2. R[i] = new[i - n] /\ M[i] = 1
      BY <1>3, <1>4, <2>2, <3>1
    <3>3. R[i] # Ext /\ R[i].k = i /\ R[i].v = g.vend
      BY <2>2, <3>1, <3>2
    <3>4. QED
      BY <1>1, <3>2, <3>3
  <2>3. QED
    BY <1>3, <2>1, <2>2
<1>8. Aligned(h)
  BY <1>3, <1>4, <1>6, <1>7 DEF Aligned
<1>9. ASSUME NEW i \in 1 .. Len(R), NEW j \in 1 .. Len(R), i <= j, R[i] # Ext, R[j] # Ext
      PROVE  R[i].v <= R[j].v
  <2>1. CASE j > n
    BY <1>1, <1>7, <1>9, <2>1
  <2>2. CASE ~ (j > n)
    <3>1. i \in 1 .. n /\ j \in 1 .. n
      BY <1>1, <1>3, <1>9, <2>2
    <3>2. R[i] = g.resp[i] /\ R[j] = g.resp[j]
      BY <1>3, <3>1
    <3>3. QED
      BY <1>9, <3>1, <3>2 DEF Dated
  <2>3. QED
    BY <2>1, <2>2
<1>10. Dated(h)
  BY <1>1, <1>6, <1>7, <1>9 DEF Dated
<1>11. QED
  BY <1>3, <1>6, <1>8, <1>10 DEF h

\* The tokens of a tool or a user are added to an output that has some.
LEMMA ExtendedByOther ==
  ASSUME NEW g \in AgentType, Aligned(g), Dated(g), g.resp # <<>>
  PROVE  LET h == Extended(g, <<Ext>>, 0) IN
           /\ h \in AgentType /\ Aligned(h) /\ Dated(h)
           /\ Len(h.resp) = Len(g.resp) + 1
           /\ h.vend = g.vend /\ h.fresh = g.fresh
<1> DEFINE h == Extended(g, <<Ext>>, 0)
           R == Append(g.resp, Ext)
           M == Append(g.mask, 0)
           n == Len(g.resp)
<1>1. /\ g.resp \in Seq(TokenType) /\ g.mask \in Seq(Bits) /\ g.lp = g.resp
      /\ Len(g.mask) = n /\ n \in Nat /\ Ext \in TokenType
  BY DEF AgentType, Aligned, Ext, TokenType
<1>a. 0 \in Bits
  BY DEF Bits
<1>2. /\ R \in Seq(TokenType) /\ Len(R) = n + 1 /\ R[n + 1] = Ext
      /\ \A i \in 1 .. n : R[i] = g.resp[i]
      /\ M \in Seq(Bits) /\ Len(M) = n + 1 /\ M[n + 1] = 0
      /\ \A i \in 1 .. n : M[i] = g.mask[i]
      /\ \A i \in 1 .. n + 1 : i \in 1 .. n \/ i = n + 1
  <2>1. /\ R \in Seq(TokenType) /\ Len(R) = n + 1 /\ R[n + 1] = Ext
        /\ \A i \in 1 .. n : R[i] = g.resp[i]
    BY <1>1
  <2>2. /\ M \in Seq(Bits) /\ Len(M) = n + 1 /\ M[n + 1] = 0
        /\ \A i \in 1 .. n : M[i] = g.mask[i]
    BY <1>1, <1>a
  <2>3. QED
    BY <1>1, <2>1, <2>2
<1>3. g.resp \o <<Ext>> = R
  BY <1>1
<1>4. g.mask \o [i \in 1 .. Len(<<Ext>>) |-> 0] = M
  <2>1. [i \in 1 .. Len(<<Ext>>) |-> 0] = <<0>>
    OBVIOUS
  <2>2. g.mask \o <<0>> = M
    BY <1>1
  <2>3. QED
    BY <2>1, <2>2
<1>5. h = [g EXCEPT !.resp = R, !.mask = M, !.lp = R]
  BY <1>1, <1>3, <1>4 DEF Extended
<1> HIDE DEF R, M, h
<1>6. /\ h \in AgentType /\ h.resp = R /\ h.mask = M /\ h.lp = R
      /\ h.vstart = g.vstart /\ h.vend = g.vend /\ h.fresh = g.fresh
  BY <1>2, <1>5 DEF AgentType
<1>7. ASSUME NEW i \in 1 .. n + 1
      PROVE  /\ R[i] # Ext => /\ i \in 1 .. n /\ R[i] = g.resp[i] /\ R[i].k = i
                              /\ R[i].v \in g.vstart .. g.vend
             /\ (M[i] = 1) = (R[i] # Ext)
  <2>1. CASE i \in 1 .. n
    <3>1. R[i] = g.resp[i] /\ M[i] = g.mask[i]
      BY <1>2, <2>1
    <3>2. QED
      BY <2>1, <3>1 DEF Aligned, Dated
  <2>2. CASE i = n + 1
    BY <1>2, <2>2
  <2>3. QED
    BY <1>2, <2>1, <2>2
<1>8. Aligned(h)
  BY <1>2, <1>6, <1>7 DEF Aligned
<1>b. ASSUME NEW i \in 1 .. n + 1, NEW j \in 1 .. n + 1, i <= j, R[i] # Ext, R[j] # Ext
      PROVE  R[i].v <= R[j].v
  BY <1>7, <1>b DEF Dated
<1>9. Dated(h)
  <2>1. h.vstart <= h.vend
    BY <1>6 DEF Dated
  <2>2. QED
    BY <1>2, <1>6, <1>7, <1>b, <2>1, SMTT(30) DEF Dated
<1>10. QED
  BY <1>2, <1>6, <1>8, <1>9 DEF h

\* A sequence cut to response_length.
LEMMA CutFacts ==
  ASSUME NEW S, NEW s \in Seq(S)
  PROVE  /\ Cut(s) \in Seq(S) /\ Len(Cut(s)) <= ResponseLength
         /\ Len(Cut(s)) <= Len(s) /\ Len(Cut(s)) \in Nat
         /\ Len(Cut(s)) = IF Len(s) < ResponseLength THEN Len(s) ELSE ResponseLength
         /\ \A i \in 1 .. Len(Cut(s)) : i \in 1 .. Len(s) /\ Cut(s)[i] = s[i]
<1>1. Len(s) \in Nat /\ ResponseLength \in Nat
  OBVIOUS
<1>2. QED
  BY <1>1 DEF Cut

CutAll(g) == [g EXCEPT !.resp = Cut(@), !.mask = Cut(@), !.lp = Cut(@)]

\* An output that is cut stays aligned.
LEMMA CutAligned ==
  ASSUME NEW g \in AgentType, Aligned(g), Dated(g)
  PROVE  LET h == CutAll(g) IN
           /\ h \in AgentType /\ Aligned(h) /\ Dated(h)
           /\ h.resp = Cut(g.resp) /\ Len(h.resp) <= ResponseLength
           /\ h.vend = g.vend /\ h.fresh = g.fresh /\ h.state = g.state
<1> DEFINE h == CutAll(g)
           R == Cut(g.resp)
           M == Cut(g.mask)
<1>1. /\ g.resp \in Seq(TokenType) /\ g.mask \in Seq(Bits) /\ g.lp = g.resp
      /\ Len(g.mask) = Len(g.resp)
  BY DEF AgentType, Aligned
<1>2. /\ R \in Seq(TokenType) /\ Len(R) <= ResponseLength
      /\ \A i \in 1 .. Len(R) : i \in 1 .. Len(g.resp) /\ R[i] = g.resp[i]
      /\ M \in Seq(Bits) /\ Len(M) = Len(R)
      /\ \A i \in 1 .. Len(R) : M[i] = g.mask[i]
  BY <1>1, CutFacts, SMTT(30)
<1>3. h = [g EXCEPT !.resp = R, !.mask = M, !.lp = R]
  BY <1>1 DEF CutAll
<1> HIDE DEF R, M, h
<1>4. /\ h \in AgentType /\ h.resp = R /\ h.mask = M /\ h.lp = R
      /\ h.vstart = g.vstart /\ h.vend = g.vend /\ h.fresh = g.fresh
      /\ h.state = g.state
  BY <1>2, <1>3 DEF AgentType
<1>a. ASSUME NEW i \in 1 .. Len(R)
      PROVE  (R[i] # Ext => R[i].k = i) /\ (M[i] = 1) = (R[i] # Ext)
  <2>1. i \in 1 .. Len(g.resp) /\ R[i] = g.resp[i] /\ M[i] = g.mask[i]
    BY <1>2
  <2>2. QED
    BY <2>1 DEF Aligned
<1>5. Aligned(h)
  BY <1>2, <1>4, <1>a DEF Aligned
<1>6. Dated(h)
  <2>1. h.vstart <= h.vend
    BY <1>4 DEF Dated
  <2>2. ASSUME NEW i \in 1 .. Len(R), R[i] # Ext
        PROVE  R[i].v \in g.vstart .. g.vend
    BY <1>2, <2>2 DEF Dated
  <2>3. ASSUME NEW i \in 1 .. Len(R), NEW j \in 1 .. Len(R), i <= j, R[i] # Ext, R[j] # Ext
        PROVE  R[i].v <= R[j].v
    <3>1. /\ i \in 1 .. Len(g.resp) /\ j \in 1 .. Len(g.resp)
          /\ R[i] = g.resp[i] /\ R[j] = g.resp[j]
      BY <1>2
    <3>2. QED
      BY <2>3, <3>1 DEF Dated
  <2>4. QED
    BY <1>4, <2>1, <2>2, <2>3, Zenon DEF Dated
<1>7. QED
  BY <1>2, <1>4, <1>5, <1>6 DEF h, R

\* What _build_completed_output or the next turn makes of an output.
LEMMA EnterFacts ==
  ASSUME NEW g \in AgentType, Aligned(g), Dated(g), NEW state \in States,
         state \in {"PROCESSING_TOOLS", "INTERACTING"} =>
           g.resp # <<>> /\ Len(g.resp) < ResponseLength,
         state # "TERMINATED" => Len(g.resp) <= ResponseLength
  PROVE  LET h == Enter(g, state) IN
           /\ h \in AgentType /\ Aligned(h) /\ Dated(h) /\ Spoken(h)
           /\ Len(h.resp) <= ResponseLength
           /\ h.vend = g.vend /\ h.fresh = g.fresh /\ h.at \in {"rest", "loop"}
<1>1. CASE state = "TERMINATED"
  <2> DEFINE c == CutAll(g)
             h == Enter(g, state)
  <2>1. /\ c \in AgentType /\ Aligned(c) /\ Dated(c) /\ Len(c.resp) <= ResponseLength
        /\ c.vend = g.vend /\ c.fresh = g.fresh
    BY CutAligned
  <2>2. h = [c EXCEPT !.state = state, !.at = "rest", !.is_cancel = FALSE]
    BY <1>1 DEF Enter, CutAll, AgentType
  <2> HIDE DEF c, h
  <2>3. /\ h \in AgentType /\ h.resp = c.resp /\ h.mask = c.mask /\ h.lp = c.lp
        /\ h.vstart = c.vstart /\ h.vend = c.vend /\ h.fresh = c.fresh
        /\ h.at = "rest" /\ h.state = "TERMINATED"
    BY <1>1, <2>1, <2>2 DEF AgentType, States
  <2>4. Aligned(h) /\ Dated(h) /\ Spoken(h)
    BY <2>1, <2>3 DEF Aligned, Dated, Spoken
  <2>5. QED
    BY <2>1, <2>3, <2>4 DEF h
<1>2. CASE state # "TERMINATED"
  <2> DEFINE h == Enter(g, state)
  <2>1. h = [g EXCEPT !.state = state, !.at = "loop"]
    BY <1>2 DEF Enter
  <2> HIDE DEF h
  <2>2. /\ h \in AgentType /\ h.resp = g.resp /\ h.mask = g.mask /\ h.lp = g.lp
        /\ h.vstart = g.vstart /\ h.vend = g.vend /\ h.fresh = g.fresh
        /\ h.at = "loop" /\ h.state = state
    BY <2>1 DEF AgentType, States
  <2>3. Aligned(h) /\ Dated(h) /\ Spoken(h)
    BY <2>2 DEF Aligned, Dated, Spoken
  <2>4. QED
    BY <1>2, <2>2, <2>3 DEF h
<1>3. QED
  BY <1>1, <1>2

------------------------------------------------------------------------------
(* The steps of one rollout                                                  *)

\* A step that changes one agent loop and its call, and the sessions.
LEMMA RolloutStep ==
  ASSUME PartialInv, NEW a \in Agents, NEW g \in AgentType, NEW q \in CallType,
         AgentInv(g, version, sample), CallInv(g, q, version),
         ag' = [ag EXCEPT ![a] = g], req' = [req EXCEPT ![a] = q],
         UNCHANGED <<rollouterVars, sample, worker, event, paused>>,
         load' \in [1 .. Workers -> [Servers -> Nat]],
         cache' \in [1 .. Workers -> Seq(EntryType)],
         SessionInv'
  PROVE  PartialInv'
<1>1. UNCHANGED <<phase, todo, version, sample, worker, event, paused>>
  BY DEF rollouterVars
<1>2. ag \in [Agents -> AgentType] /\ req \in [Agents -> CallType]
  BY DEF PartialInv, TypeInv
<1>3. /\ ag' \in [Agents -> AgentType] /\ req' \in [Agents -> CallType]
      /\ ag'[a] = g /\ req'[a] = q
      /\ \A b \in Agents : b # a => ag'[b] = ag[b] /\ req'[b] = req[b]
  BY <1>2
<1>4. TypeInv'
  BY <1>1, <1>3 DEF PartialInv, TypeInv
<1>5. ASSUME NEW b \in Agents
      PROVE  AgentInv(ag'[b], version', sample') /\ CallInv(ag'[b], req'[b], version')
  <2>1. CASE b = a
    BY <1>1, <1>3, <2>1
  <2>2. CASE b # a
    BY <1>1, <1>3, <2>2 DEF PartialInv
  <2>3. QED
    BY <2>1, <2>2
<1>6. QED
  BY <1>4, <1>5 DEF PartialInv

\* A step that changes one agent loop and its call alone.
LEMMA OneRollout ==
  ASSUME PartialInv, NEW a \in Agents, NEW g \in AgentType, NEW q \in CallType,
         AgentInv(g, version, sample), CallInv(g, q, version),
         ag' = [ag EXCEPT ![a] = g], req' = [req EXCEPT ![a] = q],
         UNCHANGED <<rollouterVars, sample, worker, workerVars, paused>>
  PROVE  PartialInv'
<1>1. UNCHANGED <<event, load, cache>>
  BY DEF workerVars
<1>2. /\ load' \in [1 .. Workers -> [Servers -> Nat]]
      /\ cache' \in [1 .. Workers -> Seq(EntryType)]
  BY <1>1 DEF PartialInv, TypeInv
<1>3. SessionInv'
  BY <1>1 DEF PartialInv, SessionInv
<1>4. QED
  BY <1>1, <1>2, <1>3, RolloutStep

\* What holds of a rollout.
LEMMA OfRollout ==
  ASSUME PartialInv, NEW a \in Agents
  PROVE  /\ ag[a] \in AgentType /\ req[a] \in CallType /\ version \in Nat
         /\ AgentInv(ag[a], version, sample) /\ CallInv(ag[a], req[a], version)
         /\ ag = [ag EXCEPT ![a] = ag[a]] /\ req = [req EXCEPT ![a] = req[a]]
  BY DEF PartialInv, TypeInv

\* A step of the server that changes the call alone.
LEMMA OneCall ==
  ASSUME PartialInv, NEW a \in Agents, NEW q \in CallType, CallInv(ag[a], q, version),
         req' = [req EXCEPT ![a] = q], UNCHANGED serverOther
  PROVE  PartialInv'
<1>1. ag' = [ag EXCEPT ![a] = ag[a]]
  BY OfRollout DEF serverOther
<1>2. UNCHANGED <<rollouterVars, sample, worker, workerVars, paused>>
  BY DEF serverOther
<1>3. QED
  BY <1>1, <1>2, OfRollout, OneRollout

\* generate_for_partial: a paused server answers, another registers the request.
LEMMA AdmitInv ==
  ASSUME PartialInv, NEW a \in Agents, Admit(a)
  PROVE  PartialInv'
<1> DEFINE q == IF paused[req[a].s] THEN [req[a] EXCEPT !.st = "answer", !.out = <<>>, !.cut = TRUE]
                                    ELSE Register(a)
<1>1. /\ req[a].st = "sent" /\ req' = [req EXCEPT ![a] = q] /\ UNCHANGED serverOther
  BY DEF Admit
<1>2. req[a] \in CallType /\ CallInv(ag[a], req[a], version)
  BY OfRollout
<1>3. <<>> \in Seq(TokenType) /\ Len(<<>>) = 0
  OBVIOUS
<1>4. /\ q \in CallType /\ q.out = <<>> /\ q.base = req[a].base
      /\ q.st = "run" \/ (q.st = "answer" /\ q.cut)
  BY <1>2, <1>3 DEF Register, CallType
<1> HIDE DEF q
<1>5. CallInv(ag[a], q, version)
  BY <1>1, <1>2, <1>3, <1>4 DEF CallInv
<1>6. QED
  BY <1>1, <1>4, <1>5, OneCall

\* One element more.
LEMMA OneMore ==
  ASSUME NEW S, NEW s \in Seq(S), NEW e \in S
  PROVE  /\ Append(s, e) \in Seq(S) /\ Append(s, e) # <<>>
         /\ Len(Append(s, e)) = Len(s) + 1
         /\ \A i \in 1 .. Len(s) : Append(s, e)[i] = s[i]
         /\ Append(s, e)[Len(s) + 1] = e
         /\ \A i \in 1 .. Len(s) + 1 : i \in 1 .. Len(s) \/ i = Len(s) + 1
<1>1. /\ Append(s, e) \in Seq(S) /\ Len(Append(s, e)) = Len(s) + 1 /\ Len(s) \in Nat
  OBVIOUS
<1>a. Append(s, e)[Len(s) + 1] = e
  OBVIOUS
<1>b. Len(Append(s, e)) # 0
  BY <1>1
<1>2. Append(s, e) # <<>>
  BY <1>b
<1>3. \A i \in 1 .. Len(s) : Append(s, e)[i] = s[i]
  OBVIOUS
<1>4. \A i \in 1 .. Len(s) + 1 : i \in 1 .. Len(s) \/ i = Len(s) + 1
  BY <1>1
<1>5. QED
  BY <1>1, <1>a, <1>2, <1>3, <1>4

\* The engine yields one more token, made by the weights in force.
LEMMA TokenInv ==
  ASSUME PartialInv, NEW a \in Agents, Token(a)
  PROVE  PartialInv'
<1> DEFINE t == [v |-> version, k |-> req[a].base + Len(req[a].out) + 1]
           q == [req[a] EXCEPT !.out = Append(req[a].out, t)]
<1>1. /\ req[a].st = "run" /\ UNCHANGED serverOther
      /\ req' = [req EXCEPT ![a] = q]
  BY DEF Token
<1>2. /\ req[a] \in CallType /\ CallInv(ag[a], req[a], version) /\ version \in Nat
      /\ req[a].base \in Nat /\ req[a].out \in Seq(TokenType) /\ Len(req[a].out) \in Nat
  <2>1. req[a] \in CallType /\ CallInv(ag[a], req[a], version) /\ version \in Nat
    BY OfRollout
  <2>2. req[a].out \in Seq(TokenType) /\ req[a].base \in Nat
    BY <2>1 DEF CallType
  <2>3. QED
    BY <2>1, <2>2
<1>3. /\ t \in TokenType /\ t # Ext /\ t.v = version
      /\ t.k = req[a].base + (Len(req[a].out) + 1)
  <2>1. ASSUME NEW b \in Nat, NEW n \in Nat, NEW v \in Nat
        PROVE  LET x == [v |-> v, k |-> b + n + 1] IN
                 x \in TokenType /\ x # Ext /\ x.v = v /\ x.k = b + (n + 1)
    BY DEF TokenType, Ext
  <2> DEFINE b == req[a].base
             n == Len(req[a].out)
  <2>2. b \in Nat /\ n \in Nat /\ version \in Nat
    BY <1>2
  <2>3. t = [v |-> version, k |-> b + n + 1]
    OBVIOUS
  <2> HIDE DEF b, n, t
  <2>4. t \in TokenType /\ t # Ext /\ t.v = version /\ t.k = b + (n + 1)
    BY <2>1, <2>2, <2>3
  <2>5. QED
    BY <2>4 DEF b, n
<1> HIDE DEF t
<1>4. /\ Append(req[a].out, t) \in Seq(TokenType) /\ Append(req[a].out, t) # <<>>
      /\ Len(Append(req[a].out, t)) = Len(req[a].out) + 1
      /\ \A i \in 1 .. Len(req[a].out) : Append(req[a].out, t)[i] = req[a].out[i]
      /\ Append(req[a].out, t)[Len(req[a].out) + 1] = t
      /\ \A i \in 1 .. Len(req[a].out) + 1 :
           i \in 1 .. Len(req[a].out) \/ i = Len(req[a].out) + 1
  BY <1>2, <1>3, OneMore
<1>5. /\ q \in CallType /\ q.out = Append(req[a].out, t) /\ q.st = "run"
      /\ q.base = req[a].base
  BY <1>1, <1>2, <1>4 DEF CallType
<1> HIDE DEF q
<1>6. ASSUME NEW i \in 1 .. Len(q.out)
      PROVE  q.out[i] # Ext /\ q.out[i].k = q.base + i /\ q.out[i].v = version
  <2>1. CASE i \in 1 .. Len(req[a].out)
    BY <1>2, <1>4, <1>5, <2>1 DEF CallInv
  <2>2. CASE i = Len(req[a].out) + 1
    BY <1>3, <1>4, <1>5, <2>2
  <2>3. QED
    BY <1>4, <1>5, <2>1, <2>2
<1>7. CallInv(ag[a], q, version)
  BY <1>1, <1>2, <1>5, <1>6 DEF CallInv
<1>8. QED
  BY <1>1, <1>5, <1>7, OneCall

\* The engine's generator is exhausted.
LEMMA FinishInv ==
  ASSUME PartialInv, NEW a \in Agents, Finish(a)
  PROVE  PartialInv'
<1> DEFINE q == [req[a] EXCEPT !.st = "done"]
<1>1. /\ req[a].st = "run" /\ req[a].out # <<>> /\ UNCHANGED serverOther
      /\ req' = [req EXCEPT ![a] = q]
  BY DEF Finish
<1>2. req[a] \in CallType /\ CallInv(ag[a], req[a], version)
  BY OfRollout
<1>3. q \in CallType /\ q.out = req[a].out /\ q.base = req[a].base /\ q.st = "done"
  BY <1>2 DEF CallType
<1> HIDE DEF q
<1>4. CallInv(ag[a], q, version)
  BY <1>1, <1>2, <1>3 DEF CallInv
<1>5. QED
  BY <1>1, <1>3, <1>4, OneCall

\* The server answers: the generation has ended or was cancelled.
LEMMA ReturnInv ==
  ASSUME PartialInv, NEW a \in Agents, Return(a)
  PROVE  PartialInv'
<1> DEFINE q == IF req[a].out = <<>>
                  THEN [req[a] EXCEPT !.st = "answer", !.cut = TRUE]
                  ELSE [req[a] EXCEPT !.st = "answer", !.cut = (req[a].st = "run"),
                                      !.ev = "none"]
<1>1. /\ req[a].st \in {"done", "run"} /\ UNCHANGED serverOther
      /\ req' = [req EXCEPT ![a] = q]
  BY DEF Return
<1>2. req[a] \in CallType /\ CallInv(ag[a], req[a], version)
  BY OfRollout
<1>3. /\ q \in CallType /\ q.out = req[a].out /\ q.base = req[a].base
      /\ q.st = "answer" /\ (~ q.cut => req[a].out # <<>>)
  BY <1>2 DEF CallType
<1> HIDE DEF q
<1>4. CallInv(ag[a], q, version)
  BY <1>1, <1>2, <1>3 DEF CallInv
<1>5. QED
  BY <1>1, <1>3, <1>4, OneCall

\* A step of the loop that changes the agent alone, no call being under way.
LEMMA OneAgent ==
  ASSUME PartialInv, NEW a \in Agents, NEW g \in AgentType, ag[a].at # "call",
         AgentInv(g, version, sample), g.at # "call",
         ag' = [ag EXCEPT ![a] = g], UNCHANGED agentOther
  PROVE  PartialInv'
<1>1. req' = [req EXCEPT ![a] = req[a]]
  BY OfRollout DEF agentOther
<1>2. UNCHANGED <<rollouterVars, sample, worker, workerVars, paused>>
  BY DEF agentOther
<1>3. CallInv(g, req[a], version) /\ req[a] \in CallType
  BY OfRollout DEF CallInv
<1>4. QED
  BY <1>1, <1>2, <1>3, OneRollout

\* The state machine: interrupted, entering the first turn, or calling out.
LEMMA ToolLoopInv ==
  ASSUME PartialInv, NEW a \in Agents, ToolLoop(a)
  PROVE  PartialInv'
<1>1. ag[a].at = "loop" /\ UNCHANGED agentOther
  BY DEF ToolLoop
<1>2. ag[a] \in AgentType /\ AgentInv(ag[a], version, sample)
  BY OfRollout
<1>3. ASSUME NEW g \in AgentType, ag' = [ag EXCEPT ![a] = g],
             g.resp = ag[a].resp, g.mask = ag[a].mask, g.lp = ag[a].lp,
             g.vstart = ag[a].vstart, g.vend = ag[a].vend, g.fresh = ag[a].fresh,
             g.at \in {"rest", "loop", "ext"},
             g.state = ag[a].state \/ g.state = "GENERATING"
      PROVE  PartialInv'
  <2>1. Aligned(g) /\ Dated(g) /\ Spoken(g)
    BY <1>2, <1>3 DEF AgentInv, Aligned, Dated, Spoken
  <2>2. AgentInv(g, version, sample)
    BY <1>1, <1>2, <1>3, <2>1 DEF AgentInv
  <2>3. QED
    BY <1>1, <1>3, <2>2, OneAgent
<1>4. CASE ag' = [ag EXCEPT ![a].at = "rest", ![a].is_cancel = TRUE]
  <2> DEFINE g == [ag[a] EXCEPT !.at = "rest", !.is_cancel = TRUE]
  <2>1. ag' = [ag EXCEPT ![a] = g]
    BY <1>4
  <2>2. /\ g \in AgentType /\ g.resp = ag[a].resp /\ g.mask = ag[a].mask
        /\ g.lp = ag[a].lp /\ g.vstart = ag[a].vstart /\ g.vend = ag[a].vend
        /\ g.fresh = ag[a].fresh /\ g.at = "rest" /\ g.state = ag[a].state
    BY <1>2 DEF AgentType
  <2> HIDE DEF g
  <2>3. QED
    BY <1>3, <2>1, <2>2
<1>5. CASE ag' = [ag EXCEPT ![a].state = "GENERATING"]
  <2> DEFINE g == [ag[a] EXCEPT !.state = "GENERATING"]
  <2>1. ag' = [ag EXCEPT ![a] = g]
    BY <1>5
  <2>2. /\ g \in AgentType /\ g.resp = ag[a].resp /\ g.mask = ag[a].mask
        /\ g.lp = ag[a].lp /\ g.vstart = ag[a].vstart /\ g.vend = ag[a].vend
        /\ g.fresh = ag[a].fresh /\ g.at = "loop" /\ g.state = "GENERATING"
    BY <1>1, <1>2 DEF AgentType, States
  <2> HIDE DEF g
  <2>3. QED
    BY <1>3, <2>1, <2>2
<1>6. CASE ag' = [ag EXCEPT ![a].at = "ext"]
  <2> DEFINE g == [ag[a] EXCEPT !.at = "ext"]
  <2>1. ag' = [ag EXCEPT ![a] = g]
    BY <1>6
  <2>2. /\ g \in AgentType /\ g.resp = ag[a].resp /\ g.mask = ag[a].mask
        /\ g.lp = ag[a].lp /\ g.vstart = ag[a].vstart /\ g.vend = ag[a].vend
        /\ g.fresh = ag[a].fresh /\ g.at = "ext" /\ g.state = ag[a].state
    BY <1>2 DEF AgentType
  <2> HIDE DEF g
  <2>3. QED
    BY <1>3, <2>1, <2>2
<1>7. QED
  BY <1>4, <1>5, <1>6 DEF ToolLoop

\* The agent enters a state with an output that is aligned.
LEMMA EnterInv ==
  ASSUME NEW g \in AgentType, Aligned(g), Dated(g), NEW state \in States,
         state \in {"PROCESSING_TOOLS", "INTERACTING"} =>
           g.resp # <<>> /\ Len(g.resp) < ResponseLength,
         state # "TERMINATED" => Len(g.resp) <= ResponseLength,
         g.vend = version, ~ g.fresh, sample = "active", version \in Nat
  PROVE  /\ Enter(g, state) \in AgentType /\ Enter(g, state).at \in {"rest", "loop"}
         /\ AgentInv(Enter(g, state), version, sample)
<1> DEFINE h == Enter(g, state)
<1>1. /\ h \in AgentType /\ Aligned(h) /\ Dated(h) /\ Spoken(h)
      /\ Len(h.resp) <= ResponseLength
      /\ h.vend = g.vend /\ h.fresh = g.fresh /\ h.at \in {"rest", "loop"}
  BY EnterFacts
<1> HIDE DEF h
<1>2. AgentInv(h, version, sample)
  BY <1>1 DEF AgentInv
<1>3. QED
  BY <1>1, <1>2 DEF h

\* Aligned and Dated are about the output alone.
LEMMA SameOutput ==
  ASSUME NEW g, NEW h, Aligned(h), Dated(h),
         g.resp = h.resp, g.mask = h.mask, g.lp = h.lp,
         g.vstart = h.vstart, g.vend = h.vend
  PROVE  Aligned(g) /\ Dated(g)
  BY DEF Aligned, Dated

\* A turn of a tool or of a user.
LEMMA AnsweredFacts ==
  ASSUME NEW g \in AgentType, Aligned(g), Dated(g), g.resp # <<>>
  PROVE  LET h == Answered(g) IN
           /\ h \in AgentType /\ Aligned(h) /\ Dated(h)
           /\ Len(h.resp) = Len(g.resp) + 1
           /\ h.vend = g.vend /\ h.fresh = g.fresh
<1> DEFINE e == Extended(g, <<Ext>>, 0)
           h == Answered(g)
<1>1. /\ e \in AgentType /\ Aligned(e) /\ Dated(e)
      /\ Len(e.resp) = Len(g.resp) + 1
      /\ e.vend = g.vend /\ e.fresh = g.fresh
  BY ExtendedByOther
<1>2. h = [e EXCEPT !.uturns = e.uturns + 1]
  BY DEF Answered
<1> HIDE DEF e, h
<1>a. PICK n \in Nat : n = e.uturns + 1
  <2>1. e \in AgentType
    BY <1>1
  <2>2. e.uturns \in Nat
    BY ONLY <2>1 DEF AgentType
  <2>3. QED
    BY ONLY <2>2
<1>b. h = [e EXCEPT !.uturns = n]
  BY <1>2, <1>a
<1>3. /\ h \in AgentType /\ h.resp = e.resp /\ h.mask = e.mask /\ h.lp = e.lp
      /\ h.vstart = e.vstart /\ h.vend = e.vend /\ h.fresh = e.fresh
  BY <1>1, <1>b DEF AgentType
<1>4. Aligned(h) /\ Dated(h)
  BY <1>1, <1>3, SameOutput
<1>5. QED
  BY <1>1, <1>3, <1>4 DEF h

\* An answer of a tool or of a user is added.
LEMMA AnswerInv ==
  ASSUME PartialInv, NEW a \in Agents, NEW state \in {"TERMINATED", "GENERATING"},
         ag[a].at = "ext", ag[a].state \in {"PROCESSING_TOOLS", "INTERACTING"},
         UNCHANGED agentOther,
         ag' = [ag EXCEPT ![a] = Enter(Answered(ag[a]), state)]
  PROVE  PartialInv'
<1> DEFINE g == Answered(ag[a])
<1>1. /\ ag[a] \in AgentType /\ version \in Nat /\ AgentInv(ag[a], version, sample)
  BY OfRollout
<1>2. /\ ag[a].resp # <<>> /\ Len(ag[a].resp) < ResponseLength
      /\ Aligned(ag[a]) /\ Dated(ag[a]) /\ ~ ag[a].fresh
      /\ ag[a].vend = version /\ sample = "active"
  BY <1>1 DEF AgentInv, Spoken
<1>3. /\ g \in AgentType /\ Aligned(g) /\ Dated(g)
      /\ Len(g.resp) = Len(ag[a].resp) + 1
      /\ g.vend = ag[a].vend /\ g.fresh = ag[a].fresh
  BY <1>1, <1>2, AnsweredFacts
<1>4. Len(g.resp) <= ResponseLength
  <2>1. ag[a].resp \in Seq(TokenType) /\ ResponseLength \in Nat
    BY <1>1 DEF AgentType
  <2>2. Len(ag[a].resp) \in Nat
    BY <2>1
  <2>3. QED
    BY <1>2, <1>3, <2>1, <2>2
<1> HIDE DEF g
<1>5. /\ Enter(g, state) \in AgentType /\ Enter(g, state).at \in {"rest", "loop"}
      /\ AgentInv(Enter(g, state), version, sample)
  BY <1>1, <1>2, <1>3, <1>4, EnterInv DEF States
<1>6. ag' = [ag EXCEPT ![a] = Enter(g, state)]
  BY DEF g
<1>7. QED
  BY <1>5, <1>6, OneAgent

\* _handle_processing_tools_state.
LEMMA ToolsDoneInv ==
  ASSUME PartialInv, NEW a \in Agents, ToolsDone(a)
  PROVE  PartialInv'
<1>1. ag[a].at = "ext" /\ ag[a].state = "PROCESSING_TOOLS" /\ UNCHANGED agentOther
  BY DEF ToolsDone
<1>2. CASE ag' = [ag EXCEPT ![a] = Enter(ag[a], "TERMINATED")]
  <2>1. /\ ag[a] \in AgentType /\ version \in Nat /\ AgentInv(ag[a], version, sample)
    BY OfRollout
  <2>2. /\ Aligned(ag[a]) /\ Dated(ag[a]) /\ ~ ag[a].fresh
        /\ ag[a].vend = version /\ sample = "active"
    BY <1>1, <2>1 DEF AgentInv
  <2>3. /\ Enter(ag[a], "TERMINATED") \in AgentType
        /\ Enter(ag[a], "TERMINATED").at \in {"rest", "loop"}
        /\ AgentInv(Enter(ag[a], "TERMINATED"), version, sample)
    BY <2>1, <2>2, EnterInv DEF States
  <2>4. QED
    BY <1>1, <1>2, <2>3, OneAgent
<1>3. CASE ag' = [ag EXCEPT ![a] =
                    Enter(Answered(ag[a]), "GENERATING")]
  BY <1>1, <1>3, AnswerInv
<1>4. QED
  BY <1>2, <1>3 DEF ToolsDone

\* _handle_interacting_state.
LEMMA UserDoneInv ==
  ASSUME PartialInv, NEW a \in Agents, UserDone(a)
  PROVE  PartialInv'
<1>1. ag[a].at = "ext" /\ ag[a].state = "INTERACTING" /\ UNCHANGED agentOther
  BY DEF UserDone
<1>2. PICK next \in {"TERMINATED", "GENERATING"} :
        ag' = [ag EXCEPT ![a] = Enter(Answered(ag[a]), next)]
  BY DEF UserDone
<1>3. QED
  BY <1>1, <1>2, AnswerInv

\* One more turn of the model.
LEMMA TurnCounted ==
  ASSUME NEW h \in AgentType, Aligned(h), Dated(h)
  PROVE  LET g == [h EXCEPT !.turns = @ + 1] IN
           /\ g \in AgentType /\ Aligned(g) /\ Dated(g)
           /\ g.resp = h.resp /\ g.mask = h.mask
           /\ g.vend = h.vend /\ g.fresh = h.fresh
<1> DEFINE g == [h EXCEPT !.turns = @ + 1]
<1>1. h.turns \in Nat
  BY DEF AgentType
<1>2. PICK n \in Nat : n = h.turns + 1
  BY ONLY <1>1
<1>3. g = [h EXCEPT !.turns = n]
  BY <1>2
<1> HIDE DEF g
<1>4. /\ g \in AgentType /\ g.resp = h.resp /\ g.mask = h.mask /\ g.lp = h.lp
      /\ g.vstart = h.vstart /\ g.vend = h.vend /\ g.fresh = h.fresh
  BY <1>3 DEF AgentType
<1>5. Aligned(g) /\ Dated(g)
  BY <1>4, SameOutput
<1>6. QED
  BY <1>4, <1>5 DEF g

\* The output after the answer of a server.
LEMMA AnswerFacts ==
  ASSUME PartialInv, NEW a \in Agents, req[a].st = "answer"
  PROVE  LET h == Extended(ag[a], req[a].out, 1) IN
           /\ h \in AgentType /\ Aligned(h) /\ Dated(h)
           /\ h.vend = version /\ ~ h.fresh /\ h.state = "GENERATING"
           /\ sample = "active" /\ version \in Nat
           /\ Len(h.resp) \in Nat /\ Len(h.mask) = Len(h.resp)
           /\ ~ req[a].cut => h.resp # <<>>
<1> DEFINE h == Extended(ag[a], req[a].out, 1)
<1>1. /\ ag[a] \in AgentType /\ req[a] \in CallType /\ version \in Nat
      /\ AgentInv(ag[a], version, sample) /\ CallInv(ag[a], req[a], version)
  BY OfRollout
<1>2. /\ ag[a].at = "call" /\ ag[a].state = "GENERATING"
      /\ req[a].base = Len(ag[a].resp)
      /\ \A i \in 1 .. Len(req[a].out) :
           /\ req[a].out[i] # Ext /\ req[a].out[i].k = req[a].base + i
           /\ req[a].out[i].v = version
      /\ ~ req[a].cut => req[a].out # <<>>
  BY <1>1 DEF CallInv
<1>3. /\ Aligned(ag[a]) /\ Dated(ag[a]) /\ sample = "active"
      /\ ag[a].vend = version /\ ~ ag[a].fresh
  BY <1>1, <1>2 DEF AgentInv
<1>4. req[a].out \in Seq(TokenType) /\ ag[a].resp \in Seq(TokenType)
  BY <1>1 DEF CallType, AgentType
<1>5. \A i \in 1 .. Len(req[a].out) :
        /\ req[a].out[i] # Ext /\ req[a].out[i].k = Len(ag[a].resp) + i
        /\ req[a].out[i].v = ag[a].vend
  BY <1>2, <1>3
<1>6. /\ h \in AgentType /\ Aligned(h) /\ Dated(h)
      /\ Len(h.resp) = Len(ag[a].resp) + Len(req[a].out)
      /\ h.vend = ag[a].vend /\ h.fresh = ag[a].fresh /\ h.state = ag[a].state
  BY <1>1, <1>3, <1>4, <1>5, ExtendedByModel
<1> HIDE DEF h
<1>a. PICK n \in Nat : n = Len(ag[a].resp)
  BY <1>4
<1>b. PICK m \in Nat : m = Len(req[a].out)
  BY <1>4
<1>c. Len(h.resp) = n + m
  BY <1>6, <1>a, <1>b
<1>d. n + m \in Nat /\ (m > 0 => n + m > 0)
  OBVIOUS
<1>7. Len(h.mask) = Len(h.resp)
  BY <1>6 DEF Aligned
<1>8. Len(h.resp) \in Nat /\ Len(h.mask) = Len(h.resp)
  BY <1>7, <1>c, <1>d
<1>9. ~ req[a].cut => h.resp # <<>>
  <2>1. req[a].out # <<>> => Len(req[a].out) > 0
    BY <1>4
  <2>2. ~ req[a].cut => Len(h.resp) > 0
    BY <1>2, <1>b, <1>c, <1>d, <2>1
  <2>3. QED
    BY <2>2
<1>10. QED
  BY <1>1, <1>2, <1>3, <1>6, <1>8, <1>9 DEF h

\* What the agent loop makes of an answer.
LEMMA ReceivedInv ==
  ASSUME PartialInv, NEW a \in Agents, req[a].st = "answer",
         NEW g \in IF a \notin ToolAgents THEN {SingleTurn(a)}
                   ELSE IF req[a].cut THEN {ToolCut(a)} ELSE ToolTurn(a)
  PROVE  g \in AgentType /\ g.at # "call" /\ AgentInv(g, version, sample)
<1> DEFINE h == Extended(ag[a], req[a].out, 1)
           t == [h EXCEPT !.turns = @ + 1]
<1>1. /\ h \in AgentType /\ Aligned(h) /\ Dated(h)
      /\ h.vend = version /\ ~ h.fresh /\ h.state = "GENERATING"
      /\ sample = "active" /\ version \in Nat
      /\ Len(h.resp) \in Nat /\ Len(h.mask) = Len(h.resp)
      /\ ~ req[a].cut => h.resp # <<>>
  BY AnswerFacts
<1>2. CASE a \notin ToolAgents
  <2> DEFINE c == CutAll(h)
             k == (req[a].cut /\ Len(h.resp) < ResponseLength)
  <2>1. g = [c EXCEPT !.at = "rest", !.is_cancel = k]
    BY <1>1, <1>2 DEF SingleTurn, CutAll, AgentType
  <2>2. /\ c \in AgentType /\ Aligned(c) /\ Dated(c)
        /\ Len(c.resp) <= ResponseLength
        /\ c.vend = h.vend /\ c.fresh = h.fresh /\ c.state = h.state
    <3> HIDE DEF h
    <3>1. QED
      BY <1>1, CutAligned
  <2>a. k \in BOOLEAN
    OBVIOUS
  <2> HIDE DEF c, h, k
  <2>3. /\ g \in AgentType /\ g.resp = c.resp /\ g.mask = c.mask /\ g.lp = c.lp
        /\ g.vstart = c.vstart /\ g.vend = c.vend /\ g.fresh = c.fresh
        /\ g.state = c.state /\ g.at = "rest"
    BY <2>1, <2>2, <2>a DEF AgentType
  <2>4. Aligned(g) /\ Dated(g)
    BY <2>2, <2>3, SameOutput
  <2>5. AgentInv(g, version, sample)
    BY <1>1, <2>2, <2>3, <2>4 DEF AgentInv, Spoken
  <2>6. QED
    BY <2>3, <2>5
<1>3. CASE a \in ToolAgents
  <2>a. /\ t \in AgentType /\ Aligned(t) /\ Dated(t)
        /\ t.resp = h.resp /\ t.mask = h.mask
        /\ t.vend = h.vend /\ t.fresh = h.fresh
    <3> HIDE DEF h
    <3>1. QED
      BY <1>1, TurnCounted
  <2>1. CASE req[a].cut /\ Len(h.mask) >= ResponseLength
    <3>1. g = Enter(t, "TERMINATED")
      BY <1>3, <2>1 DEF ToolCut
    <3> HIDE DEF t, h
    <3>2. QED
      BY <1>1, <2>a, <3>1, EnterInv DEF States
  <2>2. CASE req[a].cut /\ ~ (Len(h.mask) >= ResponseLength)
    <3>1. g = Enter(h, "GENERATING")
      BY <1>3, <2>2 DEF ToolCut
    <3> HIDE DEF t, h
    <3>2. Len(h.resp) <= ResponseLength
      BY <1>1, <2>2
    <3>3. QED
      BY <1>1, <3>1, <3>2, EnterInv DEF States
  <2>3. CASE ~ req[a].cut
    <3>1. \/ g = Enter(t, "TERMINATED")
          \/ /\ ~ (Len(t.mask) >= ResponseLength)
             /\ \E next \in {"PROCESSING_TOOLS", "INTERACTING", "TERMINATED"} :
                  g = Enter(t, next)
      BY <1>3, <2>3 DEF ToolTurn
    <3> HIDE DEF t, h
    <3>2. CASE g = Enter(t, "TERMINATED")
      BY <1>1, <2>a, <3>2, EnterInv DEF States
    <3>3. CASE /\ ~ (Len(t.mask) >= ResponseLength)
               /\ \E next \in {"PROCESSING_TOOLS", "INTERACTING", "TERMINATED"} :
                    g = Enter(t, next)
      <4>1. PICK next \in {"PROCESSING_TOOLS", "INTERACTING", "TERMINATED"} :
              g = Enter(t, next)
        BY <3>3
      <4>2. Len(t.resp) < ResponseLength /\ Len(t.resp) <= ResponseLength
        BY <1>1, <2>a, <3>3
      <4>3. t.resp # <<>>
        BY <1>1, <2>3, <2>a
      <4>4. QED
        BY <1>1, <2>a, <4>1, <4>2, <4>3, EnterInv DEF States
    <3>4. QED
      BY <3>1, <3>2, <3>3
  <2>4. QED
    BY <2>1, <2>2, <2>3
<1>4. QED
  BY <1>2, <1>3

\* The answer of the server reaches the agent loop.
LEMMA ReceiveInv ==
  ASSUME PartialInv, NEW a \in Agents, Receive(a)
  PROVE  PartialInv'
<1> DEFINE q == [NoRequest EXCEPT !.s = req[a].s, !.ev = req[a].ev]
<1>1. /\ req[a].st = "answer" /\ req' = [req EXCEPT ![a] = q]
      /\ UNCHANGED <<rollouterVars, sample, worker, workerVars, paused>>
  BY DEF Receive
<1>2. PICK g \in IF a \notin ToolAgents THEN {SingleTurn(a)}
                 ELSE IF req[a].cut THEN {ToolCut(a)} ELSE ToolTurn(a) :
        ag' = [ag EXCEPT ![a] = g]
  BY DEF Receive
<1>3. g \in AgentType /\ g.at # "call" /\ AgentInv(g, version, sample)
  BY <1>1, ReceivedInv
<1>4. req[a] \in CallType
  BY OfRollout
<1>5. <<>> \in Seq(TokenType) /\ Len(<<>>) = 0
  OBVIOUS
<1>6. q \in CallType /\ q.st = "none" /\ q.out = <<>>
  BY <1>4, <1>5 DEF CallType, NoRequest
<1> HIDE DEF q
<1>7. CallInv(g, q, version)
  BY <1>3, <1>5, <1>6 DEF CallInv
<1>8. QED
  BY <1>1, <1>2, <1>3, <1>6, <1>7, OneRollout

------------------------------------------------------------------------------
(* The choice of a server                                                    *)

\* The least loaded server exists: weighted_serveres is a heap that is not empty.
LEMMA LeastLoadedFacts ==
  ASSUME PartialInv
  PROVE  /\ LeastLoaded \in Servers
         /\ \A t \in Servers : load[worker][LeastLoaded] <= load[worker][t]
<1> DEFINE l == load[worker]
           Loads == {l[s] : s \in Servers}
<1>1. l \in [Servers -> Nat]
  BY DEF PartialInv, TypeInv
<1>2. Servers \subseteq Nat /\ Servers # {}
  <2>1. Cardinality(Servers) \in Nat
    BY FS_CardinalityType
  <2>2. QED
    BY <2>1
<1> HIDE DEF l
<1>3. Loads \in SUBSET Nat /\ Loads # {}
  BY <1>1, <1>2
<1>4. PICK m \in Loads : \A y \in Loads : m <= y
  BY <1>3, LeastNatural
<1> DEFINE Lightest == {s \in Servers : l[s] = m}
<1>5. Lightest \in SUBSET Nat /\ Lightest # {}
  BY <1>2
<1>6. PICK s \in Lightest : \A y \in Lightest : s <= y
  BY <1>5, LeastNatural
<1>7. s \in Servers /\ \A t \in Servers : l[s] < l[t] \/ (l[s] = l[t] /\ s <= t)
  <2>1. s \in Servers /\ l[s] = m
    OBVIOUS
  <2>2. ASSUME NEW t \in Servers PROVE l[s] < l[t] \/ (l[s] = l[t] /\ s <= t)
    <3>1. m <= l[t] /\ l[t] \in Nat /\ m \in Nat
      BY <1>1, <1>3, <1>4
    <3>2. CASE l[t] = m
      BY <1>6, <2>1, <3>2
    <3>3. CASE l[t] # m
      BY <2>1, <3>1, <3>3
    <3>4. QED
      BY <3>2, <3>3
  <2>3. QED
    BY <2>1, <2>2
<1>8. /\ LeastLoaded \in Servers
      /\ \A t \in Servers : l[LeastLoaded] < l[t] \/ (l[LeastLoaded] = l[t] /\ LeastLoaded <= t)
  BY <1>7 DEF LeastLoaded, l
<1>9. \A t \in Servers : l[LeastLoaded] <= l[t]
  <2>1. \A t \in Servers : l[t] \in Nat
    BY <1>1
  <2>2. QED
    BY <1>8, <2>1
<1>10. QED
  BY <1>8, <1>9 DEF l

\* A sequence without its i-th element.
LEMMA Removed ==
  ASSUME NEW S, NEW s \in Seq(S), NEW i \in 1 .. Len(s)
  PROVE  LET t == RemoveAt(s, i) IN
           /\ t \in Seq(S) /\ Len(t) = Len(s) - 1
           /\ \A j \in 1 .. Len(s) - 1 : t[j] = s[IF j < i THEN j ELSE j + 1]
<1> DEFINE u == SubSeq(s, 1, i - 1)
           v == SubSeq(s, i + 1, Len(s))
<1>1. Len(s) \in Nat /\ i \in Nat
  OBVIOUS
<1>2. u \in Seq(S) /\ Len(u) = i - 1 /\ \A j \in 1 .. i - 1 : u[j] = s[j]
  BY <1>1
<1>3. /\ v \in Seq(S) /\ Len(v) = Len(s) - i
      /\ \A j \in 1 .. Len(s) - i : v[j] = s[i + j]
  BY <1>1
<1>4. RemoveAt(s, i) = u \o v
  BY DEF RemoveAt
<1> HIDE DEF u, v
<1>u. u \in Seq(S) /\ Len(u) \in Nat /\ Len(u) = i - 1
  BY <1>1, <1>2
<1>v. v \in Seq(S) /\ Len(v) \in Nat /\ Len(v) = Len(s) - i
  BY <1>1, <1>3
<1>5. u \o v \in Seq(S) /\ Len(u \o v) = Len(s) - 1
  <2>1. u \o v \in Seq(S) /\ Len(u \o v) = Len(u) + Len(v)
    BY <1>u, <1>v, SMTT(30)
  <2>2. QED
    BY <1>1, <1>u, <1>v, <2>1
<1>6. ASSUME NEW j \in 1 .. Len(s) - 1
      PROVE  (u \o v)[j] = s[IF j < i THEN j ELSE j + 1]
  <2>1. CASE j < i
    <3>1. j \in 1 .. Len(u)
      BY <1>1, <1>2, <2>1
    <3>2. (u \o v)[j] = u[j]
      BY <1>2, <1>3, <3>1
    <3>3. QED
      BY <1>2, <2>1, <3>1, <3>2
  <2>2. CASE ~ (j < i)
    <3>1. j - (i - 1) \in 1 .. Len(s) - i /\ i + (j - (i - 1)) = j + 1
      BY <1>1, <2>2
    <3>2. (u \o v)[j] = v[j - (i - 1)]
      <4>1. j \in 1 .. Len(u) + Len(v) /\ j > Len(u)
        BY <1>1, <1>u, <1>v, <2>2
      <4>2. (u \o v)[j] = v[j - Len(u)]
        BY <1>u, <1>v, <4>1, SMTT(30)
      <4>3. QED
        BY <1>u, <4>2
    <3>3. QED
      BY <1>3, <2>2, <3>1, <3>2
  <2>3. QED
    BY <2>1, <2>2
<1>7. QED
  BY <1>4, <1>5, <1>6

\* No two entries of a cache are for the same request.
Distinct(c) == \A i, j \in 1 .. Len(c) : c[i].id = c[j].id => i = j

\* A known request becomes the most recently used.
LEMMA MovedToEnd ==
  ASSUME NEW c \in Seq(EntryType), Distinct(c), Len(c) <= MaxCache,
         NEW i \in 1 .. Len(c), NEW e \in EntryType, e.id = c[i].id
  PROVE  LET d == Append(RemoveAt(c, i), e) IN
           d \in Seq(EntryType) /\ Distinct(d) /\ Len(d) <= MaxCache
<1> DEFINE t == RemoveAt(c, i)
           d == Append(t, e)
<1>0. PICK n \in Nat : n = Len(c)
  OBVIOUS
<1>1. /\ t \in Seq(EntryType) /\ Len(t) = n - 1
      /\ \A j \in 1 .. n - 1 : t[j] = c[IF j < i THEN j ELSE j + 1]
  BY <1>0, Removed
<1> HIDE DEF t
<1>2. /\ d \in Seq(EntryType) /\ Len(d) = Len(t) + 1
      /\ \A j \in 1 .. Len(t) : d[j] = t[j]
      /\ d[Len(t) + 1] = e
  BY <1>1, OneMore
<1> HIDE DEF d
<1>3. i \in 1 .. n
  BY <1>0
<1>4. /\ Len(d) = n /\ d[n] = e
      /\ \A j \in 1 .. n - 1 : d[j] = c[IF j < i THEN j ELSE j + 1]
  BY <1>1, <1>2, <1>3
<1> DEFINE old(j) == IF j = n THEN i ELSE IF j < i THEN j ELSE j + 1
<1>5. ASSUME NEW j \in 1 .. n PROVE old(j) \in 1 .. n /\ d[j].id = c[old(j)].id
  <2>1. old(j) \in 1 .. n
    BY <1>3
  <2>2. CASE j = n
    <3>1. d[j] = e /\ old(j) = i
      BY <1>4, <2>2
    <3>2. QED
      BY <2>1, <3>1
  <2>3. CASE j # n
    <3>1. j \in 1 .. n - 1
      BY <2>3
    <3>2. d[j] = c[IF j < i THEN j ELSE j + 1]
      BY <1>4, <3>1
    <3>3. QED
      BY <2>1, <2>3, <3>2
  <2>4. QED
    BY <2>1, <2>2, <2>3
<1>6. ASSUME NEW j \in 1 .. n, NEW k \in 1 .. n, old(j) = old(k) PROVE j = k
  BY <1>3, <1>6
<1> HIDE DEF old
<1>7. ASSUME NEW j \in 1 .. n, NEW k \in 1 .. n, d[j].id = d[k].id PROVE j = k
  <2>1. old(j) = old(k)
    <3>1. old(j) \in 1 .. n /\ old(k) \in 1 .. n /\ d[j].id = c[old(j)].id
      BY <1>5
    <3>2. c[old(j)].id = c[old(k)].id
      BY <1>5, <1>7, <3>1
    <3>3. old(j) \in 1 .. Len(c) /\ old(k) \in 1 .. Len(c)
      BY <1>0, <3>1
    <3>4. QED
      BY <3>2, <3>3, Zenon DEF Distinct
  <2>2. QED
    BY <1>6, <2>1
<1>8. Distinct(d)
  BY <1>4, <1>7 DEF Distinct
<1>9. QED
  BY <1>0, <1>2, <1>4, <1>8 DEF d, t

\* A new request is remembered, the least recently used making room for it.
LEMMA RememberFacts ==
  ASSUME NEW c \in Seq(EntryType), Distinct(c), Len(c) <= MaxCache,
         NEW e \in EntryType, \A i \in 1 .. Len(c) : c[i].id # e.id
  PROVE  LET d == Remember(c, e) IN
           d \in Seq(EntryType) /\ Distinct(d) /\ Len(d) <= MaxCache
<1> DEFINE t == IF Len(c) = MaxCache THEN Tail(c) ELSE c
           d == Append(t, e)
<1>1. Len(c) \in Nat /\ MaxCache \in Nat /\ MaxCache > 0
  OBVIOUS
<1>2. /\ t \in Seq(EntryType) /\ Distinct(t) /\ Len(t) < MaxCache
      /\ \A i \in 1 .. Len(t) : t[i].id # e.id
  <2>1. CASE Len(c) = MaxCache
    <3>1. c # <<>>
      BY <1>1, <2>1
    <3>2. /\ t \in Seq(EntryType) /\ Len(t) = Len(c) - 1
          /\ \A i \in 1 .. Len(c) - 1 : t[i] = c[i + 1]
      BY <1>1, <2>1, <3>1
    <3> HIDE DEF t
    <3>3. ASSUME NEW i \in 1 .. Len(t) PROVE i + 1 \in 1 .. Len(c) /\ t[i] = c[i + 1]
      BY <1>1, <3>2
    <3>4. ASSUME NEW i \in 1 .. Len(t), NEW j \in 1 .. Len(t), t[i].id = t[j].id PROVE i = j
      <4>1. i + 1 = j + 1
        BY <3>3, <3>4 DEF Distinct
      <4>2. QED
        BY <4>1
    <3>5. QED
      BY <1>1, <2>1, <3>2, <3>3, <3>4 DEF Distinct
  <2>2. CASE Len(c) # MaxCache
    BY <1>1, <2>2
  <2>3. QED
    BY <2>1, <2>2
<1>3. Remember(c, e) = d
  BY DEF Remember
<1> HIDE DEF t
<1>4. /\ d \in Seq(EntryType) /\ Len(d) = Len(t) + 1
      /\ \A j \in 1 .. Len(t) : d[j] = t[j]
      /\ d[Len(t) + 1] = e
      /\ \A j \in 1 .. Len(t) + 1 : j \in 1 .. Len(t) \/ j = Len(t) + 1
  BY <1>2, OneMore
<1> HIDE DEF d
<1>5. PICK n \in Nat : n = Len(t)
  BY <1>2
<1>6. ASSUME NEW i \in 1 .. n + 1, NEW j \in 1 .. n + 1, d[i].id = d[j].id PROVE i = j
  <2>1. CASE i \in 1 .. n /\ j \in 1 .. n
    BY <1>2, <1>4, <1>5, <1>6, <2>1 DEF Distinct
  <2>2. CASE i = n + 1 /\ j \in 1 .. n
    BY <1>2, <1>4, <1>5, <1>6, <2>2
  <2>3. CASE i \in 1 .. n /\ j = n + 1
    BY <1>2, <1>4, <1>5, <1>6, <2>3
  <2>4. CASE i = n + 1 /\ j = n + 1
    BY <2>4
  <2>5. QED
    BY <2>1, <2>2, <2>3, <2>4
<1>7. Distinct(d)
  BY <1>4, <1>5, <1>6 DEF Distinct
<1>8. Len(d) <= MaxCache
  BY <1>1, <1>2, <1>4, <1>5
<1>9. QED
  BY <1>3, <1>4, <1>7, <1>8

\* _choose_server keeps the sessions apart and the load even.
LEMMA ChooseServerInv ==
  ASSUME PartialInv, NEW a \in Agents, NEW s \in Servers, ChooseServer(a, s)
  PROVE  /\ load' \in [1 .. Workers -> [Servers -> Nat]]
         /\ cache' \in [1 .. Workers -> Seq(EntryType)]
         /\ SessionInv'
<1> DEFINE c == cache[worker]
           e == [id |-> Id(a), s |-> s]
<1>1. /\ worker \in 1 .. Workers /\ load \in [1 .. Workers -> [Servers -> Nat]]
      /\ cache \in [1 .. Workers -> Seq(EntryType)] /\ ag[a] \in AgentType
  BY DEF PartialInv, TypeInv
<1>2. /\ c \in Seq(EntryType) /\ Distinct(c) /\ Len(c) <= MaxCache
  BY <1>1 DEF PartialInv, SessionInv, Distinct
<1>3. e \in EntryType /\ e.id = Id(a)
  <2>1. ag[a].run \in Nat
    BY <1>1 DEF AgentType
  <2>2. QED
    BY <2>1 DEF EntryType, Id
<1>4. ASSUME NEW d \in Seq(EntryType), Distinct(d), Len(d) <= MaxCache,
             cache' = [cache EXCEPT ![worker] = d], NEW w \in 1 .. Workers
      PROVE  /\ Len(cache'[w]) <= MaxCache
             /\ \A i, j \in 1 .. Len(cache'[w]) : cache'[w][i].id = cache'[w][j].id => i = j
  <2>1. CASE w = worker
    <3>1. cache'[w] = d
      BY <1>1, <1>4, <2>1
    <3>2. QED
      BY <1>4, <3>1 DEF Distinct
  <2>2. CASE w # worker
    <3>1. cache'[w] = cache[w]
      BY <1>1, <1>4, <2>2
    <3>2. QED
      BY <3>1 DEF PartialInv, SessionInv
  <2>3. QED
    BY <2>1, <2>2
<1>5. CASE Hits(a) # {}
  <2> DEFINE i == CHOOSE i \in Hits(a) : TRUE
             d == Append(RemoveAt(c, i), e)
  <2>1. cache' = [cache EXCEPT ![worker] = d] /\ load' = load
    BY <1>5 DEF ChooseServer
  <2>2. i \in 1 .. Len(c) /\ c[i].id = Id(a)
    <3>1. i \in Hits(a)
      BY <1>5
    <3>2. QED
      BY <3>1 DEF Hits
  <2> HIDE DEF i, c, e
  <2>3. d \in Seq(EntryType) /\ Distinct(d) /\ Len(d) <= MaxCache
    BY <1>2, <1>3, <2>2, MovedToEnd
  <2> HIDE DEF d
  <2>4. cache' \in [1 .. Workers -> Seq(EntryType)]
    BY <1>1, <2>1, <2>3
  <2>5. SessionInv'
    BY <1>4, <2>1, <2>3 DEF PartialInv, SessionInv
  <2>6. QED
    BY <1>1, <2>1, <2>4, <2>5
<1>6. CASE Hits(a) = {}
  <2> DEFINE d == Remember(c, e)
             l == load[worker]
  <2>1. /\ s = LeastLoaded /\ cache' = [cache EXCEPT ![worker] = d]
        /\ load' = [load EXCEPT ![worker] = [l EXCEPT ![s] = l[s] + 1]]
    BY <1>6 DEF ChooseServer
  <2>2. \A i \in 1 .. Len(c) : c[i].id # e.id
    BY <1>3, <1>6 DEF Hits
  <2>3. l \in [Servers -> Nat] /\ \A t \in Servers : l[s] <= l[t]
    BY <1>1, <2>1, LeastLoadedFacts
  <2>4. \A t, u \in Servers : l[t] <= l[u] + 1
    BY <1>1 DEF PartialInv, SessionInv
  <2> HIDE DEF c, e
  <2>5. d \in Seq(EntryType) /\ Distinct(d) /\ Len(d) <= MaxCache
    BY <1>2, <1>3, <2>2, RememberFacts
  <2> HIDE DEF d, l
  <2>6. cache' \in [1 .. Workers -> Seq(EntryType)]
    BY <1>1, <2>1, <2>5
  <2>7. [l EXCEPT ![s] = l[s] + 1] \in [Servers -> Nat]
    BY <2>3
  <2>8. load' \in [1 .. Workers -> [Servers -> Nat]]
    BY <1>1, <2>1, <2>7
  <2>9. ASSUME NEW w \in 1 .. Workers, NEW t \in Servers, NEW u \in Servers
        PROVE  load'[w][t] <= load'[w][u] + 1
    <3>1. CASE w = worker
      <4>1. load'[w] = [l EXCEPT ![s] = l[s] + 1]
        BY <1>1, <2>1, <3>1
      <4>2. /\ load'[w][t] = IF t = s THEN l[s] + 1 ELSE l[t]
            /\ load'[w][u] = IF u = s THEN l[s] + 1 ELSE l[u]
        BY <2>3, <4>1
      <4>3. /\ l[s] \in Nat /\ l[t] \in Nat /\ l[u] \in Nat
            /\ l[s] <= l[u] /\ l[t] <= l[u] + 1
        BY <2>3, <2>4
      <4>4. QED
        BY <4>2, <4>3, SMTT(30)
    <3>2. CASE w # worker
      <4>1. load'[w] = load[w]
        BY <1>1, <2>1, <3>2
      <4>2. QED
        BY <4>1 DEF PartialInv, SessionInv
    <3>3. QED
      BY <3>1, <3>2
  <2>10. SessionInv'
    BY <1>4, <2>1, <2>5, <2>9 DEF SessionInv
  <2>11. QED
    BY <2>6, <2>8, <2>10
<1>7. QED
  BY <1>5, <1>6

\* generate_for_partial.remote: the call carries the whole response so far.
LEMMA CallStepInv ==
  ASSUME PartialInv, NEW a \in Agents, Call(a)
  PROVE  PartialInv'
<1>1. /\ ag[a].at = "loop" /\ ag[a].state = "GENERATING"
      /\ ag' = [ag EXCEPT ![a].at = "call"]
      /\ UNCHANGED <<rollouterVars, sample, worker, event, paused>>
  BY DEF Call
<1>2. PICK s \in Servers :
        /\ ChooseServer(a, s)
        /\ req' = [req EXCEPT ![a].st = "sent", ![a].s = s, ![a].base = Context(a)]
  BY DEF Call
<1>3. /\ ag[a] \in AgentType /\ req[a] \in CallType
      /\ AgentInv(ag[a], version, sample) /\ CallInv(ag[a], req[a], version)
  BY OfRollout
<1> DEFINE g == [ag[a] EXCEPT !.at = "call"]
           n == Len(ag[a].resp)
           q == [req[a] EXCEPT !.st = "sent", !.s = s, !.base = n]
<1>4. ag' = [ag EXCEPT ![a] = g] /\ req' = [req EXCEPT ![a] = q]
  BY <1>1, <1>2 DEF Context
<1>5. n \in Nat
  <2>1. ag[a].resp \in Seq(TokenType)
    BY <1>3 DEF AgentType
  <2>2. QED
    BY <2>1
<1>6. /\ g \in AgentType /\ g.resp = ag[a].resp /\ g.mask = ag[a].mask
      /\ g.lp = ag[a].lp /\ g.vstart = ag[a].vstart /\ g.vend = ag[a].vend
      /\ g.fresh = ag[a].fresh /\ g.at = "call" /\ g.state = ag[a].state
  BY <1>3 DEF AgentType
<1>7. Aligned(g) /\ Dated(g)
  BY <1>3, <1>6, SameOutput DEF AgentInv
<1>8. AgentInv(g, version, sample)
  BY <1>1, <1>3, <1>6, <1>7 DEF AgentInv, Spoken
<1> HIDE DEF n
<1>9. q \in CallType /\ q.st = "sent" /\ q.base = n /\ q.out = req[a].out
  BY <1>3, <1>5 DEF CallType
<1> HIDE DEF g, q
<1>10. req[a].st = "none" /\ q.out = <<>>
  BY <1>1, <1>3, <1>9 DEF CallInv
<1>11. CallInv(g, q, version)
  <2>1. Len(<<>>) = 0
    OBVIOUS
  <2>2. QED
    BY <1>1, <1>6, <1>9, <1>10, <2>1 DEF CallInv, n
<1>12. QED
  BY <1>1, <1>2, <1>4, <1>6, <1>8, <1>9, <1>11, ChooseServerInv, RolloutStep

------------------------------------------------------------------------------
(* The rollouter and the signals                                             *)

Submitted(a) ==
  IF Complete(a) THEN ag[a]
  ELSE [ag[a] EXCEPT !.at = "loop", !.fresh = FALSE,
          !.vstart = IF ag[a].fresh THEN version ELSE @,
          !.vend = version, !.run = IF a \in ToolAgents THEN 1 ELSE @ + 1]

\* Every rollout that has no complete output starts or resumes its loop.
LEMMA SubmitInv ==
  ASSUME PartialInv, Submit
  PROVE  PartialInv'
<1>1. /\ sample = "idle" /\ sample' = "active"
      /\ ag' = [a \in Agents |-> Submitted(a)]
      /\ UNCHANGED <<phase, todo, version, worker, event, load, cache, paused, req>>
  BY DEF Submit, Submitted, rollouterVars, workerVars
<1>2. ASSUME NEW a \in Agents
      PROVE  /\ Submitted(a) \in AgentType
             /\ AgentInv(Submitted(a), version, "active")
             /\ CallInv(Submitted(a), req[a], version)
  <2>1. /\ ag[a] \in AgentType /\ req[a] \in CallType /\ version \in Nat
        /\ AgentInv(ag[a], version, sample) /\ CallInv(ag[a], req[a], version)
    BY OfRollout
  <2>2. ag[a].at = "rest" /\ req[a].st = "none"
    BY <1>1, <2>1 DEF AgentInv, CallInv
  <2>3. CASE Complete(a)
    <3>1. Submitted(a) = ag[a]
      BY <2>3 DEF Submitted
    <3>2. AgentInv(ag[a], version, "active")
      BY <2>1, <2>2 DEF AgentInv
    <3>3. QED
      BY <2>1, <3>1, <3>2
  <2>4. CASE ~ Complete(a)
    <3> DEFINE g == Submitted(a)
    <3>1. ag[a].run \in Nat /\ ag[a].vstart \in Nat /\ ag[a].vend \in Nat
      BY <2>1 DEF AgentType
    <3>2. PICK r \in Nat : r = IF a \in ToolAgents THEN 1 ELSE ag[a].run + 1
      BY <3>1
    <3>3. PICK v \in Nat : v = IF ag[a].fresh THEN version ELSE ag[a].vstart
      BY <2>1, <3>1
    <3>4. g = [ag[a] EXCEPT !.at = "loop", !.fresh = FALSE, !.vstart = v,
                            !.vend = version, !.run = r]
      BY <2>4, <3>2, <3>3 DEF Submitted
    <3> HIDE DEF g
    <3>5. /\ g \in AgentType /\ g.resp = ag[a].resp /\ g.mask = ag[a].mask
          /\ g.lp = ag[a].lp /\ g.vstart = v /\ g.vend = version
          /\ ~ g.fresh /\ g.at = "loop" /\ g.state = ag[a].state
      BY <2>1, <3>4 DEF AgentType
    <3>6. Aligned(g)
      BY <2>1, <3>5 DEF AgentInv, Aligned
    <3>7. Dated(g)
      <4>1. CASE ag[a].fresh
        <5>1. g.resp = <<>> /\ Len(<<>>) = 0 /\ g.vstart <= g.vend
          BY <2>1, <3>3, <3>5, <4>1 DEF AgentInv
        <5>2. QED
          BY <5>1 DEF Dated
      <4>2. CASE ~ ag[a].fresh
        <5>1. /\ v = ag[a].vstart /\ ag[a].vend <= version /\ Dated(ag[a])
          BY <2>1, <3>3, <4>2 DEF AgentInv
        <5>2. v <= version
          BY <2>1, <3>1, <5>1 DEF Dated
        <5>3. ASSUME NEW i \in 1 .. Len(g.resp), g.resp[i] # Ext
              PROVE  g.resp[i].v \in v .. version
          <6>1. g.resp[i].v \in ag[a].vstart .. ag[a].vend
            BY <3>5, <5>1, <5>3 DEF Dated
          <6>2. QED
            BY <2>1, <3>1, <5>1, <6>1, SMTT(30)
        <5>4. QED
          BY <3>5, <5>1, <5>2, <5>3 DEF Dated
      <4>3. QED
        BY <4>1, <4>2
    <3>8. AgentInv(g, version, "active")
      BY <2>1, <3>5, <3>6, <3>7 DEF AgentInv, Spoken
    <3>9. CallInv(g, req[a], version)
      BY <2>1, <2>2, <3>5 DEF CallInv
    <3>10. QED
      BY <3>5, <3>8, <3>9 DEF g
  <2>5. QED
    BY <2>3, <2>4
<1>3. TypeInv'
  BY <1>1, <1>2 DEF PartialInv, TypeInv
<1>4. SessionInv'
  BY <1>1 DEF PartialInv, SessionInv
<1>5. QED
  BY <1>1, <1>2, <1>3, <1>4 DEF PartialInv

\* The tasks of the sample have ended.
LEMMA GatheredInv ==
  ASSUME PartialInv, Gathered
  PROVE  PartialInv'
<1>1. /\ \A a \in Agents : ag[a].at = "rest"
      /\ sample' \in {"idle", "done"} /\ worker' = (worker % Workers) + 1
      /\ UNCHANGED <<phase, todo, version, event, load, cache, paused, ag, req>>
  BY DEF Gathered, rollouterVars, workerVars
<1>2. worker' \in 1 .. Workers
  BY <1>1 DEF PartialInv, TypeInv
<1>3. TypeInv'
  BY <1>1, <1>2 DEF PartialInv, TypeInv
<1>4. SessionInv'
  BY <1>1 DEF PartialInv, SessionInv
<1>5. ASSUME NEW a \in Agents
      PROVE  AgentInv(ag[a], version, sample') /\ CallInv(ag[a], req[a], version)
  BY <1>1 DEF PartialInv, AgentInv
<1>6. QED
  BY <1>1, <1>3, <1>4, <1>5 DEF PartialInv

\* The server is cancelled: the event of every registered request is set.
LEMMA CancelServerInv ==
  ASSUME PartialInv, NEW s \in Servers, CancelServer(s)
  PROVE  PartialInv'
<1> DEFINE q(a) == IF req[a].s = s /\ req[a].ev = "clear"
                     THEN [req[a] EXCEPT !.ev = "set"] ELSE req[a]
<1>1. /\ todo' = todo \ {<<"server", s>>} /\ paused' = [paused EXCEPT ![s] = TRUE]
      /\ req' = [a \in Agents |-> q(a)]
      /\ UNCHANGED <<phase, version, sample, worker, load, cache, ag, event>>
  BY DEF CancelServer, rollOther
<1>2. ASSUME NEW a \in Agents
      PROVE  /\ q(a) \in CallType /\ q(a).st = req[a].st /\ q(a).base = req[a].base
             /\ q(a).out = req[a].out /\ q(a).cut = req[a].cut
  <2>1. req[a] \in CallType
    BY OfRollout
  <2>2. QED
    BY <2>1 DEF CallType
<1> HIDE DEF q
<1>3. TypeInv'
  BY <1>1, <1>2 DEF PartialInv, TypeInv
<1>4. SessionInv'
  BY <1>1 DEF PartialInv, SessionInv
<1>5. ASSUME NEW a \in Agents PROVE CallInv(ag[a], q(a), version)
  <2>1. CallInv(ag[a], req[a], version)
    BY OfRollout
  <2>2. QED
    BY <1>2, <2>1 DEF CallInv
<1>6. QED
  BY <1>1, <1>3, <1>4, <1>5 DEF PartialInv

\* The other signals, and the decision to interrupt.
LEMMA SignalInv ==
  ASSUME PartialInv, phase' \in {"run", "cancel", "resume"}, todo' \subseteq Everyone,
         event' \in [1 .. Workers -> BOOLEAN], paused' \in [Servers -> BOOLEAN],
         UNCHANGED <<version, sample, worker, load, cache, ag, req>>
  PROVE  PartialInv'
<1>1. TypeInv'
  BY DEF PartialInv, TypeInv
<1>2. SessionInv'
  BY DEF PartialInv, SessionInv
<1>3. QED
  BY <1>1, <1>2 DEF PartialInv

\* The weights are replaced: no rollout is running.
LEMMA SyncInv ==
  ASSUME PartialInv, Sync
  PROVE  PartialInv'
<1>1. /\ sample # "active" /\ phase' = "resume" /\ todo' = Everyone
      /\ version' = version + 1
      /\ UNCHANGED <<sample, worker, load, cache, ag, event, paused, req>>
  BY DEF Sync, Quiet, rollOther
<1>2. version \in Nat /\ version' \in Nat /\ version <= version'
  BY <1>1 DEF PartialInv, TypeInv
<1>3. TypeInv'
  BY <1>1, <1>2 DEF PartialInv, TypeInv
<1>4. SessionInv'
  BY <1>1 DEF PartialInv, SessionInv
<1>5. ASSUME NEW a \in Agents
      PROVE  AgentInv(ag[a], version', sample) /\ CallInv(ag[a], req[a], version')
  <2>1. /\ AgentInv(ag[a], version, sample) /\ CallInv(ag[a], req[a], version)
        /\ ag[a].vend \in Nat
    BY OfRollout DEF AgentType
  <2>2. ag[a].at = "rest" /\ ag[a].vend <= version'
    BY <1>1, <1>2, <2>1 DEF AgentInv
  <2>3. req[a].st = "none" /\ req[a].out = <<>> /\ Len(<<>>) = 0
    BY <2>1, <2>2 DEF CallInv
  <2>4. AgentInv(ag[a], version', sample)
    BY <2>1, <2>2 DEF AgentInv
  <2>5. CallInv(ag[a], req[a], version')
    BY <2>1, <2>3 DEF CallInv
  <2>6. QED
    BY <2>4, <2>5
<1>6. QED
  BY <1>1, <1>3, <1>4, <1>5 DEF PartialInv

------------------------------------------------------------------------------
(* The theorems                                                              *)

\* Nothing is submitted yet.
LEMMA PartialInitInv == PartialInit => PartialInv
<1> SUFFICES ASSUME PartialInit PROVE PartialInv
  OBVIOUS
<1>1. /\ phase = "run" /\ todo = {} /\ version = 0 /\ sample = "idle" /\ worker = 1
      /\ event = [w \in 1 .. Workers |-> FALSE]
      /\ load = [w \in 1 .. Workers |-> [s \in Servers |-> 0]]
      /\ cache = [w \in 1 .. Workers |-> <<>>]
      /\ paused = [s \in Servers |-> FALSE]
      /\ ag = [a \in Agents |-> NewAgent(a)]
      /\ req = [a \in Agents |-> NoRequest]
  BY DEF PartialInit
<1>2. /\ <<>> \in Seq(TokenType) /\ <<>> \in Seq(Bits) /\ <<>> \in Seq(EntryType)
      /\ Len(<<>>) = 0
  OBVIOUS
<1>3. 1 \in Servers
  <2>1. Cardinality(Servers) \in Nat /\ Cardinality(Servers) # 0
    BY FS_CardinalityType, FS_EmptySet
  <2>2. 1 \in 1 .. Cardinality(Servers)
    BY <2>1
  <2>3. QED
    BY <2>2
<1>4. /\ NoRequest \in CallType /\ NoRequest.st = "none" /\ NoRequest.out = <<>>
  BY <1>2, <1>3 DEF NoRequest, CallType
<1>5. ASSUME NEW a \in Agents
      PROVE  /\ NewAgent(a) \in AgentType /\ NewAgent(a).at = "rest"
             /\ NewAgent(a).resp = <<>> /\ NewAgent(a).mask = <<>> /\ NewAgent(a).lp = <<>>
             /\ NewAgent(a).vstart = 0 /\ NewAgent(a).vend = 0
             /\ NewAgent(a).state \in {"PENDING", "GENERATING"}
  BY <1>2 DEF NewAgent, AgentType, States
<1>6. TypeInv
  <2>1. worker \in 1 .. Workers
    BY <1>1
  <2>2. load \in [1 .. Workers -> [Servers -> Nat]]
    BY <1>1
  <2>3. QED
    BY <1>1, <1>2, <1>4, <1>5, <2>1, <2>2 DEF TypeInv
<1>7. SessionInv
  BY <1>1, <1>2 DEF SessionInv
<1>8. ASSUME NEW a \in Agents
      PROVE  AgentInv(ag[a], version, sample) /\ CallInv(ag[a], req[a], version)
  <2>1. ag[a] = NewAgent(a) /\ req[a] = NoRequest
    BY <1>1
  <2> DEFINE g == NewAgent(a)
  <2>2. /\ g.at = "rest" /\ g.resp = <<>> /\ g.mask = <<>> /\ g.lp = <<>>
        /\ g.vstart = 0 /\ g.vend = 0 /\ g.state \in {"PENDING", "GENERATING"}
    BY <1>5
  <2> HIDE DEF g
  <2>3. Aligned(g) /\ Dated(g) /\ Spoken(g)
    BY <1>2, <2>2 DEF Aligned, Dated, Spoken
  <2>4. AgentInv(g, version, sample)
    BY <1>1, <1>2, <2>2, <2>3 DEF AgentInv
  <2>5. CallInv(g, NoRequest, version)
    BY <1>2, <1>4, <2>2 DEF CallInv
  <2>6. QED
    BY <2>1, <2>4, <2>5 DEF g
<1>9. QED
  BY <1>6, <1>7, <1>8 DEF PartialInv

\* Every step of the rollouts, the servers and the rollouter keeps the invariant.
LEMMA PartialStepInv ==
  ASSUME PartialInv, [PartialNext]_partialVars
  PROVE  PartialInv'
<1>1. CASE Submit
  BY <1>1, SubmitInv
<1>2. CASE Gathered
  BY <1>2, GatheredInv
<1>3. ASSUME NEW a \in Agents, Loop(a) \/ Server(a) \/ Token(a)
      PROVE  PartialInv'
  BY <1>3, CallStepInv, ReceiveInv, ToolLoopInv, ToolsDoneInv, UserDoneInv, AdmitInv,
     FinishInv, ReturnInv, TokenInv DEF Loop, Server
<1>4. CASE StartCancel
  <2>1. /\ phase' = "cancel" /\ todo' = Everyone
        /\ UNCHANGED <<version, sample, worker, load, cache, ag, event, paused, req>>
    BY <1>4 DEF StartCancel, rollOther
  <2>2. event' \in [1 .. Workers -> BOOLEAN] /\ paused' \in [Servers -> BOOLEAN]
    BY <2>1 DEF PartialInv, TypeInv
  <2>3. QED
    BY <2>1, <2>2, SignalInv
<1>5. ASSUME NEW s \in Servers, CancelServer(s) PROVE PartialInv'
  BY <1>5, CancelServerInv
<1>6. ASSUME NEW s \in Servers, ResumeServer(s) PROVE PartialInv'
  <2>1. /\ phase' = phase /\ todo' \subseteq todo /\ paused' = [paused EXCEPT ![s] = FALSE]
        /\ UNCHANGED <<version, sample, worker, load, cache, ag, event, req>>
    BY <1>6 DEF ResumeServer, rollOther
  <2>2. /\ event' \in [1 .. Workers -> BOOLEAN] /\ paused' \in [Servers -> BOOLEAN]
        /\ phase' \in {"run", "cancel", "resume"} /\ todo' \subseteq Everyone
    BY <2>1 DEF PartialInv, TypeInv
  <2>3. QED
    BY <2>1, <2>2, SignalInv
<1>7. ASSUME NEW w \in 1 .. Workers, SignalWorker(w) PROVE PartialInv'
  <2>1. /\ phase' = phase /\ todo' \subseteq todo
        /\ event' = [event EXCEPT ![w] = (phase = "cancel")]
        /\ UNCHANGED <<version, sample, worker, load, cache, ag, paused, req>>
    BY <1>7 DEF SignalWorker, rollOther
  <2>2. /\ event' \in [1 .. Workers -> BOOLEAN] /\ paused' \in [Servers -> BOOLEAN]
        /\ phase' \in {"run", "cancel", "resume"} /\ todo' \subseteq Everyone
    BY <2>1 DEF PartialInv, TypeInv
  <2>3. QED
    BY <2>1, <2>2, SignalInv
<1>8. CASE Sync
  BY <1>8, SyncInv
<1>9. CASE ResumeDone
  <2>1. /\ phase' = "run" /\ todo' = todo
        /\ UNCHANGED <<version, sample, worker, load, cache, ag, event, paused, req>>
    BY <1>9 DEF ResumeDone, rollOther
  <2>2. /\ event' \in [1 .. Workers -> BOOLEAN] /\ paused' \in [Servers -> BOOLEAN]
        /\ todo' \subseteq Everyone
    BY <2>1 DEF PartialInv, TypeInv
  <2>3. QED
    BY <2>1, <2>2, SignalInv
<1>10. CASE UNCHANGED partialVars
  <2>1. UNCHANGED <<phase, todo, version, sample, worker, event, load, cache, paused,
                    ag, req>>
    BY <1>10 DEF partialVars, rollouterVars, workerVars
  <2>2. /\ event' \in [1 .. Workers -> BOOLEAN] /\ paused' \in [Servers -> BOOLEAN]
        /\ phase' \in {"run", "cancel", "resume"} /\ todo' \subseteq Everyone
    BY <2>1 DEF PartialInv, TypeInv
  <2>3. QED
    BY <2>1, <2>2, SignalInv
<1>11. QED
  BY <1>1, <1>2, <1>3, <1>4, <1>5, <1>6, <1>7, <1>8, <1>9, <1>10
     DEF PartialNext, Signals, PartialStop

\* The inductive invariant of interrupted generation.
THEOREM PartialInvHolds == PartialSpec => []PartialInv
<1>1. PartialInv /\ [PartialNext]_partialVars => PartialInv'
  BY PartialStepInv
<1>2. QED
  BY <1>1, PartialInitInv, PTL DEF PartialSpec

\* However often a response is interrupted, every token of it was generated as
\* the continuation of exactly the tokens before it, and its mask and log-probs
\* line up with it (_handle_generating_state_partial, generate_for_partial).
THEOREM OutputIsContinued == PartialSpec => []OutputContinued
<1>1. PartialInv => OutputContinued
  <2> SUFFICES ASSUME PartialInv PROVE OutputContinued
    OBVIOUS
  <2>1. ASSUME NEW a \in Agents
        PROVE  /\ ag[a].at \in {"rest", "loop", "call", "ext"} /\ ag[a].state \in States
               /\ req[a].st \in {"none", "sent", "run", "done", "answer"}
               /\ req[a].ev \in {"none", "clear", "set"}
               /\ (ag[a].at = "call") = (req[a].st # "none")
               /\ Aligned(ag[a])
    <3>1. /\ ag[a] \in AgentType /\ req[a] \in CallType
          /\ AgentInv(ag[a], version, sample) /\ CallInv(ag[a], req[a], version)
      BY OfRollout
    <3>2. QED
      BY <3>1 DEF AgentType, CallType, AgentInv, CallInv
  <2>2. PartialTypeOK
    BY <2>1 DEF PartialInv, TypeInv, SessionInv, PartialTypeOK, States
  <2>3. TokensInContext
    BY <2>1 DEF TokensInContext, Aligned
  <2>4. MaskAligned
    BY <2>1 DEF MaskAligned, Aligned
  <2>5. QED
    BY <2>2, <2>3, <2>4 DEF OutputContinued
<1>2. QED
  BY <1>1, PartialInvHolds, PTL

\* A complete response was made by weights of the versions recorded with it, in
\* their order, and fits response_length.
THEOREM VersionsAreRecorded == PartialSpec => []VersionsRecorded
<1>1. PartialInv => VersionsRecorded
  BY DEF PartialInv, AgentInv, Dated, VersionsRecorded
<1>2. QED
  BY <1>1, PartialInvHolds, PTL

\* _choose_server spreads the sessions evenly, and no session has two servers.
THEOREM ServersStayEven == PartialSpec => []ServersEven
<1>1. PartialInv => ServersEven
  BY DEF PartialInv, SessionInv, ServersEven
<1>2. QED
  BY <1>1, PartialInvHolds, PTL

=============================================================================
