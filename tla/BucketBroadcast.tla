-------------------------- MODULE BucketBroadcast --------------------------
(***************************************************************************)
(* The transfer of the weights from the trainer's ranks to the rollout's   *)
(* ranks: sync_rollout_weights_by_checkpoint (fsdp_workers.py) and the     *)
(* CheckpointEngine (checkpoint_engine.py) of the asynchronous job.        *)
(*                                                                         *)
(* Memory is a sequence of cells of one alignment unit; the cell j of      *)
(* parameter p in round v is <<p, j, v>>.  Every rank runs its main thread *)
(* and, when broadcast and loading overlap, a consumer thread it talks to  *)
(* over a REQ/REP socket.  A broadcast is a message of its source that     *)
(* every other rank takes when it gets there (the source does not wait);   *)
(* only barrier() makes the ranks wait for each other.                     *)
(***************************************************************************)
EXTENDS Integers, Sequences, FiniteSets, FiniteSetsExt, Functions

CONSTANTS
  ActorNum, RolloutNum,  \* ranks 0 .. ActorNum - 1 train, the next ones generate
  ParamSize,             \* aligned sizes in weights_info, in cells
  DeviceBuffer,          \* device_buffer_size_M, in cells
  Rounds                 \* bound: how often the weights are transferred

ASSUME TransferAssumption ==
  /\ ActorNum \in Nat \ {0} /\ RolloutNum \in Nat /\ DeviceBuffer \in Nat \ {0}
  /\ ParamSize \in Seq(Nat \ {0}) /\ ParamSize # <<>> /\ Rounds \in Nat \ {0}

actor_ranks == 0 .. ActorNum - 1
rollout_ranks == ActorNum .. ActorNum + RolloutNum - 1
Ranks == actor_ranks \cup rollout_ranks
Params == 1 .. Len(ParamSize)
Free == <<0, 0, 0>>            \* what a fresh buffer holds

------------------------------------------------------------------------------
(* register_checkpoint: the layout every rank computes for itself            *)

bucket_size == Max({DeviceBuffer} \cup Range(ParamSize))

\* Where the n-th parameter of a bucket starts; the last one is the bucket's end.
Offsets(bucket) ==
  LET f[n \in 1 .. Len(bucket) + 1] ==
        IF n = 1 THEN 0 ELSE f[n - 1] + ParamSize[bucket[n - 1]]
  IN  f
Size(bucket) == Offsets(bucket)[Len(bucket) + 1]

\* A bucket that has no room for the next parameter is closed.
Place(buckets, p) ==
  LET last == buckets[Len(buckets)]
  IN IF Size(last) + ParamSize[p] > bucket_size
       THEN Append(buckets, <<p>>)
       ELSE [buckets EXCEPT ![Len(buckets)] = Append(@, p)]

\* The loop over weights_info: a parameter goes to the last bucket of its rank.
BucketsBefore[p \in 1 .. Len(ParamSize) + 1] ==
  IF p = 1 THEN [r \in actor_ranks |-> << <<>> >>]
  ELSE [BucketsBefore[p - 1] EXCEPT ![(p - 2) % ActorNum] = Place(@, p - 1)]
global_buckets == BucketsBefore[Len(ParamSize) + 1]
max_h2d_iter == Max({Len(global_buckets[r]) : r \in actor_ranks})

\* The broadcasts of an update: for every i the ranks that have an i-th bucket.
Turn(k) == [rank |-> (k - 1) % ActorNum, i |-> (k - 1) \div ActorNum + 1]
HasTurn(t) == t.i <= Len(global_buckets[t.rank])
BroadcastsBefore[k \in 1 .. max_h2d_iter * ActorNum + 1] ==
  IF k = 1 THEN <<>>
  ELSE BroadcastsBefore[k - 1] \o (IF HasTurn(Turn(k - 1)) THEN << Turn(k - 1) >> ELSE <<>>)
Schedule == BroadcastsBefore[max_h2d_iter * ActorNum + 1]
Bucket(g) == global_buckets[Schedule[g].rank][Schedule[g].i]

\* The parameters cache_actor_weights_to_cpu keeps on rank r.
Cached(r) == {p \in Params : r \in actor_ranks /\ (p - 1) % ActorNum = r}

\* _to_flattened_tensor_meta: where the n-th parameter of a bucket starts
Offset(bucket, n) == Offsets(bucket)[n]

\* The cells of parameter p in round v
Cells(p, v) == [j \in 1 .. ParamSize[p] |-> <<p, j, v>>]

\* The pinned memory of a bucket: register_tensor copies the n-th parameter to
\* its offset.
Packed(bucket, v) ==
  [c \in 1 .. Size(bucket) |->
     LET n == CHOOSE n \in 1 .. Len(bucket) : c - Offset(bucket, n) \in 1 .. ParamSize[bucket[n]]
     IN  Cells(bucket[n], v)[c - Offset(bucket, n)]]

------------------------------------------------------------------------------
VARIABLES
  overlap,   \* overlap_broadcast_and_consume
  main,      \* main[r]: main thread: pc, round, g (broadcast number), barriers passed
  mem,       \* mem[r]: memory_buffers of rank r
  h2d,       \* h2d[r]: h2d_buffer
  buf,       \* buf[r]: broadcast_load_buffer
  net,       \* net[g]: what the source of broadcast g of this round has sent
  sock,      \* sock[r]: the request (or the answer) in the REQ/REP socket
  cons,      \* cons[r]: consumer thread: pc, g and start of the payload, n done
  loaded     \* loaded[r][p]: the cells load_weights last got for parameter p

tensors == <<mem, h2d, buf, net, loaded>>
transferVars == <<overlap, main, tensors, sock, cons>>

NoAnswer == [kind |-> "none", g |-> 0, start |-> 0]
Send(kind, g, start) == [kind |-> kind, g |-> g, start |-> start]
Idle == [pc |-> "off", g |-> 0, start |-> 0, n |-> 0]

TransferInit ==
  /\ overlap \in BOOLEAN
  /\ main = [r \in Ranks |-> [pc |-> "register", round |-> 1, g |-> 0, bar |-> 0]]
  /\ mem = [r \in Ranks |-> <<>>] /\ h2d = [r \in Ranks |-> <<>>]
  /\ buf = [r \in Ranks |-> <<>>]
  /\ net = << >>
  /\ sock = [r \in Ranks |-> NoAnswer] /\ cons = [r \in Ranks |-> Idle]
  /\ loaded = [r \in rollout_ranks |-> [p \in Params |-> <<>>]]

Go(r, pc) == main' = [main EXCEPT ![r].pc = pc]
At(r, pc) == main[r].pc = pc

\* cache_actor_weights_to_cpu and register_checkpoint
Register(r) ==
  /\ At(r, "register")
  /\ r \in actor_ranks =>
       \A i \in 1 .. Len(global_buckets[r]) : Range(global_buckets[r][i]) \subseteq Cached(r)
  /\ mem' = [mem EXCEPT ![r] =
       IF r \in actor_ranks
         THEN [i \in 1 .. Len(global_buckets[r]) |->
                 Packed(global_buckets[r][i], main[r].round)]
         ELSE <<>>]
  /\ main' = [main EXCEPT ![r].pc = "ready", ![r].bar = @ + 1]
  /\ UNCHANGED <<overlap, h2d, buf, net, sock, cons, loaded>>

\* barrier(): a rank leaves when all have come.
Passed(r) == \A s \in Ranks : main[s].bar >= main[r].bar

\* update_checkpoint: fresh buffers; the consumer is started and greeted.
Start(r) ==
  /\ At(r, "ready") /\ Passed(r)
  /\ main' = [main EXCEPT ![r].pc = "copy", ![r].g = 1]
  /\ buf' = [buf EXCEPT ![r] =
       [c \in 1 .. bucket_size * (IF overlap THEN 2 ELSE 1) |-> Free]]
  /\ sock' = IF overlap THEN [sock EXCEPT ![r] = Send("hello", 0, 0)] ELSE sock
  /\ cons' = IF overlap THEN [cons EXCEPT ![r].pc = "wait"] ELSE cons
  /\ UNCHANGED <<overlap, mem, h2d, net, loaded>>

Written(b, start, cells) ==
  [c \in 1 .. Len(b) |-> IF c - start \in 1 .. Len(cells) THEN cells[c - start] ELSE b[c]]

\* Mutant: broadcast and loading share one half of the buffer.
HalfShared(g) == 0

\* start: the half of the buffer that broadcast g uses
Half(g) == IF overlap THEN ((g - 1) % 2) * bucket_size ELSE 0

\* Step 1 copies the i-th bucket to the device, once for every i; the source
\* copies it on into the buffer and broadcasts the buffer.
Copy(r) ==
  LET g == main[r].g
      b == Schedule[g]
      fresh == (g = 1 \/ Schedule[g - 1].i # b.i) /\ b.i <= Len(mem[r])
      h == IF fresh THEN mem[r][b.i] ELSE h2d[r]
  IN /\ At(r, "copy") /\ g <= Len(Schedule)
     /\ h2d' = [h2d EXCEPT ![r] = h]
     /\ IF b.rank = r
          THEN /\ buf' = [buf EXCEPT ![r] = Written(@, Half(g), h)]
               /\ net' = Append(net, SubSeq(buf'[r], Half(g) + 1,
                                            Half(g) + Size(Bucket(g))))
          ELSE UNCHANGED <<buf, net>>
     /\ Go(r, IF b.rank = r THEN "got" ELSE "take")
     /\ UNCHANGED <<overlap, mem, sock, cons, loaded>>

\* collective.broadcast on a rank that is not the source
Take(r) ==
  LET g == main[r].g
  IN /\ At(r, "take") /\ g <= Len(net)
     /\ buf' = [buf EXCEPT ![r] = Written(@, Half(g), net[g])]
     /\ Go(r, "got")
     /\ UNCHANGED <<overlap, mem, h2d, net, sock, cons, loaded>>

\* _extract_weights: the cells of the n-th parameter of a bucket
Extract(r, g, start, n) ==
  LET o == start + Offset(Bucket(g), n)
  IN SubSeq(buf[r], o + 1, o + ParamSize[Bucket(g)[n]])

Loads(r) == r \in rollout_ranks

\* Without overlap the main thread loads the bucket itself.
LoadNow(r) ==
  LET g == main[r].g
  IN /\ At(r, "got") /\ ~ overlap
     /\ loaded' = IF ~ Loads(r) THEN loaded
          ELSE [loaded EXCEPT ![r] = [p \in Params |->
                  IF \E n \in 1 .. Len(Bucket(g)) : Bucket(g)[n] = p
                    THEN Extract(r, g, 0, CHOOSE n \in 1 .. Len(Bucket(g)) :
                                            Bucket(g)[n] = p)
                    ELSE @[p]]]
     /\ main' = [main EXCEPT ![r].pc = "copy", ![r].g = @ + 1]
     /\ UNCHANGED <<overlap, mem, h2d, buf, net, sock, cons>>

\* socket.recv(): the consumer has answered the last request.
Answered(r) == sock[r].kind = "ack"

\* With overlap it waits for the consumer's last answer, then for the others.
Await(r) ==
  /\ At(r, "got") /\ overlap /\ Answered(r)
  /\ main' = [main EXCEPT ![r].pc = "bar", ![r].bar = @ + 1]
  /\ UNCHANGED <<overlap, tensors, sock, cons>>

SendBucket(r) ==
  /\ At(r, "bar") /\ Passed(r)
  /\ sock' = [sock EXCEPT ![r] = Send("bucket", main[r].g, Half(main[r].g))]
  /\ main' = [main EXCEPT ![r].pc = "copy", ![r].g = @ + 1]
  /\ UNCHANGED <<overlap, tensors, cons>>

\* The end: the last answer, None, its answer, join; then the last barrier.
SendNone(r) ==
  /\ At(r, "copy") /\ overlap /\ main[r].g > Len(Schedule) /\ Answered(r)
  /\ sock' = [sock EXCEPT ![r] = Send("None", 0, 0)]
  /\ Go(r, "join")
  /\ UNCHANGED <<overlap, tensors, cons>>

Join(r) ==
  /\ \/ At(r, "join") /\ Answered(r) /\ cons[r].pc = "off"
     \/ At(r, "copy") /\ ~ overlap /\ main[r].g > Len(Schedule)
  /\ main' = [main EXCEPT ![r].pc = "last", ![r].bar = @ + 1]
  /\ sock' = [sock EXCEPT ![r] = NoAnswer]
  /\ UNCHANGED <<overlap, tensors, cons>>

\* memory_buffers = []; the next round starts once every rank has returned.
Leave(r) ==
  /\ At(r, "last") /\ Passed(r)
  /\ mem' = [mem EXCEPT ![r] = <<>>]
  /\ Go(r, "done")
  /\ UNCHANGED <<overlap, h2d, buf, net, sock, cons, loaded>>

NextRound ==
  /\ \A r \in Ranks : At(r, "done") /\ main[r].round < Rounds
  /\ main' = [r \in Ranks |->
       [main[r] EXCEPT !.pc = "register", !.round = @ + 1, !.g = 0, !.bar = 0]]
  /\ net' = << >>
  /\ h2d' = [r \in Ranks |-> <<>>] /\ buf' = [r \in Ranks |-> <<>>]
  /\ UNCHANGED <<overlap, mem, sock, cons, loaded>>

------------------------------------------------------------------------------
(* update_weights_from_ipc_: the consumer thread                             *)

consOther == <<overlap, main, mem, h2d, buf, net>>

\* A request is received: a greeting, a bucket or the end.
Serve(r) ==
  /\ cons[r].pc = "wait" /\ sock[r].kind \in {"hello", "bucket", "None"}
  /\ IF sock[r].kind = "bucket"
       THEN /\ cons' = [cons EXCEPT ![r] = [pc |-> "load", g |-> sock[r].g,
                                            start |-> sock[r].start, n |-> 1]]
            /\ UNCHANGED sock
       ELSE /\ cons' = [cons EXCEPT ![r].pc = IF sock[r].kind = "None" THEN "off" ELSE @]
            /\ sock' = [sock EXCEPT ![r].kind = "ack"]
  /\ UNCHANGED <<consOther, loaded>>

\* load_weights takes the parameters of the bucket one by one from the buffer.
Load(r) ==
  LET c == cons[r]
  IN /\ c.pc = "load" /\ c.n <= Len(Bucket(c.g))
     /\ loaded' = IF ~ Loads(r) THEN loaded
          ELSE [loaded EXCEPT ![r][Bucket(c.g)[c.n]] = Extract(r, c.g, c.start, c.n)]
     /\ cons' = [cons EXCEPT ![r].n = @ + 1]
     /\ UNCHANGED <<consOther, sock>>

Reply(r) ==
  /\ cons[r].pc = "load" /\ cons[r].n > Len(Bucket(cons[r].g))
  /\ sock' = [sock EXCEPT ![r] = Send("ack", 0, 0)]
  /\ cons' = [cons EXCEPT ![r] = [Idle EXCEPT !.pc = "wait"]]
  /\ UNCHANGED <<consOther, loaded>>

RankNext(r) ==
  \/ Register(r) \/ Start(r) \/ Copy(r) \/ Take(r) \/ LoadNow(r) \/ Await(r)
  \/ SendBucket(r) \/ SendNone(r) \/ Join(r) \/ Leave(r)
  \/ Serve(r) \/ Load(r) \/ Reply(r)

TransferDone == \A r \in Ranks : At(r, "done") /\ main[r].round = Rounds

TransferNext == (\E r \in Ranks : RankNext(r)) \/ NextRound

TransferSpec == TransferInit /\ [][TransferNext]_transferVars

------------------------------------------------------------------------------
(* Properties                                                                *)

(* The layout: every bucket fits the buffer, every parameter is in exactly   *)
(* one, and the memories stay within their sizes.                            *)
TransferTypeOK ==
  /\ \A g \in 1 .. Len(Schedule) : Size(Bucket(g)) \in 0 .. bucket_size
  /\ \A p \in Params : Cardinality({g \in 1 .. Len(Schedule) : p \in Range(Bucket(g))}) = 1
  /\ \A r \in Ranks :
       /\ main[r].round \in 1 .. Rounds /\ main[r].g \in 0 .. Len(Schedule) + 1
       /\ Len(buf[r]) \in {0, bucket_size, 2 * bucket_size}
       /\ r \in rollout_ranks => mem[r] = <<>>

(* update_checkpoint with its two buffer halves: what load_weights gets for  *)
(* a parameter is that parameter, whole and of the round under way, though   *)
(* the next bucket is broadcast into the other half meanwhile.               *)
LoadedIntact ==
  \A r \in rollout_ranks : \A p \in Params : loaded[r][p] # <<>> =>
    \E v \in {main[r].round - 1, main[r].round} :
      loaded[r][p] = Cells(p, v)

(* The last barrier: when a rank returns from a round, every rollout rank    *)
(* has loaded every parameter of that round.                                 *)
AllLoaded ==
  (\E r \in Ranks : At(r, "done")) =>
    \A s \in rollout_ranks : \A p \in Params :
      loaded[s][p] = Cells(p, main[s].round)

(* update_checkpoint as a whole: the buckets fit, and a round ends with      *)
(* every parameter of it loaded by every rollout rank, whole.                *)
WeightsLoaded == TransferTypeOK /\ LoadedIntact /\ AllLoaded
=============================================================================
