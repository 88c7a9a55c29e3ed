----------------------------- MODULE NcclEngine -----------------------------
(***************************************************************************)
(* NCCLCheckpointEngine: rank 0 packs the weights into buckets and         *)
(* broadcasts them, the other ranks receive and yield them, each side with *)
(* two buffers.  A BroadcastOperation runs in a thread of its own: first   *)
(* the bucket's metadata over PUB/SUB, then the bucket.  The broadcast     *)
(* reads the sender's buffer in place, receiver by receiver, so that a     *)
(* buffer that is filled too early is seen.  The subscriptions are taken   *)
(* to have arrived when init_process_group returns.                        *)
(***************************************************************************)
EXTENDS WeightBuckets

CONSTANT Receivers      \* ranks > 0

NoOp == [st |-> "none", b |-> 1, meta |-> <<>>, last |-> FALSE, no |-> 0]

VARIABLES
  sop,     \* BroadcastOperation of rank 0: st, buffer b, metadata, number
  taken,   \* receivers that have the bucket of the operation under way
  sub,     \* sub[r]: metadata on its way to r
  rcv,     \* rcv[r]: pc, metadata, buffer yielded from, number of tensors yielded
  rop,     \* rop[r]: its BroadcastOperation
  rbuf,    \* rbuf[r]: its two buffers
  yielded  \* yielded[r]: the tensors handed to the inference engine

ncclVars == <<snd, sop, sbuf, taken, sub, rcv, rop, rbuf, yielded>>

\* init_process_group and prepare
NcclInit ==
  /\ SenderInit
  /\ sop = NoOp /\ taken = {}
  /\ sub = [r \in Receivers |-> <<>>]
  /\ rcv = [r \in Receivers |-> [pc |-> "first", meta |-> <<>>, last |-> FALSE,
                                 b |-> 2, n |-> 1]]
  /\ rop = [r \in Receivers |-> NoOp]
  /\ rbuf = [r \in Receivers |-> <<Blank, Blank>>]
  /\ yielded = [r \in Receivers |-> <<>>]

receiverVars == <<sub, rcv, rop, rbuf, yielded>>

------------------------------------------------------------------------------
(* send_weights                                                              *)

Pack == PackWeight /\ UNCHANGED <<sop, taken, receiverVars>>

\* Mutant: the next broadcast does not wait for the one before.
PreviousDoneAlways == TRUE

\* wait_for_complete of the previous operation, if there is one
PreviousDone == sop.st \in {"none", "done"}

\* The bucket is full, or it is the last: broadcast it and swap the buffers.
Flush ==
  /\ HandOver /\ PreviousDone
  /\ sop' = [st |-> "meta", b |-> snd.b, meta |-> snd.meta, last |-> IsLast,
             no |-> sop.no + 1]
  /\ taken' = {}
  /\ UNCHANGED receiverVars

SendDone == HandedOver /\ PreviousDone /\ UNCHANGED <<sop, taken, receiverVars>>

\* BroadcastOperation._run on rank 0
Publish ==
  /\ sop.st = "meta"
  /\ sop' = [sop EXCEPT !.st = "data"]
  /\ sub' = [r \in Receivers |-> Append(sub[r], [meta |-> sop.meta, last |-> sop.last])]
  /\ UNCHANGED <<snd, sbuf, taken, rcv, rop, rbuf, yielded>>

Sent ==
  /\ sop.st = "data" /\ taken = Receivers
  /\ sop' = [sop EXCEPT !.st = "done"]
  /\ UNCHANGED <<snd, sbuf, taken, receiverVars>>

------------------------------------------------------------------------------
(* receive_weights                                                           *)

senderVars == <<snd, sop, sbuf, taken>>
StartOp(r, b) ==
  rop' = [rop EXCEPT ![r] = [NoOp EXCEPT !.st = "meta", !.b = b, !.no = rop[r].no + 1]]

\* Step 1: the operation that receives the next bucket
Receive(r) ==
  /\ rcv[r].pc = "first" \/ (rcv[r].pc = "next" /\ ~ rcv[r].last)
  /\ StartOp(r, IF rcv[r].pc = "first" THEN rcv[r].b ELSE Other(rcv[r].b))
  /\ rcv' = [rcv EXCEPT ![r].pc = IF @ = "first" THEN "await" ELSE "yield"]
  /\ UNCHANGED <<senderVars, sub, rbuf, yielded>>

\* BroadcastOperation._run on the other ranks
RecvMeta(r) ==
  /\ rop[r].st = "meta" /\ sub[r] # <<>>
  /\ rop' = [rop EXCEPT ![r].st = "data", ![r].meta = Head(sub[r]).meta,
                        ![r].last = Head(sub[r]).last]
  /\ sub' = [sub EXCEPT ![r] = Tail(@)]
  /\ UNCHANGED <<senderVars, rcv, rbuf, yielded>>

RecvData(r) ==
  /\ rop[r].st = "data" /\ sop.st = "data" /\ r \notin taken
  /\ rbuf' = [rbuf EXCEPT ![r][rop[r].b] = sbuf[sop.b]]
  /\ taken' = taken \cup {r}
  /\ rop' = [rop EXCEPT ![r].st = "done"]
  /\ UNCHANGED <<snd, sop, sbuf, sub, rcv, yielded>>

\* The last bucket is yielded without another operation.
YieldLast(r) ==
  /\ rcv[r].pc = "next" /\ rcv[r].last
  /\ rcv' = [rcv EXCEPT ![r].pc = "yield"]
  /\ UNCHANGED <<senderVars, sub, rop, rbuf, yielded>>

\* Step 2: the inference engine consumes the tensor before the next is yielded.
YieldTensor(r) ==
  LET c == rcv[r]
  IN /\ c.pc = "yield" /\ c.n <= Len(c.meta)
     /\ yielded' = [yielded EXCEPT ![r] = Append(@, Tensor(rbuf[r][c.b], c.meta[c.n]))]
     /\ rcv' = [rcv EXCEPT ![r].n = @ + 1]
     /\ UNCHANGED <<senderVars, sub, rop, rbuf>>

YieldEnd(r) ==
  /\ rcv[r].pc = "yield" /\ rcv[r].n > Len(rcv[r].meta)
  /\ rcv' = [rcv EXCEPT ![r].pc = IF rcv[r].last THEN "done" ELSE "await"]
  /\ UNCHANGED <<senderVars, sub, rop, rbuf, yielded>>

\* The buffer the operation that is waited for has filled
ReceivedInto(r) == rop[r].b

\* Steps 3 and 4: the bucket is there, the buffers change places.
Swap(r) ==
  /\ rcv[r].pc = "await" /\ rop[r].st = "done"
  /\ rcv' = [rcv EXCEPT ![r] = [pc |-> "next", meta |-> rop[r].meta, last |-> rop[r].last,
                                b |-> ReceivedInto(r), n |-> 1]]
  /\ UNCHANGED <<senderVars, sub, rop, rbuf, yielded>>

NcclNext ==
  \/ Pack \/ Flush \/ SendDone \/ Publish \/ Sent
  \/ \E r \in Receivers : \/ Receive(r) \/ RecvMeta(r) \/ RecvData(r) \/ YieldLast(r)
                          \/ YieldTensor(r) \/ YieldEnd(r) \/ Swap(r)

NcclDone == snd.pc = "done" /\ \A r \in Receivers : rcv[r].pc = "done"

NcclSpec == NcclInit /\ [][NcclNext]_ncclVars

------------------------------------------------------------------------------
(* Properties                                                                *)

(* Metadata and buckets travel on two channels: a receiver pairs each bucket *)
(* with the metadata of the same broadcast, and neither side runs more than  *)
(* one broadcast ahead.                                                      *)
MetaMatchesBucket ==
  \A r \in Receivers :
    /\ rop[r].st = "data" /\ sop.st = "data" /\ r \notin taken =>
         rop[r].no = sop.no /\ rop[r].meta = sop.meta
    /\ Len(sub[r]) <= 1 /\ rop[r].no <= sop.no + 1

(* send_weights / receive_weights with two buffers each: every receiver      *)
(* yields the weights in the sender's order, each intact, though the next    *)
(* bucket is filled and broadcast meanwhile, and all of them in the end.     *)
YieldedInOrder ==
  \A r \in Receivers :
    /\ InOrder(yielded[r])
    /\ rcv[r].pc = "done" => Len(yielded[r]) = Len(WeightSize)

(* The NCCL engine delivers: metadata and buckets stay paired although they  *)
(* travel apart, and every receiver gets all weights, in order and intact.   *)
NcclDelivers == MetaMatchesBucket /\ YieldedInOrder
=============================================================================
