----------------------------- MODULE NixlEngine -----------------------------
(***************************************************************************)
(* NIXLCheckpointEngine: the ranks form a chain.  A rank announces its     *)
(* bucket to the next one (ReadableOperation), which reads it out of the   *)
(* announcing rank's memory (ReadOperation) and notifies it; meanwhile the *)
(* rank reads the next bucket from the rank before and yields the tensors. *)
(* A transfer that has begun takes the data at any time until it ends.     *)
(***************************************************************************)
EXTENDS WeightBuckets

CONSTANT ChainLen      \* world_size - 1: the ranks after rank 0

ASSUME ChainAssumption == ChainLen \in Nat \ {0}

Chain == 1 .. ChainLen

VARIABLES
  note,   \* note[r]: metadata announced to rank r, not yet read
  open,   \* open[r]: number of the ReadableOperation of r not yet notified, or 0
  link,   \* link[r]: rank r of the chain: pc, metadata, buffer yielded from, ...
  lbuf,   \* lbuf[r]: its two buffers
  handed  \* handed[r]: the tensors it yielded

nixlVars == <<snd, sbuf, note, open, link, lbuf, handed>>

NixlInit ==
  /\ SenderInit
  /\ note = [r \in Chain |-> <<>>]
  /\ open = [r \in 0 .. ChainLen |-> 0]
  /\ link = [r \in Chain |->
       [pc |-> "first", meta |-> <<>>, last |-> FALSE, b |-> 1, n |-> 1,
        read |-> "none", from |-> 1, key |-> 0, nmeta |-> <<>>, nlast |-> FALSE]]
  /\ lbuf = [r \in Chain |-> <<Blank, Blank>>]
  /\ handed = [r \in Chain |-> <<>>]

Buffer(r, b) == IF r = 0 THEN sbuf[b] ELSE lbuf[r][b]

\* ReadableOperation: the metadata and the buffer are announced to the next.
Announce(r, meta, last, b, key) ==
  IF r = ChainLen THEN UNCHANGED <<note, open>>
  ELSE /\ note' = [note EXCEPT ![r + 1] =
                     Append(@, [meta |-> meta, last |-> last, b |-> b, key |-> key])]
       /\ open' = [open EXCEPT ![r] = key]

\* Mutant: the announced bucket is not waited for.
ReadByNextAlways(r) == TRUE

\* ReadableOperation.wait_for_complete
ReadByNext(r) == open[r] = 0

------------------------------------------------------------------------------
(* send_weights on rank 0                                                    *)

NixlPack == PackWeight /\ UNCHANGED <<note, open, link, lbuf, handed>>
NixlFlush ==
  /\ HandOver /\ ReadByNext(0)
  /\ Announce(0, snd.meta, IsLast, snd.b, snd.w)
  /\ UNCHANGED <<link, lbuf, handed>>
NixlSendDone ==
  /\ HandedOver /\ ReadByNext(0)
  /\ UNCHANGED <<note, open, link, lbuf, handed>>

------------------------------------------------------------------------------
(* receive_weights on the others                                             *)

\* read_metadata and begin_read, for the first bucket and for each next one
BeginRead(r) ==
  /\ link[r].pc \in {"first", "meta"} /\ note[r] # <<>>
  /\ LET m == Head(note[r]) IN
       link' = [link EXCEPT ![r] = [@ EXCEPT
         !.pc = IF link[r].pc = "first" THEN "wait" ELSE "yield", !.read = "begun",
         !.from = m.b, !.key = m.key, !.nmeta = m.meta, !.nlast = m.last]]
  /\ note' = [note EXCEPT ![r] = Tail(@)]
  /\ UNCHANGED <<snd, sbuf, open, lbuf, handed>>

\* The transfer ends: the data is here and its owner is notified with the key.
TransferEnds(r) ==
  /\ link[r].read = "begun"
  /\ lbuf' = [lbuf EXCEPT ![r][Other(link[r].b)] = Buffer(r - 1, link[r].from)]
  /\ link' = [link EXCEPT ![r].read = "done"]
  /\ open' = [open EXCEPT ![r - 1] = IF @ = link[r].key THEN 0 ELSE @]
  /\ UNCHANGED <<snd, sbuf, note, handed>>

Yield(r) ==
  LET k == link[r]
  IN /\ k.pc = "yield" /\ k.n <= Len(k.meta)
     /\ handed' = [handed EXCEPT ![r] = Append(@, Tensor(lbuf[r][k.b], k.meta[k.n]))]
     /\ link' = [link EXCEPT ![r].n = @ + 1]
     /\ UNCHANGED <<snd, sbuf, note, open, lbuf>>

Yielded(r) ==
  /\ link[r].pc = "yield" /\ link[r].n > Len(link[r].meta)
  /\ link' = [link EXCEPT ![r].pc = "wait"]
  /\ UNCHANGED <<snd, sbuf, note, open, lbuf, handed>>

\* Both operations are complete: swap, and announce the new bucket.
SwapLink(r) ==
  LET k == link[r]
  IN /\ k.pc = "wait" /\ ~ k.last /\ ReadByNext(r) /\ k.read = "done"
     /\ link' = [link EXCEPT ![r] = [@ EXCEPT
          !.pc = IF k.nlast THEN "yield" ELSE "meta", !.meta = k.nmeta,
          !.last = k.nlast, !.b = Other(k.b), !.n = 1, !.read = "none"]]
     /\ Announce(r, k.nmeta, k.nlast, Other(k.b), k.key)
     /\ UNCHANGED <<snd, sbuf, lbuf, handed>>

\* The last bucket: only the next rank is waited for.
EndLink(r) ==
  /\ link[r].pc = "wait" /\ link[r].last /\ ReadByNext(r)
  /\ link' = [link EXCEPT ![r].pc = "done"]
  /\ UNCHANGED <<snd, sbuf, note, open, lbuf, handed>>

NixlNext ==
  \/ NixlPack \/ NixlFlush \/ NixlSendDone
  \/ \E r \in Chain : \/ BeginRead(r) \/ TransferEnds(r) \/ Yield(r) \/ Yielded(r)
                      \/ SwapLink(r) \/ EndLink(r)

NixlDone == snd.pc = "done" /\ \A r \in Chain : link[r].pc = "done"

NixlSpec == NixlInit /\ [][NixlNext]_nixlVars

------------------------------------------------------------------------------
(* Properties                                                                *)

(* wait_for_complete asserts that the notification carries the key of its    *)
(* own operation: a rank has at most one announced bucket, and a transfer    *)
(* that has begun answers to the operation its owner waits for.              *)
KeysMatch ==
  \A r \in Chain :
    /\ Len(note[r]) + (IF link[r].read = "begun" THEN 1 ELSE 0) <= 1
    /\ link[r].read = "begun" => open[r - 1] = link[r].key
    /\ \A i \in 1 .. Len(note[r]) : open[r - 1] = note[r][i].key

(* The pipeline of buckets down the chain: every rank yields all weights     *)
(* intact and in the sender's order, though each buffer is read by the next  *)
(* rank, yielded from and refilled in turn.                                  *)
HandedInOrder ==
  \A r \in Chain :
    /\ InOrder(handed[r])
    /\ link[r].pc = "done" => Len(handed[r]) = Len(WeightSize)

(* The NIXL engine delivers: a buffer is refilled only after the reader of   *)
(* this very bucket has reported, and every rank of the chain gets all       *)
(* weights, in order and intact.                                             *)
NixlDelivers == KeysMatch /\ HandedInOrder
=============================================================================
