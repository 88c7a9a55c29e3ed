--------------------------- MODULE WeightBuckets ---------------------------
(***************************************************************************)
(* What send_weights of the NCCL and of the NIXL checkpoint engine have in *)
(* common: rank 0 packs the weights into one of two buffers while the      *)
(* bucket in the other one is under way.  Memory is counted in cells; cell *)
(* j of weight w is <<w, j>>.                                              *)
(***************************************************************************)
EXTENDS Integers, Sequences

CONSTANTS
  WeightSize,     \* nbytes of the weights, in cells
  BucketCells     \* bucket_size

ASSUME BucketAssumption ==
  /\ WeightSize \in Seq(Nat \ {0}) /\ BucketCells \in Nat
  /\ \A w \in 1 .. Len(WeightSize) : WeightSize[w] <= BucketCells

Weights == 1 .. Len(WeightSize)
Blank == [c \in 1 .. BucketCells |-> <<0, 0>>]
Other(b) == 3 - b

VARIABLES
  snd,     \* rank 0: pc, next weight, offset, bucket_meta, buffer being filled
  sbuf     \* its send_buf and recv_buf

\* prepare
SenderInit ==
  /\ snd = [pc |-> "pack", w |-> 1, offset |-> 0, meta |-> <<>>, b |-> 1]
  /\ sbuf = <<Blank, Blank>>

\* The next weight fits behind the others of the bucket.
Room == snd.w \in Weights /\ snd.offset + WeightSize[snd.w] <= BucketCells

\* The weight is copied into the bucket.
PackWeight ==
  LET size == WeightSize[snd.w]
  IN /\ snd.pc = "pack" /\ Room
     /\ sbuf' = [sbuf EXCEPT ![snd.b] =
          [c \in 1 .. BucketCells |->
             IF c - snd.offset \in 1 .. size THEN <<snd.w, c - snd.offset>> ELSE @[c]]]
     /\ snd' = [snd EXCEPT !.w = @ + 1, !.offset = @ + size,
                  !.meta = Append(@, [name |-> snd.w, offset |-> snd.offset])]

IsLast == snd.w \notin Weights

\* The bucket is handed over, the buffers change places.
HandOver ==
  /\ snd.pc = "pack" /\ ~ Room
  /\ snd' = [snd EXCEPT !.pc = IF IsLast THEN "wait" ELSE @, !.b = Other(@),
                        !.meta = <<>>, !.offset = 0]
  /\ UNCHANGED sbuf

HandedOver ==
  /\ snd.pc = "wait"
  /\ snd' = [snd EXCEPT !.pc = "done"]
  /\ UNCHANGED sbuf

\* The tensor that the metadata entry m names, in the buffer buf
Tensor(buf, m) == [name |-> m.name,
                   tensor |-> SubSeq(buf, m.offset + 1, m.offset + WeightSize[m.name])]

\* All weights of a sequence of tensors are intact and in the sender's order.
InOrder(tensors) ==
  \A n \in 1 .. Len(tensors) :
    tensors[n] = [name |-> n, tensor |-> [j \in 1 .. WeightSize[n] |-> <<n, j>>]]
=============================================================================
