------------------------------ MODULE LossyLog ------------------------------
(***************************************************************************)
(* What the message queue promises its two ends: a log that the producer   *)
(* appends to and a read position that only moves forward.  The consumer   *)
(* receives the entry at the read position; entries may be skipped (the    *)
(* queue was full, or was cleared) but an entry is never received twice,   *)
(* never received out of order, and at most Window entries are unread.     *)
(***************************************************************************)
EXTENDS Naturals, Sequences

CONSTANTS Entries, Window

VARIABLES log,       \* every entry ever appended
          pos,       \* entries below or at pos are gone
          received   \* what the consumer has been given, in order

logVars == <<log, pos, received>>

LogInit == log = <<>> /\ pos = 0 /\ received = <<>>

Write(e) ==
  /\ log' = Append(log, e)
  /\ pos' = IF Len(log) - pos >= Window THEN pos + 1 ELSE pos
  /\ UNCHANGED received

Read ==
  /\ pos < Len(log)
  /\ pos' = pos + 1
  /\ received' = Append(received, log[pos + 1])
  /\ UNCHANGED log

Forget ==
  /\ pos' = Len(log)
  /\ UNCHANGED <<log, received>>

LogNext == (\E e \in Entries : Write(e)) \/ Read \/ Forget

LogSpec == LogInit /\ [][LogNext]_logVars
=============================================================================
