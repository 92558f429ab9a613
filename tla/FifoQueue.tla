----------------------------- MODULE FifoQueue -----------------------------
(***************************************************************************)
(* What a CopyChannel promises its users, threads and locks left out: the  *)
(* values that went in come out once each, in order, one or several at a   *)
(* time; and nothing goes in once the queue is closed.                     *)
(***************************************************************************)
EXTENDS Integers, Sequences

CONSTANT Values

VARIABLES
  q,       \* the values inside
  closed,  \* no more values are accepted
  out      \* the values that came out, in order

qVars == <<q, closed, out>>

QInit == q = <<>> /\ closed = FALSE /\ out = <<>>

Put(v) ==
  /\ ~closed
  /\ q' = Append(q, v)
  /\ UNCHANGED <<closed, out>>

TakeFirst(n) ==
  /\ out' = out \o SubSeq(q, 1, n)
  /\ q' = SubSeq(q, n + 1, Len(q))
  /\ UNCHANGED closed

Shut == closed' = TRUE /\ UNCHANGED <<q, out>>

QNext ==
  \/ \E v \in Values : Put(v)
  \/ \E n \in 1 .. Len(q) : TakeFirst(n)
  \/ Shut

QSpec == QInit /\ [][QNext]_qVars
=============================================================================
